------------------------------- MODULE Scoring -------------------------------
(***************************************************************************)
(* How the matcher scores a customs entry for a cigar and what it decides.  *)
(* A score is a number of ten-thousandths.  The text and vector signals     *)
(* depend only on the two labels and the two embeddings, none of which      *)
(* changes, so their weighted sum is one number per pair; the pack_compat   *)
(* signal depends on the packages the cigar is sold in and on the entry's   *)
(* pack_size, which change, and is computed.                                *)
(***************************************************************************)
EXTENDS Integers

CONSTANT None   \* an unknown pack_size (SQL NULL)

Similarities == 0..9000   \* exact, fuzzy and vector, weighted: 90 % of the score
Scores == 0..10000
StoredScores == 0..1000   \* NUMERIC(4,3)

Distance(a, b) == IF a < b THEN b - a ELSE a - b

(* The cigar's pack size that is nearest to the candidate's, the smaller of *)
(* two as near; the smallest when the candidate's is not known.             *)
PickPackSize(available, candidate) ==
  LET misses(n) == IF candidate = None THEN 0 ELSE Distance(n, candidate)
  IN IF available = {} THEN None
     ELSE CHOOSE s \in available : \A t \in available :
            misses(s) < misses(t) \/ (misses(s) = misses(t) /\ s <= t)

(* The ladder, in hundredths; a ratio is compared by cross-multiplying.     *)
RatioScore(small, large) ==
  IF 10 * small >= 8 * large THEN 80
  ELSE IF 2 * small >= large THEN 50
  ELSE IF 5 * small >= large THEN 30
  ELSE 20

PackCompat(expected, candidate) ==
  IF expected = candidate THEN 100
  ELSE IF None \in {expected, candidate} THEN 70
  ELSE IF expected < candidate THEN RatioScore(expected, candidate)
  ELSE RatioScore(candidate, expected)

WeightedScore(similarity, available, pack_size) ==
  similarity + 10 * PackCompat(PickPackSize(available, pack_size), pack_size)

AutoAcceptThreshold == 8500
ReviewThreshold == 5000

Decide(score) ==
  IF score >= AutoAcceptThreshold THEN "auto_accepted"
  ELSE IF score >= ReviewThreshold THEN "pending_review"
  ELSE "auto_rejected"

(* The stored score has three decimals.                                     *)
QuantizeScore(score) == (score + 5) \div 10
=============================================================================
