--------------------------- MODULE ReviewedMatches ---------------------------
(***************************************************************************)
(* What the matcher and the reviewers promise about the match rows of the   *)
(* database, whoever runs beside whom: a matcher run refreshes at once the  *)
(* rows of one cigar that no human has ruled on, at most one row of each    *)
(* pack size; a reviewer's verdict changes one row and is never undone by a *)
(* matcher.                                                                 *)
(***************************************************************************)
CONSTANTS Cigars, Entries, Buckets, Scores, Admins, None, NoScore

VARIABLE match

HumanStatus == {"human_accepted", "human_rejected"}
AutoStatus == {"auto_accepted", "pending_review"}

Row == [status : {"absent"} \cup AutoStatus \cup HumanStatus, score : Scores,
        bucket : Buckets \cup {None}, reviewed_by : Admins \cup {None}]

NoMatch == [status |-> "absent", score |-> NoScore, bucket |-> None, reviewed_by |-> None]

Reviewed(row) == row.status \in HumanStatus

Init == match = [c \in Cigars |-> [e \in Entries |-> NoMatch]]

(* The pairs whose row a step changes.                                      *)
Changed(c) == {e \in Entries : match'[c][e] # match[c][e]}

(* A run of the matcher for cigar c.                                        *)
Rematch(c) ==
  /\ match' \in [Cigars -> [Entries -> Row]]
  /\ \A d \in Cigars \ {c} : Changed(d) = {}
  /\ \A e \in Changed(c) :
       /\ ~Reviewed(match[c][e])
       /\ match'[c][e].status \in AutoStatus
       /\ match'[c][e].reviewed_by = None
       /\ \A f \in Changed(c) : match'[c][e].bucket = match'[c][f].bucket => e = f

(* A reviewer's verdict on a row: who and what, and nothing else.           *)
Review(c, e) ==
  /\ match[c][e] # NoMatch
  /\ \E status \in HumanStatus, a \in Admins :
       match' = [match EXCEPT ![c][e].status = status, ![c][e].reviewed_by = a]

Next == \E c \in Cigars : Rematch(c) \/ \E e \in Entries : Review(c, e)

Spec == Init /\ [][Next]_match
=============================================================================
