--------------------------- MODULE MatchingProofs ---------------------------
(***************************************************************************)
(* Theorems about Matching, for every value of its constants.               *)
(***************************************************************************)
EXTENDS Matching, SequenceLemmas, FiniteSetTheorems

-----------------------------------------------------------------------------
(* What the scorer returns.                                                 *)

(* A weighted score is between 0 and 1, and its rounding too.               *)
LEMMA ScoreRange ==
  ASSUME NEW similarity \in Similarities, NEW available, NEW candidate
  PROVE  LET score == WeightedScore(similarity, available, candidate)
         IN score \in Scores /\ QuantizeScore(score) \in StoredScores
<1> DEFINE expected == PickPackSize(available, candidate)
           compat == PackCompat(expected, candidate)
<1> HIDE DEF expected
<1>1. compat \in 0..100
  BY DEF PackCompat, RatioScore
<1> HIDE DEF compat
<1>2. WeightedScore(similarity, available, candidate) = similarity + 10 * compat
  BY DEF WeightedScore, compat, expected
<1> DEFINE score == similarity + 10 * compat
<1>3. score \in Scores
  BY <1>1 DEF Similarities, Scores
<1> HIDE DEF score
<1>4. QuantizeScore(score) \in StoredScores
  BY <1>3 DEF QuantizeScore, Scores, StoredScores
<1>5. QED
  BY <1>2, <1>3, <1>4 DEF score

(* What a run decides to store fits its score.                              *)
LEMMA DecisionFits ==
  ASSUME NEW score \in Scores
  PROVE  /\ Decide(score) \in AutoStatus \cup {"auto_rejected"}
         /\ Decide(score) = "auto_accepted" => QuantizeScore(score) >= 850
         /\ Decide(score) = "pending_review" => QuantizeScore(score) >= 500 /\ QuantizeScore(score) <= 850
BY DEF Scores, Decide, QuantizeScore, AutoStatus, AutoAcceptThreshold, ReviewThreshold

-----------------------------------------------------------------------------
(* Types.                                                                   *)

(* The shape of a slot's record follows from its kind.                      *)
LEMMA RunShapes ==
  ASSUME TypeOK, NEW w \in Slots
  PROVE  /\ run[w].kind = "match" => run[w] \in MatchRun
         /\ run[w].kind = "match_all" => run[w] \in FanOutRun
         /\ run[w].kind = "embed" => run[w] \in EmbedRun
         /\ run[w] # Idle => run[w].kind \in {"match", "match_all", "embed"}
BY DEF TypeOK, Run, Idle, MatchRun, FanOutRun, EmbedRun

(* A deployed catalogue, with nothing matched, is typed.                    *)
LEMMA InitTypes == Init => TypeOK
BY MatchingConstants, MatchingBounds, EmptySeq DEF Init, TypeOK, Run, Row, NoMatch, StoredScores

(* So is the state after what the catalogue and the operators do.           *)
LEMMA OperatorTypes ==
  ASSUME TypeOK,
         EntryUpserted \/ PackageUpserted \/ RequestMatch \/ RequestMatchAll \/ RequestEmbeddings
  PROVE  TypeOK'
<1> USE DEF TypeOK, catalogueVars
<1>1. CASE EntryUpserted
  <2>1. PICK e \in Entries, n \in Sizes \cup {None} :
          listed' = listed \cup {e} /\ pack_size' = [pack_size EXCEPT ![e] = n]
    BY <1>1 DEF EntryUpserted
  <2>2. changes' \in 0..MaxChanges
    BY <1>1, MatchingBounds DEF EntryUpserted, CatalogueChanges
  <2>3. QED
    BY <1>1, <2>1, <2>2 DEF EntryUpserted, CatalogueChanges
<1>2. CASE PackageUpserted
  <2>1. PICK c \in Cigars, n \in Sizes, corrected \in SUBSET Sizes :
          packages' = [packages EXCEPT ![c] = (@ \ corrected) \cup {n}]
    BY <1>2 DEF PackageUpserted
  <2>2. changes' \in 0..MaxChanges
    BY <1>2, MatchingBounds DEF PackageUpserted, CatalogueChanges
  <2>3. QED
    BY <1>2, <2>1, <2>2 DEF PackageUpserted, CatalogueChanges
<1>3. ASSUME NEW job \in Job, Request(job) PROVE TypeOK'
  <2>1. queue' \in Seq(Job)
    BY <1>3, AppendProperties DEF Request
  <2>2. QED
    BY <1>3, <2>1, MatchingBounds DEF Request
<1>4. QED
  BY <1>1, <1>2, <1>3
     DEF RequestMatch, RequestMatchAll, RequestEmbeddings, MatchJob, MatchAllJob, EmbedJob, Job

(* The head of the queue is a job, and so is the rest.                      *)
LEMMA QueueTypes ==
  ASSUME TypeOK, queue # <<>>
  PROVE  Head(queue) \in Job /\ Tail(queue) \in Seq(Job)
BY HeadTailProperties DEF TypeOK

(* What a run decides to store of a candidate.                              *)
LEMMA ScoredTypes ==
  ASSUME TypeOK, NEW r \in MatchRun, NEW e \in Entries, WorthStoring(ScoredMatch(r, e))
  PROVE  ScoredMatch(r, e) \in Scored /\ Fits(ScoredMatch(r, e))
<1>1. Similarity[r.cigar][e] \in Similarities /\ pack_size[e] \in Sizes \cup {None}
  BY MatchingConstants DEF MatchRun, TypeOK
<1>2. PICK bucket : bucket = pack_size[e]
  OBVIOUS
<1>3. PICK score : score = WeightedScore(Similarity[r.cigar][e], r.pack_sizes, bucket)
  OBVIOUS
<1>4. score \in Scores /\ QuantizeScore(score) \in StoredScores
  BY <1>1, <1>3, ScoreRange
<1>5. ScoredMatch(r, e) = [entry |-> e, status |-> Decide(score),
                           score |-> QuantizeScore(score), bucket |-> bucket]
  BY <1>2, <1>3 DEF ScoredMatch, ScoreOf
<1>6. Decide(score) \in AutoStatus
  BY <1>4, <1>5, DecisionFits DEF WorthStoring
<1>7. Fits(ScoredMatch(r, e))
  BY <1>4, <1>5, DecisionFits DEF Fits
<1>8. QED
  BY <1>1, <1>2, <1>4, <1>5, <1>6, <1>7 DEF Scored

(* The matches to store: a sequence, without repetition, of scored matches. *)
LEMMA OrderTypes ==
  ASSUME NEW matches, IsFiniteSet(matches), NEW todo \in UpsertOrders(matches)
  PROVE  /\ todo \in Seq(matches)
         /\ \A i, j \in DOMAIN todo : todo[i] = todo[j] => i = j
<1>1. Cardinality(matches) \in Nat
  BY FS_CardinalityType
<1>2. QED
  BY <1>1 DEF UpsertOrders

(* The matches a run keeps of the best candidates.                          *)
LEMMA KeptTypes ==
  ASSUME TypeOK, NEW r \in MatchRun, NEW best \in SUBSET Entries,
         NEW todo \in UpsertOrders({m \in {ScoredMatch(r, e) : e \in best} : WorthStoring(m)})
  PROVE  /\ todo \in Seq(Scored)
         /\ \A i \in DOMAIN todo : Fits(todo[i]) /\ todo[i].status \in AutoStatus
         /\ \A i \in DOMAIN todo : \E e \in best : todo[i] = ScoredMatch(r, e)
         /\ \A i, j \in DOMAIN todo : todo[i] = todo[j] => i = j
<1> DEFINE scored == {ScoredMatch(r, e) : e \in best}
           kept == {m \in scored : WorthStoring(m)}
<1>1. IsFiniteSet(kept)
  <2>1. IsFiniteSet(best)
    BY MatchingConstants, FS_Subset
  <2>2. IsFiniteSet(scored)
    <3> DEFINE f == [e \in best |-> ScoredMatch(r, e)]
    <3>1. f \in Surjection(best, scored)
      BY DEF Surjection
    <3>2. QED
      BY <2>1, <3>1, FS_Surjection
  <2>3. QED
    BY <2>2, FS_Subset
<1>2. /\ todo \in Seq(kept)
      /\ \A i, j \in DOMAIN todo : todo[i] = todo[j] => i = j
  BY <1>1, OrderTypes
<1>3. \A m \in kept : m \in Scored /\ Fits(m) /\ \E e \in best : m = ScoredMatch(r, e)
  BY ScoredTypes
<1>4. /\ todo \in Seq(Scored)
      /\ \A i \in DOMAIN todo : todo[i] \in kept
  BY <1>2, <1>3
<1>5. QED
  BY <1>2, <1>3, <1>4 DEF Scored

(* Every step of a match job leaves the state typed.                        *)
LEMMA MatchTypes ==
  ASSUME TypeOK, NEW w \in Slots, MatchStep(w)
  PROVE  TypeOK'
<1> USE DEF catalogueVars
<1> DEFINE r == run[w]
<1>1. CASE BeginMatch(w)
  <2>1. Head(queue).cigar \in Cigars
    BY <1>1, QueueTypes DEF BeginMatch, Job, MatchAllJob
  <2>2. run' \in [Slots -> Run]
    BY <1>1, <2>1, EmptySeq DEF BeginMatch, TypeOK, Run, MatchRun, Row, NoMatch, StoredScores
  <2>3. QED
    BY <1>1, <2>2, QueueTypes DEF BeginMatch, TypeOK
<1>2. CASE MatchRecalls(w)
  <2>1. r \in MatchRun
    BY <1>2, RunShapes DEF MatchRecalls
  <2>2. PICK recall \in Recalls : \E best \in SUBSET recall :
          \E todo \in UpsertOrders({m \in {ScoredMatch(r, e) : e \in best} : WorthStoring(m)}) :
             run' = IF recall = {} THEN [run EXCEPT ![w] = Idle]
                    ELSE [run EXCEPT ![w].step = "upsert", ![w].todo = todo]
    BY <1>2 DEF MatchRecalls
  <2>3. recall \subseteq Entries
    BY DEF Recalls, Candidates, TypeOK
  <2>4. PICK todo \in Seq(Scored) :
             run' = IF recall = {} THEN [run EXCEPT ![w] = Idle]
                    ELSE [run EXCEPT ![w].step = "upsert", ![w].todo = todo]
    BY <2>1, <2>2, <2>3, KeptTypes
  <2>5. run' \in [Slots -> Run]
    BY <2>1, <2>4 DEF TypeOK, Run, MatchRun
  <2>6. QED
    BY <1>2, <2>5 DEF MatchRecalls, TypeOK
<1>3. CASE MatchUpserts(w)
  <2> DEFINE m == Head(r.todo)
             row == match[r.cigar][m.entry]
  <2>1. r \in MatchRun /\ r.todo \in Seq(Scored) /\ r.todo # <<>>
    BY <1>3, RunShapes DEF MatchUpserts, Upserting, MatchRun
  <2>2. m \in Scored /\ Tail(r.todo) \in Seq(Scored)
    BY <2>1, HeadTailProperties
  <2>3. row \in Row
    BY <2>1, <2>2 DEF TypeOK, MatchRun, Scored
  <2>4. Refreshed(row, m) \in Row
    BY <2>2, <2>3 DEF Refreshed, Row, Scored
  <2>5. run' = [run EXCEPT ![w] =
                 [r EXCEPT !.todo = Tail(r.todo), !.locked = r.locked \cup {m.entry},
                           !.wrote[m.entry] = IF HumanLocked(row) THEN row ELSE Refreshed(row, m)]]
    BY <1>3, <2>1, <2>2 DEF MatchUpserts, TypeOK, MatchRun, Scored
  <2>6. run'[w] \in MatchRun
    BY <2>1, <2>2, <2>3, <2>4, <2>5 DEF TypeOK, MatchRun, Scored
  <2>7. QED
    BY <1>3, <2>5, <2>6 DEF MatchUpserts, TypeOK, Run
<1>4. CASE MatchCommits(w)
  <2>1. r \in MatchRun
    BY <1>4, RunShapes DEF MatchCommits, Upserting
  <2>2. match' \in [Cigars -> [Entries -> Row]]
    BY <1>4, <2>1 DEF MatchCommits, TypeOK, MatchRun
  <2>3. QED
    BY <1>4, <2>2 DEF MatchCommits, TypeOK, Run
<1>5. QED
  BY <1>1, <1>2, <1>3, <1>4 DEF MatchStep

(* Every step of a fan-out or an embedding job leaves the state typed.      *)
LEMMA OtherJobTypes ==
  ASSUME TypeOK, NEW w \in Slots, MatchAllStep(w) \/ EmbedStep(w)
  PROVE  TypeOK'
<1> USE DEF catalogueVars
<1> DEFINE r == run[w]
<1>1. CASE BeginMatchAll(w)
  BY <1>1, QueueTypes DEF BeginMatchAll, EmbeddedCigars, TypeOK, Run, FanOutRun
<1>2. CASE MatchAllEnqueues(w)
  <2>1. r \in FanOutRun
    BY <1>2, RunShapes DEF MatchAllEnqueues
  <2>2. PICK c \in r.ids : /\ queue' = Append(queue, MatchJob(c))
                          /\ run' = [run EXCEPT ![w].ids = @ \ {c}]
    BY <1>2 DEF MatchAllEnqueues
  <2>3. queue' \in Seq(Job)
    <3>1. MatchJob(c) \in Job
      BY <2>1 DEF FanOutRun, MatchJob, Job
    <3>2. QED
      BY <2>2, <3>1, AppendProperties DEF TypeOK
  <2>4. run' \in [Slots -> Run]
    BY <2>1, <2>2 DEF TypeOK, Run, FanOutRun
  <2>5. QED
    BY <1>2, <2>3, <2>4 DEF MatchAllEnqueues, TypeOK
<1>3. CASE MatchAllEnds(w)
  BY <1>3 DEF MatchAllEnds, TypeOK, Run
<1>4. CASE BeginEmbed(w)
  <2>1. Head(queue).target \in Targets
    BY <1>4, QueueTypes DEF BeginEmbed, Job, MatchAllJob
  <2>2. QED
    BY <1>4, <2>1, QueueTypes DEF BeginEmbed, TypeOK, Run, EmbedRun
<1>5. r.kind = "embed" => r \in EmbedRun /\ NextPhase(r) \in Run
  BY RunShapes DEF NextPhase, Run, EmbedRun
<1>6. CASE EmbedReads(w)
  <2>1. CASE run' = [run EXCEPT ![w] = NextPhase(@)]
    BY <1>5, <1>6, <2>1 DEF EmbedReads, TypeOK
  <2>2. CASE run' # [run EXCEPT ![w] = NextPhase(@)]
    <3>1. PICK batch \in SUBSET Unembedded(r.step) : run' = [run EXCEPT ![w].batch = batch]
      BY <1>6, <2>2 DEF EmbedReads
    <3>2. batch \subseteq Cigars \cup Entries
      BY DEF Unembedded, TypeOK
    <3>3. run' \in [Slots -> Run]
      BY <1>5, <1>6, <3>1, <3>2 DEF EmbedReads, TypeOK, Run, EmbedRun
    <3>4. QED
      BY <1>6, <3>3 DEF EmbedReads, TypeOK
  <2>3. QED
    BY <2>1, <2>2
<1>7. CASE EmbedWrites(w)
  <2>1. r \in EmbedRun
    BY <1>5, <1>7 DEF EmbedWrites
  <2>2. run' \in [Slots -> Run]
    BY <1>5, <1>7, <2>1 DEF EmbedWrites, TypeOK, Run, EmbedRun
  <2>3. QED
    BY <1>7, <2>1, <2>2 DEF EmbedWrites, TypeOK, EmbedRun
<1>8. QED
  BY <1>1, <1>2, <1>3, <1>4, <1>6, <1>7 DEF MatchAllStep, EmbedStep

(* So does whatever ends a job early.                                       *)
LEMMA InterruptTypes ==
  ASSUME TypeOK, NEW w \in Slots, DeadlockAborts(w) \/ JobFails(w) \/ WorkerStops(w)
  PROVE  TypeOK'
<1> USE DEF catalogueVars
<1>1. CASE DeadlockAborts(w)
  BY <1>1 DEF DeadlockAborts, TypeOK, Run
<1>2. CASE JobFails(w)
  BY <1>2, MatchingBounds DEF JobFails, Interrupt, TypeOK, Run
<1>3. CASE WorkerStops(w)
  <2>1. JobOf(run[w]) \in Job
    BY <1>3, RunShapes DEF WorkerStops, Interrupt, JobOf, MatchJob, MatchAllJob, EmbedJob, Job,
                           MatchRun, FanOutRun, EmbedRun
  <2>2. queue' \in Seq(Job)
    BY <1>3, <2>1, RangeOfPrepend DEF WorkerStops, TypeOK
  <2>3. QED
    BY <1>3, <2>2, MatchingBounds DEF WorkerStops, Interrupt, TypeOK, Run
<1>4. QED
  BY <1>1, <1>2, <1>3

(* A verdict written over a row is a row.                                   *)
LEMMA PatchTypes ==
  ASSUME TypeOK, NEW a \in Admins, PatchReads(a) \/ PatchCommits(a)
  PROVE  TypeOK'
<1> USE DEF catalogueVars
<1>1. CASE PatchReads(a)
  <2>1. PICK c \in Cigars, e \in Entries, status \in HumanStatus :
          patch' = [patch EXCEPT ![a] = [kind |-> "patch", cigar |-> c, entry |-> e,
                                         status |-> status, row |-> match[c][e]]]
    BY <1>1 DEF PatchReads
  <2>2. match[c][e] \in Row
    BY DEF TypeOK
  <2>3. patch' \in [Admins -> {Idle} \cup PatchRun]
    BY <2>1, <2>2 DEF TypeOK, PatchRun
  <2>4. requests' \in 0..MaxRequests
    BY <1>1, MatchingBounds DEF PatchReads, TypeOK
  <2>5. QED
    BY <1>1, <2>3, <2>4 DEF PatchReads, TypeOK
<1>2. CASE PatchCommits(a)
  <2> DEFINE p == patch[a]
  <2>1. p \in PatchRun
    BY <1>2 DEF PatchCommits, TypeOK
  <2>2. Patched(match[p.cigar][p.entry], a, p) \in Row
    <3>1. match[p.cigar][p.entry] \in Row /\ p.status \in HumanStatus
      BY <2>1 DEF TypeOK, PatchRun
    <3>2. QED
      BY <3>1 DEF Patched, Row
  <2>3. match' \in [Cigars -> [Entries -> Row]]
    BY <1>2, <2>1, <2>2 DEF PatchCommits, TypeOK, PatchRun
  <2>4. QED
    BY <1>2, <2>3 DEF PatchCommits, TypeOK
<1>3. QED
  BY <1>1, <1>2

(* Every step of the system leaves the state typed.                         *)
LEMMA NextTypes ==
  ASSUME TypeOK, [Next]_vars PROVE TypeOK'
<1>1. CASE UNCHANGED vars
  BY <1>1 DEF vars, catalogueVars, TypeOK
<1>2. CASE Next
  BY <1>2, OperatorTypes, MatchTypes, OtherJobTypes, InterruptTypes, PatchTypes DEF Next, SlotStep
<1>3. QED
  BY <1>1, <1>2

(* Every variable keeps its type: rows hold scores of three decimals and    *)
(* statuses of the enum, and the queue only jobs a slot can run.            *)
THEOREM TypeCorrect == Spec => []TypeOK
BY InitTypes, NextTypes, PTL DEF Spec

-----------------------------------------------------------------------------
(* Rows, and the rows that transactions hold.                               *)

(* A row has a reviewer exactly when a human has ruled, and its score fits. *)
RowOK(row) ==
  /\ row.status = "absent" => row = NoMatch
  /\ row.status \in HumanStatus <=> row.reviewed_by # None
  /\ Fits(row)

(* What a run has written: the row as it is if a human has ruled on it,     *)
(* otherwise an automatic match; of the rows it changes and the matches it  *)
(* has still to write no two are of one bucket.  m is the table.            *)
WroteOK(r, m) ==
  r.kind = "match" =>
    /\ r.step = "recall" => r.locked = {} /\ r.todo = <<>>
    /\ \A i \in DOMAIN r.todo : Fits(r.todo[i])
    /\ \A i, j \in DOMAIN r.todo : r.todo[i].bucket = r.todo[j].bucket => i = j
    /\ \A e \in r.locked :
         IF HumanLocked(m[r.cigar][e]) THEN r.wrote[e] = m[r.cigar][e]
         ELSE /\ r.wrote[e].status \in AutoStatus
              /\ r.wrote[e].reviewed_by = None
              /\ Fits(r.wrote[e])
              /\ \A i \in DOMAIN r.todo : r.todo[i].bucket # r.wrote[e].bucket
              /\ \A f \in r.locked : r.wrote[f].bucket = r.wrote[e].bucket
                                       => e = f \/ HumanLocked(m[r.cigar][f])

(* A row is held by one transaction.                                        *)
LocksExclusive ==
  \A w \in Slots : \A x \in Slots \ {w} :
    run[w].kind = "match" /\ run[x].kind = "match" /\ run[w].cigar = run[x].cigar
      => run[w].locked \cap run[x].locked = {}

(* A request that read a verdict, or a reviewer, finds one when it writes.   *)
PatchOK(p, m) ==
  p # Idle =>
    /\ m[p.cigar][p.entry].status # "absent"
    /\ p.row.status \in HumanStatus => m[p.cigar][p.entry].status \in HumanStatus
    /\ p.row.reviewed_by # None => m[p.cigar][p.entry].reviewed_by # None

Inv ==
  /\ \A c \in Cigars, e \in Entries : RowOK(match[c][e])
  /\ \A a \in Admins : PatchOK(patch[a], match)
  /\ \A w \in Slots : WroteOK(run[w], match)
  /\ LocksExclusive

(* Nothing is matched and nothing runs at first.                            *)
LEMMA InitInv == Init => Inv
BY DEF Init, Inv, RowOK, Fits, PatchOK, WroteOK, LocksExclusive, NoMatch, HumanStatus, Idle

(* What a run has written is still right as long as nobody else changes the *)
(* rows it holds.                                                           *)
LEMMA HeldRowsKept ==
  ASSUME NEW r, NEW m, NEW n, WroteOK(r, m),
         r.kind = "match" => \A e \in r.locked : n[r.cigar][e] = m[r.cigar][e]
  PROVE  WroteOK(r, n)
BY DEF WroteOK

(* A matcher's step before its commit locks at most a row that nobody else  *)
(* holds, and what it has written is right.                                 *)
LEMMA SlotKeepsRows ==
  ASSUME TypeOK, Inv, NEW w \in Slots,
         SlotStep(w) \/ JobFails(w) \/ WorkerStops(w), ~MatchCommits(w)
  PROVE  /\ match' = match
         /\ run' = [run EXCEPT ![w] = run'[w]]
         /\ WroteOK(run'[w], match)
         /\ \A x \in Slots \ {w} :
              run'[w].kind = "match" /\ run[x].kind = "match" /\ run'[w].cigar = run[x].cigar
                => run'[w].locked \cap run[x].locked = {}
<1> DEFINE r == run[w]
           Exclusive(n) == \A x \in Slots \ {w} :
             n.kind = "match" /\ run[x].kind = "match" /\ n.cigar = run[x].cigar
               => n.locked \cap run[x].locked = {}
<1>1. WroteOK(r, match) /\ Exclusive(r)
  BY DEF Inv, LocksExclusive
<1>2. ASSUME run'[w].kind # "match" PROVE WroteOK(run'[w], match) /\ Exclusive(run'[w])
  BY <1>2 DEF WroteOK
<1>3. CASE BeginMatch(w)
  <2>1. CASE run' = run
    BY <1>1, <1>3, <2>1 DEF BeginMatch, TypeOK
  <2>2. CASE run' # run
    <3>1. /\ run' = [run EXCEPT ![w] = run'[w]]
          /\ run'[w].kind = "match" /\ run'[w].locked = {} /\ run'[w].todo = <<>>
      BY <1>3, <2>2 DEF BeginMatch, TypeOK
    <3>2. QED
      BY <1>3, <3>1 DEF BeginMatch, WroteOK
  <2>3. QED
    BY <2>1, <2>2
<1>4. CASE MatchRecalls(w)
  <2>1. r \in MatchRun /\ r.step = "recall" /\ r.locked = {}
    BY <1>1, <1>4, RunShapes DEF MatchRecalls, WroteOK
  <2>2. PICK recall \in Recalls : \E best \in SUBSET recall :
          /\ BestPerBucket(r, recall, best)
          /\ \E todo \in UpsertOrders({m \in {ScoredMatch(r, e) : e \in best} : WorthStoring(m)}) :
               run' = IF recall = {} THEN [run EXCEPT ![w] = Idle]
                      ELSE [run EXCEPT ![w].step = "upsert", ![w].todo = todo]
    BY <1>4 DEF MatchRecalls
  <2>3. PICK best \in SUBSET recall :
          /\ BestPerBucket(r, recall, best)
          /\ \E todo \in UpsertOrders({m \in {ScoredMatch(r, e) : e \in best} : WorthStoring(m)}) :
               run' = IF recall = {} THEN [run EXCEPT ![w] = Idle]
                      ELSE [run EXCEPT ![w].step = "upsert", ![w].todo = todo]
    BY <2>2
  <2>4. PICK todo \in UpsertOrders({m \in {ScoredMatch(r, e) : e \in best} : WorthStoring(m)}) :
          run' = IF recall = {} THEN [run EXCEPT ![w] = Idle]
                 ELSE [run EXCEPT ![w].step = "upsert", ![w].todo = todo]
    BY <2>3
  <2>5. best \in SUBSET Entries
    BY DEF Recalls, Candidates, TypeOK
  <2>6. /\ todo \in Seq(Scored)
        /\ \A i \in DOMAIN todo : Fits(todo[i]) /\ todo[i].status \in AutoStatus
        /\ \A i \in DOMAIN todo : \E e \in best : todo[i] = ScoredMatch(r, e)
        /\ \A i, j \in DOMAIN todo : todo[i] = todo[j] => i = j
    BY <2>1, <2>5, KeptTypes
  <2>7. \A i, j \in DOMAIN todo : todo[i].bucket = todo[j].bucket => i = j
    <3>1. \A e, f \in best : ScoredMatch(r, e).bucket = ScoredMatch(r, f).bucket => e = f
      BY <2>3 DEF BestPerBucket, ScoredMatch
    <3>2. QED
      BY <2>6, <3>1
  <2>8. CASE recall = {}
    BY <1>2, <1>4, <2>4, <2>8 DEF MatchRecalls, TypeOK, Idle
  <2>9. CASE recall # {}
    <3>1. /\ run' = [run EXCEPT ![w] = run'[w]]
          /\ run'[w].kind = "match" /\ run'[w].step = "upsert" /\ run'[w].cigar = r.cigar
          /\ run'[w].locked = {} /\ run'[w].todo = todo
      BY <2>1, <2>4, <2>9 DEF TypeOK, MatchRun
    <3>2. WroteOK(run'[w], match)
      BY <2>6, <2>7, <3>1 DEF WroteOK
    <3>3. QED
      BY <1>4, <3>1, <3>2 DEF MatchRecalls
  <2>10. QED
    BY <2>8, <2>9
<1>5. CASE MatchUpserts(w)
  <2> DEFINE c == r.cigar
             todo == r.todo
             d == Head(todo)
             row == match[c][d.entry]
             new == IF HumanLocked(row) THEN row ELSE Refreshed(row, d)
  <2>1. /\ r \in MatchRun /\ r.kind = "match" /\ r.step = "upsert"
        /\ todo \in Seq(Scored) /\ todo # <<>>
    BY <1>5, RunShapes DEF MatchUpserts, Upserting, MatchRun
  <2>2. /\ d \in Scored /\ d = todo[1] /\ 1 \in DOMAIN todo
        /\ \A i \in DOMAIN Tail(todo) :
             i \in Nat /\ i + 1 # 1 /\ i + 1 \in DOMAIN todo /\ Tail(todo)[i] = todo[i + 1]
    BY <2>1
  <2>3. run' = [run EXCEPT ![w] = [r EXCEPT !.todo = Tail(todo), !.locked = r.locked \cup {d.entry},
                                            !.wrote[d.entry] = new]]
    BY <1>5, <2>1, <2>2 DEF MatchUpserts, TypeOK, MatchRun, Scored
  <2> DEFINE s == run'[w]
  <2>4. /\ s.kind = "match" /\ s.step = "upsert" /\ s.cigar = c /\ s.todo = Tail(todo)
        /\ s.locked = r.locked \cup {d.entry} /\ s.wrote[d.entry] = new
        /\ \A e \in r.locked : e # d.entry => s.wrote[e] = r.wrote[e]
    BY <2>1, <2>2, <2>3 DEF TypeOK, MatchRun, Scored
  <2>5. row \in Row /\ RowOK(row) /\ d.entry \in Entries
    BY <2>1, <2>2 DEF Inv, TypeOK, MatchRun, Scored
  <2>6. \A x \in Slots \ {w} :
          run[x].kind = "match" /\ c = run[x].cigar => s.locked \cap run[x].locked = {}
    <3>1. Holders(c, d.entry) \ {w} = {}
      BY <1>5, <2>1 DEF MatchUpserts, Blockers
    <3>2. QED
      BY <1>1, <2>1, <2>4, <3>1 DEF Holders
  <2>7. WroteOK(s, match)
    <3> DEFINE free(e) == ~HumanLocked(match[c][e])
    <3> HIDE DEF free, row, new, d, s
    <3>1. /\ \A i \in DOMAIN todo : Fits(todo[i])
          /\ \A i, j \in DOMAIN todo : todo[i].bucket = todo[j].bucket => i = j
          /\ \A e \in r.locked :
               IF ~free(e) THEN r.wrote[e] = match[c][e]
               ELSE /\ r.wrote[e].status \in AutoStatus /\ r.wrote[e].reviewed_by = None
                    /\ Fits(r.wrote[e])
                    /\ \A i \in DOMAIN todo : todo[i].bucket # r.wrote[e].bucket
                    /\ \A f \in r.locked : r.wrote[f].bucket = r.wrote[e].bucket
                                             => e = f \/ ~free(f)
      BY <1>1, <2>1 DEF WroteOK, free
    <3>2. /\ \A i \in DOMAIN s.todo : Fits(s.todo[i]) /\ s.todo[i].bucket # d.bucket
          /\ \A i, j \in DOMAIN s.todo : s.todo[i].bucket = s.todo[j].bucket => i = j
          /\ \A e \in r.locked : free(e) =>
               /\ r.wrote[e].bucket # d.bucket
               /\ \A i \in DOMAIN s.todo : s.todo[i].bucket # r.wrote[e].bucket
      BY <2>2, <2>4, <3>1
    <3>3. ~free(d.entry) => new = match[c][d.entry]
      BY DEF free, new, row
    <3>4. free(d.entry) => /\ new.status \in AutoStatus /\ new.reviewed_by = None
                           /\ Fits(new) /\ new.bucket = d.bucket
      <4>1. Fits(d) /\ d.status \in AutoStatus
        BY <2>2, <3>1 DEF Scored
      <4>2. CASE free(d.entry)
        <5>1. new = Refreshed(row, d) /\ row.status \notin HumanStatus
          BY <4>2 DEF free, new, row, HumanLocked
        <5>2. row.reviewed_by = None
          BY <2>5, <5>1 DEF RowOK
        <5>3. /\ new.status = d.status /\ new.score = d.score
              /\ new.bucket = d.bucket /\ new.reviewed_by = None
          BY <2>5, <5>1, <5>2 DEF Refreshed, Row
        <5>4. QED
          BY <4>1, <5>3 DEF Fits
      <4>3. QED
        BY <4>2
    <3>5. ASSUME NEW e \in s.locked
          PROVE  IF ~free(e) THEN s.wrote[e] = match[c][e]
                 ELSE /\ s.wrote[e].status \in AutoStatus /\ s.wrote[e].reviewed_by = None
                      /\ Fits(s.wrote[e])
                      /\ \A i \in DOMAIN s.todo : s.todo[i].bucket # s.wrote[e].bucket
                      /\ \A f \in s.locked : s.wrote[f].bucket = s.wrote[e].bucket
                                               => e = f \/ ~free(f)
      <4>1. CASE e = d.entry
        BY <2>4, <3>1, <3>2, <3>3, <3>4, <4>1
      <4>2. CASE e # d.entry
        BY <2>4, <3>1, <3>2, <3>3, <3>4, <4>2
      <4>3. QED
        BY <4>1, <4>2
    <3>6. QED
      BY <2>4, <3>2, <3>5 DEF WroteOK, free
  <2>8. QED
    BY <1>5, <2>3, <2>4, <2>6, <2>7 DEF MatchUpserts, TypeOK
<1>6. CASE DeadlockAborts(w) \/ JobFails(w) \/ WorkerStops(w)
  BY <1>2, <1>6 DEF DeadlockAborts, JobFails, WorkerStops, Interrupt, TypeOK, Idle
<1>7. CASE BeginMatchAll(w) \/ BeginEmbed(w)
  BY <1>2, <1>7 DEF BeginMatchAll, BeginEmbed, TypeOK
<1>8. CASE MatchAllEnqueues(w) \/ MatchAllEnds(w)
  <2>1. match' = match /\ run' = [run EXCEPT ![w] = run'[w]] /\ run'[w].kind # "match"
    BY <1>8, RunShapes DEF MatchAllEnqueues, MatchAllEnds, TypeOK, Idle, FanOutRun
  <2>2. QED
    BY <1>2, <2>1
<1>9. CASE EmbedReads(w) \/ EmbedWrites(w)
  <2>1. r \in EmbedRun
    BY <1>9, RunShapes DEF EmbedReads, EmbedWrites
  <2>2. NextPhase(r).kind # "match"
    BY <2>1 DEF NextPhase, Idle, EmbedRun
  <2>3. match' = match /\ run' = [run EXCEPT ![w] = run'[w]] /\ run'[w].kind # "match"
    BY <1>9, <2>1, <2>2 DEF EmbedReads, EmbedWrites, TypeOK, EmbedRun
  <2>4. QED
    BY <1>2, <2>3
<1>10. QED
  BY <1>3, <1>4, <1>5, <1>6, <1>7, <1>8, <1>9 DEF SlotStep, MatchStep, MatchAllStep, EmbedStep

(* The commit of a run changes only rows it holds, of its cigar, on which   *)
(* no human has ruled, to automatic matches of different buckets.           *)
LEMMA CommitRows ==
  ASSUME TypeOK, Inv, NEW w \in Slots, MatchCommits(w)
  PROVE  /\ run[w] \in MatchRun /\ run' = [run EXCEPT ![w] = Idle]
         /\ \A c \in Cigars, e \in Entries :
              match'[c][e] # match[c][e] =>
                /\ c = run[w].cigar /\ e \in run[w].locked
                /\ ~HumanLocked(match[c][e])
                /\ match'[c][e] = run[w].wrote[e]
                /\ match'[c][e].status \in AutoStatus
                /\ match'[c][e].reviewed_by = None
                /\ Fits(match'[c][e])
         /\ \A c \in Cigars : \A e, f \in {g \in Entries : match'[c][g] # match[c][g]} :
              match'[c][e].bucket = match'[c][f].bucket => e = f
<1> DEFINE r == run[w]
<1>1. r \in MatchRun /\ r.kind = "match" /\ run' = [run EXCEPT ![w] = Idle]
  BY RunShapes DEF MatchCommits, Upserting
<1>2. WroteOK(r, match)
  BY DEF Inv
<1>3. \A c \in Cigars, e \in Entries :
        match'[c][e] = IF c = r.cigar /\ e \in r.locked THEN r.wrote[e] ELSE match[c][e]
  BY <1>1 DEF MatchCommits, TypeOK, MatchRun
<1>4. \A e \in r.locked :
        IF HumanLocked(match[r.cigar][e]) THEN r.wrote[e] = match[r.cigar][e]
        ELSE /\ r.wrote[e].status \in AutoStatus
             /\ r.wrote[e].reviewed_by = None
             /\ Fits(r.wrote[e])
             /\ \A f \in r.locked : r.wrote[f].bucket = r.wrote[e].bucket
                                      => e = f \/ HumanLocked(match[r.cigar][f])
  BY <1>1, <1>2 DEF WroteOK
<1>5. r.locked \subseteq Entries /\ r.cigar \in Cigars
  BY <1>1 DEF MatchRun
<1>6. \A e \in r.locked : match'[r.cigar][e] = r.wrote[e]
  BY <1>3, <1>5
<1>7. QED
  BY <1>1, <1>3, <1>4, <1>5, <1>6

(* A verdict changes one row that no matcher holds, and not its score.      *)
LEMMA PatchRows ==
  ASSUME TypeOK, Inv, NEW a \in Admins, PatchCommits(a)
  PROVE  LET p == patch[a]
             row == match[p.cigar][p.entry]
             new == match'[p.cigar][p.entry]
         IN /\ p \in PatchRun
            /\ new = [row EXCEPT !.status = new.status, !.reviewed_by = new.reviewed_by]
            /\ match' = [match EXCEPT ![p.cigar][p.entry] = new]
            /\ Holders(p.cigar, p.entry) = {}
            /\ row \in Row
            /\ row.status # "absent"
            /\ new.status \in HumanStatus
            /\ new.reviewed_by \in Admins
<1> DEFINE p == patch[a]
           row == match[p.cigar][p.entry]
           new == match'[p.cigar][p.entry]
<1>1. p \in PatchRun /\ p.cigar \in Cigars /\ p.entry \in Entries
  BY DEF PatchCommits, TypeOK, PatchRun
<1>2. row \in Row
  BY <1>1 DEF TypeOK
<1>3. /\ match' = [match EXCEPT ![p.cigar][p.entry] = Patched(row, a, p)]
      /\ new = Patched(row, a, p)
      /\ Holders(p.cigar, p.entry) = {}
  BY <1>1 DEF PatchCommits, TypeOK
<1>4. PatchOK(p, match) /\ patch[a] # Idle
  BY DEF Inv, PatchCommits
<1> HIDE DEF p, new
<1>5. PICK old : old = row
  OBVIOUS
<1>6. new = Patched(old, a, p) /\ old \in Row
  BY <1>2, <1>3, <1>5
<1>7. /\ new = [old EXCEPT !.status = new.status, !.reviewed_by = new.reviewed_by]
      /\ new.status = IF p.status = p.row.status THEN old.status ELSE p.status
      /\ new.reviewed_by = IF a = p.row.reviewed_by THEN old.reviewed_by ELSE a
  BY <1>6 DEF Patched, Row
<1>8. /\ old.status # "absent"
      /\ p.row.status \in HumanStatus => old.status \in HumanStatus
      /\ p.row.reviewed_by # None => old.reviewed_by # None
  BY <1>4, <1>5 DEF PatchOK, p
<1>9. new.status \in HumanStatus /\ new.reviewed_by \in Admins
  BY <1>1, <1>6, <1>7, <1>8, MatchingConstants DEF PatchRun, Row
<1>10. QED
  BY <1>1, <1>2, <1>3, <1>5, <1>6, <1>7, <1>8, <1>9 DEF p, new

(* A matcher's step before its commit keeps the invariant.                  *)
LEMMA SlotKeepsInv ==
  ASSUME TypeOK, Inv, NEW w \in Slots,
         SlotStep(w) \/ JobFails(w) \/ WorkerStops(w), ~MatchCommits(w)
  PROVE  Inv'
<1>1. patch' = patch
  BY DEF SlotStep, MatchStep, MatchAllStep, EmbedStep, BeginMatch, MatchRecalls, MatchUpserts,
         MatchCommits, BeginMatchAll, MatchAllEnqueues, MatchAllEnds, BeginEmbed, EmbedReads,
         EmbedWrites, DeadlockAborts, JobFails, WorkerStops, Interrupt
<1>2. /\ match' = match
      /\ run' = [run EXCEPT ![w] = run'[w]]
      /\ WroteOK(run'[w], match)
      /\ \A x \in Slots \ {w} :
           run'[w].kind = "match" /\ run[x].kind = "match" /\ run'[w].cigar = run[x].cigar
             => run'[w].locked \cap run[x].locked = {}
  BY SlotKeepsRows
<1>3. \A x \in Slots \ {w} : run'[x] = run[x]
  BY <1>2 DEF TypeOK
<1>4. \A x \in Slots : WroteOK(run'[x], match')
  BY <1>2, <1>3 DEF Inv
<1>5. LocksExclusive'
  BY <1>2, <1>3 DEF Inv, LocksExclusive
<1>6. QED
  BY <1>1, <1>2, <1>4, <1>5 DEF Inv

(* So does the commit of a run.                                             *)
LEMMA CommitKeepsInv ==
  ASSUME TypeOK, Inv, NEW w \in Slots, MatchCommits(w)
  PROVE  Inv'
<1>1. /\ run[w] \in MatchRun /\ run[w].kind = "match" /\ run' = [run EXCEPT ![w] = Idle]
      /\ \A c \in Cigars, e \in Entries :
           match'[c][e] # match[c][e] =>
             /\ c = run[w].cigar /\ e \in run[w].locked
             /\ match[c][e].status \notin HumanStatus
             /\ match'[c][e].status \in AutoStatus
             /\ match'[c][e].reviewed_by = None
             /\ Fits(match'[c][e])
  BY CommitRows DEF HumanLocked, MatchRun
<1>2. \A c \in Cigars, e \in Entries : RowOK(match[c][e]) /\ RowOK(match'[c][e])
  BY <1>1 DEF Inv, RowOK, AutoStatus, HumanStatus
<1>3. ASSUME NEW a \in Admins PROVE PatchOK(patch'[a], match')
  <2>1. patch'[a] = patch[a] /\ PatchOK(patch[a], match)
    BY DEF MatchCommits, Inv
  <2>2. CASE patch[a] = Idle
    BY <2>1, <2>2 DEF PatchOK
  <2>3. CASE patch[a] # Idle
    <3> DEFINE c == patch[a].cigar
               e == patch[a].entry
    <3>1. c \in Cigars /\ e \in Entries
      BY <2>3 DEF TypeOK, PatchRun
    <3>2. /\ match'[c][e].status = "absent" => match[c][e].status = "absent"
          /\ match[c][e].status \in HumanStatus => match'[c][e].status \in HumanStatus
          /\ match[c][e].reviewed_by # None => match'[c][e].reviewed_by # None
      BY <1>1, <1>2, <3>1 DEF RowOK, AutoStatus
    <3>3. QED
      BY <2>1, <3>2 DEF PatchOK
  <2>4. QED
    BY <2>2, <2>3
<1>4. ASSUME NEW x \in Slots PROVE WroteOK(run'[x], match')
  <2>1. CASE x = w
    BY <1>1, <2>1 DEF WroteOK, Idle, TypeOK
  <2>2. CASE x # w
    <3>1. run'[x] = run[x] /\ WroteOK(run[x], match)
      BY <1>1, <2>2 DEF Inv, TypeOK
    <3>2. run[x].kind = "match" =>
            \A e \in run[x].locked : match'[run[x].cigar][e] = match[run[x].cigar][e]
      <4>1. CASE run[x].kind = "match"
        <5>1. run[x].cigar \in Cigars /\ run[x].locked \subseteq Entries
          BY <4>1, RunShapes DEF MatchRun
        <5>2. run[x].cigar = run[w].cigar => run[w].locked \cap run[x].locked = {}
          BY <1>1, <2>2, <4>1 DEF Inv, LocksExclusive
        <5>3. QED
          BY <1>1, <5>1, <5>2
      <4>2. QED
        BY <4>1
    <3>3. QED
      BY <3>1, <3>2, HeldRowsKept
  <2>3. QED
    BY <2>1, <2>2
<1>5. LocksExclusive'
  BY <1>1 DEF Inv, LocksExclusive, TypeOK, Idle
<1>6. QED
  BY <1>2, <1>3, <1>4, <1>5 DEF Inv

(* So does a reviewer's request.                                            *)
LEMMA PatchKeepsInv ==
  ASSUME TypeOK, Inv, NEW a \in Admins, PatchReads(a) \/ PatchCommits(a)
  PROVE  Inv'
<1>1. CASE PatchReads(a)
  <2>1. PICK c \in Cigars, e \in Entries, status \in HumanStatus :
          /\ match[c][e] # NoMatch
          /\ patch' = [patch EXCEPT ![a] = [kind |-> "patch", cigar |-> c, entry |-> e,
                                            status |-> status, row |-> match[c][e]]]
    BY <1>1 DEF PatchReads
  <2>2. match' = match /\ run' = run
    BY <1>1 DEF PatchReads, catalogueVars
  <2>3. match[c][e].status # "absent"
    BY <2>1 DEF Inv, RowOK
  <2>4. \A b \in Admins : PatchOK(patch'[b], match')
    BY <2>1, <2>2, <2>3 DEF PatchOK, Inv, TypeOK
  <2>5. QED
    BY <2>2, <2>4 DEF Inv, LocksExclusive
<1>2. CASE PatchCommits(a)
  <2> DEFINE p == patch[a]
             c == p.cigar
             e == p.entry
             row == match[c][e]
             new == match'[c][e]
  <2>1. /\ p \in PatchRun
        /\ new = [row EXCEPT !.status = new.status, !.reviewed_by = new.reviewed_by]
        /\ match' = [match EXCEPT ![c][e] = new]
        /\ Holders(c, e) = {}
        /\ row \in Row
        /\ new.status \in HumanStatus
        /\ new.reviewed_by \in Admins
    BY <1>2, PatchRows
  <2>2. c \in Cigars /\ e \in Entries
    BY <2>1 DEF PatchRun
  <2>3. \A d \in Cigars, f \in Entries :
          match'[d][f] = IF d = c /\ f = e THEN new ELSE match[d][f]
    BY <2>1, <2>2 DEF TypeOK
  <2>4. RowOK(new)
    BY <2>1, MatchingConstants DEF RowOK, Fits, HumanStatus
  <2>5. \A d \in Cigars, f \in Entries : RowOK(match'[d][f])
    BY <2>3, <2>4 DEF Inv
  <2>6. ASSUME NEW b \in Admins PROVE PatchOK(patch'[b], match')
    <3>1. patch'[b] = IF b = a THEN Idle ELSE patch[b]
      BY <1>2 DEF PatchCommits, TypeOK
    <3>2. patch[b] # Idle => patch[b].cigar \in Cigars /\ patch[b].entry \in Entries
      BY DEF TypeOK, PatchRun
    <3>3. PatchOK(patch[b], match)
      BY DEF Inv
    <3>4. new.status # "absent" /\ new.reviewed_by # None
      BY <2>1, MatchingConstants DEF HumanStatus
    <3>5. QED
      BY <2>1, <2>3, <3>1, <3>2, <3>3, <3>4 DEF PatchOK
  <2>7. ASSUME NEW x \in Slots PROVE WroteOK(run[x], match')
    <3>1. run[x].kind = "match" =>
            \A f \in run[x].locked : match'[run[x].cigar][f] = match[run[x].cigar][f]
      BY <2>1, <2>3, RunShapes DEF Holders, MatchRun
    <3>2. QED
      BY <3>1, HeldRowsKept DEF Inv
  <2>8. run' = run
    BY <1>2 DEF PatchCommits
  <2>9. QED
    BY <2>5, <2>6, <2>7, <2>8 DEF Inv, LocksExclusive
<1>3. QED
  BY <1>1, <1>2

(* Every step of the system keeps the invariant.                            *)
LEMMA NextInv ==
  ASSUME TypeOK, Inv, [Next]_vars PROVE Inv'
<1>1. CASE UNCHANGED <<match, run, patch>>
  BY <1>1 DEF Inv, LocksExclusive
<1>2. CASE EntryUpserted \/ PackageUpserted \/ RequestMatch \/ RequestMatchAll \/ RequestEmbeddings
  BY <1>1, <1>2 DEF EntryUpserted, PackageUpserted, CatalogueChanges, RequestMatch,
                    RequestMatchAll, RequestEmbeddings, Request
<1>3. QED
  BY <1>1, <1>2, SlotKeepsInv, CommitKeepsInv, PatchKeepsInv DEF Next, SlotStep, MatchStep, vars

(* The invariant, with the types, holds of every behaviour.                 *)
THEOREM RowsConsistent == Spec => [](TypeOK /\ Inv)
<1>1. Init => TypeOK /\ Inv
  BY InitTypes, InitInv
<1>2. TypeOK /\ Inv /\ [Next]_vars => (TypeOK /\ Inv)'
  BY NextTypes, NextInv
<1>3. QED
  BY <1>1, <1>2, PTL DEF Spec

(* A row has a reviewer exactly when its status is a verdict.               *)
THEOREM ReviewersRecorded == Spec => []ReviewerRecorded
<1>1. TypeOK /\ Inv => ReviewerRecorded
  BY DEF Inv, RowOK, ReviewerRecorded
<1>2. QED
  BY <1>1, RowsConsistent, PTL

(* The stored score of an automatic row decides its status.                 *)
THEOREM ScoresFit == Spec => []StatusFitsScore
<1>1. TypeOK /\ Inv => StatusFitsScore
  BY DEF Inv, RowOK, StatusFitsScore
<1>2. QED
  BY <1>1, RowsConsistent, PTL

-----------------------------------------------------------------------------
(* What a step does to the rows.                                            *)

(* Only commits, of a run or of a request, change rows.                     *)
LEMMA RowsChange ==
  ASSUME TypeOK, Inv, [Next]_vars, match' # match
  PROVE  \/ \E w \in Slots : MatchCommits(w)
         \/ \E a \in Admins : PatchCommits(a)
<1>1. CASE UNCHANGED vars
  BY <1>1 DEF vars
<1>2. CASE EntryUpserted \/ PackageUpserted \/ RequestMatch \/ RequestMatchAll \/ RequestEmbeddings
  BY <1>2 DEF EntryUpserted, PackageUpserted, CatalogueChanges, RequestMatch,
              RequestMatchAll, RequestEmbeddings, Request
<1>3. ASSUME NEW w \in Slots, SlotStep(w) \/ JobFails(w) \/ WorkerStops(w)
      PROVE  MatchCommits(w)
  BY <1>3, SlotKeepsRows
<1>4. ASSUME NEW a \in Admins, PatchReads(a) PROVE FALSE
  BY <1>4 DEF PatchReads
<1>5. QED
  BY <1>1, <1>2, <1>3, <1>4 DEF Next

(* A row on which a human has ruled keeps its score and its bucket, and its *)
(* status stays a human's.                                                  *)
THEOREM VerdictsKept == Spec => HumanVerdictKept
<1> DEFINE Kept(c, e) ==
      match[c][e].status \in HumanStatus =>
         /\ match'[c][e].status \in HumanStatus
         /\ match'[c][e].score = match[c][e].score
         /\ match'[c][e].bucket = match[c][e].bucket
<1>1. TypeOK /\ Inv /\ [Next]_vars => [\A c \in Cigars, e \in Entries : Kept(c, e)]_vars
  <2> SUFFICES ASSUME TypeOK, Inv, [Next]_vars, NEW c \in Cigars, NEW e \in Entries
               PROVE  Kept(c, e)
    OBVIOUS
  <2>1. CASE match' = match
    BY <2>1
  <2>2. ASSUME NEW w \in Slots, MatchCommits(w) PROVE Kept(c, e)
    BY <2>2, CommitRows DEF HumanLocked
  <2>3. ASSUME NEW a \in Admins, PatchCommits(a) PROVE Kept(c, e)
    <3> DEFINE p == patch[a]
               row == match[p.cigar][p.entry]
               new == match'[p.cigar][p.entry]
    <3>1. /\ p \in PatchRun /\ row \in Row /\ new.status \in HumanStatus
          /\ new = [row EXCEPT !.status = new.status, !.reviewed_by = new.reviewed_by]
          /\ match' = [match EXCEPT ![p.cigar][p.entry] = new]
      BY <2>3, PatchRows
    <3>2. new.score = row.score /\ new.bucket = row.bucket
      BY <3>1 DEF Row
    <3>3. CASE c = p.cigar /\ e = p.entry
      BY <3>1, <3>2, <3>3
    <3>4. CASE c # p.cigar \/ e # p.entry
      <4>1. match'[c][e] = match[c][e]
        BY <3>1, <3>4 DEF TypeOK, PatchRun
      <4>2. QED
        BY <4>1
    <3>5. QED
      BY <3>3, <3>4
  <2>4. QED
    BY <2>1, <2>2, <2>3, RowsChange
<1>2. QED
  BY <1>1, RowsConsistent, PTL DEF Spec, HumanVerdictKept

(* The matching pipeline implements ReviewedMatches: its runs change the    *)
(* rows of one cigar at once and never a verdict, and requests write        *)
(* verdicts and nothing else.                                               *)
THEOREM Implements == Spec => ImplementsVerdicts
<1>1. Init => Verdicts!Init
  BY DEF Init, Verdicts!Init, Verdicts!NoMatch, NoMatch
<1>2. TypeOK /\ Inv /\ [Next]_vars /\ TypeOK' => [Verdicts!Next]_match
  <2> SUFFICES ASSUME TypeOK, Inv, [Next]_vars, TypeOK', match' # match
               PROVE  Verdicts!Next
    OBVIOUS
  <2>1. ASSUME NEW w \in Slots, MatchCommits(w) PROVE Verdicts!Next
    <3> DEFINE c == run[w].cigar
    <3>1. c \in Cigars
      BY <2>1, CommitRows DEF MatchRun
    <3>2. match' \in [Cigars -> [Entries -> Verdicts!Row]]
      BY DEF TypeOK, Row, Verdicts!Row, AutoStatus, HumanStatus,
             Verdicts!AutoStatus, Verdicts!HumanStatus
    <3>3. \A d \in Cigars \ {c} : Verdicts!Changed(d) = {}
      BY <2>1, CommitRows DEF Verdicts!Changed
    <3>4. \A e \in Verdicts!Changed(c) :
            /\ ~Verdicts!Reviewed(match[c][e])
            /\ match'[c][e].status \in Verdicts!AutoStatus
            /\ match'[c][e].reviewed_by = None
      BY <2>1, <3>1, CommitRows
         DEF Verdicts!Changed, Verdicts!Reviewed, HumanLocked, HumanStatus, AutoStatus,
             Verdicts!AutoStatus, Verdicts!HumanStatus
    <3>5. \A e, f \in Verdicts!Changed(c) :
            match'[c][e].bucket = match'[c][f].bucket => e = f
      BY <2>1, <3>1, CommitRows DEF Verdicts!Changed
    <3>6. Verdicts!Rematch(c)
      BY <3>2, <3>3, <3>4, <3>5 DEF Verdicts!Rematch
    <3>7. QED
      BY <3>1, <3>6 DEF Verdicts!Next
  <2>2. ASSUME NEW a \in Admins, PatchCommits(a) PROVE Verdicts!Next
    <3> DEFINE p == patch[a]
               row == match[p.cigar][p.entry]
               new == match'[p.cigar][p.entry]
    <3>1. /\ p \in PatchRun /\ row \in Row /\ row.status # "absent"
          /\ new.status \in HumanStatus /\ new.reviewed_by \in Admins
          /\ new = [row EXCEPT !.status = new.status, !.reviewed_by = new.reviewed_by]
          /\ match' = [match EXCEPT ![p.cigar][p.entry] = new]
      BY <2>2, PatchRows
    <3>2. p.cigar \in Cigars /\ p.entry \in Entries
      BY <3>1 DEF PatchRun
    <3>3. match[p.cigar][p.entry] # Verdicts!NoMatch
      BY <3>1 DEF Verdicts!NoMatch
    <3>4. match' = [match EXCEPT ![p.cigar][p.entry].status = new.status,
                                 ![p.cigar][p.entry].reviewed_by = new.reviewed_by]
      BY <3>1, <3>2 DEF TypeOK
    <3>5. Verdicts!Review(p.cigar, p.entry)
      BY <3>1, <3>3, <3>4 DEF Verdicts!Review, HumanStatus, Verdicts!HumanStatus
    <3>6. QED
      BY <3>2, <3>5 DEF Verdicts!Next
  <2>3. QED
    BY <2>1, <2>2, RowsChange
<1>3. QED
  BY <1>1, <1>2, TypeCorrect, RowsConsistent, PTL DEF Spec, ImplementsVerdicts, Verdicts!Spec
=============================================================================
