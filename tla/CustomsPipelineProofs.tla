------------------------ MODULE CustomsPipelineProofs ------------------------
(***************************************************************************)
(* Theorems about CustomsPipeline, for every value of its constants.        *)
(***************************************************************************)
EXTENDS CustomsPipeline, SequenceLemmas, FiniteSetTheorems

-----------------------------------------------------------------------------
(* Types.                                                                   *)

(* The shape of a slot's record follows from its kind and step.             *)
LEMMA RunShapes ==
  ASSUME TypeOK, NEW w \in Slots
  PROVE  /\ run[w].kind = "refresh" => run[w] \in RefreshRun
         /\ run[w].kind = "ingest" /\ run[w].step = "mark" => run[w] \in MarkRun
         /\ run[w].kind = "ingest" /\ run[w].step # "mark" => run[w] \in IngestRun
         /\ run[w] # Idle => run[w].kind \in {"refresh", "ingest"}
BY DEF TypeOK, Run, Idle, RefreshRun, IngestRun, MarkRun

(* What the step of a slot says of its record: there is an entry left to    *)
(* add or to enqueue, and an ingest has written, or has still to write,     *)
(* exactly the entries of its content.                                      *)
SlotOK(r) ==
  /\ r.kind = "refresh" =>
       /\ r.step = "add" => r.listing # <<>>
       /\ r.step = "enqueue" => r.new_publication_ids # <<>>
  /\ r.kind = "ingest" =>
       /\ r.step = "fetch" => r.written = {}
       /\ r.step = "upsert" =>
            /\ r.content \in Versions
            /\ r.written \cup Range(r.rows) = Range(Document[r.content])
       /\ r.step = "mark" =>
            \/ r.outcome # "ingested" /\ r.written = {}
            \/ /\ r.outcome = "ingested" /\ r.content \in Versions
               /\ r.written = Range(Document[r.content])
StepOK == \A w \in Slots : SlotOK(run[w])

(* The state before the first seed is typed.                                *)
LEMMA InitTypes == Init => TypeOK
BY CustomsConstants, EmptySeq
   DEF Init, TypeOK, Run, Config, Status

(* So is it after what operators and cron do; the next lemmas follow the    *)
(* order of the actions.                                                    *)
LEMMA OperatorTypes ==
  ASSUME TypeOK,
         Seed \/ RequestRefresh \/ RequestIngest \/ \E s \in CronSources : CronRefresh(s)
  PROVE  TypeOK'
<1> USE DEF TypeOK, sourceRuntime, publicationVars, priceVars
<1>1. CASE Seed
  BY <1>1, CustomsConstants DEF Seed
<1>2. ASSUME NEW job \in Job, Request(job) PROVE TypeOK'
  <2>1. queue' \in Seq(Job)
    BY <1>2, AppendProperties DEF Request
  <2>2. QED
    BY <1>2, <2>1, CustomsConstants DEF Request
<1>3. CASE RequestRefresh
  BY <1>2, <1>3 DEF RequestRefresh, RefreshJob, Job
<1>4. CASE RequestIngest
  BY <1>2, <1>4 DEF RequestIngest, IngestJob, Job
<1>5. ASSUME NEW s \in CronSources, CronRefresh(s) PROVE TypeOK'
  <2>1. RefreshJob(s) \in Job
    BY CustomsConstants DEF RefreshJob, Job
  <2>2. queue' \in Seq(Job)
    BY <1>5, <2>1, AppendProperties DEF CronRefresh
  <2>3. QED
    BY <1>5, <2>2 DEF CronRefresh
<1>6. QED
  BY <1>1, <1>3, <1>4, <1>5

(* Every refresh step leaves the state typed.                               *)
LEMMA RefreshTypes ==
  ASSUME TypeOK, StepOK, NEW w \in Slots, RefreshStep(w)
  PROVE  TypeOK'
<1> USE DEF sourceRuntime, publicationVars, priceVars
<1> DEFINE r == run[w]
<1>1. CASE BeginRefresh(w)
  <2>1. Head(queue) \in Job /\ Tail(queue) \in Seq(Job)
    BY <1>1, HeadTailProperties DEF BeginRefresh, TypeOK
  <2>2. run' \in [Slots -> Run]
    BY <1>1, <2>1, EmptySeq DEF BeginRefresh, TypeOK, Job, Run, RefreshRun
  <2>3. QED
    BY <1>1, <2>1, <2>2 DEF BeginRefresh, TypeOK
<1>2. CASE RefreshFetchFails(w)
  <2>1. r \in RefreshRun
    BY <1>2, RunShapes DEF RefreshFetchFails, Refreshing
  <2>2. QED
    BY <1>2, <2>1 DEF RefreshFetchFails, TypeOK, Run, RefreshRun
<1>3. CASE RefreshDiscoveryRaises(w)
  BY <1>3 DEF RefreshDiscoveryRaises, TypeOK, Run
<1>4. CASE RefreshDiscovers(w)
  <2>1. r \in RefreshRun
    BY <1>4, RunShapes DEF RefreshDiscovers, Refreshing
  <2>2. PICK listing \in Seq(Publications) :
          run' = [run EXCEPT ![w].step = "scan", ![w].listing = listing]
    BY <1>4, CustomsConstants DEF RefreshDiscovers, Discoveries
  <2>3. run'[w] \in RefreshRun
    BY <2>1, <2>2 DEF TypeOK, RefreshRun
  <2>4. QED
    BY <1>4, <2>2, <2>3 DEF RefreshDiscovers, TypeOK, Run
<1>5. CASE RefreshScans(w)
  <2>1. r \in RefreshRun
    BY <1>5, RunShapes DEF RefreshScans, Refreshing
  <2>2. Tail(r.listing) \in Seq(Publications)
    BY <1>5, <2>1, HeadTailProperties DEF RefreshScans, RefreshRun
  <2>3. run'[w] \in RefreshRun
    BY <1>5, <2>1, <2>2 DEF RefreshScans, TypeOK, RefreshRun
  <2>4. QED
    BY <1>5, <2>3 DEF RefreshScans, TypeOK, Run
<1>6. CASE RefreshAdds(w)
  <2>1. r \in RefreshRun /\ r.listing \in Seq(Publications)
    BY <1>6, RunShapes DEF RefreshAdds, Refreshing, RefreshRun
  <2> DEFINE p == Head(r.listing)
  <2>2. p \in Publications /\ Tail(r.listing) \in Seq(Publications)
    <3>0. SlotOK(r)
      BY DEF StepOK
    <3>1. r.listing # <<>>
      BY <1>6, <3>0 DEF RefreshAdds, Refreshing, SlotOK
    <3>2. QED
      BY <2>1, <3>1, HeadTailProperties
  <2>3. Append(r.new_publication_ids, p) \in Seq(Publications)
    BY <2>1, <2>2, AppendProperties DEF RefreshRun
  <2>4. Added(w, p) \in SUBSET Publications
    BY <2>1, <2>2 DEF Added, RefreshRun
  <2>5. run'[w] \in RefreshRun
    BY <1>6, <2>1, <2>2, <2>3, <2>4 DEF RefreshAdds, TypeOK, RefreshRun
  <2>6. QED
    BY <1>6, <2>5 DEF RefreshAdds, TypeOK, Run
<1>7. CASE RefreshCommits(w)
  <2>1. r \in RefreshRun
    BY <1>7, RunShapes DEF RefreshCommits, Refreshing
  <2>2. AfterCommit(r) \in Run
    BY <2>1 DEF AfterCommit, RefreshRun, Run
  <2>3. run' \in [Slots -> Run]
    BY <1>7, <2>2 DEF RefreshCommits, TypeOK
  <2>4. /\ status' \in [Publications -> Status]
        /\ consecutive_failures' \in [Sources -> Nat]
        /\ last_publication_seen_ref' \in [Sources -> Publications \cup {None}]
    BY <1>7, <2>1 DEF RefreshCommits, TypeOK, RefreshRun, Status
  <2>5. QED
    BY <1>7, <2>3, <2>4 DEF RefreshCommits, TypeOK
<1>8. CASE RefreshEnqueues(w)
  <2>1. r \in RefreshRun /\ r.new_publication_ids \in Seq(Publications)
    BY <1>8, RunShapes DEF RefreshEnqueues, MayEnqueue, Refreshing, RefreshRun
  <2> DEFINE ids == r.new_publication_ids
  <2>2. Head(ids) \in Publications /\ Tail(ids) \in Seq(Publications)
    <3>0. SlotOK(r)
      BY DEF StepOK
    <3>1. ids # <<>>
      BY <1>8, <3>0 DEF RefreshEnqueues, MayEnqueue, Refreshing, SlotOK
    <3>2. QED
      BY <2>1, <3>1, HeadTailProperties
  <2>3. IngestJob(Head(ids)) \in Job
    BY <2>2 DEF IngestJob, Job
  <2>4. queue' \in Seq(Job)
    BY <1>8, <2>3, AppendProperties DEF RefreshEnqueues, TypeOK
  <2>5. run'[w] \in Run
    BY <1>8, <2>1, <2>2 DEF RefreshEnqueues, TypeOK, Run, RefreshRun
  <2>6. QED
    BY <1>8, <2>4, <2>5 DEF RefreshEnqueues, TypeOK
<1>9. QED
  BY <1>1, <1>2, <1>3, <1>4, <1>5, <1>6, <1>7, <1>8 DEF RefreshStep

(* Every ingest step leaves the state typed.                                *)
LEMMA IngestTypes ==
  ASSUME TypeOK, StepOK, NEW w \in Slots, IngestStep(w)
  PROVE  TypeOK'
<1> USE DEF sourceRuntime, publicationVars, priceVars
<1> DEFINE r == run[w]
<1>1. CASE BeginIngest(w)
  <2>1. Head(queue) \in Job /\ Tail(queue) \in Seq(Job)
    BY <1>1, HeadTailProperties DEF BeginIngest, TypeOK
  <2>2. run' \in [Slots -> Run]
    BY <1>1, <2>1, EmptySeq DEF BeginIngest, TypeOK, Job, Run, IngestRun
  <2>3. QED
    BY <1>1, <2>1, <2>2 DEF BeginIngest, TypeOK
<1>2. ASSUME NEW p \in Publications, NEW outcome \in {"ingested", "failed", "skipped"},
             NEW content \in Versions \cup {None}, NEW written \in SUBSET Keys
      PROVE  Marking(p, outcome, content, written) \in Run
  BY DEF Marking, TypeOK, Run, MarkRun
<1>3. CASE IngestFetchFails(w)
  <2>1. r \in IngestRun
    BY <1>3, RunShapes DEF IngestFetchFails, Ingesting
  <2>2. Marking(r.publication, "failed", None, {}) \in Run
    BY <1>2, <2>1 DEF IngestRun
  <2>3. QED
    BY <1>3, <2>2 DEF IngestFetchFails, TypeOK
<1>4. CASE IngestSkips(w)
  <2>1. r \in IngestRun
    BY <1>4, RunShapes DEF IngestSkips, Ingesting
  <2>2. Marking(r.publication, "skipped", None, {}) \in Run
    BY <1>2, <2>1 DEF IngestRun
  <2>3. QED
    BY <1>4, <2>2 DEF IngestSkips, TypeOK
<1>5. CASE IngestExtractFails(w)
  <2>1. r \in IngestRun
    BY <1>5, RunShapes DEF IngestExtractFails, Ingesting
  <2>2. PICK v \in Versions : run' = [run EXCEPT ![w] = Marking(@.publication, "failed", v, {})]
    BY <1>5 DEF IngestExtractFails
  <2>3. Marking(r.publication, "failed", v, {}) \in Run
    BY <1>2, <2>1 DEF IngestRun
  <2>4. QED
    BY <1>5, <2>2, <2>3 DEF IngestExtractFails, TypeOK
<1>6. CASE IngestExtracts(w)
  <2>1. r \in IngestRun
    BY <1>6, RunShapes DEF IngestExtracts, Ingesting
  <2>2. PICK v \in Versions :
          run' = [run EXCEPT ![w].step = "upsert", ![w].content = v, ![w].rows = Document[v]]
    BY <1>6 DEF IngestExtracts
  <2>3. run'[w] \in IngestRun
    BY <2>1, <2>2, CustomsConstants DEF TypeOK, IngestRun
  <2>4. QED
    BY <1>6, <2>2, <2>3 DEF IngestExtracts, TypeOK, Run
<1>7. CASE IngestUpserts(w)
  <2>1. r \in IngestRun
    BY <1>7, RunShapes DEF IngestUpserts, Ingesting
  <2>2. Head(r.rows) \in Keys /\ Tail(r.rows) \in Seq(Keys)
    BY <1>7, <2>1, HeadTailProperties DEF IngestUpserts, IngestRun
  <2>3. run'[w] \in IngestRun
    BY <1>7, <2>1, <2>2 DEF IngestUpserts, TypeOK, IngestRun
  <2>4. QED
    BY <1>7, <2>3 DEF IngestUpserts, TypeOK, Run
<1>8. CASE IngestFinishes(w)
  <2>1. r \in IngestRun
    BY <1>8, RunShapes DEF IngestFinishes, EntriesDone, Ingesting
  <2>2. Marking(r.publication, "ingested", r.content, r.written) \in Run
    BY <1>2, <2>1 DEF IngestRun
  <2>3. QED
    BY <1>8, <2>2 DEF IngestFinishes, TypeOK
<1>9. CASE IngestCommits(w)
  <2>1. r \in MarkRun
    BY <1>9, RunShapes DEF IngestCommits, Ingesting
  <2>2. StatusAfter(r) \in Status /\ ContentHashAfter(r) \in Versions \cup {None}
    BY <2>1 DEF StatusAfter, ContentHashAfter, MarkRun, TypeOK, Status
  <2>3. ASSUME NEW n \in Nat, NEW k \in r.written
        PROVE  CopiesAfter(n, k, Document[r.content]) \in Nat
    <3>1. r.content \in Versions
      BY <1>9, <2>3 DEF IngestCommits, Ingesting, StepOK, SlotOK
    <3> DEFINE doc == Document[r.content]
    <3>2. Len(doc) \in Nat /\ DOMAIN doc = 1..Len(doc)
      BY <3>1, CustomsConstants, LenProperties
    <3>3. IsFiniteSet(1..Len(doc))
      BY <3>2, FS_Interval
    <3>4. Occurrences(k, doc) \in Nat
      BY <3>2, <3>3, FS_Subset, FS_CardinalityType DEF Occurrences
    <3>5. QED
      BY <3>4 DEF CopiesAfter
  <2>4. unit_price' \in [Publications -> [Keys -> Versions \cup {None}]]
    BY <1>9, <2>1 DEF IngestCommits, TypeOK, MarkRun
  <2>5. copies' \in [Publications -> [Keys -> Nat]]
    BY <1>9, <2>1, <2>3 DEF IngestCommits, TypeOK, MarkRun
  <2>6. QED
    BY <1>9, <2>1, <2>2, <2>4, <2>5 DEF IngestCommits, TypeOK, Run, MarkRun
<1>10. QED
  BY <1>1, <1>3, <1>4, <1>5, <1>6, <1>7, <1>8, <1>9 DEF IngestStep

(* So does every other step, and so every step of Next.                     *)
LEMMA InterruptTypes ==
  ASSUME TypeOK, NEW w \in Slots, DeadlockAborts(w) \/ JobFails(w) \/ WorkerStops(w)
  PROVE  TypeOK'
<1> USE DEF sourceRuntime, publicationVars, priceVars
<1>1. CASE DeadlockAborts(w)
  BY <1>1 DEF DeadlockAborts, TypeOK, Run
<1>2. CASE JobFails(w)
  BY <1>2, CustomsConstants DEF JobFails, Interrupt, TypeOK, Run
<1>3. CASE WorkerStops(w)
  <2>1. JobOf(run[w]) \in Job
    BY <1>3, RunShapes
       DEF WorkerStops, Interrupt, JobOf, RefreshJob, IngestJob, Job, RefreshRun, IngestRun, MarkRun
  <2>2. queue' \in Seq(Job)
    BY <1>3, <2>1, RangeOfPrepend DEF WorkerStops, TypeOK
  <2>3. QED
    BY <1>3, <2>2, CustomsConstants DEF WorkerStops, Interrupt, TypeOK, Run
<1>4. QED
  BY <1>1, <1>2, <1>3

(* Every step of the system leaves the state typed.                         *)
LEMMA NextTypes ==
  ASSUME TypeOK, StepOK, [Next]_vars PROVE TypeOK'
<1>1. CASE UNCHANGED vars
  BY <1>1 DEF vars, sourceRuntime, publicationVars, priceVars, TypeOK
<1>2. CASE Next
  BY <1>2, OperatorTypes, RefreshTypes, IngestTypes, InterruptTypes DEF Next, SlotStep
<1>3. QED
  BY <1>1, <1>2

-----------------------------------------------------------------------------
(* The steps of a slot.                                                     *)

(* Outside the refresh, ingest and interrupt steps the slots do not move;   *)
(* a step of w leaves the other slots alone, and makes w idle or SlotOK.    *)
LEMMA SlotStepOK ==
  ASSUME TypeOK, StepOK, NEW w \in Slots,
         SlotStep(w) \/ JobFails(w) \/ WorkerStops(w)
  PROVE  /\ run' = [run EXCEPT ![w] = run'[w]]
         /\ SlotOK(run'[w])
<1> USE DEF TypeOK
<1> DEFINE r == run[w]
<1>0. SlotOK(Idle) /\ SlotOK(r)
  BY DEF SlotOK, Idle, StepOK
<1>1. CASE BeginRefresh(w)
  BY <1>0, <1>1 DEF BeginRefresh, SlotOK
<1>2. CASE RefreshFetchFails(w) \/ RefreshDiscoveryRaises(w)
  BY <1>0, <1>2 DEF RefreshFetchFails, RefreshDiscoveryRaises
<1>3. CASE RefreshDiscovers(w)
  <2>1. r \in RefreshRun
    BY <1>3, RunShapes DEF RefreshDiscovers, Refreshing
  <2>2. QED
    BY <1>3, <2>1 DEF RefreshDiscovers, Discoveries, RefreshRun, SlotOK
<1>4. CASE RefreshScans(w)
  <2>1. r \in RefreshRun
    BY <1>4, RunShapes DEF RefreshScans, Refreshing
  <2>2. QED
    BY <1>4, <2>1 DEF RefreshScans, Refreshing, RefreshRun, SlotOK
<1>5. CASE RefreshAdds(w)
  <2>1. r \in RefreshRun
    BY <1>5, RunShapes DEF RefreshAdds, Refreshing
  <2>2. QED
    BY <1>5, <2>1 DEF RefreshAdds, RefreshRun, SlotOK
<1>6. CASE RefreshCommits(w)
  <2>1. r \in RefreshRun
    BY <1>6, RunShapes DEF RefreshCommits, Refreshing
  <2>2. SlotOK(AfterCommit(r))
    BY <1>0, <2>1 DEF AfterCommit, RefreshRun, SlotOK
  <2>3. QED
    BY <1>6, <2>2 DEF RefreshCommits
<1>7. CASE RefreshEnqueues(w)
  <2>1. r \in RefreshRun
    BY <1>7, RunShapes DEF RefreshEnqueues, MayEnqueue, Refreshing
  <2>2. QED
    BY <1>0, <1>7, <2>1 DEF RefreshEnqueues, MayEnqueue, Refreshing, RefreshRun, SlotOK
<1>8. CASE BeginIngest(w)
  BY <1>0, <1>8 DEF BeginIngest, SlotOK
<1>9. CASE IngestFetchFails(w) \/ IngestSkips(w) \/ IngestExtractFails(w)
  BY <1>9 DEF IngestFetchFails, IngestSkips, IngestExtractFails, Marking, SlotOK
<1>10. CASE IngestExtracts(w)
  <2>1. r \in IngestRun
    BY <1>10, RunShapes DEF IngestExtracts, Ingesting
  <2>2. PICK v \in Versions :
          run' = [run EXCEPT ![w].step = "upsert", ![w].content = v, ![w].rows = Document[v]]
    BY <1>10 DEF IngestExtracts
  <2>3. r.written = {}
    BY <1>0, <1>10 DEF IngestExtracts, Ingesting, SlotOK
  <2>4. QED
    BY <1>10, <2>1, <2>2, <2>3 DEF IngestRun, SlotOK
<1>11. CASE IngestUpserts(w)
  <2>1. r \in IngestRun
    BY <1>11, RunShapes DEF IngestUpserts, Ingesting
  <2>2. Range(r.rows) = {Head(r.rows)} \cup Range(Tail(r.rows))
    BY <1>11, <2>1, RangeOfNonempty DEF IngestUpserts, IngestRun
  <2>3. QED
    BY <1>0, <1>11, <2>1, <2>2 DEF IngestUpserts, Ingesting, IngestRun, SlotOK
<1>12. CASE IngestFinishes(w)
  <2>1. r \in IngestRun /\ Range(<<>>) = {}
    BY <1>12, RunShapes DEF IngestFinishes, EntriesDone, Ingesting, Range
  <2>2. QED
    BY <1>0, <1>12, <2>1 DEF IngestFinishes, EntriesDone, Ingesting, Marking, IngestRun, SlotOK
<1>13. CASE IngestCommits(w)
  BY <1>0, <1>13 DEF IngestCommits
<1>14. CASE DeadlockAborts(w) \/ JobFails(w) \/ WorkerStops(w)
  BY <1>0, <1>14 DEF DeadlockAborts, JobFails, WorkerStops, Interrupt
<1>15. QED
  BY <1>1, <1>2, <1>3, <1>4, <1>5, <1>6, <1>7, <1>8, <1>9, <1>10, <1>11, <1>12, <1>13, <1>14
     DEF SlotStep, RefreshStep, IngestStep

(* Every step of the system leaves every slot SlotOK.                       *)
LEMMA NextStepOK ==
  ASSUME TypeOK, StepOK, [Next]_vars PROVE StepOK'
<1>1. CASE run' = run
  BY <1>1 DEF StepOK
<1>2. CASE \E w \in Slots : SlotStep(w) \/ JobFails(w) \/ WorkerStops(w)
  <2>1. PICK w \in Slots : SlotStep(w) \/ JobFails(w) \/ WorkerStops(w)
    BY <1>2
  <2>2. \A x \in Slots : SlotOK(run'[x])
    BY <2>1, SlotStepOK DEF StepOK, TypeOK
  <2>3. QED
    BY <2>2 DEF StepOK
<1>3. QED
  BY <1>1, <1>2
     DEF Next, vars, Seed, RequestRefresh, RequestIngest, Request, CronRefresh

(* Every variable keeps its type; the queue only ever holds jobs a slot can  *)
(* run, and a slot's record is one the code can be in.                      *)
THEOREM TypeCorrect == Spec => [](TypeOK /\ StepOK)
<1>1. Init => TypeOK /\ StepOK
  BY InitTypes DEF Init, StepOK, SlotOK, Idle
<1>2. TypeOK /\ StepOK /\ [Next]_vars => TypeOK' /\ StepOK'
  BY NextTypes, NextStepOK
<1>3. QED
  BY <1>1, <1>2, PTL DEF Spec

-----------------------------------------------------------------------------
(* Price entries.                                                           *)

(* A step that changes entries or INGESTED statuses is the commit of an     *)
(* ingest, and such a commit leaves its content whole.                      *)
LEMMA CommitIsWhole ==
  ASSUME TypeOK, StepOK, NEW w \in Slots, IngestCommits(w)
  PROVE  \E p \in Publications :
           /\ \A q \in Publications \ {p} :
                /\ status'[q] = status[q]
                /\ unit_price'[q] = unit_price[q] /\ copies'[q] = copies[q]
           /\ \/ /\ unit_price' = unit_price /\ copies' = copies
                 /\ status'[p] \in {status[p], "failed", "skipped"}
              \/ \E v \in Versions :
                   /\ Whole(p, v)'
                   /\ \A k \in Keys : unit_price'[p][k] \in {v, unit_price[p][k]}
<1> DEFINE r == run[w]
<1>1. PICK p \in Publications, v \in Versions \cup {None} :
         p = r.publication /\ v = r.content
  BY RunShapes DEF IngestCommits, Ingesting, MarkRun
<1>2. r \in MarkRun /\ SlotOK(r) /\ r.kind = "ingest" /\ r.step = "mark"
  BY RunShapes DEF IngestCommits, Ingesting, StepOK
<1>3. \A q \in Publications \ {p} :
         /\ status'[q] = status[q]
         /\ unit_price'[q] = unit_price[q] /\ copies'[q] = copies[q]
  BY <1>1 DEF IngestCommits, TypeOK
<1>4. CASE r.outcome # "ingested" /\ r.written = {}
  <2>1. unit_price' = unit_price /\ copies' = copies
    BY <1>2, <1>4 DEF IngestCommits, TypeOK, MarkRun
  <2>2. status'[p] \in {status[p], "failed", "skipped"}
    BY <1>1, <1>2, <1>4 DEF IngestCommits, TypeOK, MarkRun, StatusAfter
  <2>3. QED
    BY <1>3, <2>1, <2>2
<1>5. CASE v \in Versions /\ r.written = Range(Document[v])
  <2>1. Range(Document[v]) \subseteq Keys
    BY <1>2, <1>5 DEF MarkRun
  <2>2. \A k \in Keys : unit_price'[p][k] =
          IF k \in Range(Document[v]) THEN v ELSE unit_price[p][k]
    BY <1>1, <1>2, <1>5 DEF IngestCommits, TypeOK, MarkRun
  <2>3. Whole(p, v)'
    BY <2>1, <2>2 DEF Whole
  <2>4. QED
    BY <1>3, <1>5, <2>2, <2>3
<1>6. QED
  BY <1>1, <1>2, <1>4, <1>5 DEF SlotOK

(* Every other step leaves the entries alone and makes nothing INGESTED.    *)
LEMMA OthersKeepEntries ==
  ASSUME TypeOK, [Next]_vars, ~\E w \in Slots : IngestCommits(w)
  PROVE  /\ unit_price' = unit_price /\ copies' = copies
         /\ \A p \in Publications : status'[p] \in {status[p], "discovered"}
BY DEF Next, vars, sourceRuntime, publicationVars, priceVars, Seed, RequestRefresh,
   RequestIngest, Request, CronRefresh, SlotStep, RefreshStep, BeginRefresh,
   RefreshFetchFails, RefreshDiscoveryRaises, RefreshDiscovers, RefreshScans, RefreshAdds,
   RefreshCommits, RefreshEnqueues, IngestStep, BeginIngest, IngestFetchFails, IngestSkips,
   IngestExtractFails, IngestExtracts, IngestUpserts, IngestFinishes, DeadlockAborts,
   JobFails, WorkerStops, Interrupt

(* An INGESTED publication holds some document whole.                       *)
THEOREM IngestedWhole == Spec => []IngestedIsWhole
<1>1. Init => IngestedIsWhole
  BY DEF Init, IngestedIsWhole
<1>2. ASSUME TypeOK, StepOK, IngestedIsWhole, [Next]_vars PROVE IngestedIsWhole'
  <2>1. CASE \E w \in Slots : IngestCommits(w)
    <3>1. PICK w \in Slots : IngestCommits(w)
      BY <2>1
    <3>2. PICK p \in Publications :
            /\ \A q \in Publications \ {p} :
                 /\ status'[q] = status[q]
                 /\ unit_price'[q] = unit_price[q]
            /\ \/ /\ unit_price' = unit_price
                  /\ status'[p] \in {status[p], "failed", "skipped"}
               \/ \E v \in Versions : Whole(p, v)'
      BY <1>2, <3>1, CommitIsWhole
    <3>3. ASSUME NEW q \in Publications \ {p}, status'[q] = "ingested"
          PROVE  \E v \in Versions : Whole(q, v)'
      BY <1>2, <3>2, <3>3 DEF IngestedIsWhole, Whole
    <3>4. ASSUME status'[p] = "ingested" PROVE \E v \in Versions : Whole(p, v)'
      BY <1>2, <3>2, <3>4 DEF IngestedIsWhole, Whole
    <3>5. QED
      BY <3>3, <3>4 DEF IngestedIsWhole
  <2>2. CASE ~\E w \in Slots : IngestCommits(w)
    <3>1. unit_price' = unit_price /\ \A p \in Publications : status'[p] \in {status[p], "discovered"}
      BY <1>2, <2>2, OthersKeepEntries
    <3>2. QED
      BY <1>2, <3>1 DEF IngestedIsWhole, Whole
  <2>3. QED
    BY <2>1, <2>2
<1>3. QED
  BY <1>1, <1>2, TypeCorrect, PTL DEF Spec

(* Readers see the entries of a document change together or not at all.     *)
THEOREM PricesTogether == Spec => PricesChangeTogether
<1> DEFINE Together ==
      \A p \in Publications :
        unit_price'[p] # unit_price[p] \/ copies'[p] # copies[p]
          => \E v \in Versions : Whole(p, v)' /\ \A k \in Keys :
               unit_price'[p][k] \in {v, unit_price[p][k]}
<1>1. TypeOK /\ StepOK /\ [Next]_vars => [Together]_vars
  <2> SUFFICES ASSUME TypeOK, StepOK, [Next]_vars, NEW p \in Publications,
                      unit_price'[p] # unit_price[p] \/ copies'[p] # copies[p]
               PROVE  \E v \in Versions : Whole(p, v)' /\ \A k \in Keys :
                        unit_price'[p][k] \in {v, unit_price[p][k]}
    OBVIOUS
  <2>1. PICK w \in Slots : IngestCommits(w)
    BY OthersKeepEntries
  <2>2. QED
    BY <2>1, CommitIsWhole
<1>2. QED
  BY <1>1, TypeCorrect, PTL DEF Spec, PricesChangeTogether

-----------------------------------------------------------------------------
(* Publication rows, the transactions that insert them and the jobs that    *)
(* name them.                                                               *)

(* An uncommitted insert is of a row nobody sees; an id a refresh will      *)
(* enqueue is its own insert or committed, and committed once its           *)
(* transaction is over; an ingest has read a committed row.                 *)
RowsOfSlot(r) ==
  /\ r.kind = "refresh" =>
       /\ \A p \in r.added : status[p] = "absent"
       /\ \A p \in Range(r.new_publication_ids) : p \in r.added \/ status[p] # "absent"
       /\ r.step = "enqueue" => r.added = {}
  /\ r.kind = "ingest" => status[r.publication] # "absent"

(* Two transactions never insert the same row: the second insert waits.     *)
InsertsExclusive ==
  \A w \in Slots : \A x \in Slots \ {w} :
    run[w].kind = "refresh" /\ run[x].kind = "refresh" => run[w].added \cap run[x].added = {}

QueueCommitted ==
  \A p \in Publications : IngestJob(p) \in Range(queue) => status[p] # "absent"

RowsOK ==
  /\ \A w \in Slots : RowsOfSlot(run[w])
  /\ InsertsExclusive
  /\ QueueCommitted

(* Consistent rows are what the property about pending work needs.          *)
LEMMA RowsImplyPending == TypeOK /\ RowsOK => PendingIsCommitted
<1> SUFFICES ASSUME TypeOK, RowsOK, NEW p \in Publications, Pending(p)
             PROVE  status[p] # "absent"
  BY DEF PendingIsCommitted
<1>1. CASE IngestJob(p) \in Range(queue)
  BY <1>1 DEF RowsOK, QueueCommitted
<1>2. CASE \E w \in Slots : run[w].kind = "ingest" /\ run[w].publication = p
  BY <1>2 DEF RowsOK, RowsOfSlot
<1>3. CASE \E w \in Slots : Refreshing(w, "enqueue") /\ p \in Range(run[w].new_publication_ids)
  <2>1. PICK w \in Slots : Refreshing(w, "enqueue") /\ p \in Range(run[w].new_publication_ids)
    BY <1>3
  <2>2. RowsOfSlot(run[w])
    BY DEF RowsOK
  <2>3. QED
    BY <2>1, <2>2 DEF RowsOfSlot, Refreshing
<1>4. QED
  BY <1>1, <1>2, <1>3 DEF Pending

(* Only the commit of a refresh makes rows appear, and a row that has       *)
(* appeared stays.                                                          *)
LEMMA RowsAppear ==
  ASSUME TypeOK, StepOK, RowsOK, [Next]_vars, ~\E w \in Slots : RefreshCommits(w),
         NEW p \in Publications
  PROVE  /\ status'[p] = "absent" <=> status[p] = "absent"
         /\ status'[p] = "discovered" => status[p] = "discovered"
<1>1. CASE \E w \in Slots : IngestCommits(w)
  <2>1. PICK w \in Slots : IngestCommits(w)
    BY <1>1
  <2> DEFINE r == run[w]
  <2>2. r \in MarkRun /\ status[r.publication] # "absent"
    BY <2>1, RunShapes DEF IngestCommits, Ingesting, RowsOK, RowsOfSlot
  <2>3. StatusAfter(r) \in {status[r.publication], "ingested", "failed", "skipped"}
    BY <2>2 DEF StatusAfter, MarkRun
  <2>4. QED
    BY <2>1, <2>2, <2>3 DEF IngestCommits, TypeOK
<1>2. CASE ~\E w \in Slots : IngestCommits(w)
  <2>1. status' = status
    BY <1>2 DEF Next, vars, sourceRuntime, publicationVars, priceVars, Seed, RequestRefresh,
       RequestIngest, Request, CronRefresh, SlotStep, RefreshStep, BeginRefresh,
       RefreshFetchFails, RefreshDiscoveryRaises, RefreshDiscovers, RefreshScans, RefreshAdds,
       RefreshEnqueues, IngestStep, BeginIngest, IngestFetchFails, IngestSkips,
       IngestExtractFails, IngestExtracts, IngestUpserts, IngestFinishes, DeadlockAborts,
       JobFails, WorkerStops, Interrupt
  <2>2. QED
    BY <2>1
<1>3. QED
  BY <1>1, <1>2

(* The slot of a refresh commit: its inserts appear, the others' do not.    *)
LEMMA RefreshCommitsRows ==
  ASSUME TypeOK, StepOK, RowsOK, NEW w \in Slots, RefreshCommits(w)
  PROVE  RowsOK'
<1> DEFINE r == run[w]
<1>1. r \in RefreshRun /\ RowsOfSlot(r) /\ r.kind = "refresh"
  BY RunShapes DEF RefreshCommits, Refreshing, RowsOK
<1>2. \A p \in Publications :
         status'[p] = IF p \in r.added THEN "discovered" ELSE status[p]
  BY DEF RefreshCommits
<1>3. run' = [run EXCEPT ![w] = AfterCommit(r)] /\ queue' = queue
  BY DEF RefreshCommits
<1>4. RowsOfSlot(run[w])'
  <2>1. CASE AfterCommit(r) = Idle
    BY <1>3, <2>1 DEF TypeOK, Idle, RowsOfSlot
  <2>2. CASE AfterCommit(r) # Idle
    <3>1. /\ run'[w].kind = "refresh" /\ run'[w].added = {}
          /\ run'[w].new_publication_ids = r.new_publication_ids
      BY <1>1, <1>3, <2>2 DEF TypeOK, AfterCommit, RefreshRun
    <3>2. Range(r.new_publication_ids) \subseteq Publications
      BY <1>1, RangeInType DEF RefreshRun
    <3>3. QED
      BY <1>1, <1>2, <3>1, <3>2 DEF RowsOfSlot
  <2>3. QED
    BY <2>1, <2>2
<1>5. ASSUME NEW x \in Slots \ {w} PROVE RowsOfSlot(run[x])'
  <2>1. run'[x] = run[x] /\ RowsOfSlot(run[x])
    BY <1>3 DEF TypeOK, RowsOK
  <2>2. CASE run[x].kind = "refresh"
    <3>1. run[x] \in RefreshRun /\ run[x].added \cap r.added = {}
      BY <1>1, <2>2, RunShapes DEF RowsOK, InsertsExclusive
    <3>2. Range(run[x].new_publication_ids) \subseteq Publications
      BY <3>1, RangeInType DEF RefreshRun
    <3>3. QED
      BY <1>2, <2>1, <2>2, <3>1, <3>2 DEF RowsOfSlot, RefreshRun
  <2>3. CASE run[x].kind = "ingest"
    <3>1. run[x].publication \in Publications
      BY <2>3, RunShapes DEF MarkRun, IngestRun
    <3>2. QED
      BY <1>2, <2>1, <2>3, <3>1 DEF RowsOfSlot
  <2>4. QED
    BY <2>1, <2>2, <2>3 DEF RowsOfSlot
<1>6. InsertsExclusive'
  <2>1. run'[w].kind = "refresh" => run'[w].added = {}
    BY <1>1, <1>3 DEF TypeOK, AfterCommit, RefreshRun, Idle
  <2>2. QED
    BY <1>3, <2>1 DEF RowsOK, InsertsExclusive, TypeOK
<1>7. QueueCommitted'
  BY <1>2, <1>3 DEF RowsOK, QueueCommitted
<1>8. QED
  BY <1>4, <1>5, <1>6, <1>7 DEF RowsOK

(* Any other step of a slot inserts at most one row, one that no other      *)
(* transaction has inserted, and queues only jobs for committed rows.       *)
LEMMA SlotRows ==
  ASSUME TypeOK, StepOK, RowsOK, NEW w \in Slots,
         SlotStep(w) \/ JobFails(w) \/ WorkerStops(w), ~RefreshCommits(w)
  PROVE  /\ RowsOfSlot(run'[w])
         /\ \A x \in Slots \ {w} :
              run'[w].kind = "refresh" /\ run[x].kind = "refresh"
                => run'[w].added \cap run[x].added = {}
         /\ \A p \in Publications : IngestJob(p) \in Range(queue') => status[p] # "absent"
<1> DEFINE r == run[w]
           Exclusive(n) == \A x \in Slots \ {w} :
             n.kind = "refresh" /\ run[x].kind = "refresh" => n.added \cap run[x].added = {}
           Queued(q) == \A p \in Publications :
             IngestJob(p) \in Range(q) => status[p] # "absent"
<1>1. RowsOfSlot(r) /\ Exclusive(r) /\ Queued(queue) /\ SlotOK(r)
  BY DEF RowsOK, InsertsExclusive, QueueCommitted, StepOK
<1>2. RowsOfSlot(Idle) /\ Exclusive(Idle)
  BY DEF RowsOfSlot, Idle
<1>3. queue # <<>> => /\ Range(queue) = {Head(queue)} \cup Range(Tail(queue))
                      /\ Queued(Tail(queue))
  BY <1>1, RangeOfNonempty DEF TypeOK
<1>4. CASE BeginRefresh(w)
  <2>1. queue' = Tail(queue) /\ queue # <<>>
    BY <1>4 DEF BeginRefresh
  <2>2. CASE run' = run
    BY <1>1, <1>3, <2>1, <2>2
  <2>3. CASE run' # run
    <3>1. /\ run'[w].kind = "refresh" /\ run'[w].added = {}
          /\ run'[w].new_publication_ids = <<>>
      BY <1>4, <2>3 DEF BeginRefresh, TypeOK
    <3>2. QED
      BY <1>3, <2>1, <3>1 DEF RowsOfSlot, Range
  <2>4. QED
    BY <2>2, <2>3
<1>5. CASE RefreshFetchFails(w) \/ RefreshDiscoveryRaises(w) \/ DeadlockAborts(w) \/ JobFails(w)
  <2>1. run'[w] = Idle /\ queue' = queue
    BY <1>5 DEF RefreshFetchFails, RefreshDiscoveryRaises, DeadlockAborts, JobFails,
                Interrupt, TypeOK
  <2>2. QED
    BY <1>1, <1>2, <2>1
<1>6. CASE RefreshDiscovers(w) \/ RefreshScans(w)
  <2>1. r \in RefreshRun
    BY <1>6, RunShapes DEF RefreshDiscovers, RefreshScans, Refreshing
  <2>2. /\ queue' = queue
        /\ run'[w].kind = r.kind /\ run'[w].added = r.added
        /\ run'[w].new_publication_ids = r.new_publication_ids
        /\ run'[w].step # "enqueue"
    BY <1>6, <2>1 DEF RefreshDiscovers, Discoveries, RefreshScans, Refreshing, TypeOK, RefreshRun
  <2>3. QED
    BY <1>1, <2>1, <2>2 DEF RowsOfSlot, RefreshRun
<1>7. CASE RefreshAdds(w)
  <2> DEFINE p == Head(r.listing)
  <2>1. r \in RefreshRun /\ r.step = "add" /\ r.listing # <<>> /\ InsertBlockers(w) = {}
    BY <1>1, <1>7, RunShapes DEF RefreshAdds, Refreshing, Blockers, SlotOK
  <2>2. p \in Publications
    BY <2>1, HeadTailProperties DEF RefreshRun
  <2>3. /\ queue' = queue
        /\ run'[w].kind = "refresh" /\ run'[w].added = Added(w, p)
        /\ run'[w].new_publication_ids = Append(r.new_publication_ids, p)
        /\ run'[w].step = "scan"
    BY <1>7, <2>1 DEF RefreshAdds, TypeOK, RefreshRun
  <2>4. Range(run'[w].new_publication_ids) = Range(r.new_publication_ids) \cup {p}
    BY <2>1, <2>2, <2>3, RangeOfAppend DEF RefreshRun
  <2>5. RowsOfSlot(run'[w])
    BY <1>1, <2>1, <2>3, <2>4 DEF RowsOfSlot, Added, RefreshRun
  <2>6. Exclusive(run'[w])
    BY <1>1, <2>1, <2>3 DEF Added, InsertBlockers, Refreshing, RefreshRun
  <2>7. QED
    BY <1>1, <2>3, <2>5, <2>6
<1>8. CASE RefreshEnqueues(w)
  <2> DEFINE ids == r.new_publication_ids
  <2>1. r \in RefreshRun /\ r.step = "enqueue" /\ ids # <<>> /\ ids \in Seq(Publications)
    BY <1>1, <1>8, RunShapes DEF RefreshEnqueues, MayEnqueue, Refreshing, SlotOK, RefreshRun
  <2>2. Range(ids) = {Head(ids)} \cup Range(Tail(ids)) /\ Head(ids) \in Publications
    BY <2>1, RangeOfNonempty, HeadTailProperties
  <2>3. Range(queue') = Range(queue) \cup {IngestJob(Head(ids))}
    <3>1. IngestJob(Head(ids)) \in Job
      BY <2>2 DEF IngestJob, Job
    <3>2. QED
      BY <1>8, <3>1, RangeOfAppend DEF RefreshEnqueues, TypeOK
  <2>4. status[Head(ids)] # "absent"
    BY <1>1, <2>1, <2>2 DEF RowsOfSlot, RefreshRun
  <2>5. Queued(queue')
    BY <1>1, <2>3, <2>4 DEF IngestJob
  <2>6. CASE run'[w] = Idle
    BY <1>2, <2>5, <2>6
  <2>7. CASE run'[w] # Idle
    <3>1. /\ run'[w].kind = "refresh" /\ run'[w].added = r.added
          /\ run'[w].new_publication_ids = Tail(ids)
      BY <1>8, <2>1, <2>7 DEF RefreshEnqueues, TypeOK, RefreshRun
    <3>2. QED
      BY <1>1, <2>1, <2>2, <2>5, <3>1 DEF RowsOfSlot, RefreshRun
  <2>8. QED
    BY <2>6, <2>7
<1>9. CASE BeginIngest(w)
  <2>1. queue' = Tail(queue) /\ queue # <<>>
    BY <1>9 DEF BeginIngest
  <2>2. CASE run' = run
    BY <1>1, <1>3, <2>1, <2>2
  <2>3. CASE run' # run
    <3>1. run'[w].kind = "ingest" /\ status[run'[w].publication] # "absent"
      BY <1>9, <2>3 DEF BeginIngest, TypeOK
    <3>2. QED
      BY <1>3, <2>1, <3>1 DEF RowsOfSlot
  <2>4. QED
    BY <2>2, <2>3
<1>10. CASE IngestFetchFails(w) \/ IngestSkips(w) \/ IngestExtractFails(w) \/ IngestFinishes(w)
  <2>1. r.kind = "ingest"
    BY <1>10 DEF IngestFetchFails, IngestSkips, IngestExtractFails, IngestFinishes, EntriesDone,
                 Ingesting
  <2>2. /\ queue' = queue
        /\ run'[w].kind = "ingest" /\ run'[w].publication = r.publication
    <3>1. \E outcome \in {"ingested", "failed", "skipped"} : \E content, written :
            run' = [run EXCEPT ![w] = Marking(r.publication, outcome, content, written)]
      BY <1>10 DEF IngestFetchFails, IngestSkips, IngestExtractFails, IngestFinishes
    <3>2. queue' = queue
      BY <1>10 DEF IngestFetchFails, IngestSkips, IngestExtractFails, IngestFinishes
    <3>3. QED
      BY <3>1, <3>2 DEF Marking, TypeOK
  <2>3. QED
    BY <1>1, <2>1, <2>2 DEF RowsOfSlot
<1>11. CASE IngestExtracts(w) \/ IngestUpserts(w)
  <2>1. r \in IngestRun
    BY <1>11, RunShapes DEF IngestExtracts, IngestUpserts, Ingesting
  <2>2. /\ queue' = queue
        /\ run'[w].kind = "ingest" /\ run'[w].publication = r.publication
    <3>1. CASE IngestExtracts(w)
      <4>1. PICK v \in Versions :
              run' = [run EXCEPT ![w].step = "upsert", ![w].content = v, ![w].rows = Document[v]]
        BY <3>1 DEF IngestExtracts
      <4>2. QED
        BY <2>1, <3>1, <4>1 DEF IngestExtracts, TypeOK, IngestRun
    <3>2. CASE IngestUpserts(w)
      BY <2>1, <3>2 DEF IngestUpserts, TypeOK, IngestRun
    <3>3. QED
      BY <1>11, <3>1, <3>2
  <2>3. QED
    BY <1>1, <2>1, <2>2 DEF RowsOfSlot, IngestRun
<1>12. CASE IngestCommits(w)
  BY <1>1, <1>2, <1>12 DEF IngestCommits, TypeOK
<1>13. CASE WorkerStops(w)
  <2>1. run'[w] = Idle /\ queue' = <<JobOf(r)>> \o queue /\ r # Idle
    BY <1>13 DEF WorkerStops, Interrupt, TypeOK
  <2>2. JobOf(r) \in Job
    BY <2>1, RunShapes DEF JobOf, RefreshJob, IngestJob, Job, RefreshRun, IngestRun, MarkRun
  <2>3. Range(queue') = Range(queue) \cup {JobOf(r)}
    BY <2>1, <2>2, RangeOfPrepend DEF TypeOK
  <2>4. ASSUME NEW p \in Publications, IngestJob(p) = JobOf(r) PROVE status[p] # "absent"
    BY <1>1, <2>1, <2>4, RunShapes DEF RowsOfSlot, JobOf, RefreshJob, IngestJob
  <2>5. QED
    BY <1>1, <1>2, <2>1, <2>3, <2>4
<1>14. QED
  BY <1>4, <1>5, <1>6, <1>7, <1>8, <1>9, <1>10, <1>11, <1>12, <1>13
     DEF SlotStep, RefreshStep, IngestStep

(* Every step of the system keeps the rows consistent.                      *)
LEMMA NextRows ==
  ASSUME TypeOK, StepOK, RowsOK, [Next]_vars PROVE RowsOK'
<1>1. CASE \E w \in Slots : RefreshCommits(w)
  BY <1>1, RefreshCommitsRows
<1>2. CASE ~\E w \in Slots : RefreshCommits(w)
  <2>1. \A p \in Publications : status'[p] = "absent" <=> status[p] = "absent"
    BY <1>2, RowsAppear
  <2>2. ASSUME NEW r \in Run, RowsOfSlot(r)
        PROVE  /\ r.kind = "refresh" =>
                    /\ \A p \in r.added : status'[p] = "absent"
                    /\ \A p \in Range(r.new_publication_ids) :
                         p \in r.added \/ status'[p] # "absent"
                    /\ r.step = "enqueue" => r.added = {}
               /\ r.kind = "ingest" => status'[r.publication] # "absent"
    <3>1. CASE r \in RefreshRun
      <4>1. Range(r.new_publication_ids) \subseteq Publications /\ r.added \subseteq Publications
        BY <3>1, RangeInType DEF RefreshRun
      <4>2. QED
        BY <2>1, <2>2, <3>1, <4>1 DEF RowsOfSlot, RefreshRun
    <3>2. CASE r \in IngestRun \cup MarkRun
      BY <2>1, <2>2, <3>2 DEF RowsOfSlot, IngestRun, MarkRun
    <3>3. CASE r = Idle
      BY <3>3 DEF Idle
    <3>4. QED
      BY <3>1, <3>2, <3>3 DEF Run
  <2>3. CASE \E w \in Slots : SlotStep(w) \/ JobFails(w) \/ WorkerStops(w)
    <3>1. PICK w \in Slots : SlotStep(w) \/ JobFails(w) \/ WorkerStops(w)
      BY <2>3
    <3>2. /\ \A x \in Slots \ {w} : run'[x] = run[x]
          /\ \A x \in Slots : run'[x] \in Run
      BY <3>1, SlotStepOK, NextTypes DEF TypeOK
    <3>3. \A x \in Slots : RowsOfSlot(run'[x])
      BY <1>2, <3>1, <3>2, SlotRows DEF RowsOK
    <3>4. \A x \in Slots : RowsOfSlot(run[x])'
      BY <2>2, <3>2, <3>3 DEF RowsOfSlot
    <3>5. InsertsExclusive'
      BY <1>2, <3>1, <3>2, SlotRows DEF RowsOK, InsertsExclusive
    <3>6. QueueCommitted'
      BY <1>2, <2>1, <3>1, SlotRows DEF QueueCommitted
    <3>7. QED
      BY <3>4, <3>5, <3>6 DEF RowsOK
  <2>4. CASE run' = run /\ queue' = queue
    <3>1. \A x \in Slots : RowsOfSlot(run[x])'
      BY <2>2, <2>4 DEF RowsOK, RowsOfSlot, TypeOK
    <3>2. QED
      BY <2>1, <2>4, <3>1 DEF RowsOK, InsertsExclusive, QueueCommitted
  <2>5. CASE RequestRefresh \/ RequestIngest \/ \E s \in CronSources : CronRefresh(s)
    <3>1. run' = run
      BY <2>5 DEF RequestRefresh, RequestIngest, Request, CronRefresh
    <3>2. \A x \in Slots : RowsOfSlot(run[x])'
      BY <2>2, <3>1 DEF RowsOK, RowsOfSlot, TypeOK
    <3>3. QueueCommitted'
      <4>1. PICK job \in Job : /\ queue' = Append(queue, job)
                               /\ \A p \in Publications : job = IngestJob(p) => status[p] # "absent"
        <5>1. CASE RequestRefresh
          <6>1. PICK s \in Sources : Request(RefreshJob(s))
            BY <5>1 DEF RequestRefresh
          <6>2. RefreshJob(s) \in Job /\ \A p \in Publications : RefreshJob(s) # IngestJob(p)
            BY DEF RefreshJob, IngestJob, Job
          <6>3. QED
            BY <6>1, <6>2 DEF Request
        <5>2. CASE RequestIngest
          <6>1. PICK p \in Publications : status[p] # "absent" /\ Request(IngestJob(p))
            BY <5>2 DEF RequestIngest
          <6>2. /\ IngestJob(p) \in Job
                /\ \A q \in Publications : IngestJob(p) = IngestJob(q) => p = q
            BY DEF IngestJob, Job
          <6>3. QED
            BY <6>1, <6>2 DEF Request
        <5>3. ASSUME NEW s \in CronSources, CronRefresh(s)
              PROVE  \E job \in Job :
                       /\ queue' = Append(queue, job)
                       /\ \A p \in Publications : job = IngestJob(p) => status[p] # "absent"
          <6>1. RefreshJob(s) \in Job /\ \A p \in Publications : RefreshJob(s) # IngestJob(p)
            BY CustomsConstants DEF RefreshJob, IngestJob, Job
          <6>2. QED
            BY <5>3, <6>1 DEF CronRefresh
        <5>4. QED
          BY <2>5, <5>1, <5>2, <5>3
      <4>2. Range(queue') = Range(queue) \cup {job}
        BY <4>1, RangeOfAppend DEF TypeOK
      <4>3. QED
        BY <2>1, <4>1, <4>2 DEF RowsOK, QueueCommitted
    <3>4. QED
      BY <3>1, <3>2, <3>3 DEF RowsOK, InsertsExclusive
  <2>6. QED
    BY <2>3, <2>4, <2>5 DEF Next, vars, Seed
<1>3. QED
  BY <1>1, <1>2

(* The rows, the transactions and the queue stay consistent.                *)
THEOREM RowsConsistent == Spec => [](TypeOK /\ StepOK /\ RowsOK)
<1>1. Init => RowsOK
  BY DEF Init, RowsOK, RowsOfSlot, InsertsExclusive, QueueCommitted, Idle, Range
<1>2. TypeOK /\ StepOK /\ RowsOK /\ [Next]_vars => RowsOK'
  BY NextRows
<1>3. QED
  BY <1>1, <1>2, TypeCorrect, PTL DEF Spec

(* No job, and no refresh about to enqueue one, names a publication whose   *)
(* row is not committed.                                                    *)
THEOREM PendingCommitted == Spec => []PendingIsCommitted
BY RowsConsistent, RowsImplyPending, PTL

(* No step moves a publication back to DISCOVERED.                          *)
THEOREM NotRediscovered == Spec => NeverRediscovered
<1> DEFINE Forward ==
      \A p \in Publications :
        status'[p] = "discovered" => status[p] \in {"absent", "discovered"}
<1>1. TypeOK /\ StepOK /\ RowsOK /\ [Next]_vars => [Forward]_vars
  <2> SUFFICES ASSUME TypeOK, StepOK, RowsOK, [Next]_vars, NEW p \in Publications,
                      status'[p] = "discovered"
               PROVE  status[p] \in {"absent", "discovered"}
    OBVIOUS
  <2>1. CASE \E w \in Slots : RefreshCommits(w)
    <3>1. PICK w \in Slots : RefreshCommits(w)
      BY <2>1
    <3>2. run[w].kind = "refresh" /\ RowsOfSlot(run[w])
      BY <3>1 DEF RefreshCommits, Refreshing, RowsOK
    <3>3. QED
      BY <3>1, <3>2 DEF RefreshCommits, RowsOfSlot
  <2>2. CASE ~\E w \in Slots : RefreshCommits(w)
    BY <2>2, RowsAppear
  <2>3. QED
    BY <2>1, <2>2
<1>2. QED
  BY <1>1, RowsConsistent, PTL DEF Spec, NeverRediscovered

-----------------------------------------------------------------------------
(* Work pending for what has been discovered.                               *)

(* A refresh lists every row it inserts; an ingest that is marking has read  *)
(* DISCOVERED, or the publication has left that status since.               *)
PendingOfSlot(r) ==
  /\ r.kind = "refresh" => r.added \subseteq Range(r.new_publication_ids)
  /\ r.kind = "ingest" /\ r.step = "mark"
       => r.row.status = "discovered" \/ status[r.publication] # "discovered"

PendingOK ==
  /\ \A w \in Slots : PendingOfSlot(run[w])
  /\ DiscoveredIsPending

(* What keeps a publication pending, slot by slot.                           *)
WorksOn(r, p) ==
  \/ r.kind = "ingest" /\ r.publication = p
  \/ r.kind = "refresh" /\ r.step = "enqueue" /\ p \in Range(r.new_publication_ids)

LEMMA PendingBySlots ==
  ASSUME NEW p \in Publications
  PROVE  Pending(p) <=> \/ IngestJob(p) \in Range(queue)
                        \/ \E w \in Slots : WorksOn(run[w], p)
BY DEF Pending, WorksOn, Refreshing

(* Every step of a slot leaves its record one that lists its inserts, and    *)
(* reads a status at most once.                                             *)
LEMMA SlotPending ==
  ASSUME TypeOK, StepOK, RowsOK, PendingOK, NEW w \in Slots,
         SlotStep(w) \/ JobFails(w) \/ WorkerStops(w)
  PROVE  PendingOfSlot(run[w])'
<1> DEFINE r == run[w]
<1>1. PendingOfSlot(r) /\ PendingOfSlot(Idle)'
  BY DEF PendingOK, PendingOfSlot, Idle
<1>2. CASE run'[w] = Idle
  BY <1>1, <1>2
<1>3. CASE BeginRefresh(w) \/ BeginIngest(w)
  <2>1. run' # run => \/ run'[w].kind = "refresh" /\ run'[w].added = {}
                      \/ run'[w].kind = "ingest" /\ run'[w].step = "fetch"
    BY <1>3 DEF BeginRefresh, BeginIngest, TypeOK
  <2>2. run' = run => run'[w] = Idle
    BY <1>3 DEF BeginRefresh, BeginIngest
  <2>3. QED
    BY <1>1, <2>1, <2>2 DEF PendingOfSlot
<1>4. CASE RefreshDiscovers(w) \/ RefreshScans(w)
  <2>1. r \in RefreshRun
    BY <1>4, RunShapes DEF RefreshDiscovers, RefreshScans, Refreshing
  <2>2. /\ run'[w].kind = "refresh" /\ run'[w].added = r.added
        /\ run'[w].new_publication_ids = r.new_publication_ids
    BY <1>4, <2>1 DEF RefreshDiscovers, Discoveries, RefreshScans, Refreshing, TypeOK, RefreshRun
  <2>3. QED
    BY <1>1, <2>1, <2>2 DEF PendingOfSlot, RefreshRun
<1>5. CASE RefreshAdds(w)
  <2> DEFINE p == Head(r.listing)
  <2>1. r \in RefreshRun /\ r.listing # <<>>
    BY <1>5, RunShapes DEF RefreshAdds, Refreshing, StepOK, SlotOK
  <2>2. p \in Publications
    BY <2>1, HeadTailProperties DEF RefreshRun
  <2>3. /\ run'[w].kind = "refresh" /\ run'[w].added = Added(w, p)
        /\ run'[w].new_publication_ids = Append(r.new_publication_ids, p)
    BY <1>5, <2>1 DEF RefreshAdds, TypeOK, RefreshRun
  <2>4. Range(run'[w].new_publication_ids) = Range(r.new_publication_ids) \cup {p}
    BY <2>1, <2>2, <2>3, RangeOfAppend DEF RefreshRun
  <2>5. QED
    BY <1>1, <2>1, <2>3, <2>4 DEF PendingOfSlot, Added, RefreshRun
<1>6. CASE RefreshCommits(w) \/ RefreshEnqueues(w)
  <2>1. r \in RefreshRun /\ RowsOfSlot(r)
    BY <1>6, RunShapes DEF RefreshCommits, RefreshEnqueues, MayEnqueue, Refreshing, RowsOK
  <2>2. \/ run'[w] = Idle
        \/ run'[w].kind = "refresh" /\ run'[w].added = {}
    <3>1. CASE RefreshCommits(w)
      <4>1. run'[w] = AfterCommit(r)
        BY <3>1 DEF RefreshCommits, TypeOK
      <4>2. AfterCommit(r) = Idle \/ AfterCommit(r) = [r EXCEPT !.step = "enqueue", !.added = {}]
        BY DEF AfterCommit
      <4>3. QED
        BY <2>1, <4>1, <4>2 DEF RefreshRun
    <3>2. CASE RefreshEnqueues(w)
      <4>1. r.step = "enqueue" /\ r.added = {} /\ r.kind = "refresh"
        BY <2>1, <3>2 DEF RefreshEnqueues, MayEnqueue, Refreshing, RowsOfSlot
      <4>2. \/ run'[w] = Idle
            \/ run'[w] = [r EXCEPT !.new_publication_ids = Tail(r.new_publication_ids)]
        BY <3>2 DEF RefreshEnqueues, TypeOK
      <4>3. QED
        BY <2>1, <4>1, <4>2 DEF RefreshRun
    <3>3. QED
      BY <1>6, <3>1, <3>2
  <2>3. QED
    BY <1>1, <2>2 DEF PendingOfSlot
<1>7. CASE IngestExtracts(w) \/ IngestUpserts(w)
  <2>1. r \in IngestRun
    BY <1>7, RunShapes DEF IngestExtracts, IngestUpserts, Ingesting
  <2>2. run'[w].kind = "ingest" /\ run'[w].step = "upsert"
    <3>1. CASE IngestExtracts(w)
      BY <2>1, <3>1 DEF IngestExtracts, TypeOK, IngestRun
    <3>2. CASE IngestUpserts(w)
      BY <2>1, <3>2 DEF IngestUpserts, Ingesting, TypeOK, IngestRun
    <3>3. QED
      BY <1>7, <3>1, <3>2
  <2>3. QED
    BY <2>2 DEF PendingOfSlot
<1>8. CASE IngestFetchFails(w) \/ IngestSkips(w) \/ IngestExtractFails(w) \/ IngestFinishes(w)
  <2>1. PICK outcome, content, written :
          run' = [run EXCEPT ![w] = Marking(r.publication, outcome, content, written)]
    BY <1>8 DEF IngestFetchFails, IngestSkips, IngestExtractFails, IngestFinishes
  <2>2. status' = status
    BY <1>8 DEF IngestFetchFails, IngestSkips, IngestExtractFails, IngestFinishes, publicationVars
  <2>3. QED
    BY <2>1, <2>2 DEF Marking, PendingOfSlot, TypeOK
<1>9. QED
  BY <1>2, <1>3, <1>4, <1>5, <1>6, <1>7, <1>8
     DEF SlotStep, RefreshStep, IngestStep, RefreshFetchFails, RefreshDiscoveryRaises,
         IngestCommits, DeadlockAborts, JobFails, WorkerStops, Interrupt, TypeOK

(* An ingest that PostgreSQL aborts waits for another of its publication.   *)
LEMMA DeadlockKeepsPending ==
  ASSUME TypeOK, RowsOK, NEW w \in Slots, Deadlocked(w), NEW p \in Publications,
         WorksOn(run[w], p)
  PROVE  \E x \in Slots \ {w} : WorksOn(run[x], p)
<1>1. PICK x \in Slots : w \in Blockers(x)
  BY DEF Deadlocked
<1>2. CASE w \in InsertBlockers(x)
  <2>1. run[w].kind = "refresh" /\ run[w].added # {} /\ RowsOfSlot(run[w])
    BY <1>2 DEF InsertBlockers, RowsOK
  <2>2. QED
    BY <2>1 DEF RowsOfSlot, WorksOn
<1>3. CASE w \in UpsertBlockers(x)
  BY <1>3 DEF UpsertBlockers, Ingesting, WorksOn
<1>4. QED
  BY <1>1, <1>2, <1>3 DEF Blockers

(* Until an ingest has marked it, what is pending stays pending: a job that  *)
(* leaves the queue is in a slot, an id that leaves a refresh is in the      *)
(* queue.                                                                   *)
LEMMA SlotKeepsPending ==
  ASSUME TypeOK, StepOK, RowsOK, PendingOK, NEW w \in Slots, SlotStep(w),
         NEW p \in Publications, status[p] = "discovered", Pending(p)
  PROVE  Pending(p)' \/ status'[p] # "discovered"
<1> DEFINE r == run[w]
           Queued == IngestJob(p) \in Range(queue)
           Elsewhere == \E x \in Slots \ {w} : WorksOn(run[x], p)
<1>1. \A x \in Slots \ {w} : run'[x] = run[x]
  BY SlotStepOK DEF TypeOK
<1>2. Queued \/ Elsewhere \/ WorksOn(r, p)
  BY PendingBySlots
<1>3. Elsewhere => Pending(p)'
  BY <1>1, PendingBySlots DEF WorksOn, Pending, Refreshing
<1>4. WorksOn(run'[w], p) => Pending(p)'
  BY DEF WorksOn, Pending, Refreshing
<1>5. IngestJob(p) \in Range(queue') => Pending(p)'
  BY DEF Pending
<1>6. queue # <<>> => Range(queue) = {Head(queue)} \cup Range(Tail(queue))
  BY RangeOfNonempty DEF TypeOK
<1>7. RowsOfSlot(r) /\ SlotOK(r) /\ PendingOfSlot(r)
  BY DEF RowsOK, StepOK, PendingOK
<1> HIDE DEF Elsewhere
<1>8. CASE BeginRefresh(w) \/ BeginIngest(w)
  <2>1. queue # <<>> /\ queue' = Tail(queue) /\ r = Idle
    BY <1>8 DEF BeginRefresh, BeginIngest
  <2>2. ~WorksOn(r, p)
    BY <2>1 DEF WorksOn, Idle
  <2>3. IngestJob(p) = Head(queue) => WorksOn(run'[w], p)
    BY <1>8 DEF BeginRefresh, BeginIngest, IngestJob, WorksOn, TypeOK
  <2>4. QED
    BY <1>2, <1>3, <1>4, <1>5, <1>6, <2>1, <2>2, <2>3
<1>9. CASE RefreshFetchFails(w) \/ RefreshDiscoveryRaises(w) \/ RefreshDiscovers(w)
           \/ RefreshScans(w) \/ RefreshAdds(w) \/ RefreshCommits(w)
  <2>1. r.kind = "refresh" /\ r.step # "enqueue" /\ queue' = queue
    BY <1>9 DEF RefreshFetchFails, RefreshDiscoveryRaises, RefreshDiscovers, RefreshScans,
       RefreshAdds, RefreshCommits, Refreshing
  <2>2. ~WorksOn(r, p)
    BY <2>1 DEF WorksOn
  <2>3. QED
    BY <1>2, <1>3, <1>5, <2>1, <2>2
<1>10. CASE RefreshEnqueues(w)
  <2> DEFINE ids == r.new_publication_ids
  <2>1. r \in RefreshRun /\ r.step = "enqueue" /\ ids # <<>> /\ ids \in Seq(Publications)
    BY <1>7, <1>10, RunShapes DEF RefreshEnqueues, MayEnqueue, Refreshing, SlotOK, RefreshRun
  <2>2. Range(ids) = {Head(ids)} \cup Range(Tail(ids)) /\ IngestJob(Head(ids)) \in Job
    BY <2>1, RangeOfNonempty, HeadTailProperties DEF IngestJob, Job
  <2>3. Range(queue') = Range(queue) \cup {IngestJob(Head(ids))}
    BY <1>10, <2>2, RangeOfAppend DEF RefreshEnqueues, TypeOK
  <2>4. CASE WorksOn(r, p) /\ p # Head(ids)
    <3>1. p \in Range(Tail(ids))
      BY <2>1, <2>2, <2>4 DEF WorksOn, RefreshRun
    <3>2. Tail(ids) # <<>>
      BY <3>1 DEF Range
    <3>3. WorksOn(run'[w], p)
      BY <1>10, <2>1, <3>1, <3>2 DEF RefreshEnqueues, WorksOn, TypeOK, RefreshRun
    <3>4. QED
      BY <1>4, <3>3
  <2>5. QED
    BY <1>2, <1>3, <1>5, <2>3, <2>4
<1>11. CASE IngestFetchFails(w) \/ IngestSkips(w) \/ IngestExtractFails(w) \/ IngestFinishes(w)
  <2>1. \E outcome, content, written :
          run' = [run EXCEPT ![w] = Marking(r.publication, outcome, content, written)]
    BY <1>11 DEF IngestFetchFails, IngestSkips, IngestExtractFails, IngestFinishes
  <2>2. queue' = queue /\ r.kind = "ingest"
    BY <1>11 DEF IngestFetchFails, IngestSkips, IngestExtractFails, IngestFinishes, EntriesDone,
       Ingesting
  <2>3. WorksOn(r, p) => WorksOn(run'[w], p)
    BY <2>1, <2>2 DEF Marking, WorksOn, TypeOK
  <2>4. QED
    BY <1>2, <1>3, <1>4, <1>5, <2>2, <2>3
<1>12. CASE IngestExtracts(w) \/ IngestUpserts(w)
  <2>1. r \in IngestRun
    BY <1>12, RunShapes DEF IngestExtracts, IngestUpserts, Ingesting
  <2>2. queue' = queue /\ run'[w].kind = "ingest" /\ run'[w].publication = r.publication
    <3>1. CASE IngestExtracts(w)
      BY <2>1, <3>1 DEF IngestExtracts, TypeOK, IngestRun
    <3>2. CASE IngestUpserts(w)
      BY <2>1, <3>2 DEF IngestUpserts, TypeOK, IngestRun
    <3>3. QED
      BY <1>12, <3>1, <3>2
  <2>3. WorksOn(r, p) => WorksOn(run'[w], p)
    BY <2>1, <2>2 DEF WorksOn, IngestRun
  <2>4. QED
    BY <1>2, <1>3, <1>4, <1>5, <2>2, <2>3
<1>13. CASE IngestCommits(w)
  <2>1. r \in MarkRun /\ r.kind = "ingest" /\ r.step = "mark" /\ queue' = queue
    BY <1>13, RunShapes DEF IngestCommits, Ingesting
  <2>2. CASE r.publication = p
    <3>1. r.row.status = "discovered" /\ r.outcome # "discovered"
      BY <1>7, <2>1, <2>2 DEF PendingOfSlot, MarkRun
    <3>2. status'[p] = r.outcome
      BY <1>13, <2>2, <3>1 DEF IngestCommits, StatusAfter, TypeOK
    <3>3. QED
      BY <3>1, <3>2
  <2>3. CASE r.publication # p
    BY <1>2, <1>3, <1>5, <2>1, <2>3 DEF WorksOn
  <2>4. QED
    BY <2>2, <2>3
<1>14. CASE DeadlockAborts(w)
  <2>1. WorksOn(r, p) => Elsewhere
    BY <1>14, DeadlockKeepsPending DEF DeadlockAborts, Elsewhere
  <2>2. queue' = queue
    BY <1>14 DEF DeadlockAborts
  <2>3. QED
    BY <1>2, <1>3, <1>5, <2>1, <2>2
<1>15. QED
  BY <1>8, <1>9, <1>10, <1>11, <1>12, <1>13, <1>14 DEF SlotStep, RefreshStep, IngestStep

(* The step of a refresh that makes rows DISCOVERED leaves their ids to be   *)
(* enqueued.                                                                *)
LEMMA CommitIsPending ==
  ASSUME TypeOK, StepOK, RowsOK, PendingOK, NEW w \in Slots, RefreshCommits(w),
         NEW p \in run[w].added
  PROVE  Pending(p)'
<1> DEFINE r == run[w]
<1>1. r \in RefreshRun /\ PendingOfSlot(r) /\ r.kind = "refresh"
  BY RunShapes DEF RefreshCommits, Refreshing, PendingOK
<1>2. p \in Range(r.new_publication_ids)
  BY <1>1 DEF PendingOfSlot
<1>3. r.new_publication_ids # <<>>
  BY <1>2 DEF Range
<1>4. run'[w] = [r EXCEPT !.step = "enqueue", !.added = {}]
  BY <1>3 DEF RefreshCommits, AfterCommit, TypeOK
<1>5. /\ run'[w].kind = "refresh" /\ run'[w].step = "enqueue"
      /\ run'[w].new_publication_ids = r.new_publication_ids
  BY <1>1, <1>4 DEF RefreshRun
<1>6. QED
  BY <1>2, <1>5 DEF Pending, Refreshing

(* Nothing but a job being lost takes the work from a discovered             *)
(* publication.                                                             *)
LEMMA NextPending ==
  ASSUME TypeOK, StepOK, RowsOK, PendingOK, [Next]_vars PROVE PendingOK'
<1>1. ASSUME NEW q \in Publications, status[q] # "absent", status'[q] = "discovered"
      PROVE  status[q] = "discovered"
  <2>1. CASE \E w \in Slots : RefreshCommits(w)
    BY <1>1, <2>1 DEF RefreshCommits, Refreshing, RowsOK, RowsOfSlot
  <2>2. CASE ~\E w \in Slots : RefreshCommits(w)
    BY <1>1, <2>2, RowsAppear
  <2>3. QED
    BY <2>1, <2>2
<1>2. ASSUME NEW x \in Slots, run'[x] = run[x] PROVE PendingOfSlot(run[x])'
  <2>1. PendingOfSlot(run[x]) /\ RowsOfSlot(run[x])
    BY DEF PendingOK, RowsOK
  <2>2. run[x].kind = "ingest" => run[x].publication \in Publications
    BY RunShapes DEF IngestRun, MarkRun
  <2>3. QED
    BY <1>1, <1>2, <2>1, <2>2 DEF PendingOfSlot, RowsOfSlot
<1>3. CASE \E w \in Slots : SlotStep(w) \/ JobFails(w) \/ WorkerStops(w)
  <2>1. PICK w \in Slots : SlotStep(w) \/ JobFails(w) \/ WorkerStops(w)
    BY <1>3
  <2>2. \A x \in Slots : PendingOfSlot(run[x])'
    <3>1. PendingOfSlot(run[w])'
      BY <2>1, SlotPending
    <3>2. \A x \in Slots \ {w} : run'[x] = run[x]
      BY <2>1, SlotStepOK DEF TypeOK
    <3>3. QED
      BY <1>2, <3>1, <3>2
  <2>3. ASSUME faults' = 0, NEW p \in Publications, status'[p] = "discovered"
        PROVE  Pending(p)'
    <3>1. SlotStep(w)
      BY <2>1, <2>3 DEF JobFails, WorkerStops, Interrupt, TypeOK
    <3>2. faults = 0
      BY <2>3, <3>1 DEF SlotStep, RefreshStep, BeginRefresh, RefreshFetchFails,
         RefreshDiscoveryRaises, RefreshDiscovers, RefreshScans, RefreshAdds, RefreshCommits,
         RefreshEnqueues, IngestStep, BeginIngest, IngestFetchFails, IngestSkips,
         IngestExtractFails, IngestExtracts, IngestUpserts, IngestFinishes, IngestCommits,
         DeadlockAborts
    <3>3. CASE status[p] = "discovered"
      BY <2>3, <3>1, <3>2, <3>3, SlotKeepsPending DEF PendingOK, DiscoveredIsPending
    <3>4. CASE status[p] # "discovered"
      <4>1. status[p] = "absent"
        BY <1>1, <2>3, <3>4
      <4>2. PICK x \in Slots : RefreshCommits(x)
        BY <2>3, <4>1, RowsAppear
      <4>3. p \in run[x].added
        BY <2>3, <4>1, <4>2 DEF RefreshCommits
      <4>4. QED
        BY <4>2, <4>3, CommitIsPending
    <3>5. QED
      BY <3>3, <3>4
  <2>4. QED
    BY <2>2, <2>3 DEF PendingOK, DiscoveredIsPending
<1>4. CASE UNCHANGED <<run, status, faults>> /\ Range(queue) \subseteq Range(queue')
  <2>1. \A x \in Slots : PendingOfSlot(run[x])'
    BY <1>2, <1>4
  <2>2. \A p \in Publications : Pending(p) => Pending(p)'
    BY <1>4 DEF Pending, Refreshing
  <2>3. QED
    BY <1>4, <2>1, <2>2 DEF PendingOK, DiscoveredIsPending
<1>5. CASE Seed \/ UNCHANGED vars
  BY <1>4, <1>5 DEF Seed, vars, publicationVars
<1>6. CASE RequestRefresh \/ RequestIngest \/ \E s \in CronSources : CronRefresh(s)
  <2>1. UNCHANGED <<run, status, faults>>
    BY <1>6 DEF RequestRefresh, RequestIngest, Request, CronRefresh, publicationVars
  <2>2. \E job \in Job : queue' = Append(queue, job)
    BY <1>6, CustomsConstants
       DEF RequestRefresh, RequestIngest, Request, CronRefresh, RefreshJob, IngestJob, Job
  <2>3. Range(queue) \subseteq Range(queue')
    BY <2>2, RangeOfAppend DEF TypeOK
  <2>4. QED
    BY <1>4, <2>1, <2>3
<1>7. QED
  BY <1>3, <1>5, <1>6 DEF Next

(* As long as no job is lost, a discovered publication has work pending.    *)
THEOREM DiscoveredPending == Spec => []DiscoveredIsPending
<1>1. Init => PendingOK
  BY DEF Init, PendingOK, PendingOfSlot, DiscoveredIsPending, Idle
<1>2. TypeOK /\ StepOK /\ RowsOK /\ PendingOK /\ [Next]_vars => PendingOK'
  BY NextPending
<1>3. PendingOK => DiscoveredIsPending
  BY DEF PendingOK
<1>4. QED
  BY <1>1, <1>2, <1>3, RowsConsistent, PTL DEF Spec

=============================================================================
