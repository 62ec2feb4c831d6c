------------------------------ MODULE Matching ------------------------------
(***************************************************************************)
(* The matching pipeline: jobs that compute embeddings, jobs that score one *)
(* cigar against the customs entries and upsert its matches, the fan-out    *)
(* that enqueues one such job per cigar, and the admins who PATCH a verdict *)
(* on a match while the matcher runs.                                       *)
(*                                                                         *)
(* As in CustomsPipeline a job's transaction is its record `run[w]', seen   *)
(* by nobody until it commits; the rows it has written or locked are kept   *)
(* from every other writer until it ends.                                   *)
(***************************************************************************)
EXTENDS Scoring, Sequences, FiniteSets

CONSTANTS
  Cigars, Entries,   \* rows of cigar; cigar-class rows of customs_price_entry
  Sizes,             \* pack sizes
  Similarity,        \* cigar, entry -> its exact, fuzzy and vector signals
  TopK,              \* how many candidates the vector recall asks for
  Misses,            \* how many of them the approximate index may miss
  BatchSize,         \* rows embedded in one transaction
  Targets,           \* what operators ask to embed
  Admins,            \* reviewers
  Catalogues,        \* what the pipeline may find when it is first deployed
  Slots,             \* concurrent jobs of the workers
  MaxRequests,       \* bound: jobs and reviews asked for in a behaviour
  MaxChanges,        \* bound: changes of the catalogue in a behaviour
  MaxFaults          \* bound: jobs lost or restarted in a behaviour

ASSUME MatchingConstants ==
  /\ Sizes \subseteq Nat \ {0}
  /\ Similarity \in [Cigars -> [Entries -> Similarities]]
  /\ TopK \in Nat \ {0} /\ Misses \in Nat /\ BatchSize \in Nat \ {0}
  /\ Targets \subseteq {"cigar", "customs", "all"}
  /\ None \notin Sizes \cup Admins
  /\ Catalogues \subseteq [listed : SUBSET Entries, pack_size : [Entries -> Sizes \cup {None}],
                          packages : [Cigars -> SUBSET Sizes]]
  /\ IsFiniteSet(Entries)

ASSUME MatchingBounds == MaxRequests \in Nat /\ MaxChanges \in Nat /\ MaxFaults \in Nat

VARIABLES
  listed,      \* the entries the customs pipeline has stored
  pack_size,   \* of each entry
  packages,    \* the pack sizes each cigar is sold in
  embedded,    \* the cigars and entries whose embedding is not NULL
  match,       \* the row of each cigar and entry
  requests,    \* jobs and reviews asked for so far
  changes,     \* changes of the catalogue so far
  queue,       \* the arq queue
  run,         \* what each slot is doing
  patch,       \* what each reviewer's request is doing
  faults

catalogueVars == <<listed, pack_size, packages>>
vars == <<catalogueVars, embedded, match, requests, changes, queue, run, patch, faults>>

AutoStatus == {"auto_accepted", "pending_review"}
HumanStatus == {"human_accepted", "human_rejected"}

(* Mutation: a rejection does not lock the row.                             *)
HumanLockedIfAccepted(row) == row.status = "human_accepted"

HumanLocked(row) == row.status \in HumanStatus

Row == [status : {"absent"} \cup AutoStatus \cup HumanStatus, score : StoredScores,
        bucket : Sizes \cup {None}, reviewed_by : Admins \cup {None}]
NoMatch == [status |-> "absent", score |-> 0, bucket |-> None, reviewed_by |-> None]

(* A match the run has decided to store.                                    *)
Scored == [entry : Entries, status : AutoStatus, score : StoredScores,
           bucket : Sizes \cup {None}]

MatchJob(c) == [kind |-> "match", cigar |-> c]
MatchAllJob == [kind |-> "match_all"]
EmbedJob(target) == [kind |-> "embed", target |-> target]
Job == [kind : {"match"}, cigar : Cigars] \cup {MatchAllJob}
         \cup [kind : {"embed"}, target : Targets]

Idle == [kind |-> "idle"]

(* A match job holds the pack sizes read at the start, the matches left to  *)
(* upsert, and the rows it has locked, as it wrote them.                    *)
MatchRun ==
  [kind : {"match"}, step : {"recall", "upsert"}, cigar : Cigars,
   pack_sizes : SUBSET Sizes, todo : Seq(Scored), locked : SUBSET Entries,
   wrote : [Entries -> Row]]
FanOutRun == [kind : {"match_all"}, ids : SUBSET Cigars]
EmbedRun == [kind : {"embed"}, target : Targets, step : {"cigar", "customs"},
             batch : SUBSET (Cigars \cup Entries)]
Run == {Idle} \cup MatchRun \cup FanOutRun \cup EmbedRun

(* A PATCH holds the verdict and the row as it read it.                     *)
PatchRun == [kind : {"patch"}, cigar : Cigars, entry : Entries, status : HumanStatus, row : Row]

(* Matching comes to a catalogue that exists: nothing is embedded.          *)
Init ==
  /\ \E catalogue \in Catalogues :
       /\ listed = catalogue.listed
       /\ pack_size = catalogue.pack_size
       /\ packages = catalogue.packages
  /\ embedded = {}
  /\ match = [c \in Cigars |-> [e \in Entries |-> NoMatch]]
  /\ requests = 0 /\ changes = 0 /\ faults = 0
  /\ queue = <<>>
  /\ run = [w \in Slots |-> Idle]
  /\ patch = [a \in Admins |-> Idle]

-----------------------------------------------------------------------------
(* What the rest of the system and the operators do.                        *)

CatalogueChanges ==
  /\ changes < MaxChanges
  /\ changes' = changes + 1
  /\ UNCHANGED <<embedded, match, requests, queue, run, patch, faults>>

(* An ingest inserts an entry, or corrects its pack_size.                   *)
EntryUpserted ==
  /\ CatalogueChanges
  /\ \E e \in Entries, n \in Sizes \cup {None} :
       /\ e \notin listed \/ pack_size[e] # n
       /\ listed' = listed \cup {e}
       /\ pack_size' = [pack_size EXCEPT ![e] = n]
  /\ UNCHANGED packages

(* A product ingest adds a package or corrects the pack_size of one, whose   *)
(* former size may be that of no other package.                             *)
PackageUpserted ==
  /\ CatalogueChanges
  /\ \E c \in Cigars, n \in Sizes, corrected \in SUBSET Sizes :
       /\ Cardinality(corrected) <= 1
       /\ packages' = [packages EXCEPT ![c] = (@ \ corrected) \cup {n}]
  /\ packages' # packages
  /\ UNCHANGED <<listed, pack_size>>

Request(job) ==
  /\ requests < MaxRequests
  /\ requests' = requests + 1
  /\ queue' = Append(queue, job)
  /\ UNCHANGED <<catalogueVars, embedded, match, changes, run, patch, faults>>

(* match-cigar, match-all and POST /match-jobs; embeddings-build.           *)
RequestMatch == \E c \in Cigars : Request(MatchJob(c))
RequestMatchAll == Request(MatchAllJob)
RequestEmbeddings == \E target \in Targets : Request(EmbedJob(target))

-----------------------------------------------------------------------------
(* match_cigar_job.                                                         *)

(* get_cigar_context: a cigar without an embedding ends the job.            *)
BeginMatch(w) ==
  /\ run[w] = Idle /\ queue # <<>> /\ Head(queue).kind = "match"
  /\ LET c == Head(queue).cigar IN
       run' = IF c \notin embedded THEN run
              ELSE [run EXCEPT ![w] =
                     [kind |-> "match", step |-> "recall", cigar |-> c,
                      pack_sizes |-> packages[c], todo |-> <<>>, locked |-> {},
                      wrote |-> [e \in Entries |-> NoMatch]]]
  /\ queue' = Tail(queue)
  /\ UNCHANGED <<catalogueVars, embedded, match, requests, changes, patch, faults>>

Candidates == listed \cap embedded

(* The answers the index may give: the TopK nearest, or all, but for those  *)
(* it misses.                                                               *)
Recalls ==
  LET asked == IF Cardinality(Candidates) < TopK THEN Cardinality(Candidates) ELSE TopK
  IN {recall \in SUBSET Candidates : Cardinality(recall) \in (asked - Misses)..asked}

ScoreOf(r, e) == WeightedScore(Similarity[r.cigar][e], r.pack_sizes, pack_size[e])

(* Mutation: every candidate is kept.                                       *)
AllPerBucket(r, recall, best) == best = recall

(* best holds one candidate of each bucket, one that none of the bucket     *)
(* beats.                                                                   *)
BestPerBucket(r, recall, best) ==
  /\ best \subseteq recall
  /\ \A e \in recall : \E b \in best :
       pack_size[b] = pack_size[e] /\ ScoreOf(r, b) >= ScoreOf(r, e)
  /\ \A b, d \in best : pack_size[b] = pack_size[d] => b = d

ScoredMatch(r, e) ==
  [entry |-> e, status |-> Decide(ScoreOf(r, e)),
   score |-> QuantizeScore(ScoreOf(r, e)), bucket |-> pack_size[e]]

WorthStoring(m) == m.status # "auto_rejected"

(* Some order of the matches to store: the recall's, which depends on what  *)
(* was embedded when it ran.                                                *)
UpsertOrders(matches) ==
  {order \in [1..Cardinality(matches) -> matches] :
     \A i, j \in DOMAIN order : order[i] = order[j] => i = j}

MatchRecalls(w) ==
  /\ run[w].kind = "match" /\ run[w].step = "recall"
  /\ \E recall \in Recalls : \E best \in SUBSET recall :
       /\ BestPerBucket(run[w], recall, best)
       /\ LET kept == {m \in {ScoredMatch(run[w], e) : e \in best} : WorthStoring(m)}
          IN \E todo \in UpsertOrders(kept) :
               run' = IF recall = {} THEN [run EXCEPT ![w] = Idle]
                      ELSE [run EXCEPT ![w].step = "upsert", ![w].todo = todo]
  /\ UNCHANGED <<catalogueVars, embedded, match, requests, changes, queue, patch, faults>>

Upserting(w) == run[w].kind = "match" /\ run[w].step = "upsert"

(* The transactions that hold the row of cigar c and entry e.               *)
Holders(c, e) ==
  {x \in Slots : run[x].kind = "match" /\ run[x].cigar = c /\ e \in run[x].locked}

Blockers(w) ==
  IF Upserting(w) /\ run[w].todo # <<>>
  THEN Holders(run[w].cigar, Head(run[w].todo).entry) \ {w} ELSE {}

(* Mutation: the conflict leaves the status alone.                          *)
RefreshedWithoutStatus(row, m) ==
  [row EXCEPT !.score = m.score, !.bucket = m.bucket,
              !.status = IF @ = "absent" THEN m.status ELSE @]

(* ON CONFLICT DO UPDATE: the verdict columns are not among those set.      *)
Refreshed(row, m) ==
  [row EXCEPT !.status = m.status, !.score = m.score, !.bucket = m.bucket]

(* The row is locked in every case; a human's is not written.               *)
MatchUpserts(w) ==
  /\ Upserting(w) /\ run[w].todo # <<>> /\ Blockers(w) = {}
  /\ LET m == Head(run[w].todo)
         row == match[run[w].cigar][m.entry] IN
       run' = [run EXCEPT ![w].todo = Tail(@), ![w].locked = @ \cup {m.entry},
                          ![w].wrote[m.entry] =
                             IF HumanLocked(row) THEN row ELSE Refreshed(row, m)]
  /\ UNCHANGED <<catalogueVars, embedded, match, requests, changes, queue, patch, faults>>

MatchCommits(w) ==
  /\ Upserting(w) /\ run[w].todo = <<>>
  /\ LET r == run[w] IN
       match' = [match EXCEPT ![r.cigar] =
                  [e \in Entries |-> IF e \in r.locked THEN r.wrote[e] ELSE @[e]]]
  /\ run' = [run EXCEPT ![w] = Idle]
  /\ UNCHANGED <<catalogueVars, embedded, requests, changes, queue, patch, faults>>

-----------------------------------------------------------------------------
(* match_all_cigars_job.                                                    *)

(* Mutation: a cigar that has matches is not matched again.                 *)
UnmatchedCigars ==
  {c \in Cigars \cap embedded : \A e \in Entries : match[c][e] = NoMatch}

EmbeddedCigars == Cigars \cap embedded

BeginMatchAll(w) ==
  /\ run[w] = Idle /\ queue # <<>> /\ Head(queue) = MatchAllJob
  /\ run' = [run EXCEPT ![w] = [kind |-> "match_all", ids |-> EmbeddedCigars]]
  /\ queue' = Tail(queue)
  /\ UNCHANGED <<catalogueVars, embedded, match, requests, changes, patch, faults>>

MatchAllEnqueues(w) ==
  /\ run[w].kind = "match_all"
  /\ \E c \in run[w].ids :
       /\ queue' = Append(queue, MatchJob(c))
       /\ run' = [run EXCEPT ![w].ids = @ \ {c}]
  /\ UNCHANGED <<catalogueVars, embedded, match, requests, changes, patch, faults>>

MatchAllEnds(w) ==
  /\ run[w].kind = "match_all" /\ run[w].ids = {}
  /\ run' = [run EXCEPT ![w] = Idle]
  /\ UNCHANGED <<catalogueVars, embedded, match, requests, changes, queue, patch, faults>>

-----------------------------------------------------------------------------
(* compute_embeddings_job.                                                  *)

BeginEmbed(w) ==
  /\ run[w] = Idle /\ queue # <<>> /\ Head(queue).kind = "embed"
  /\ LET target == Head(queue).target IN
       run' = [run EXCEPT ![w] =
                [kind |-> "embed", target |-> target, batch |-> {},
                 step |-> IF target = "customs" THEN "customs" ELSE "cigar"]]
  /\ queue' = Tail(queue)
  /\ UNCHANGED <<catalogueVars, embedded, match, requests, changes, patch, faults>>

(* Mutation: rows that have an embedding are encoded again.                 *)
EveryRow(step) == IF step = "cigar" THEN Cigars ELSE listed

Unembedded(step) == (IF step = "cigar" THEN Cigars ELSE listed) \ embedded

(* After the cigars come the customs entries, if the target is all.         *)
NextPhase(r) ==
  IF r.step = "cigar" /\ r.target = "all"
  THEN [r EXCEPT !.step = "customs", !.batch = {}] ELSE Idle

(* A batch is read, and then encoded outside the database.                  *)
EmbedReads(w) ==
  /\ run[w].kind = "embed" /\ run[w].batch = {}
  /\ LET left == Unembedded(run[w].step) IN
       IF left = {} THEN run' = [run EXCEPT ![w] = NextPhase(@)]
       ELSE \E batch \in SUBSET left :
              /\ Cardinality(batch) = BatchSize \/ (batch = left /\ Cardinality(left) < BatchSize)
              /\ run' = [run EXCEPT ![w].batch = batch]
  /\ UNCHANGED <<catalogueVars, embedded, match, requests, changes, queue, patch, faults>>

EmbedWrites(w) ==
  /\ run[w].kind = "embed" /\ run[w].batch # {}
  /\ embedded' = embedded \cup run[w].batch
  /\ run' = [run EXCEPT ![w] = IF Cardinality(@.batch) < BatchSize THEN NextPhase(@)
                               ELSE [@ EXCEPT !.batch = {}]]
  /\ UNCHANGED <<catalogueVars, match, requests, changes, queue, patch, faults>>

-----------------------------------------------------------------------------
(* PATCH /matches/{id}: a row is read, and what differs from it is written. *)

PatchReads(a) ==
  /\ patch[a] = Idle /\ requests < MaxRequests
  /\ requests' = requests + 1
  /\ \E c \in Cigars, e \in Entries, status \in HumanStatus :
       /\ match[c][e] # NoMatch
       /\ patch' = [patch EXCEPT ![a] =
                     [kind |-> "patch", cigar |-> c, entry |-> e, status |-> status,
                      row |-> match[c][e]]]
  /\ UNCHANGED <<catalogueVars, embedded, match, changes, queue, run, faults>>

(* Mutation: the reviewer of a rejection is not recorded.                   *)
PatchedAnonymously(row, a, p) ==
  [row EXCEPT !.status = p.status,
              !.reviewed_by = IF p.status = "human_accepted" THEN a ELSE @]

(* The UPDATE names the columns that differ from the row that was read.     *)
Patched(row, a, p) ==
  [row EXCEPT !.status = IF p.status = p.row.status THEN @ ELSE p.status,
              !.reviewed_by = IF a = p.row.reviewed_by THEN @ ELSE a]

(* The UPDATE waits for a matcher that holds the row, and is committed.     *)
PatchCommits(a) ==
  /\ patch[a] # Idle /\ Holders(patch[a].cigar, patch[a].entry) = {}
  /\ LET p == patch[a] IN
       match' = [match EXCEPT ![p.cigar][p.entry] = Patched(@, a, p)]
  /\ patch' = [patch EXCEPT ![a] = Idle]
  /\ UNCHANGED <<catalogueVars, embedded, requests, changes, queue, run, faults>>

-----------------------------------------------------------------------------
(* What ends a job early.                                                   *)

Deadlocked(w) ==
  \E cycle \in SUBSET Slots :
    w \in cycle /\ UNION {Blockers(x) : x \in cycle} = cycle

DeadlockAborts(w) ==
  /\ Deadlocked(w)
  /\ run' = [run EXCEPT ![w] = Idle]
  /\ UNCHANGED <<catalogueVars, embedded, match, requests, changes, queue, patch, faults>>

JobOf(r) ==
  CASE r.kind = "match" -> MatchJob(r.cigar)
    [] r.kind = "match_all" -> MatchAllJob
    [] r.kind = "embed" -> EmbedJob(r.target)

Interrupt(w) ==
  /\ run[w] # Idle /\ faults < MaxFaults
  /\ faults' = faults + 1
  /\ run' = [run EXCEPT ![w] = Idle]
  /\ UNCHANGED <<catalogueVars, embedded, match, requests, changes, patch>>

(* An unexpected exception or the 600 s timeout: the job is not run again.  *)
JobFails(w) == Interrupt(w) /\ UNCHANGED queue

(* The worker stops: the job keeps its place in the queue and runs again.   *)
WorkerStops(w) == Interrupt(w) /\ queue' = <<JobOf(run[w])>> \o queue

-----------------------------------------------------------------------------

MatchStep(w) == BeginMatch(w) \/ MatchRecalls(w) \/ MatchUpserts(w) \/ MatchCommits(w)
MatchAllStep(w) == BeginMatchAll(w) \/ MatchAllEnqueues(w) \/ MatchAllEnds(w)
EmbedStep(w) == BeginEmbed(w) \/ EmbedReads(w) \/ EmbedWrites(w)
SlotStep(w) == MatchStep(w) \/ MatchAllStep(w) \/ EmbedStep(w) \/ DeadlockAborts(w)

Next ==
  \/ EntryUpserted \/ PackageUpserted
  \/ RequestMatch \/ RequestMatchAll \/ RequestEmbeddings
  \/ \E w \in Slots : SlotStep(w) \/ JobFails(w) \/ WorkerStops(w)
  \/ \E a \in Admins : PatchReads(a) \/ PatchCommits(a)

Spec == Init /\ [][Next]_vars

(* A slot that can take a step eventually does, and so does a request in    *)
(* the API; operators and the catalogue need never act.                     *)
FairSpec ==
  /\ Spec
  /\ \A w \in Slots : WF_vars(SlotStep(w))
  /\ \A a \in Admins : WF_vars(PatchCommits(a))

-----------------------------------------------------------------------------
(* Properties.                                                              *)

TypeOK ==
  /\ listed \subseteq Entries
  /\ pack_size \in [Entries -> Sizes \cup {None}]
  /\ packages \in [Cigars -> SUBSET Sizes]
  /\ embedded \subseteq Cigars \cup Entries
  /\ match \in [Cigars -> [Entries -> Row]]
  /\ requests \in 0..MaxRequests /\ changes \in 0..MaxChanges /\ faults \in 0..MaxFaults
  /\ queue \in Seq(Job)
  /\ run \in [Slots -> Run]
  /\ patch \in [Admins -> {Idle} \cup PatchRun]

(* What readers of the matches see is what ReviewedMatches promises.        *)
Verdicts == INSTANCE ReviewedMatches WITH Buckets <- Sizes, Scores <- StoredScores, NoScore <- 0
ImplementsVerdicts == Verdicts!Spec

(* No run of the matcher touches a row a human has ruled on, even one that  *)
(* read the row's cigar before the verdict and commits after it: its status *)
(* stays a human's, and the score and bucket the human saw stay             *)
(* (customs.py:415-469, docs/matching-pipeline.md:95).                      *)
HumanVerdictKept ==
  [][\A c \in Cigars, e \in Entries :
       match[c][e].status \in HumanStatus =>
         /\ match'[c][e].status \in HumanStatus
         /\ match'[c][e].score = match[c][e].score
         /\ match'[c][e].bucket = match[c][e].bucket]_vars

(* A row has a reviewer exactly when its status is a verdict, although      *)
(* requests that race write only the columns that differ from what they     *)
(* read, and a matcher may refresh the row in between.                      *)
ReviewerRecorded ==
  \A c \in Cigars, e \in Entries :
    match[c][e].status \in HumanStatus <=> match[c][e].reviewed_by # None

(* The score and the status of an automatic row are of one run: the stored  *)
(* score decides the status (scorer.py:36-47), but for the rounding to      *)
(* three decimals, which can store 0.850 for a score to be reviewed.        *)
Fits(row) ==
  /\ row.status = "auto_accepted" => row.score >= 850
  /\ row.status = "pending_review" => row.score >= 500 /\ row.score <= 850
StatusFitsScore == \A c \in Cigars, e \in Entries : Fits(match[c][e])

(* Every job ends: row locks are given up and no embedding batch repeats.   *)
JobsEnd == \A w \in Slots : run[w] # Idle ~> run[w] = Idle

(* A fan-out about to start reaches every cigar that has an embedding, ones *)
(* that were matched before included, if no job is lost.                    *)
FanOutReaches ==
  \A c \in Cigars :
    queue # <<>> /\ Head(queue) = MatchAllJob /\ c \in embedded
      ~> faults > 0 \/ \E w \in Slots : run[w].kind = "match" /\ run[w].cigar = c

-----------------------------------------------------------------------------
(* What the documents say and the code does not keep: neither holds.        *)

(* docs/matching-pipeline.md:73-75: one match per pack_size_bucket is kept. *)
OneMatchPerBucket ==
  \A c \in Cigars :
    LET accepted == {e \in Entries : match[c][e].status = "auto_accepted"} IN
      \A e, f \in accepted : match[c][e].bucket = match[c][f].bucket => e = f

(* matches.py:157: a PATCH sets the status to the verdict it was given.     *)
PatchSetsStatus ==
  [][\A a \in Admins : patch[a] # Idle /\ patch'[a] = Idle =>
       match'[patch[a].cigar][patch[a].entry].status = patch[a].status]_vars
=============================================================================
