--------------------------- MODULE CustomsPipeline ---------------------------
(***************************************************************************)
(* The customs pipeline: regulator sources are refreshed by worker jobs     *)
(* that register new publications, and every publication is ingested by a   *)
(* job of its own that stores its price entries.                            *)
(*                                                                         *)
(* State kept in PostgreSQL (sources, publications, price entries) and in   *)
(* Redis (the arq queue) is shared by the worker's job slots.  A job runs   *)
(* one database transaction, so what it has written is in its own record    *)
(* `run[w]' until it commits; READ COMMITTED lets it see the commits of     *)
(* others between two statements, and a row it has written is locked until  *)
(* it ends.  A step below is what a job does between two points where       *)
(* another job can interleave.                                              *)
(***************************************************************************)
EXTENDS Integers, Sequences, FiniteSets, Functions

CONSTANTS
  Sources,        \* rows of the seed file, by code
  CronSources,    \* the codes the cron jobs are written for
  ApiSources,     \* sources whose discovery adapter does its own requests
  Publications,   \* (source, regulator_reference) pairs a regulator may list
  SourceOf,       \* the source that lists each publication
  Listings,       \* what an index may contain, in page order
  SeedFiles,      \* contents the seed YAML may have: code -> Config
  Keys,           \* natural keys of price entries inside one publication
  NoPackaging,    \* the keys whose packaging_description is empty
  Versions,       \* contents a document may have, named by their hash
  Document,       \* the keys of each content, in extraction order
  Slots,          \* concurrent jobs of the workers
  None,           \* SQL NULL
  MaxRequests,    \* bound: jobs operators enqueue in a behaviour
  MaxFailures,    \* bound: consecutive_failures stays at or below it
  MaxFaults       \* bound: jobs lost or restarted in a behaviour

Config == {"active", "inactive", "unset_url"}

ASSUME CustomsConstants ==
  /\ SourceOf \in [Publications -> Sources]
  /\ CronSources \subseteq Sources
  /\ Listings \subseteq Seq(Publications)
  /\ \A file \in SeedFiles : \A s \in DOMAIN file : file[s] \in Config
  /\ Document \in [Versions -> Seq(Keys)]
  /\ None \notin Versions \cup Publications
  /\ MaxRequests \in Nat /\ MaxFailures \in Nat /\ MaxFaults \in Nat

VARIABLES
  config,                     \* operator-owned columns of customs_source
  consecutive_failures,
  last_publication_seen_ref,
  status,                     \* customs_publication.status, or no row yet
  content_hash,
  unit_price,                 \* the content that last wrote each entry
  copies,                     \* how many rows carry the natural key
  requests,                   \* jobs operators have enqueued so far
  queue,                      \* the arq queue
  run,                        \* what each slot is doing
  faults

sourceRuntime == <<consecutive_failures, last_publication_seen_ref>>
publicationVars == <<status, content_hash>>
priceVars == <<unit_price, copies>>
vars == <<config, sourceRuntime, publicationVars, priceVars, requests, queue, run, faults>>

Status == {"absent", "discovered", "ingested", "failed", "skipped"}

RefreshJob(s) == [kind |-> "refresh", source |-> s]
IngestJob(p) == [kind |-> "ingest", publication |-> p]
Job == [kind : {"refresh"}, source : Sources]
         \cup [kind : {"ingest"}, publication : Publications]

Idle == [kind |-> "idle"]

(* A refresh holds the source row as read at the start, the rest of the     *)
(* listing, the rows it has inserted and not committed, and the ids it will *)
(* enqueue.                                                                 *)
RefreshRun ==
  [kind : {"refresh"}, step : {"fetch", "scan", "add", "enqueue"},
   source : Sources, failures : Nat, latest : Publications \cup {None},
   listing : Seq(Publications), added : SUBSET Publications,
   new_publication_ids : Seq(Publications)]

(* An ingest holds the content_hash read at the start, the content fetched, *)
(* the entries left to write and the ones written and not committed.        *)
IngestRun ==
  [kind : {"ingest"}, step : {"fetch", "upsert"},
   publication : Publications, hash : Versions \cup {None},
   content : Versions \cup {None}, rows : Seq(Keys), written : SUBSET Keys]

(* An ingest that is marking its publication: what it will write (content   *)
(* None leaves content_hash alone), and the row as mark_status read it.     *)
MarkRun ==
  [kind : {"ingest"}, step : {"mark"}, publication : Publications,
   outcome : {"ingested", "failed", "skipped"}, content : Versions \cup {None},
   written : SUBSET Keys,
   row : [status : Status, content_hash : Versions \cup {None}]]

Run == {Idle} \cup RefreshRun \cup IngestRun \cup MarkRun

Refreshing(w, step) == run[w].kind = "refresh" /\ run[w].step = step
Ingesting(w, step) == run[w].kind = "ingest" /\ run[w].step = step

Occurrences(k, doc) == Cardinality({i \in DOMAIN doc : doc[i] = k})

Init ==
  /\ config = [s \in Sources |-> "absent"]
  /\ consecutive_failures = [s \in Sources |-> 0]
  /\ last_publication_seen_ref = [s \in Sources |-> None]
  /\ status = [p \in Publications |-> "absent"]
  /\ content_hash = [p \in Publications |-> None]
  /\ unit_price = [p \in Publications |-> [k \in Keys |-> None]]
  /\ copies = [p \in Publications |-> [k \in Keys |-> 0]]
  /\ requests = 0
  /\ queue = <<>>
  /\ run = [w \in Slots |-> Idle]
  /\ faults = 0

-----------------------------------------------------------------------------
(* Operators and cron.                                                      *)

(* customs-seed: every source of the file is upserted in one transaction,   *)
(* and the columns the worker owns are left alone.                          *)
Seed ==
  \E file \in SeedFiles :
    /\ config' = [s \in Sources |-> IF s \in DOMAIN file THEN file[s] ELSE config[s]]
    /\ UNCHANGED <<sourceRuntime, publicationVars, priceVars, requests, queue, run, faults>>

Request(job) ==
  /\ requests < MaxRequests
  /\ requests' = requests + 1
  /\ queue' = Append(queue, job)
  /\ UNCHANGED <<config, sourceRuntime, publicationVars, priceVars, run, faults>>

(* A cron tick.  Ticks are a day or a week apart, so it finds the worker    *)
(* idle; a refresh that overlaps other jobs is an operator's.               *)
CronRefresh(s) ==
  /\ queue = <<>> /\ \A w \in Slots : run[w] = Idle
  /\ queue' = Append(queue, RefreshJob(s))
  /\ UNCHANGED <<config, sourceRuntime, publicationVars, priceVars, requests, run, faults>>

(* customs-discover and POST .../refresh-jobs.                              *)
RequestRefresh == \E s \in Sources : Request(RefreshJob(s))

(* customs-ingest, for a publication the operator has found in the database. *)
RequestIngest ==
  \E p \in Publications : status[p] # "absent" /\ Request(IngestJob(p))

-----------------------------------------------------------------------------
(* refresh_customs_source_job.                                              *)

(* Mutation: a source that keeps failing is given up.                       *)
RefreshableUntilFailing(s) ==
  config[s] = "active" /\ consecutive_failures[s] < MaxFailures

(* A source that is missing, inactive or without a URL ends the job with an *)
(* error report; otherwise the whole row is read.                           *)
Refreshable(s) == config[s] = "active"

BeginRefresh(w) ==
  /\ run[w] = Idle /\ queue # <<>> /\ Head(queue).kind = "refresh"
  /\ LET s == Head(queue).source IN
       run' = IF ~Refreshable(s) THEN run
              ELSE [run EXCEPT ![w] =
                     [kind |-> "refresh", step |-> "fetch", source |-> s,
                      failures |-> consecutive_failures[s],
                      latest |-> last_publication_seen_ref[s],
                      listing |-> <<>>, added |-> {}, new_publication_ids |-> <<>>]]
  /\ queue' = Tail(queue)
  /\ UNCHANGED <<config, sourceRuntime, publicationVars, priceVars, requests, faults>>

(* The counter is written from the row read at the start.                   *)
RefreshFetchFails(w) ==
  /\ Refreshing(w, "fetch") /\ run[w].source \notin ApiSources
  /\ run[w].failures < MaxFailures
  /\ consecutive_failures' =
       [consecutive_failures EXCEPT ![run[w].source] = run[w].failures + 1]
  /\ run' = [run EXCEPT ![w] = Idle]
  /\ UNCHANGED <<config, last_publication_seen_ref, publicationVars, priceVars, requests, queue, faults>>

(* The discovery adapter raises: the job fails, nothing is recorded.        *)
RefreshDiscoveryRaises(w) ==
  /\ Refreshing(w, "fetch")
  /\ run' = [run EXCEPT ![w] = Idle]
  /\ UNCHANGED <<config, sourceRuntime, publicationVars, priceVars, requests, queue, faults>>

(* What a discovery adapter may return: the order is the page's, and the    *)
(* generic one keeps a reference that the page lists twice.                 *)
Discoveries(s) == {listing \in Listings : \A p \in Range(listing) : SourceOf[p] = s}

RefreshDiscovers(w) ==
  /\ Refreshing(w, "fetch")
  /\ \E listing \in Discoveries(run[w].source) :
       run' = [run EXCEPT ![w].step = "scan", ![w].listing = listing]
  /\ UNCHANGED <<config, sourceRuntime, publicationVars, priceVars, requests, queue, faults>>

(* exists(): committed rows and the transaction's own.                      *)
Exists(w, p) == status[p] # "absent" \/ p \in run[w].added

(* Mutation: a known publication does not move the scan on.                 *)
RefreshScansOnlyNew(w) ==
  /\ Refreshing(w, "scan") /\ run[w].listing # <<>>
  /\ ~Exists(w, Head(run[w].listing))
  /\ run' = [run EXCEPT ![w].step = "add"]
  /\ UNCHANGED <<config, sourceRuntime, publicationVars, priceVars, requests, queue, faults>>

RefreshScans(w) ==
  /\ Refreshing(w, "scan") /\ run[w].listing # <<>>
  /\ run' = IF Exists(w, Head(run[w].listing))
            THEN [run EXCEPT ![w].listing = Tail(@)]
            ELSE [run EXCEPT ![w].step = "add"]
  /\ UNCHANGED <<config, sourceRuntime, publicationVars, priceVars, requests, queue, faults>>

(* The transactions whose uncommitted row a statement of w must wait for.   *)
InsertBlockers(w) ==
  {x \in Slots \ {w} : /\ Refreshing(w, "add") /\ run[x].kind = "refresh"
                       /\ Head(run[w].listing) \in run[x].added}
UpsertBlockers(w) ==
  {x \in Slots \ {w} : /\ Ingesting(w, "upsert") /\ run[w].rows # <<>>
                       /\ run[x].kind = "ingest"
                       /\ run[x].publication = run[w].publication
                       /\ Head(run[w].rows) \in run[x].written \ NoPackaging}
Blockers(w) == InsertBlockers(w) \cup UpsertBlockers(w)

(* Mutation: the conflict overwrites the row that won the race.             *)
AddedOverwriting(w, p) == run[w].added \cup {p}

(* add(): the row is inserted, or the race is lost and the existing row is  *)
(* returned; the caller counts it as new in both cases.                     *)
Added(w, p) == IF status[p] = "absent" THEN run[w].added \cup {p} ELSE run[w].added

RefreshAdds(w) ==
  /\ Refreshing(w, "add") /\ Blockers(w) = {}
  /\ LET p == Head(run[w].listing) IN
       run' = [run EXCEPT ![w].step = "scan", ![w].listing = Tail(@), ![w].latest = p,
                          ![w].added = Added(w, p),
                          ![w].new_publication_ids = Append(@, p)]
  /\ UNCHANGED <<config, sourceRuntime, publicationVars, priceVars, requests, queue, faults>>

(* Mutation: the new publications are not enqueued.                         *)
AfterCommitSilently(r) == Idle

(* What a refresh does once its transaction is over: enqueue or end.        *)
AfterCommit(r) ==
  IF r.new_publication_ids = <<>> THEN Idle
  ELSE [r EXCEPT !.step = "enqueue", !.added = {}]

(* update_check_state reads the source row, writes it and is committed; the  *)
(* three are one step.                                                      *)
RefreshCommits(w) ==
  /\ Refreshing(w, "scan") /\ run[w].listing = <<>>
  /\ LET r == run[w] IN
       /\ status' = [p \in Publications |->
                       IF p \in r.added THEN "discovered" ELSE status[p]]
       /\ consecutive_failures' = [consecutive_failures EXCEPT ![r.source] = 0]
       /\ last_publication_seen_ref' =
            IF r.latest = None THEN last_publication_seen_ref
            ELSE [last_publication_seen_ref EXCEPT ![r.source] = r.latest]
       /\ run' = [run EXCEPT ![w] = AfterCommit(r)]
  /\ UNCHANGED <<config, content_hash, priceVars, requests, queue, faults>>

(* Mutation: jobs are enqueued while the transaction is open.               *)
MayEnqueueEarly(w) ==
  run[w].kind = "refresh" /\ run[w].new_publication_ids # <<>>

MayEnqueue(w) == Refreshing(w, "enqueue")

RefreshEnqueues(w) ==
  /\ MayEnqueue(w)
  /\ LET ids == run[w].new_publication_ids IN
       /\ queue' = Append(queue, IngestJob(Head(ids)))
       /\ run' = [run EXCEPT ![w] = IF Tail(ids) = <<>> THEN Idle
                                    ELSE [@ EXCEPT !.new_publication_ids = Tail(ids)]]
  /\ UNCHANGED <<config, sourceRuntime, publicationVars, priceVars, requests, faults>>

-----------------------------------------------------------------------------
(* ingest_customs_publication_job.                                          *)

(* The publication is read, content_hash with it; a job for a row that does *)
(* not exist ends at once.                                                  *)
BeginIngest(w) ==
  /\ run[w] = Idle /\ queue # <<>> /\ Head(queue).kind = "ingest"
  /\ LET p == Head(queue).publication IN
       run' = IF status[p] = "absent" THEN run
              ELSE [run EXCEPT ![w] =
                     [kind |-> "ingest", step |-> "fetch", publication |-> p,
                      hash |-> content_hash[p], content |-> None,
                      rows |-> <<>>, written |-> {}]]
  /\ queue' = Tail(queue)
  /\ UNCHANGED <<config, sourceRuntime, publicationVars, priceVars, requests, faults>>

(* mark_status reads the row afresh; the ORM writes back at the commit.      *)
Marking(p, outcome, content, written) ==
  [kind |-> "ingest", step |-> "mark", publication |-> p, outcome |-> outcome,
   content |-> content, written |-> written,
   row |-> [status |-> status[p], content_hash |-> content_hash[p]]]

IngestFetchFails(w) ==
  /\ Ingesting(w, "fetch")
  /\ run' = [run EXCEPT ![w] = Marking(@.publication, "failed", None, {})]
  /\ UNCHANGED <<config, sourceRuntime, publicationVars, priceVars, requests, queue, faults>>

(* The document has the hash the row had when the job began.                *)
IngestSkips(w) ==
  /\ Ingesting(w, "fetch") /\ run[w].hash # None
  /\ run' = [run EXCEPT ![w] = Marking(@.publication, "skipped", None, {})]
  /\ UNCHANGED <<config, sourceRuntime, publicationVars, priceVars, requests, queue, faults>>

(* The extractor raises: the hash of what could not be read is stored.      *)
IngestExtractFails(w) ==
  /\ Ingesting(w, "fetch")
  /\ \E v \in Versions \ {run[w].hash} :
       run' = [run EXCEPT ![w] = Marking(@.publication, "failed", v, {})]
  /\ UNCHANGED <<config, sourceRuntime, publicationVars, priceVars, requests, queue, faults>>

IngestExtracts(w) ==
  /\ Ingesting(w, "fetch")
  /\ \E v \in Versions \ {run[w].hash} :
       run' = [run EXCEPT ![w].step = "upsert", ![w].content = v, ![w].rows = Document[v]]
  /\ UNCHANGED <<config, sourceRuntime, publicationVars, priceVars, requests, queue, faults>>

(* Mutation: every upsert is committed on its own.                          *)
IngestUpsertsAndCommits(w) ==
  /\ Ingesting(w, "upsert") /\ run[w].rows # <<>> /\ Blockers(w) = {}
  /\ LET r == run[w] IN
       unit_price' = [unit_price EXCEPT ![r.publication][Head(r.rows)] = r.content]
  /\ run' = [run EXCEPT ![w].rows = Tail(@), ![w].written = @ \cup {Head(run[w].rows)}]
  /\ UNCHANGED <<config, sourceRuntime, publicationVars, copies, requests, queue, faults>>

(* One upsert; it waits for a transaction that has written the same row.  A *)
(* NULL packaging never conflicts, so it never waits.                       *)
IngestUpserts(w) ==
  /\ Ingesting(w, "upsert") /\ run[w].rows # <<>> /\ Blockers(w) = {}
  /\ run' = [run EXCEPT ![w].rows = Tail(@), ![w].written = @ \cup {Head(run[w].rows)}]
  /\ UNCHANGED <<config, sourceRuntime, publicationVars, priceVars, requests, queue, faults>>

(* Mutation: the publication is marked inside the loop over the entries.     *)
EntriesStarted(w) == Ingesting(w, "upsert")

EntriesDone(w) == Ingesting(w, "upsert") /\ run[w].rows = <<>>

IngestFinishes(w) ==
  /\ EntriesDone(w)
  /\ run' = [run EXCEPT ![w] = Marking(@.publication, "ingested", @.content, @.written)]
  /\ UNCHANGED <<config, sourceRuntime, publicationVars, priceVars, requests, queue, faults>>

(* The UPDATE names the columns that differ from the row mark_status read.  *)
StatusAfter(r) ==
  IF r.outcome = r.row.status THEN status[r.publication] ELSE r.outcome
ContentHashAfter(r) ==
  IF r.content \in {None, r.row.content_hash} THEN content_hash[r.publication] ELSE r.content

(* How many rows carry key k after document doc is written over n of them:  *)
(* the unique constraint ignores NULLs, so a NULL packaging inserts again.  *)
CopiesAfter(n, k, doc) ==
  IF k \in NoPackaging THEN n + Occurrences(k, doc) ELSE 1

IngestCommits(w) ==
  /\ Ingesting(w, "mark")
  /\ LET r == run[w]
         p == r.publication IN
       /\ status' = [status EXCEPT ![p] = StatusAfter(r)]
       /\ content_hash' = [content_hash EXCEPT ![p] = ContentHashAfter(r)]
       /\ unit_price' = [unit_price EXCEPT ![p] =
            [k \in Keys |-> IF k \in r.written THEN r.content ELSE @[k]]]
       /\ copies' = [copies EXCEPT ![p] =
            [k \in Keys |-> IF k \in r.written
                            THEN CopiesAfter(@[k], k, Document[r.content]) ELSE @[k]]]
       /\ run' = [run EXCEPT ![w] = Idle]
  /\ UNCHANGED <<config, sourceRuntime, requests, queue, faults>>

-----------------------------------------------------------------------------
(* What ends a job early.                                                   *)

(* w is on a cycle of transactions that wait for each other.                *)
Deadlocked(w) ==
  \E cycle \in SUBSET Slots :
    w \in cycle /\ UNION {Blockers(x) : x \in cycle} = cycle

(* PostgreSQL aborts one transaction of a cycle; the exception fails the    *)
(* job, which arq does not retry.                                           *)
DeadlockAborts(w) ==
  /\ Deadlocked(w)
  /\ run' = [run EXCEPT ![w] = Idle]
  /\ UNCHANGED <<config, sourceRuntime, publicationVars, priceVars, requests, queue, faults>>

JobOf(r) == IF r.kind = "refresh" THEN RefreshJob(r.source) ELSE IngestJob(r.publication)

Interrupt(w) ==
  /\ run[w] # Idle /\ faults < MaxFaults
  /\ faults' = faults + 1
  /\ run' = [run EXCEPT ![w] = Idle]
  /\ UNCHANGED <<config, sourceRuntime, publicationVars, priceVars, requests>>

(* An unexpected exception or the 600 s timeout: the job is not run again.  *)
JobFails(w) == Interrupt(w) /\ UNCHANGED queue

(* The worker stops: the job keeps its place in the queue and runs again.   *)
WorkerStops(w) == Interrupt(w) /\ queue' = <<JobOf(run[w])>> \o queue

-----------------------------------------------------------------------------

RefreshStep(w) ==
  \/ BeginRefresh(w) \/ RefreshFetchFails(w) \/ RefreshDiscoveryRaises(w)
  \/ RefreshDiscovers(w) \/ RefreshScans(w) \/ RefreshAdds(w)
  \/ RefreshCommits(w) \/ RefreshEnqueues(w)

IngestStep(w) ==
  \/ BeginIngest(w) \/ IngestFetchFails(w) \/ IngestSkips(w)
  \/ IngestExtractFails(w) \/ IngestExtracts(w) \/ IngestUpserts(w)
  \/ IngestFinishes(w) \/ IngestCommits(w)

SlotStep(w) == RefreshStep(w) \/ IngestStep(w) \/ DeadlockAborts(w)

Next ==
  \/ Seed \/ RequestRefresh \/ RequestIngest
  \/ \E s \in CronSources : CronRefresh(s)
  \/ \E w \in Slots : SlotStep(w) \/ JobFails(w) \/ WorkerStops(w)

Spec == Init /\ [][Next]_vars

(* arq polls the queue and every job's awaits are bounded by timeouts, so a *)
(* slot that can take a step eventually does; operators need never act.     *)
SlotFairness == \A w \in Slots : WF_vars(SlotStep(w))

FairSpec == Spec /\ SlotFairness

(* Every cron job ticks again and again.                                    *)
CronSpec == FairSpec /\ \A s \in CronSources : SF_vars(CronRefresh(s))

-----------------------------------------------------------------------------
(* Properties.                                                              *)

TypeOK ==
  /\ config \in [Sources -> Config \cup {"absent"}]
  /\ consecutive_failures \in [Sources -> Nat]
  /\ last_publication_seen_ref \in [Sources -> Publications \cup {None}]
  /\ status \in [Publications -> Status]
  /\ content_hash \in [Publications -> Versions \cup {None}]
  /\ unit_price \in [Publications -> [Keys -> Versions \cup {None}]]
  /\ copies \in [Publications -> [Keys -> Nat]]
  /\ requests \in 0..MaxRequests
  /\ queue \in Seq(Job)
  /\ run \in [Slots -> Run]
  /\ faults \in 0..MaxFaults

(* Every entry of content v is stored with that content's data.             *)
Whole(p, v) == \A k \in Range(Document[v]) : unit_price[p][k] = v

(* An INGESTED publication holds some document whole, whatever ingests of    *)
(* other contents ran beside it or failed: the entries of a document and    *)
(* its status are one transaction (ingest_customs_publication.py:149-180).  *)
IngestedIsWhole ==
  \A p \in Publications : status[p] = "ingested" => \E v \in Versions : Whole(p, v)

(* Some job has the publication, or a refresh is about to enqueue one.      *)
Pending(p) ==
  \/ IngestJob(p) \in Range(queue)
  \/ \E w \in Slots :
       \/ run[w].kind = "ingest" /\ run[w].publication = p
       \/ Refreshing(w, "enqueue") /\ p \in Range(run[w].new_publication_ids)

(* As long as no job is lost, a publication in DISCOVERED has work pending, *)
(* even when refreshes race for the same rows and one of them is aborted:   *)
(* what jobs.py:315 promises of every newly discovered publication.         *)
DiscoveredIsPending ==
  faults = 0 => \A p \in Publications : status[p] = "discovered" => Pending(p)

(* No job and no id about to be enqueued names a publication whose row is   *)
(* not committed: jobs are enqueued after the commit, never before          *)
(* (jobs.py:322-330), so an ingest job is never dropped as not_found.       *)
PendingIsCommitted == \A p \in Publications : Pending(p) => status[p] # "absent"

(* A refresh never moves a publication back to DISCOVERED, even one that    *)
(* read "not there" before another refresh committed it and an ingest       *)
(* processed it (customs.py:156-191).                                       *)
NeverRediscovered ==
  [][\A p \in Publications :
       status'[p] = "discovered" => status[p] \in {"absent", "discovered"}]_vars

(* Readers never see half a document, nor entries of a document that was    *)
(* not extracted to its end: entries change only in a step that leaves one  *)
(* content whole, and no failed, skipped or aborted ingest changes any.     *)
PricesChangeTogether ==
  [][\A p \in Publications :
       unit_price'[p] # unit_price[p] \/ copies'[p] # copies[p]
         => \E v \in Versions : Whole(p, v)' /\ \A k \in Keys :
              unit_price'[p][k] \in {v, unit_price[p][k]}]_vars

(* With no job lost, a discovered publication is ingested, failed or        *)
(* skipped in the end: the queue is served in order and database deadlocks  *)
(* are broken.                                                              *)
DiscoveredIsProcessed ==
  \A p \in Publications :
    status[p] = "discovered" ~> (status[p] # "discovered" \/ faults > 0)

(* Every job ends: waiting for row locks never lasts for ever.              *)
JobsEnd == \A w \in Slots : run[w] # Idle ~> run[w] = Idle

(* A source with a cron job is refreshed once it is active, whatever else   *)
(* occupies the worker.                                                     *)
Refreshed(s) == \E w \in Slots : run[w].kind = "refresh" /\ run[w].source = s
CronSourceIsRefreshed ==
  \A s \in CronSources : config[s] = "active" ~> (Refreshed(s) \/ config[s] # "active")

-----------------------------------------------------------------------------
(* What the documents say and the code does not keep: none of these holds.  *)

(* docs/deployment/production.md:67: cron refreshes the canonical source,   *)
(* fr-douane-opendata, every day; so every active source is refreshed.      *)
ActiveIsRefreshed ==
  \A s \in Sources : config[s] = "active" ~> (Refreshed(s) \/ config[s] # "active")

(* content_hash names a content that has been ingested: every entry of it is *)
(* stored.                                                                  *)
Stored(p) == content_hash[p] \in Versions /\ Whole(p, content_hash[p])

(* enums.py:94: SKIPPED when the content_hash matches what was already      *)
(* ingested, so a SKIPPED publication should hold that content.             *)
SkippedIsStored == \A p \in Publications : status[p] = "skipped" => Stored(p)

(* The same of INGESTED: the hash a later ingest compares with is the hash   *)
(* of what was ingested (ingest_customs_publication.py:111).                *)
IngestedIsStored == \A p \in Publications : status[p] = "ingested" => Stored(p)

(* customs.py:266: re-ingestion never duplicates the natural key.           *)
NaturalKeyUnique ==
  \A p \in Publications, k \in Keys : copies[p][k] <= 1

=============================================================================
