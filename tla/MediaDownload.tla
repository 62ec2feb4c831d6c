---------------------------- MODULE MediaDownload ----------------------------
(***************************************************************************)
(* download_media_job: fetch an image, validate it, register its content by   *)
(* hash, upload it and link the asset.  The asset row, the blob row and the   *)
(* object live in two stores and are written by separate transactions and      *)
(* calls, while ingest_product_job may enqueue the job of an asset again.       *)
(***************************************************************************)
EXTENDS Naturals, FiniteSets

CONSTANTS
    Workers,      \* slots of the arq workers (max_jobs each)
    Assets,       \* media_asset rows
    Images,       \* normalised images, named by their BLAKE3 hash
    None,         \* NULL
    MaxRequests,  \* bound: download jobs enqueued in a behaviour
    MaxFaults     \* bound: worker stops, timeouts and unexpected errors

ASSUME BoundsAssumption == MaxRequests \in Nat /\ MaxFaults \in Nat
ASSUME NoneAssumption == None \notin Images /\ None \notin Assets

VARIABLES
    status,           \* media_asset.status
    media_blob_hash,  \* media_asset.media_blob_hash
    blobs,            \* hashes that have a media_blob row
    objects,          \* hashes that have an object in the storage
    queue,            \* download jobs waiting, per asset
    job,              \* what each slot is doing
    requests,         \* jobs enqueued so far
    faults,           \* faults so far
    uploads,          \* history: put calls per hash
    dropped           \* history: assets whose job ended without a verdict

rowVars == <<status, media_blob_hash>>
storeVars == <<blobs, objects, uploads>>
vars == <<status, media_blob_hash, blobs, objects, queue, job, requests, faults, uploads, dropped>>

Statuses == {"pending", "ok", "failed", "quarantined"}

\* A slot: where the job is suspended, its asset, the image it has made, the
\* status it is about to write and the row it has read for that.
Steps == {"idle", "fetch", "blob", "put", "mark", "write"}
Idle == [step |-> "idle", asset |-> None, image |-> None, goal |-> "pending",
         seen |-> [status |-> "pending", media_blob_hash |-> None]]
Jobs == [step : Steps, asset : Assets \union {None}, image : Images \union {None},
         goal : Statuses,
         seen : [status : Statuses, media_blob_hash : Images \union {None}]]

TypeOK ==
    /\ status \in [Assets -> Statuses]
    /\ media_blob_hash \in [Assets -> Images \union {None}]
    /\ blobs \subseteq Images
    /\ objects \subseteq Images
    /\ queue \in [Assets -> Nat]
    /\ job \in [Workers -> Jobs]
    /\ requests \in 0..MaxRequests
    /\ faults \in 0..MaxFaults
    /\ uploads \in [Images -> Nat]
    /\ dropped \subseteq Assets

Init ==
    /\ status = [a \in Assets |-> "pending"]
    /\ media_blob_hash = [a \in Assets |-> None]
    /\ blobs = {}
    /\ objects = {}
    /\ queue = [a \in Assets |-> 0]
    /\ job = [w \in Workers |-> Idle]
    /\ requests = 0
    /\ faults = 0
    /\ uploads = [i \in Images |-> 0]
    /\ dropped = {}

-----------------------------------------------------------------------------
\* ingest_product_job: every asset of the cigar that is still pending.
Request(a) ==
    /\ requests < MaxRequests
    /\ status[a] = "pending" /\ media_blob_hash[a] = None
    /\ queue' = [queue EXCEPT ![a] = @ + 1]
    /\ requests' = requests + 1
    /\ UNCHANGED <<rowVars, storeVars, job, faults, dropped>>

\* Mutation: only an asset that is ok is refused.
DownloadableUnlessOk(a) == ~(status[a] = "ok" /\ media_blob_hash[a] # None)

\* The guards of the job: it goes on only for a row that has no verdict.
Downloadable(a) ==
    /\ ~(status[a] = "ok" /\ media_blob_hash[a] # None)
    /\ status[a] \notin {"failed", "quarantined"}

\* A slot takes a job and reads the asset.
Begin(w, a) ==
    /\ job[w].step = "idle"
    /\ queue[a] > 0
    /\ queue' = [queue EXCEPT ![a] = @ - 1]
    /\ job' = IF Downloadable(a)
              THEN [job EXCEPT ![w] = [Idle EXCEPT !.step = "fetch", !.asset = a]]
              ELSE job
    /\ UNCHANGED <<rowVars, storeVars, requests, faults, dropped>>

\* The job goes on to mark_status.
Marking(w, goal) == job' = [job EXCEPT ![w].step = "mark", ![w].goal = goal]

\* The page answers with an error.
FetchFails(w) ==
    /\ job[w].step = "fetch"
    /\ Marking(w, "failed")
    /\ UNCHANGED <<rowVars, storeVars, queue, requests, faults, dropped>>

\* validate_and_normalize refuses the bytes: empty, too large, no image,
\* truncated, or animated.
Refused(w) ==
    /\ job[w].step = "fetch"
    /\ Marking(w, "quarantined")
    /\ UNCHANGED <<rowVars, storeVars, queue, requests, faults, dropped>>

\* The bytes are an image; what the site serves may change between two fetches.
Normalized(w) ==
    /\ job[w].step = "fetch"
    /\ \E i \in Images :
          job' = [job EXCEPT ![w].step = "blob", ![w].image = i]
    /\ UNCHANGED <<rowVars, storeVars, queue, requests, faults, dropped>>

\* Mutation: the upload comes first, the row is left for later.
UploadBeforeRow(w) ==
    /\ job[w].step = "blob"
    /\ IF job[w].image \in blobs
       THEN Marking(w, "ok")
       ELSE job' = [job EXCEPT ![w].step = "put"]
    /\ UNCHANGED <<rowVars, storeVars, queue, requests, faults, dropped>>

\* Mutation: the job uploads whether or not it inserted the row.
AddBlobAndUpload(w) ==
    /\ job[w].step = "blob"
    /\ blobs' = blobs \union {job[w].image}
    /\ job' = [job EXCEPT ![w].step = "put"]
    /\ UNCHANGED <<rowVars, objects, uploads, queue, requests, faults, dropped>>

\* media_blobs.add and its commit.  A concurrent insert of the same hash makes
\* the other wait for its commit, so the transaction of one row is one step.
\* Only the job that inserted the row uploads.
AddBlob(w) ==
    LET i == job[w].image IN
    /\ job[w].step = "blob"
    /\ blobs' = blobs \union {i}
    /\ IF i \in blobs
       THEN Marking(w, "ok")
       ELSE job' = [job EXCEPT ![w].step = "put"]
    /\ UNCHANGED <<rowVars, objects, uploads, queue, requests, faults, dropped>>

\* storage.put: the object is there, or StorageError, in which case it may be
\* there all the same (the answer was lost) or not.
Put(w) ==
    LET i == job[w].image IN
    /\ job[w].step = "put"
    /\ uploads' = [uploads EXCEPT ![i] = @ + 1]
    /\ \/ objects' = objects \union {i} /\ Marking(w, "ok")
       \/ objects' \in {objects, objects \union {i}} /\ Marking(w, "failed")
    /\ UNCHANGED <<rowVars, blobs, queue, requests, faults, dropped>>

\* mark_status reads the row ...
MarkRead(w) ==
    LET a == job[w].asset IN
    /\ job[w].step = "mark"
    /\ job' = [job EXCEPT ![w].step = "write",
                          ![w].seen = [status |-> status[a],
                                       media_blob_hash |-> media_blob_hash[a]]]
    /\ UNCHANGED <<rowVars, storeVars, queue, requests, faults, dropped>>

\* Mutation: mark_status is called without the hash.
HashForgotten(j) == j.seen.media_blob_hash

\* ... and updates the columns that differ from what it read; the hash is
\* passed with the status ok only.
HashToWrite(j) == IF j.goal = "ok" THEN j.image ELSE j.seen.media_blob_hash
MarkWrite(w) ==
    LET j == job[w] IN
    /\ j.step = "write"
    /\ status' = IF j.goal = j.seen.status THEN status
                 ELSE [status EXCEPT ![j.asset] = j.goal]
    /\ media_blob_hash' = IF HashToWrite(j) = j.seen.media_blob_hash THEN media_blob_hash
                          ELSE [media_blob_hash EXCEPT ![j.asset] = HashToWrite(j)]
    /\ job' = [job EXCEPT ![w] = Idle]
    /\ UNCHANGED <<storeVars, queue, requests, faults, dropped>>

\* Mutation: the job is acknowledged before it has run.
StopForgets(w) ==
    /\ job[w].step # "idle"
    /\ faults < MaxFaults
    /\ faults' = faults + 1
    /\ job' = [job EXCEPT ![w] = Idle]
    /\ UNCHANGED <<rowVars, storeVars, queue, requests, dropped>>

\* The worker is stopped: arq delivers the job again.
Stop(w) ==
    /\ job[w].step # "idle"
    /\ faults < MaxFaults
    /\ faults' = faults + 1
    /\ queue' = [queue EXCEPT ![job[w].asset] = @ + 1]
    /\ job' = [job EXCEPT ![w] = Idle]
    /\ UNCHANGED <<rowVars, storeVars, requests, dropped>>

\* job_timeout, or an exception the job does not catch (an image that WebP
\* cannot hold, a lost database connection): the job is not run again.
Drop(w) ==
    /\ job[w].step # "idle"
    /\ faults < MaxFaults
    /\ faults' = faults + 1
    /\ dropped' = dropped \union {job[w].asset}
    /\ job' = [job EXCEPT ![w] = Idle]
    /\ UNCHANGED <<rowVars, storeVars, queue, requests>>

Progress(w) ==
    \/ \E a \in Assets : Begin(w, a)
    \/ FetchFails(w) \/ Refused(w) \/ Normalized(w)
    \/ AddBlob(w) \/ Put(w) \/ MarkRead(w) \/ MarkWrite(w)

Next ==
    \/ \E a \in Assets : Request(a)
    \/ \E w \in Workers : Progress(w) \/ Stop(w) \/ Drop(w)

\* A worker takes the jobs of its queue and every job is driven to its end.
Fairness == \A w \in Workers : WF_vars(Progress(w))

Spec == Init /\ [][Next]_vars /\ Fairness

-----------------------------------------------------------------------------
(* Properties.                                                              *)

\* Nothing is in the storage that the database does not know: the row is
\* committed before the upload starts, so a stop between the two leaves a row
\* without an object and never an object without a row (jobs.py:252-267).
ObjectHasRow == objects \subseteq blobs

\* An asset that is ok names a registered image, whichever of two jobs wrote
\* the status and whichever wrote the hash (media.py:64-81).
OkIsLinked == \A a \in Assets : status[a] = "ok" => media_blob_hash[a] \in blobs

\* However many assets show an image and however often their jobs are run
\* again, it is uploaded at most once (jobs.py:253-260).
UploadedOnce == \A i \in Images : uploads[i] <= 1

\* Two jobs of one asset may disagree while they run, and the last to write
\* wins; but once none is under way the verdict is final: a job delivered late
\* or once more finds it and leaves it alone (jobs.py:200-204).
Working(w, a) == job[w].step # "idle" /\ job[w].asset = a
SettledStays ==
    \A a \in Assets, s \in Statuses \ {"pending"} :
        [](status[a] = s /\ (\A w \in Workers : ~Working(w, a)) => [](status[a] = s))

\* Every enqueued download ends in a verdict for its asset, through stops and
\* redeliveries, unless its job was dropped.
DownloadSettles ==
    \A a \in Assets : queue[a] > 0 ~> (status[a] # "pending" \/ a \in dropped)

\* What domain/entities/media_blob.py:6 says and the code does not keep: "One blob =
\* one BLAKE3 hash = one object in the storage backend", so that an asset that is
\* ok can be shown.  It is stated of the moments at which no job is under way.
OkHasObject ==
    (\A w \in Workers : job[w].step = "idle")
        => \A a \in Assets : status[a] = "ok" => media_blob_hash[a] \in objects
=============================================================================
