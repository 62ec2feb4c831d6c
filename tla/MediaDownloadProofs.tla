-------------------------- MODULE MediaDownloadProofs --------------------------
(***************************************************************************)
(* Theorems about MediaDownload, for every number of slots, assets, images,   *)
(* requests and faults.                                                        *)
(***************************************************************************)
EXTENDS MediaDownload, TLAPS

(* A job past its fetch has an image, one that uploads inserted the row, and   *)
(* one that will write ok has a registered image.                               *)
JobsFit ==
  \A w \in Workers :
    LET j == job[w] IN
    /\ j.step # "idle" => j.asset \in Assets
    /\ j.step \in {"blob", "put"} => j.image \in Images
    /\ j.step \in {"mark", "write"} /\ j.goal = "ok" => j.image \in blobs

(* A hash that is uploaded, or about to be, has its row; no two jobs upload     *)
(* one hash, and none that has been uploaded.                                    *)
UploadsFit ==
  /\ \A w \in Workers :
        job[w].step = "put" => job[w].image \in blobs /\ uploads[job[w].image] = 0
  /\ \A v, w \in Workers :
        job[v].step = "put" /\ job[w].step = "put" /\ job[v].image = job[w].image => v = w
  /\ \A i \in Images \ blobs : uploads[i] = 0

(* A hash in an asset is registered, and once a job has seen one it stays.       *)
HashesStay ==
  /\ \A a \in Assets : media_blob_hash[a] # None => media_blob_hash[a] \in blobs
  /\ \A w \in Workers :
        job[w].step = "write" /\ job[w].seen.media_blob_hash # None
           => media_blob_hash[job[w].asset] # None

IInv ==
  /\ TypeOK
  /\ JobsFit
  /\ UploadsFit /\ UploadedOnce /\ ObjectHasRow
  /\ HashesStay /\ OkIsLinked

(* Nothing has been downloaded yet.                                           *)
LEMMA InitIInv == Init => IInv
<1> SUFFICES ASSUME Init PROVE IInv
  OBVIOUS
<1>1. Idle \in Jobs
  BY DEF Idle, Jobs, Steps, Statuses
<1>2. TypeOK
  BY <1>1, BoundsAssumption DEF Init, TypeOK, Statuses
<1>3. JobsFit /\ UploadsFit /\ UploadedOnce /\ ObjectHasRow /\ HashesStay /\ OkIsLinked
  BY DEF Init, Idle, JobsFit, UploadsFit, UploadedOnce, ObjectHasRow, HashesStay, OkIsLinked
<1>4. QED
  BY <1>2, <1>3 DEF IInv

-----------------------------------------------------------------------------
(* The parts of a step.                                                     *)

(* A job record with a step of its own and nothing else changed is a job.     *)
LEMMA JobTypes ==
  ASSUME TypeOK, NEW w \in Workers, NEW j \in Jobs, job' = [job EXCEPT ![w] = j]
  PROVE  job' \in [Workers -> Jobs] /\ job'[w] = j /\ \A v \in Workers \ {w} : job'[v] = job[v]
BY DEF TypeOK

(* Going on to mark_status: with ok only for a registered image.              *)
LEMMA MarkingKeepsJobs ==
  ASSUME TypeOK, JobsFit, NEW w \in Workers, NEW goal \in Statuses, Marking(w, goal),
         job[w].step # "idle", blobs \subseteq blobs',
         goal = "ok" => job[w].image \in blobs'
  PROVE  /\ job' \in [Workers -> Jobs]
         /\ JobsFit'
         /\ \A v \in Workers : job'[v].step \in {"put", "write"} => v # w /\ job'[v] = job[v]
<1>1. /\ job[w] \in Jobs
      /\ job' = [job EXCEPT ![w] = [job[w] EXCEPT !.step = "mark", !.goal = goal]]
  BY DEF Marking, TypeOK, Jobs
<1>2. PICK j \in Jobs : j = [job[w] EXCEPT !.step = "mark", !.goal = goal]
  BY <1>1 DEF Jobs, Steps
<1>3. /\ job' \in [Workers -> Jobs] /\ job'[w] = j
      /\ \A v \in Workers \ {w} : job'[v] = job[v]
  BY <1>1, <1>2, JobTypes
<1>4. j.step = "mark" /\ j.goal = goal /\ j.asset = job[w].asset /\ j.image = job[w].image
  BY <1>1, <1>2 DEF Jobs
<1>5. QED
  BY <1>3, <1>4 DEF JobsFit

(* A slot that becomes idle.                                                  *)
LEMMA IdlingKeepsJobs ==
  ASSUME IInv, NEW w \in Workers, job' = [job EXCEPT ![w] = Idle], UNCHANGED <<storeVars, rowVars>>
  PROVE  job' \in [Workers -> Jobs] /\ JobsFit' /\ UploadsFit' /\ UploadedOnce' /\ ObjectHasRow'
         /\ HashesStay' /\ OkIsLinked'
<1>1. Idle \in Jobs /\ Idle.step = "idle"
  BY DEF Idle, Jobs, Steps, Statuses
<1>2. job' \in [Workers -> Jobs] /\ job'[w] = Idle /\ \A v \in Workers \ {w} : job'[v] = job[v]
  BY <1>1, JobTypes DEF IInv
<1>3. QED
  BY <1>1, <1>2 DEF IInv, JobsFit, UploadsFit, UploadedOnce, ObjectHasRow, HashesStay, OkIsLinked,
                    storeVars, rowVars

-----------------------------------------------------------------------------
(* The steps.                                                               *)

(* A request or the start of a job touches no image.                          *)
LEMMA QueueKeeps ==
  ASSUME IInv, NEW a \in Assets, Request(a) \/ \E w \in Workers : Begin(w, a)
  PROVE  IInv'
<1> USE DEF IInv
<1>1. CASE Request(a)
  <2>1. queue' \in [Assets -> Nat] /\ requests' \in 0..MaxRequests
    BY <1>1, BoundsAssumption DEF Request, TypeOK
  <2>2. TypeOK'
    BY <1>1, <2>1 DEF Request, TypeOK, rowVars, storeVars
  <2>3. QED
    BY <1>1, <2>2 DEF Request, rowVars, storeVars, JobsFit, UploadsFit, UploadedOnce, ObjectHasRow,
                      HashesStay, OkIsLinked
<1>2. ASSUME NEW w \in Workers, Begin(w, a) PROVE IInv'
  <2>1. queue' \in [Assets -> Nat]
    BY <1>2 DEF Begin, TypeOK
  <2>2. CASE job' = job
    <3>1. TypeOK'
      BY <1>2, <2>1, <2>2 DEF Begin, TypeOK, rowVars, storeVars
    <3>2. QED
      BY <1>2, <2>2, <3>1 DEF Begin, rowVars, storeVars, JobsFit, UploadsFit, UploadedOnce,
                              ObjectHasRow, HashesStay, OkIsLinked
  <2>3. CASE job' = [job EXCEPT ![w] = [Idle EXCEPT !.step = "fetch", !.asset = a]]
    <3> DEFINE j == [Idle EXCEPT !.step = "fetch", !.asset = a]
    <3>1. j \in Jobs /\ j.step = "fetch" /\ j.asset = a
      BY DEF Idle, Jobs, Steps, Statuses
    <3> HIDE DEF j
    <3>2. job' \in [Workers -> Jobs] /\ job'[w] = j /\ \A v \in Workers \ {w} : job'[v] = job[v]
      BY <2>3, <3>1, JobTypes DEF j
    <3>3. TypeOK'
      BY <1>2, <2>1, <3>2 DEF Begin, TypeOK, rowVars, storeVars
    <3>4. QED
      BY <1>2, <3>1, <3>2, <3>3 DEF Begin, rowVars, storeVars, JobsFit, UploadsFit, UploadedOnce,
                                    ObjectHasRow, HashesStay, OkIsLinked
  <2>4. QED
    BY <1>2, <2>2, <2>3 DEF Begin
<1>3. QED
  BY <1>1, <1>2

(* A page that fails or is refused goes on to its verdict.                    *)
LEMMA VerdictKeeps ==
  ASSUME IInv, NEW w \in Workers, FetchFails(w) \/ Refused(w)
  PROVE  IInv'
<1> USE DEF IInv
<1>1. PICK goal \in {"failed", "quarantined"} :
        Marking(w, goal) /\ job[w].step = "fetch"
        /\ UNCHANGED <<rowVars, storeVars, queue, requests, faults, dropped>>
  BY DEF FetchFails, Refused
<1>2. goal \in Statuses /\ goal # "ok" /\ blobs' = blobs
  BY <1>1 DEF Statuses, storeVars
<1>3. /\ job' \in [Workers -> Jobs]
      /\ JobsFit'
      /\ \A v \in Workers : job'[v].step \in {"put", "write"} => v # w /\ job'[v] = job[v]
  BY <1>1, <1>2, MarkingKeepsJobs
<1>4. TypeOK'
  BY <1>1, <1>3 DEF TypeOK, rowVars, storeVars
<1>5. QED
  BY <1>1, <1>3, <1>4 DEF rowVars, storeVars, UploadsFit, UploadedOnce, ObjectHasRow, HashesStay,
                          OkIsLinked

(* An image has been made.                                                    *)
LEMMA NormalizedKeeps ==
  ASSUME IInv, NEW w \in Workers, Normalized(w)
  PROVE  IInv'
<1> USE DEF IInv
<1>1. PICK i \in Images : job' = [job EXCEPT ![w].step = "blob", ![w].image = i]
  BY DEF Normalized
<1>2. job[w] \in Jobs /\ job[w].step = "fetch"
  BY DEF Normalized, TypeOK
<1> DEFINE j == [job[w] EXCEPT !.step = "blob", !.image = i]
<1>3. j \in Jobs /\ j.step = "blob" /\ j.image = i /\ j.asset = job[w].asset
  BY <1>2 DEF Jobs, Steps
<1> HIDE DEF j
<1>4. job' \in [Workers -> Jobs] /\ job'[w] = j /\ \A v \in Workers \ {w} : job'[v] = job[v]
  BY <1>1, <1>3, JobTypes DEF j
<1>5. TypeOK'
  BY <1>4 DEF Normalized, TypeOK, rowVars, storeVars
<1>6. QED
  BY <1>2, <1>3, <1>4, <1>5 DEF Normalized, rowVars, storeVars, JobsFit, UploadsFit, UploadedOnce,
     ObjectHasRow, HashesStay, OkIsLinked

(* The row of the hash: only the job that inserts it goes on to the upload.   *)
LEMMA AddBlobKeeps ==
  ASSUME IInv, NEW w \in Workers, AddBlob(w)
  PROVE  IInv'
<1> USE DEF IInv
<1> DEFINE i == job[w].image
<1>1. i \in Images /\ job[w] \in Jobs /\ job[w].step = "blob" /\ blobs' = blobs \cup {i}
  BY DEF AddBlob, JobsFit, TypeOK
<1>2. /\ rowVars' = rowVars /\ objects' = objects /\ uploads' = uploads
      /\ UNCHANGED <<queue, requests, faults, dropped>>
  BY DEF AddBlob
<1>3. CASE i \in blobs
  <2>1. Marking(w, "ok") /\ blobs' = blobs /\ "ok" \in Statuses
    BY <1>1, <1>3 DEF AddBlob, Statuses
  <2>2. /\ job' \in [Workers -> Jobs]
        /\ JobsFit'
        /\ \A v \in Workers : job'[v].step \in {"put", "write"} => v # w /\ job'[v] = job[v]
    BY <1>1, <1>3, <2>1, MarkingKeepsJobs
  <2>3. TypeOK'
    BY <1>2, <2>1, <2>2 DEF TypeOK, rowVars
  <2>4. QED
    BY <1>2, <2>1, <2>2, <2>3 DEF rowVars, UploadsFit, UploadedOnce, ObjectHasRow, HashesStay, OkIsLinked
<1>4. CASE i \notin blobs
  <2>1. job' = [job EXCEPT ![w].step = "put"]
    BY <1>4 DEF AddBlob
  <2> DEFINE j == [job[w] EXCEPT !.step = "put"]
  <2>2. j \in Jobs /\ j.step = "put" /\ j.image = i /\ j.asset = job[w].asset
    BY <1>1 DEF Jobs, Steps
  <2> HIDE DEF j
  <2>3. job' \in [Workers -> Jobs] /\ job'[w] = j /\ \A v \in Workers \ {w} : job'[v] = job[v]
    BY <2>1, <2>2, JobTypes DEF j
  <2>4. TypeOK'
    BY <1>1, <1>2, <2>3 DEF TypeOK, rowVars
  <2>5. JobsFit' /\ ObjectHasRow' /\ HashesStay' /\ OkIsLinked' /\ UploadedOnce'
    BY <1>1, <1>2, <2>2, <2>3 DEF rowVars, JobsFit, ObjectHasRow, HashesStay, OkIsLinked, UploadedOnce
  <2>6. UploadsFit'
    <3>1. \A v \in Workers \ {w} : job[v].step = "put" => job[v].image # i
      BY <1>4 DEF UploadsFit
    <3>2. uploads[i] = 0
      BY <1>1, <1>4 DEF UploadsFit
    <3>3. QED
      BY <1>1, <1>2, <2>2, <2>3, <3>1, <3>2 DEF UploadsFit
  <2>7. QED
    BY <2>4, <2>5, <2>6
<1>5. QED
  BY <1>3, <1>4

(* The upload, or its failure.                                                *)
LEMMA PutKeeps ==
  ASSUME IInv, NEW w \in Workers, Put(w)
  PROVE  IInv'
<1> USE DEF IInv
<1> DEFINE i == job[w].image
<1>1. /\ i \in Images /\ i \in blobs /\ uploads[i] = 0
      /\ uploads' = [uploads EXCEPT ![i] = @ + 1]
      /\ blobs' = blobs /\ job[w].step = "put"
      /\ UNCHANGED <<rowVars, queue, requests, faults, dropped>>
  BY DEF Put, JobsFit, UploadsFit
<1>2. PICK goal \in {"ok", "failed"} : Marking(w, goal)
  BY DEF Put
<1>3. objects' \in SUBSET (objects \cup {i})
  BY DEF Put
<1>4. /\ job' \in [Workers -> Jobs]
      /\ JobsFit'
      /\ \A v \in Workers : job'[v].step \in {"put", "write"} => v # w /\ job'[v] = job[v]
  BY <1>1, <1>2, MarkingKeepsJobs DEF Statuses
<1>5. uploads' \in [Images -> Nat] /\ uploads'[i] = 1 /\ \A k \in Images \ {i} : uploads'[k] = uploads[k]
  BY <1>1 DEF TypeOK
<1>6. TypeOK'
  BY <1>1, <1>3, <1>4, <1>5 DEF TypeOK, rowVars
<1>7. UploadsFit'
  <2>1. \A v \in Workers : job'[v].step = "put" => job'[v].image \in Images \ {i}
    BY <1>1, <1>4 DEF UploadsFit, JobsFit
  <2>2. QED
    BY <1>1, <1>4, <1>5, <2>1 DEF UploadsFit
<1>8. UploadedOnce' /\ ObjectHasRow' /\ HashesStay' /\ OkIsLinked'
  BY <1>1, <1>3, <1>4, <1>5 DEF rowVars, UploadedOnce, ObjectHasRow, HashesStay, OkIsLinked
<1>9. QED
  BY <1>4, <1>6, <1>7, <1>8

(* mark_status reads.                                                         *)
LEMMA MarkReadKeeps ==
  ASSUME IInv, NEW w \in Workers, MarkRead(w)
  PROVE  IInv'
<1> USE DEF IInv
<1> DEFINE a == job[w].asset
<1>1. a \in Assets /\ job[w] \in Jobs /\ job[w].step = "mark"
  BY DEF MarkRead, JobsFit, TypeOK
<1> DEFINE seen == [status |-> status[a], media_blob_hash |-> media_blob_hash[a]]
<1>2. seen \in [status : Statuses, media_blob_hash : Images \cup {None}]
  BY <1>1 DEF TypeOK
<1>3. job' = [job EXCEPT ![w].step = "write", ![w].seen = seen]
  BY DEF MarkRead
<1> DEFINE j == [job[w] EXCEPT !.step = "write", !.seen = seen]
<1>4. /\ j \in Jobs /\ j.step = "write" /\ j.seen = seen
      /\ j.asset = a /\ j.image = job[w].image /\ j.goal = job[w].goal
  BY <1>1, <1>2 DEF Jobs, Steps
<1> HIDE DEF j
<1>5. job' \in [Workers -> Jobs] /\ job'[w] = j /\ \A v \in Workers \ {w} : job'[v] = job[v]
  BY <1>3, <1>4, JobTypes DEF j
<1>6. TypeOK'
  BY <1>5 DEF MarkRead, TypeOK, rowVars, storeVars
<1>7. JobsFit' /\ UploadsFit' /\ UploadedOnce' /\ ObjectHasRow' /\ OkIsLinked'
  BY <1>1, <1>4, <1>5 DEF MarkRead, rowVars, storeVars, JobsFit, UploadsFit, UploadedOnce,
                          ObjectHasRow, OkIsLinked
<1>8. HashesStay'
  BY <1>1, <1>4, <1>5 DEF MarkRead, rowVars, storeVars, HashesStay
<1>9. QED
  BY <1>6, <1>7, <1>8

(* mark_status writes: whichever column is left out, an asset that becomes ok  *)
(* has a registered hash.                                                       *)
LEMMA MarkWriteKeeps ==
  ASSUME IInv, NEW w \in Workers, MarkWrite(w)
  PROVE  IInv'
<1> USE DEF IInv
<1> DEFINE j == job[w]  a == job[w].asset
<1>1. /\ a \in Assets /\ j \in Jobs /\ j.step = "write"
      /\ UNCHANGED <<storeVars, queue, requests, faults, dropped>>
  BY DEF MarkWrite, JobsFit, TypeOK
<1>2. job' \in [Workers -> Jobs] /\ job'[w] = Idle /\ \A v \in Workers \ {w} : job'[v] = job[v]
  <2>1. Idle \in Jobs
    BY DEF Idle, Jobs, Steps, Statuses
  <2>2. QED
    BY <2>1, JobTypes DEF MarkWrite
<1>3. Idle.step = "idle"
  BY DEF Idle
<1>4. HashToWrite(j) = j.seen.media_blob_hash \/ (j.goal = "ok" /\ HashToWrite(j) \in blobs)
  BY <1>1 DEF HashToWrite, JobsFit
<1>5. /\ j.goal \in Statuses
      /\ status' = IF j.goal = j.seen.status THEN status ELSE [status EXCEPT ![a] = j.goal]
      /\ media_blob_hash' = IF HashToWrite(j) = j.seen.media_blob_hash THEN media_blob_hash
                            ELSE [media_blob_hash EXCEPT ![a] = HashToWrite(j)]
  BY <1>1 DEF MarkWrite, Jobs
<1>6. TypeOK'
  BY <1>1, <1>2, <1>4, <1>5 DEF TypeOK, storeVars
<1>7. \A b \in Assets : \/ media_blob_hash'[b] = media_blob_hash[b]
                        \/ b = a /\ media_blob_hash'[b] \in blobs
  BY <1>1, <1>4, <1>5 DEF TypeOK
<1>8. HashesStay'
  <2>1. \A b \in Assets : media_blob_hash[b] # None => media_blob_hash'[b] # None
    BY <1>7, NoneAssumption DEF TypeOK
  <2>2. \A b \in Assets : media_blob_hash'[b] # None => media_blob_hash'[b] \in blobs
    BY <1>7 DEF HashesStay
  <2>3. \A v \in Workers : job[v].step # "idle" => job[v].asset \in Assets
    BY DEF JobsFit
  <2>4. QED
    BY <1>1, <1>2, <1>3, <2>1, <2>2, <2>3 DEF HashesStay, storeVars
<1>9. OkIsLinked'
  <2>1. SUFFICES ASSUME NEW b \in Assets, status'[b] = "ok" PROVE media_blob_hash'[b] \in blobs
    BY <1>1 DEF OkIsLinked, storeVars
  <2>2. CASE status[b] = "ok"
    BY <1>7, <2>2 DEF OkIsLinked
  <2>3. CASE status[b] # "ok"
    <3>1. b = a /\ j.goal = "ok" /\ j.image \in blobs /\ HashToWrite(j) = j.image
      BY <1>1, <1>5, <2>1, <2>3 DEF TypeOK, HashToWrite, JobsFit
    <3>2. CASE j.image = j.seen.media_blob_hash
      <4>1. j.image # None
        BY <3>1, NoneAssumption DEF TypeOK
      <4>2. media_blob_hash[b] # None
        BY <1>1, <3>1, <3>2, <4>1 DEF HashesStay
      <4>3. QED
        BY <1>7, <4>2 DEF HashesStay
    <3>3. CASE j.image # j.seen.media_blob_hash
      BY <1>1, <1>5, <3>1, <3>3 DEF TypeOK
    <3>4. QED
      BY <3>2, <3>3
  <2>4. QED
    BY <2>2, <2>3
<1>10. JobsFit' /\ UploadsFit' /\ UploadedOnce' /\ ObjectHasRow'
  BY <1>1, <1>2, <1>3 DEF storeVars, JobsFit, UploadsFit, UploadedOnce, ObjectHasRow
<1>11. QED
  BY <1>6, <1>8, <1>9, <1>10

(* A job that is cut short.                                                   *)
LEMMA CutKeeps ==
  ASSUME IInv, NEW w \in Workers, Stop(w) \/ Drop(w)
  PROVE  IInv'
<1> USE DEF IInv
<1>1. /\ job' = [job EXCEPT ![w] = Idle] /\ UNCHANGED <<storeVars, rowVars>>
      /\ job[w].asset \in Assets
  BY DEF Stop, Drop, JobsFit
<1>2. job' \in [Workers -> Jobs] /\ JobsFit' /\ UploadsFit' /\ UploadedOnce' /\ ObjectHasRow'
      /\ HashesStay' /\ OkIsLinked'
  BY <1>1, IdlingKeepsJobs
<1>3. faults' \in 0..MaxFaults
  BY BoundsAssumption DEF Stop, Drop, TypeOK
<1>4. queue' \in [Assets -> Nat] /\ dropped' \subseteq Assets /\ requests' = requests
  BY <1>1 DEF Stop, Drop, TypeOK
<1>5. TypeOK'
  BY <1>1, <1>2, <1>3, <1>4 DEF TypeOK, rowVars, storeVars
<1>6. QED
  BY <1>2, <1>5

(* Every step keeps the invariant.                                            *)
LEMMA NextIInv == IInv /\ [Next]_vars => IInv'
<1> SUFFICES ASSUME IInv, [Next]_vars PROVE IInv'
  OBVIOUS
<1>1. CASE Next
  BY <1>1, QueueKeeps, VerdictKeeps, NormalizedKeeps, AddBlobKeeps, PutKeeps, MarkReadKeeps,
     MarkWriteKeeps, CutKeeps DEF Next, Progress
<1>2. CASE UNCHANGED vars
  BY <1>2 DEF vars, rowVars, storeVars, IInv, TypeOK, JobsFit, UploadsFit, UploadedOnce, ObjectHasRow,
              HashesStay, OkIsLinked
<1>3. QED
  BY <1>1, <1>2

-----------------------------------------------------------------------------
(* The theorems.                                                            *)

(* The inductive invariant holds of every behaviour.                          *)
THEOREM SpecIInv == Spec => []IInv
BY InitIInv, NextIInv, PTL DEF Spec

(* Rows, jobs and stores stay in their types.                                 *)
THEOREM Types == Spec => []TypeOK
<1>1. IInv => TypeOK
  BY DEF IInv
<1>2. QED
  BY <1>1, SpecIInv, PTL

(* No object is in the storage without its row (jobs.py:252-267).              *)
THEOREM ObjectsHaveRows == Spec => []ObjectHasRow
<1>1. IInv => ObjectHasRow
  BY DEF IInv
<1>2. QED
  BY <1>1, SpecIInv, PTL

(* Whichever job wrote the status and whichever the hash, an asset that is ok  *)
(* names a registered image (media.py:64-81).                                   *)
THEOREM OkAssetsAreLinked == Spec => []OkIsLinked
<1>1. IInv => OkIsLinked
  BY DEF IInv
<1>2. QED
  BY <1>1, SpecIInv, PTL

(* An image is uploaded at most once, however many assets, slots and           *)
(* redeliveries there are (jobs.py:253-260).                                    *)
THEOREM ImagesAreUploadedOnce == Spec => []UploadedOnce
<1>1. IInv => UploadedOnce
  BY DEF IInv
<1>2. QED
  BY <1>1, SpecIInv, PTL

-----------------------------------------------------------------------------
(* The verdict.                                                             *)

\* No job of the asset is under way, and its verdict is s.
Settled(a, s) == status[a] = s /\ \A w \in Workers : ~Working(w, a)

(* A slot works on its asset until it is idle, and only writes to that row.    *)
LEMMA OwnAssetOnly ==
  ASSUME IInv, NEW w \in Workers, job[w].step # "idle", Progress(w) \/ Stop(w) \/ Drop(w)
  PROVE  /\ \A v \in Workers \ {w} : job'[v] = job[v]
         /\ job'[w].step = "idle" \/ job'[w].asset = job[w].asset
         /\ \A a \in Assets \ {job[w].asset} : status'[a] = status[a]
<1> USE DEF IInv, TypeOK, Jobs
<1>1. CASE FetchFails(w) \/ Refused(w) \/ Normalized(w)
  BY <1>1 DEF FetchFails, Refused, Normalized, Marking, rowVars
<1>2. CASE AddBlob(w)
  BY <1>2 DEF AddBlob, Marking, rowVars
<1>3. CASE Put(w)
  BY <1>3 DEF Put, Marking, rowVars
<1>4. CASE MarkRead(w)
  BY <1>4 DEF MarkRead, rowVars
<1>5. CASE MarkWrite(w)
  BY <1>5 DEF MarkWrite, Idle
<1>6. CASE Stop(w) \/ Drop(w)
  BY <1>6 DEF Stop, Drop, Idle, rowVars
<1>7. QED
  BY <1>1, <1>2, <1>3, <1>4, <1>5, <1>6 DEF Progress, Begin

(* A verdict is not taken back: the job of an asset that has one ends at its   *)
(* guards, an asset that is ok being linked.                                    *)
LEMMA SettledKeeps ==
  ASSUME NEW a \in Assets, NEW s \in Statuses \ {"pending"}, IInv, Settled(a, s), [Next]_vars
  PROVE  Settled(a, s)'
<1>1. ~Downloadable(a)
  BY NoneAssumption DEF IInv, TypeOK, OkIsLinked, Settled, Downloadable, Statuses
<1>2. CASE \E w \in Workers : job[w].step # "idle" /\ (Progress(w) \/ Stop(w) \/ Drop(w))
  <2>1. PICK w \in Workers : job[w].step # "idle" /\ (Progress(w) \/ Stop(w) \/ Drop(w))
    BY <1>2
  <2>2. job[w].asset # a
    BY <2>1 DEF Settled, Working
  <2>3. QED
    BY <2>1, <2>2, OwnAssetOnly DEF Settled, Working
<1>3. ASSUME NEW w \in Workers, NEW b \in Assets, Begin(w, b) PROVE Settled(a, s)'
  <2>1. status' = status /\ \A v \in Workers \ {w} : job'[v] = job[v]
    BY <1>3 DEF Begin, rowVars, IInv, TypeOK
  <2>2. \/ job' = job
        \/ job'[w].asset = b /\ b # a
    BY <1>1, <1>3 DEF Begin, Idle, IInv, TypeOK, Jobs
  <2>3. QED
    BY <2>1, <2>2 DEF Settled, Working
<1>4. CASE UNCHANGED vars \/ \E b \in Assets : Request(b)
  BY <1>4 DEF vars, Request, rowVars, Settled, Working
<1>5. QED
  BY <1>2, <1>3, <1>4
     DEF Next, Progress, FetchFails, Refused, Normalized, AddBlob, Put, MarkRead, MarkWrite, Stop, Drop

(* Once no job of an asset is under way its verdict is final, whatever is       *)
(* delivered late or again (jobs.py:200-204).                                    *)
THEOREM VerdictsAreFinal == Spec => SettledStays
<1> SUFFICES ASSUME NEW a \in Assets, NEW s \in Statuses \ {"pending"}
             PROVE  Spec => [](Settled(a, s) => [](status[a] = s))
  BY DEF SettledStays, Settled
<1>1. IInv /\ Settled(a, s) /\ [Next]_vars => Settled(a, s)'
  BY SettledKeeps
<1>2. Settled(a, s) => status[a] = s
  BY DEF Settled
<1>3. QED
  BY <1>1, <1>2, SpecIInv, PTL DEF Spec
=============================================================================
