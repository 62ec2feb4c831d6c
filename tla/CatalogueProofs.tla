---------------------------- MODULE CatalogueProofs ----------------------------
(***************************************************************************)
(* Theorems about Catalogue, for every category, every set of pages, every    *)
(* number of slots, requests and faults.                                       *)
(***************************************************************************)
EXTENDS Catalogue, SequenceLemmas

-----------------------------------------------------------------------------
(* The inductive invariant.                                                 *)

AllImages == UNION {ImagesOf[p] : p \in Products}
AllJobs == [kind : {"none", "ingest", "crawl"}, at : Products \cup Listings \cup {None},
            page : Nat, processed : Nat]
QueueJobs == {j \in AllJobs : \/ j.kind = "ingest" /\ j.at \in Products
                              \/ j.kind = "crawl" /\ j.at \in Listings}
SlotRecords == [step : Steps, job : AllJobs, enqueued : Nat, image : AllImages \cup {None},
                own : SUBSET AllKeys, adds : BOOLEAN]

CrawlSteps == {"list", "enqueue"}
IngestSteps == Steps \ {"idle", "list", "enqueue"}

\* How far the transaction of an ingest is: what it has found or inserted by then.
AfterBrand == IngestSteps \ {"fetch", "brand"}
AfterLine == AfterBrand \ {"line"}
AfterCigar == AfterLine \ {"cigar"}
AfterPackage == AfterCigar \ {"package", "add", "refresh"}

(* A slot's record fits the committed rows R and assets A.                    *)
ShapeFits(r) ==
  /\ r \in SlotRecords
  /\ r.step # "idle" => r.job \in QueueJobs
  /\ r.step \in CrawlSteps => r.job.kind = "crawl"
  /\ r.step \in IngestSteps => r.job.kind = "ingest"
  /\ r.step \in IngestSteps \ {"fetch"} => r.image \in ImagesOf[r.job.at]
OwnFits(r) ==
  /\ r.step \notin AfterBrand \ {"announce"} => r.own = {}
  /\ r.step = "announce" => r.own = {}
  /\ r.step \in AfterBrand => r.own \subseteq Range(Path[r.job.at]) \cup {PackageKey(r.job.at)}
  /\ r.adds => r.step = "commit" /\ r.image # None
FoundFits(r, R, A) ==
  LET p == r.job.at IN
  /\ r.step \in AfterBrand => Path[p][1] \in R \cup r.own
  /\ r.step \in AfterLine => Path[p][2] \in R \cup r.own
  /\ r.step \in AfterCigar => Path[p][3] \in R \cup r.own
  /\ r.step \in AfterPackage /\ HasPack[p] => PackageKey(p) \in R \cup r.own
  /\ r.step = "commit" /\ r.image # None => r.adds \/ A[<<Cigar(p), r.image>>] > 0
  /\ r.step = "announce" /\ r.image # None => A[<<Cigar(p), r.image>>] > 0
Fits(r, R, A) == ShapeFits(r) /\ OwnFits(r) /\ FoundFits(r, R, A)

SlotsFit == \A s \in Slots : Fits(slot[s], rows, assets)

IInv ==
  /\ TypeOK
  /\ queue \in Seq(QueueJobs)
  /\ slot \in [Slots -> SlotRecords]
  /\ SlotsFit
  /\ IngestedIsStored
  /\ EverythingIsAudited

(* Nothing is there at the start.                                             *)
LEMMA IdleFits ==
  ASSUME NEW R, NEW A
  PROVE  Idle \in SlotRecords /\ Fits(Idle, R, A)
BY DEF Idle, NoJob, Fits, ShapeFits, OwnFits, FoundFits, SlotRecords, AllJobs, Steps, CrawlSteps,
       IngestSteps, AfterBrand, AfterLine, AfterCigar, AfterPackage

(* The catalogue starts empty: the invariant holds of it.                      *)
LEMMA InitIInv == Init => IInv
<1> SUFFICES ASSUME Init PROVE IInv
  OBVIOUS
<1>1. slot \in [Slots -> SlotRecords] /\ SlotsFit
  BY IdleFits DEF Init, SlotsFit
<1>2. queue \in Seq(QueueJobs)
  BY EmptySeq DEF Init
<1>3. TypeOK
  BY DEF Init, TypeOK, Idle, Steps
<1>4. IngestedIsStored /\ EverythingIsAudited
  BY DEF Init, IngestedIsStored, EverythingIsAudited
<1>5. QED
  BY <1>1, <1>2, <1>3, <1>4 DEF IInv

-----------------------------------------------------------------------------
(* Keys.                                                                    *)

(* The keys of a page: brand, line and cigar.                                 *)
LEMMA PathKeys ==
  ASSUME NEW p \in Products
  PROVE  Range(Path[p]) = {Path[p][1], Path[p][2], Path[p][3]}
<1>1. DOMAIN Path[p] = 1..3
  BY KeysAssumption
<1>2. QED
  BY <1>1 DEF Range

(* The keys that an ingest may insert are keys.                               *)
LEMMA KeysAreKeys ==
  ASSUME NEW p \in Products
  PROVE  Range(Path[p]) \cup {PackageKey(p)} \subseteq AllKeys
BY DEF AllKeys

(* An asset that a page shows has a key.                                      *)
LEMMA AssetsAreKeys ==
  ASSUME NEW p \in Products, NEW i \in ImagesOf[p], i # None
  PROVE  <<Cigar(p), i>> \in AssetKeys
BY DEF AssetKeys

-----------------------------------------------------------------------------
(* One slot moves.                                                          *)

(* Rows that are added and assets that are inserted take nothing from the     *)
(* other slots.                                                                *)
LEMMA FitsGrows ==
  ASSUME NEW r, NEW R, NEW A, NEW R2, NEW A2, Fits(r, R, A),
         A \in [AssetKeys -> Nat], A2 \in [AssetKeys -> Nat],
         R \subseteq R2, \A k \in AssetKeys : A2[k] >= A[k]
  PROVE  Fits(r, R2, A2)
<1>1. ASSUME r.step \in IngestSteps \ {"fetch"}, r.image # None
      PROVE  <<Cigar(r.job.at), r.image>> \in AssetKeys
  <2>1. r.job.at \in Products /\ r.image \in ImagesOf[r.job.at]
    BY <1>1 DEF Fits, ShapeFits, QueueJobs, IngestSteps
  <2>2. QED
    BY <1>1, <2>1, AssetsAreKeys
<1>2. r.step \in {"commit", "announce"} => r.step \in IngestSteps \ {"fetch"}
  BY DEF IngestSteps, Steps
<1>3. FoundFits(r, R2, A2)
  <2> DEFINE k == <<Cigar(r.job.at), r.image>>
  <2>1. k \in AssetKeys /\ A[k] > 0 => A2[k] > 0
    OBVIOUS
  <2>2. \A x : x \in R \cup r.own => x \in R2 \cup r.own
    OBVIOUS
  <2>3. r.step \in {"commit", "announce"} /\ r.image # None => k \in AssetKeys
    BY <1>1, <1>2
  <2>4. FoundFits(r, R, A)
    BY DEF Fits
  <2> HIDE DEF k
  <2>5. QED
    BY <2>1, <2>2, <2>3, <2>4 DEF FoundFits, k
<1>4. QED
  BY <1>3 DEF Fits

(* A slot moves to a record that fits.                                        *)
LEMMA SlotMoves ==
  ASSUME IInv, NEW s \in Slots, NEW r, slot' = [slot EXCEPT ![s] = r],
         Fits(r, rows', assets'), assets' \in [AssetKeys -> Nat],
         rows \subseteq rows', \A k \in AssetKeys : assets'[k] >= assets[k]
  PROVE  slot' \in [Slots -> SlotRecords] /\ SlotsFit'
<1>1. r \in SlotRecords
  BY DEF Fits, ShapeFits
<1>2. slot' \in [Slots -> SlotRecords] /\ slot'[s] = r /\ \A t \in Slots \ {s} : slot'[t] = slot[t]
  BY <1>1 DEF IInv
<1>3. assets \in [AssetKeys -> Nat]
  BY DEF IInv, TypeOK
<1>4. \A t \in Slots \ {s} : Fits(slot'[t], rows', assets')
  BY <1>2, <1>3, FitsGrows DEF IInv, SlotsFit
<1>5. QED
  BY <1>2, <1>4 DEF SlotsFit

(* A step that leaves the database alone keeps the invariant if its record     *)
(* fits.                                                                        *)
LEMMA QuietStep ==
  ASSUME IInv, NEW s \in Slots, NEW r, slot' = [slot EXCEPT ![s] = r], Fits(r, rows, assets),
         UNCHANGED <<dbVars, ingested>>, queue' \in Seq(QueueJobs), downloads' \subseteq AssetKeys
  PROVE  IInv'
<1>1. rows' = rows /\ assets' = assets /\ audited' = audited /\ ingested' = ingested
  BY DEF dbVars
<1>2. assets \in [AssetKeys -> Nat]
  BY DEF IInv, TypeOK
<1>3. slot' \in [Slots -> SlotRecords] /\ SlotsFit'
  <2>1. Fits(r, rows', assets') /\ rows \subseteq rows'
    BY <1>1
  <2>2. assets' \in [AssetKeys -> Nat] /\ \A k \in AssetKeys : assets'[k] >= assets[k]
    BY <1>1, <1>2
  <2>3. QED
    BY <2>1, <2>2, SlotMoves
<1>4. TypeOK'
  <2>1. \A t \in Slots : slot'[t].step \in Steps /\ slot'[t].own \subseteq AllKeys
    BY <1>3 DEF SlotRecords
  <2>2. QED
    BY <1>1, <2>1 DEF IInv, TypeOK
<1>5. IngestedIsStored' /\ EverythingIsAudited'
  BY <1>1 DEF IInv, IngestedIsStored, EverythingIsAudited
<1>6. QED
  BY <1>3, <1>4, <1>5 DEF IInv

(* The record of a slot, as the steps find it.                                *)
LEMMA SlotRecord ==
  ASSUME IInv, NEW s \in Slots
  PROVE  slot[s] \in SlotRecords /\ Fits(slot[s], rows, assets)
BY DEF IInv, SlotsFit

(* A job that ends in an error rolls everything back.                         *)
LEMMA FailKeeps ==
  ASSUME IInv, NEW s \in Slots, Fail(s)
  PROVE  IInv'
<1>1. downloads' \subseteq AssetKeys /\ queue' \in Seq(QueueJobs)
  BY DEF Fail, IInv, TypeOK
<1>2. QED
  BY <1>1, IdleFits, QuietStep DEF Fail

-----------------------------------------------------------------------------
(* Jobs.                                                                    *)

(* A request is a job for the queue.                                          *)
LEMMA RequestKeeps ==
  ASSUME IInv, Request
  PROVE  IInv'
<1>1. CrawlJob(StartListing, 1, 0) \in QueueJobs /\ \A p \in Products : IngestJob(p) \in QueueJobs
  BY WalkAssumption DEF CrawlJob, IngestJob, QueueJobs, AllJobs
<1>2. queue' \in Seq(QueueJobs)
  BY <1>1, AppendProperties DEF Request, IInv
<1>3. QED
  BY <1>2 DEF Request, IInv, TypeOK, SlotsFit, dbVars, historyVars, IngestedIsStored,
              EverythingIsAudited

(* A slot takes a job.                                                        *)
LEMMA BeginKeeps ==
  ASSUME IInv, NEW s \in Slots, Begin(s)
  PROVE  IInv'
<1> DEFINE j == Head(queue)
           r == [Idle EXCEPT !.job = j, !.step = IF j.kind = "crawl" THEN "list" ELSE "fetch"]
<1>1. j \in QueueJobs /\ Tail(queue) \in Seq(QueueJobs)
  BY HeadTailProperties DEF IInv, Begin
<1>2. queue' \in Seq(QueueJobs) /\ downloads' = downloads /\ UNCHANGED <<dbVars, ingested>>
  BY <1>1 DEF Begin, historyVars
<1>3. CASE slot' = slot
  BY <1>2, <1>3 DEF IInv, TypeOK, SlotsFit, dbVars, IngestedIsStored, EverythingIsAudited
<1>4. CASE slot' = [slot EXCEPT ![s] = r]
  <2> HIDE DEF j
  <2>1. r \in SlotRecords /\ r.job = j /\ r.own = {} /\ r.adds = FALSE
        /\ r.step = IF j.kind = "crawl" THEN "list" ELSE "fetch"
    BY <1>1 DEF Idle, SlotRecords, AllJobs, QueueJobs, Steps
  <2>2. j.kind \in {"crawl", "ingest"}
    BY <1>1 DEF QueueJobs
  <2> HIDE DEF r
  <2>3. Fits(r, rows, assets)
    BY <1>1, <2>1, <2>2 DEF Fits, ShapeFits, OwnFits, FoundFits, CrawlSteps, IngestSteps, Steps,
          AfterBrand, AfterLine, AfterCigar, AfterPackage
  <2>4. downloads' \subseteq AssetKeys
    BY <1>2 DEF IInv, TypeOK
  <2>5. QED
    BY <1>2, <1>4, <2>3, <2>4, QuietStep
<1>5. QED
  BY <1>3, <1>4 DEF Begin

(* The pages of a crawl.                                                      *)
LEMMA CrawlKeeps ==
  ASSUME IInv, NEW s \in Slots, List(s) \/ EnqueueProduct(s) \/ EndCrawlPage(s)
  PROVE  IInv'
<1>0. slot[s] \in SlotRecords /\ Fits(slot[s], rows, assets)
  BY SlotRecord
<1>1. /\ slot[s].step \in CrawlSteps /\ slot[s].job.kind = "crawl" /\ slot[s].job \in QueueJobs
      /\ slot[s].job.at \in Listings
  BY <1>0 DEF Fits, ShapeFits, List, EnqueueProduct, EndCrawlPage, CrawlSteps, QueueJobs
<1>2. slot[s].own = {} /\ slot[s].adds = FALSE
  BY <1>0, <1>1 DEF Fits, OwnFits, CrawlSteps, AfterBrand, IngestSteps, SlotRecords
<1>3. downloads \subseteq AssetKeys /\ queue \in Seq(QueueJobs)
  BY DEF IInv, TypeOK
<1>4. CASE List(s)
  <2>1. CASE Fail(s)
    BY <2>1, FailKeeps
  <2>2. CASE Goto(s, "enqueue") /\ UNCHANGED <<queue, dbVars, requests, faults, downloads, historyVars>>
    <3> DEFINE r == [slot[s] EXCEPT !.step = "enqueue"]
    <3>1. r \in SlotRecords /\ r.step = "enqueue" /\ r.own = {} /\ r.adds = FALSE /\ r.job = slot[s].job
      BY <1>0, <1>2 DEF SlotRecords, Steps
    <3>2. slot' = [slot EXCEPT ![s] = r]
      BY <2>2 DEF Goto
    <3> HIDE DEF r
    <3>3. Fits(r, rows, assets)
      BY <1>1, <3>1 DEF Fits, ShapeFits, OwnFits, FoundFits, CrawlSteps, IngestSteps, Steps,
            AfterBrand, AfterLine, AfterCigar, AfterPackage
    <3>4. QED
      BY <1>3, <2>2, <3>2, <3>3, QuietStep DEF historyVars
  <2>3. QED
    BY <1>4, <2>1, <2>2 DEF List
<1>5. CASE EnqueueProduct(s)
  <2> DEFINE i == slot[s].enqueued + 1
             page == ProductsOn[slot[s].job.at]
             r == [slot[s] EXCEPT !.enqueued = i]
  <2>1. i \in 1..Len(page) /\ i \in Nat
    BY <1>0, <1>5 DEF EnqueueProduct, SlotRecords
  <2>2. page[i] \in Products
    BY <1>1, <2>1, CatalogueAssumption, ElementOfSeq
  <2>3. IngestJob(page[i]) \in QueueJobs
    BY <2>2 DEF IngestJob, QueueJobs, AllJobs
  <2>4. queue' \in Seq(QueueJobs)
    BY <1>3, <1>5, <2>3, AppendProperties DEF EnqueueProduct
  <2>5. slot' = [slot EXCEPT ![s] = r]
    BY <1>5 DEF EnqueueProduct
  <2>6. r \in SlotRecords /\ r.step = slot[s].step /\ r.own = {} /\ r.adds = FALSE /\ r.job = slot[s].job
    BY <1>0, <1>2, <2>1 DEF SlotRecords
  <2> HIDE DEF r
  <2>7. Fits(r, rows, assets)
    BY <1>1, <2>6 DEF Fits, ShapeFits, OwnFits, FoundFits, CrawlSteps, IngestSteps, Steps,
          AfterBrand, AfterLine, AfterCigar, AfterPackage
  <2>8. QED
    BY <1>3, <1>5, <2>4, <2>5, <2>7, QuietStep DEF EnqueueProduct
<1>6. CASE EndCrawlPage(s)
  <2>1. queue' \in Seq(QueueJobs)
    <3> DEFINE j == slot[s].job
    <3>1. CASE queue' = queue
      BY <1>3, <3>1
    <3>2. CASE NextOf[j.at] # None /\ queue' = Append(queue, CrawlJob(NextOf[j.at], j.page + 1, Done(s)))
      <4>1. NextOf[j.at] \in Listings /\ j.page + 1 \in Nat /\ Done(s) \in Nat
        BY <1>0, <1>1, <3>2, WalkAssumption DEF SlotRecords, AllJobs, Done
      <4>2. CrawlJob(NextOf[j.at], j.page + 1, Done(s)) \in QueueJobs
        BY <4>1 DEF CrawlJob, QueueJobs, AllJobs
      <4>3. QED
        BY <1>3, <3>2, <4>2, AppendProperties
    <3>3. QED
      BY <1>6, <3>1, <3>2 DEF EndCrawlPage, NextPage
  <2>2. QED
    BY <1>3, <1>6, <2>1, IdleFits, QuietStep DEF EndCrawlPage, historyVars
<1>7. QED
  BY <1>4, <1>5, <1>6

-----------------------------------------------------------------------------
(* The transaction of an ingest.                                            *)

(* An ingest that has fetched its page knows the page and an image it shows.  *)
LEMMA IngestRecord ==
  ASSUME IInv, NEW s \in Slots, slot[s].step \in IngestSteps
  PROVE  /\ slot[s].job.kind = "ingest" /\ slot[s].job \in QueueJobs
         /\ slot[s].job.at \in Products
         /\ slot[s].step # "fetch" => slot[s].image \in ImagesOf[slot[s].job.at]
BY SlotRecord DEF Fits, ShapeFits, IngestSteps, QueueJobs

(* The page is fetched.                                                       *)
LEMMA FetchKeeps ==
  ASSUME IInv, NEW s \in Slots, FetchProduct(s)
  PROVE  IInv'
<1>0. slot[s] \in SlotRecords /\ Fits(slot[s], rows, assets)
  BY SlotRecord
<1>1. /\ slot[s].step = "fetch" /\ slot[s].job.kind = "ingest" /\ slot[s].job \in QueueJobs
      /\ slot[s].job.at \in Products
  BY IngestRecord DEF FetchProduct, IngestSteps, Steps
<1>2. slot[s].own = {} /\ slot[s].adds = FALSE
  BY <1>0, <1>1 DEF Fits, OwnFits, AfterBrand, IngestSteps, SlotRecords
<1>3. downloads \subseteq AssetKeys /\ queue \in Seq(QueueJobs)
  BY DEF IInv, TypeOK
<1>4. ASSUME NEW i \in ImagesOf[slot[s].job.at],
             slot' = [slot EXCEPT ![s].step = "brand", ![s].image = i],
             UNCHANGED <<queue, dbVars, requests, faults, downloads, historyVars>>
      PROVE  IInv'
  <2> DEFINE r == [slot[s] EXCEPT !.step = "brand", !.image = i]
  <2>1. i \in AllImages
    BY <1>1 DEF AllImages
  <2>2. /\ r \in SlotRecords /\ r.step = "brand" /\ r.image = i /\ r.job = slot[s].job
        /\ r.own = {} /\ r.adds = FALSE
    BY <1>0, <1>2, <2>1 DEF SlotRecords, Steps
  <2>3. slot' = [slot EXCEPT ![s] = r]
    BY <1>0, <1>4 DEF IInv
  <2> HIDE DEF r
  <2>4. Fits(r, rows, assets)
    BY <1>1, <2>2 DEF Fits, ShapeFits, OwnFits, FoundFits, CrawlSteps, IngestSteps, Steps,
          AfterBrand, AfterLine, AfterCigar, AfterPackage
  <2>5. QED
    BY <1>3, <1>4, <2>3, <2>4, QuietStep DEF historyVars
<1>5. QED
  BY <1>4, FailKeeps DEF FetchProduct

(* One more key of the transaction: an insert or a find.                      *)
LEMMA InsertKeeps ==
  ASSUME IInv, NEW s \in Slots, AddBrand(s) \/ AddLine(s) \/ AddCigar(s)
  PROVE  IInv'
<1>0. slot[s] \in SlotRecords /\ Fits(slot[s], rows, assets)
  BY SlotRecord
<1> DEFINE p == slot[s].job.at
<1>1. slot[s].step \in {"brand", "line", "cigar"}
  BY DEF AddBrand, AddLine, AddCigar
<1>2. /\ slot[s].job.kind = "ingest" /\ slot[s].job \in QueueJobs
      /\ p \in Products /\ slot[s].image \in ImagesOf[p]
  BY <1>1, IngestRecord DEF IngestSteps, Steps
<1>3. slot[s].adds = FALSE /\ slot[s].own \subseteq Range(Path[p]) \cup {PackageKey(p)}
  BY <1>0, <1>1 DEF Fits, OwnFits, AfterBrand, IngestSteps, Steps, SlotRecords
<1>4. downloads \subseteq AssetKeys /\ queue \in Seq(QueueJobs)
  BY DEF IInv, TypeOK
<1>5. PICK k \in {Path[p][1], Path[p][2], Path[p][3]}, next \in {"line", "cigar", "package"} :
         /\ InsertOrFind(s, k, next)
         /\ \/ slot[s].step = "brand" /\ k = Path[p][1] /\ next = "line"
            \/ slot[s].step = "line" /\ k = Path[p][2] /\ next = "cigar"
            \/ slot[s].step = "cigar" /\ k = Path[p][3] /\ next = "package"
  BY DEF AddBrand, AddLine, AddCigar, Cigar
<1> DEFINE o == IF k \in rows THEN slot[s].own ELSE slot[s].own \cup {k}
           r == [slot[s] EXCEPT !.own = o, !.step = next]
<1>6. o \subseteq Range(Path[p]) \cup {PackageKey(p)} /\ o \subseteq AllKeys
      /\ k \in rows \cup o /\ slot[s].own \subseteq o
  BY <1>2, <1>3, PathKeys, KeysAreKeys
<1>7. slot' = [slot EXCEPT ![s] = r] /\ UNCHANGED <<queue, dbVars, requests, faults, downloads, historyVars>>
  BY <1>5 DEF InsertOrFind, IInv
<1> HIDE DEF o
<1>8. /\ r \in SlotRecords /\ r.step = next /\ r.own = o /\ r.job = slot[s].job
      /\ r.image = slot[s].image /\ r.adds = FALSE
  BY <1>0, <1>3, <1>6 DEF SlotRecords, Steps
<1> HIDE DEF r
<1>9. Fits(r, rows, assets)
  <2>1. ShapeFits(r)
    BY <1>2, <1>8 DEF ShapeFits, IngestSteps, CrawlSteps, Steps
  <2>2. OwnFits(r)
    BY <1>6, <1>8 DEF OwnFits, AfterBrand, IngestSteps, Steps
  <2>3. FoundFits(slot[s], rows, assets)
    BY <1>0 DEF Fits
  <2> HIDE DEF p
  <2>4. FoundFits(r, rows, assets)
    BY <1>5, <1>6, <1>8, <2>3 DEF FoundFits, AfterPackage, AfterCigar, AfterLine, AfterBrand, IngestSteps, Steps, p
  <2>5. QED
    BY <2>1, <2>2, <2>4 DEF Fits
<1>10. QED
  BY <1>4, <1>7, <1>9, QuietStep DEF historyVars

(* The package is looked up, inserted or updated, or left out.                *)
LEMMA PackageKeeps ==
  ASSUME IInv, NEW s \in Slots, FindPackage(s) \/ AddPackage(s) \/ RefreshPackage(s)
  PROVE  IInv'
<1>0. slot[s] \in SlotRecords /\ Fits(slot[s], rows, assets)
  BY SlotRecord
<1> DEFINE p == slot[s].job.at
           key == PackageKey(p)
<1>1. slot[s].step \in {"package", "add", "refresh"}
  BY DEF FindPackage, AddPackage, RefreshPackage
<1>2. /\ slot[s].job.kind = "ingest" /\ slot[s].job \in QueueJobs
      /\ p \in Products /\ slot[s].image \in ImagesOf[p]
  BY <1>1, IngestRecord DEF IngestSteps, Steps
<1>3. slot[s].adds = FALSE /\ slot[s].own \subseteq Range(Path[p]) \cup {key}
  BY <1>0, <1>1 DEF Fits, OwnFits, AfterBrand, IngestSteps, Steps, SlotRecords
<1>4. downloads \subseteq AssetKeys /\ queue \in Seq(QueueJobs)
  BY DEF IInv, TypeOK
<1>5. ASSUME NEW o, NEW next \in {"add", "refresh", "media"},
             slot' = [slot EXCEPT ![s] = [slot[s] EXCEPT !.own = o, !.step = next]],
             UNCHANGED <<queue, dbVars, requests, faults, downloads, historyVars>>,
             slot[s].own \subseteq o, o \subseteq slot[s].own \cup {key},
             next = "media" /\ HasPack[p] => key \in rows \cup o
      PROVE  IInv'
  <2> DEFINE r == [slot[s] EXCEPT !.own = o, !.step = next]
  <2>1. o \subseteq Range(Path[p]) \cup {key} /\ o \subseteq AllKeys
    BY <1>2, <1>3, <1>5, KeysAreKeys
  <2>2. /\ r \in SlotRecords /\ r.step = next /\ r.own = o /\ r.job = slot[s].job
        /\ r.image = slot[s].image /\ r.adds = FALSE
    BY <1>0, <1>3, <1>5, <2>1 DEF SlotRecords, Steps
  <2>3. slot' = [slot EXCEPT ![s] = r]
    BY <1>5
  <2> HIDE DEF r
  <2>4. ShapeFits(r)
    BY <1>2, <1>5, <2>2 DEF ShapeFits, IngestSteps, CrawlSteps, Steps
  <2>5. OwnFits(r)
    BY <1>5, <2>1, <2>2 DEF OwnFits, AfterBrand, IngestSteps, Steps
  <2>6. FoundFits(slot[s], rows, assets)
    BY <1>0 DEF Fits
  <2>7. FoundFits(r, rows, assets)
    BY <1>1, <1>5, <2>2, <2>6 DEF FoundFits, AfterPackage, AfterCigar, AfterLine, AfterBrand, IngestSteps, Steps
  <2>8. QED
    BY <1>4, <1>5, <2>3, <2>4, <2>5, <2>7, QuietStep DEF Fits, historyVars
<1>6. CASE FindPackage(s)
  <2> DEFINE next == IF ~HasPack[p] THEN "media" ELSE IF key \in rows THEN "refresh" ELSE "add"
  <2>1. slot' = [slot EXCEPT ![s] = [slot[s] EXCEPT !.own = slot[s].own, !.step = next]]
    BY <1>0, <1>6 DEF FindPackage, Goto, IInv, SlotRecords
  <2>2. next \in {"add", "refresh", "media"} /\ (next = "media" /\ HasPack[p] => key \in rows)
    OBVIOUS
  <2>3. UNCHANGED <<queue, dbVars, requests, faults, downloads, historyVars>>
    BY <1>6 DEF FindPackage
  <2> HIDE DEF next, key, p
  <2>4. QED
    BY <1>5, <2>1, <2>2, <2>3
<1>7. CASE ~FindPackage(s) /\ ~Fail(s)
  <2>1. /\ slot' = [slot EXCEPT ![s] = [slot[s] EXCEPT !.own = slot[s].own \cup {key}, !.step = "media"]]
        /\ UNCHANGED <<queue, dbVars, requests, faults, downloads, historyVars>>
    BY <1>7 DEF AddPackage, RefreshPackage, IInv
  <2> HIDE DEF key, p
  <2>2. QED
    BY <1>5, <2>1
<1>8. QED
  BY <1>6, <1>7, FailKeeps

(* The asset is looked up.                                                    *)
LEMMA FindAssetKeeps ==
  ASSUME IInv, NEW s \in Slots, FindAsset(s)
  PROVE  IInv'
<1>0. slot[s] \in SlotRecords /\ Fits(slot[s], rows, assets)
  BY SlotRecord
<1> DEFINE p == slot[s].job.at
           shown == slot[s].image # None
           adds == shown /\ assets[AssetKey(s)] = 0
           r == [slot[s] EXCEPT !.adds = adds, !.step = "commit"]
<1>1. slot[s].step = "media"
  BY DEF FindAsset
<1>2. /\ slot[s].job.kind = "ingest" /\ slot[s].job \in QueueJobs
      /\ p \in Products /\ slot[s].image \in ImagesOf[p]
  BY <1>1, IngestRecord DEF IngestSteps, Steps
<1>3. slot[s].own \subseteq Range(Path[p]) \cup {PackageKey(p)}
  BY <1>0, <1>1 DEF Fits, OwnFits, AfterBrand, IngestSteps, Steps
<1>4. downloads \subseteq AssetKeys /\ queue \in Seq(QueueJobs) /\ assets \in [AssetKeys -> Nat]
  BY DEF IInv, TypeOK
<1>5. CASE Fail(s)
  BY <1>5, FailKeeps
<1>6. CASE ~Fail(s)
  <2>1. /\ slot' = [slot EXCEPT ![s] = r]
        /\ UNCHANGED <<queue, dbVars, requests, faults, downloads, historyVars>>
    BY <1>6 DEF FindAsset, IInv
  <2>2. shown => AssetKey(s) \in AssetKeys /\ AssetKey(s) = <<Cigar(p), slot[s].image>>
    BY <1>2, AssetsAreKeys DEF AssetKey
  <2>3. shown => adds \/ assets[<<Cigar(p), slot[s].image>>] > 0
    BY <1>4, <2>2
  <2>4. adds \in BOOLEAN /\ (adds => shown)
    OBVIOUS
  <2> HIDE DEF adds
  <2>5. /\ r \in SlotRecords /\ r.step = "commit" /\ r.own = slot[s].own /\ r.job = slot[s].job
        /\ r.image = slot[s].image /\ r.adds = adds
    BY <1>0, <2>4 DEF SlotRecords, Steps
  <2> HIDE DEF r
  <2>6. ShapeFits(r)
    BY <1>2, <2>5 DEF ShapeFits, IngestSteps, CrawlSteps, Steps
  <2>7. OwnFits(r)
    BY <1>3, <2>4, <2>5 DEF OwnFits, AfterBrand, IngestSteps, Steps
  <2>8. FoundFits(slot[s], rows, assets)
    BY <1>0 DEF Fits
  <2>9. FoundFits(r, rows, assets)
    BY <1>1, <2>3, <2>5, <2>8 DEF FoundFits, AfterPackage, AfterCigar, AfterLine, AfterBrand, IngestSteps, Steps
  <2>10. QED
    BY <1>4, <2>1, <2>6, <2>7, <2>9, QuietStep DEF Fits, historyVars
<1>7. QED
  BY <1>5, <1>6

(* The transaction is committed: its keys, its asset and its source record.   *)
LEMMA CommitKeeps ==
  ASSUME IInv, NEW s \in Slots, Commit(s)
  PROVE  IInv'
<1>0. slot[s] \in SlotRecords /\ Fits(slot[s], rows, assets)
  BY SlotRecord
<1> DEFINE p == slot[s].job.at
           i == slot[s].image
           own == slot[s].own
           key == <<Cigar(p), i>>
           r == [slot[s] EXCEPT !.step = "announce", !.own = {}, !.adds = FALSE]
<1>1. slot[s].step = "commit"
  BY DEF Commit
<1>2. /\ slot[s].job.kind = "ingest" /\ slot[s].job \in QueueJobs
      /\ p \in Products /\ i \in ImagesOf[p]
  BY <1>1, IngestRecord DEF IngestSteps, Steps
<1>3. /\ own \subseteq Range(Path[p]) \cup {PackageKey(p)}
      /\ slot[s].adds => i # None
  BY <1>0, <1>1 DEF Fits, OwnFits, AfterBrand, IngestSteps, Steps
<1>4. own \subseteq AllKeys /\ (i # None => key \in AssetKeys)
  BY <1>2, <1>3, KeysAreKeys, AssetsAreKeys
<1>5. assets \in [AssetKeys -> Nat]
  BY DEF IInv, TypeOK
<1>6. /\ rows' = rows \cup own
      /\ assets' = IF slot[s].adds THEN [assets EXCEPT ![key] = @ + 1] ELSE assets
      /\ audited' = audited \cup {<<p, i>>}
      /\ slot' = [slot EXCEPT ![s] = r]
      /\ UNCHANGED <<queue, downloads, ingested>>
  BY DEF Commit, AssetKey, historyVars, IInv
<1>7. /\ assets' \in [AssetKeys -> Nat]
      /\ \A k \in AssetKeys : assets'[k] >= assets[k]
      /\ \A k \in AssetKeys : assets'[k] > 0 => assets[k] > 0 \/ (k = key /\ i # None)
      /\ slot[s].adds => assets'[key] > 0
  <2>1. CASE slot[s].adds
    <3>1. key \in AssetKeys /\ assets' = [assets EXCEPT ![key] = assets[key] + 1]
      BY <1>3, <1>4, <1>6, <2>1
    <3> HIDE DEF key, i
    <3>2. QED
      BY <1>3, <1>5, <2>1, <3>1
  <2>2. CASE ~slot[s].adds
    BY <1>5, <1>6, <2>2
  <2>3. QED
    BY <2>1, <2>2
<1>8. slot' \in [Slots -> SlotRecords] /\ SlotsFit'
  <2>1. /\ r \in SlotRecords /\ r.step = "announce" /\ r.own = {} /\ r.job = slot[s].job
        /\ r.image = i /\ r.adds = FALSE
    BY <1>0 DEF SlotRecords, Steps
  <2>2. slot' = [slot EXCEPT ![s] = r]
    BY <1>6
  <2> HIDE DEF r
  <2>3. ShapeFits(r) /\ OwnFits(r)
    BY <1>2, <2>1 DEF ShapeFits, OwnFits, AfterBrand, IngestSteps, CrawlSteps, Steps
  <2>4. FoundFits(slot[s], rows, assets)
    BY <1>0 DEF Fits
  <2>5. FoundFits(slot[s], rows', assets')
    <3>1. rows \subseteq rows' /\ assets' \in [AssetKeys -> Nat] /\ \A k \in AssetKeys : assets'[k] >= assets[k]
      BY <1>6, <1>7
    <3>2. Fits(slot[s], rows, assets)
      BY <1>0
    <3>3. Fits(slot[s], rows', assets')
      BY <1>5, <3>1, <3>2, FitsGrows
    <3>4. QED
      BY <3>3 DEF Fits
  <2>6. /\ Path[p][1] \in rows \cup own /\ Path[p][2] \in rows \cup own /\ Path[p][3] \in rows \cup own
        /\ HasPack[p] => PackageKey(p) \in rows \cup own
    BY <1>1, <2>4 DEF FoundFits, AfterPackage, AfterCigar, AfterLine, AfterBrand, IngestSteps, Steps
  <2>7. i # None => assets'[key] > 0
    BY <1>1, <1>7, <2>5 DEF FoundFits
  <2>8. FoundFits(r, rows', assets')
    BY <1>6, <2>1, <2>6, <2>7 DEF FoundFits
  <2>9. Fits(r, rows', assets')
    BY <2>3, <2>8 DEF Fits
  <2>10. rows \subseteq rows'
    BY <1>6
  <2>11. QED
    BY <1>7, <2>2, <2>9, <2>10, SlotMoves
<1>9. TypeOK'
  <2>1. <<p, i>> \in Shown
    BY <1>2 DEF Shown
  <2>2. \A t \in Slots : slot'[t].step \in Steps /\ slot'[t].own \subseteq AllKeys
    BY <1>8 DEF SlotRecords
  <2>3. QED
    BY <1>4, <1>6, <1>7, <2>1, <2>2 DEF IInv, TypeOK
<1>10. IngestedIsStored'
  <2> SUFFICES ASSUME NEW page \in ingested
               PROVE  /\ Range(Path[page[1]]) \subseteq rows'
                      /\ HasPack[page[1]] => PackageKey(page[1]) \in rows'
                      /\ page[2] # None => assets'[<<Cigar(page[1]), page[2]>>] > 0
    BY <1>6 DEF IngestedIsStored
  <2>1. /\ Range(Path[page[1]]) \subseteq rows
        /\ HasPack[page[1]] => PackageKey(page[1]) \in rows
        /\ page[2] # None => assets[<<Cigar(page[1]), page[2]>>] > 0
    BY DEF IInv, IngestedIsStored
  <2>2. page \in Shown
    BY DEF IInv, TypeOK
  <2>3. page[2] # None => <<Cigar(page[1]), page[2]>> \in AssetKeys
    BY <2>2, AssetsAreKeys DEF Shown
  <2>4. page[2] # None => assets'[<<Cigar(page[1]), page[2]>>] > 0
    BY <1>5, <1>7, <2>1, <2>3
  <2>5. QED
    BY <1>6, <2>1, <2>4
<1>11. EverythingIsAudited'
  <2>1. <<p, i>> \in audited' /\ \A a \in audited : a \in audited'
    BY <1>6
  <2>2. ASSUME NEW q \in Products, PackageKey(q) \in rows'
        PROVE  \E a \in audited' : a[1] = q
    <3>1. CASE PackageKey(q) \in rows
      BY <2>1, <3>1 DEF IInv, EverythingIsAudited
    <3>2. CASE PackageKey(q) \in own
      <4>1. PackageKey(q) \notin Range(Path[p])
        BY <1>2, KeysAssumption
      <4>2. q = p
        BY <1>3, <3>2, <4>1 DEF PackageKey
      <4>3. <<p, i>>[1] = p
        OBVIOUS
      <4>4. QED
        BY <2>1, <4>2, <4>3
    <3>3. QED
      BY <1>6, <2>2, <3>1, <3>2
  <2>3. ASSUME NEW q \in Products, Cigar(q) \in rows'
        PROVE  \E a \in audited' : Cigar(a[1]) = Cigar(q)
    <3>1. CASE Cigar(q) \in rows
      BY <2>1, <3>1 DEF IInv, EverythingIsAudited
    <3>2. CASE Cigar(q) \in own
      <4>1. Cigar(q) \in Range(Path[q])
        BY PathKeys DEF Cigar
      <4>2. Cigar(q) \notin {Path[p][1], Path[p][2]} /\ Cigar(q) # PackageKey(p)
        BY <1>2, <4>1, KeysAssumption
      <4>3. Range(Path[p]) = {Path[p][1], Path[p][2], Path[p][3]}
        BY <1>2, PathKeys
      <4>4. Cigar(q) = Cigar(p)
        BY <1>3, <3>2, <4>2, <4>3 DEF Cigar
      <4>5. <<p, i>>[1] = p
        OBVIOUS
      <4>6. QED
        BY <2>1, <4>4, <4>5
    <3>3. QED
      BY <1>6, <2>3, <3>1, <3>2
  <2>4. ASSUME NEW k \in AssetKeys, assets'[k] > 0
        PROVE  \E a \in audited' : k = <<Cigar(a[1]), a[2]>>
    <3>1. CASE assets[k] > 0
      BY <2>1, <3>1 DEF IInv, EverythingIsAudited
    <3>2. CASE k = key
      <4>1. <<p, i>>[1] = p /\ <<p, i>>[2] = i
        OBVIOUS
      <4>2. QED
        BY <2>1, <3>2, <4>1
    <3>3. QED
      BY <1>7, <2>4, <3>1, <3>2
  <2>5. QED
    BY <2>2, <2>3, <2>4 DEF EverythingIsAudited
<1>12. QED
  BY <1>6, <1>8, <1>9, <1>10, <1>11 DEF IInv

(* The downloads are announced, and the ingest returns.                       *)
LEMMA AnnounceKeeps ==
  ASSUME IInv, NEW s \in Slots, Announce(s)
  PROVE  IInv'
<1>0. slot[s] \in SlotRecords /\ Fits(slot[s], rows, assets)
  BY SlotRecord
<1> DEFINE p == slot[s].job.at
           i == slot[s].image
<1>1. slot[s].step = "announce"
  BY DEF Announce
<1>2. p \in Products /\ i \in ImagesOf[p]
  BY <1>1, IngestRecord DEF IngestSteps, Steps
<1>3. /\ ingested' = ingested \cup {<<p, i>>} /\ downloads' \subseteq AssetKeys
      /\ rows' = rows /\ assets' = assets /\ audited' = audited /\ queue' = queue
      /\ slot' = [slot EXCEPT ![s] = Idle]
  BY DEF Announce, dbVars, PendingOf, IInv, TypeOK
<1>4. slot' \in [Slots -> SlotRecords] /\ SlotsFit'
  <2>1. Fits(Idle, rows', assets')
    BY IdleFits
  <2>2. /\ assets' \in [AssetKeys -> Nat] /\ rows \subseteq rows'
        /\ \A k \in AssetKeys : assets'[k] >= assets[k]
    BY <1>3 DEF IInv, TypeOK
  <2>3. QED
    BY <1>3, <2>1, <2>2, SlotMoves
<1>5. TypeOK'
  <2>1. <<p, i>> \in Shown
    BY <1>2 DEF Shown
  <2>2. \A t \in Slots : slot'[t].step \in Steps /\ slot'[t].own \subseteq AllKeys
    BY <1>4 DEF SlotRecords
  <2>3. QED
    BY <1>3, <2>1, <2>2 DEF IInv, TypeOK
<1>6. IngestedIsStored'
  <2>1. FoundFits(slot[s], rows, assets) /\ slot[s].own = {}
    BY <1>0, <1>1 DEF Fits, OwnFits
  <2>2. /\ Path[p][1] \in rows /\ Path[p][2] \in rows /\ Path[p][3] \in rows
        /\ HasPack[p] => PackageKey(p) \in rows
        /\ i # None => assets[<<Cigar(p), i>>] > 0
    BY <1>1, <2>1 DEF FoundFits, AfterPackage, AfterCigar, AfterLine, AfterBrand, IngestSteps, Steps
  <2>3. Range(Path[p]) \subseteq rows
    BY <1>2, <2>2, PathKeys
  <2>4. <<p, i>>[1] = p /\ <<p, i>>[2] = i
    OBVIOUS
  <2> HIDE DEF p, i
  <2>5. QED
    BY <1>3, <2>2, <2>3, <2>4 DEF IInv, IngestedIsStored
<1>7. EverythingIsAudited'
  BY <1>3 DEF IInv, EverythingIsAudited
<1>8. QED
  BY <1>3, <1>4, <1>5, <1>6, <1>7 DEF IInv

(* A job that is cut short rolls back, and is queued again or lost.           *)
LEMMA CutKeeps ==
  ASSUME IInv, NEW s \in Slots, Stop(s) \/ Timeout(s)
  PROVE  IInv'
<1>1. Cut(s) /\ slot[s].step # "idle"
  BY DEF Stop, Timeout, Cut
<1>2. slot[s].job \in QueueJobs
  BY <1>1, SlotRecord DEF Fits, ShapeFits
<1>3. queue' \in Seq(QueueJobs)
  <2>1. queue \in Seq(QueueJobs)
    BY DEF IInv
  <2>2. <<slot[s].job>> \o queue \in Seq(QueueJobs)
    BY <1>2, <2>1, RangeOfPrepend
  <2>3. QED
    BY <2>1, <2>2 DEF Stop, Timeout
<1>4. downloads' \subseteq AssetKeys
  BY <1>1 DEF Cut, PendingOf, IInv, TypeOK
<1>5. slot' = [slot EXCEPT ![s] = Idle] /\ UNCHANGED <<dbVars, ingested>>
  BY <1>1 DEF Cut
<1>6. QED
  BY <1>3, <1>4, <1>5, IdleFits, QuietStep

-----------------------------------------------------------------------------
(* The theorems.                                                            *)

(* Every step keeps the inductive invariant.                                  *)
LEMMA NextIInv == IInv /\ [Next]_vars => IInv'
<1> SUFFICES ASSUME IInv, [Next]_vars PROVE IInv'
  OBVIOUS
<1>1. CASE Request
  BY <1>1, RequestKeeps
<1>2. ASSUME NEW s \in Slots, Progress(s)
      PROVE  IInv'
  BY <1>2, BeginKeeps, CrawlKeeps, FetchKeeps, InsertKeeps, PackageKeeps, FindAssetKeeps,
     CommitKeeps, AnnounceKeeps DEF Progress
<1>3. ASSUME NEW s \in Slots, Stop(s) \/ Timeout(s)
      PROVE  IInv'
  BY <1>3, CutKeeps
<1>4. CASE UNCHANGED vars
  BY <1>4 DEF vars, dbVars, historyVars, IInv, TypeOK, SlotsFit, IngestedIsStored,
              EverythingIsAudited
<1>5. QED
  BY <1>1, <1>2, <1>3, <1>4 DEF Next

(* The inductive invariant holds in every reachable state: it relates what    *)
(* each slot's transaction has found and inserted to the committed rows.       *)
THEOREM SpecIInv == Spec => []IInv
<1>1. Init => IInv
  BY InitIInv
<1>2. IInv /\ [Next]_vars => IInv'
  BY NextIInv
<1>3. QED
  BY <1>1, <1>2, PTL DEF Spec

(* The catalogue, the audit records and the downloads have the shape they      *)
(* should.                                                                      *)
THEOREM Types == Spec => []TypeOK
<1>1. IInv => TypeOK
  BY DEF IInv
<1>2. QED
  BY <1>1, SpecIInv, PTL

(* When an ingest has returned, all its page's rows and its asset are stored,  *)
(* whichever transaction wrote them and whichever was rolled back               *)
(* (ingest_product.py:100-208).                                                  *)
THEOREM IngestedPagesAreStored == Spec => []IngestedIsStored
<1>1. IInv => IngestedIsStored
  BY DEF IInv
<1>2. QED
  BY <1>1, SpecIInv, PTL

(* No package, cigar or asset is in the catalogue without the source record of *)
(* a page that accounts for it (ingest_product.py:139-208).                      *)
THEOREM CatalogueIsAudited == Spec => []EverythingIsAudited
<1>1. IInv => EverythingIsAudited
  BY DEF IInv
<1>2. QED
  BY <1>1, SpecIInv, PTL

-----------------------------------------------------------------------------
(* The walk of a category.                                                  *)

Pages == PagesOf[MaxPages]

\* The products of the first k pages, in order, and the first n of all.
ProductsTo(k) == FlattenSeq([i \in 1..k |-> ProductsOn[Pages[i]]])
First(n) == {AllProducts[i] : i \in 1..n}

(* The pages of the walk, one by one (CrawlWalk's recursive function).        *)
LEMMA PagesOneByOne ==
  \A n \in 0..MaxPages :
    /\ PagesOf[n] \in Seq(Listings)
    /\ PagesOf[n] = IF n = 0 THEN <<>>
                    ELSE IF n = 1 THEN <<StartListing>>
                    ELSE IF \/ Len(PagesOf[n - 1]) < n - 1
                            \/ NextOf[Last(PagesOf[n - 1])] = None
                         THEN PagesOf[n - 1]
                         ELSE Append(PagesOf[n - 1], NextOf[Last(PagesOf[n - 1])])
<1> DEFINE Follow(n, p) == IF n = 1 THEN <<StartListing>>
                           ELSE IF Len(p) < n - 1 \/ NextOf[Last(p)] = None THEN p
                           ELSE Append(p, NextOf[Last(p)])
           S == Seq(Listings)
           step == [x \in (1..MaxPages) \X S |-> Follow(x[1], x[2])]
           Body(f) == [n \in 0..MaxPages |-> IF n = 0 THEN <<>> ELSE Follow(n, f[n - 1])]
<1>1. MaxPages \in Nat /\ <<>> \in S
  BY WalkAssumption, EmptySeq
<1>2. ASSUME NEW n \in 1..MaxPages, NEW p \in S PROVE Follow(n, p) \in S
  <2>1. CASE n = 1
    BY <2>1, WalkAssumption
  <2>2. CASE n # 1 /\ ~(Len(p) < n - 1 \/ NextOf[Last(p)] = None)
    <3>1. Len(p) \in 1..Len(p)
      BY <1>1, <2>2, LenProperties
    <3>2. Last(p) \in Listings
      BY <3>1, ElementOfSeq DEF Last
    <3>3. NextOf[Last(p)] \in Listings
      BY <2>2, <3>2, WalkAssumption
    <3>4. QED
      BY <2>2, <3>3, AppendProperties
  <2>3. QED
    BY <2>1, <2>2
<1>3. step \in [(1..MaxPages) \X S -> S]
  <2> HIDE DEF Follow, S
  <2>1. QED
    BY <1>2
<1>4. PICK f : Iterates(f, MaxPages, S, <<>>, step)
  <2> HIDE DEF step, S
  <2>1. QED
    BY <1>1, <1>3, Iteration
<1>5. f = Body(f) /\ f \in [0..MaxPages -> S]
  <2> HIDE DEF Follow, S
  <2>1. f \in [0..MaxPages -> S] /\ f[0] = <<>>
    BY <1>4 DEF Iterates
  <2>2. ASSUME NEW n \in 1..MaxPages PROVE f[n] = Follow(n, f[n - 1])
    <3>1. n - 1 \in 0..MaxPages /\ f[n - 1] \in S
      BY <1>1, <2>1
    <3>2. f[n] = step[<<n, f[n - 1]>>]
      BY <1>4 DEF Iterates
    <3>3. QED
      BY <3>1, <3>2
  <2>3. \A n \in 0..MaxPages : f[n] = IF n = 0 THEN <<>> ELSE Follow(n, f[n - 1])
    BY <1>1, <2>1, <2>2
  <2>4. QED
    BY <2>1, <2>3
<1>6. PagesOf = Body(PagesOf)
  <2>1. PagesOf = CHOOSE g : g = Body(g)
    BY DEF PagesOf
  <2> HIDE DEF Body
  <2>2. QED
    BY <1>5, <2>1
<1>7. ASSUME NEW n \in 0..MaxPages
      PROVE  PagesOf[n] = IF n = 0 THEN <<>> ELSE Follow(n, PagesOf[n - 1])
  <2>1. PagesOf[n] = Body(PagesOf)[n]
    BY <1>6
  <2> HIDE DEF Follow
  <2>2. QED
    BY <2>1
<1>8. 0..MaxPages \subseteq {n \in 0..MaxPages : PagesOf[n] \in S}
  <2> DEFINE T == {n \in 0..MaxPages : PagesOf[n] \in S}
  <2> HIDE DEF Follow, S
  <2>1. 0 \in T
    BY <1>1, <1>7
  <2>2. ASSUME NEW m \in 1..MaxPages, m - 1 \in T PROVE m \in T
    <3>1. PagesOf[m] = Follow(m, PagesOf[m - 1])
      BY <1>1, <1>7
    <3>2. QED
      BY <1>1, <1>2, <2>2, <3>1
  <2> HIDE DEF T
  <2>3. 0..MaxPages \subseteq T
    BY <1>1, <2>1, <2>2, InductionUpTo
  <2>4. QED
    BY <2>3 DEF T
<1>9. QED
  BY <1>7, <1>8

\* The first n pages: from the start by the links, n of them unless the links end.
IsWalk(p, n) ==
  /\ p \in Seq(Listings) /\ Len(p) \in 1..n
  /\ p[1] = StartListing
  /\ \A k \in 1..Len(p) : k # 1 => p[k] = NextOf[p[k - 1]] /\ p[k] # None
  /\ Len(p) = n \/ NextOf[p[Len(p)]] = None

(* The walk follows the links until they end or MaxPages pages are visited.   *)
LEMMA PagesAreTheWalk ==
  IF MaxPages = 0 THEN Pages = <<>> ELSE IsWalk(Pages, MaxPages)
<1> DEFINE T == {n \in 0..MaxPages : n = 0 \/ IsWalk(PagesOf[n], n)}
<1>1. MaxPages \in Nat
  BY WalkAssumption
<1>2. 0 \in T
  BY <1>1
<1>3. ASSUME NEW m \in 1..MaxPages, m - 1 \in T PROVE m \in T
  <2> DEFINE p == PagesOf[m - 1]
             q == PagesOf[m]
             next == NextOf[Last(p)]
  <2>1. m \in Nat /\ m \in 0..MaxPages /\ m - 1 \in 0..MaxPages
    BY <1>1
  <2>2. p \in Seq(Listings) /\ q \in Seq(Listings) /\ Len(p) \in Nat
    BY <2>1, PagesOneByOne, LenProperties
  <2>3. CASE m = 1
    <3>1. q = <<StartListing>>
      BY <2>1, <2>3, PagesOneByOne
    <3>2. Len(q) = 1 /\ q[1] = StartListing
      BY <3>1
    <3> HIDE DEF q
    <3>3. IsWalk(q, m)
      BY <2>2, <2>3, <3>2 DEF IsWalk
    <3>4. QED
      BY <2>1, <3>3 DEF q
  <2>4. CASE m # 1
    <3>1. IsWalk(p, m - 1)
      BY <1>3, <2>4
    <3>2. q = IF Len(p) < m - 1 \/ next = None THEN p ELSE Append(p, next)
      BY <2>1, <2>4, PagesOneByOne
    <3>3. Last(p) = p[Len(p)]
      BY DEF Last
    <3>4. CASE Len(p) < m - 1 \/ next = None
      <4>1. q = p /\ (Len(p) = m - 1 => next = None)
        BY <2>2, <3>2, <3>4
      <4>2. IsWalk(q, m)
        BY <2>1, <3>1, <3>3, <4>1 DEF IsWalk
      <4>3. QED
        BY <2>1, <4>2
    <3>5. CASE ~(Len(p) < m - 1 \/ next = None)
      <4> HIDE DEF p, q
      <4>1. Len(p) = m - 1 /\ Len(p) \in 1..Len(p)
        BY <2>1, <2>2, <2>4, <3>1, <3>5 DEF IsWalk
      <4>2. next \in Listings
        BY <2>2, <3>3, <3>5, <4>1, ElementOfSeq, WalkAssumption
      <4>3. /\ q = Append(p, next) /\ Len(q) = Len(p) + 1
            /\ \A i \in 1..Len(p) : q[i] = p[i]
            /\ q[Len(p) + 1] = next
        BY <2>2, <3>2, <3>5, <4>2, AppendProperties
      <4>4. ASSUME NEW k \in 1..Len(q), k # 1 PROVE q[k] = NextOf[q[k - 1]] /\ q[k] # None
        <5>1. k - 1 \in 1..Len(p) /\ q[k - 1] = p[k - 1]
          BY <2>2, <4>3, <4>4
        <5>2. CASE k \in 1..Len(p)
          BY <3>1, <4>3, <4>4, <5>1, <5>2 DEF IsWalk
        <5>3. CASE k = Len(p) + 1
          BY <2>2, <3>3, <3>5, <4>3, <5>1, <5>3
        <5>4. k \in 1..Len(p) \/ k = Len(p) + 1
          <6>1. k \in 1..(Len(p) + 1)
            BY <4>3
          <6>2. QED
            BY <2>2, <6>1
        <5>5. QED
          BY <5>2, <5>3, <5>4
      <4>5. Len(q) = m /\ q[1] = StartListing
        BY <2>1, <3>1, <4>1, <4>3 DEF IsWalk
      <4>6. IsWalk(q, m)
        BY <2>1, <2>2, <4>4, <4>5 DEF IsWalk
      <4>7. QED
        BY <2>1, <4>6 DEF q
    <3>6. QED
      BY <3>4, <3>5
  <2>5. QED
    BY <2>3, <2>4
<1> HIDE DEF T
<1>4. 0..MaxPages \subseteq T
  BY <1>1, <1>2, <1>3, InductionUpTo
<1>5. MaxPages \in T
  BY <1>1, <1>4
<1>6. MaxPages = 0 => PagesOf[MaxPages] = <<>>
  BY <1>1, PagesOneByOne
<1>7. QED
  BY <1>5, <1>6 DEF T, Pages

(* The products of one page more: those of the page are put at the end.       *)
LEMMA ProductsPageByPage ==
  /\ AllProducts = ProductsTo(Len(Pages))
  /\ ProductsTo(0) = <<>>
  /\ \A k \in 1..Len(Pages) :
       /\ ProductsTo(k - 1) \in Seq(Products) /\ ProductsTo(k) \in Seq(Products)
       /\ ProductsOn[Pages[k]] \in Seq(Products)
       /\ ProductsTo(k) = ProductsTo(k - 1) \o ProductsOn[Pages[k]]
<1> DEFINE Rows(k) == [i \in 1..k |-> ProductsOn[Pages[i]]]
<1>1. Pages \in Seq(Listings) /\ Len(Pages) \in Nat
  <2>1. MaxPages \in 0..MaxPages
    BY WalkAssumption
  <2>2. QED
    BY <2>1, PagesOneByOne, LenProperties DEF Pages
<1>2. \A i \in 1..Len(Pages) : ProductsOn[Pages[i]] \in Seq(Products)
  BY <1>1, ElementOfSeq, CatalogueAssumption
<1>3. ASSUME NEW k \in 0..Len(Pages)
      PROVE  Rows(k) \in Seq(Seq(Products)) /\ Len(Rows(k)) = k
  <2>1. \A i \in 1..k : ProductsOn[Pages[i]] \in Seq(Products)
    BY <1>1, <1>2
  <2>2. Rows(k) \in [1..k -> Seq(Products)] /\ k \in Nat
    BY <1>1, <2>1
  <2> HIDE DEF Rows
  <2>3. QED
    BY <2>2
<1>4. ASSUME NEW k \in 1..Len(Pages)
      PROVE  /\ ProductsTo(k - 1) \in Seq(Products) /\ ProductsTo(k) \in Seq(Products)
             /\ ProductsTo(k) = ProductsTo(k - 1) \o ProductsOn[Pages[k]]
  <2> DEFINE page == ProductsOn[Pages[k]]
  <2>1. k \in Nat /\ k \in 0..Len(Pages) /\ k - 1 \in 0..Len(Pages) /\ page \in Seq(Products)
    BY <1>1, <1>2
  <2>2. /\ Rows(k - 1) \in Seq(Seq(Products)) /\ Len(Rows(k - 1)) = k - 1
        /\ Rows(k) \in Seq(Seq(Products)) /\ Len(Rows(k)) = k
    BY <1>3, <2>1
  <2>3. /\ \A i \in 1..k : Rows(k)[i] = ProductsOn[Pages[i]]
        /\ \A i \in 1..(k - 1) : Rows(k - 1)[i] = ProductsOn[Pages[i]]
    OBVIOUS
  <2> HIDE DEF Rows
  <2>4. Rows(k) = Append(Rows(k - 1), page)
    <3> DEFINE r == Rows(k - 1)
               a == Append(r, page)
    <3>1. /\ a \in Seq(Seq(Products)) /\ Len(a) = Len(r) + 1
          /\ \A i \in 1..Len(r) : a[i] = r[i]
          /\ a[Len(r) + 1] = page
      <4> HIDE DEF page
      <4>1. QED
        BY <2>1, <2>2, AppendProperties
    <3>2. Len(a) = k /\ Len(r) = k - 1
      BY <2>1, <2>2, <3>1
    <3> HIDE DEF a, r
    <3>3. \A i \in 1..k : a[i] = Rows(k)[i]
      BY <2>1, <2>3, <3>1, <3>2 DEF r
    <3>4. QED
      BY <2>2, <3>1, <3>2, <3>3, SeqEqual DEF a, r
  <2>5. /\ FlattenSeq(Rows(k - 1)) \in Seq(Products)
        /\ FlattenSeq(Rows(k)) = FlattenSeq(Rows(k - 1)) \o page
    BY <2>1, <2>2, <2>4, FlattenAppend
  <2>6. FlattenSeq(Rows(k)) \in Seq(Products)
    BY <2>1, <2>5, ConcatProperties
  <2>7. QED
    BY <2>5, <2>6 DEF ProductsTo, Rows
<1>5. ProductsTo(0) = <<>>
  <2>1. Rows(0) \in Seq(Seq(Products)) /\ Len(Rows(0)) = 0
    BY <1>1, <1>3
  <2>2. FlattenSeq(Rows(0)) = Rows(0) /\ Rows(0) = <<>>
    <3> HIDE DEF Rows
    <3>1. QED
      BY <2>1, EmptySeq DEF FlattenSeq
  <2>3. QED
    BY <2>2 DEF ProductsTo
<1>6. AllProducts = ProductsTo(Len(Pages))
  BY DEF AllProducts, ProductsTo, Pages
<1>7. QED
  BY <1>2, <1>4, <1>5, <1>6

(* The products of a page follow those of the earlier pages, without a gap.   *)
LEMMA PageInTheWalk ==
  ASSUME NEW k \in 1..Len(Pages)
  PROVE  LET before == Len(ProductsTo(k - 1))
             page == ProductsOn[Pages[k]]
         IN /\ before \in Nat /\ Len(page) \in Nat
            /\ before + Len(page) = Len(ProductsTo(k))
            /\ before + Len(page) <= Len(AllProducts)
            /\ \A i \in 1..Len(page) : AllProducts[before + i] = page[i]
<1> DEFINE before(j) == ProductsTo(j - 1)
           page(j) == ProductsOn[Pages[j]]
           Prefix(p, q) == Len(p) <= Len(q) /\ \A i \in 1..Len(p) : q[i] = p[i]
           n == Len(Pages)
           T == {m \in 0..n : m = 0 \/ \A j \in 1..m : Prefix(ProductsTo(j), ProductsTo(m))}
<1>1. n \in Nat
  <2>1. MaxPages \in 0..MaxPages
    BY WalkAssumption
  <2>2. QED
    BY <2>1, PagesOneByOne, LenProperties DEF Pages
<1>2. ASSUME NEW j \in 1..n
      PROVE  /\ ProductsTo(j) \in Seq(Products) /\ before(j) \in Seq(Products)
             /\ Len(ProductsTo(j)) \in Nat /\ Len(before(j)) \in Nat /\ Len(page(j)) \in Nat
             /\ Len(ProductsTo(j)) = Len(before(j)) + Len(page(j))
             /\ \A i \in 1..Len(before(j)) : ProductsTo(j)[i] = before(j)[i]
             /\ \A i \in 1..Len(page(j)) : ProductsTo(j)[Len(before(j)) + i] = page(j)[i]
  <2>1. /\ before(j) \in Seq(Products) /\ ProductsTo(j) \in Seq(Products)
        /\ page(j) \in Seq(Products)
        /\ ProductsTo(j) = before(j) \o page(j)
    BY ProductsPageByPage
  <2> HIDE DEF page, before
  <2>2. /\ Len(ProductsTo(j)) = Len(before(j)) + Len(page(j))
        /\ \A i \in 1..Len(before(j)) + Len(page(j)) : ProductsTo(j)[i] =
             IF i <= Len(before(j)) THEN before(j)[i] ELSE page(j)[i - Len(before(j))]
    BY <2>1, ConcatProperties
  <2>3. Len(before(j)) \in Nat /\ Len(page(j)) \in Nat
    BY <2>1, LenProperties
  <2>4. QED
    BY <2>1, <2>2, <2>3
<1>3. ASSUME NEW m \in 1..n, m - 1 \in T PROVE m \in T
  <2>1. m \in Nat /\ m \in 0..n
    BY <1>1
  <2>2. ASSUME NEW j \in 1..m PROVE Prefix(ProductsTo(j), ProductsTo(m))
    <3>1. CASE j = m
      BY <1>2, <3>1
    <3>2. CASE j # m
      <4>1. j \in 1..(m - 1) /\ m - 1 # 0 /\ j \in 1..n
        BY <1>1, <2>1, <3>2
      <4>2. Prefix(ProductsTo(j), before(m))
        BY <1>3, <4>1
      <4>3. Prefix(before(m), ProductsTo(m))
        <5>1. /\ Len(ProductsTo(m)) = Len(before(m)) + Len(page(m))
              /\ Len(before(m)) \in Nat /\ Len(page(m)) \in Nat
              /\ \A i \in 1..Len(before(m)) : ProductsTo(m)[i] = before(m)[i]
          BY <1>2
        <5> HIDE DEF before, page
        <5>2. QED
          BY <5>1
      <4>4. QED
        BY <1>2, <4>1, <4>2, <4>3
    <3>3. QED
      BY <3>1, <3>2
  <2>3. QED
    BY <2>1, <2>2
<1>4. 0 \in T
  BY <1>1
<1> HIDE DEF T
<1>5. 0..n \subseteq T
  BY <1>1, <1>3, <1>4, InductionUpTo
<1>6. Prefix(ProductsTo(k), AllProducts)
  <2>1. n \in T /\ n # 0 /\ k \in 1..n
    BY <1>1, <1>5
  <2>2. QED
    BY <2>1, ProductsPageByPage DEF T
<1>7. ASSUME NEW i \in 1..Len(page(k)) PROVE AllProducts[Len(before(k)) + i] = page(k)[i]
  <2>1. Len(before(k)) + i \in 1..Len(ProductsTo(k))
    <3>1. /\ Len(ProductsTo(k)) = Len(before(k)) + Len(page(k))
          /\ Len(before(k)) \in Nat /\ Len(page(k)) \in Nat
      BY <1>2
    <3> HIDE DEF before
    <3>2. QED
      BY <3>1
  <2>2. QED
    BY <1>2, <1>6, <2>1
<1>8. QED
  BY <1>2, <1>6, <1>7

(* What is to be asked for: the first MaxProducts of the products.            *)
LEMMA WalkedProducts ==
  /\ AllProducts \in Seq(Products) /\ Len(AllProducts) \in Nat
  /\ \A i \in 1..Len(AllProducts) : i <= MaxProducts => AllProducts[i] \in Walked
  /\ \A n \in Nat : n >= Len(AllProducts) \/ n >= MaxProducts => Walked \subseteq First(n)
  /\ MaxPages = 0 => Walked = {}
<1> DEFINE all == AllProducts
<1>1. Pages \in Seq(Listings) /\ Len(Pages) \in Nat
  <2>1. MaxPages \in 0..MaxPages
    BY WalkAssumption
  <2>2. QED
    BY <2>1, PagesOneByOne, LenProperties DEF Pages
<1>2. all \in Seq(Products) /\ Len(all) \in Nat /\ (MaxPages = 0 => all = <<>>)
  <2>1. CASE Len(Pages) = 0
    <3>1. all = <<>>
      BY <2>1, ProductsPageByPage
    <3> HIDE DEF all
    <3>2. QED
      BY <3>1, EmptySeq
  <2>2. CASE Len(Pages) # 0
    <3>1. Len(Pages) \in 1..Len(Pages)
      BY <1>1, <2>2
    <3>2. MaxPages # 0
      BY <2>2, PagesAreTheWalk
    <3>3. QED
      BY <3>1, <3>2, ProductsPageByPage, LenProperties
  <2>3. QED
    BY <2>1, <2>2
<1> HIDE DEF all
<1>3. MaxProducts \in Nat
  BY WalkAssumption
<1>4. WalkedSeq = IF Len(all) <= MaxProducts THEN all ELSE SubSeq(all, 1, MaxProducts)
  BY DEF WalkedSeq, all
<1> DEFINE n == IF Len(all) <= MaxProducts THEN Len(all) ELSE MaxProducts
<1>5. WalkedSeq \in Seq(Products) /\ Len(WalkedSeq) = n /\ \A i \in 1..n : WalkedSeq[i] = all[i]
  <2>1. CASE Len(all) <= MaxProducts
    BY <1>2, <1>4, <2>1
  <2>2. CASE ~(Len(all) <= MaxProducts)
    <3>1. \A i \in 1..MaxProducts : i \in 1..Len(all) /\ all[i] \in Products
      BY <1>2, <1>3, <2>2, ElementOfSeq
    <3>2. /\ SubSeq(all, 1, MaxProducts) \in Seq(Products)
          /\ Len(SubSeq(all, 1, MaxProducts)) = IF 1 <= MaxProducts THEN MaxProducts - 1 + 1 ELSE 0
          /\ \A i \in 1..MaxProducts - 1 + 1 : SubSeq(all, 1, MaxProducts)[i] = all[1 + i - 1]
      BY <1>3, <3>1, SubSeqProperties
    <3>3. QED
      BY <1>3, <1>4, <2>2, <3>2
  <2>3. QED
    BY <2>1, <2>2
<1>6. n \in Nat /\ n <= Len(all) /\ n <= MaxProducts
  BY <1>2, <1>3
<1>7. Walked = {all[i] : i \in 1..n}
  <2>1. DOMAIN WalkedSeq = 1..n
    BY <1>5, LenProperties
  <2> HIDE DEF n
  <2>2. QED
    BY <1>5, <2>1 DEF Walked, Range
<1>8. ASSUME NEW i \in 1..Len(all), i <= MaxProducts PROVE all[i] \in Walked
  <2>1. i \in 1..n
    BY <1>2, <1>3, <1>8
  <2>2. QED
    BY <1>7, <2>1
<1>9. ASSUME NEW m \in Nat, m >= Len(all) \/ m >= MaxProducts PROVE Walked \subseteq First(m)
  <2>1. 1..n \subseteq 1..m
    BY <1>2, <1>3, <1>9
  <2>2. QED
    BY <1>7, <2>1 DEF First, all
<1>10. MaxPages = 0 => Walked = {}
  BY <1>2, <1>3, <1>7
<1>11. QED
  BY <1>2, <1>8, <1>9, <1>10 DEF all

-----------------------------------------------------------------------------
(* The inductive invariant of a crawl.                                      *)

(* A crawl job is at a page of the walk, told of as many products as the      *)
(* earlier pages have, and those are among the products asked for, R.          *)
OnWalk(j, R) ==
  j.kind = "crawl" =>
    /\ j.page >= 1
    /\ MaxPages # 0 => /\ j.page \in 1..Len(Pages) /\ j.at = Pages[j.page]
                       /\ j.processed = Len(ProductsTo(j.page - 1))
                       /\ First(j.processed) \subseteq R

(* So are the products of its page that a slot has enqueued.                  *)
SlotOnWalk(r, R) ==
  /\ OnWalk(r.job, R)
  /\ r.step = "idle" => r.job.kind # "crawl"
  /\ r.job.kind = "crawl" =>
       /\ MaxPages # 0 /\ r.enqueued <= Len(ProductsOn[r.job.at])
       /\ First(r.job.processed + r.enqueued) \subseteq R

(* The rest of the walk is in the hands of a crawl job, unless one was lost.  *)
Crawling == \/ \E j \in Range(queue) : j.kind = "crawl"
            \/ \E s \in Slots : slot[s].job.kind = "crawl"
Covered == \/ Walked \subseteq requested
           \/ Crawling
           \/ lost \cap Listings # {}

CrawlInv ==
  /\ requested \subseteq Walked
  /\ \A j \in Range(queue) : OnWalk(j, requested)
  /\ \A s \in Slots : SlotOnWalk(slot[s], requested)
  /\ requested # {} => Covered

(* What has been asked for stays asked for.                                   *)
LEMMA OnWalkGrows ==
  ASSUME NEW R, NEW R2, R \subseteq R2
  PROVE  /\ \A j : OnWalk(j, R) => OnWalk(j, R2)
         /\ \A r : SlotOnWalk(r, R) => SlotOnWalk(r, R2)
<1>1. \A j : OnWalk(j, R) => OnWalk(j, R2)
  BY DEF OnWalk
<1>2. QED
  BY <1>1 DEF SlotOnWalk

(* One slot moves, and the queue holds jobs that are on the walk.             *)
LEMMA CrawlStep ==
  ASSUME CrawlInv, NEW s \in Slots, \A t \in Slots \ {s} : slot'[t] = slot[t],
         SlotOnWalk(slot'[s], requested'),
         requested \subseteq requested', requested' \subseteq Walked,
         \A j \in Range(queue') : j \in Range(queue) \/ OnWalk(j, requested'),
         requested' # {} => Covered'
  PROVE  CrawlInv'
<1>1. \A t \in Slots : SlotOnWalk(slot'[t], requested')
  BY OnWalkGrows DEF CrawlInv
<1>2. \A j \in Range(queue') : OnWalk(j, requested')
  BY OnWalkGrows DEF CrawlInv
<1>3. QED
  BY <1>1, <1>2 DEF CrawlInv

(* A slot that loses no crawl leaves the rest of the walk covered.            *)
LEMMA StaysCovered ==
  ASSUME CrawlInv, requested' = requested, lost \subseteq lost', NEW s \in Slots,
         \A t \in Slots \ {s} : slot'[t] = slot[t],
         slot[s].job.kind = "crawl" => Covered',
         \A j \in Range(queue) : j \in Range(queue') \/ (j.kind = "crawl" => Covered')
  PROVE  requested' # {} => Covered'
<1> SUFFICES ASSUME requested' # {} PROVE Covered'
  OBVIOUS
<1>1. Covered
  BY DEF CrawlInv
<1>2. CASE Walked \subseteq requested \/ lost \cap Listings # {}
  BY <1>2 DEF Covered
<1>3. CASE \E j \in Range(queue) : j.kind = "crawl"
  BY <1>3 DEF Covered, Crawling
<1>4. CASE \E t \in Slots : slot[t].job.kind = "crawl"
  <2>1. PICK t \in Slots : slot[t].job.kind = "crawl"
    BY <1>4
  <2>2. CASE t = s
    BY <2>1, <2>2
  <2>3. CASE t # s
    <3>1. slot'[t].job.kind = "crawl"
      BY <2>1, <2>3
    <3>2. QED
      BY <3>1 DEF Covered, Crawling
  <2>4. QED
    BY <2>2, <2>3
<1>5. QED
  BY <1>1, <1>2, <1>3, <1>4 DEF Covered, Crawling

(* Nothing is asked for at the start.                                         *)
LEMMA InitCrawlInv == Init => CrawlInv
<1> SUFFICES ASSUME Init PROVE CrawlInv
  OBVIOUS
<1>1. Range(queue) = {}
  BY DEF Init, Range
<1>2. \A s \in Slots : SlotOnWalk(slot[s], requested)
  BY DEF Init, Idle, NoJob, SlotOnWalk, OnWalk
<1>3. QED
  BY <1>1, <1>2 DEF Init, CrawlInv

(* A slot that becomes idle is on the walk.                                   *)
LEMMA IdleOnWalk ==
  ASSUME NEW R
  PROVE  SlotOnWalk(Idle, R) /\ Idle.job.kind = "none"
BY DEF Idle, NoJob, SlotOnWalk, OnWalk

(* A crawl starts at the first page, told of nothing.                         *)
LEMMA StartsOnWalk ==
  ASSUME NEW R
  PROVE  OnWalk(CrawlJob(StartListing, 1, 0), R)
<1> DEFINE j == CrawlJob(StartListing, 1, 0)
<1>1. j.page = 1 /\ j.at = StartListing /\ j.processed = 0
  BY DEF CrawlJob
<1>2. ASSUME MaxPages # 0
      PROVE  1 \in 1..Len(Pages) /\ Pages[1] = StartListing
  BY <1>2, PagesAreTheWalk DEF IsWalk
<1>3. Len(ProductsTo(0)) = 0 /\ First(0) = {}
  BY ProductsPageByPage, WalkedProducts DEF First
<1> HIDE DEF j
<1>4. QED
  BY <1>1, <1>2, <1>3 DEF OnWalk, j

(* A request adds a job.                                                      *)
LEMMA RequestCrawls ==
  ASSUME IInv, CrawlInv, Request
  PROVE  CrawlInv'
<1>1. PICK j \in QueueJobs : queue' = Append(queue, j) /\ OnWalk(j, requested)
  <2>1. /\ CrawlJob(StartListing, 1, 0) \in QueueJobs
        /\ \A p \in Products : IngestJob(p) \in QueueJobs /\ OnWalk(IngestJob(p), requested)
    BY WalkAssumption DEF CrawlJob, IngestJob, QueueJobs, AllJobs, OnWalk
  <2>2. QED
    BY <2>1, StartsOnWalk DEF Request
<1>2. Range(queue') = Range(queue) \cup {j}
  BY <1>1, RangeOfAppend DEF IInv
<1>3. UNCHANGED <<slot, requested, lost>>
  BY DEF Request, historyVars
<1>4. Covered => Covered'
  BY <1>2, <1>3 DEF Covered, Crawling
<1>5. QED
  BY <1>1, <1>2, <1>3, <1>4 DEF CrawlInv

(* A slot takes a job; a crawl is past its last page only if there is none.   *)
LEMMA BeginCrawls ==
  ASSUME IInv, CrawlInv, NEW s \in Slots, Begin(s)
  PROVE  CrawlInv'
<1> DEFINE j == Head(queue)
           r == [Idle EXCEPT !.job = j, !.step = IF j.kind = "crawl" THEN "list" ELSE "fetch"]
<1>1. /\ queue \in Seq(QueueJobs) /\ queue # <<>> /\ queue' = Tail(queue)
      /\ slot[s].step = "idle" /\ UNCHANGED <<requested, lost>>
  BY DEF IInv, Begin, historyVars
<1>2. j \in QueueJobs /\ Range(queue) = {j} \cup Range(queue')
  BY <1>1, RangeOfNonempty, HeadTailProperties
<1>3. OnWalk(j, requested) /\ slot[s].job.kind # "crawl" /\ j.page \in Nat
  BY <1>1, <1>2 DEF CrawlInv, SlotOnWalk, QueueJobs, AllJobs
<1>4. MaxPages \in Nat /\ (MaxPages # 0 => Len(Pages) <= MaxPages)
  BY WalkAssumption, PagesAreTheWalk DEF IsWalk
<1>5. CASE j.kind = "crawl" /\ j.page > MaxPages
  <2>1. MaxPages = 0
    BY <1>3, <1>4, <1>5 DEF OnWalk
  <2>2. slot' = slot
    BY <1>5 DEF Begin
  <2>3. Walked \subseteq requested
    BY <2>1, WalkedProducts
  <2>4. QED
    BY <1>1, <1>2, <2>2, <2>3 DEF CrawlInv, Covered
<1>6. CASE ~(j.kind = "crawl" /\ j.page > MaxPages)
  <2>1. slot' = [slot EXCEPT ![s] = r]
    BY <1>6 DEF Begin
  <2>2. /\ r.job = j /\ r.enqueued = 0
        /\ r.step = IF j.kind = "crawl" THEN "list" ELSE "fetch"
    BY DEF Idle
  <2> HIDE DEF j, r
  <2>3. slot'[s] = r /\ \A t \in Slots \ {s} : slot'[t] = slot[t]
    BY <2>1 DEF IInv
  <2>4. SlotOnWalk(r, requested)
    <3>1. CASE j.kind = "crawl"
      <4>1. MaxPages # 0
        BY <1>3, <1>4, <1>6, <3>1 DEF OnWalk
      <4>2. j.page \in 1..Len(Pages) /\ j.at = Pages[j.page]
            /\ j.processed = Len(ProductsTo(j.page - 1)) /\ First(j.processed) \subseteq requested
        BY <1>3, <3>1, <4>1 DEF OnWalk
      <4>3. Len(ProductsOn[j.at]) \in Nat /\ j.processed \in Nat
        BY <4>2, PageInTheWalk
      <4>4. 0 <= Len(ProductsOn[j.at]) /\ j.processed + 0 = j.processed
        BY <4>3
      <4>5. QED
        BY <1>3, <2>2, <3>1, <4>1, <4>2, <4>4 DEF SlotOnWalk
    <3>2. CASE j.kind # "crawl"
      BY <1>3, <2>2, <3>2 DEF SlotOnWalk
    <3>3. QED
      BY <3>1, <3>2
  <2>5. j.kind = "crawl" => Covered'
    BY <2>2, <2>3 DEF Covered, Crawling
  <2>6. requested' # {} => Covered'
    <3>1. \A k \in Range(queue) : k \in Range(queue') \/ (k.kind = "crawl" => Covered')
      BY <1>2, <2>5
    <3>2. QED
      BY <1>1, <1>3, <2>3, <3>1, StaysCovered
  <2>7. requested' \subseteq Walked
    BY <1>1 DEF CrawlInv
  <2>8. QED
    BY <1>1, <1>2, <2>3, <2>4, <2>6, <2>7, CrawlStep
<1>7. QED
  BY <1>5, <1>6

(* The slot of a crawl that has listed its page: where it is on the walk.     *)
LEMMA CrawlRecord ==
  ASSUME IInv, CrawlInv, NEW s \in Slots, slot[s].step \in CrawlSteps
  PROVE  LET j == slot[s].job
             page == ProductsOn[j.at]
         IN /\ slot[s] \in SlotRecords /\ j \in QueueJobs /\ j.kind = "crawl" /\ j.at \in Listings
            /\ MaxPages # 0 /\ j.page \in 1..Len(Pages) /\ j.at = Pages[j.page]
            /\ j.processed \in Nat /\ slot[s].enqueued \in Nat /\ Len(page) \in Nat
            /\ j.processed = Len(ProductsTo(j.page - 1))
            /\ j.processed + Len(page) = Len(ProductsTo(j.page))
            /\ j.processed + Len(page) <= Len(AllProducts)
            /\ \A i \in 1..Len(page) : AllProducts[j.processed + i] = page[i]
            /\ slot[s].enqueued <= Len(page)
            /\ Done(s) = j.processed + slot[s].enqueued
            /\ First(Done(s)) \subseteq requested
<1> DEFINE j == slot[s].job
<1>1. /\ slot[s] \in SlotRecords /\ j \in QueueJobs /\ j.kind = "crawl"
      /\ j.processed \in Nat /\ slot[s].enqueued \in Nat
  BY SlotRecord DEF Fits, ShapeFits, CrawlSteps, SlotRecords, QueueJobs, AllJobs
<1>2. SlotOnWalk(slot[s], requested)
  BY DEF CrawlInv
<1>3. /\ MaxPages # 0 /\ j.page \in 1..Len(Pages) /\ j.at = Pages[j.page]
      /\ j.processed = Len(ProductsTo(j.page - 1))
      /\ slot[s].enqueued <= Len(ProductsOn[j.at])
      /\ First(j.processed + slot[s].enqueued) \subseteq requested
  BY <1>1, <1>2 DEF SlotOnWalk, OnWalk
<1>4. /\ Len(ProductsOn[j.at]) \in Nat
      /\ j.processed + Len(ProductsOn[j.at]) = Len(ProductsTo(j.page))
      /\ j.processed + Len(ProductsOn[j.at]) <= Len(AllProducts)
      /\ \A i \in 1..Len(ProductsOn[j.at]) : AllProducts[j.processed + i] = ProductsOn[j.at][i]
  <2> HIDE DEF j
  <2> DEFINE k == j.page
             before == Len(ProductsTo(k - 1))
             page == ProductsOn[Pages[k]]
  <2>1. /\ Len(page) \in Nat
        /\ before + Len(page) = Len(ProductsTo(k))
        /\ before + Len(page) <= Len(AllProducts)
        /\ \A i \in 1..Len(page) : AllProducts[before + i] = page[i]
    BY <1>3, PageInTheWalk
  <2>2. page = ProductsOn[j.at] /\ before = j.processed
    BY <1>3
  <2> HIDE DEF k, before, page
  <2>3. QED
    BY <2>1, <2>2 DEF k
<1>5. j.at \in Listings
  BY <1>1 DEF QueueJobs
<1>6. QED
  BY <1>1, <1>3, <1>4, <1>5 DEF Done

(* The next product of the page is the next one of the walk.                  *)
LEMMA EnqueueCrawls ==
  ASSUME IInv, CrawlInv, NEW s \in Slots, EnqueueProduct(s)
  PROVE  CrawlInv'
<1> DEFINE j == slot[s].job
           page == ProductsOn[j.at]
           i == slot[s].enqueued + 1
<1>1. /\ slot[s].step = "enqueue" /\ i <= Len(page) /\ Done(s) < MaxProducts
      /\ queue' = Append(queue, IngestJob(page[i]))
      /\ slot' = [slot EXCEPT ![s].enqueued = i]
      /\ requested' = requested \cup {page[i]}
  BY DEF EnqueueProduct
<1>2. /\ slot[s] \in SlotRecords /\ j.kind = "crawl" /\ j.at \in Listings
      /\ MaxPages # 0 /\ j.processed \in Nat /\ slot[s].enqueued \in Nat /\ Len(page) \in Nat
      /\ j.processed + Len(page) <= Len(AllProducts)
      /\ \A k \in 1..Len(page) : AllProducts[j.processed + k] = page[k]
      /\ Done(s) = j.processed + slot[s].enqueued
      /\ First(Done(s)) \subseteq requested
  BY <1>1, CrawlRecord DEF CrawlSteps
<1>3. /\ MaxProducts \in Nat /\ Len(AllProducts) \in Nat
      /\ j.processed \in Nat /\ slot[s].enqueued \in Nat /\ Len(page) \in Nat
      /\ j.processed + Len(page) <= Len(AllProducts)
      /\ Done(s) = j.processed + slot[s].enqueued
      /\ i <= Len(page) /\ Done(s) < MaxProducts /\ i = slot[s].enqueued + 1
  BY <1>1, <1>2, WalkAssumption, WalkedProducts
<1>4. i \in 1..Len(page) /\ page[i] = AllProducts[j.processed + i] /\ page[i] \in Products
  <2>1. i \in 1..Len(page)
    BY <1>1, <1>2
  <2>2. QED
    BY <1>2, <2>1, CatalogueAssumption, ElementOfSeq
<1>5. /\ slot'[s].job = j /\ slot'[s].enqueued = i /\ slot'[s].step = "enqueue"
      /\ \A t \in Slots \ {s} : slot'[t] = slot[t]
  BY <1>1, <1>2 DEF IInv, SlotRecords
<1>6. Range(queue') = Range(queue) \cup {IngestJob(page[i])}
  <2>1. IngestJob(page[i]) \in QueueJobs
    BY <1>4 DEF IngestJob, QueueJobs, AllJobs
  <2>2. QED
    BY <1>1, <2>1, RangeOfAppend DEF IInv
<1> HIDE DEF i, page, j
<1>7. page[i] \in Walked
  <2>1. j.processed + i \in 1..Len(AllProducts) /\ j.processed + i <= MaxProducts
    BY <1>3
  <2>2. QED
    BY <1>4, <2>1, WalkedProducts
<1>8. First(j.processed + i) \subseteq requested'
  <2>1. 1..(j.processed + i) = (1..Done(s)) \cup {j.processed + i}
    <3>1. j.processed + i = Done(s) + 1 /\ Done(s) \in Nat
      BY <1>3
    <3>2. 1..(Done(s) + 1) = (1..Done(s)) \cup {Done(s) + 1}
      BY <3>1
    <3>3. QED
      BY <3>1, <3>2
  <2>2. First(j.processed + i) = First(Done(s)) \cup {AllProducts[j.processed + i]}
    BY <2>1 DEF First
  <2>3. QED
    BY <1>1, <1>2, <1>4, <2>2
<1>9. SlotOnWalk(slot'[s], requested')
  <2>1. OnWalk(j, requested')
    <3>1. OnWalk(j, requested) /\ requested \subseteq requested'
      BY <1>1 DEF CrawlInv, SlotOnWalk, j
    <3>2. QED
      BY <3>1, OnWalkGrows
  <2>2. i <= Len(ProductsOn[j.at])
    BY <1>1 DEF page
  <2>3. QED
    BY <1>2, <1>5, <1>8, <2>1, <2>2 DEF SlotOnWalk
<1>10. Covered'
  BY <1>2, <1>5 DEF Covered, Crawling
<1>11. requested \subseteq requested' /\ requested' \subseteq Walked
  BY <1>1, <1>7 DEF CrawlInv
<1>12. OnWalk(IngestJob(page[i]), requested')
  BY DEF OnWalk, IngestJob
<1>13. QED
  BY <1>5, <1>6, <1>9, <1>10, <1>11, <1>12, CrawlStep

(* A crawl ends its page: the next page continues the walk, or nothing is     *)
(* left of it.                                                                 *)
LEMMA PageEndCrawls ==
  ASSUME IInv, CrawlInv, NEW s \in Slots, EndCrawlPage(s)
  PROVE  CrawlInv'
<1> DEFINE j == slot[s].job
           page == ProductsOn[j.at]
           more == NextOf[j.at] # None /\ j.page < MaxPages /\ Done(s) < MaxProducts
           next == CrawlJob(NextOf[j.at], j.page + 1, Done(s))
<1>1. /\ slot[s].step = "enqueue" /\ UNCHANGED <<requested, lost>>
      /\ slot' = [slot EXCEPT ![s] = Idle]
      /\ slot[s].enqueued < Len(page) => Done(s) >= MaxProducts
      /\ queue' = IF slot[s].enqueued < Len(page) THEN queue
                  ELSE IF more THEN Append(queue, next) ELSE queue
  BY DEF EndCrawlPage, NextPage, historyVars
<1>2. /\ slot[s] \in SlotRecords /\ j \in QueueJobs /\ j.kind = "crawl" /\ j.at \in Listings
      /\ MaxPages # 0 /\ j.page \in 1..Len(Pages) /\ j.at = Pages[j.page]
      /\ j.processed \in Nat /\ slot[s].enqueued \in Nat /\ Len(page) \in Nat
      /\ j.processed + Len(page) = Len(ProductsTo(j.page))
      /\ slot[s].enqueued <= Len(page)
      /\ Done(s) = j.processed + slot[s].enqueued
      /\ First(Done(s)) \subseteq requested
  BY <1>1, CrawlRecord DEF CrawlSteps
<1>3. /\ IsWalk(Pages, MaxPages) /\ MaxProducts \in Nat /\ MaxPages \in Nat
      /\ Len(AllProducts) \in Nat /\ queue \in Seq(QueueJobs)
  BY <1>2, PagesAreTheWalk, WalkedProducts, WalkAssumption DEF IInv
<1>4. Pages \in Seq(Listings) /\ Len(Pages) \in 1..MaxPages
  BY <1>3 DEF IsWalk
<1>5. \A k \in 1..Len(Pages) : k # 1 => Pages[k] = NextOf[Pages[k - 1]] /\ Pages[k] # None
  BY <1>3 DEF IsWalk
<1>6. Len(Pages) = MaxPages \/ NextOf[Pages[Len(Pages)]] = None
  BY <1>3 DEF IsWalk
<1>7. j.page \in 1..Len(Pages) /\ j.at = Pages[j.page] /\ Len(Pages) \in Nat
  BY <1>2, <1>4
<1>8. slot'[s] = Idle /\ \A t \in Slots \ {s} : slot'[t] = slot[t]
  BY <1>1 DEF IInv
<1>9. requested' \subseteq Walked
  BY <1>1 DEF CrawlInv
<1>10. CASE slot[s].enqueued < Len(page) \/ ~more
  <2>1. queue' = queue
    BY <1>1, <1>10
  <2>2. Done(s) >= MaxProducts \/ Done(s) >= Len(AllProducts)
    <3>1. CASE slot[s].enqueued < Len(page) \/ ~(Done(s) < MaxProducts)
      BY <1>1, <1>2, <1>3, <3>1
    <3>2. CASE slot[s].enqueued = Len(page) /\ (NextOf[j.at] = None \/ ~(j.page < MaxPages))
      <4>1. j.page = Len(Pages)
        <5>1. CASE ~(j.page < MaxPages)
          BY <1>2, <1>3, <1>4, <5>1
        <5>2. CASE NextOf[j.at] = None
          <6>1. SUFFICES ASSUME j.page # Len(Pages) PROVE FALSE
            OBVIOUS
          <6>2. j.page + 1 \in 1..Len(Pages) /\ j.page + 1 # 1 /\ (j.page + 1) - 1 = j.page
            BY <1>7, <6>1
          <6>3. Pages[j.page + 1] = NextOf[Pages[j.page]] /\ Pages[j.page + 1] # None
            BY <1>5, <6>2, Zenon
          <6>4. QED
            BY <1>2, <5>2, <6>3
        <5>3. QED
          BY <3>2, <5>1, <5>2
      <4>2. AllProducts = ProductsTo(j.page)
        BY <4>1, ProductsPageByPage
      <4>3. QED
        BY <1>2, <1>3, <3>2, <4>2
    <3>3. QED
      BY <1>2, <1>10, <3>1, <3>2
  <2>3. Walked \subseteq requested'
    <3>1. Done(s) \in Nat
      BY <1>2
    <3>2. Walked \subseteq First(Done(s))
      BY <2>2, <3>1, WalkedProducts
    <3>3. QED
      BY <1>1, <1>2, <3>2
  <2>4. Covered'
    BY <2>3 DEF Covered
  <2>5. QED
    BY <1>1, <1>8, <1>9, <2>1, <2>4, IdleOnWalk, CrawlStep
<1>11. CASE slot[s].enqueued = Len(page) /\ more
  <2>1. queue' = Append(queue, next)
    <3>1. ~(slot[s].enqueued < Len(page))
      BY <1>2, <1>11
    <3> HIDE DEF next, more
    <3>2. QED
      BY <1>1, <1>11, <3>1
  <2>2. NextOf[j.at] \in Listings /\ j.page + 1 \in Nat /\ Done(s) \in Nat
    BY <1>2, <1>11, WalkAssumption
  <2>3. next \in QueueJobs /\ next.kind = "crawl" /\ next.at = NextOf[j.at]
        /\ next.page = j.page + 1 /\ next.processed = Done(s)
    BY <2>2 DEF CrawlJob, QueueJobs, AllJobs
  <2> HIDE DEF next
  <2>4. Range(queue') = Range(queue) \cup {next}
    BY <1>3, <2>1, <2>3, RangeOfAppend
  <2>5. j.page + 1 \in 1..Len(Pages) /\ j.page + 1 # 1 /\ (j.page + 1) - 1 = j.page
    <3>1. j.page # Len(Pages)
      <4>1. SUFFICES ASSUME j.page = Len(Pages) PROVE FALSE
        OBVIOUS
      <4>2. NextOf[Pages[Len(Pages)]] # None
        BY <1>7, <1>11, <4>1
      <4>3. Len(Pages) # MaxPages
        BY <1>4, <1>11, <4>1
      <4>4. QED
        BY <1>6, <4>2, <4>3
    <3>2. QED
      BY <1>7, <3>1
  <2>6. Pages[j.page + 1] = NextOf[j.at]
    BY <1>5, <1>7, <2>5, Zenon
  <2>7. Done(s) = Len(ProductsTo(j.page))
    BY <1>2, <1>11
  <2>8. OnWalk(next, requested')
    <3>1. /\ next.page \in 1..Len(Pages) /\ next.at = Pages[next.page]
          /\ next.processed = Len(ProductsTo(next.page - 1))
          /\ First(next.processed) \subseteq requested' /\ next.page >= 1
      BY <1>1, <1>2, <2>3, <2>5, <2>6, <2>7
    <3>2. QED
      BY <3>1 DEF OnWalk
  <2>9. Covered'
    BY <2>3, <2>4 DEF Covered, Crawling
  <2>10. QED
    BY <1>1, <1>8, <1>9, <2>4, <2>8, <2>9, IdleOnWalk, CrawlStep
<1>12. QED
  BY <1>2, <1>10, <1>11

(* A job that ends in an error: a crawl is lost with it.                      *)
LEMMA LostCrawls ==
  ASSUME IInv, CrawlInv, NEW s \in Slots, slot[s].step # "idle",
         slot' = [slot EXCEPT ![s] = Idle], lost' = lost \cup {slot[s].job.at},
         UNCHANGED <<queue, requested>>
  PROVE  CrawlInv'
<1>1. slot'[s] = Idle /\ \A t \in Slots \ {s} : slot'[t] = slot[t]
  BY DEF IInv
<1>2. slot[s].job.kind = "crawl" => slot[s].job.at \in Listings
  BY SlotRecord DEF Fits, ShapeFits, QueueJobs
<1>3. slot[s].job.kind = "crawl" => Covered'
  BY <1>2 DEF Covered
<1>4. requested' # {} => Covered'
  BY <1>1, <1>3, StaysCovered
<1>5. requested' \subseteq Walked
  BY DEF CrawlInv
<1>6. QED
  BY <1>1, <1>4, <1>5, IdleOnWalk, CrawlStep

(* The listing page arrives, or it does not.                                  *)
LEMMA ListCrawls ==
  ASSUME IInv, CrawlInv, NEW s \in Slots, List(s)
  PROVE  CrawlInv'
<1>1. CASE Fail(s)
  BY <1>1, LostCrawls DEF List, Fail
<1>2. CASE Goto(s, "enqueue") /\ UNCHANGED <<queue, dbVars, requests, faults, downloads, historyVars>>
  <2>1. /\ slot' = [slot EXCEPT ![s].step = "enqueue"]
        /\ UNCHANGED <<queue, requested, lost>>
    BY <1>2 DEF Goto, historyVars
  <2>2. /\ slot[s] \in SlotRecords /\ slot[s].job.kind = "crawl"
        /\ SlotOnWalk(slot[s], requested)
    BY SlotRecord DEF List, Fits, ShapeFits, CrawlSteps, CrawlInv
  <2>3. /\ slot'[s].job = slot[s].job /\ slot'[s].enqueued = slot[s].enqueued
        /\ slot'[s].step = "enqueue"
        /\ \A t \in Slots \ {s} : slot'[t] = slot[t]
    BY <2>1, <2>2 DEF IInv, SlotRecords
  <2>4. SlotOnWalk(slot'[s], requested')
    BY <2>1, <2>2, <2>3 DEF SlotOnWalk
  <2>5. Covered'
    BY <2>2, <2>3 DEF Covered, Crawling
  <2>6. requested' \subseteq Walked
    BY <2>1 DEF CrawlInv
  <2>7. QED
    BY <2>1, <2>3, <2>4, <2>5, <2>6, CrawlStep
<1>3. QED
  BY <1>1, <1>2 DEF List

(* An ingest leaves the crawls alone.                                         *)
LEMMA IngestStepCrawls ==
  ASSUME IInv, CrawlInv, NEW s \in Slots, slot[s].step \in IngestSteps,
         \A t \in Slots \ {s} : slot'[t] = slot[t], slot'[s].job.kind # "crawl",
         UNCHANGED <<queue, requested, lost>>
  PROVE  CrawlInv'
<1>1. slot[s].job.kind # "crawl"
  BY IngestRecord
<1>2. requested' # {} => Covered'
  BY <1>1, StaysCovered
<1>3. SlotOnWalk(slot'[s], requested')
  BY DEF SlotOnWalk, OnWalk
<1>4. requested' \subseteq Walked
  BY DEF CrawlInv
<1>5. QED
  BY <1>2, <1>3, <1>4, CrawlStep

(* The steps of an ingest.                                                    *)
LEMMA IngestCrawls ==
  ASSUME IInv, CrawlInv, NEW s \in Slots,
         \/ FetchProduct(s) \/ AddBrand(s) \/ AddLine(s) \/ AddCigar(s)
         \/ FindPackage(s) \/ AddPackage(s) \/ RefreshPackage(s) \/ FindAsset(s)
         \/ Commit(s) \/ Announce(s)
  PROVE  CrawlInv'
<1>1. slot[s].step \in IngestSteps
  BY DEF FetchProduct, AddBrand, AddLine, AddCigar, FindPackage, AddPackage, RefreshPackage,
         FindAsset, Commit, Announce, IngestSteps, Steps
<1>2. slot[s] \in SlotRecords /\ slot[s].job.kind # "crawl" /\ slot[s].step # "idle"
  BY <1>1, SlotRecord, IngestRecord DEF IngestSteps
<1>3. slot \in [Slots -> SlotRecords] /\ DOMAIN slot = Slots
  BY DEF IInv
<1>4. CASE Fail(s)
  BY <1>2, <1>4, LostCrawls DEF Fail
<1>5. CASE /\ UNCHANGED <<queue, requested, lost>>
           /\ \A t \in Slots \ {s} : slot'[t] = slot[t]
           /\ slot'[s].job.kind = slot[s].job.kind
  BY <1>1, <1>2, <1>5, IngestStepCrawls
<1>6. CASE Announce(s)
  <2>1. slot'[s] = Idle /\ (\A t \in Slots \ {s} : slot'[t] = slot[t])
        /\ UNCHANGED <<queue, requested, lost>>
    BY <1>3, <1>6 DEF Announce
  <2>2. QED
    BY <1>1, <2>1, IdleOnWalk, IngestStepCrawls
<1>7. CASE FetchProduct(s) /\ ~Fail(s)
  <2>1. PICK i : /\ slot' = [slot EXCEPT ![s].step = "brand", ![s].image = i]
                 /\ UNCHANGED <<queue, requested, lost>>
    BY <1>7 DEF FetchProduct, historyVars
  <2>2. /\ slot'[s].job = slot[s].job
        /\ \A t \in Slots \ {s} : slot'[t] = slot[t]
    BY <1>2, <1>3, <2>1 DEF SlotRecords
  <2>3. QED
    BY <1>5, <2>1, <2>2
<1>8. ASSUME NEW k, NEW next, InsertOrFind(s, k, next) PROVE CrawlInv'
  <2>1. /\ UNCHANGED <<queue, requested, lost>>
        /\ slot'[s].job = slot[s].job
        /\ \A t \in Slots \ {s} : slot'[t] = slot[t]
    BY <1>2, <1>3, <1>8 DEF InsertOrFind, historyVars, SlotRecords
  <2>2. QED
    BY <1>5, <2>1
<1>9. CASE FindPackage(s)
  <2>1. /\ UNCHANGED <<queue, requested, lost>>
        /\ slot'[s].job = slot[s].job
        /\ \A t \in Slots \ {s} : slot'[t] = slot[t]
    BY <1>2, <1>3, <1>9 DEF FindPackage, Goto, historyVars, SlotRecords
  <2>2. QED
    BY <1>5, <2>1
<1>10. CASE (AddPackage(s) \/ RefreshPackage(s)) /\ ~Fail(s)
  <2>1. /\ UNCHANGED <<queue, requested, lost>>
        /\ slot'[s].job = slot[s].job
        /\ \A t \in Slots \ {s} : slot'[t] = slot[t]
    BY <1>2, <1>3, <1>10 DEF AddPackage, RefreshPackage, historyVars, SlotRecords
  <2>2. QED
    BY <1>5, <2>1
<1>11. CASE FindAsset(s) /\ ~Fail(s)
  <2>1. /\ UNCHANGED <<queue, requested, lost>>
        /\ slot'[s].job = slot[s].job
        /\ \A t \in Slots \ {s} : slot'[t] = slot[t]
    BY <1>2, <1>3, <1>11 DEF FindAsset, historyVars, SlotRecords
  <2>2. QED
    BY <1>5, <2>1
<1>12. CASE Commit(s)
  <2>1. /\ UNCHANGED <<queue, requested, lost>>
        /\ slot'[s].job = slot[s].job
        /\ \A t \in Slots \ {s} : slot'[t] = slot[t]
    BY <1>2, <1>3, <1>12 DEF Commit, historyVars, SlotRecords
  <2>2. QED
    BY <1>5, <2>1
<1>13. QED
  BY <1>4, <1>6, <1>7, <1>8, <1>9, <1>10, <1>11, <1>12 DEF AddBrand, AddLine, AddCigar

(* A job that is cut short is queued again, or its crawl is lost.             *)
LEMMA CutCrawls ==
  ASSUME IInv, CrawlInv, NEW s \in Slots, Stop(s) \/ Timeout(s)
  PROVE  CrawlInv'
<1> DEFINE j == slot[s].job
<1>1. /\ slot[s].step # "idle" /\ slot' = [slot EXCEPT ![s] = Idle] /\ requested' = requested
  BY DEF Stop, Timeout, Cut
<1>2. CASE Timeout(s)
  BY <1>1, <1>2, LostCrawls DEF Timeout
<1>3. CASE Stop(s)
  <2>1. queue' = <<j>> \o queue /\ lost' = lost
    BY <1>3 DEF Stop
  <2>2. j \in QueueJobs /\ queue \in Seq(QueueJobs)
    BY <1>1, SlotRecord DEF Fits, ShapeFits, IInv
  <2>3. slot'[s] = Idle /\ \A t \in Slots \ {s} : slot'[t] = slot[t]
    BY <1>1 DEF IInv
  <2>4. OnWalk(j, requested')
    BY <1>1 DEF CrawlInv, SlotOnWalk
  <2>5. Range(queue') = Range(queue) \cup {j}
    <3> HIDE DEF j
    <3>1. QED
      BY <2>1, <2>2, RangeOfPrepend
  <2>6. j.kind = "crawl" => Covered'
    BY <2>5 DEF Covered, Crawling
  <2>7. requested' # {} => Covered'
    BY <1>1, <2>1, <2>3, <2>5, <2>6, StaysCovered
  <2>8. requested' \subseteq Walked
    BY <1>1 DEF CrawlInv
  <2> HIDE DEF j
  <2>9. QED
    BY <1>1, <2>3, <2>4, <2>5, <2>7, <2>8, IdleOnWalk, CrawlStep
<1>4. QED
  BY <1>2, <1>3

(* Every step keeps the crawls on the walk.                                   *)
LEMMA NextCrawlInv == IInv /\ CrawlInv /\ [Next]_vars => CrawlInv'
<1> SUFFICES ASSUME IInv, CrawlInv, [Next]_vars PROVE CrawlInv'
  OBVIOUS
<1>1. CASE Request
  BY <1>1, RequestCrawls
<1>2. ASSUME NEW s \in Slots, Progress(s)
      PROVE  CrawlInv'
  BY <1>2, BeginCrawls, ListCrawls, EnqueueCrawls, PageEndCrawls, IngestCrawls DEF Progress
<1>3. ASSUME NEW s \in Slots, Stop(s) \/ Timeout(s)
      PROVE  CrawlInv'
  BY <1>3, CutCrawls
<1>4. CASE UNCHANGED vars
  BY <1>4 DEF vars, historyVars, CrawlInv, Covered, Crawling
<1>5. QED
  BY <1>1, <1>2, <1>3, <1>4 DEF Next

(* However the pages' jobs interleave, are repeated after a stop, or loop     *)
(* back to an earlier page, the products asked for are those of a plain walk   *)
(* of the category, and all of them once no crawl is under way that was not    *)
(* lost (jobs.py:89-160).                                                       *)
THEOREM CrawlsFollowTheWalk == Spec => []CrawlFollowsTheWalk
<1>1. Init => CrawlInv
  BY InitCrawlInv
<1>2. IInv /\ CrawlInv /\ [Next]_vars => CrawlInv'
  BY NextCrawlInv
<1>3. IInv /\ CrawlInv => CrawlFollowsTheWalk
  <2> SUFFICES ASSUME IInv, CrawlInv, requested # {}, CrawlOver, lost \cap Listings = {}
               PROVE  Walked \subseteq requested
    BY DEF CrawlInv, CrawlFollowsTheWalk
  <2>1. \A j \in Range(queue) : j.kind # "crawl"
    BY RangeEquality DEF CrawlOver, IInv
  <2>2. ~Crawling
    BY <2>1 DEF CrawlOver, Crawling
  <2>3. QED
    BY <2>2 DEF CrawlInv, Covered
<1>4. QED
  BY <1>1, <1>2, <1>3, SpecIInv, PTL DEF Spec
=============================================================================
