------------------------------ MODULE Catalogue ------------------------------
(***************************************************************************)
(* The product catalogue: crawl_listing_job walks a category page by page and  *)
(* enqueues one ingest_product_job per product; each ingest writes brand,        *)
(* line, cigar, audit record, package and media asset in one transaction and      *)
(* then enqueues the downloads of the cigar's pending assets.  Ingests of pages    *)
(* that share a cigar run side by side: an insert of a key that another open       *)
(* transaction has inserted waits for that transaction.                              *)
(***************************************************************************)
EXTENDS Naturals, Sequences, SequencesExt, CrawlWalk

CONSTANTS
    Slots,        \* job slots of the workers
    Products,     \* product page URLs
    Path,         \* [Products -> <<brand, line, cigar>>]: the slugs the page maps to
    ImagesOf,     \* [Products -> the image URLs, or None, a page may show]
    HasPack,      \* [Products -> BOOLEAN]: the page shows a pack size
    MaxRequests,  \* bound: crawls and single ingests asked for
    MaxFaults     \* bound: worker stops and timeouts

ASSUME CatalogueAssumption ==
    /\ MaxRequests \in Nat /\ MaxFaults \in Nat
    /\ DOMAIN Path = Products /\ DOMAIN ImagesOf = Products
    /\ HasPack \in [Products -> BOOLEAN]
    /\ \A l \in Listings : ProductsOn[l] \in Seq(Products)

VARIABLES
    queue,      \* the jobs waiting, oldest first
    slot,       \* what each slot is doing, with its open transaction
    rows,       \* committed keys of brand, cigar_line, cigar and cigar_package
    assets,     \* committed media_asset rows per cigar and image
    requests,   \* requests so far
    faults,     \* faults so far
    audited,    \* pages and what they showed, of the committed source_records
    downloads,  \* assets whose download has been enqueued
    requested,  \* history: products a crawl has enqueued
    ingested,   \* history: pages, as they were shown, of which an ingest has returned
    lost        \* history: products and listings whose job ended in an error

dbVars == <<rows, assets, audited>>
historyVars == <<requested, ingested, lost>>
vars == <<queue, slot, dbVars, requests, faults, downloads, historyVars>>

Cigar(p) == Path[p][3]
PackageKey(p) == <<Cigar(p), p>>
\* A key names its table: a cigar is no brand, line or package.
ASSUME KeysAssumption ==
    \A p \in Products :
        /\ DOMAIN Path[p] = 1..3
        /\ \A q \in Products : Cigar(p) \notin {Path[q][1], Path[q][2]}
                             /\ PackageKey(p) \notin Range(Path[q])

AssetKeys == UNION {{<<Cigar(p), i>> : i \in ImagesOf[p] \ {None}} : p \in Products}
AllKeys == UNION {Range(Path[p]) \union {PackageKey(p)} : p \in Products}

IngestJob(p) == [kind |-> "ingest", at |-> p, page |-> 0, processed |-> 0]
CrawlJob(l, n, done) == [kind |-> "crawl", at |-> l, page |-> n, processed |-> done]
NoJob == [kind |-> "none", at |-> None, page |-> 0, processed |-> 0]

\* A slot: its step, its job, the products it has enqueued from the page, the
\* image the page showed, the keys its transaction has inserted or updated, and
\* whether it adds an asset.
Idle == [step |-> "idle", job |-> NoJob, enqueued |-> 0, image |-> None, own |-> {},
         adds |-> FALSE]
AssetKey(s) == <<Cigar(slot[s].job.at), slot[s].image>>
Steps == {"idle", "list", "enqueue", "fetch", "brand", "line", "cigar", "package",
          "add", "refresh", "media", "commit", "announce"}

Init ==
    /\ queue = <<>>
    /\ slot = [s \in Slots |-> Idle]
    /\ rows = {}
    /\ assets = [k \in AssetKeys |-> 0]
    /\ requests = 0 /\ faults = 0
    /\ audited = {} /\ downloads = {}
    /\ requested = {} /\ ingested = {} /\ lost = {}

-----------------------------------------------------------------------------
(* Requests and the slots.                                                  *)

\* enqueue-crawl and enqueue-ingest of the CLI, and the admin endpoints.
Request ==
    /\ requests < MaxRequests
    /\ requests' = requests + 1
    /\ \/ queue' = Append(queue, CrawlJob(StartListing, 1, 0))
       \/ \E p \in Products : queue' = Append(queue, IngestJob(p))
    /\ UNCHANGED <<slot, dbVars, faults, downloads, historyVars>>

\* A slot takes the oldest job.  A crawl past its last page ends at once.
Begin(s) ==
    /\ slot[s].step = "idle" /\ queue # <<>>
    /\ queue' = Tail(queue)
    /\ LET j == Head(queue) IN
       slot' = IF j.kind = "crawl" /\ j.page > MaxPages THEN slot
               ELSE [slot EXCEPT ![s] = [Idle EXCEPT
                        !.job = j,
                        !.step = IF j.kind = "crawl" THEN "list" ELSE "fetch"]]
    /\ UNCHANGED <<dbVars, requests, faults, downloads, historyVars>>

Goto(s, step) == slot' = [slot EXCEPT ![s].step = step]

\* The job raises: its transaction is rolled back and arq does not run it again.
Fail(s) ==
    /\ slot' = [slot EXCEPT ![s] = Idle]
    /\ lost' = lost \union {slot[s].job.at}
    /\ UNCHANGED <<queue, dbVars, requests, faults, downloads, requested, ingested>>

-----------------------------------------------------------------------------
(* crawl_listing_job.                                                       *)

\* The listing page is fetched and parsed, or the fetch fails.
List(s) ==
    /\ slot[s].step = "list"
    /\ \/ /\ Goto(s, "enqueue")
          /\ UNCHANGED <<queue, dbVars, requests, faults, downloads, historyVars>>
       \/ Fail(s)

Done(s) == slot[s].job.processed + slot[s].enqueued

\* One product of the page, while the limit allows it.
EnqueueProduct(s) ==
    LET page == ProductsOn[slot[s].job.at]
        i == slot[s].enqueued + 1
    IN
    /\ slot[s].step = "enqueue"
    /\ i <= Len(page) /\ Done(s) < MaxProducts
    /\ queue' = Append(queue, IngestJob(page[i]))
    /\ slot' = [slot EXCEPT ![s].enqueued = i]
    /\ requested' = requested \union {page[i]}
    /\ UNCHANGED <<dbVars, requests, faults, downloads, ingested, lost>>

\* Mutation: the next page is told of the products of this page only.
NextPageForgets(s) ==
    LET j == slot[s].job IN
    IF NextOf[j.at] # None /\ j.page < MaxPages /\ Done(s) < MaxProducts
    THEN Append(queue, CrawlJob(NextOf[j.at], j.page + 1, slot[s].enqueued))
    ELSE queue

\* The queue after the last product of a page: the next page is a new job that
\* carries the page number and the count.
NextPage(s) ==
    LET j == slot[s].job IN
    IF NextOf[j.at] # None /\ j.page < MaxPages /\ Done(s) < MaxProducts
    THEN Append(queue, CrawlJob(NextOf[j.at], j.page + 1, Done(s)))
    ELSE queue

\* The end of the page, or of the limit.
EndCrawlPage(s) ==
    LET page == ProductsOn[slot[s].job.at]
        limited == slot[s].enqueued < Len(page)
    IN
    /\ slot[s].step = "enqueue"
    /\ limited => Done(s) >= MaxProducts
    /\ queue' = IF limited THEN queue ELSE NextPage(s)
    /\ slot' = [slot EXCEPT ![s] = Idle]
    /\ UNCHANGED <<dbVars, requests, faults, downloads, historyVars>>

-----------------------------------------------------------------------------
(* ingest_product_job.                                                      *)

\* The page is fetched and parsed; a fetch error, a page without a title or
\* without a brand ends the job.
FetchProduct(s) ==
    /\ slot[s].step = "fetch"
    /\ \/ /\ \E i \in ImagesOf[slot[s].job.at] :
                slot' = [slot EXCEPT ![s].step = "brand", ![s].image = i]
          /\ UNCHANGED <<queue, dbVars, requests, faults, downloads, historyVars>>
       \/ Fail(s)

Others(s) == UNION {slot[t].own : t \in Slots \ {s}}

\* Mutation: a key that another transaction is inserting counts as found.
InsertWithoutWaiting(s, k, next) ==
    /\ slot' = [slot EXCEPT
          ![s].own = IF k \in rows \union Others(s) THEN @ ELSE @ \union {k},
          ![s].step = next]
    /\ UNCHANGED <<queue, dbVars, requests, faults, downloads, historyVars>>

\* get_by_slug, then INSERT ... ON CONFLICT DO NOTHING and get_by_slug again: the
\* insert waits for a transaction that has inserted the key, and the row is found
\* if that one commits and inserted if it rolls back.
InsertOrFind(s, k, next) ==
    /\ k \notin Others(s)
    /\ slot' = [slot EXCEPT
          ![s].own = IF k \in rows THEN @ ELSE @ \union {k},
          ![s].step = next]
    /\ UNCHANGED <<queue, dbVars, requests, faults, downloads, historyVars>>

AddBrand(s) == slot[s].step = "brand" /\ InsertOrFind(s, Path[slot[s].job.at][1], "line")
AddLine(s) == slot[s].step = "line" /\ InsertOrFind(s, Path[slot[s].job.at][2], "cigar")

\* The cigar with its blend, and the source record of the page.
AddCigar(s) == slot[s].step = "cigar" /\ InsertOrFind(s, Cigar(slot[s].job.at), "package")

\* A page without a pack size has no package; else the package is looked up.
FindPackage(s) ==
    LET p == slot[s].job.at IN
    /\ slot[s].step = "package"
    /\ Goto(s, IF ~HasPack[p] THEN "media"
               ELSE IF PackageKey(p) \in rows THEN "refresh" ELSE "add")
    /\ UNCHANGED <<queue, dbVars, requests, faults, downloads, historyVars>>

\* A plain INSERT: it waits for another one of the same key and is refused by
\* the unique constraint when that one has committed.
AddPackage(s) ==
    LET k == PackageKey(slot[s].job.at) IN
    /\ slot[s].step = "add"
    /\ k \notin Others(s)
    /\ IF k \in rows
       THEN Fail(s)
       ELSE /\ slot' = [slot EXCEPT ![s].own = @ \union {k}, ![s].step = "media"]
            /\ UNCHANGED <<queue, dbVars, requests, faults, downloads, historyVars>>

\* The UPDATE of the price, the sku and last_seen_at locks the row.
RefreshPackage(s) ==
    LET k == PackageKey(slot[s].job.at) IN
    /\ slot[s].step = "refresh"
    /\ k \notin Others(s)
    /\ slot' = [slot EXCEPT ![s].own = @ \union {k}, ![s].step = "media"]
    /\ UNCHANGED <<queue, dbVars, requests, faults, downloads, historyVars>>

\* The asset is looked up by cigar and URL: none, it is added; one, it is left;
\* several, scalar_one_or_none raises.
FindAsset(s) ==
    LET shown == slot[s].image # None IN
    /\ slot[s].step = "media"
    /\ IF shown /\ assets[AssetKey(s)] > 1
       THEN Fail(s)
       ELSE /\ slot' = [slot EXCEPT ![s].adds = shown /\ assets[AssetKey(s)] = 0,
                                    ![s].step = "commit"]
            /\ UNCHANGED <<queue, dbVars, requests, faults, downloads, historyVars>>

\* Mutation: a commit that does not carry the source record.
CommitUnaudited(s) ==
    /\ slot[s].step = "commit"
    /\ rows' = rows \union slot[s].own
    /\ assets' = IF slot[s].adds THEN [assets EXCEPT ![AssetKey(s)] = @ + 1] ELSE assets
    /\ slot' = [slot EXCEPT ![s].step = "announce", ![s].own = {}, ![s].adds = FALSE]
    /\ UNCHANGED <<queue, audited, requests, faults, downloads, historyVars>>

\* uow.commit: everything the transaction has written becomes visible at once.
Commit(s) ==
    /\ slot[s].step = "commit"
    /\ rows' = rows \union slot[s].own
    /\ assets' = IF slot[s].adds THEN [assets EXCEPT ![AssetKey(s)] = @ + 1] ELSE assets
    /\ audited' = audited \union {<<slot[s].job.at, slot[s].image>>}
    /\ slot' = [slot EXCEPT ![s].step = "announce", ![s].own = {}, ![s].adds = FALSE]
    /\ UNCHANGED <<queue, requests, faults, downloads, historyVars>>

\* The assets of the cigar that wait for a download.  Those that are no longer
\* pending have been announced before.
PendingOf(c) == {k \in AssetKeys : k[1] = c /\ assets[k] > 0}

\* After the commit, in a transaction of its own: a job per pending asset.
Announce(s) ==
    LET p == slot[s].job.at IN
    /\ slot[s].step = "announce"
    /\ downloads' = downloads \union PendingOf(Cigar(p))
    /\ ingested' = ingested \union {<<p, slot[s].image>>}
    /\ slot' = [slot EXCEPT ![s] = Idle]
    /\ UNCHANGED <<queue, dbVars, requests, faults, requested, lost>>

-----------------------------------------------------------------------------
(* Faults.                                                                  *)

\* Mutation: the transaction of a job that is cut short stays open.
CutKeepsItsRows(s) ==
    /\ slot[s].step # "idle"
    /\ faults < MaxFaults
    /\ faults' = faults + 1
    /\ slot' = [slot EXCEPT ![s] = [Idle EXCEPT !.own = slot[s].own]]
    /\ UNCHANGED <<dbVars, requests, downloads, requested, ingested>>

\* A job is cut short: its transaction is rolled back, and some of its assets may
\* have been announced.
Cut(s) ==
    /\ slot[s].step # "idle"
    /\ faults < MaxFaults
    /\ faults' = faults + 1
    /\ slot' = [slot EXCEPT ![s] = Idle]
    /\ IF slot[s].step = "announce"
       THEN \E D \in SUBSET PendingOf(Cigar(slot[s].job.at)) : downloads' = downloads \union D
       ELSE UNCHANGED downloads
    /\ UNCHANGED <<dbVars, requests, requested, ingested>>

\* Mutation: a job is acknowledged when it starts.
StopForgets(s) == Cut(s) /\ UNCHANGED <<queue, lost>>

\* The worker is stopped: the transaction is rolled back, arq runs the job again.
Stop(s) == Cut(s) /\ queue' = <<slot[s].job>> \o queue /\ UNCHANGED lost

\* job_timeout: the job is not run again.
Timeout(s) == Cut(s) /\ UNCHANGED queue /\ lost' = lost \union {slot[s].job.at}

Progress(s) ==
    \/ Begin(s) \/ List(s) \/ EnqueueProduct(s) \/ EndCrawlPage(s)
    \/ FetchProduct(s) \/ AddBrand(s) \/ AddLine(s) \/ AddCigar(s)
    \/ FindPackage(s) \/ AddPackage(s) \/ RefreshPackage(s) \/ FindAsset(s)
    \/ Commit(s) \/ Announce(s)

Next == Request \/ \E s \in Slots : Progress(s) \/ Stop(s) \/ Timeout(s)

\* The workers take jobs and drive them on; a lock that is released again and
\* again is granted at some time.
Fairness == \A s \in Slots : SF_vars(Progress(s))

Spec == Init /\ [][Next]_vars /\ Fairness

-----------------------------------------------------------------------------
(* Properties.                                                              *)

Shown == UNION {{<<p, i>> : i \in ImagesOf[p]} : p \in Products}
TypeOK ==
    /\ \A s \in Slots : slot[s].step \in Steps /\ slot[s].own \subseteq AllKeys
    /\ rows \subseteq AllKeys
    /\ assets \in [AssetKeys -> Nat]
    /\ audited \subseteq Shown /\ ingested \subseteq Shown
    /\ downloads \subseteq AssetKeys

\* However the pages' jobs interleave, are repeated after a stop, or loop back to
\* an earlier page, the products asked for are those of a plain walk of at most
\* MaxPages pages cut at MaxProducts; and all of them once no crawl is under way
\* that was not lost (jobs.py:89-160).
CrawlOver ==
    /\ \A i \in 1..Len(queue) : queue[i].kind # "crawl"
    /\ \A s \in Slots : slot[s].job.kind # "crawl"
CrawlFollowsTheWalk ==
    /\ requested \subseteq Walked
    /\ requested # {} /\ CrawlOver /\ lost \intersect Listings = {} => requested = Walked

\* When an ingest has returned, its brand, line, cigar, package and asset are
\* there, whichever transaction wrote them and whichever was rolled back
\* (ingest_product.py:100-208).
IngestedIsStored ==
    \A page \in ingested : LET p == page[1]  i == page[2] IN
        /\ Range(Path[p]) \subseteq rows
        /\ HasPack[p] => PackageKey(p) \in rows
        /\ i # None => assets[<<Cigar(p), i>>] > 0

\* Nothing is in the catalogue that no source record accounts for: a package has
\* the record of its page, a cigar and an asset the record of a page that shows
\* them (ingest_product.py:139-208, one transaction).
EverythingIsAudited ==
    /\ \A p \in Products :
          PackageKey(p) \in rows => \E r \in audited : r[1] = p
    /\ \A p \in Products :
          Cigar(p) \in rows => \E r \in audited : Cigar(r[1]) = Cigar(p)
    /\ \A k \in AssetKeys :
          assets[k] > 0 => \E r \in audited : k = <<Cigar(r[1]), r[2]>>

\* The jobs that are asked for come to an end: the waits of the transactions for
\* one another are never circular, a failed one lets the others go on, and a
\* category whose pages link in a circle does not keep the workers busy for ever.
JobsEnd == []<>(queue = <<>> /\ \A s \in Slots : slot[s].step = "idle")

\* An asset that was stored is handed to the downloads, through a stop between
\* the commit and the enqueue (jobs.py:58-74), unless the job timed out there.
AssetsAreAnnounced ==
    \A k \in AssetKeys :
        assets[k] > 0 ~> k \in downloads \/ \E p \in lost \intersect Products : Cigar(p) = k[1]

\* ingest_product.py:23: "MediaAsset deduped by (cigar_id, original_url)."
AssetsAreDeduped == \A k \in AssetKeys : assets[k] <= 1
=============================================================================
