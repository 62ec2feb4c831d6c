# TLA+ models of CigarSpace

TLA+ specifications of the parts of CigarSpace whose correctness depends on
order, concurrency and failure, with the TLC configurations that check them on
small instances and TLAPS proofs of their main properties for every instance.

Paths are relative to the root of the repository; the Python code is in
`src/`. `PROJECT.json` lists for every definition the lines it models, for
every property a plausible bug that breaks it, and the hazards with the
properties that would catch them.

## The system

CigarSpace crawls merchants for cigars, reads the tobacco prices that
regulators publish, and matches the two. A FastAPI process and a CLI put jobs
on an arq queue in Redis; a worker runs up to `max_jobs = 4` of them at a time,
and cron adds some. All shared state is in PostgreSQL. A job or a request opens
a unit of work, which is one transaction, rolled back unless it is committed.

| Component | State | Operations | What is hard | What makes it correct |
| --- | --- | --- | --- | --- |
| Customs pipeline: refresh and ingest | sources, publications, price entries, the queue | seed; cron, CLI and API requests; refresh: fetch, discover, insert, commit, enqueue; ingest: fetch, skip, extract, upsert, mark | refreshes and ingests that race, row locks and deadlocks, crash between commit and enqueue, stale reads | no publication lost, re-discovered or enqueued before its row; documents stored whole; hash and status agree |
| Customs discovery adapters, PISTE client | a cached token | an index page or a paged search to publications | a token that ends within a scan, repeats, missing numbers and dates | each publication of the index is reported, once |
| Customs extractors | none | a document (HTML, JSON, PDF, spreadsheet) to price entries | headers, joined lines, repeated cells, lists cut into tables and pages | every article, once, with its brand, price and dates |
| Matching pipeline | embeddings, match rows, the queue | build embeddings in batches; match one cigar: read, recall, score, upsert, commit; fan-out | runs that race with each other, with reviewers and with catalogue changes; approximate recall | one automatic match per bucket and run; score, status and bucket of one run; fan-outs complete |
| Review of matches | verdict columns of match rows | PATCH a verdict; list, read | a verdict between a matcher's read and its write, two reviewers at once | verdicts are never undone by a matcher; who and what agree |
| Product ingest and crawl | brands, lines, cigars, packages, assets, source records, the queue | ingest a page, crawl a listing that re-enqueues itself | open transactions that insert the same keys, interrupted or looping crawls | what was ingested is stored and audited, crawls bounded, images announced |
| Media download | assets, blobs, the bucket | fetch, validate, hash, insert the blob, upload, link | upload after the blob's commit, duplicates, repeated jobs | no object without a row, verdicts that last, one upload per image |
| Fetch stack | circuit, limiter, pins, robots cache and browser, in memory | fetch with retries; robots, tiers, profiles | cancelled tasks, results that arrive late, locks with a second look | permits, rates and circuits hold; excluded pages stay out; every fetch ends |
| Product parsers and extraction mapping | none | a page to a cigar, line and package; a category page to products and the next page | packs, units, missing attributes | one cigar per reference, however packed |
| Hybrid search, listings | none | two recalls and their fusion; pages and links | ties, limits, last pages | both branches count, each row is listed once |
| API sessions | refresh tokens | password and refresh grants, revoke | concurrent refreshes, what a failing request commits | a token is used once, reuse ends a session |
| Embedder, mappers, migrations, web pages | none of their own | reads and copies | | |

How they interact: a refresh enqueues one ingest job per publication; an ingest
writes the price entries that embedding jobs encode and matchers read; a product
ingest writes the cigars and packages that matchers read and enqueues media
downloads; reviewers change rows that matchers write. Everything else goes
through the database, so the models are about transactions.

## Modules

| Module | What it is |
| --- | --- |
| `CustomsPipeline` | sources, publications, price entries and the jobs that write them |
| `Scoring` | the score of a pair and the decision taken on it, as operators |
| `ReviewedMatches` | abstract specification: what readers of the match rows can rely on |
| `Matching` | embeddings, matcher, fan-out and reviews; implements `ReviewedMatches` |
| `CrawlWalk` | abstract specification of a crawl: the pages and products a category stands for |
| `Catalogue` | crawl and ingest jobs with their transactions, held against `CrawlWalk` |
| `MediaDownload` | assets, blobs and the bucket |
| `FetchErrors` | outcomes of one HTTP exchange, shared by the next two |
| `FetchStack` | orchestrator, limiter, breaker and retries of one domain |
| `TieredFetch` | robots.txt, tiers, pins, profiles and the browser of one domain |
| `Optional` | values that may be missing, as the pure modules use them |
| `ListingPage`, `Extraction` | category and product pages: parsers and mapping to the catalogue |
| `CustomsIndexes`, `CustomsDocuments` | discovery adapters and extractors |
| `Search` | recalls, fusion, listings and page links |
| `CatalogueReads` | readers who search, or follow the links of a listing |
| `PriceLists` | an official list of prices and the documents it is published in |
| `Rules` | pages, documents, indexes and shops put to the parsers, extractors and adapters, and what their answers promise |
| `CustomsPipelineProofs`, `MatchingProofs`, `CatalogueProofs`, `MediaDownloadProofs`, `FetchStackProofs`, `TieredFetchProofs`, `RulesProofs` (of `CatalogueReads` and `Rules`) | the theorems |
| `SequenceLemmas` | lemmas about the elements of a queue, induction, recursive functions and sorting |
| `MCCustomsPipeline`, `MCMatching`, `MCCatalogue`, `MCMediaDownload`, `MCFetchStack`, `MCTieredFetch`, `MCCatalogueReads` | finite instances for TLC |
| `MCRules`, `MCDocuments` | pages, shops, indexes and official lists for `Rules`; both kinds of readers in one instance |

Type invariants are proved, not run. An operator whose comment begins with
"Mutation" is a plausible bug in the definition below it; nothing uses it but
the entry of `PROJECT.json` that names it.

### Transactions and jobs

The machines of the worker treat a job alike. `queue` is the arq queue; `run[w]` is what slot
`w` of the workers is doing: the job, how far it is, what it has read and what
its transaction has written. Nothing a job has written is in the shared
variables before its commit, so an interrupted job leaves nothing; each
statement sees the shared variables as they are at that moment (READ
COMMITTED). A write waits for a transaction that has an uncommitted write of
the same row or unique key (`Blockers`); `DeadlockAborts` ends one transaction
of a cycle, and the job fails. An action is what a job does between two points
where another can interleave; reads and writes of different statements are
different actions where something may happen between them.

`JobFails` is an unexpected exception or the 600 s timeout: arq records it and
does not run the job again. `WorkerStops` is a worker that goes away: the job
stays in the queue and runs again from the start. `Interrupt` is what both do
to the transaction (`unit_of_work.py:79-91`).

### CustomsPipeline

| Code | Action |
| --- | --- |
| `seed_customs_sources.py` | `Seed` |
| CLI `customs-discover`, `customs-ingest`, `POST refresh-jobs`, cron | `RequestRefresh`, `RequestIngest`, `CronRefresh` |
| `refresh_customs_source.py` 43-52 | `BeginRefresh` |
| 54-75, 77-83 | `RefreshFetchFails`, `RefreshDiscoveryRaises`, `RefreshDiscovers` |
| 87-103 with `customs.py` 148-191 | `RefreshScans`, `RefreshAdds` |
| 105-111, `jobs.py` 325-330 | `RefreshCommits`, `RefreshEnqueues` |
| `ingest_customs_publication.py` 45-61 | `BeginIngest` |
| 63-122 | `IngestFetchFails`, `IngestSkips` |
| 124-147 | `IngestExtractFails`, `IngestExtracts` |
| 149-170 with `customs.py` 261-321 | `IngestUpserts` |
| 172-180 with `customs.py` 193-220 | `IngestFinishes` (the read of `mark_status`), `IngestCommits` (its write) |

A content of a document is a model value named by its hash, its entries a
sequence of natural keys. A publication's price data are the content that last
wrote each entry and the number of rows that carry its key. `mark_status` is
split because the ORM's UPDATE names only the columns that differ from the row
it has read (`StatusAfter`, `ContentHashAfter`). `update_check_state` has the
same shape and is one step: only displays read its two columns. Dates,
counts of entries and failure reasons are left out. FETCHED and PARSED are
values of the enum that no code writes.

### Matching

| Code | Action |
| --- | --- |
| customs ingest, product ingest | `EntryUpserted`, `PackageUpserted` (the catalogue as an environment) |
| CLI `match-cigar`, `match-all`, `embeddings-build`, `POST match-jobs` | `RequestMatch`, `RequestMatchAll`, `RequestEmbeddings` |
| `match_cigar_to_customs.py` 66-72 | `BeginMatch` |
| 74-114 with `scorer.py`, `_signals.py` 63-96 | `MatchRecalls` |
| 115 with `customs.py` 415-469 | `MatchUpserts` |
| 119 | `MatchCommits` |
| `jobs.py` 438-452 | `BeginMatchAll`, `MatchAllEnqueues`, `MatchAllEnds` |
| `build_embeddings.py` | `BeginEmbed`, `EmbedReads`, `EmbedWrites` |
| `routers/matches.py` 162-180 with `customs.py` 523-547 | `PatchReads`, `PatchCommits` |

The text and vector signals of a pair depend on labels that do not change, so
their weighted sum is one constant per pair, in ten-thousandths; the
`pack_compat` signal is computed from the packages and the entry's size. The
index is approximate: `Recalls` returns the number asked for, less up to
`Misses`. Which of two equal candidates of a bucket wins, and the order of the
upserts, depend on the order of the recall and are left open. `limit` of
match-all and `max_batches` (which no caller passes) are left out, as are the
row locks between an embedding update and a customs ingest.

### Catalogue

| Code | Action |
| --- | --- |
| `enqueue-crawl`, `enqueue-ingest` of the CLI and their endpoints | `Request` |
| `jobs.py` 104-160 | `Begin`, `List`, `EnqueueProduct`, `EndCrawlPage` |
| `ingest_product.py` 88-102 | `FetchProduct` |
| 104-137 with `brand.py`, `cigar.py` (insert or find) | `AddBrand`, `AddLine`, `AddCigar` |
| 158-190 | `FindPackage`, `AddPackage`, `RefreshPackage` |
| 192-206 | `FindAsset` |
| the commit, with the source record | `Commit` |
| `jobs.py` 58-83 | `Announce` |
| the worker stops; `job_timeout` | `Stop`, `Timeout` |

`rows` is the set of committed keys of the four tables and `own` the keys an
open transaction has inserted or locked. `InsertOrFind` is INSERT ... ON
CONFLICT DO NOTHING with its second look; the package has a plain INSERT, which
the unique constraint refuses after the other transaction has committed, and the
whole ingest is rolled back. All ingests take their keys in one order, so
no deadlock is possible between them; `JobsEnd` shows it. What a page shows is
asked anew by each ingest (`ImagesOf`). Prices, blends and names are left
out: no step depends on them.

### MediaDownload

| Code | Action |
| --- | --- |
| `ingest_product_job`, 62-74 | `Request` |
| `download_media_job`, 166-204 | `Begin` |
| 206-219; a refusal of the image pipeline; 221-251 | `FetchFails`, `Refused`, `Normalized` |
| 252-260 with `media_blob.py` | `AddBlob` |
| 261-281 | `Put` |
| 283-290 with `media.py` 64-81 | `MarkRead`, `MarkWrite` |
| stop; timeout or unexpected error | `Stop`, `Drop` |

Two assets may show one image. The normalised image stands for its BLAKE3 hash.
`mark_status` is split for the same reason as in the customs pipeline.

### FetchStack and TieredFetch

| Code | Action |
| --- | --- |
| `orchestrator.py` 63-118 | `Fetch`, `Succeed`, `FailAndBackOff`, `FailAndRaise`, `Reject`, `Retry` |
| `domain_limiter.py` 67-92 | `AcquireSlot`, `WaitInterval`, `SlotReady`, `ReleaseSlot` |
| `circuit_breaker.py` 69-116 | `CircuitAdmits`, `Send`, `RecordSuccess`, `RecordFailure` |
| `policy.py` 58-82 | `BackoffDelays` |
| `robots.py` 88-164 | `Fetch`, `EnterRobotsLock`, `LoadRobots`, `PassRobots` |
| `tiered.py` 104-181 | `StartTiers`, `Refused`, `Answered`, `RecordForbid` |
| `curl_cffi_fetcher.py` 108-160 | `TryNextProfile` |
| `browser_fetcher.py` 79-180 | `EnterLaunchLock`, `Launch`, `OpenContext` |

Tasks share one event loop, so a step goes from one `await` to the next, and a
task can be cancelled at any of them (`Cancel`). Time is counted in ticks; the
model keeps the time since the last release and trip up to the largest value a
comparison tells apart. Limiter, breaker, pins and robots cache are kept per
domain or host, so one domain is enough. The two modules are not composed:
`TieredFetcher` is a single-shot fetcher for the orchestrator, which sees only
its outcome, and `Answers` of `FetchStack` are those outcomes. The worker
itself composes neither today (`worker.py:64` hands its jobs a
`CurlCffiFetcher`): both are library code that `infrastructure/fetcher` exports.

### The pure modules

A parser, extractor or adapter works on the facts of a page: rows with a label
and a value, cells with what a pattern reads in them (`Reading`), links with
what surrounds them. Selecting nodes and matching patterns are external; which
of the facts is used, in which order, with which fallback, is the module.
Weights are in hundredths of a gram, scores of the fusion exact fractions.

`CatalogueReads` puts the operators of `Search` into the hands of readers:

| Code | Action |
| --- | --- |
| `routers/cigars.py` 220-242 with `hybrid_search.py` | `Find` |
| `dependencies.py` 159-174 with the list routes and `hypermedia.py` 28-49 | `Turn`: one page, and the link to the next with the filters it repeats |

The sequence of rows a listing shows does not change while the reader turns its
pages, and `Listing` tells the four kinds of list route apart.

`Rules` puts the other operators to work on a `question`, a product page, an
official document, an index or a shop; `answer` is what has come of it, `next` the
page a crawl reads next or the nodes of a tree that are left:

| Code | Action |
| --- | --- |
| `ingest_product.py` 88-131 with the parsers and `extraction_mapping.py` | `ReadPage` |
| `ingest_customs_publication.py` 124-133 with four of the extractors | `ReadDocument` |
| `legifrance_dila_json.py` 140-153, 98-123 | `TakeNode`: one node of the tree; `ReadArticles`: the articles it had |
| `refresh_customs_source.py` 78-82 with the four discovery adapters | `ScanIndex` |
| `crawl_listing.py` 66-104 with the listing parsers | `CrawlPage`: one page; the limits of a crawl and its ingests are those of `Catalogue` |

What may be asked are the constants `References`, `Packs`, `Hosts`, `Documents`,
`Scans` and `Shops`, with four assumptions: an attribute table is a list of rows
whose weights, if any, are amounts with a unit, and one row names the size of the
pack (`ReferencesAreTables`); the four forms of an index are lists, and the API
serves tokens for longer than their margin (`ScansAreIndexes`); a shop numbers
its pages from one and a page links to the next if there is one
(`ShopsAreNumbered`); and the patterns read in the texts of a document what they
announce (`DocumentsArePublished`). `PageOf` is the page of a reference in packs of
n: the same rows with the size and the weight of the pack.

`PriceLists` says what `DocumentsArePublished` speaks of. A list is a sequence of
articles cut into parts; a document is a list with a form and a layout. Each form
is written from what its extractor expects and its tests show: every part is a
table under the date (`Html`), an article of a tree, alone or in a section (`Tree`,
sent or asked for), a page with a table of its own (`PdfPages`), or the list is a
sheet in which each article stands under its maker, and twice (`Sheet`), with
blank cells that are repeated. The columns of a table come in any order and number,
as long as some tell products and prices (and brands, in a PDF), and no label
means two things; the brand may stand in the product's cell; and any text may
contain a word of the headers, which is what the extractor has to cope with. No
two articles of a sheet have the same brand and product, as the extractor drops
the second.

`MCRules` lets either a reader of `CatalogueReads` act or a question be answered,
never both (`MCInit`); their steps are those of the two modules.

## Runs

The machines run on two slots or tasks, since every race in the code is
between two, and a deadlock needs two; `FetchStack` takes three tasks, as the
early request needs two slots and one who waits.

| Run | Instance | Shows |
| --- | --- | --- |
| `CustomsPipeline` | 2 slots, 1 source, 2 publications listed in either order, one listing with a repeat; 2 contents with the same 2 entries in opposite orders, one without packaging; 3 requests, 1 fault, 1 counted failure; 1.0 million states | safety: `IngestedIsWhole`, `DiscoveredIsPending`, `PendingIsCommitted`, `NeverRediscovered`, `PricesChangeTogether` |
| `CustomsLiveness` | 2 slots, 1 publication, cron; 2 requests, 1 fault; 66 thousand states | `DiscoveredIsProcessed`, `JobsEnd`, `CronSourceIsRefreshed` |
| `Matching` | 2 slots, 1 cigar, 2 entries, sizes 5 and 25, 2 admins; 5 requests, 1 catalogue change, 1 fault; 2.0 million states | safety: `ReviewerRecorded`, `StatusFitsScore`, `HumanVerdictKept`; the refinement `ImplementsVerdicts` |
| `MatchingLiveness` | 2 slots, 2 cigars, 2 entries, all embedding targets; 3 requests, 1 fault; 83 thousand states | `JobsEnd`, `FanOutReaches` |
| `Catalogue` | 2 slots; 3 listings, the last of which tells no page number and so links back; 3 products, two of them pages of one cigar, one of them with a pack size, that may show an image; at most 3 pages and 4 products; 1 request, 1 fault; 200 thousand states | `CrawlFollowsTheWalk`, `IngestedIsStored`, `EverythingIsAudited`, `JobsEnd`, `AssetsAreAnnounced` |
| `MediaDownload` | 2 slots, 2 assets, 2 images; 3 jobs, 1 fault; 166 thousand states | `ObjectHasRow`, `OkIsLinked`, `UploadedOnce`, `SettledStays`, `DownloadSettles` |
| `FetchStack` | 3 tasks, 2 permits, interval 2 with jitter 1, threshold 2, cooldown 2, 2 attempts, 1 cancellation; 340 thousand states | `SlotsConserved`, `CircuitMatchesCounter`, `AtMostOneEarlyRequest` |
| `FetchLiveness` | 2 permits, interval 1, threshold 1, cooldown 1, 2 attempts, no jitter or cancellation | `FetchEnds`, `CircuitRecovers` |
| `TieredFetch` | 2 tasks, an open and an excluded page, 3 tiers with 1, 2 and 1 profiles, a pin after 2 refusals, a cache of 1 tick, 1 context; every policy; 60 thousand states | `OneRobotsDownload`, `PinIsJustified`, `OneBrowser`, `ExcludedStaysOut`, `PinNeverFalls`, `FetchEnds` |
| `Rules` | readers: every pair of recalls of length up to 3 over 4 cigars, a limit of 2, any rows gone; listings of up to 12 rows on four routes with their filters, in pages of up to 6, capped at 4, up to offset 8; 20 thousand questions: 5,859 product pages; shops of up to 7 pages, crawled page by page; official lists of up to 3 articles in six forms, cut at every place, a tree taken node by node; indexes and searches of up to 5 publications with every delay; 154 thousand states | `FusionRespectsBothBranches`, `PagesCoverTheListing`, `PacksConverge`, `FormsAgree`, `ScansAreComplete` |
| `CustomsSkipped`, `CatalogueAssets` | as small as the counterexample needs | disagreements between the code and its documents, below |

Why the bounds are enough. Customs: three requests make two refreshes of one
source overlap, in opposite orders, with an ingest of what the first one
inserted, or three ingests of one publication follow or overlap each other; two
publications are what a deadlock of inserts needs, two entries what a deadlock
of upserts needs. The liveness run has one publication, so there only the
deadlock of upserts occurs; that a refresh aborted by a deadlock of inserts loses
no publication is `DiscoveredIsPending`, in the safety run. Matching: five requests let embeddings be built, two matchers
run at once and admins rule twice, one after the other or both at once; the similarities put the two entries on
both sides of both thresholds, depending on the pack sizes. Catalogue: one crawl
enqueues up to four ingests, so that two of one page, or of two pages of one
cigar, meet on the slots at every step, with its brand and line; the category
is longer than either limit, and a single ingest takes the cigar that is cut off. Media:
three jobs give one asset two at once while another asset has the same image,
or a late one after the verdict. Fetches: two attempts by three tasks are more
than the circuit or the permits take, and two refusals at different tiers are
what a pin that falls would need. Readers: listings end before, at and after the
cap and the last offset; `RecallK` is 3, of the code's 50, but the constant 60 of
the fusion is the code's, and the proof covers recalls of up to 61. Rules: each
question is answered alone, and its sizes lie on both sides of each cap.

Requests, faults, catalogue changes, counted failures and cancellations are
bounded by `MaxRequests`, `MaxFaults`, `MaxChanges`, `MaxFailures` and
`MaxCancels` in the guards of the actions; publications, entries, cigars, sizes
and slots by their sets; `MaxPages` and `MaxProducts` are the code's own
limits. Slots and admins are interchangeable, so the safety runs of customs and
matching use symmetry over them; no run with a liveness property does.

Deadlock is checked in the customs runs (an operator can always seed) and the
fetch runs (a task can always ask). It is off where requests are bounded and
the system rightly stops (`Matching`, `Catalogue`, `MediaDownload`) or a reader
has seen all and each question has one answer (`Rules`); that no *job* gets
stuck is `JobsEnd` or `DownloadSettles`.

Fairness. In the customs and matching machines `SlotStep(w)` is weakly fair for
every slot: arq polls its queue, `await`s are bounded by request and job
timeouts, and PostgreSQL breaks deadlocks. So is a reviewer's request once it
has been read, because the API handler continues without input. `CronRefresh` is
strongly fair in `CronSpec`, where ticks come again and again; it is enabled
only while the worker is idle, since ticks are a day or a week apart and jobs
last minutes. `MediaDownload` has weak fairness of `Progress(w)`; in `Catalogue`
`Progress(s)` is strongly fair, because a lock may be released and taken
again before the waiter gets it, and PostgreSQL queues waiters. In `FetchStack`
the clock and a task that is woken, answered or timed out go on (weak
fairness), and a waiter of the semaphore or of the lock is not passed over for
ever (strong fairness: asyncio wakes them in order); `TieredFetch` likewise.
Operators, seeds, catalogue changes, callers, the recovery of a remote,
cancellations and faults are not fair. `DiscoveredIsProcessed`, `FanOutReaches`,
`DownloadSettles` and `AssetsAreAnnounced` make no promise once the job in
question has been lost: the code makes none.

### Where the code and its documents disagree

Two runs end in a counterexample:

- `CustomsSkipped`: `enums.py:94` says SKIPPED means already ingested. A failed
  extraction stores the hash, so the same document is skipped next time though
  nothing of it is stored.
- `CatalogueAssets`: `ingest_product.py:23` says assets are deduplicated by cigar
  and URL. Two ingests of pages of one known cigar both find no asset and both
  insert it; no constraint stops them, and from then on the lookup raises.

These have no run, but the modules state what the documents say, with a comment
that the code does not keep it:

- `CustomsPipeline!IngestedIsStored`: two ingests of one publication, one of which
  fails to extract, can leave it INGESTED with the hash of the other document.
- `CustomsPipeline!NaturalKeyUnique`: `customs.py:266` says re-ingestion never
  duplicates; an entry without packaging is inserted again, as its key contains
  a NULL.
- `CustomsPipeline!ActiveIsRefreshed`: `docs/deployment/production.md:67` says
  cron refreshes `fr-douane-opendata`; `jobs.py:345` refreshes
  `fr-legifrance-jorf`, which the seed leaves inactive.
- `Matching!OneMatchPerBucket`: `docs/matching-pipeline.md:73-75` and 94 promise
  one match per bucket, overwritten by a stronger candidate. That holds of one
  run; the rows of earlier runs stay.
- `Matching!PatchSetsStatus`: a PATCH that agrees with the status it read does not
  write the status; with an opposite PATCH in between, the row keeps that one's
  status and gets this one's reviewer.
- `FetchStack!SingleTrial`: `circuit_breaker.py:12` allows a single trial in
  HALF_OPEN; every request that arrives in that state passes.
- `TieredFetch!DenyBlocksEverything`: `robots.py:54-55` says that with
  `on_fetch_error="deny"` a robots.txt that cannot be retrieved (404 or timeout)
  blocks everything. After a 404, or any 4xx but 401 and 403, `robots.py:112-115`
  opens the site, whatever `on_fetch_error` says. `ExcludedStaysOut` and
  `RobotsAreObeyed` leave this case out by name (`MissingDespiteDeny`).
- `MediaDownload!OkHasObject`: `media_blob.py:6` says one blob is one object. When
  the upload fails the row stays, and the next asset with the same image is OK
  without an object.

And these are visible in the pure modules, whose properties leave them out by
name:

- The page links of `/matches` join several statuses with commas, which the
  route's own query parameter refuses, though several are allowed
  (`SeveralStatuses`); those of `/cigars` drop all filters but brand, format and
  `is_cuban` (`LinkedFilters`). Neither order has a last tie-breaker.
- A PISTE search whose pages take longer than the safety margin may end early and
  look complete: after a 401 it is repeated without its query
  (`legifrance_dila_api.py:121-128`). `ScanIsComplete` asks for completeness
  only within the margin.
- `domain_limiter.py:72-73` says that no task sleeps inside the lock; the interval is
  slept inside it (`WaitInterval`, `LockFree`).
- `cigarpassion` is crawled up to its fifth sitemap (`LastSitemap`). A crawl of
  `mistercigar` takes a page without a number for the first.
- The articles of a JSON tree are extracted from the last on (`ListOf`), and a
  table of a PDF that continues on a page without a header is not read;
  `pdf_table_extractor.py:7-13` documents settings that it does not read.
- `ingest_product.py:22` says a source record is always written; it is rolled
  back with the rest when the insert of the package is refused.
- An image that cannot be saved again raises out of the job, which then leaves
  its asset PENDING (`Drop`).
- `docs/matching-pipeline.md:80` accepts from 0.85 on, but a score of 0.8496 is
  decided before it is rounded, so PENDING_REVIEW with a stored 0.850 is
  possible; `StatusFitsScore` allows for it.

## Proofs

Checked by TLAPS from the named assumptions of the modules, which only type
the constants, say what the constructors of the code check, keep the keys of
different tables apart (`KeysAssumption`), keep the recalls of a search short
(`SearchAssumption`), describe what the rules are asked (the assumptions of `Rules`
and `PriceLists` above) and, where a model counts members,
that there are finitely many: any number of sources, publications, cigars,
entries, assets, images, slots, tasks, tiers, requests and faults, and any
delays. `PROJECT.json` lists the theorems.

`CustomsPipelineProofs`. `TypeOK` is inductive together with `StepOK`, which
says what a slot's record can be at each step (an ingest's written entries are
of its content, and the entries left complete them). From it: the only step
that changes price entries is `IngestCommits`, when every entry of the document
has been written (`CommitIsWhole`), which gives `IngestedWhole` and
`PricesTogether`. `PendingCommitted` and `NotRediscovered` need more, as
neither is inductive: that a job in the queue names a committed row follows
only if the ids a refresh is about to enqueue do, and those are committed
only because its own inserts were. The invariant `RowsOK` says it: rows a
refresh has inserted are not yet visible, no two refreshes hold the same insert
(the second one waits), every id to be enqueued is committed or the refresh's
own, and every queued ingest names a committed row. `DiscoveredPending` needs to know
which of two racing parties still has to act (`PendingOK`): the ids a refresh
will enqueue include all that it has inserted; a `mark_status` that did not read
DISCOVERED, and so might leave it, finds that the publication has left it; and an
ingest that a deadlock may abort waits for another ingest of the same
publication, which keeps it pending.

`MatchingProofs`. `TypeCorrect` needs the range of the score (`ScoreRange`,
`DecisionFits`). The inductive invariant `Inv` has four parts: rows are
consistent (`RowOK`); what a run has written is right of the row it has locked,
in particular the row itself if a human has ruled on it (`WroteOK`); two runs
never hold the same row (`LocksExclusive`); and a review in progress that read
a verdict still finds one (`PatchOK`). Locks are what makes `WroteOK`
survive the steps of others: a reviewer waits for the holder of the row, and so
does another matcher. `ReviewersRecorded`, `ScoresFit` and `VerdictsKept` follow, and
`Implements`, the refinement: a commit is one `Rematch` of the abstract
specification, a PATCH one `Review`, every other step a stutter.

`CatalogueProofs`. The invariant says of each slot that its record fits its
step (`SlotsFit`): the kind of its job, the image it has seen, the keys it holds,
and, above all, that every key it has passed is committed or its own. The
last part needs that committed rows never go away and that a slot
passes a key only when no other transaction holds it; it is what makes
`IngestedIsStored` true at the commit. `EverythingIsAudited` is inductive with
it, as a commit writes nothing but what the job's page leads to.
`CrawlsFollowTheWalk` ties the jobs to a walk defined by recursion over the
pages (`CrawlWalk`). First the walk: the number of pages and products it has
reached determines where it goes on, and its products are those of its pages
one after the other, cut at `MaxProducts` (`PagesAreTheWalk`, `PageInTheWalk`).
Then the inductive invariant `CrawlInv`: every crawl job stands at a page of the
walk and has been told the length of the pages before it; what it has processed
and enqueued of its page has been asked for; and the rest of the walk is in the
hands of some job unless one was lost (`Covered`). A repeated job does the same
again, so interruption is harmless.

`MediaDownloadProofs`. Whether an image has been uploaded before is known from
its blob row, so `UploadsFit` says that an image without a row was never
uploaded, and that a job about to upload is the only one, and the first; with
that `UploadedOnce` and `ObjectHasRow` are inductive. `HashesStay` says that a
hash an asset has, or that a job has read, has a row; `OkIsLinked` follows
although status and hash may be written by different jobs. `VerdictsAreFinal`
is an invariance from each settled state on: `Settled` says that the asset has
its verdict and no job of it is under way, and every step keeps that, as a job
that begins finds the verdict (`SettledKeeps`).

`FetchStackProofs`. `SlotsConserved` is proved from the cardinality of the
holders, step by step, and gives the type of `inUse`. `AtMostOneEarlyRequest`
needs three more facts: at most one task sleeps its interval, as it holds the
lock (`OneSleeper`); if it would wake too early, nobody has been early since the
last release (`SleeperIsFirst`); a task in back-off has an attempt left
(`SleepersMayRetry`).

`TieredFetchProofs`. `TypeOK`, `OneRobotsDownload`, `OneBrowser` and
`PinIsJustified` are inductive together; `PinsNeverFall` and `RobotsAreObeyed`
follow step by step, the latter from the fact that tiers are entered only
through `PassRobots` on the entry that is cached then (`PassObeys`).

`RulesProofs`, of `CatalogueReads`. The fusion: scores are fractions compared by cross
products, which makes them a weak order; with ties broken by the order of entry
`Before` is a strict one (`BeforeIsAnOrder`), and a finite set can be listed in
it (`SortedSequence`), so that `Ordered` is what it says, once and completely
(`OrderedHits`). Two branches beat one because 1/z < 1/x + 1/y for all x, y and
z from 61 to 121 (`TwoBeatOne`): hence the assumption that `RecallK` is at most
61, one more than `RrfConstant`; the code asks for 50. Dropping rows (`Kept`)
keeps the order of the others, by induction over the sequence. The listings:
the invariant `Turning` says that a reader has seen the rows up to the page the
link leads to, and that the filters of the link select the same rows as the
request, if links repeat them (`SameFilters`); a page continues the
prefix (`PageContinues`), and the last page and the last offset are where it ends
(`NextPage`, `Reach`). Every row list, filter, size and cap is covered, and
whatever the pages have shown before the reader stops is a prefix as well.

The rules, in the same module. `RulesSpec => []PacksConverge`,
`RulesSpec => []ScansAreComplete` and `RulesSpec => []FormsAgree` follow from one
inductive invariant, `RulesIInv`: the question stays one of those asked
(`Questions`), an answer is as promised, a crawl has read the pages before the next
one, or all of them (`CrawlProgress`), and of a tree the articles of the last parts
have been taken and the sections of the first ones are left, the last of them
possibly opened (`DocumentProgress`, `IsTaken`). The rest is about the operators,
for every table, index, shop and document. Loops that pass over elements are `Picked`, a list of places that grows
with the places kept (`PickedElements`); of `FirstOfEach` the first element of
each key stays (`FirstKeys`), so that references are unique and none is lost
(`FirstReferences`). `JorfScan`, `DouaneScan`, `GenericScan` and `SearchScan` are one
lemma per adapter; the last needs that a token outlasts the pages that are read
within its margin (`TokenLasts`), that the pages before a short one are a prefix
of the results (`PagesAreAPrefix`), and that a short answer is the end of them.
A crawl appends one page per step (`OnePageMore`) and goes to the next number
until the last (`NextOfPage`). Packs: a page differs from its reference in the
rows of size and weight only (`RowOfPage`, `OtherAttribute`); the weight of a
pack of n divided by n, rounded half to even, is that of one piece
(`DividesBack`, `UnitOfPack`); the line does not depend on the last part of the
URL (`LinesAgree`); and with complete data the fallbacks of the second shop are
never used (`CompleteDataDecides`). `EntriesAgree` puts them together.

Documents: the same reading of a table serves pages and trees. Its header is found
by its kind or by a price among its cells (`HeaderIsFound`), and only the first row
that looks like one is passed over, so that the articles are its data
(`DataIsFound`); each has its entry (`HtmlTableIsRead`), and parts that follow one
another give the list (`TablesAreRead`, `LegifranceIsRead`), as do the pages of a PDF
(`PdfIsRead`). A tree is taken from its end: opening a section puts its article in
its place, and taking an article adds that of one part less (`NodeIsTaken`). A
sheet takes the most: a row is its cells spread over sixteen columns
(`RowOfText`, `RowOfSix`), and the state after the rows of an article (`ArticleIsRead`)
has its entry once and no other change but the maker and category, since the date
stays (`DatesStay`) and no article before it has its key (`SeenOnce`). `EntryMatches`
is what all forms agree on, and `DocumentAgrees` and `ArticlesAgree` put the forms
together.

`SequenceLemmas`. What a recursive function computes is proved from
`InductionUpTo`, which takes a set of numbers where the library's induction
theorem takes an operator, and `Iteration`, by which such a function exists.
`FlattenAppend`, the walk of a crawl, the rows of a sheet, `Kept` and the sorting of a finite set
(`SortedSequence`, by induction on its size) rest on both.

Every safety invariant and every action property of a run has its theorem.
Only model-checked are the properties that rest on fairness (`DownloadSettles`,
`AssetsAreAnnounced`, the liveness properties), which are out of reach of TLAPS.
The violations are counterexamples by TLC.

## Not modelled

- API sessions: grants, rotation and revocation of tokens. Their two hazards are
  listed; both lie in one transaction per request.
- Mappers and migrations: copies field by field, the same in both directions.
- The embedding model: a library call; its lock with a second look is the
  pattern of `EnterLaunchLock`.
- Regular expressions, CSS and XML selection, HTML, PDF and image libraries,
  similarity and distance: functions of their input, taken as data.
- Single reads, ETags, response headers, rate limits of the API, the SPA,
  schemas, logging and configuration: no state the properties are about.
- The driver of the browser: when `launch` fails or is cancelled after
  `async_playwright().start()` (`browser_fetcher.py:84-85`), the driver is not
  closed and the next launch replaces it. `OneBrowser` is about `_browser`.
- Of `legifrance_html.py`'s guess at headers, `FormsAgree` has brands that contain
  a header word; tables without a header and lines joined in one cell are not
  among the documents.
- Proxies, signed URLs and bucket set-up: external services.
- A composition of `CustomsPipeline` and `Matching`, in which ingests would be
  the catalogue changes: the two share only the locks of price rows, and each
  module lets the other's writes happen at any of its steps.
- The length of downloads and images, and prices of packages over time: no step
  depends on them.

What could be added next: sessions as a chain of tokens with an abstract
specification; the row locks that embedding updates share with customs ingests.
