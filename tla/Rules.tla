------------------------------- MODULE Rules --------------------------------
(***************************************************************************)
(* The rules of extraction and discovery at work: a question is a product page,   *)
(* an official document, an index of publications or a shop, and the rules answer    *)
(* it, a shop page by page and a tree node by node.                                   *)
(***************************************************************************)
EXTENDS Extraction, ListingPage, CustomsIndexes, PriceLists

CONSTANTS
    References,  \* what a page says of a cigar, however many are in the pack
    Packs,       \* numbers of cigars in a pack
    Hosts,       \* hosts of the merchants
    Scans,       \* indexes, each with the configuration and the time of the scan
    Shops        \* shops, each with its listing pages

VARIABLES
    question,    \* what is read
    answer,      \* what it has given so far
    next         \* what is to be read next: the number of a page, nodes of a tree, or nothing

ruleVars == <<question, answer, next>>

-----------------------------------------------------------------------------
(* Product pages.                                                            *)

\* A row of the attribute table whose value depends on the pack: its size, unless
\* only the title tells it, and its weight.
InPack(row, n, notice) ==
    IF row.value = None THEN row
    ELSE CASE row.label = "Packing" ->
                [row EXCEPT !.value = IF notice = "title" THEN None ELSE n]
           [] row.label = "Poids" ->
                [row EXCEPT !.value = [amount |-> n * row.value.amount, unit |-> row.value.unit]]
           [] OTHER -> row

\* The page of reference r in packs of n.
PageOf(r, n, notice, host) ==
    [host |-> host, sku |-> n,
     title |-> [words |-> r.words, pack |-> IF notice = "attribute" THEN None ELSE n],
     rows |-> [i \in 1..Len(r.rows) |-> InPack(r.rows[i], n, notice)],
     scripts |-> r.scripts, shown |-> r.shown, gallery |-> r.gallery]
PathOf(r, n) == Append(r.path, n)

\* The table of a reference has rows for the size and, usually, the weight of the
\* pack.
ASSUME ReferencesAreTables ==
    /\ None \notin Nat /\ None \notin [amount : Nat, unit : STRING]
    /\ Packs \subseteq Nat \ {0}
    /\ \A r \in References :
          /\ IsList(r.rows) /\ IsList(r.path)
          /\ \A i \in 1..Len(r.rows) :
                /\ r.rows[i] = [label |-> r.rows[i].label, value |-> r.rows[i].value]
                /\ r.rows[i].label = "Poids" => r.rows[i].value \in [amount : Nat, unit : STRING] \union {None}
          /\ \E i \in 1..Len(r.rows) : r.rows[i].label = "Packing" /\ r.rows[i].value # None

PageQuestions ==
    [kind : {"page"}, reference : References, pack : Packs,
     notice : {"attribute", "title", "both"}, host : Hosts]

\* What the catalogue gets from a page: the strength is read in one shop only.
Entry(product, path) ==
    LET x == Extraction(product) IN
    [cigar |-> [Cigar(x) EXCEPT !.strength = None], line |-> Line(path, x.brand),
     price |-> x.price, image |-> x.image, pack |-> x.pack]

ReadPage ==
    /\ question.kind = "page" /\ next # None
    /\ answer' = Entry(PageOf(question.reference, question.pack, question.notice, question.host),
                       PathOf(question.reference, question.pack))
    /\ next' = None
    /\ UNCHANGED question

\* The data of the page names an amount, a currency and an image.
Complete(r) ==
    LET product == JsonLd(r.scripts) IN
    /\ None \notin {Offer(product).amount, Offer(product).currency}
    /\ product # None /\ CoerceImage(product.image) # None

\* However a reference is packed, wherever the page shows the number, and in
\* whichever shop, the catalogue gets one cigar with the weight of one piece, on
\* one line, and, where the page's own data tells them, one price and image
\* (tests/application/test_packaging_convergence.py; extraction_mapping.py:184-372).
PacksConverge ==
    question.kind = "page" /\ next = None =>
        LET r == question.reference IN
        /\ answer.pack = question.pack
        /\ \A host \in Hosts :
              LET single == Entry(PageOf(r, 1, "both", host), PathOf(r, 1)) IN
              /\ answer.cigar = single.cigar /\ answer.line = single.line
              /\ Complete(r) \/ MerchantOf(host) = MerchantOf(question.host) =>
                    answer.price = single.price /\ answer.image = single.image

-----------------------------------------------------------------------------
(* Official documents.                                                       *)

DocumentOf(q) ==
    CASE TypeOf(q) = "html" -> Html(q) [] TypeOf(q) = "pdf" -> PdfPages(q) [] TypeOf(q) = "ods" -> Sheet(q)

IsTree(q) == q.kind = "document" /\ q.form = <<"legifrance-dila-json", "json">>

ReadDocument ==
    /\ question.kind = "document" /\ ~IsTree(question) /\ next # None
    /\ answer' = Extract(question.form[1], question.form[2], DocumentOf(question))
    /\ next' = None
    /\ UNCHANGED question

\* A tree is taken apart, and then its articles are read.
TakeNode ==
    /\ IsTree(question) /\ next \notin {None, <<>>}
    /\ answer' = answer \o ArticlesOf(Last(next))
    /\ next' = NextCandidates(next)
    /\ UNCHANGED question
ReadArticles ==
    /\ IsTree(question) /\ next = <<>>
    /\ answer' = FromArticles(answer)
    /\ next' = None
    /\ UNCHANGED question

\* However a list is published, cut into tables, articles or pages or spread over
\* the rows of a sheet, every article is extracted, once and in order (the
\* articles of a JSON tree from the last on), with its brand, product, price and
\* dates, whatever words its brand contains (tests/infrastructure/customs/,
\* test_legifrance_html_extractor.py, test_douane_ods_extractor.py).
FormsAgree ==
    question.kind = "document" /\ next = None =>
        LET list == ListOf(question)
            date == Reading[question.date]
        IN [i \in DOMAIN answer |-> <<answer[i].brand, answer[i].product, answer[i].price, answer[i].dates>>]
           = [i \in DOMAIN list |->
                <<list[i].brand, list[i].product, Reading[list[i].price].price,
                  [homologation |-> date.homologation, effective |-> date.effective]>>]

-----------------------------------------------------------------------------
(* Indexes.                                                                 *)

\* The API serves its tokens for longer than their margin; every other index is a
\* page.
IsSearch(s) ==
    /\ IsList(s.page.results) /\ IsList(s.page.unasked)
    /\ s.page.delay \in Nat /\ s.page.lifetime \in Nat /\ s.page.lifetime > Margin
    /\ s.config.size \in Nat \ {0} /\ s.config.pages \in Nat /\ s.start \in Nat
    /\ s.cache # None => s.cache.until \in Nat /\ s.cache.ends = s.cache.until + Margin
IsIndex(s) ==
    CASE s.form = "legifrance-dila" -> IsSearch(s)
      [] s.form = "legifrance-jorf" ->
            /\ IsList(s.page.links) /\ IsList(s.page.texts)
            /\ \A i \in 1..Len(s.page.links) : IsList(s.page.links[i].around)
            /\ \A i \in 1..Len(s.page.texts) : IsList(s.page.texts[i].nors)
      [] s.form = "douane-opendata" -> IsList(s.page.links)
      [] s.form = "generic-html-index" -> IsList(s.page.items)
ASSUME ScansAreIndexes ==
    \A s \in Scans :
        /\ s.kind = "scan"
        /\ s.form \in {"legifrance-dila", "legifrance-jorf", "douane-opendata", "generic-html-index"}
        /\ IsIndex(s)

ScanIndex ==
    /\ question.kind = "scan" /\ next # None
    /\ answer' = Discover(question.form, question.page, question.config, question.cache, question.start)
    /\ next' = None
    /\ UNCHANGED question

ReferencesOf(found) == [i \in 1..Len(found) |-> found[i].reference]

\* Every result up to the last page that is asked for, unless the scan takes longer
\* than the margin of the token.
SearchIsComplete(s, found) ==
    /\ IsInjective(ReferencesOf(found))
    /\ (s.config.pages - 1) * s.page.delay <= Margin =>
          Range(ReferencesOf(found)) =
             {DilaReference(s.page.results[i]) :
                i \in {j \in 1..Len(s.page.results) :
                         /\ j <= s.config.size * s.config.pages
                         /\ IsHomologation(s.page.results[j], s.config.nature)}}

\* Every number that is linked or stands in a text; the first link of a number
\* tells where it is, and the nearest telling text around the link its dates.
JorfIsComplete(page, found) ==
    LET linked == {i \in 1..Len(page.links) : page.links[i].nor # None} IN
    /\ IsInjective(ReferencesOf(found))
    /\ Range(ReferencesOf(found)) =
          {page.links[i].nor : i \in linked}
          \union UNION {Range(page.texts[i].nors) : i \in 1..Len(page.texts)}
    /\ \A i \in linked :
          (\A j \in linked : page.links[j].nor = page.links[i].nor => i <= j) =>
             \E p \in Range(found) :
                /\ p.reference = page.links[i].nor /\ p.url = page.links[i].href
                /\ \A k \in 1..Len(page.links[i].around) :
                      /\ k <= Hops /\ page.links[i].around[k].telling
                      /\ \A m \in 1..k - 1 : ~page.links[i].around[m].telling
                      => /\ p.published = page.links[i].around[k].published
                         /\ p.effective = page.links[i].around[k].effective

\* Every day that has a file of the wanted kind.
DouaneIsComplete(s, found) ==
    /\ IsInjective(ReferencesOf(found))
    /\ Range(ReferencesOf(found)) =
          {<<"FR-DOUANE", s.page.links[i].day>> :
             i \in {j \in 1..Len(s.page.links) :
                      s.page.links[j].day # None /\ s.page.links[j].extension = Or(s.config.extension, "ods")}}

\* Every item with a link, as often as it is there.
ItemsAreComplete(s, found) ==
    LET linked == {i \in 1..Len(s.page.items) : s.page.items[i].href # None} IN
    s.config.selector # None =>
        /\ Len(found) = Cardinality(linked)
        /\ {<<found[i].reference, found[i].url>> : i \in 1..Len(found)} =
              {<<Or(s.page.items[i].reference, s.page.items[i].href), s.page.items[i].href>> : i \in linked}

\* A scan reports each publication that its index names, by its number; only the
\* generic index reports one twice.  The search is read to its last page or to the
\* last that is asked for if that takes no longer than the safety margin of the
\* token (piste_oauth.py:10-11), and a number that is linked keeps the link it was
\* first found with (legifrance_jorf.py:91-92).
ScanIsComplete ==
    question.kind = "scan" /\ next = None =>
        CASE question.form = "legifrance-dila" -> SearchIsComplete(question, answer)
          [] question.form = "legifrance-jorf" -> JorfIsComplete(question.page, answer)
          [] question.form = "douane-opendata" -> DouaneIsComplete(question, answer)
          [] question.form = "generic-html-index" -> ItemsAreComplete(question, answer)

-----------------------------------------------------------------------------
(* Shops.                                                                   *)

LinksOf(q, k) == IF q.shop = "mistercigar" THEN q.pages[k].links ELSE q.pages[k].locs
ListingOf(q, k) ==
    IF q.shop = "mistercigar" THEN MistercigarListing(q.pages[k]) ELSE CigarpassionListing(q.pages[k])

\* A shop numbers its pages from one, and a page links to the one after it if
\* there is one; the sitemaps of the other shop tell their numbers.
IsNumbered(q, k) ==
    IF q.shop = "mistercigar"
    THEN LET after == {i \in 1..Len(q.pages[k].numbers) :
                          q.pages[k].numbers[i].number = k + 1 /\ q.pages[k].numbers[i].href # None}
         IN /\ CurrentPage(q.pages[k]) = k
            /\ IsList(q.pages[k].numbers)
            /\ (after # {} <=> k < Len(q.pages))
            /\ \A i \in after : q.pages[k].numbers[i].href = k + 1
    ELSE q.pages[k].number = k
ASSUME ShopsAreNumbered ==
    \A q \in Shops :
        /\ q.kind = "shop" /\ q.shop \in {"mistercigar", "cigarpassion"}
        /\ IsList(q.pages) /\ q.pages # <<>>
        /\ \A k \in 1..Len(q.pages) : IsList(LinksOf(q, k)) /\ IsNumbered(q, k)

\* CrawlListingUseCase without its products and its two limits, which Catalogue
\* has; a page that does not exist ends the crawl.
CrawlPage ==
    /\ question.kind = "shop" /\ next \in 1..Len(question.pages)
    /\ LET listing == ListingOf(question, next) IN
       /\ answer' = answer \o listing.products
       /\ next' = listing.next
    /\ UNCHANGED question

\* Of a shop with numbered sitemaps the first five are read.
LastPage(q) ==
    IF q.shop = "cigarpassion" /\ Len(q.pages) > LastSitemap THEN LastSitemap ELSE Len(q.pages)
ProductsUpTo(q, n) == FlattenSeq([k \in 1..n |-> UrlsOf(LinksOf(q, k))])

\* A crawl that follows the next links of a shop reads every page once and in
\* order, and of each page every product once (mistercigar.py:46-130,
\* cigarpassion.py:61-99).
CrawlSeesTheShop ==
    question.kind = "shop" /\ next \notin 1..Len(question.pages) =>
        /\ answer = ProductsUpTo(question, LastPage(question))
        /\ \A k \in 1..LastPage(question) :
              LET links == LinksOf(question, k) IN
              /\ IsInjective(UrlsOf(links))
              /\ Range(UrlsOf(links)) = {links[i].url : i \in {j \in 1..Len(links) : links[j].product}}

-----------------------------------------------------------------------------
\* Reading to the end misses nothing, be it an index of publications or a shop.
ScansAreComplete == ScanIsComplete /\ CrawlSeesTheShop

RulesInit ==
    /\ question \in PageQuestions \union Documents \union Scans \union Shops
    /\ answer = <<>>
    /\ next = IF IsTree(question) THEN Candidates(Json(question), question.cid, ApiAnswers(question)) ELSE 1

RulesNext == ReadPage \/ ReadDocument \/ TakeNode \/ ReadArticles \/ ScanIndex \/ CrawlPage

RulesSpec == RulesInit /\ [][RulesNext]_ruleVars
=============================================================================
