----------------------------- MODULE ListingPage -----------------------------
(***************************************************************************)
(* The listing parsers: from a category page or a product sitemap of a merchant   *)
(* to its products and its next page, as crawl_listing_job follows them.            *)
(***************************************************************************)
EXTENDS Optional

\* A page links to products (the URLs of the shop's own pattern) and to the rest,
\* usually several times to each.
UrlsOf(links) ==
    LET products == Picked(links, {i \in 1..Len(links) : links[i].product})
        urls == [i \in 1..Len(products) |-> products[i].url]
    IN FirstOfEach(urls, urls)

\* mistercigar: the number of the page stands in a span, which may hold no number
\* (one is assumed); without the span it is that of the URL, or one.
CurrentPage(page) == IF page.span THEN Or(page.spanNumber, 1) ELSE Or(page.urlNumber, 1)

\* next_page_url: the link that is labelled with the number after it.
NextPageUrl(page) ==
    LET labelled == {i \in 1..Len(page.numbers) :
                       page.numbers[i].number = CurrentPage(page) + 1 /\ page.numbers[i].href # None}
    IN IF labelled = {} THEN None ELSE FirstPicked(page.numbers, labelled).href

MistercigarListing(page) == [products |-> UrlsOf(page.links), next |-> NextPageUrl(page)]

\* cigarpassion: the sitemaps are numbered; the next one is offered without knowing
\* that it exists, up to the fifth.
LastSitemap == 5
NextSitemap(number) == IF number = None \/ number >= LastSitemap THEN None ELSE number + 1

CigarpassionListing(sitemap) == [products |-> UrlsOf(sitemap.locs), next |-> NextSitemap(sitemap.number)]
=============================================================================
