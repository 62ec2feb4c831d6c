--------------------------- MODULE CustomsIndexes ----------------------------
(***************************************************************************)
(* The discovery adapters: from an index page, or the search of the PISTE API,   *)
(* to the publications that a refresh compares with what is stored.               *)
(***************************************************************************)
EXTENDS Optional

CONSTANT Margin    \* PISTE: how long before its end a token is given up

ASSUME MarginAssumption == Margin \in Nat

\* The first of each reference, in the order of the references.
FirstOfReferences(found) ==
    FirstOfEach(found, [i \in 1..Len(found) |-> found[i].reference])

Publication(reference, url, published, effective, mime) ==
    [reference |-> reference, url |-> url, published |-> published,
     effective |-> effective, mime |-> mime]

-----------------------------------------------------------------------------
(* legifrance-jorf: links [nor, href, around] and texts [nors, dates] of a page. *)

\* The texts around a link, from the inside out: the first of six that speaks of
\* the publication, or else the longest.
Hops == 6
Blurb(around) ==
    LET near == IF Len(around) <= Hops THEN around ELSE SubSeq(around, 1, Hops)
        telling == {i \in 1..Len(near) : near[i].telling}
        longest == {i \in 1..Len(near) : \A j \in 1..Len(near) :
                       near[j].length < near[i].length \/ (near[j].length = near[i].length /\ i <= j)}
    IN IF telling # {} THEN FirstPicked(near, telling)
       ELSE IF near = <<>> THEN [published |-> None, effective |-> None]
       ELSE FirstPicked(near, longest)

JorfLink(a) ==
    LET blurb == Blurb(a.around) IN
    Publication(a.nor, a.href, blurb.published, blurb.effective, "html")

\* A number that only stands in a text has the canonical URL.
JorfText(t) ==
    [i \in 1..Len(t.nors) |->
        Publication(t.nors[i], <<"jorf", t.nors[i]>>, t.published, t.effective, "html")]

\* A link without a number is none.
LegifranceJorf(page) ==
    LET linked == Picked(page.links, {i \in 1..Len(page.links) : page.links[i].nor # None}) IN
    FirstOfReferences([i \in 1..Len(linked) |-> JorfLink(linked[i])]
                      \o FlattenSeq([i \in 1..Len(page.texts) |-> JorfText(page.texts[i])]))

-----------------------------------------------------------------------------
(* douane-opendata: the links of the page, [extension, day, folder, href].    *)

\* The name of a file tells its day, its folder the day of its upload.
DouaneLink(a, extension) ==
    Publication(<<"FR-DOUANE", a.day>>, a.href, Or(a.folder, a.day), a.day, extension)

DouaneOpenData(page, preferred) ==
    LET extension == Or(preferred, "ods")
        dated == Picked(page.links, {i \in 1..Len(page.links) :
                                       page.links[i].extension = extension /\ page.links[i].day # None})
    IN FirstOfReferences([i \in 1..Len(dated) |-> DouaneLink(dated[i], extension)])

-----------------------------------------------------------------------------
(* generic-html-index: the items of the page, [href, reference, date].        *)

\* An item without a link is left out, one without a reference goes by its URL;
\* what stands twice on the page is reported twice.
GenericItem(item, mime) ==
    Publication(Or(item.reference, item.href), item.href, item.date, None, mime)

GenericHtmlIndex(page, selector, mime) ==
    LET linked == Picked(page.items, {i \in 1..Len(page.items) : page.items[i].href # None}) IN
    IF selector = None THEN <<>>
    ELSE [i \in 1..Len(linked) |-> GenericItem(linked[i], Or(mime, "html"))]

-----------------------------------------------------------------------------
(* The token of the PISTE API.                                              *)

\* Mutation: a token is used to its very end.
TokenWithoutMargin(cache, now, lifetime) ==
    IF cache # None /\ cache.ends > now THEN cache
    ELSE [until |-> now + lifetime, ends |-> now + lifetime]

\* _get_token, _refresh: the cached token (until: given up; ends: refused by the
\* server) or a new one.
Token(cache, now, lifetime) ==
    IF cache # None /\ cache.until > now THEN cache
    ELSE [until |-> now + lifetime - Margin, ends |-> now + lifetime]

-----------------------------------------------------------------------------
(* legifrance-dila: the search, page by page.                                 *)

\* _to_discovery: an item without titles, or whose title lacks a word, is none;
\* the number is that of the item, else of its first title.
DilaReference(item) == Or(item.nor, item.cid)
IsHomologation(item, nature) ==
    /\ nature # None => item.nature = nature
    /\ item.titled /\ item.onTopic /\ DilaReference(item) # None
DilaItem(item) ==
    Publication(DilaReference(item), <<"consult", Or(item.cid, DilaReference(item))>>,
                item.published, item.effective, "json")

\* The answer to page n at time now.  A token that has ended is refused; the retry
\* has a new one, but asks without the query and gets what the API shows then; the
\* next page is asked with the old token again.
DilaAnswer(api, n, token, now, size) ==
    IF token.ends <= now THEN api.unasked
    ELSE LET from == (n - 1) * size
             to == IF from + size <= Len(api.results) THEN from + size ELSE Len(api.results)
         IN SubSeq(api.results, from + 1, to)

\* The pages up to the first that is not full, or to max_pages; each takes a while.
DilaPages(api, config, token, start) ==
    LET answer(n) == DilaAnswer(api, n, token, start + (n - 1) * api.delay, config.size)
        short == {n \in 1..config.pages : Len(answer(n)) < config.size}
        last == IF short = {} THEN config.pages ELSE CHOOSE n \in short : \A m \in short : n <= m
    IN [n \in 1..last |-> answer(n)]

\* find_publications
LegifranceDila(api, config, cache, start) ==
    LET items == FlattenSeq(DilaPages(api, config, Token(cache, start, api.lifetime), start))
        found == Picked(items, {i \in 1..Len(items) : IsHomologation(items[i], config.nature)})
    IN FirstOfReferences([i \in 1..Len(found) |-> DilaItem(found[i])])

-----------------------------------------------------------------------------
\* CustomsRegistry: the discovery adapter that a source names; a name that none
\* has is an error.
Discover(name, page, config, cache, start) ==
    CASE name = "legifrance-jorf" -> LegifranceJorf(page)
      [] name = "generic-html-index" -> GenericHtmlIndex(page, config.selector, config.mime)
      [] name = "legifrance-dila" -> LegifranceDila(page, config, cache, start)
      [] name = "douane-opendata" -> DouaneOpenData(page, config.extension)
=============================================================================
