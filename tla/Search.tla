------------------------------- MODULE Search -------------------------------
(***************************************************************************)
(* Reading the catalogue: the hybrid search, which fuses two rankings, and the   *)
(* listings in pages that link to each other.                                      *)
(***************************************************************************)
EXTENDS FiniteSets, Optional

CONSTANTS
    RecallK,      \* hits asked of each branch
    MaxPageSize,  \* settings: cap of page_size
    MaxOffset     \* settings: last offset that is served

-----------------------------------------------------------------------------
(* The two branches, as rankings of cigars.                                 *)

\* The k of some cigars with the highest scores; equals come in any order.
Recalls(score, k) ==
    LET found == DOMAIN score
        n == IF Cardinality(found) <= k THEN Cardinality(found) ELSE k
    IN
    {r \in [1..n -> found] :
        /\ IsInjective(r)
        /\ \A i \in 1..n, c \in found : score[c] > score[r[i]] => \E j \in 1..i - 1 : r[j] = c}

\* fulltext_search_cigars: similarities with the query, in tenths: of the name, of
\* the brand, of both, and whether the slug contains it.
Similar == 3
Matches(t) == t.name >= Similar \/ t.brand >= Similar \/ t.slug
TextScore(t) ==
    LET s == {t.name, t.both, IF t.slug THEN 5 ELSE 0} IN CHOOSE x \in s : \A y \in s : y <= x
FullTextRecalls(text, k) ==
    Recalls([c \in {d \in DOMAIN text : Matches(text[d])} |-> TextScore(text[c])], k)

\* find_top_k_cigars_by_vector: of the cigars that have an embedding, the nearest.
VectorRecalls(distance, k) ==
    Recalls([c \in {d \in DOMAIN distance : distance[d] # None} |-> -distance[c]], k)

-----------------------------------------------------------------------------
(* The fusion of the branches.                                              *)

RrfConstant == 60

\* A score is a fraction <<numerator, denominator>>.
Rank(c, ranking) == CHOOSE i \in 1..Len(ranking) : ranking[i] = c
Zero == <<0, 1>>
Part(c, ranking) ==
    IF c \in Range(ranking) THEN <<1, RrfConstant + Rank(c, ranking)>> ELSE Zero
Plus(x, y) == <<x[1] * y[2] + y[1] * x[2], x[2] * y[2]>>
Less(x, y) == x[1] * y[2] < y[1] * x[2]

\* Mutation: the better branch decides.
ScoreOfBest(c, ft, vec) ==
    IF Less(Part(c, ft), Part(c, vec)) THEN Part(c, vec) ELSE Part(c, ft)

\* The score of a hit: the sum over the branches that found it.
Score(c, ft, vec) == Plus(Part(c, ft), Part(c, vec))

\* The order in which the hits enter the dictionary.
Entered(ft, vec) == ft \o Kept(vec, Range(vec) \ Range(ft))

\* sorted(reverse=True) keeps the order of equal scores.
Before(a, b, ft, vec) ==
    \/ Less(Score(b, ft, vec), Score(a, ft, vec))
    \/ /\ ~Less(Score(a, ft, vec), Score(b, ft, vec))
       /\ Rank(a, Entered(ft, vec)) < Rank(b, Entered(ft, vec))
Ordered(ft, vec) ==
    LET hits == Range(ft) \union Range(vec)
        n == Cardinality(hits)
    IN CHOOSE s \in [1..n -> hits] : \A i, j \in 1..n : i < j => Before(s[i], s[j], ft, vec)

\* execute: an empty query has no hits; an encoder that fails leaves the
\* full-text branch; the cut comes first, then the rows that are gone by now are
\* left out.
HybridSearch(empty, ft, encoded, vec, limit, gone) ==
    LET found == Ordered(ft, IF encoded THEN vec ELSE <<>>)
        cut == SubSeq(found, 1, IF Len(found) < limit THEN Len(found) ELSE limit)
    IN IF empty THEN <<>> ELSE Kept(cut, Range(cut) \ gone)

-----------------------------------------------------------------------------
(* Pages.                                                                   *)

\* pagination: the size is capped, an offset past the cap is refused (422).
PageSize(size) == IF size <= MaxPageSize THEN size ELSE MaxPageSize
Offset(page, size) == (page - 1) * PageSize(size)
Served(page, size) == Offset(page, size) <= MaxOffset

\* count_filtered, rounded up.
TotalPages(total, size) == (total + PageSize(size) - 1) \div PageSize(size)

\* Mutation: offset counted from page 0.
ItemsFromZero(list, page, size) ==
    LET o == page * PageSize(size) IN
    SubSeq(list, o + 1, IF o + PageSize(size) <= Len(list) THEN o + PageSize(size) ELSE Len(list))

\* list_filtered: LIMIT and OFFSET of the sorted, filtered rows.
Items(list, page, size) ==
    LET o == Offset(page, size) IN
    SubSeq(list, o + 1, IF o + PageSize(size) <= Len(list) THEN o + PageSize(size) ELSE Len(list))

\* Where a filter names values, a row has one of them.
Filtered(list, filters) ==
    Kept(list, {row \in Range(list) : \A f \in DOMAIN filters : row[f] \in filters[f]})

\* make_page_links; page 0 stands for no link.
NextLink(page, total, size) == IF page < TotalPages(total, size) THEN page + 1 ELSE 0
PrevLink(page) == IF page > 1 THEN page - 1 ELSE 0
LastLink(total, size) == IF TotalPages(total, size) > 1 THEN TotalPages(total, size) ELSE 1

-----------------------------------------------------------------------------
(* The listings.  An answer has the items of a page, the next page and the filters  *)
(* that its links repeat.                                                            *)

AnswerOf(list, page, size, filters) ==
    [items |-> Items(list, page, size), next |-> NextLink(page, Len(list), size),
     filters |-> filters]

\* list_brands; the sources are listed alike.
ListAll(list, page, size) == AnswerOf(list, page, size, <<>>)

\* list_publications of a source; the entries of a publication are listed alike.
\* The path of the link names the parent.
ListOfParent(list, parent, page, size) ==
    AnswerOf(Filtered(list, parent), page, size, parent)

\* list_cigars: the links repeat three of the filters.
LinkedFilters == {"brand", "format", "is_cuban"}
FiltersOfLinks(filters) == Restrict(filters, LinkedFilters \intersect DOMAIN filters)
ListCigars(list, filters, page, size) ==
    AnswerOf(Filtered(list, filters), page, size, FiltersOfLinks(filters))

\* list_matches: whoever is no administrator sees accepted matches only.
Statuses == {"auto_accepted", "pending_review", "auto_rejected", "human_accepted", "human_rejected"}
PublicStatuses == {"auto_accepted", "human_accepted"}
RequestedStatuses(filters, admin) ==
    LET asked == IF filters = <<>> THEN Statuses ELSE filters.status IN
    IF admin THEN asked
    ELSE IF asked \intersect PublicStatuses # {} THEN asked \intersect PublicStatuses
    ELSE PublicStatuses

\* The link has one value for all statuses, and several of them joined are none.
SeveralStatuses == "joined by commas"
LinkOfStatuses(requested) ==
    [status |-> IF \E s \in requested : requested = {s} THEN requested ELSE {SeveralStatuses}]
ListMatches(list, filters, admin, page, size) ==
    LET requested == RequestedStatuses(filters, admin) IN
    IF filters # <<>> /\ ~(filters.status \subseteq Statuses)
    THEN [items |-> <<>>, next |-> 0, filters |-> <<>>]
    ELSE AnswerOf(Filtered(list, [status |-> requested]), page, size,
                IF filters = <<>> THEN <<>> ELSE LinkOfStatuses(requested))
=============================================================================
