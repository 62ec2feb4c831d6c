--------------------------- MODULE CatalogueReads ---------------------------
(***************************************************************************)
(* Readers of the catalogue: one asks for a hybrid search, another follows the  *)
(* next links of a listing from its first page on.                                *)
(***************************************************************************)
EXTENDS Search

CONSTANTS
    Cigars,     \* the cigars of the catalogue
    Texts,      \* how similar they may be to the words of a query
    Distances,  \* how far their embeddings may be from that of a query
    Limits,     \* how many hits may be asked for
    Rows,       \* rows of listings
    Lists,      \* what may be listed, in its order
    Asked,      \* which listing, with which filters, by whom
    Sizes       \* page sizes

\* A recall of 50 cigars is short enough for the constant of the fusion
\* (hybrid_search.py:25, 45).
ASSUME SearchAssumption ==
    /\ IsFiniteSet(Cigars)
    /\ \A t \in Texts : DOMAIN t = Cigars
    /\ \A d \in Distances : DOMAIN d = Cigars
    /\ Limits \subseteq Nat
    /\ RecallK \in Nat /\ RecallK <= RrfConstant + 1

\* The routes type their query parameters; a listing without filters has none.
ASSUME ListAssumption ==
    /\ Lists \subseteq Seq(Rows)
    /\ Sizes \subseteq Nat \ {0} /\ MaxPageSize \in Nat \ {0} /\ MaxOffset \in Nat
    /\ \A a \in Asked :
          /\ a.filters = [f \in DOMAIN a.filters |-> a.filters[f]]
          /\ a.route \in {"brands", "publications", "cigars", "matches"}
          /\ a.route = "brands" => a.filters = <<>>
          /\ a.route = "matches" =>
                a.filters = <<>> \/ \E s \in SUBSET Statuses : a.filters = [status |-> s]

VARIABLES
    request,  \* what the reader asks for
    page,     \* the page to ask for next, 0 for none
    filters,  \* the filters of the link to it
    seen      \* what the reader has been shown

vars == <<request, page, filters, seen>>

FullTextRankings == UNION {FullTextRecalls(t, RecallK) : t \in Texts}
VectorRankings == UNION {VectorRecalls(d, RecallK) : d \in Distances}

\* Some rows may be gone since they were recalled.
SearchRequests ==
    [kind : {"search"}, ft : FullTextRankings, encoded : BOOLEAN, vec : VectorRankings,
     limit : Limits, gone : SUBSET Cigars]
ListRequests == [kind : {"list"}, list : Lists, asked : Asked, size : Sizes]

Listing(q, f, p) ==
    CASE q.asked.route = "brands" -> ListAll(q.list, p, q.size)
      [] q.asked.route = "publications" -> ListOfParent(q.list, f, p, q.size)
      [] q.asked.route = "cigars" -> ListCigars(q.list, f, p, q.size)
      [] q.asked.route = "matches" -> ListMatches(q.list, f, q.asked.admin, p, q.size)

Init ==
    /\ request \in SearchRequests \union ListRequests
    /\ page = 1
    /\ filters = IF request.kind = "list" THEN request.asked.filters ELSE <<>>
    /\ seen = <<>>

\* search_cigars.
Find ==
    /\ request.kind = "search" /\ page # 0
    /\ seen' = HybridSearch(FALSE, request.ft, request.encoded, request.vec,
                            request.limit, request.gone)
    /\ page' = 0
    /\ UNCHANGED <<request, filters>>

\* A page of a listing; one out of reach is refused.
Turn ==
    /\ request.kind = "list" /\ page # 0 /\ Served(page, request.size)
    /\ LET answer == Listing(request, filters, page) IN
       /\ seen' = seen \o answer.items
       /\ page' = answer.next
       /\ filters' = answer.filters
    /\ UNCHANGED request

Next == Find \/ Turn

Spec == Init /\ [][Next]_vars

TypeOK ==
    /\ request \in SearchRequests \union ListRequests
    /\ page \in Nat
    /\ seen \in Seq(Cigars \union Rows)

-----------------------------------------------------------------------------
(* The search.                                                              *)

\* A cigar that both branches have recalled comes before every cigar of one
\* branch, and before one that it beats in both; nothing is listed twice, and
\* only the limit or a deleted row leaves a recalled cigar out
\* (hybrid_search.py:45-91).
FusionRespectsBothBranches ==
    request.kind = "search" /\ page = 0 =>
        LET ft == request.ft
            vec == IF request.encoded THEN request.vec ELSE <<>>
            both == Range(ft) \intersect Range(vec)
            found == Range(ft) \union Range(vec)
            at(c) == Rank(c, seen)
        IN /\ IsInjective(seen)
           /\ Range(seen) \subseteq found \ request.gone
           /\ \A c \in Range(seen) \intersect both, d \in Range(seen) \ both : at(c) < at(d)
           /\ \A c, d \in Range(seen) \intersect both :
                 Rank(c, ft) < Rank(d, ft) /\ Rank(c, vec) < Rank(d, vec) => at(c) < at(d)
           /\ Cardinality(found) <= request.limit => Range(seen) = found \ request.gone

-----------------------------------------------------------------------------
(* The listings.                                                            *)

\* What is listed, and whether the links ask for it again: some filters of cigars
\* and several statuses are lost.
Wanted(q) ==
    Filtered(q.list,
             IF q.asked.route = "matches"
             THEN [status |-> RequestedStatuses(q.asked.filters, q.asked.admin)]
             ELSE q.asked.filters)
Repeated(q) ==
    CASE q.asked.route = "cigars" -> DOMAIN q.asked.filters \subseteq LinkedFilters
      [] q.asked.route = "matches" ->
           \/ q.asked.filters = <<>>
           \/ \E s \in Statuses : RequestedStatuses(q.asked.filters, q.asked.admin) = {s}
      [] OTHER -> TRUE

\* A reader who follows the next links of a listing whose order does not change,
\* filtered by what the links repeat, sees each of its items once and in order, up
\* to the last page that is served; the last page links to none
\* (dependencies.py:144-174, hypermedia.py:28-49, routers/cigars.py:173-198).
PagesCoverTheListing ==
    request.kind = "list" /\ Repeated(request) =>
        LET list == Wanted(request)
            total == Len(list)
            reach == (MaxOffset \div PageSize(request.size) + 1) * PageSize(request.size)
        IN /\ page = 0 \/ ~Served(page, request.size) =>
                 seen = SubSeq(list, 1, IF total <= reach THEN total ELSE reach)
           /\ NextLink(LastLink(total, request.size), total, request.size) = 0
           /\ \A p \in 1..total :
                 NextLink(p, total, request.size) # 0 => PrevLink(NextLink(p, total, request.size)) = p
=============================================================================
