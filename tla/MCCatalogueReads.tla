-------------------------- MODULE MCCatalogueReads --------------------------
(* Searches over four cigars, and listings of up to twelve rows.            *)
EXTENDS CatalogueReads

FourCigars == 1..4

\* The query may match a name and its slug, a brand, or nothing of a cigar; equals
\* come in any order.
QueryTexts ==
    [FourCigars ->
       {[name |-> 8, brand |-> 0, both |-> 5, slug |-> TRUE], [name |-> 1, brand |-> 9, both |-> 4, slug |-> FALSE],
        [name |-> 1, brand |-> 2, both |-> 2, slug |-> FALSE]}]
QueryDistances == [FourCigars -> {None, 1, 2}]

\* n rows of one listing, of three brands or sources.
Row(i) ==
    [id |-> i, brand |-> i % 3, length |-> 100 + i, source |-> i % 3,
     status |-> IF i % 2 = 0 THEN "pending_review"
                ELSE IF i % 3 = 0 THEN "human_accepted" ELSE "auto_accepted"]
RowsListed == {Row(i) : i \in 1..12}
RowLists == {[i \in 1..n |-> Row(i)] : n \in 0..12}

Reads ==
    {[route |-> "brands", filters |-> <<>>, admin |-> FALSE],
     [route |-> "publications", filters |-> [source |-> {1}], admin |-> FALSE]}
    \union [route : {"cigars"}, admin : {FALSE},
            filters : {<<>>, [brand |-> {1}], [brand |-> {1}, length |-> 104..110]}]
    \union [route : {"matches"}, admin : BOOLEAN,
            filters : {<<>>} \union [status : {{"auto_accepted"}, {"pending_review"}, PublicStatuses,
                                              {"auto_accepted", "pending_review"}}]]
=============================================================================
