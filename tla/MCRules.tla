------------------------------- MODULE MCRules ------------------------------
(***************************************************************************)
(* The code that keeps no state, over bounded inputs: either a reader asks for a  *)
(* search or a listing, or a question is drawn, the rules of extraction and         *)
(* discovery answer it, and the answer is held against what is promised.             *)
(***************************************************************************)
EXTENDS MCDocuments, MCCatalogueReads

-----------------------------------------------------------------------------
(* Product pages: one reference, sold by n pieces, in one of two shops.        *)

Labels == [l \in {"cuba", "saint-domingue"} |-> IF l = "cuba" THEN "CUB" ELSE "DOM"]
Aliases == << <<<<"robusto">>, "robusto">>, <<<<"corona">>, "corona">>,
              <<<<"petit", "corona">>, "petit_corona">>, <<<<"churchill">>, "churchill">> >>
HostsOfShops == {<<"com", "mistercigar">>, <<"ch", "cigarpassion">>, <<"ch", "cigarpassion", "www">>}
PacksSold == {1, 3, 25}

Fact(label, value) == [label |-> label, value |-> value]

\* The data of the page: a script that is no JSON, a breadcrumb, then the product
\* in a graph; the specification's price of zero is not one.
Picture == [kind |-> "list", items |-> <<[kind |-> "url", url |-> "image"]>>]
Product == [type |-> "Product", sku |-> None, image |-> Picture,
            offers |-> << [amount |-> 90, currency |-> "CHF",
                           spec |-> << [amount |-> 0, currency |-> None] >>] >>]
Scripts(nodes) ==
    << None, [nodes |-> << [type |-> "BreadcrumbList"] >>, graph |-> None],
       [nodes |-> << [type |-> "WebPage"] >>, graph |-> nodes] >>

\* The rows of size and weight count one piece.
Reference(unit, cape, tripe, module, line, nodes) ==
    [words |-> <<"churchill">>,
     rows |-> << Fact("Marque", "brand"), Fact("Fabricant", None), Fact("Packing", 1), Fact("Packing", None),
                 Fact("Poids", IF unit = None THEN None ELSE [amount |-> unit, unit |-> "g"]),
                 Fact("Feuille de cape", cape), Fact("Tripe", IF tripe = <<>> THEN None ELSE tripe),
                 Fact("Module", module), Fact("Bague", 47), Fact("Puissance", 3) >>,
     scripts |-> Scripts(nodes),
     shown |-> << [amount |-> 80, currency |-> "EUR"], [amount |-> 2000, currency |-> "EUR"] >>,
     gallery |-> << "thumbnail" >>,
     path |-> <<"boutique", "cigares-bucket">> \o line]
ReferencesSold ==
    {Reference(u, c, t, m, l, <<Product>>) :
        u \in {1233, 60000, None}, c \in {"cuba", "unknown", None},
        t \in {<<>>, <<"cuba", "saint-domingue", "cuba">>},
        m \in {None, <<"petit", "corona">>, <<"corona", "gorda">>, <<"x">>},
        l \in {<<"brand", "line">>, <<"brand">>, <<"other", "line">>}}
    \union {Reference(1233, "cuba", <<>>, <<"x">>, <<"brand">>, <<>>)}

-----------------------------------------------------------------------------
(* Shops.                                                                   *)

\* A shop with n pages of two products, each linked twice; a page links to the
\* first, the last and its neighbours, and tells its number in a span or its URL.
Links(k) ==
    [i \in 1..6 |-> [url |-> IF i > 4 THEN 0 ELSE 2 * k - (i % 2), product |-> i <= 4]]
ShopPage(k, n, span) ==
    [links |-> Links(k), span |-> span, spanNumber |-> k, urlNumber |-> IF k = 1 THEN None ELSE k,
     numbers |-> LET shown == SetToSeq({1, k - 1, k + 1, n} \intersect ((1..n) \ {k})) IN
                 [i \in 1..Len(shown) |-> [number |-> shown[i], href |-> shown[i]]]]
ShopsCrawled ==
    {[kind |-> "shop", shop |-> "mistercigar", pages |-> [k \in 1..n |-> ShopPage(k, n, b)]] :
        n \in 1..7, b \in BOOLEAN}
    \union {[kind |-> "shop", shop |-> "cigarpassion",
             pages |-> [k \in 1..n |-> [locs |-> Links(k), number |-> k]]] : n \in 1..7}

-----------------------------------------------------------------------------
\* One of the two has nothing to do.
Idle == [kind |-> "none"]

MCInit ==
    \/ Init /\ question = Idle /\ answer = <<>> /\ next = None
    \/ /\ RulesInit
       /\ request = Idle /\ page = 0 /\ filters = <<>> /\ seen = <<>>

MCNext ==
    \/ Next /\ UNCHANGED ruleVars
    \/ RulesNext /\ UNCHANGED vars

MCSpec == MCInit /\ [][MCNext]_<<vars, ruleVars>>
=============================================================================
