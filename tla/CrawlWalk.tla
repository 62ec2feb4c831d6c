------------------------------ MODULE CrawlWalk ------------------------------
(***************************************************************************)
(* What a crawl of a category is to visit: the pages from the start page on by  *)
(* their next links, at most MaxPages of them, and their products in order, cut  *)
(* at MaxProducts.                                                                *)
(***************************************************************************)
EXTENDS Naturals, Sequences, SequencesExt

CONSTANTS
    Listings,     \* category page URLs
    StartListing, \* the one a crawl starts from
    ProductsOn,   \* [Listings -> Seq(Products)], without repetition in a page
    NextOf,       \* [Listings -> Listings \union {None}]
    MaxPages, MaxProducts,
    None

ASSUME WalkAssumption ==
    /\ MaxPages \in Nat /\ MaxProducts \in Nat
    /\ StartListing \in Listings /\ None \notin Listings
    /\ NextOf \in [Listings -> Listings \union {None}]
    /\ DOMAIN ProductsOn = Listings

\* The first n pages of the walk.
PagesOf[n \in 0..MaxPages] ==
    IF n = 0 THEN <<>>
    ELSE IF n = 1 THEN <<StartListing>>
    ELSE LET before == PagesOf[n - 1]
             next == NextOf[Last(before)]
         IN IF Len(before) < n - 1 \/ next = None THEN before ELSE Append(before, next)

\* The products of the walk, with repetitions, in order.
AllProducts == FlattenSeq([i \in 1..Len(PagesOf[MaxPages]) |-> ProductsOn[PagesOf[MaxPages][i]]])
WalkedSeq == IF Len(AllProducts) <= MaxProducts THEN AllProducts
             ELSE SubSeq(AllProducts, 1, MaxProducts)
Walked == Range(WalkedSeq)
=============================================================================
