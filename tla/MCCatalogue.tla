---------------------------- MODULE MCCatalogue -----------------------------
(* A category of three pages.  The last one tells no page number, is taken for the *)
(* first and so links back to the second; the limit cuts the category before p3.     *)
(* p1 and p2 are pages of one cigar that may show the same image, p2 without a pack    *)
(* size; p3 is another cigar of the line.                                               *)
EXTENDS Catalogue
CONSTANTS s1, s2, brand, line, cigar1, cigar2
TwoSlots == {s1, s2}
ThreeListings == {"l1", "l2", "l3"}
ThreeProducts == {"p1", "p2", "p3"}
Shop == INSTANCE ListingPage
Numbers == << [number |-> 2, href |-> "l2"], [number |-> 3, href |-> "l3"] >>
Page(links, number) ==
    [links |-> links, span |-> TRUE, spanNumber |-> number, urlNumber |-> None, numbers |-> Numbers]
Link(p) == [url |-> p, product |-> TRUE]
Category ==
    [l \in ThreeListings |->
        CASE l = "l1" -> Page(<<Link("p1"), Link("p1"), [url |-> "x", product |-> FALSE], Link("p2")>>, 1)
          [] l = "l2" -> Page(<<Link("p1")>>, 2)
          [] l = "l3" -> Page(<<Link("p2"), Link("p3"), Link("p2")>>, None)]
Read(l) == l :> Shop!MistercigarListing(Category[l])
CategoryRead == Read("l1") @@ Read("l2") @@ Read("l3")
PagesOfCategory == [l \in ThreeListings |-> CategoryRead[l].products]
LinksInALoop == [l \in ThreeListings |-> CategoryRead[l].next]
Paths == [p \in ThreeProducts |-> <<brand, line, IF p = "p3" THEN cigar2 ELSE cigar1>>]
Images == [p \in ThreeProducts |-> IF p = "p3" THEN {None} ELSE {"image", None}]
Packs == [p \in ThreeProducts |-> p # "p2"]
=============================================================================
