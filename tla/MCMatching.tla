----------------------------- MODULE MCMatching -----------------------------
(***************************************************************************)
(* Finite instances of Matching.  The similarities put the pair of entries  *)
(* on both sides of the thresholds: with an exact pack size e1 is accepted, *)
(* e2 is to be reviewed; with 5 against 25 e1 is to be reviewed and e2 is   *)
(* rejected.                                                                *)
(***************************************************************************)
EXTENDS Matching, TLC

CONSTANTS c1, c2, e1, e2

Straddling == [c \in Cigars |-> [e \in Entries |-> IF e = e1 THEN 7600 ELSE 4500]]
(* Slots and admins are interchangeable in the safety properties.           *)
Symmetry == Permutations(Slots) \cup Permutations(Admins)

(* Two entries of one pack size and a cigar sold in another, or two of two  *)
(* sizes and a cigar whose packages are not known.                          *)
Catalogue(sizes, packs) ==
  [listed |-> DOMAIN sizes, packages |-> [c \in Cigars |-> packs],
   pack_size |-> [e \in Entries |-> IF e \in DOMAIN sizes THEN sizes[e] ELSE None]]
TwoListed ==
  {Catalogue(e1 :> 25 @@ e2 :> 25, {5}), Catalogue(e1 :> 25 @@ e2 :> 5, {})}
TwoBuckets == {Catalogue(e1 :> 25 @@ e2 :> 5, {5, 25})}
=============================================================================
