-------------------------- MODULE MCCustomsPipeline --------------------------
(***************************************************************************)
(* Finite instances of CustomsPipeline.  One source lists two publications *)
(* in either order, so that two refreshes can insert in opposite orders,   *)
(* and may list one twice, as a regulator's page may;                      *)
(* two contents hold the same two entries in opposite orders, so that two  *)
(* ingests can lock rows in opposite orders.                               *)
(***************************************************************************)
EXTENDS CustomsPipeline, TLC

CONSTANTS fr, douane, p1, p2, k1, k2, v1, v2

OneSource == [p \in Publications |-> fr]
TwoOrders == {<<p1, p2>>, <<p2, p1, p2>>}
OnOrOff == [{fr} -> {"active", "inactive"}]
SameEntries == v1 :> <<k1, k2>> @@ v2 :> <<k2, k1>>

OneListing == {<<p1>>}
OneEntry == v1 :> <<k1>> @@ v2 :> <<k1>>

(* The slots are interchangeable in the safety properties.                  *)
SlotSymmetry == Permutations(Slots)
=============================================================================
