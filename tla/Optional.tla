------------------------------ MODULE Optional -------------------------------
(***************************************************************************)
(* What is there and what is not: the idioms that the parsers, extractors and     *)
(* discovery adapters share.                                                       *)
(***************************************************************************)
EXTENDS Integers, Sequences, SequencesExt

CONSTANT None    \* nothing there

\* "a or b"
Or(a, b) == IF a # None THEN a ELSE b

IsList(s) == s \in Seq(Range(s))

\* A list stands for its first element.
FirstOf(x) == IF x = None \/ x = <<>> THEN None ELSE Head(x)

-----------------------------------------------------------------------------
(* Loops that take some of a list.                                          *)

\* The elements of s that are in S, in order.
Kept(s, S) ==
    LET kept[n \in 0..Len(s)] ==
            IF n = 0 THEN <<>>
            ELSE IF s[n] \in S THEN Append(kept[n - 1], s[n]) ELSE kept[n - 1]
    IN kept[Len(s)]

\* The elements of s at the places in I, in order, and the first of them.
Picked(s, I) ==
    LET places == Kept([i \in 1..Len(s) |-> i], I) IN [i \in 1..Len(places) |-> s[places[i]]]
FirstPicked(s, I) == IF I = {} THEN None ELSE s[CHOOSE i \in I : \A j \in I : i <= j]

\* The elements whose key is not that of an earlier one; keys is as long as found.
FirstOfEach(found, keys) ==
    Picked(found, {i \in 1..Len(found) : \A j \in 1..i - 1 : keys[j] # keys[i]})
=============================================================================
