--------------------------- MODULE SequenceLemmas ---------------------------
(***************************************************************************)
(* The set of elements of a sequence, under Head and Tail, Append and       *)
(* putting an element in front: what the queue of the worker is built with. *)
(* Induction up to a bound, for what a recursive function computes, and       *)
(* sorting.                                                                     *)
(***************************************************************************)
EXTENDS SequencesExt, SequenceTheorems, FiniteSetTheorems, WellFoundedInduction, TLAPS


(* The elements of a sequence over S are in S.                               *)
LEMMA RangeInType ==
  ASSUME NEW S, NEW s \in Seq(S)
  PROVE  Range(s) \subseteq S
BY ElementOfSeq, LenProperties DEF Range

(* Taking the head off a sequence takes off one element of its range.       *)
LEMMA RangeOfNonempty ==
  ASSUME NEW S, NEW s \in Seq(S), s # <<>>
  PROVE  Range(s) = {Head(s)} \cup Range(Tail(s))
<1>1. /\ Len(s) \in Nat \ {0} /\ DOMAIN s = 1..Len(s) /\ Head(s) = s[1]
      /\ Tail(s) \in Seq(S) /\ Len(Tail(s)) = Len(s) - 1
      /\ DOMAIN Tail(s) = 1..(Len(s) - 1)
      /\ \A i \in 1..(Len(s) - 1) : Tail(s)[i] = s[i + 1]
  BY EmptySeq, LenProperties, HeadTailProperties
<1>2. ASSUME NEW x \in Range(s) PROVE x \in {Head(s)} \cup Range(Tail(s))
  <2>1. PICK i \in 1..Len(s) : x = s[i]
    BY <1>1 DEF Range
  <2>2. CASE i = 1
    BY <1>1, <2>1, <2>2
  <2>3. CASE i # 1
    <3>1. i - 1 \in 1..(Len(s) - 1) /\ (i - 1) + 1 = i
      BY <1>1, <2>3
    <3>2. Tail(s)[i - 1] = s[i]
      BY <1>1, <3>1
    <3>3. QED
      BY <1>1, <2>1, <3>1, <3>2 DEF Range
  <2>4. QED
    BY <2>2, <2>3
<1>3. ASSUME NEW x \in Range(Tail(s)) PROVE x \in Range(s)
  <2>1. PICK i \in 1..(Len(s) - 1) : x = s[i + 1]
    BY <1>1 DEF Range
  <2>2. i + 1 \in DOMAIN s
    BY <1>1
  <2>3. QED
    BY <2>1, <2>2 DEF Range
<1>4. Head(s) \in Range(s)
  BY <1>1 DEF Range
<1>5. QED
  BY <1>2, <1>3, <1>4

(* Appending adds one element to the range.                                 *)
LEMMA RangeOfAppend ==
  ASSUME NEW S, NEW s \in Seq(S), NEW e \in S
  PROVE  Range(Append(s, e)) = Range(s) \cup {e}
<1>1. /\ Append(s, e) \in Seq(S)
      /\ Len(s) \in Nat
      /\ DOMAIN s = 1..Len(s)
      /\ DOMAIN Append(s, e) = 1..(Len(s) + 1)
      /\ \A i \in 1..Len(s) : Append(s, e)[i] = s[i]
      /\ Append(s, e)[Len(s) + 1] = e
  BY AppendProperties, LenProperties
<1>2. 1..(Len(s) + 1) = (1..Len(s)) \cup {Len(s) + 1}
  BY <1>1
<1>3. QED
  BY <1>1, <1>2 DEF Range

(* So does putting an element in front.                                     *)
LEMMA RangeOfPrepend ==
  ASSUME NEW S, NEW s \in Seq(S), NEW e \in S
  PROVE  /\ <<e>> \o s \in Seq(S)
         /\ Range(<<e>> \o s) = Range(s) \cup {e}
<1> DEFINE t == <<e>> \o s
<1>1. /\ <<e>> \in Seq(S) /\ Len(<<e>>) = 1 /\ <<e>>[1] = e
  OBVIOUS
<1>2. /\ t \in Seq(S) /\ Len(s) \in Nat /\ DOMAIN s = 1..Len(s)
      /\ DOMAIN t = 1..(Len(s) + 1)
      /\ t[1] = e
      /\ \A i \in 1..(Len(s) + 1) : i # 1 => t[i] = s[i - 1]
  BY <1>1, ConcatProperties, LenProperties
<1>3. \A i \in 1..(Len(s) + 1) : i # 1 => i - 1 \in 1..Len(s)
  BY <1>2
<1>4. \A i \in 1..Len(s) : i + 1 \in 1..(Len(s) + 1) /\ t[i + 1] = s[i]
  BY <1>2
<1>5. Range(t) \subseteq Range(s) \cup {e}
  BY <1>2, <1>3 DEF Range
<1>6. ASSUME NEW x \in Range(s) PROVE x \in Range(t)
  <2>1. PICK i \in 1..Len(s) : x = s[i]
    BY <1>2 DEF Range
  <2>2. i + 1 \in DOMAIN t /\ t[i + 1] = x
    BY <1>2, <1>4, <2>1
  <2>3. QED
    BY <2>2 DEF Range
<1>7. e \in Range(t)
  BY <1>2 DEF Range
<1>8. QED
  BY <1>2, <1>5, <1>6, <1>7

(* And the elements of a concatenation are those of its parts.               *)
LEMMA RangeOfConcat ==
  ASSUME NEW S, NEW s \in Seq(S), NEW t \in Seq(S)
  PROVE  /\ s \o t \in Seq(S)
         /\ Range(s \o t) = Range(s) \cup Range(t)
<1> DEFINE u == s \o t
           m == Len(s)
           n == Len(t)
<1>1. /\ u \in Seq(S) /\ m \in Nat /\ n \in Nat
      /\ DOMAIN s = 1..m /\ DOMAIN t = 1..n /\ DOMAIN u = 1..(m + n)
      /\ \A i \in 1..(m + n) : u[i] = IF i <= m THEN s[i] ELSE t[i - m]
  BY ConcatProperties, LenProperties
<1> HIDE DEF u, m, n
<1>2. ASSUME NEW x \in Range(s) \cup Range(t) PROVE x \in Range(u)
  <2>1. CASE x \in Range(s)
    <3>1. PICK i \in 1..m : x = s[i]
      BY <1>1, <2>1 DEF Range
    <3>2. i \in 1..(m + n) /\ u[i] = x
      BY <1>1, <3>1
    <3>3. QED
      BY <1>1, <3>2 DEF Range
  <2>2. CASE x \in Range(t)
    <3>1. PICK i \in 1..n : x = t[i]
      BY <1>1, <2>2 DEF Range
    <3>2. m + i \in 1..(m + n) /\ ~(m + i <= m) /\ (m + i) - m = i
      BY <1>1
    <3>3. u[m + i] = x
      BY <1>1, <3>1, <3>2
    <3>4. QED
      BY <1>1, <3>2, <3>3 DEF Range
  <2>3. QED
    BY <1>2, <2>1, <2>2
<1>3. ASSUME NEW x \in Range(u) PROVE x \in Range(s) \cup Range(t)
  <2>1. PICK i \in 1..(m + n) : x = u[i]
    BY <1>1 DEF Range
  <2>2. CASE i <= m
    <3>1. i \in 1..m /\ x = s[i]
      BY <1>1, <2>1, <2>2
    <3>2. QED
      BY <1>1, <3>1 DEF Range
  <2>3. CASE ~(i <= m)
    <3>1. i - m \in 1..n
      BY <1>1, <2>3
    <3>2. x = t[i - m]
      BY <1>1, <2>1, <2>3
    <3>3. QED
      BY <1>1, <3>1, <3>2 DEF Range
  <2>4. QED
    BY <2>2, <2>3
<1>4. QED
  BY <1>1, <1>2, <1>3 DEF u

(* A prefix continued by what follows it is a longer prefix.                  *)
LEMMA PrefixContinued ==
  ASSUME NEW S, NEW s \in Seq(S), NEW m \in 0..Len(s), NEW n \in m..Len(s)
  PROVE  /\ SubSeq(s, m + 1, n) \in Seq(S)
         /\ SubSeq(s, 1, m) \o SubSeq(s, m + 1, n) = SubSeq(s, 1, n)
<1> DEFINE t == SubSeq(s, 1, m)
           u == SubSeq(s, m + 1, n)
           v == SubSeq(s, 1, n)
<1>1. /\ Len(s) \in Nat /\ m \in Nat /\ n \in Nat /\ m <= n /\ n <= Len(s)
      /\ \A i \in 1..Len(s) : s[i] \in S
  BY LenProperties, ElementOfSeq
<1>2. t \in Seq(S) /\ Len(t) = m /\ \A i \in 1..m : t[i] = s[i]
  <2>1. \A i \in 1..m : s[i] \in S
    BY <1>1
  <2>2. /\ t \in Seq(S) /\ Len(t) = IF 1 <= m THEN m - 1 + 1 ELSE 0
        /\ \A i \in 1..(m - 1 + 1) : t[i] = s[1 + i - 1]
    BY <1>1, <2>1, SubSeqProperties
  <2> HIDE DEF t
  <2>3. QED
    BY <1>1, <2>2
<1>3. v \in Seq(S) /\ Len(v) = n /\ \A i \in 1..n : v[i] = s[i]
  <2>1. \A i \in 1..n : s[i] \in S
    BY <1>1
  <2>2. /\ v \in Seq(S) /\ Len(v) = IF 1 <= n THEN n - 1 + 1 ELSE 0
        /\ \A i \in 1..(n - 1 + 1) : v[i] = s[1 + i - 1]
    BY <1>1, <2>1, SubSeqProperties
  <2> HIDE DEF v
  <2>3. QED
    BY <1>1, <2>2
<1>4. u \in Seq(S) /\ Len(u) = n - m /\ \A i \in 1..(n - m) : u[i] = s[m + i]
  <2>1. m + 1 \in Int /\ n \in Int /\ \A i \in (m + 1)..n : s[i] \in S
    BY <1>1
  <2>2. /\ u \in Seq(S) /\ Len(u) = IF m + 1 <= n THEN n - (m + 1) + 1 ELSE 0
        /\ \A i \in 1..(n - (m + 1) + 1) : u[i] = s[(m + 1) + i - 1]
    BY <2>1, SubSeqProperties
  <2> HIDE DEF u
  <2>3. \A i \in 1..(n - m) : (m + 1) + i - 1 = m + i /\ i \in 1..(n - (m + 1) + 1)
    BY <1>1
  <2>4. Len(u) = n - m
    BY <1>1, <2>2
  <2>5. QED
    BY <2>2, <2>3, <2>4
<1> HIDE DEF t, u, v
<1>5. /\ t \o u \in Seq(S) /\ Len(t \o u) = n
      /\ \A i \in 1..n : (t \o u)[i] = IF i <= m THEN t[i] ELSE u[i - m]
  <2>1. /\ t \o u \in Seq(S) /\ Len(t \o u) = Len(t) + Len(u)
        /\ \A i \in 1..(Len(t) + Len(u)) :
              (t \o u)[i] = IF i <= Len(t) THEN t[i] ELSE u[i - Len(t)]
    BY <1>2, <1>4, ConcatProperties
  <2>2. Len(t) + Len(u) = n
    BY <1>1, <1>2, <1>4
  <2>3. QED
    BY <1>2, <2>1, <2>2
<1>6. ASSUME NEW i \in 1..n PROVE (t \o u)[i] = v[i]
  <2>1. CASE i <= m
    BY <1>1, <1>2, <1>3, <1>5, <2>1
  <2>2. CASE ~(i <= m)
    <3>1. i - m \in 1..(n - m) /\ m + (i - m) = i
      BY <1>1, <2>2
    <3>2. u[i - m] = s[i]
      BY <1>4, <3>1
    <3>3. QED
      BY <1>3, <1>5, <2>2, <3>2
  <2>3. QED
    BY <2>1, <2>2
<1>7. t \o u = v
  BY <1>3, <1>5, <1>6, SeqEqual
<1>8. QED
  BY <1>4, <1>7 DEF t, u, v

-----------------------------------------------------------------------------
(* Induction.                                                               *)

(* A set of naturals that is not empty has a least element.                  *)
LEMMA LeastNatural ==
  ASSUME NEW T \in SUBSET Nat, T # {}
  PROVE  \E x \in T : \A y \in T : x <= y
<1> DEFINE R == {p \in Nat \X Nat : p[1] < p[2]}
<1>1. IsWellFoundedOn(R, Nat)
  BY NatLessThanWellFounded DEF OpToRel
<1>2. PICK x \in T : \A y \in T : <<y, x>> \notin R
  BY <1>1, WFMin
<1>3. ASSUME NEW y \in T PROVE x <= y
  <2>1. <<y, x>> \notin R /\ <<y, x>> \in Nat \X Nat
    BY <1>2
  <2>2. ~(y < x)
    BY <2>1
  <2>3. QED
    BY <2>2
<1>4. QED
  BY <1>3

(* Induction up to n: a set that holds 0 and every successor holds all.      *)
LEMMA InductionUpTo ==
  ASSUME NEW n \in Nat, NEW T, 0 \in T, \A m \in 1..n : m - 1 \in T => m \in T
  PROVE  0..n \subseteq T
<1> DEFINE Rest == (0..n) \ T
<1> SUFFICES ASSUME Rest # {} PROVE FALSE
  OBVIOUS
<1>1. Rest \in SUBSET Nat
  OBVIOUS
<1> HIDE DEF Rest
<1>2. PICK m \in Rest : \A y \in Rest : m <= y
  BY <1>1, LeastNatural
<1>3. m \in 1..n /\ m - 1 \in 0..n /\ m \notin T
  BY <1>2 DEF Rest
<1>4. m - 1 \in T
  BY <1>2, <1>3 DEF Rest
<1>5. QED
  BY <1>3, <1>4

\* f starts from e and takes each value from the one before.
Iterates(f, n, S, e, step) ==
  f \in [0..n -> S] /\ f[0] = e /\ \A i \in 1..n : f[i] = step[<<i, f[i - 1]>>]

(* Such a function exists.                                                    *)
LEMMA Iteration ==
  ASSUME NEW n \in Nat, NEW S, NEW e \in S, NEW step \in [(1..n) \X S -> S]
  PROVE  \E f : Iterates(f, n, S, e, step)
<1> DEFINE Reached(m) == \E f : Iterates(f, m, S, e, step)
           T == {m \in 0..n : Reached(m)}
<1>1. Reached(0)
  <2>1. /\ [i \in 0..0 |-> e] \in [0..0 -> S]
        /\ [i \in 0..0 |-> e][0] = e
        /\ \A i \in 1..0 : FALSE
    OBVIOUS
  <2>2. QED
    BY <2>1 DEF Iterates
<1>2. ASSUME NEW m \in 1..n, Reached(m - 1) PROVE Reached(m)
  <2>1. PICK f : /\ f \in [0..(m - 1) -> S] /\ f[0] = e
                 /\ \A i \in 1..(m - 1) : f[i] = step[<<i, f[i - 1]>>]
    BY <1>2 DEF Iterates
  <2> DEFINE last == step[<<m, f[m - 1]>>]
             g == [i \in 0..m |-> IF i < m THEN f[i] ELSE last]
  <2>2. last \in S
    BY <2>1
  <2>3. g \in [0..m -> S] /\ g[0] = e /\ g[m] = last /\ \A i \in 0..(m - 1) : g[i] = f[i]
    BY <2>1, <2>2
  <2> HIDE DEF g
  <2>4. ASSUME NEW i \in 1..m PROVE g[i] = step[<<i, g[i - 1]>>]
    <3>1. g[i - 1] = f[i - 1]
      BY <2>3
    <3>2. CASE i = m
      BY <2>3, <3>1, <3>2
    <3>3. CASE i # m
      BY <2>1, <2>3, <3>1, <3>3
    <3>4. QED
      BY <3>2, <3>3
  <2>5. QED
    BY <2>3, <2>4 DEF Iterates
<1> HIDE DEF Reached
<1>3. 0 \in T /\ \A m \in 1..n : m - 1 \in T => m \in T
  BY <1>1, <1>2
<1> HIDE DEF T
<1>4. 0..n \subseteq T
  BY <1>3, InductionUpTo
<1>5. Reached(n)
  BY <1>4 DEF T
<1>6. QED
  BY <1>5 DEF Reached

(* Induction over sequences that grow at the end.                            *)
LEMMA AppendInduction ==
  ASSUME NEW S, NEW G, <<>> \in G, \A s \in Seq(S) : \A e \in S : s \in G => Append(s, e) \in G
  PROVE  Seq(S) \subseteq G
<1> SUFFICES ASSUME NEW t \in Seq(S) PROVE t \in G
  OBVIOUS
<1> DEFINE T == {m \in Nat : \A s \in Seq(S) : Len(s) = m => s \in G}
<1>1. Len(t) \in Nat
  BY LenProperties
<1>2. 0 \in T
  <2>1. \A s \in Seq(S) : Len(s) = 0 => s = <<>>
    BY EmptySeq
  <2>2. QED
    BY <2>1
<1>3. ASSUME NEW m \in 1..Len(t), m - 1 \in T PROVE m \in T
  <2> SUFFICES ASSUME NEW s \in Seq(S), Len(s) = m PROVE s \in G
    BY <1>1
  <2>1. s # <<>>
    BY <1>1, EmptySeq
  <2>2. PICK p \in Seq(S), e \in S : s = Append(p, e)
    BY <2>1, SequenceEmptyOrAppend
  <2>3. Len(p) = m - 1
    <3>1. Len(p) \in Nat /\ Len(Append(p, e)) = Len(p) + 1
      BY AppendProperties, LenProperties
    <3>2. QED
      BY <1>1, <2>2, <3>1
  <2>4. p \in G
    BY <1>3, <2>3
  <2>5. QED
    BY <2>2, <2>4
<1> HIDE DEF T
<1>4. 0..Len(t) \subseteq T
  BY <1>1, <1>2, <1>3, InductionUpTo
<1>5. Len(t) \in T
  BY <1>1, <1>4
<1>6. QED
  BY <1>5 DEF T

-----------------------------------------------------------------------------
(* Flattening.                                                              *)

(* FlattenSeq concatenates its sequences from the left.                       *)
LEMMA FlattenIterates ==
  ASSUME NEW S, NEW ss \in Seq(Seq(S)), Len(ss) # 0
  PROVE  \E f \in [1..Len(ss) -> Seq(S)] :
            /\ f[1] = ss[1]
            /\ \A i \in 1..Len(ss) : i # 1 => f[i] = f[i - 1] \o ss[i]
            /\ FlattenSeq(ss) = f[Len(ss)]
<1> DEFINE n == Len(ss)
           Body(f) == [i \in 1..n |-> IF i = 1 THEN ss[i] ELSE f[i - 1] \o ss[i]]
           flatten == CHOOSE f : f = Body(f)
           step == [x \in (1..n) \X Seq(S) |-> x[2] \o ss[x[1]]]
<1>1. n \in Nat \ {0} /\ \A i \in 1..n : ss[i] \in Seq(S)
  BY LenProperties, ElementOfSeq
<1>2. FlattenSeq(ss) = flatten[n]
  BY DEF FlattenSeq
<1> HIDE DEF n
<1>3. step \in [(1..n) \X Seq(S) -> Seq(S)] /\ <<>> \in Seq(S)
  BY <1>1, ConcatProperties
<1>4. PICK g \in [0..n -> Seq(S)] : g[0] = <<>> /\ \A i \in 1..n : g[i] = step[<<i, g[i - 1]>>]
  <2>1. n \in Nat
    BY <1>1
  <2> HIDE DEF step
  <2>2. \E g : Iterates(g, n, Seq(S), <<>>, step)
    BY <1>3, <2>1, Iteration
  <2>3. QED
    BY <2>2 DEF Iterates
<1> DEFINE h == [i \in 1..n |-> g[i]]
<1>5. ASSUME NEW i \in 1..n PROVE g[i] = g[i - 1] \o ss[i]
  <2>1. i - 1 \in 0..n /\ g[i - 1] \in Seq(S)
    BY <1>1
  <2>2. QED
    BY <1>4, <2>1
<1> HIDE DEF step
<1>6. g[1] = ss[1]
  <2>1. 1 \in 1..n /\ ss[1] \in Seq(S) /\ 1 - 1 = 0
    BY <1>1
  <2>2. g[1] = g[0] \o ss[1]
    BY <1>5, <2>1
  <2>3. <<>> \o ss[1] = ss[1]
    BY <2>1, ConcatEmptySeq
  <2>4. QED
    BY <1>4, <2>2, <2>3
<1>7. h = Body(h)
  <2>1. ASSUME NEW i \in 1..n PROVE h[i] = IF i = 1 THEN ss[i] ELSE h[i - 1] \o ss[i]
    <3>1. CASE i = 1
      BY <1>6, <3>1
    <3>2. CASE i # 1
      <4>1. i - 1 \in 1..n
        BY <1>1, <3>2
      <4>2. h[i] = g[i] /\ h[i - 1] = g[i - 1]
        BY <4>1
      <4>3. QED
        BY <1>5, <3>2, <4>2
    <3>3. QED
      BY <3>1, <3>2
  <2>2. DOMAIN h = 1..n /\ h = [i \in DOMAIN h |-> h[i]]
    OBVIOUS
  <2> HIDE DEF h
  <2>3. QED
    BY <2>1, <2>2
<1> HIDE DEF h
<1>8. flatten = Body(flatten)
  BY <1>7
<1> HIDE DEF flatten
<1>9. \A i \in 1..n : flatten[i] = IF i = 1 THEN ss[i] ELSE flatten[i - 1] \o ss[i]
  <2>1. DOMAIN flatten = 1..n
    BY <1>8
  <2>2. \A i \in 1..n : Body(flatten)[i] = IF i = 1 THEN ss[i] ELSE flatten[i - 1] \o ss[i]
    OBVIOUS
  <2> HIDE DEF Body
  <2>3. QED
    BY <1>8, <2>2
<1>10. flatten \in [1..n -> Seq(S)]
  <2> DEFINE T == {i \in 0..n : i = 0 \/ flatten[i] \in Seq(S)}
  <2>1. ASSUME NEW m \in 1..n, m - 1 \in T PROVE m \in T
    <3>1. CASE m = 1
      <4>1. flatten[m] = ss[m] /\ ss[m] \in Seq(S)
        BY <1>1, <1>9, <3>1
      <4>2. QED
        BY <1>1, <4>1
    <3>2. CASE m # 1
      <4>1. flatten[m - 1] \in Seq(S) /\ ss[m] \in Seq(S)
        BY <1>1, <2>1, <3>2
      <4>2. flatten[m] = flatten[m - 1] \o ss[m]
        BY <1>9, <3>2
      <4>3. flatten[m] \in Seq(S)
        BY <4>1, <4>2, ConcatProperties
      <4>4. QED
        BY <1>1, <4>3
    <3>3. QED
      BY <3>1, <3>2
  <2>2. 0 \in T
    BY <1>1
  <2> HIDE DEF T
  <2>3. 0..n \subseteq T
    BY <1>1, <2>1, <2>2, InductionUpTo
  <2>4. \A i \in 1..n : flatten[i] \in Seq(S)
    BY <1>1, <2>3 DEF T
  <2>5. flatten = [i \in 1..n |-> flatten[i]]
    BY <1>8
  <2> HIDE DEF Body
  <2>6. QED
    BY <2>4, <2>5
<1>11. QED
  <2>1. 1 \in 1..n
    BY <1>1
  <2>2. flatten[1] = ss[1] /\ \A i \in 1..n : i # 1 => flatten[i] = flatten[i - 1] \o ss[i]
    BY <1>9, <2>1
  <2> HIDE DEF Body
  <2>3. QED
    BY <1>2, <1>10, <2>2 DEF n

(* Flattening takes a sequence that is appended to the end.                   *)
LEMMA FlattenAppend ==
  ASSUME NEW S, NEW ss \in Seq(Seq(S)), NEW s \in Seq(S)
  PROVE  /\ FlattenSeq(ss) \in Seq(S)
         /\ FlattenSeq(Append(ss, s)) = FlattenSeq(ss) \o s
<1> DEFINE n == Len(ss)
           tt == Append(ss, s)
<1>1. /\ n \in Nat /\ \A i \in 1..n : ss[i] \in Seq(S)
      /\ tt \in Seq(Seq(S)) /\ Len(tt) = n + 1
      /\ \A i \in 1..n : tt[i] = ss[i]
      /\ tt[n + 1] = s
  BY LenProperties, ElementOfSeq, AppendProperties
<1> HIDE DEF tt, n
<1>2. PICK g \in [1..(n + 1) -> Seq(S)] :
         /\ g[1] = tt[1]
         /\ \A i \in 1..(n + 1) : i # 1 => g[i] = g[i - 1] \o tt[i]
         /\ FlattenSeq(tt) = g[n + 1]
  <2>1. Len(tt) # 0 /\ tt \in Seq(Seq(S)) /\ Len(tt) = n + 1
    BY <1>1
  <2>2. \E g \in [1..Len(tt) -> Seq(S)] :
           /\ g[1] = tt[1]
           /\ \A i \in 1..Len(tt) : i # 1 => g[i] = g[i - 1] \o tt[i]
           /\ FlattenSeq(tt) = g[Len(tt)]
    BY <2>1, FlattenIterates
  <2>3. QED
    BY <2>1, <2>2
<1>3. CASE n = 0
  <2>1. ss = <<>> /\ FlattenSeq(ss) = ss
    BY <1>3, EmptySeq DEF FlattenSeq, n
  <2>2. FlattenSeq(tt) = s
    BY <1>1, <1>2, <1>3
  <2>3. <<>> \o s = s /\ <<>> \in Seq(S)
    BY ConcatEmptySeq
  <2>4. QED
    BY <2>1, <2>2, <2>3 DEF tt
<1>4. CASE n # 0
  <2>1. PICK f \in [1..n -> Seq(S)] :
           /\ f[1] = ss[1]
           /\ \A i \in 1..n : i # 1 => f[i] = f[i - 1] \o ss[i]
           /\ FlattenSeq(ss) = f[n]
    BY <1>4, FlattenIterates DEF n
  <2> DEFINE T == {i \in 0..n : i = 0 \/ g[i] = f[i]}
  <2>2. ASSUME NEW m \in 1..n, m - 1 \in T PROVE m \in T
    <3>1. CASE m = 1
      BY <1>1, <1>2, <2>1, <3>1
    <3>2. CASE m # 1
      <4>1. m \in 1..(n + 1) /\ g[m - 1] = f[m - 1] /\ tt[m] = ss[m]
        <5>1. m - 1 \in T /\ m - 1 # 0
          BY <1>1, <2>2, <3>2
        <5>2. g[m - 1] = f[m - 1]
          BY <5>1
        <5> HIDE DEF T
        <5>3. QED
          BY <1>1, <5>2
      <4>2. g[m] = f[m]
        BY <1>2, <2>1, <3>2, <4>1
      <4>3. QED
        BY <1>1, <4>2
    <3>3. QED
      BY <3>1, <3>2
  <2>3. 0 \in T
    BY <1>1
  <2> HIDE DEF T
  <2>4. 0..n \subseteq T
    BY <1>1, <2>2, <2>3, InductionUpTo
  <2>5. g[n] = f[n]
    <3>1. n \in 0..n
      BY <1>1
    <3>2. QED
      BY <1>4, <2>4, <3>1 DEF T
  <2>6. g[n + 1] = g[n] \o s
    <3>1. n + 1 \in 1..(n + 1) /\ n + 1 # 1 /\ (n + 1) - 1 = n
      BY <1>1, <1>4
    <3>2. g[n + 1] = g[(n + 1) - 1] \o tt[n + 1]
      BY <1>2, <3>1
    <3>3. QED
      BY <1>1, <3>1, <3>2
  <2>7. f[n] \in Seq(S)
    <3>1. n \in 1..n
      BY <1>1, <1>4
    <3>2. QED
      BY <3>1
  <2>8. QED
    BY <1>2, <2>1, <2>5, <2>6, <2>7 DEF tt
<1>5. QED
  BY <1>3, <1>4

(* What is appended to the second part of a sequence is appended to the whole. *)
LEMMA AppendToConcat ==
  ASSUME NEW S, NEW s \in Seq(S), NEW t \in Seq(S), NEW e \in S
  PROVE  s \o Append(t, e) = Append(s \o t, e)
<1>1. <<e>> \in Seq(S) /\ s \o t \in Seq(S)
  BY ConcatProperties
<1>2. s \o Append(t, e) = s \o (t \o <<e>>) /\ Append(s \o t, e) = (s \o t) \o <<e>>
  BY <1>1, AppendIsConcat
<1>3. QED
  BY <1>1, <1>2, ConcatAssociative

(* Where the elements of two sequences stand when they are joined.           *)
LEMMA ConcatParts ==
  ASSUME NEW S, NEW s \in Seq(S), NEW t \in Seq(S)
  PROVE  /\ s \o t \in Seq(S) /\ Len(s \o t) = Len(s) + Len(t)
         /\ \A i \in 1..Len(s) : (s \o t)[i] = s[i]
         /\ \A i \in 1..Len(t) : (s \o t)[Len(s) + i] = t[i]
<1> DEFINE m == Len(s)
           n == Len(t)
           u == s \o t
<1>1. /\ u \in Seq(S) /\ Len(u) = m + n
      /\ \A i \in 1..(m + n) : u[i] = IF i <= m THEN s[i] ELSE t[i - m]
  BY ConcatProperties
<1>2. m \in Nat /\ n \in Nat
  BY LenProperties
<1> HIDE DEF m, n, u
<1>3. \A i \in 1..m : u[i] = s[i]
  BY <1>1, <1>2
<1>4. \A i \in 1..n : u[m + i] = t[i]
  <2> TAKE i \in 1..n
  <2>1. m + i \in 1..(m + n) /\ ~(m + i <= m) /\ (m + i) - m = i
    BY <1>2
  <2>2. QED
    BY <1>1, <2>1
<1>5. QED
  BY <1>1, <1>3, <1>4 DEF m, n, u

(* Flattening one, two and three sequences.                                  *)
LEMMA FlattenOne ==
  ASSUME NEW S, NEW r \in Seq(S)
  PROVE  <<r>> \in Seq(Seq(S)) /\ FlattenSeq(<<r>>) = r
<1> DEFINE T == Seq(S)
<1>1. r \in T
  OBVIOUS
<1> HIDE DEF T
<1>2. <<>> \in Seq(T) /\ <<r>> \in Seq(T) /\ Append(<<>>, r) = <<r>>
  BY <1>1
<1>3. FlattenSeq(Append(<<>>, r)) = FlattenSeq(<<>>) \o r
  BY <1>2, FlattenAppend DEF T
<1>4. FlattenSeq(<<>>) = <<>> /\ <<>> \o r = r
  BY ConcatEmptySeq DEF FlattenSeq
<1>5. QED
  BY <1>2, <1>3, <1>4 DEF T

LEMMA FlattenTwo ==
  ASSUME NEW S, NEW r \in Seq(S), NEW s \in Seq(S)
  PROVE  <<r, s>> \in Seq(Seq(S)) /\ FlattenSeq(<<r, s>>) = r \o s
<1> DEFINE T == Seq(S)
           l == Append(<<r>>, s)
           m == <<r, s>>
<1>1. r \in T /\ s \in T
  OBVIOUS
<1> HIDE DEF T
<1>2. <<r>> \in Seq(T)
  BY <1>1
<1>3. l \in Seq(T) /\ Len(l) = 2 /\ l[1] = r /\ l[2] = s
  BY <1>1, <1>2, AppendProperties
<1>4. m \in Seq(T) /\ Len(m) = 2 /\ m[1] = r /\ m[2] = s
  BY <1>1
<1> HIDE DEF l, m
<1>5. \A i \in 1..2 : i = 1 \/ i = 2
  OBVIOUS
<1>6. \A i \in 1..Len(l) : l[i] = m[i]
  BY <1>3, <1>4, <1>5
<1>7. l = m
  BY <1>3, <1>4, <1>6, SeqEqual
<1>8. FlattenSeq(Append(<<r>>, s)) = FlattenSeq(<<r>>) \o s
  BY <1>2, FlattenAppend DEF T
<1>9. QED
  BY <1>4, <1>7, <1>8, FlattenOne DEF l, m, T

LEMMA FlattenThree ==
  ASSUME NEW S, NEW r \in Seq(S), NEW s \in Seq(S), NEW t \in Seq(S)
  PROVE  <<r, s, t>> \in Seq(Seq(S)) /\ FlattenSeq(<<r, s, t>>) = FlattenSeq(<<r, s>>) \o t
<1> DEFINE T == Seq(S)
           l == Append(<<r, s>>, t)
           m == <<r, s, t>>
<1>1. r \in T /\ s \in T /\ t \in T
  OBVIOUS
<1> HIDE DEF T
<1>2. <<r, s>> \in Seq(T)
  BY <1>1
<1>3. l \in Seq(T) /\ Len(l) = 3 /\ l[1] = r /\ l[2] = s /\ l[3] = t
  BY <1>1, <1>2, AppendProperties
<1>4. m \in Seq(T) /\ Len(m) = 3 /\ m[1] = r /\ m[2] = s /\ m[3] = t
  BY <1>1
<1> HIDE DEF l, m
<1>5. \A i \in 1..3 : i = 1 \/ i = 2 \/ i = 3
  OBVIOUS
<1>6. \A i \in 1..Len(l) : l[i] = m[i]
  BY <1>3, <1>4, <1>5
<1>7. l = m
  BY <1>3, <1>4, <1>6, SeqEqual
<1>8. FlattenSeq(Append(<<r, s>>, t)) = FlattenSeq(<<r, s>>) \o t
  BY <1>2, FlattenAppend DEF T
<1>9. QED
  BY <1>4, <1>7, <1>8 DEF l, m, T

(* Where the elements of three sequences stand when they are flattened.         *)
LEMMA ThreeParts ==
  ASSUME NEW S, NEW a \in Seq(S), NEW b \in Seq(S), NEW c \in Seq(S), NEW f, f = FlattenSeq(<<a, b, c>>)
  PROVE  /\ f \in Seq(S) /\ Len(f) = Len(a) + Len(b) + Len(c)
         /\ \A i \in 1..Len(a) : f[i] = a[i]
         /\ \A i \in 1..Len(b) : f[Len(a) + i] = b[i]
         /\ \A i \in 1..Len(c) : f[Len(a) + Len(b) + i] = c[i]
<1> DEFINE d == FlattenSeq(<<a, b>>)
<1>1. d = a \o b
  BY FlattenTwo
<1>2. f = FlattenSeq(<<a, b>>) \o c
  BY FlattenThree
<1>3. /\ a \o b \in Seq(S) /\ Len(a \o b) = Len(a) + Len(b)
      /\ \A i \in 1..Len(a) : (a \o b)[i] = a[i]
      /\ \A i \in 1..Len(b) : (a \o b)[Len(a) + i] = b[i]
  BY ConcatParts
<1>4. f = d \o c
  BY <1>2
<1> HIDE DEF d
<1>5. /\ d \in Seq(S) /\ Len(d) = Len(a) + Len(b)
      /\ \A i \in 1..Len(a) : d[i] = a[i]
      /\ \A i \in 1..Len(b) : d[Len(a) + i] = b[i]
  BY <1>1, <1>3
<1>6. /\ d \o c \in Seq(S) /\ Len(d \o c) = Len(d) + Len(c)
      /\ \A i \in 1..Len(d) : (d \o c)[i] = d[i]
      /\ \A i \in 1..Len(c) : (d \o c)[Len(d) + i] = c[i]
  BY <1>5, ConcatParts, SMTT(30)
<1>7. Len(a) \in Nat /\ Len(b) \in Nat /\ Len(c) \in Nat
  BY LenProperties
<1>8. \A i \in 1..Len(a) : i \in 1..Len(d)
  BY <1>5, <1>7
<1>9. \A i \in 1..Len(b) : Len(a) + i \in 1..Len(d)
  BY <1>5, <1>7
<1>10. /\ f \in Seq(S) /\ Len(f) = Len(d) + Len(c)
       /\ \A i \in 1..Len(d) : f[i] = d[i]
       /\ \A i \in 1..Len(c) : f[Len(d) + i] = c[i]
  BY <1>4, <1>6
<1>11. QED
  BY <1>5, <1>8, <1>9, <1>10

(* Flattening two parts one after the other.                                  *)
LEMMA FlattenConcat ==
  ASSUME NEW S, NEW ss \in Seq(Seq(S)), NEW tt \in Seq(Seq(S))
  PROVE  /\ FlattenSeq(ss) \in Seq(S)
         /\ FlattenSeq(ss \o tt) = FlattenSeq(ss) \o FlattenSeq(tt)
<1> DEFINE G == {t \in Seq(Seq(S)) : FlattenSeq(ss \o t) = FlattenSeq(ss) \o FlattenSeq(t)}
<1>1. <<>> \in Seq(S) /\ <<>> \in Seq(Seq(S))
  OBVIOUS
<1>2. FlattenSeq(ss) \in Seq(S)
  BY <1>1, FlattenAppend
<1>3. <<>> \in G
  <2>1. ss \o <<>> = ss /\ FlattenSeq(ss) \o <<>> = FlattenSeq(ss)
    BY <1>2, ConcatEmptySeq
  <2>2. FlattenSeq(<<>>) = <<>>
    BY DEF FlattenSeq
  <2>3. QED
    BY <1>1, <2>1, <2>2
<1>4. ASSUME NEW t \in Seq(Seq(S)), NEW e \in Seq(S), t \in G PROVE Append(t, e) \in G
  <2>1. Append(t, e) \in Seq(Seq(S)) /\ ss \o t \in Seq(Seq(S)) /\ ss \o Append(t, e) = Append(ss \o t, e)
    BY AppendProperties, ConcatProperties, AppendToConcat
  <2>2. /\ FlattenSeq(t) \in Seq(S)
        /\ FlattenSeq(Append(t, e)) = FlattenSeq(t) \o e
        /\ FlattenSeq(Append(ss \o t, e)) = FlattenSeq(ss \o t) \o e
    BY <2>1, FlattenAppend
  <2>3. FlattenSeq(ss \o t) = FlattenSeq(ss) \o FlattenSeq(t)
    BY <1>4
  <2>4. (FlattenSeq(ss) \o FlattenSeq(t)) \o e = FlattenSeq(ss) \o (FlattenSeq(t) \o e)
    <3> DEFINE x == FlattenSeq(ss)
               y == FlattenSeq(t)
    <3>1. x \in Seq(S) /\ y \in Seq(S)
      BY <1>2, <2>2
    <3> HIDE DEF x, y
    <3>2. (x \o y) \o e = x \o (y \o e)
      BY <3>1, ConcatAssociative, SMTT(30)
    <3>3. QED
      BY <3>2 DEF x, y
  <2>5. QED
    BY <2>1, <2>2, <2>3, <2>4
<1> HIDE DEF G
<1>5. Seq(Seq(S)) \subseteq G
  BY <1>3, <1>4, AppendInduction
<1>6. tt \in G
  BY <1>5
<1>7. QED
  BY <1>2, <1>6 DEF G

(* A function applied to each element, and to those of each part.            *)
Maps(f, S, T) == \A x \in S : f[x] \in T
Mapped(f, s) == [i \in 1..Len(s) |-> f[s[i]]]
MappedEach(f, ss) == [i \in 1..Len(ss) |-> Mapped(f, ss[i])]

LEMMA MappedElements ==
  ASSUME NEW S, NEW T, NEW f, Maps(f, S, T), NEW s \in Seq(S)
  PROVE  /\ Mapped(f, s) \in Seq(T)
         /\ Len(Mapped(f, s)) = Len(s)
         /\ \A i \in 1..Len(s) : Mapped(f, s)[i] = f[s[i]]
<1>1. Len(s) \in Nat /\ \A i \in 1..Len(s) : f[s[i]] \in T
  BY LenProperties, ElementOfSeq DEF Maps
<1> DEFINE n == Len(s)
<1>2. Mapped(f, s) \in [1..n -> T] /\ \A i \in 1..n : Mapped(f, s)[i] = f[s[i]]
  BY <1>1 DEF Mapped
<1> HIDE DEF n
<1>3. n \in Nat
  BY <1>1 DEF n
<1>4. Mapped(f, s) \in Seq(T) /\ Len(Mapped(f, s)) = n
  BY <1>2, <1>3
<1>5. QED
  BY <1>2, <1>4 DEF n

LEMMA MappedAppend ==
  ASSUME NEW S, NEW T, NEW f, Maps(f, S, T), NEW s \in Seq(S), NEW e \in S
  PROVE  Mapped(f, Append(s, e)) = Append(Mapped(f, s), f[e])
<1> DEFINE a == Append(s, e)
           l == Mapped(f, a)
           m == Mapped(f, s)
           r == Append(m, f[e])
<1>1. a \in Seq(S) /\ Len(a) = Len(s) + 1 /\ Len(s) \in Nat /\ a[Len(s) + 1] = e /\ \A i \in 1..Len(s) : a[i] = s[i]
  BY AppendProperties, LenProperties
<1> HIDE DEF a
<1>2. l \in Seq(T) /\ Len(l) = Len(a) /\ \A i \in 1..Len(a) : l[i] = f[a[i]]
  BY <1>1, MappedElements
<1>3. m \in Seq(T) /\ Len(m) = Len(s) /\ \A i \in 1..Len(s) : m[i] = f[s[i]]
  BY MappedElements
<1> HIDE DEF l, m
<1>4. f[e] \in T
  BY DEF Maps
<1>5. r \in Seq(T) /\ Len(r) = Len(m) + 1 /\ r[Len(m) + 1] = f[e] /\ \A i \in 1..Len(m) : r[i] = m[i]
  BY <1>3, <1>4, AppendProperties
<1> HIDE DEF r
<1>6. Len(l) = Len(r)
  BY <1>1, <1>2, <1>3, <1>5
<1>7. ASSUME NEW i \in 1..Len(l) PROVE l[i] = r[i]
  <2>1. CASE i = Len(s) + 1
    BY <1>1, <1>2, <1>3, <1>5, <2>1
  <2>2. CASE i # Len(s) + 1
    <3>1. i \in 1..Len(s) /\ i \in 1..Len(a)
      BY <1>1, <1>2, <2>2
    <3>2. QED
      BY <1>1, <1>2, <1>3, <1>5, <3>1
  <2>3. QED
    BY <2>1, <2>2
<1>8. l = r
  BY <1>2, <1>5, <1>6, <1>7, SeqEqual
<1>9. QED
  BY <1>8 DEF l, r, m, a

(* Applying a function to nothing, one and two parts.                         *)
LEMMA MappedConcat ==
  ASSUME NEW S, NEW T, NEW f, Maps(f, S, T), NEW s \in Seq(S), NEW t \in Seq(S)
  PROVE  /\ Mapped(f, <<>>) = <<>>
         /\ Mapped(f, s \o t) = Mapped(f, s) \o Mapped(f, t)
<1> DEFINE G == {u \in Seq(S) : Mapped(f, s \o u) = Mapped(f, s) \o Mapped(f, u)}
<1>1. Mapped(f, <<>>) = <<>>
  BY DEF Mapped
<1>2. Mapped(f, s) \in Seq(T)
  BY MappedElements
<1>3. <<>> \in G
  <2>1. s \o <<>> = s /\ Mapped(f, s) \o <<>> = Mapped(f, s)
    BY <1>2, ConcatEmptySeq
  <2>2. <<>> \in Seq(S)
    OBVIOUS
  <2>3. QED
    BY <1>1, <2>1, <2>2
<1>4. ASSUME NEW u \in Seq(S), NEW e \in S, u \in G PROVE Append(u, e) \in G
  <2>1. /\ Append(u, e) \in Seq(S) /\ s \o u \in Seq(S)
        /\ s \o Append(u, e) = Append(s \o u, e)
    BY AppendProperties, ConcatProperties, AppendToConcat
  <2>2. /\ Mapped(f, u) \in Seq(T) /\ f[e] \in T
        /\ Mapped(f, Append(u, e)) = Append(Mapped(f, u), f[e])
        /\ Mapped(f, Append(s \o u, e)) = Append(Mapped(f, s \o u), f[e])
    <3>1. f[e] \in T
      BY DEF Maps
    <3>2. Mapped(f, u) \in Seq(T)
      BY MappedElements
    <3>3. Mapped(f, Append(u, e)) = Append(Mapped(f, u), f[e])
      BY MappedAppend
    <3>4. Mapped(f, Append(s \o u, e)) = Append(Mapped(f, s \o u), f[e])
      <4> DEFINE w == s \o u
      <4>1. w \in Seq(S)
        BY <2>1
      <4> HIDE DEF w
      <4>2. Mapped(f, Append(w, e)) = Append(Mapped(f, w), f[e])
        BY <4>1, MappedAppend
      <4>3. QED
        BY <4>2 DEF w
    <3>5. QED
      BY <3>1, <3>2, <3>3, <3>4
  <2>3. Mapped(f, s \o u) = Mapped(f, s) \o Mapped(f, u)
    BY <1>4
  <2>4. Mapped(f, s) \o Append(Mapped(f, u), f[e]) = Append(Mapped(f, s) \o Mapped(f, u), f[e])
    BY <1>2, <2>2, AppendToConcat
  <2>5. QED
    BY <2>1, <2>2, <2>3, <2>4
<1> HIDE DEF G
<1>5. Seq(S) \subseteq G
  BY <1>3, <1>4, AppendInduction
<1>6. t \in G
  BY <1>5
<1>7. QED
  BY <1>1, <1>6 DEF G

(* Flattening and applying a function commute.                                *)
LEMMA FlattenMapped ==
  ASSUME NEW S, NEW T, NEW f, Maps(f, S, T), NEW ss \in Seq(Seq(S))
  PROVE  FlattenSeq(MappedEach(f, ss)) = Mapped(f, FlattenSeq(ss))
<1> DEFINE g == [s \in Seq(S) |-> Mapped(f, s)]
           G == {tt \in Seq(Seq(S)) : FlattenSeq(Mapped(g, tt)) = Mapped(f, FlattenSeq(tt))}
<1>1. Maps(g, Seq(S), Seq(T)) /\ \A s \in Seq(S) : g[s] = Mapped(f, s)
  BY MappedElements DEF Maps
<1>2. <<>> \in Seq(S) /\ <<>> \in Seq(Seq(S))
  OBVIOUS
<1> HIDE DEF g
<1>3. <<>> \in G
  <2>1. Mapped(g, <<>>) = <<>> /\ Mapped(f, <<>>) = <<>>
    BY DEF Mapped
  <2>2. FlattenSeq(<<>>) = <<>>
    BY DEF FlattenSeq
  <2>3. QED
    BY <1>2, <2>1, <2>2
<1>4. ASSUME NEW tt \in Seq(Seq(S)), NEW e \in Seq(S), tt \in G PROVE Append(tt, e) \in G
  <2>1. Append(tt, e) \in Seq(Seq(S))
    BY AppendProperties
  <2>2. Mapped(g, Append(tt, e)) = Append(Mapped(g, tt), Mapped(f, e)) /\ Mapped(g, tt) \in Seq(Seq(T)) /\ Mapped(f, e) \in Seq(T)
    <3>1. Mapped(g, Append(tt, e)) = Append(Mapped(g, tt), g[e])
      BY <1>1, MappedAppend
    <3>2. Mapped(g, tt) \in Seq(Seq(T))
      BY <1>1, MappedElements
    <3>3. g[e] = Mapped(f, e) /\ Mapped(f, e) \in Seq(T)
      BY <1>1, MappedElements
    <3>4. QED
      BY <3>1, <3>2, <3>3
  <2>3. /\ FlattenSeq(Append(Mapped(g, tt), Mapped(f, e))) = FlattenSeq(Mapped(g, tt)) \o Mapped(f, e)
        /\ FlattenSeq(Append(tt, e)) = FlattenSeq(tt) \o e
        /\ FlattenSeq(tt) \in Seq(S)
    BY <2>2, FlattenAppend
  <2>4. Mapped(f, FlattenSeq(tt) \o e) = Mapped(f, FlattenSeq(tt)) \o Mapped(f, e)
    BY <2>3, MappedConcat
  <2>5. FlattenSeq(Mapped(g, tt)) = Mapped(f, FlattenSeq(tt))
    BY <1>4
  <2>6. QED
    BY <2>1, <2>2, <2>3, <2>4, <2>5
<1> HIDE DEF G
<1>5. ss \in G
  BY <1>3, <1>4, AppendInduction
<1>6. Mapped(g, ss) = MappedEach(f, ss)
  <2>1. \A i \in 1..Len(ss) : g[ss[i]] = Mapped(f, ss[i])
    BY <1>1, ElementOfSeq
  <2>2. QED
    BY <2>1 DEF Mapped, MappedEach
<1>7. QED
  BY <1>5, <1>6 DEF G

(* Flattening twice is flattening each part first.                            *)
LEMMA FlattenTwice ==
  ASSUME NEW S, NEW sss \in Seq(Seq(Seq(S)))
  PROVE  FlattenSeq([i \in 1..Len(sss) |-> FlattenSeq(sss[i])]) = FlattenSeq(FlattenSeq(sss))
<1> DEFINE g == [ss \in Seq(Seq(S)) |-> FlattenSeq(ss)]
           G == {ttt \in Seq(Seq(Seq(S))) : FlattenSeq(Mapped(g, ttt)) = FlattenSeq(FlattenSeq(ttt))}
<1>1. Maps(g, Seq(Seq(S)), Seq(S)) /\ \A ss \in Seq(Seq(S)) : g[ss] = FlattenSeq(ss)
  BY FlattenConcat DEF Maps
<1>2. <<>> \in Seq(S) /\ <<>> \in Seq(Seq(S)) /\ <<>> \in Seq(Seq(Seq(S)))
  OBVIOUS
<1> HIDE DEF g
<1>3. <<>> \in G
  <2>1. Mapped(g, <<>>) = <<>>
    BY DEF Mapped
  <2>2. FlattenSeq(<<>>) = <<>>
    BY DEF FlattenSeq
  <2>3. QED
    BY <1>2, <2>1, <2>2
<1>4. ASSUME NEW ttt \in Seq(Seq(Seq(S))), NEW e \in Seq(Seq(S)), ttt \in G PROVE Append(ttt, e) \in G
  <2>1. Append(ttt, e) \in Seq(Seq(Seq(S)))
    BY AppendProperties
  <2>2. /\ Mapped(g, Append(ttt, e)) = Append(Mapped(g, ttt), FlattenSeq(e))
        /\ Mapped(g, ttt) \in Seq(Seq(S)) /\ FlattenSeq(e) \in Seq(S)
    <3>1. Mapped(g, Append(ttt, e)) = Append(Mapped(g, ttt), g[e])
      BY <1>1, MappedAppend
    <3>2. Mapped(g, ttt) \in Seq(Seq(S))
      BY <1>1, MappedElements
    <3>3. g[e] = FlattenSeq(e) /\ FlattenSeq(e) \in Seq(S)
      BY <1>1, FlattenConcat
    <3>4. QED
      BY <3>1, <3>2, <3>3
  <2>3. /\ FlattenSeq(Append(Mapped(g, ttt), FlattenSeq(e))) = FlattenSeq(Mapped(g, ttt)) \o FlattenSeq(e)
        /\ FlattenSeq(Append(ttt, e)) = FlattenSeq(ttt) \o e
        /\ FlattenSeq(ttt) \in Seq(Seq(S))
    BY <2>2, FlattenAppend
  <2>4. FlattenSeq(FlattenSeq(ttt) \o e) = FlattenSeq(FlattenSeq(ttt)) \o FlattenSeq(e)
    BY <2>3, FlattenConcat
  <2>5. FlattenSeq(Mapped(g, ttt)) = FlattenSeq(FlattenSeq(ttt))
    BY <1>4
  <2>6. QED
    BY <2>1, <2>2, <2>3, <2>4, <2>5
<1> HIDE DEF G
<1>5. sss \in G
  BY <1>3, <1>4, AppendInduction
<1>6. Mapped(g, sss) = [i \in 1..Len(sss) |-> FlattenSeq(sss[i])]
  <2>1. \A i \in 1..Len(sss) : g[sss[i]] = FlattenSeq(sss[i])
    BY <1>1, ElementOfSeq
  <2>2. QED
    BY <2>1 DEF Mapped
<1>7. QED
  BY <1>5, <1>6 DEF G

(* Flattening sequences of one element each.                                  *)
LEMMA FlattenSingles ==
  ASSUME NEW S, NEW s \in Seq(S)
  PROVE  FlattenSeq([i \in 1..Len(s) |-> <<s[i]>>]) = s
<1> DEFINE g == [x \in S |-> <<x>>]
           G == {t \in Seq(S) : FlattenSeq(Mapped(g, t)) = t}
<1>1. Maps(g, S, Seq(S)) /\ \A x \in S : g[x] = <<x>>
  BY DEF Maps
<1>2. <<>> \in Seq(S) /\ <<>> \in Seq(Seq(S))
  OBVIOUS
<1> HIDE DEF g
<1>3. <<>> \in G
  <2>1. Mapped(g, <<>>) = <<>>
    BY DEF Mapped
  <2>2. FlattenSeq(<<>>) = <<>>
    BY DEF FlattenSeq
  <2>3. QED
    BY <1>2, <2>1, <2>2
<1>4. ASSUME NEW t \in Seq(S), NEW e \in S, t \in G PROVE Append(t, e) \in G
  <2>1. Append(t, e) \in Seq(S) /\ Append(t, e) = t \o <<e>> /\ <<e>> \in Seq(S)
    BY AppendProperties, AppendIsConcat
  <2>2. Mapped(g, Append(t, e)) = Append(Mapped(g, t), <<e>>) /\ Mapped(g, t) \in Seq(Seq(S))
    <3>1. Mapped(g, Append(t, e)) = Append(Mapped(g, t), g[e])
      BY <1>1, MappedAppend
    <3>2. Mapped(g, t) \in Seq(Seq(S))
      BY <1>1, MappedElements
    <3>3. g[e] = <<e>>
      BY <1>1
    <3>4. QED
      BY <3>1, <3>2, <3>3
  <2>3. FlattenSeq(Append(Mapped(g, t), <<e>>)) = FlattenSeq(Mapped(g, t)) \o <<e>>
    BY <2>1, <2>2, FlattenAppend
  <2>4. FlattenSeq(Mapped(g, t)) = t
    BY <1>4
  <2>5. QED
    BY <2>1, <2>2, <2>3, <2>4
<1> HIDE DEF G
<1>5. s \in G
  BY <1>3, <1>4, AppendInduction
<1>6. Mapped(g, s) = [i \in 1..Len(s) |-> <<s[i]>>]
  <2>1. \A i \in 1..Len(s) : g[s[i]] = <<s[i]>>
    BY <1>1, ElementOfSeq
  <2>2. QED
    BY <2>1 DEF Mapped
<1>7. QED
  BY <1>5, <1>6 DEF G

-----------------------------------------------------------------------------
(* Sorting.                                                                 *)

SortedBy(s, R) == \A i, j \in DOMAIN s : i < j => <<s[i], s[j]>> \in R
StrictOrder(R, S) ==
  /\ \A x \in S : <<x, x>> \notin R
  /\ \A x, y, z \in S : <<x, y>> \in R /\ <<y, z>> \in R => <<x, z>> \in R
  /\ \A x, y \in S : x = y \/ <<x, y>> \in R \/ <<y, x>> \in R

(* A finite set that is not empty has a last element in a strict order.      *)
LEMMA LastInOrder ==
  ASSUME NEW S, IsFiniteSet(S), NEW R, StrictOrder(R, S), S # {}
  PROVE  \E m \in S : \A x \in S : x # m => <<x, m>> \in R
<1> DEFINE HasLast(U) == \E m \in U : \A x \in U : x # m => <<x, m>> \in R
           n == Cardinality(S)
           T == {k \in 0..n : \A U \in SUBSET S : U # {} /\ Cardinality(U) = k => HasLast(U)}
<1>1. n \in Nat /\ \A U \in SUBSET S : IsFiniteSet(U) /\ Cardinality(U) \in Nat
  BY FS_CardinalityType, FS_Subset
<1>2. 0 \in T
  BY <1>1, FS_EmptySet
<1>3. ASSUME NEW k \in 1..n, k - 1 \in T PROVE k \in T
  <2> SUFFICES ASSUME NEW U \in SUBSET S, U # {}, Cardinality(U) = k PROVE HasLast(U)
    BY <1>1
  <2>1. PICK x \in U : TRUE
    OBVIOUS
  <2> DEFINE V == U \ {x}
  <2>2. V \in SUBSET S /\ Cardinality(V) = k - 1
    BY <1>1, <2>1, FS_RemoveElement
  <2>3. CASE V = {}
    BY <2>1, <2>3
  <2>4. CASE V # {}
    <3>1. PICK m \in V : \A y \in V : y # m => <<y, m>> \in R
      BY <1>3, <2>2, <2>4
    <3>2. CASE <<m, x>> \in R
      <4>1. \A y \in U : y # x => <<y, x>> \in R
        BY <3>1, <3>2 DEF StrictOrder
      <4>2. QED
        BY <2>1, <4>1
    <3>3. CASE <<x, m>> \in R
      <4>1. \A y \in U : y # m => <<y, m>> \in R
        BY <3>1, <3>3
      <4>2. QED
        BY <3>1, <4>1
    <3>4. m # x /\ m \in S /\ x \in S
      BY <2>1, <3>1
    <3>5. QED
      BY <3>2, <3>3, <3>4 DEF StrictOrder
  <2>5. QED
    BY <2>3, <2>4
<1> HIDE DEF HasLast
<1>4. 0..n \subseteq T
  <2> HIDE DEF T
  <2>1. QED
    BY <1>1, <1>2, <1>3, InductionUpTo
<1>5. HasLast(S)
  BY <1>1, <1>4
<1>6. QED
  BY <1>5 DEF HasLast

(* The elements of a finite set can be listed in a strict order.             *)
LEMMA SortedSequence ==
  ASSUME NEW S, IsFiniteSet(S), NEW R, StrictOrder(R, S)
  PROVE  \E s \in [1..Cardinality(S) -> S] : SortedBy(s, R)
<1> DEFINE Sortable(U) == \E s \in [1..Cardinality(U) -> U] : SortedBy(s, R)
           n == Cardinality(S)
           T == {k \in 0..n : \A U \in SUBSET S : Cardinality(U) = k => Sortable(U)}
<1>1. n \in Nat /\ \A U \in SUBSET S : IsFiniteSet(U) /\ Cardinality(U) \in Nat
  BY FS_CardinalityType, FS_Subset
<1>2. 0 \in T
  <2> SUFFICES ASSUME NEW U \in SUBSET S, Cardinality(U) = 0 PROVE Sortable(U)
    BY <1>1
  <2>1. [i \in 1..0 |-> i] \in [1..0 -> U]
    OBVIOUS
  <2>2. SortedBy([i \in 1..0 |-> i], R)
    BY DEF SortedBy
  <2>3. QED
    BY <2>1, <2>2
<1>3. ASSUME NEW k \in 1..n, k - 1 \in T PROVE k \in T
  <2> SUFFICES ASSUME NEW U \in SUBSET S, Cardinality(U) = k PROVE Sortable(U)
    BY <1>1
  <2>1. IsFiniteSet(U) /\ U # {} /\ StrictOrder(R, U)
    BY <1>1, FS_EmptySet DEF StrictOrder
  <2>2. PICK m \in U : \A x \in U : x # m => <<x, m>> \in R
    BY <2>1, LastInOrder
  <2> DEFINE V == U \ {m}
  <2>3. V \in SUBSET S /\ Cardinality(V) = k - 1
    BY <1>1, <2>2, FS_RemoveElement
  <2>4. PICK s \in [1..(k - 1) -> V] : SortedBy(s, R)
    BY <1>3, <2>3
  <2> DEFINE t == [i \in 1..k |-> IF i = k THEN m ELSE s[i]]
  <2>5. t \in [1..k -> U]
    BY <2>2, <2>4
  <2>6. SortedBy(t, R)
    <3> SUFFICES ASSUME NEW i \in 1..k, NEW j \in 1..k, i < j PROVE <<t[i], t[j]>> \in R
      BY DEF SortedBy
    <3>1. i \in 1..(k - 1) /\ t[i] = s[i] /\ s[i] \in V
      BY <2>4
    <3>2. CASE j = k
      BY <2>2, <3>1, <3>2
    <3>3. CASE j # k
      <4>1. j \in 1..(k - 1) /\ t[j] = s[j]
        BY <3>3
      <4>2. QED
        BY <2>4, <3>1, <4>1 DEF SortedBy
    <3>4. QED
      BY <3>2, <3>3
  <2>7. QED
    BY <2>5, <2>6
<1> HIDE DEF Sortable
<1>4. 0..n \subseteq T
  <2> HIDE DEF T
  <2>1. QED
    BY <1>1, <1>2, <1>3, InductionUpTo
<1>5. Sortable(S)
  BY <1>1, <1>4
<1>6. QED
  BY <1>5 DEF Sortable

(* A list of as many elements of S as S has, in a strict order, has them all. *)
LEMMA SortedIsComplete ==
  ASSUME NEW S, IsFiniteSet(S), NEW R, StrictOrder(R, S),
         NEW s \in [1..Cardinality(S) -> S], SortedBy(s, R)
  PROVE  Range(s) = S
<1> DEFINE n == Cardinality(S)
<1>1. n \in Nat /\ IsFiniteSet(1..n) /\ Cardinality(1..n) = n
  BY FS_CardinalityType, FS_Interval
<1>2. ASSUME NEW i \in 1..n, NEW j \in 1..n, s[i] = s[j] PROVE i = j
  <2>1. s[i] \in S /\ <<s[i], s[i]>> \notin R
    BY DEF StrictOrder
  <2>2. ~(i < j) /\ ~(j < i)
    BY <1>2, <2>1 DEF SortedBy
  <2>3. QED
    BY <1>1, <2>2
<1>3. s \in Injection(1..n, S)
  BY <1>2 DEF Injection, IsInjective
<1>4. s \in Surjection(1..n, S)
  BY <1>1, <1>3, FS_Injection
<1>5. QED
  BY <1>4 DEF Surjection, Range
=============================================================================
