---------------------------- MODULE RulesProofs -----------------------------
(***************************************************************************)
(* Proofs about the code that keeps no state.  CatalogueReads: the order of a    *)
(* hybrid search, for any catalogue and recalls, and what the pages of a listing   *)
(* show, for any list and page size.  Rules: what the catalogue gets from a page,   *)
(* however many cigars are in the pack, and what the scans of indexes and shops     *)
(* find, for any index and any shop that numbers its pages, and what the extractors   *)
(* read, for any list of prices in any of its forms.                                  *)
(***************************************************************************)
EXTENDS CatalogueReads, Rules, SequenceLemmas

-----------------------------------------------------------------------------
(* Elements that are kept.                                                  *)

\* The values of the recursive function in Kept.
KeptUpTo(k, s, S) ==
  /\ DOMAIN k = 0..Len(s)
  /\ k[0] = <<>>
  /\ \A n \in 1..Len(s) : k[n] = IF s[n] \in S THEN Append(k[n - 1], s[n]) ELSE k[n - 1]

LEMMA KeptIterates ==
  ASSUME NEW T, NEW s \in Seq(T), NEW S
  PROVE  \E k : KeptUpTo(k, s, S) /\ Kept(s, S) = k[Len(s)]
<1> DEFINE len == Len(s)
           Body(f) == [n \in 0..len |->
                         IF n = 0 THEN <<>>
                         ELSE IF s[n] \in S THEN Append(f[n - 1], s[n]) ELSE f[n - 1]]
           kept == CHOOSE f : f = Body(f)
           step == [x \in (1..len) \X Seq(T) |->
                      IF s[x[1]] \in S THEN Append(x[2], s[x[1]]) ELSE x[2]]
<1>1. len \in Nat /\ \A n \in 1..len : s[n] \in T
  BY LenProperties, ElementOfSeq
<1>2. Kept(s, S) = kept[len]
  BY DEF Kept
<1> HIDE DEF len
<1>3. step \in [(1..len) \X Seq(T) -> Seq(T)] /\ <<>> \in Seq(T)
  BY <1>1, AppendProperties
<1>4. PICK g : Iterates(g, len, Seq(T), <<>>, step)
  <2> HIDE DEF step
  <2>1. QED
    BY <1>1, <1>3, Iteration
<1>5. /\ g \in [0..len -> Seq(T)] /\ g[0] = <<>>
      /\ \A n \in 1..len : g[n] = step[<<n, g[n - 1]>>]
  BY <1>4 DEF Iterates
<1>6. \A n \in 1..len : g[n] = IF s[n] \in S THEN Append(g[n - 1], s[n]) ELSE g[n - 1]
  <2> TAKE n \in 1..len
  <2>1. n - 1 \in 0..len /\ g[n - 1] \in Seq(T)
    BY <1>1, <1>5
  <2>2. QED
    BY <1>5, <2>1
<1> HIDE DEF step
<1>7. g = Body(g)
  <2>1. \A n \in 0..len : g[n] = IF n = 0 THEN <<>>
                                  ELSE IF s[n] \in S THEN Append(g[n - 1], s[n]) ELSE g[n - 1]
    <3> TAKE n \in 0..len
    <3>1. n = 0 \/ n \in 1..len
      BY <1>1
    <3>2. QED
      BY <1>1, <1>5, <1>6, <3>1
  <2>2. g = [n \in 0..len |-> g[n]]
    BY <1>5
  <2>3. QED
    BY <2>1, <2>2
<1>8. kept = Body(kept)
  BY <1>7
<1> HIDE DEF kept
<1>9. /\ DOMAIN kept = 0..len
      /\ \A n \in 0..len : kept[n] = IF n = 0 THEN <<>>
                                  ELSE IF s[n] \in S THEN Append(kept[n - 1], s[n]) ELSE kept[n - 1]
  <2>1. DOMAIN Body(kept) = 0..len
    OBVIOUS
  <2>2. \A n \in 0..len : Body(kept)[n] = IF n = 0 THEN <<>>
                                  ELSE IF s[n] \in S THEN Append(kept[n - 1], s[n]) ELSE kept[n - 1]
    OBVIOUS
  <2> HIDE DEF Body
  <2>3. QED
    BY <1>8, <2>1, <2>2
<1>10. kept[0] = <<>>
  BY <1>1, <1>9
<1>11. \A n \in 1..len : kept[n] = IF s[n] \in S THEN Append(kept[n - 1], s[n]) ELSE kept[n - 1]
  <2> TAKE n \in 1..len
  <2>1. n \in 0..len /\ n # 0
    BY <1>1
  <2>2. QED
    BY <1>9, <2>1
<1>12. KeptUpTo(kept, s, S)
  BY <1>9, <1>10, <1>11 DEF KeptUpTo, len
<1>13. QED
  BY <1>2, <1>12 DEF len

(* What is kept of a sequence: the elements that are in S, in their order.    *)
LEMMA KeptElements ==
  ASSUME NEW T, NEW s \in Seq(T), NEW S
  PROVE  /\ Kept(s, S) \in Seq(T)
         /\ Range(Kept(s, S)) = Range(s) \intersect S
         /\ \A R : SortedBy(s, R) => SortedBy(Kept(s, S), R)
<1> DEFINE len == Len(s)
<1>1. /\ len \in Nat /\ DOMAIN s = 1..len
      /\ \A n \in 1..len : s[n] \in T
  BY LenProperties, ElementOfSeq
<1>2. PICK k : KeptUpTo(k, s, S) /\ Kept(s, S) = k[len]
  BY KeptIterates
<1> HIDE DEF len
<1> DEFINE From(n) == {s[i] : i \in 1..n} \intersect S
           Good(n) == /\ k[n] \in Seq(T)
                      /\ Range(k[n]) = From(n)
                      /\ \A R : SortedBy(s, R) => SortedBy(k[n], R)
           G == {n \in 0..len : Good(n)}
<1>3. Good(0)
  <2>1. k[0] = <<>> /\ <<>> \in Seq(T) /\ DOMAIN <<>> = {}
    BY <1>2 DEF KeptUpTo
  <2>2. Range(k[0]) = {} /\ From(0) = {}
    BY <2>1 DEF Range
  <2>3. \A R : SortedBy(k[0], R)
    BY <2>1 DEF SortedBy
  <2>4. QED
    BY <2>1, <2>2, <2>3
<1>4. ASSUME NEW n \in 1..len, Good(n - 1) PROVE Good(n)
  <2>1. k[n] = IF s[n] \in S THEN Append(k[n - 1], s[n]) ELSE k[n - 1]
    BY <1>2 DEF KeptUpTo, len
  <2>2. 1..n = (1..(n - 1)) \cup {n}
    BY <1>1
  <2>3. CASE s[n] \notin S
    <3>1. From(n) = From(n - 1)
      BY <2>2, <2>3
    <3>2. k[n] = k[n - 1]
      BY <2>1, <2>3
    <3>3. QED
      BY <1>4, <3>1, <3>2
  <2>4. CASE s[n] \in S
    <3> DEFINE p == k[n - 1]
               t == Append(p, s[n])
    <3>1. k[n] = t
      BY <2>1, <2>4
    <3>2. From(n) = From(n - 1) \cup {s[n]}
      BY <2>2, <2>4
    <3>3. /\ t \in Seq(T)
          /\ Len(p) \in Nat /\ DOMAIN p = 1..Len(p) /\ DOMAIN t = 1..(Len(p) + 1)
          /\ \A i \in 1..Len(p) : t[i] = p[i]
          /\ t[Len(p) + 1] = s[n]
      BY <1>1, <1>4, AppendProperties, LenProperties
    <3>4. Range(t) = Range(p) \cup {s[n]}
      BY <1>1, <1>4, RangeOfAppend
    <3>5. ASSUME NEW R, SortedBy(s, R) PROVE SortedBy(t, R)
      <4> SUFFICES ASSUME NEW i \in 1..(Len(p) + 1), NEW j \in 1..(Len(p) + 1), i < j
                   PROVE  <<t[i], t[j]>> \in R
        BY <3>3 DEF SortedBy
      <4>1. i \in 1..Len(p) /\ t[i] = p[i]
        BY <3>3
      <4>2. CASE j \in 1..Len(p)
        BY <1>4, <3>3, <3>5, <4>1, <4>2 DEF SortedBy
      <4>3. CASE j = Len(p) + 1
        <5>1. p[i] \in From(n - 1)
          BY <1>4, <3>3, <4>1 DEF Range
        <5>2. PICK m \in 1..(n - 1) : p[i] = s[m]
          BY <5>1
        <5>3. m \in 1..len /\ m < n
          BY <1>1
        <5>4. <<s[m], s[n]>> \in R
          BY <1>1, <3>5, <5>3 DEF SortedBy
        <5>5. QED
          BY <3>3, <4>1, <4>3, <5>2, <5>4
      <4>4. Len(p) \in Nat
        BY <3>3
      <4>5. j \in 1..Len(p) \/ j = Len(p) + 1
        BY <4>4
      <4>6. QED
        BY <4>2, <4>3, <4>5
    <3> HIDE DEF t, From
    <3>6. QED
      BY <1>4, <3>1, <3>2, <3>3, <3>4, <3>5
  <2>5. QED
    BY <2>3, <2>4
<1> HIDE DEF Good
<1>5. 0 \in G /\ \A n \in 1..len : n - 1 \in G => n \in G
  BY <1>1, <1>3, <1>4
<1>6. 0..len \subseteq G
  <2> HIDE DEF G
  <2>1. QED
    BY <1>1, <1>5, InductionUpTo
<1>7. Good(len)
  BY <1>1, <1>6
<1>8. From(len) = Range(s) \intersect S
  BY <1>1 DEF Range
<1>9. QED
  BY <1>2, <1>7, <1>8 DEF Good

LEMMA SeqOfValues ==
  ASSUME NEW T, NEW n \in Nat, NEW s, \A i \in 1..n : s[i] \in T
  PROVE  /\ [i \in 1..n |-> s[i]] \in Seq(T)
         /\ Len([i \in 1..n |-> s[i]]) = n
         /\ \A i \in 1..n : [j \in 1..n |-> s[j]][i] = s[i]
<1> DEFINE f == [i \in 1..n |-> s[i]]
<1>1. f \in [1..n -> T]
  OBVIOUS
<1>2. \A i \in 1..n : f[i] = s[i]
  OBVIOUS
<1> HIDE DEF f
<1>3. f \in Seq(T) /\ Len(f) = n
  BY <1>1
<1>4. QED
  BY <1>2, <1>3 DEF f

(* Who keeps every element keeps the sequence.                                *)
LEMMA KeptAll ==
  ASSUME NEW T, NEW s \in Seq(T)
  PROVE  Kept(s, Range(s)) = s
<1> DEFINE len == Len(s)
           upto(n) == [i \in 1..n |-> s[i]]
<1>1. /\ len \in Nat /\ DOMAIN s = 1..len /\ s = [i \in 1..len |-> s[i]]
      /\ \A n \in 1..len : s[n] \in T /\ s[n] \in Range(s)
  BY LenProperties, ElementOfSeq DEF Range
<1>2. PICK k : KeptUpTo(k, s, Range(s)) /\ Kept(s, Range(s)) = k[len]
  BY KeptIterates
<1> HIDE DEF len
<1> DEFINE G == {n \in 0..len : k[n] = upto(n)}
<1>3. 0 \in G
  BY <1>1, <1>2 DEF KeptUpTo
<1>4. ASSUME NEW n \in 1..len, n - 1 \in G PROVE n \in G
  <2> DEFINE p == upto(n - 1)
  <2>1. k[n] = Append(p, s[n])
    BY <1>1, <1>2, <1>4 DEF KeptUpTo, len
  <2>2. p \in Seq(T) /\ Len(p) = n - 1 /\ \A i \in 1..(n - 1) : p[i] = s[i]
    <3>1. n - 1 \in Nat /\ \A i \in 1..(n - 1) : s[i] \in T
      BY <1>1
    <3>2. QED
      BY <3>1, SeqOfValues
  <2> HIDE DEF p
  <2>4. /\ Append(p, s[n]) \in Seq(T) /\ Len(Append(p, s[n])) = n
        /\ \A i \in 1..(n - 1) : Append(p, s[n])[i] = p[i]
        /\ Append(p, s[n])[n] = s[n]
    <3>1. n \in Nat /\ (n - 1) + 1 = n /\ s[n] \in T
      BY <1>1
    <3>2. QED
      BY <2>2, <3>1, AppendProperties
  <2>5. upto(n) \in Seq(T) /\ Len(upto(n)) = n /\ \A i \in 1..n : upto(n)[i] = s[i]
    <3>1. n \in Nat /\ \A i \in 1..n : s[i] \in T
      BY <1>1
    <3>2. QED
      BY <3>1, SeqOfValues
  <2> HIDE DEF upto
  <2>6. \A i \in 1..n : i = n \/ i \in 1..(n - 1)
    BY <1>1
  <2>7. Append(p, s[n]) = upto(n)
    <3> DEFINE t == Append(p, s[n])
    <3> HIDE DEF t
    <3>1. \A i \in 1..n : t[i] = upto(n)[i]
      BY <2>2, <2>4, <2>5, <2>6 DEF t
    <3>2. t \in Seq(T) /\ Len(t) = n /\ upto(n) \in Seq(T) /\ Len(upto(n)) = n
      BY <2>4, <2>5 DEF t
    <3>3. t = upto(n)
      BY <3>1, <3>2, SeqEqual
    <3>4. QED
      BY <3>3 DEF t
  <2>8. n \in 0..len
    BY <1>1
  <2>9. QED
    BY <2>1, <2>7, <2>8
<1>5. 0..len \subseteq G
  <2> HIDE DEF G
  <2>1. QED
    BY <1>1, <1>3, <1>4, InductionUpTo
<1>6. k[len] = upto(len)
  BY <1>1, <1>5
<1>7. QED
  BY <1>1, <1>2, <1>6

-----------------------------------------------------------------------------
(* Scores as fractions.                                                     *)

Fractions == Nat \X (Nat \ {0})

(* The comparison by cross products is a weak order.                         *)
LEMMA LessIsAnOrder ==
  ASSUME NEW x \in Fractions, NEW y \in Fractions, NEW z \in Fractions
  PROVE  /\ ~Less(x, x)
         /\ Less(x, y) => ~Less(y, x)
         /\ ~Less(y, x) /\ ~Less(z, y) => ~Less(z, x)
         /\ Less(x, y) /\ ~Less(z, y) => Less(x, z)
         /\ ~Less(y, x) /\ Less(y, z) => Less(x, z)
<1> DEFINE a == x[1]
           b == x[2]
           c == y[1]
           d == y[2]
           e == z[1]
           f == z[2]
<1>1. /\ a \in Nat /\ c \in Nat /\ e \in Nat
      /\ b \in Nat /\ d \in Nat /\ f \in Nat /\ b > 0 /\ d > 0 /\ f > 0
  BY DEF Fractions
<1>2. /\ Less(x, x) <=> a * b < a * b
      /\ Less(x, y) <=> a * d < c * b
      /\ Less(y, x) <=> c * b < a * d
      /\ Less(y, z) <=> c * f < e * d
      /\ Less(z, y) <=> e * d < c * f
      /\ Less(x, z) <=> a * f < e * b
      /\ Less(z, x) <=> e * b < a * f
  BY DEF Less
<1> HIDE DEF a, b, c, d, e, f
<1>3. /\ a * d \in Nat /\ c * b \in Nat /\ c * f \in Nat /\ e * d \in Nat
      /\ a * f \in Nat /\ e * b \in Nat /\ a * b \in Nat
  BY <1>1
<1>4. /\ (a * d) * f = (a * f) * d
      /\ (c * b) * f = (c * f) * b
      /\ (e * d) * b = (e * b) * d
  BY <1>1
<1>5. \A m, n, k \in Nat : k > 0 => ((m * k < n * k) <=> m < n)
  OBVIOUS
<1>6. /\ a * d < c * b <=> (a * d) * f < (c * b) * f
      /\ c * b < a * d <=> (c * b) * f < (a * d) * f
      /\ c * f < e * d <=> (c * f) * b < (e * d) * b
      /\ e * d < c * f <=> (e * d) * b < (c * f) * b
      /\ a * f < e * b <=> (a * f) * d < (e * b) * d
      /\ e * b < a * f <=> (e * b) * d < (a * f) * d
  BY <1>1, <1>3, <1>5
<1> DEFINE u == (a * d) * f
           v == (c * b) * f
           w == (e * d) * b
<1>7. u \in Nat /\ v \in Nat /\ w \in Nat
  BY <1>1, <1>3
<1>8. /\ a * d < c * b <=> u < v
      /\ c * b < a * d <=> v < u
      /\ c * f < e * d <=> v < w
      /\ e * d < c * f <=> w < v
      /\ a * f < e * b <=> u < w
      /\ e * b < a * f <=> w < u
  BY <1>4, <1>6
<1> HIDE DEF u, v, w
<1>9. QED
  BY <1>2, <1>3, <1>7, <1>8

LEMMA RankIsPlace ==
  ASSUME NEW T, NEW s \in Seq(T), NEW c \in Range(s)
  PROVE  Rank(c, s) \in 1..Len(s) /\ s[Rank(c, s)] = c
<1>1. DOMAIN s = 1..Len(s)
  BY LenProperties
<1>2. \E i \in 1..Len(s) : s[i] = c
  BY <1>1 DEF Range
<1>3. QED
  BY <1>2 DEF Rank

(* What a ranking contributes to the score of a cigar.                       *)
LEMMA PartOfScore ==
  ASSUME NEW T, NEW s \in Seq(T), NEW c
  PROVE  /\ Part(c, s) \in Fractions
         /\ c \in Range(s) => /\ Rank(c, s) \in Nat \ {0} /\ Rank(c, s) <= Len(s)
                              /\ Part(c, s) = <<1, 60 + Rank(c, s)>>
         /\ c \notin Range(s) => Part(c, s) = <<0, 1>>
<1>1. CASE c \in Range(s)
  <2>1. Rank(c, s) \in 1..Len(s) /\ Len(s) \in Nat
    BY <1>1, RankIsPlace, LenProperties
  <2>2. Rank(c, s) \in Nat \ {0} /\ Rank(c, s) <= Len(s) /\ 60 + Rank(c, s) \in Nat \ {0}
    BY <2>1
  <2>3. QED
    BY <1>1, <2>2 DEF Part, RrfConstant, Fractions
<1>2. CASE c \notin Range(s)
  BY <1>2 DEF Part, Zero, Fractions
<1>3. QED
  BY <1>1, <1>2

LEMMA ScoreIsFraction ==
  ASSUME NEW T, NEW ft \in Seq(T), NEW vec \in Seq(T), NEW c
  PROVE  Score(c, ft, vec) \in Fractions
<1> DEFINE x == Part(c, ft)
           y == Part(c, vec)
<1>1. /\ x[1] \in Nat /\ y[1] \in Nat /\ x[2] \in Nat \ {0} /\ y[2] \in Nat \ {0}
  BY PartOfScore DEF Fractions
<1>2. Score(c, ft, vec) = <<x[1] * y[2] + y[1] * x[2], x[2] * y[2]>>
  BY DEF Score, Plus
<1> HIDE DEF x, y
<1>3. \A m, n \in Nat \ {0} : m * n \in Nat \ {0}
  OBVIOUS
<1>4. \A m, n \in Nat : m * n \in Nat
  OBVIOUS
<1>5. x[1] * y[2] + y[1] * x[2] \in Nat /\ x[2] * y[2] \in Nat \ {0}
  <2>1. x[1] * y[2] \in Nat /\ y[1] * x[2] \in Nat /\ x[2] * y[2] \in Nat \ {0}
    BY <1>1, <1>3, <1>4
  <2>2. QED
    BY <2>1
<1>6. QED
  BY <1>2, <1>5 DEF Fractions

-----------------------------------------------------------------------------
(* The order of the hits.                                                   *)

Hits(ft, vec) == Range(ft) \cup Range(vec)
Order(ft, vec) == {x \in Hits(ft, vec) \X Hits(ft, vec) : Before(x[1], x[2], ft, vec)}

LEMMA EnteredHits ==
  ASSUME NEW T, NEW ft \in Seq(T), NEW vec \in Seq(T)
  PROVE  Entered(ft, vec) \in Seq(T) /\ Range(Entered(ft, vec)) = Hits(ft, vec)
<1> DEFINE rest == Kept(vec, Range(vec) \ Range(ft))
<1>1. rest \in Seq(T) /\ Range(rest) = Range(vec) \intersect (Range(vec) \ Range(ft))
  BY KeptElements
<1>2. Entered(ft, vec) = ft \o rest
  BY DEF Entered
<1> HIDE DEF rest
<1>3. Range(ft \o rest) = Range(ft) \cup Range(rest) /\ ft \o rest \in Seq(T)
  BY <1>1, RangeOfConcat
<1>4. QED
  BY <1>1, <1>2, <1>3 DEF Hits

(* Scores, then the order of entry, order the hits.                          *)
LEMMA BeforeIsAnOrder ==
  ASSUME NEW T, NEW ft \in Seq(T), NEW vec \in Seq(T)
  PROVE  StrictOrder(Order(ft, vec), Hits(ft, vec))
<1> DEFINE S == Hits(ft, vec)
           score(c) == Score(c, ft, vec)
           place(c) == Rank(c, Entered(ft, vec))
<1>1. ASSUME NEW c \in S
      PROVE  score(c) \in Fractions /\ place(c) \in Nat /\ Entered(ft, vec)[place(c)] = c
  <2>1. place(c) \in 1..Len(Entered(ft, vec)) /\ Entered(ft, vec)[place(c)] = c
    BY EnteredHits, RankIsPlace
  <2>2. QED
    BY <2>1, ScoreIsFraction
<1>2. \A c, d \in S : Before(c, d, ft, vec) <=>
         \/ Less(score(d), score(c))
         \/ ~Less(score(c), score(d)) /\ place(c) < place(d)
  BY DEF Before
<1>3. \A c, d \in S : place(c) = place(d) => c = d
  BY <1>1
<1> HIDE DEF score, place
<1>4. ASSUME NEW c \in S PROVE <<c, c>> \notin Order(ft, vec)
  <2>1. ~Less(score(c), score(c)) /\ ~(place(c) < place(c))
    BY <1>1, LessIsAnOrder
  <2>2. QED
    BY <1>2, <2>1 DEF Order
<1>5. ASSUME NEW c \in S, NEW d \in S, NEW e \in S,
             Before(c, d, ft, vec), Before(d, e, ft, vec)
      PROVE  Before(c, e, ft, vec)
  <2>1. /\ score(c) \in Fractions /\ score(d) \in Fractions /\ score(e) \in Fractions
        /\ place(c) \in Nat /\ place(d) \in Nat /\ place(e) \in Nat
    BY <1>1
  <2>2. /\ Less(score(d), score(c)) => ~Less(score(c), score(d))
        /\ Less(score(e), score(d)) => ~Less(score(d), score(e))
        /\ ~Less(score(c), score(d)) /\ ~Less(score(d), score(e)) => ~Less(score(c), score(e))
        /\ Less(score(d), score(c)) /\ ~Less(score(d), score(e)) => Less(score(e), score(c))
        /\ Less(score(e), score(d)) /\ ~Less(score(c), score(d)) => Less(score(e), score(c))
    BY <2>1, LessIsAnOrder
  <2>3. place(c) < place(d) /\ place(d) < place(e) => place(c) < place(e)
    BY <2>1
  <2>4. QED
    BY <1>2, <1>5, <2>2, <2>3
<1>6. ASSUME NEW c \in S, NEW d \in S, c # d
      PROVE  Before(c, d, ft, vec) \/ Before(d, c, ft, vec)
  <2>1. place(c) < place(d) \/ place(d) < place(c)
    BY <1>1, <1>3, <1>6
  <2>2. QED
    BY <1>2, <2>1
<1>7. QED
  BY <1>4, <1>5, <1>6 DEF StrictOrder, Order

(* The sorted hits are all the hits, each of them once.                       *)
LEMMA OrderedHits ==
  ASSUME NEW T, IsFiniteSet(T), NEW ft \in Seq(T), NEW vec \in Seq(T)
  PROVE  /\ Ordered(ft, vec) \in Seq(Hits(ft, vec))
         /\ Len(Ordered(ft, vec)) = Cardinality(Hits(ft, vec))
         /\ Range(Ordered(ft, vec)) = Hits(ft, vec)
         /\ SortedBy(Ordered(ft, vec), Order(ft, vec))
<1> DEFINE S == Hits(ft, vec)
           R == Order(ft, vec)
           n == Cardinality(S)
           sorted(s) == \A i, j \in 1..n : i < j => Before(s[i], s[j], ft, vec)
<1>1. IsFiniteSet(S) /\ n \in Nat
  <2>1. S \subseteq T
    BY RangeInType DEF Hits
  <2>2. QED
    BY <2>1, FS_Subset, FS_CardinalityType
<1>2. StrictOrder(R, S)
  BY BeforeIsAnOrder
<1>3. Ordered(ft, vec) = CHOOSE s \in [1..n -> S] : sorted(s)
  BY DEF Ordered, Hits
<1>4. ASSUME NEW s \in [1..n -> S] PROVE sorted(s) <=> SortedBy(s, R)
  <2>1. \A i, j \in 1..n : <<s[i], s[j]>> \in R <=> Before(s[i], s[j], ft, vec)
    BY DEF Order
  <2>2. QED
    BY <2>1 DEF SortedBy
<1> HIDE DEF S, R, n
<1>5. \E s \in [1..n -> S] : sorted(s)
  <2>1. \E s \in [1..n -> S] : SortedBy(s, R)
    BY <1>1, <1>2, SortedSequence DEF n
  <2>2. QED
    BY <1>4, <2>1
<1>6. Ordered(ft, vec) \in [1..n -> S] /\ SortedBy(Ordered(ft, vec), R)
  <2> HIDE DEF sorted
  <2>1. Ordered(ft, vec) \in [1..n -> S] /\ sorted(Ordered(ft, vec))
    BY <1>3, <1>5
  <2>2. QED
    BY <1>4, <2>1
<1>7. Range(Ordered(ft, vec)) = S
  BY <1>1, <1>2, <1>6, SortedIsComplete DEF n
<1>8. Ordered(ft, vec) \in Seq(S) /\ Len(Ordered(ft, vec)) = n
  BY <1>1, <1>6
<1>9. QED
  BY <1>6, <1>7, <1>8 DEF S, R, n

-----------------------------------------------------------------------------
(* The fusion.                                                              *)

(* 1/z < 1/x + 1/y as long as x and y are less than twice as large as z can be. *)
LEMMA TwoBeatOne ==
  ASSUME NEW x \in 61..121, NEW y \in 61..121, NEW z \in Nat, z >= 61
  PROVE  x * y < (y + x) * z
<1>1. x * y <= 121 * y /\ x * y <= 121 * x
  <2>1. \A m, n, k \in Nat : m <= n => m * k <= n * k
    OBVIOUS
  <2>2. x * y <= 121 * y /\ y * x <= 121 * x
    BY <2>1
  <2>3. x * y = y * x
    OBVIOUS
  <2>4. QED
    BY <2>2, <2>3
<1>2. x * y < 61 * (y + x)
  <2> DEFINE p == x * y
  <2>1. p \in Nat
    OBVIOUS
  <2>2. p <= 121 * y /\ p <= 121 * x
    BY <1>1
  <2> HIDE DEF p
  <2>3. p < 61 * (y + x)
    BY <2>1, <2>2
  <2>4. QED
    BY <2>3 DEF p
<1>3. 61 * (y + x) <= z * (y + x) /\ z * (y + x) = (y + x) * z
  <2>1. \A m, n, k \in Nat : m <= n => m * k <= n * k
    OBVIOUS
  <2>2. y + x \in Nat
    OBVIOUS
  <2>3. QED
    BY <2>1, <2>2
<1>4. x * y \in Nat /\ 61 * (y + x) \in Nat /\ z * (y + x) \in Nat
  OBVIOUS
<1>5. QED
  BY <1>2, <1>3, <1>4

(* 1/v + 1/w < 1/x + 1/y if x < v and y < w.                                   *)
LEMMA BetterTwice ==
  ASSUME NEW x \in Nat \ {0}, NEW y \in Nat \ {0}, NEW v \in Nat, NEW w \in Nat, x < v, y < w
  PROVE  (w + v) * (x * y) < (y + x) * (v * w)
<1> DEFINE a == v * x
           b == w * y
<1>1. a \in Nat \ {0} /\ b \in Nat \ {0}
  <2>1. \A m, n \in Nat \ {0} : m * n \in Nat \ {0}
    OBVIOUS
  <2>2. v \in Nat \ {0} /\ w \in Nat \ {0}
    OBVIOUS
  <2>3. QED
    BY <2>1, <2>2
<1>2. (w + v) * (x * y) = b * x + a * y
  OBVIOUS
<1>3. (y + x) * (v * w) = b * v + a * w
  OBVIOUS
<1> HIDE DEF a, b
<1>4. b * x < b * v /\ a * y < a * w
  <2>1. \A k \in Nat \ {0}, m, n \in Nat : m < n => k * m < k * n
    OBVIOUS
  <2>2. QED
    BY <1>1, <2>1
<1>5. b * x \in Nat /\ b * v \in Nat /\ a * y \in Nat /\ a * w \in Nat
  BY <1>1
<1>6. QED
  BY <1>2, <1>3, <1>4, <1>5

(* With recalls of at most 61 cigars, one that both branches found scores more *)
(* than one that one branch found, and more than one that it beats in both.     *)
LEMMA BothBranchesCount ==
  ASSUME NEW T, NEW ft \in Seq(T), NEW vec \in Seq(T), Len(ft) <= 61, Len(vec) <= 61,
         NEW c \in Range(ft) \intersect Range(vec), NEW d \in Hits(ft, vec),
         \/ d \notin Range(ft) \intersect Range(vec)
         \/ Rank(c, ft) < Rank(d, ft) /\ Rank(c, vec) < Rank(d, vec)
  PROVE  Less(Score(d, ft, vec), Score(c, ft, vec))
<1> DEFINE x == 60 + Rank(c, ft)
           y == 60 + Rank(c, vec)
           v == 60 + Rank(d, ft)
           w == 60 + Rank(d, vec)
<1>1. Len(ft) \in Nat /\ Len(vec) \in Nat
  BY LenProperties
<1>2. x \in 61..121 /\ Part(c, ft) = <<1, x>>
  <2>1. Rank(c, ft) \in Nat \ {0} /\ Rank(c, ft) <= Len(ft) /\ Part(c, ft) = <<1, x>>
    BY PartOfScore
  <2>2. \A k \in Nat \ {0} : k <= Len(ft) => 60 + k \in 61..121
    BY <1>1
  <2>3. QED
    BY <2>1, <2>2
<1>3. y \in 61..121 /\ Part(c, vec) = <<1, y>>
  <2>1. Rank(c, vec) \in Nat \ {0} /\ Rank(c, vec) <= Len(vec) /\ Part(c, vec) = <<1, y>>
    BY PartOfScore
  <2>2. \A k \in Nat \ {0} : k <= Len(vec) => 60 + k \in 61..121
    BY <1>1
  <2>3. QED
    BY <2>1, <2>2
<1>4. d \in Range(ft) => v \in Nat /\ v >= 61 /\ Part(d, ft) = <<1, v>>
  BY <1>1, PartOfScore
<1>5. d \in Range(vec) => w \in Nat /\ w >= 61 /\ Part(d, vec) = <<1, w>>
  BY <1>1, PartOfScore
<1>6. /\ d \notin Range(ft) => Part(d, ft) = <<0, 1>>
      /\ d \notin Range(vec) => Part(d, vec) = <<0, 1>>
  BY PartOfScore
<1>7. Score(c, ft, vec) = <<1 * y + 1 * x, x * y>>
  BY <1>2, <1>3 DEF Score, Plus
<1>8. d \in Range(ft) \intersect Range(vec) =>
        x < v /\ y < w /\ Score(d, ft, vec) = <<1 * w + 1 * v, v * w>>
  <2>1. SUFFICES ASSUME d \in Range(ft) \intersect Range(vec)
                 PROVE  x < v /\ y < w /\ Score(d, ft, vec) = <<1 * w + 1 * v, v * w>>
    OBVIOUS
  <2>2. Score(d, ft, vec) = <<1 * w + 1 * v, v * w>>
    BY <1>4, <1>5, <2>1 DEF Score, Plus
  <2>3. /\ Rank(c, ft) \in Nat /\ Rank(c, vec) \in Nat
        /\ Rank(d, ft) \in Nat /\ Rank(d, vec) \in Nat
    BY <2>1, PartOfScore
  <2>4. x < v /\ y < w
    BY <2>1, <2>3
  <2>5. QED
    BY <2>2, <2>4
<1>9. d \notin Range(vec) => d \in Range(ft) /\ Score(d, ft, vec) = <<1 * 1 + 0 * v, v * 1>>
  BY <1>4, <1>6 DEF Score, Plus, Hits
<1>10. d \notin Range(ft) => d \in Range(vec) /\ Score(d, ft, vec) = <<0 * w + 1 * 1, 1 * w>>
  BY <1>5, <1>6 DEF Score, Plus, Hits
<1> HIDE DEF x, y, v, w
<1>11. CASE d \in Range(ft) \intersect Range(vec)
  <2>1. x \in Nat \ {0} /\ y \in Nat \ {0} /\ v \in Nat /\ w \in Nat /\ x < v /\ y < w
    BY <1>2, <1>3, <1>4, <1>5, <1>8, <1>11
  <2>2. (w + v) * (x * y) < (y + x) * (v * w)
    BY <2>1, BetterTwice
  <2>3. 1 * w + 1 * v = w + v /\ 1 * y + 1 * x = y + x
    BY <2>1
  <2>4. QED
    BY <1>7, <1>8, <1>11, <2>2, <2>3 DEF Less
<1>12. CASE d \notin Range(vec)
  <2>1. v \in Nat /\ v >= 61 /\ x * y < (y + x) * v
    BY <1>2, <1>3, <1>4, <1>9, <1>12, TwoBeatOne
  <2>2. 1 * 1 + 0 * v = 1 /\ v * 1 = v /\ 1 * y + 1 * x = y + x /\ 1 * (x * y) = x * y
    BY <1>2, <1>3, <2>1
  <2>3. QED
    BY <1>7, <1>9, <1>12, <2>1, <2>2 DEF Less
<1>13. CASE d \notin Range(ft)
  <2>1. w \in Nat /\ w >= 61 /\ x * y < (y + x) * w
    BY <1>2, <1>3, <1>5, <1>10, <1>13, TwoBeatOne
  <2>2. 0 * w + 1 * 1 = 1 /\ 1 * w = w /\ 1 * y + 1 * x = y + x /\ 1 * (x * y) = x * y
    BY <1>2, <1>3, <2>1
  <2>3. QED
    BY <1>7, <1>10, <1>13, <2>1, <2>2 DEF Less
<1>14. QED
  BY <1>11, <1>12, <1>13

(* In a list without repetition whose order is R, places follow R.            *)
LEMMA PlacesFollowOrder ==
  ASSUME NEW S, NEW s \in Seq(S), NEW R, StrictOrder(R, S), SortedBy(s, R)
  PROVE  /\ IsInjective(s)
         /\ \A c, d \in Range(s) : <<c, d>> \in R => Rank(c, s) < Rank(d, s)
<1>1. Len(s) \in Nat /\ DOMAIN s = 1..Len(s) /\ \A i \in 1..Len(s) : s[i] \in S
  BY LenProperties, ElementOfSeq
<1>2. ASSUME NEW i \in 1..Len(s), NEW j \in 1..Len(s), s[i] = s[j] \/ <<s[i], s[j]>> \in R
      PROVE  ~(j < i)
  <2>1. s[i] \in S /\ s[j] \in S
    BY <1>1
  <2>2. ~(<<s[j], s[i]>> \in R)
    BY <1>2, <2>1 DEF StrictOrder
  <2>3. QED
    BY <1>1, <2>2 DEF SortedBy
<1>3. ASSUME NEW i \in 1..Len(s), NEW j \in 1..Len(s), s[i] = s[j] PROVE i = j
  <2>1. ~(i < j) /\ ~(j < i)
    BY <1>2, <1>3
  <2>2. QED
    BY <1>1, <2>1
<1>4. ASSUME NEW c \in Range(s), NEW d \in Range(s), <<c, d>> \in R
      PROVE  Rank(c, s) < Rank(d, s)
  <2> DEFINE i == Rank(c, s)
             j == Rank(d, s)
  <2>1. i \in 1..Len(s) /\ j \in 1..Len(s) /\ s[i] = c /\ s[j] = d
    BY RankIsPlace
  <2>2. c # d
    BY <1>1, <1>4, <2>1 DEF StrictOrder
  <2>3. ~(j < i) /\ i # j
    BY <1>2, <1>4, <2>1, <2>2
  <2> HIDE DEF i, j
  <2>4. i < j
    BY <1>1, <2>1, <2>3
  <2>5. QED
    BY <2>4 DEF i, j
<1>5. QED
  BY <1>1, <1>3, <1>4 DEF IsInjective

\* What the vector branch adds.
Considered(e, vec) == IF e THEN vec ELSE <<>>

\* Sorted hits, of which the limit and deleted rows leave some out.
HitsOK(h, ft, vec, limit, gone) ==
  /\ h \in Seq(Hits(ft, vec))
  /\ Range(h) \subseteq Hits(ft, vec) \ gone
  /\ SortedBy(h, Order(ft, vec))
  /\ Cardinality(Hits(ft, vec)) <= limit => Range(h) = Hits(ft, vec) \ gone

LEMMA HitsOfSearch ==
  ASSUME NEW T, IsFiniteSet(T), NEW ft \in Seq(T), NEW vec \in Seq(T), NEW e,
         NEW limit \in Nat, NEW gone
  PROVE  HitsOK(HybridSearch(FALSE, ft, e, vec, limit, gone), ft, Considered(e, vec), limit, gone)
<1> DEFINE v == Considered(e, vec)
           S == Hits(ft, v)
           found == Ordered(ft, v)
           n == IF Len(found) < limit THEN Len(found) ELSE limit
           cut == SubSeq(found, 1, n)
           h == Kept(cut, Range(cut) \ gone)
<1>1. v \in Seq(T)
  BY DEF Considered
<1>2. HybridSearch(FALSE, ft, e, vec, limit, gone) = h
  BY DEF HybridSearch, Considered
<1> HIDE DEF v
<1>3. /\ found \in Seq(S) /\ Len(found) = Cardinality(S) /\ Range(found) = S
      /\ SortedBy(found, Order(ft, v))
  BY <1>1, OrderedHits
<1> HIDE DEF found, S
<1>4. /\ Len(found) \in Nat /\ n \in Nat /\ n <= Len(found)
      /\ DOMAIN found = 1..Len(found)
  BY <1>3, LenProperties
<1>5. cut \in Seq(S) /\ Len(cut) = n /\ DOMAIN cut = 1..n /\ \A i \in 1..n : cut[i] = found[i]
  <2> HIDE DEF n
  <2>1. cut = [i \in 1..n |-> found[i]]
    BY <1>4
  <2>2. \A i \in 1..n : found[i] \in S
    BY <1>3, <1>4, ElementOfSeq
  <2>3. cut \in [1..n -> S]
    BY <2>1, <2>2
  <2>4. n \in Nat
    BY <1>4
  <2>5. \A i \in 1..n : cut[i] = found[i]
    BY <2>1
  <2> HIDE DEF cut
  <2>6. cut \in Seq(S) /\ Len(cut) = n /\ DOMAIN cut = 1..n
    BY <2>3, <2>4
  <2>7. QED
    BY <2>5, <2>6
<1>6. SortedBy(cut, Order(ft, v))
  <2>1. \A i \in 1..n : i \in 1..Len(found)
    BY <1>4
  <2>2. QED
    BY <1>3, <1>4, <1>5, <2>1 DEF SortedBy
<1> HIDE DEF cut
<1>7. h \in Seq(S) /\ Range(h) = Range(cut) \intersect (Range(cut) \ gone) /\ SortedBy(h, Order(ft, v))
  BY <1>5, <1>6, KeptElements
<1>8. Range(cut) \subseteq S
  BY <1>5, RangeInType
<1>9. ASSUME Cardinality(S) <= limit PROVE Range(cut) = S
  <2>1. n = Len(found)
    BY <1>3, <1>4, <1>9
  <2>2. Range(cut) = Range(found)
    BY <1>4, <1>5, <2>1 DEF Range
  <2>3. QED
    BY <1>3, <2>2
<1> HIDE DEF h
<1>10. Range(h) \subseteq S \ gone /\ (Cardinality(S) <= limit => Range(h) = S \ gone)
  BY <1>7, <1>8, <1>9
<1>11. QED
  BY <1>2, <1>7, <1>10 DEF HitsOK, S, v

-----------------------------------------------------------------------------
(* Pages.                                                                   *)

LEMMA Quotient ==
  ASSUME NEW a \in Nat, NEW b \in Nat \ {0}
  PROVE  a \div b \in Nat /\ (a \div b) * b <= a /\ a < (a \div b + 1) * b
OBVIOUS

(* The n-th page in pages of k of a list of m, and the one after it.           *)
LEMMA NextPage ==
  ASSUME NEW m \in Nat, NEW k \in Nat \ {0}, NEW n \in Nat \ {0}
  PROVE  /\ n < (m + k - 1) \div k => n * k < m
         /\ ~(n < (m + k - 1) \div k) => m <= n * k
<1> DEFINE q == (m + k - 1) \div k
<1>1. m + k - 1 \in Nat
  OBVIOUS
<1>2. q \in Nat /\ q * k <= m + k - 1 /\ m + k - 1 < (q + 1) * k
  BY <1>1, Quotient
<1> HIDE DEF q
<1>3. \A x, y, z \in Nat : x <= y => x * z <= y * z
  OBVIOUS
<1>4. ASSUME n < q PROVE n * k < m
  <2>1. (n + 1) * k <= q * k
    BY <1>2, <1>3, <1>4
  <2>2. (n + 1) * k = n * k + k /\ n * k \in Nat /\ q * k \in Nat
    BY <1>2
  <2>3. QED
    BY <1>2, <2>1, <2>2
<1>5. ASSUME ~(n < q) PROVE m <= n * k
  <2>1. (q + 1) * k <= (n + 1) * k
    BY <1>2, <1>3, <1>5
  <2>2. (n + 1) * k = n * k + k /\ n * k \in Nat /\ (q + 1) * k \in Nat
    BY <1>2
  <2>3. QED
    BY <1>2, <2>1, <2>2
<1>6. QED
  BY <1>4, <1>5 DEF q

(* A page that is served ends within reach; the first one that is not starts there. *)
LEMMA Reach ==
  ASSUME NEW m \in Nat, NEW k \in Nat \ {0}, NEW n \in Nat, n * k <= m
  PROVE  /\ (n + 1) * k <= (m \div k + 1) * k
         /\ m < (n + 1) * k => (n + 1) * k = (m \div k + 1) * k
<1> DEFINE q == m \div k
<1>1. q \in Nat /\ q * k <= m /\ m < (q + 1) * k
  BY Quotient
<1> HIDE DEF q
<1>2. \A x, y, z \in Nat : x <= y => x * z <= y * z
  OBVIOUS
<1>3. n <= q
  <2> SUFFICES ASSUME q + 1 <= n PROVE FALSE
    BY <1>1
  <2>1. (q + 1) * k <= n * k
    BY <1>1, <1>2
  <2>2. (q + 1) * k \in Nat /\ n * k \in Nat
    BY <1>1
  <2>3. QED
    BY <1>1, <2>1, <2>2
<1>4. (n + 1) * k <= (q + 1) * k
  BY <1>1, <1>2, <1>3
<1>5. ASSUME m < (n + 1) * k PROVE q = n
  <2> SUFFICES ASSUME n + 1 <= q PROVE FALSE
    BY <1>1, <1>3
  <2>1. (n + 1) * k <= q * k
    BY <1>1, <1>2
  <2>2. (n + 1) * k \in Nat /\ q * k \in Nat
    BY <1>1
  <2>3. QED
    BY <1>1, <1>5, <2>1, <2>2
<1>6. QED
  BY <1>4, <1>5 DEF q

LEMMA PageSizeType ==
  ASSUME NEW size \in Nat \ {0}
  PROVE  PageSize(size) \in Nat \ {0}
BY ListAssumption DEF PageSize

(* A page continues the ones before it.                                       *)
LEMMA PageContinues ==
  ASSUME NEW S, NEW list \in Seq(S), NEW size \in Nat \ {0}, NEW p \in Nat \ {0},
         Offset(p, size) <= Len(list)
  PROVE  LET items == Items(list, p, size)
             m == IF Offset(p, size) + PageSize(size) <= Len(list)
                  THEN Offset(p, size) + PageSize(size) ELSE Len(list)
         IN /\ items \in Seq(S)
            /\ SubSeq(list, 1, Offset(p, size)) \o items = SubSeq(list, 1, m)
<1> DEFINE o == Offset(p, size)
           m == IF o + PageSize(size) <= Len(list) THEN o + PageSize(size) ELSE Len(list)
<1>1. PageSize(size) \in Nat \ {0} /\ Len(list) \in Nat
  BY PageSizeType, LenProperties
<1>2. o \in Nat
  <2>1. p - 1 \in Nat
    OBVIOUS
  <2>2. \A x, y \in Nat : x * y \in Nat
    OBVIOUS
  <2>3. QED
    BY <1>1, <2>1, <2>2 DEF Offset
<1>3. Items(list, p, size) = SubSeq(list, o + 1, m)
  BY DEF Items
<1> HIDE DEF o
<1>4. o \in 0..Len(list) /\ m \in o..Len(list)
  BY <1>1, <1>2 DEF o
<1> HIDE DEF m
<1>5. /\ SubSeq(list, o + 1, m) \in Seq(S)
      /\ SubSeq(list, 1, o) \o SubSeq(list, o + 1, m) = SubSeq(list, 1, m)
  BY <1>4, PrefixContinued
<1>6. Items(list, p, size) \in Seq(S) /\ SubSeq(list, 1, o) \o Items(list, p, size) = SubSeq(list, 1, m)
  BY <1>3, <1>5
<1>7. QED
  BY <1>6 DEF m, o

-----------------------------------------------------------------------------
(* Requests.                                                                *)

(* A recall lists at most k of the cigars that have a score.                 *)
LEMMA RecallsRanking ==
  ASSUME NEW score, DOMAIN score \subseteq Cigars, NEW r \in Recalls(score, RecallK)
  PROVE  r \in Seq(Cigars) /\ Len(r) <= RecallK
<1> DEFINE found == DOMAIN score
           n == IF Cardinality(found) <= RecallK THEN Cardinality(found) ELSE RecallK
<1>1. IsFiniteSet(found) /\ Cardinality(found) \in Nat
  BY SearchAssumption, FS_Subset, FS_CardinalityType
<1>2. n \in Nat /\ n <= RecallK
  BY <1>1, SearchAssumption
<1>3. r \in [1..n -> found]
  BY DEF Recalls
<1> HIDE DEF n, found
<1>4. r \in Seq(found) /\ Len(r) = n
  BY <1>2, <1>3
<1>5. r \in Seq(Cigars)
  BY <1>4, ElementOfSeq, LenProperties DEF found
<1>6. QED
  BY <1>2, <1>4, <1>5

LEMMA Rankings ==
  /\ \A r \in FullTextRankings : r \in Seq(Cigars) /\ Len(r) <= RecallK
  /\ \A r \in VectorRankings : r \in Seq(Cigars) /\ Len(r) <= RecallK
<1>1. ASSUME NEW r \in FullTextRankings PROVE r \in Seq(Cigars) /\ Len(r) <= RecallK
  <2>1. PICK t \in Texts : r \in FullTextRecalls(t, RecallK)
    BY DEF FullTextRankings
  <2> DEFINE score == [c \in {d \in DOMAIN t : Matches(t[d])} |-> TextScore(t[c])]
  <2>2. r \in Recalls(score, RecallK)
    BY <2>1 DEF FullTextRecalls
  <2>3. DOMAIN score \subseteq Cigars
    BY SearchAssumption
  <2> HIDE DEF score
  <2>4. QED
    BY <2>2, <2>3, RecallsRanking
<1>2. ASSUME NEW r \in VectorRankings PROVE r \in Seq(Cigars) /\ Len(r) <= RecallK
  <2>1. PICK t \in Distances : r \in VectorRecalls(t, RecallK)
    BY DEF VectorRankings
  <2> DEFINE score == [c \in {d \in DOMAIN t : t[d] # None} |-> -t[c]]
  <2>2. r \in Recalls(score, RecallK)
    BY <2>1 DEF VectorRecalls
  <2>3. DOMAIN score \subseteq Cigars
    BY SearchAssumption
  <2> HIDE DEF score
  <2>4. QED
    BY <2>2, <2>3, RecallsRanking
<1>3. QED
  BY <1>1, <1>2

LEMMA RequestKinds ==
  ASSUME request \in SearchRequests \union ListRequests
  PROVE  /\ request.kind = "search" =>
              /\ request.ft \in Seq(Cigars) /\ Len(request.ft) <= 61
              /\ request.vec \in Seq(Cigars) /\ Len(request.vec) <= 61
              /\ request.encoded \in BOOLEAN /\ request.limit \in Nat
         /\ request.kind = "list" =>
              request.list \in Seq(Rows) /\ request.asked \in Asked /\ request.size \in Nat \ {0}
         /\ request.kind \in {"search", "list"}
<1>1. CASE request \in SearchRequests
  <2>1. /\ request.kind = "search" /\ request.ft \in FullTextRankings
        /\ request.vec \in VectorRankings /\ request.encoded \in BOOLEAN /\ request.limit \in Limits
    BY <1>1 DEF SearchRequests
  <2>2. /\ request.ft \in Seq(Cigars) /\ Len(request.ft) <= RecallK /\ Len(request.ft) \in Nat
        /\ request.vec \in Seq(Cigars) /\ Len(request.vec) <= RecallK /\ Len(request.vec) \in Nat
    BY <2>1, Rankings, LenProperties
  <2>3. RecallK \in Nat /\ RecallK <= 61 /\ Limits \subseteq Nat
    BY SearchAssumption DEF RrfConstant
  <2>4. Len(request.ft) <= 61 /\ Len(request.vec) <= 61
    BY <2>2, <2>3
  <2>5. QED
    BY <2>1, <2>2, <2>3, <2>4
<1>2. CASE request \in ListRequests
  BY <1>2, ListAssumption DEF ListRequests
<1>3. QED
  BY <1>1, <1>2

(* The search is answered at once, by the hits of HybridSearch.               *)
Found ==
  request.kind = "search" /\ page = 0 =>
    seen = HybridSearch(FALSE, request.ft, request.encoded, request.vec, request.limit, request.gone)

LEMMA FoundRespectsBothBranches ==
  ASSUME request \in SearchRequests \union ListRequests, Found
  PROVE  FusionRespectsBothBranches
<1> SUFFICES ASSUME request.kind = "search", page = 0
             PROVE  FusionRespectsBothBranches
  BY DEF FusionRespectsBothBranches
<1> DEFINE ft == request.ft
           v == Considered(request.encoded, request.vec)
           S == Hits(ft, v)
           R == Order(ft, v)
<1>1. /\ ft \in Seq(Cigars) /\ Len(ft) <= 61 /\ v \in Seq(Cigars) /\ Len(v) <= 61
  <2>1. Len(<<>>) <= 61 /\ <<>> \in Seq(Cigars)
    OBVIOUS
  <2>2. QED
    BY <2>1, RequestKinds DEF Considered
<1>2. /\ seen \in Seq(S)
      /\ Range(seen) \subseteq S \ request.gone
      /\ SortedBy(seen, R)
      /\ Cardinality(S) <= request.limit => Range(seen) = S \ request.gone
  <2>1. seen = HybridSearch(FALSE, ft, request.encoded, request.vec, request.limit, request.gone)
    BY DEF Found
  <2>2. /\ IsFiniteSet(Cigars) /\ ft \in Seq(Cigars) /\ request.vec \in Seq(Cigars)
        /\ request.encoded \in BOOLEAN /\ request.limit \in Nat
    BY RequestKinds, SearchAssumption
  <2> HIDE DEF ft
  <2>3. HitsOK(seen, ft, v, request.limit, request.gone)
    BY <2>1, <2>2, HitsOfSearch, Zenon
  <2>4. QED
    BY <2>3 DEF HitsOK
<1> HIDE DEF v
<1>3. StrictOrder(R, S)
  BY <1>1, BeforeIsAnOrder
<1>4. /\ IsInjective(seen)
      /\ \A c, d \in Range(seen) : <<c, d>> \in R => Rank(c, seen) < Rank(d, seen)
  <2> HIDE DEF R, S
  <2>1. QED
    BY <1>2, <1>3, PlacesFollowOrder
<1>5. ASSUME NEW c \in Range(seen) \intersect (Range(ft) \intersect Range(v)), NEW d \in Range(seen),
             \/ d \notin Range(ft) \intersect Range(v)
             \/ Rank(c, ft) < Rank(d, ft) /\ Rank(c, v) < Rank(d, v)
      PROVE  Rank(c, seen) < Rank(d, seen)
  <2>1. c \in S /\ d \in S
    BY <1>2
  <2>2. Less(Score(d, ft, v), Score(c, ft, v))
    BY <1>1, <1>5, <2>1, BothBranchesCount
  <2>3. <<c, d>> \in R
    BY <2>1, <2>2 DEF Order, Before
  <2>4. QED
    BY <1>4, <2>3
<1>6. S = Range(ft) \union Range(v)
  BY DEF Hits
<1> HIDE DEF ft, S, R
<1>7. QED
  BY <1>2, <1>4, <1>5, <1>6 DEF FusionRespectsBothBranches, Considered, ft, v

-----------------------------------------------------------------------------
(* Links.                                                                   *)

\* The filters f of a link ask for what was asked first.
SameFilters(q, f) ==
  /\ q.asked.route \in {"publications", "cigars"} => f = q.asked.filters
  /\ q.asked.route = "matches" =>
       /\ RequestedStatuses(f, q.asked.admin) = RequestedStatuses(q.asked.filters, q.asked.admin)
       /\ f = <<>> \/ \E s \in SUBSET Statuses : f = [status |-> s]
       /\ f = <<>> <=> q.asked.filters = <<>>

LEMMA FilteredRows ==
  ASSUME NEW list \in Seq(Rows), NEW f
  PROVE  Filtered(list, f) \in Seq(Rows)
BY KeptElements DEF Filtered

LEMMA StatusIsAFilter ==
  ASSUME NEW s
  PROVE  [status |-> s] # <<>> /\ [status |-> s].status = s
<1>1. "status" \in DOMAIN [status |-> s] /\ DOMAIN <<>> = {}
  OBVIOUS
<1>2. [status |-> s] # <<>>
  BY <1>1
<1>3. QED
  BY <1>2

(* The link of one status asks for that status again.                         *)
LEMMA OneStatusIsRepeated ==
  ASSUME NEW f, NEW admin, NEW s \in Statuses, RequestedStatuses(f, admin) = {s}
  PROVE  RequestedStatuses([status |-> {s}], admin) = {s}
<1>1. [status |-> {s}] # <<>> /\ [status |-> {s}].status = {s}
  BY StatusIsAFilter
<1>2. CASE admin
  BY <1>1, <1>2 DEF RequestedStatuses
<1>3. CASE ~admin
  <2>1. s \in PublicStatuses
    BY <1>3 DEF RequestedStatuses, PublicStatuses
  <2>2. {s} \intersect PublicStatuses = {s} /\ {s} # {}
    BY <2>1
  <2>3. QED
    BY <1>1, <1>3, <2>2 DEF RequestedStatuses
<1>4. QED
  BY <1>2, <1>3

LEMMA NoFilterKeepsAll ==
  ASSUME NEW list \in Seq(Rows)
  PROVE  Filtered(list, <<>>) = list
<1>1. {row \in Range(list) : \A f \in DOMAIN <<>> : row[f] \in <<>>[f]} = Range(list)
  OBVIOUS
<1>2. QED
  BY <1>1, KeptAll DEF Filtered

(* Whatever the route, a page whose link repeats the filters shows the next     *)
(* items of what was wanted, and so do its own links.                          *)
LEMMA AnswerOfRoute ==
  ASSUME NEW q, q.asked \in Asked, q.list \in Seq(Rows), Repeated(q),
         NEW f, SameFilters(q, f), NEW p
  PROVE  LET a == Listing(q, f, p) IN
         /\ a.items = Items(Wanted(q), p, q.size)
         /\ a.next = NextLink(p, Len(Wanted(q)), q.size)
         /\ SameFilters(q, a.filters)
<1>1. q.asked.route \in {"brands", "publications", "cigars", "matches"}
  BY ListAssumption
<1>2. CASE q.asked.route = "brands"
  <2>1. q.asked.filters = <<>>
    BY <1>2, ListAssumption
  <2>2. Wanted(q) = q.list
    BY <1>2, <2>1, NoFilterKeepsAll DEF Wanted
  <2>3. Listing(q, f, p) = AnswerOf(q.list, p, q.size, <<>>)
    BY <1>2 DEF Listing, ListAll
  <2>4. QED
    BY <1>2, <2>2, <2>3 DEF AnswerOf, SameFilters
<1>3. CASE q.asked.route = "publications"
  <2>1. f = q.asked.filters /\ Wanted(q) = Filtered(q.list, f)
    BY <1>3 DEF SameFilters, Wanted
  <2>2. Listing(q, f, p) = AnswerOf(Filtered(q.list, f), p, q.size, f)
    BY <1>3 DEF Listing, ListOfParent
  <2>3. QED
    BY <1>3, <2>1, <2>2 DEF AnswerOf, SameFilters
<1>4. CASE q.asked.route = "cigars"
  <2>1. f = q.asked.filters /\ Wanted(q) = Filtered(q.list, f)
    BY <1>4 DEF SameFilters, Wanted
  <2>2. DOMAIN f \subseteq LinkedFilters /\ f = [x \in DOMAIN f |-> f[x]]
    BY <1>4, <2>1, ListAssumption DEF Repeated
  <2>3. FiltersOfLinks(f) = f
    <3>1. LinkedFilters \intersect DOMAIN f = DOMAIN f
      BY <2>2
    <3>2. FiltersOfLinks(f) = [x \in DOMAIN f |-> f[x]]
      BY <3>1 DEF FiltersOfLinks, Restrict
    <3>3. QED
      BY <2>2, <3>2
  <2>4. Listing(q, f, p) = AnswerOf(Filtered(q.list, f), p, q.size, f)
    BY <1>4, <2>3 DEF Listing, ListCigars
  <2>5. QED
    BY <1>4, <2>1, <2>4 DEF AnswerOf, SameFilters
<1>5. CASE q.asked.route = "matches"
  <2> DEFINE requested == RequestedStatuses(q.asked.filters, q.asked.admin)
             link == IF f = <<>> THEN <<>> ELSE LinkOfStatuses(requested)
  <2>1. /\ RequestedStatuses(f, q.asked.admin) = requested
        /\ f = <<>> \/ \E s \in SUBSET Statuses : f = [status |-> s]
        /\ f = <<>> <=> q.asked.filters = <<>>
    BY <1>5 DEF SameFilters
  <2>2. Wanted(q) = Filtered(q.list, [status |-> requested])
    BY <1>5 DEF Wanted
  <2>3. f # <<>> => f.status \subseteq Statuses
    BY <2>1, StatusIsAFilter
  <2>4. Listing(q, f, p) = AnswerOf(Wanted(q), p, q.size, link)
    <3>1. Listing(q, f, p) = ListMatches(q.list, f, q.asked.admin, p, q.size)
      BY <1>5 DEF Listing
    <3>2. QED
      BY <2>1, <2>2, <2>3, <3>1 DEF ListMatches
  <2>5. SameFilters(q, link)
    <3>1. CASE f = <<>>
      BY <1>5, <2>1, <3>1 DEF SameFilters
    <3>2. CASE f # <<>>
      <4>1. PICK s \in Statuses : requested = {s}
        BY <1>5, <2>1, <3>2 DEF Repeated
      <4>2. link = [status |-> {s}]
        BY <3>2, <4>1 DEF LinkOfStatuses
      <4>3. RequestedStatuses(link, q.asked.admin) = requested
        BY <4>1, <4>2, OneStatusIsRepeated
      <4>4. link # <<>> /\ {s} \in SUBSET Statuses
        BY <4>2, StatusIsAFilter
      <4> HIDE DEF link
      <4>5. QED
        BY <1>5, <2>1, <3>2, <4>2, <4>3, <4>4 DEF SameFilters
    <3>3. QED
      BY <3>1, <3>2
  <2> HIDE DEF link
  <2>6. QED
    BY <2>4, <2>5 DEF AnswerOf
<1>6. QED
  BY <1>1, <1>2, <1>3, <1>4, <1>5

-----------------------------------------------------------------------------
(* The reader.                                                              *)

LEMMA SeqMonotone ==
  ASSUME NEW S, NEW T, S \subseteq T, NEW s \in Seq(S)
  PROVE  s \in Seq(T)
<1>1. Len(s) \in Nat /\ s \in [1..Len(s) -> S]
  BY LenProperties, ElementOfSeq
<1>2. s \in [1..Len(s) -> T]
  BY <1>1
<1>3. QED
  BY <1>1, <1>2

LEMMA AnswerTypes ==
  ASSUME NEW list \in Seq(Rows), NEW p \in Nat \ {0}, NEW size \in Nat \ {0}, NEW f
  PROVE  /\ AnswerOf(list, p, size, f).items \in Seq(Rows)
         /\ AnswerOf(list, p, size, f).next \in Nat
<1> DEFINE o == Offset(p, size)
           m == IF o + PageSize(size) <= Len(list) THEN o + PageSize(size) ELSE Len(list)
<1>1. PageSize(size) \in Nat \ {0} /\ Len(list) \in Nat /\ \A i \in 1..Len(list) : list[i] \in Rows
  BY PageSizeType, LenProperties, ElementOfSeq
<1>2. o \in Nat
  <2>1. p - 1 \in Nat
    OBVIOUS
  <2>2. \A x, y \in Nat : x * y \in Nat
    OBVIOUS
  <2>3. QED
    BY <1>1, <2>1, <2>2 DEF Offset
<1>3. Items(list, p, size) = SubSeq(list, o + 1, m)
  BY DEF Items
<1> HIDE DEF o
<1>4. o + 1 \in Int /\ m \in Int /\ \A i \in (o + 1)..m : i \in 1..Len(list)
  BY <1>1, <1>2
<1> HIDE DEF m
<1>5. SubSeq(list, o + 1, m) \in Seq(Rows)
  <2>1. \A i \in (o + 1)..m : list[i] \in Rows
    BY <1>1, <1>4
  <2>2. QED
    BY <1>4, <2>1, SubSeqProperties
<1>6. NextLink(p, Len(list), size) \in Nat
  BY DEF NextLink
<1>7. QED
  BY <1>3, <1>5, <1>6 DEF AnswerOf

LEMMA ListingTypes ==
  ASSUME NEW q, q.list \in Seq(Rows), q.asked \in Asked, q.size \in Nat \ {0},
         NEW f, NEW p \in Nat \ {0}
  PROVE  Listing(q, f, p).items \in Seq(Rows) /\ Listing(q, f, p).next \in Nat
<1> DEFINE Typed(a) == a.items \in Seq(Rows) /\ a.next \in Nat
<1>1. q.asked.route \in {"brands", "publications", "cigars", "matches"}
  BY ListAssumption
<1>2. ASSUME NEW g, NEW h PROVE Typed(AnswerOf(Filtered(q.list, g), p, q.size, h))
  BY FilteredRows, AnswerTypes
<1>3. ASSUME NEW h PROVE Typed(AnswerOf(q.list, p, q.size, h))
  BY AnswerTypes
<1>4. Typed([items |-> <<>>, next |-> 0, filters |-> <<>>])
  OBVIOUS
<1> HIDE DEF Typed
<1>5. Typed(Listing(q, f, p))
  <2>1. CASE q.asked.route = "brands"
    BY <1>3, <2>1 DEF Listing, ListAll
  <2>2. CASE q.asked.route = "publications"
    BY <1>2, <2>2 DEF Listing, ListOfParent
  <2>3. CASE q.asked.route = "cigars"
    BY <1>2, <2>3 DEF Listing, ListCigars
  <2>4. CASE q.asked.route = "matches"
    <3>1. Listing(q, f, p) = ListMatches(q.list, f, q.asked.admin, p, q.size)
      BY <2>4 DEF Listing
    <3>2. QED
      BY <1>2, <1>4, <3>1 DEF ListMatches
  <2>5. QED
    BY <1>1, <2>1, <2>2, <2>3, <2>4
<1>6. QED
  BY <1>5 DEF Typed

\* The reader has seen the listing up to the page it will turn to.
Turning ==
  request.kind = "list" /\ Repeated(request) =>
    /\ SameFilters(request, filters)
    /\ page = 0 => /\ seen = Wanted(request)
                   /\ Len(seen) <= (MaxOffset \div PageSize(request.size) + 1) * PageSize(request.size)
    /\ page # 0 => /\ Offset(page, request.size) <= Len(Wanted(request))
                   /\ seen = SubSeq(Wanted(request), 1, Offset(page, request.size))
                   /\ page # 1 => Served(page - 1, request.size)

IInv == TypeOK /\ Found /\ Turning

LEMMA WantedRows ==
  ASSUME NEW q, q.list \in Seq(Rows)
  PROVE  Wanted(q) \in Seq(Rows)
BY FilteredRows DEF Wanted

(* Turning a page that is served shows the next items, or ends the listing.    *)
LEMMA TurnContinues ==
  ASSUME TypeOK, Turning, Turn
  PROVE  Turning'
<1> DEFINE q == request
           list == Wanted(q)
           k == PageSize(q.size)
           o == Offset(page, q.size)
           m == IF o + k <= Len(list) THEN o + k ELSE Len(list)
           reach == (MaxOffset \div k + 1) * k
<1>1. /\ request.kind = "list" /\ page # 0 /\ Served(page, q.size) /\ request' = request
      /\ seen' = seen \o Listing(q, filters, page).items
      /\ page' = Listing(q, filters, page).next
      /\ filters' = Listing(q, filters, page).filters
  BY DEF Turn
<1> SUFFICES ASSUME Repeated(q) PROVE Turning'
  BY <1>1 DEF Turning
<1>2. q.list \in Seq(Rows) /\ q.asked \in Asked /\ q.size \in Nat \ {0} /\ page \in Nat \ {0}
  BY <1>1, RequestKinds DEF TypeOK
<1>3. list \in Seq(Rows) /\ Len(list) \in Nat /\ k \in Nat \ {0}
  BY <1>2, WantedRows, PageSizeType, LenProperties
<1>4. o <= Len(list) /\ seen = SubSeq(list, 1, o) /\ SameFilters(q, filters)
  BY <1>1 DEF Turning
<1>5. /\ Listing(q, filters, page).items = Items(list, page, q.size)
      /\ Listing(q, filters, page).next = NextLink(page, Len(list), q.size)
      /\ SameFilters(q, Listing(q, filters, page).filters)
  BY <1>2, <1>4, AnswerOfRoute
<1>6. seen' = SubSeq(list, 1, m)
  BY <1>1, <1>2, <1>3, <1>4, <1>5, PageContinues
<1>7. SameFilters(q, filters')
  BY <1>1, <1>5
<1>8. o \in Nat /\ o = (page - 1) * k /\ o <= MaxOffset /\ o + k = page * k
  <2>1. page - 1 \in Nat
    BY <1>2
  <2>2. \A x, y \in Nat : x * y \in Nat
    OBVIOUS
  <2>3. o = (page - 1) * k /\ o <= MaxOffset
    BY <1>1 DEF Offset, Served
  <2>4. (page - 1) * k + k = page * k
    BY <1>2, <1>3
  <2>5. QED
    BY <1>3, <2>1, <2>2, <2>3, <2>4
<1>9. TotalPages(Len(list), q.size) = (Len(list) + k - 1) \div k
  BY DEF TotalPages
<1> HIDE DEF list, k, o, reach
<1>10. /\ page < (Len(list) + k - 1) \div k => page * k < Len(list)
       /\ ~(page < (Len(list) + k - 1) \div k) => Len(list) <= page * k
  BY <1>2, <1>3, NextPage
<1>11. CASE page < TotalPages(Len(list), q.size)
  <2>1. page' = page + 1
    BY <1>1, <1>5, <1>11 DEF NextLink
  <2>2. m = page * k /\ page * k <= Len(list)
    BY <1>3, <1>8, <1>9, <1>10, <1>11
  <2>3. Offset(page + 1, q.size) = page * k /\ (page + 1) - 1 = page
    BY <1>2 DEF Offset, k
  <2>4. /\ page' # 0
        /\ Offset(page', q.size) <= Len(list)
        /\ seen' = SubSeq(list, 1, Offset(page', q.size))
        /\ Served(page' - 1, q.size)
    <3>1. page + 1 # 0 /\ (page + 1) - 1 = page
      BY <1>2
    <3>2. Offset(page', q.size) = page * k
      BY <2>1, <2>3
    <3>3. page' - 1 = page
      BY <2>1, <3>1
    <3>4. QED
      BY <1>1, <1>6, <2>1, <2>2, <3>1, <3>2, <3>3
  <2>5. page' # 0 /\ Served(page' - 1, q.size) /\ request' = q
    BY <1>1, <2>4
  <2>6. Offset(page', q.size) <= Len(Wanted(q)) /\ seen' = SubSeq(Wanted(q), 1, Offset(page', q.size))
    BY <2>4 DEF list
  <2>7. QED
    BY <1>7, <2>5, <2>6 DEF Turning
<1>12. CASE ~(page < TotalPages(Len(list), q.size))
  <2>1. page' = 0
    BY <1>1, <1>5, <1>12 DEF NextLink
  <2>2. m = Len(list) /\ Len(list) <= page * k
    BY <1>3, <1>8, <1>9, <1>10, <1>12
  <2>3. seen' = list
    BY <1>3, <1>6, <2>2, SubSeqFull
  <2>4. page * k <= reach
    <3>1. page - 1 \in Nat /\ (page - 1) * k <= MaxOffset /\ MaxOffset \in Nat /\ (page - 1) + 1 = page
      BY <1>2, <1>8, ListAssumption
    <3>2. ((page - 1) + 1) * k <= (MaxOffset \div k + 1) * k
      BY <1>3, <3>1, Reach
    <3>3. QED
      BY <3>1, <3>2 DEF reach
  <2>5. Len(list) <= reach
    <3>1. reach \in Nat /\ page * k \in Nat
      <4>1. MaxOffset \div k \in Nat
        BY <1>3, ListAssumption, Quotient
      <4>2. \A x, y \in Nat : x * y \in Nat
        OBVIOUS
      <4>3. QED
        BY <1>2, <1>3, <4>1, <4>2 DEF reach
    <3>2. QED
      BY <1>3, <2>2, <2>4, <3>1
  <2>6. seen' = Wanted(q) /\ Len(seen') <= reach
    BY <2>3, <2>5 DEF list
  <2>7. QED
    BY <1>1, <1>7, <2>1, <2>6 DEF Turning, reach, k
<1>13. QED
  BY <1>11, <1>12

LEMMA InitIInv == Init => IInv
<1> SUFFICES ASSUME Init PROVE IInv
  OBVIOUS
<1>1. request \in SearchRequests \union ListRequests /\ page = 1 /\ seen = <<>>
  BY DEF Init
<1>2. TypeOK
  BY <1>1 DEF TypeOK
<1>3. Found
  BY <1>1 DEF Found
<1>4. Turning
  <2> SUFFICES ASSUME request.kind = "list" PROVE Turning
    BY DEF Turning
  <2>1. filters = request.asked.filters
    BY DEF Init
  <2>2. /\ request.list \in Seq(Rows) /\ request.asked \in Asked /\ request.size \in Nat \ {0}
    BY <1>1, RequestKinds
  <2>3. SameFilters(request, filters)
    BY <2>1, <2>2, ListAssumption DEF SameFilters
  <2>4. Len(Wanted(request)) \in Nat /\ PageSize(request.size) \in Nat
    BY <2>2, WantedRows, PageSizeType, LenProperties
  <2>5. Offset(1, request.size) = 0
    <3>1. \A x \in Nat : (1 - 1) * x = 0
      OBVIOUS
    <3>2. QED
      BY <2>4, <3>1 DEF Offset
  <2>6. SubSeq(Wanted(request), 1, 0) = <<>>
    BY SubSeqEmpty
  <2>7. 0 <= Len(Wanted(request))
    BY <2>4
  <2>8. QED
    BY <1>1, <2>3, <2>5, <2>6, <2>7 DEF Turning
<1>5. QED
  BY <1>2, <1>3, <1>4 DEF IInv

LEMMA FindKeepsTypes ==
  ASSUME TypeOK, Find
  PROVE  TypeOK'
<1>1. /\ request.kind = "search" /\ request' = request /\ page' = 0
      /\ seen' = HybridSearch(FALSE, request.ft, request.encoded, request.vec,
                              request.limit, request.gone)
  BY DEF Find
<1>2. /\ request.ft \in Seq(Cigars) /\ request.vec \in Seq(Cigars) /\ request.limit \in Nat
      /\ IsFiniteSet(Cigars)
  BY <1>1, RequestKinds, SearchAssumption DEF TypeOK
<1> DEFINE v == Considered(request.encoded, request.vec)
           S == Hits(request.ft, v)
<1>3. HitsOK(seen', request.ft, v, request.limit, request.gone)
  <2> HIDE DEF v
  <2>1. QED
    BY <1>1, <1>2, HitsOfSearch, Zenon DEF v
<1>4. v \in Seq(Cigars)
  BY <1>2 DEF Considered
<1> HIDE DEF v
<1>5. S \subseteq Cigars
  BY <1>2, <1>4, RangeInType DEF Hits
<1>6. seen' \in Seq(S)
  BY <1>3 DEF HitsOK
<1> HIDE DEF S
<1>7. seen' \in Seq(Cigars \union Rows)
  <2>1. S \subseteq Cigars \union Rows
    BY <1>5
  <2>2. QED
    BY <1>6, <2>1, SeqMonotone
<1>8. QED
  BY <1>1, <1>7 DEF TypeOK

LEMMA TurnKeepsTypes ==
  ASSUME TypeOK, Turn
  PROVE  TypeOK'
<1>1. /\ request.kind = "list" /\ page # 0 /\ request' = request
      /\ seen' = seen \o Listing(request, filters, page).items
      /\ page' = Listing(request, filters, page).next
  BY DEF Turn
<1>2. /\ request.list \in Seq(Rows) /\ request.asked \in Asked /\ request.size \in Nat \ {0}
      /\ page \in Nat \ {0} /\ seen \in Seq(Cigars \union Rows)
  BY <1>1, RequestKinds DEF TypeOK
<1>3. /\ Listing(request, filters, page).items \in Seq(Rows)
      /\ Listing(request, filters, page).next \in Nat
  BY <1>2, ListingTypes
<1>4. Listing(request, filters, page).items \in Seq(Cigars \union Rows)
  <2>1. Rows \subseteq Cigars \union Rows
    OBVIOUS
  <2>2. QED
    BY <1>3, <2>1, SeqMonotone
<1>5. seen' \in Seq(Cigars \union Rows)
  BY <1>1, <1>2, <1>4, ConcatProperties
<1>6. QED
  BY <1>1, <1>3, <1>5 DEF TypeOK

LEMMA NextIInv == IInv /\ [Next]_vars => IInv'
<1> SUFFICES ASSUME IInv, [Next]_vars PROVE IInv'
  OBVIOUS
<1>1. TypeOK /\ Found /\ Turning
  BY DEF IInv
<1>2. CASE Find
  <2>1. TypeOK'
    BY <1>1, <1>2, FindKeepsTypes
  <2>2. Found' /\ Turning'
    BY <1>2 DEF Find, Found, Turning
  <2>3. QED
    BY <2>1, <2>2 DEF IInv
<1>3. CASE Turn
  <2>1. TypeOK' /\ Turning'
    BY <1>1, <1>3, TurnKeepsTypes, TurnContinues
  <2>2. Found'
    BY <1>3 DEF Turn, Found
  <2>3. QED
    BY <2>1, <2>2 DEF IInv
<1>4. CASE UNCHANGED vars
  <2>1. request' = request /\ page' = page /\ filters' = filters /\ seen' = seen
    BY <1>4 DEF vars
  <2>2. TypeOK' /\ Found'
    BY <1>1, <2>1 DEF TypeOK, Found
  <2>3. Turning'
    BY <1>1, <2>1 DEF Turning
  <2>4. QED
    BY <2>2, <2>3 DEF IInv
<1>5. QED
  BY <1>2, <1>3, <1>4 DEF Next

(* Every reachable state is well typed, a search has been answered by its own  *)
(* hits, and a reader has seen the listing up to the page it will turn to.       *)
THEOREM SpecIInv == Spec => []IInv
BY InitIInv, NextIInv, PTL DEF Spec

(* Requests, pages and what is shown keep their types (CatalogueReads!TypeOK). *)
THEOREM Types == Spec => []TypeOK
<1>1. IInv => TypeOK
  BY DEF IInv
<1>2. QED
  BY <1>1, SpecIInv, PTL

(* Of any finite catalogue, for any two recalls of at most 61 cigars, any limit   *)
(* and any deleted rows, a search lists what both branches found first, nothing  *)
(* twice, and leaves out nothing else (hybrid_search.py:45-91).                   *)
THEOREM BothBranchesAreRespected == Spec => []FusionRespectsBothBranches
<1>1. IInv => FusionRespectsBothBranches
  BY FoundRespectsBothBranches DEF IInv, TypeOK
<1>2. QED
  BY <1>1, SpecIInv, PTL

LEMMA TurnedPagesCover ==
  ASSUME TypeOK, Turning
  PROVE  PagesCoverTheListing
<1> SUFFICES ASSUME request.kind = "list", Repeated(request)
             PROVE  PagesCoverTheListing
  BY DEF PagesCoverTheListing
<1> DEFINE size == request.size
           list == Wanted(request)
           total == Len(list)
           k == PageSize(size)
           q == MaxOffset \div k
           reach == (q + 1) * k
<1>1. size \in Nat \ {0} /\ page \in Nat /\ list \in Seq(Rows)
  BY RequestKinds, WantedRows DEF TypeOK
<1>2. total \in Nat /\ k \in Nat \ {0} /\ MaxOffset \in Nat /\ q \in Nat
  BY <1>1, LenProperties, PageSizeType, ListAssumption, Quotient
<1>3. page = 0 => seen = list /\ Len(seen) <= reach
  BY DEF Turning
<1>4. page # 0 => /\ Offset(page, size) <= total
                  /\ seen = SubSeq(list, 1, Offset(page, size))
                  /\ page # 1 => Served(page - 1, size)
  BY DEF Turning
<1>5. reach \in Nat
  <2>1. \A x, y \in Nat : x * y \in Nat
    OBVIOUS
  <2>2. QED
    BY <1>2, <2>1
<1>6. Offset(page, size) = (page - 1) * k
  BY DEF Offset
<1> HIDE DEF list, reach, q, k
<1>7. ASSUME page = 0 \/ ~Served(page, size)
      PROVE  seen = SubSeq(list, 1, IF total <= reach THEN total ELSE reach)
  <2>1. CASE page = 0
    <3>1. total <= reach /\ seen = SubSeq(list, 1, total)
      BY <1>1, <1>3, <2>1, SubSeqFull
    <3>2. QED
      BY <3>1
  <2>2. CASE page # 0
    <3>1. ~((page - 1) * k <= MaxOffset)
      BY <1>6, <1>7, <2>2 DEF Served, k
    <3>2. page # 1
      <4>1. (1 - 1) * k <= MaxOffset
        BY <1>2
      <4>2. QED
        BY <3>1, <4>1
    <3>3. page - 2 \in Nat /\ (page - 2) + 1 = page - 1 /\ (page - 1) - 1 = page - 2
      BY <1>1, <2>2, <3>2
    <3>4. (page - 2) * k <= MaxOffset
      <4>1. Offset(page - 1, size) = (page - 2) * k
        BY <3>3 DEF Offset, k
      <4>2. QED
        BY <1>4, <2>2, <3>2, <4>1 DEF Served
    <3>5. (page - 1) * k \in Nat
      <4>1. page - 1 \in Nat
        BY <1>1, <2>2
      <4>2. \A x, y \in Nat : x * y \in Nat
        OBVIOUS
      <4>3. QED
        BY <1>2, <4>1, <4>2
    <3>6. MaxOffset < (page - 1) * k
      BY <1>2, <3>1, <3>5
    <3>7. (page - 1) * k = (MaxOffset \div k + 1) * k
      <4> DEFINE n == page - 2
      <4>1. n \in Nat /\ n * k <= MaxOffset /\ MaxOffset < (n + 1) * k
        BY <3>3, <3>4, <3>6
      <4> HIDE DEF n
      <4>2. (n + 1) * k = (MaxOffset \div k + 1) * k
        BY <1>2, <4>1, Reach
      <4>3. QED
        BY <3>3, <4>2 DEF n
    <3>8. (page - 1) * k = reach
      BY <3>7 DEF reach, q
    <3>9. reach <= total /\ seen = SubSeq(list, 1, reach)
      BY <1>4, <1>6, <2>2, <3>8
    <3>10. (IF total <= reach THEN total ELSE reach) = reach
      BY <1>2, <1>5, <3>9
    <3>11. QED
      BY <3>9, <3>10
  <2>3. QED
    BY <2>1, <2>2
<1>8. NextLink(LastLink(total, size), total, size) = 0
  <2>1. TotalPages(total, size) \in Nat
    <3>1. total + k - 1 \in Nat
      BY <1>2
    <3>2. (total + k - 1) \div k \in Nat
      BY <1>2, <3>1, Quotient
    <3>3. QED
      BY <3>2 DEF TotalPages, k
  <2>2. QED
    BY <2>1 DEF NextLink, LastLink
<1>9. ASSUME NEW p \in 1..total, NextLink(p, total, size) # 0
      PROVE  PrevLink(NextLink(p, total, size)) = p
  BY <1>2, <1>9 DEF NextLink, PrevLink
<1>10. QED
  BY <1>7, <1>8, <1>9 DEF PagesCoverTheListing, list, reach, q, k

(* Of any list, in pages of any size, a reader who follows the next links sees    *)
(* every row that is wanted once and in order, as far as pages are served, if the *)
(* links repeat the filters (dependencies.py:144-174, hypermedia.py:28-49).        *)
THEOREM PagesCover == Spec => []PagesCoverTheListing
<1>1. IInv => PagesCoverTheListing
  BY TurnedPagesCover DEF IInv
<1>2. QED
  BY <1>1, SpecIInv, PTL

-----------------------------------------------------------------------------
(* Elements that are picked by their places.                                *)

(* p lists the places in I from first to last.                               *)
IsPlaces(p, I, n) ==
  /\ p \in Seq(1..n)
  /\ Range(p) = I
  /\ \A i, j \in 1..Len(p) : i < j => p[i] < p[j]

(* What is kept of 1..n lists the places that are kept.                      *)
LEMMA PlacesOf ==
  ASSUME NEW n \in Nat, NEW I \in SUBSET (1..n)
  PROVE  IsPlaces(Kept([i \in 1..n |-> i], I), I, n)
<1> DEFINE all == [i \in 1..n |-> i]
           R == {x \in (1..n) \X (1..n) : x[1] < x[2]}
           p == Kept(all, I)
<1>1. all \in Seq(1..n) /\ Len(all) = n /\ \A i \in 1..n : all[i] = i
  OBVIOUS
<1> HIDE DEF all
<1>2. DOMAIN all = 1..n
  BY <1>1, LenProperties
<1>3. Range(all) = 1..n
  BY <1>1, <1>2 DEF Range
<1>4. SortedBy(all, R)
  BY <1>1, <1>2 DEF SortedBy
<1>5. p \in Seq(1..n) /\ Range(p) = (1..n) \intersect I /\ SortedBy(p, R)
  BY <1>1, <1>3, <1>4, KeptElements
<1> HIDE DEF p
<1>6. DOMAIN p = 1..Len(p)
  BY <1>5, LenProperties
<1>7. \A i, j \in 1..Len(p) : i < j => p[i] < p[j]
  BY <1>5, <1>6 DEF SortedBy
<1>8. IsPlaces(p, I, n)
  BY <1>5, <1>7 DEF IsPlaces
<1>9. QED
  BY <1>8 DEF p, all

(* What is picked: the elements at those places.                             *)
PickedAt(t, s, I, p) ==
  /\ IsPlaces(p, I, Len(s))
  /\ Len(t) = Len(p)
  /\ \A i \in 1..Len(p) : p[i] \in I /\ p[i] \in 1..Len(s) /\ t[i] = s[p[i]]
  /\ \A i \in I : \E j \in 1..Len(p) : p[j] = i

(* Picking elements by their places keeps their order.                       *)
LEMMA PickedElements ==
  ASSUME NEW T, NEW s \in Seq(T), NEW I \in SUBSET (1..Len(s))
  PROVE  /\ Picked(s, I) \in Seq(T)
         /\ \E p : PickedAt(Picked(s, I), s, I, p)
<1> DEFINE n == Len(s)
           p == Kept([i \in 1..n |-> i], I)
<1>1. n \in Nat /\ \A i \in 1..n : s[i] \in T
  BY LenProperties, ElementOfSeq
<1>2. IsPlaces(p, I, n)
  BY <1>1, PlacesOf
<1>3. Picked(s, I) = [i \in 1..Len(p) |-> s[p[i]]]
  BY DEF Picked
<1> HIDE DEF p, n
<1>4. /\ Len(p) \in Nat /\ DOMAIN p = 1..Len(p)
      /\ \A i \in 1..Len(p) : p[i] \in 1..n
  BY <1>2, LenProperties, ElementOfSeq DEF IsPlaces
<1>5. \A i \in 1..Len(p) : p[i] \in I
  BY <1>2, <1>4 DEF IsPlaces, Range
<1>6. \A i \in I : \E j \in 1..Len(p) : p[j] = i
  BY <1>2, <1>4 DEF IsPlaces, Range
<1>7. Picked(s, I) \in [1..Len(p) -> T]
  BY <1>1, <1>3, <1>4
<1>8. Picked(s, I) \in Seq(T) /\ Len(Picked(s, I)) = Len(p)
  BY <1>4, <1>7
<1>9. \A i \in 1..Len(p) : Picked(s, I)[i] = s[p[i]]
  BY <1>3
<1>10. PickedAt(Picked(s, I), s, I, p)
  BY <1>2, <1>4, <1>5, <1>6, <1>8, <1>9 DEF PickedAt, n
<1>11. QED
  BY <1>8, <1>10

(* Nothing is picked twice, nothing but the places asked for, and in order.    *)
LEMMA PickedCount ==
  ASSUME NEW T, NEW s \in Seq(T), NEW I \in SUBSET (1..Len(s))
  PROVE  Len(Picked(s, I)) = Cardinality(I)
<1>1. PICK p : PickedAt(Picked(s, I), s, I, p)
  BY PickedElements
<1> DEFINE m == Len(p)
<1>2. /\ p \in Seq(1..Len(s)) /\ m \in Nat /\ DOMAIN p = 1..m
      /\ \A i \in 1..m : p[i] \in I
      /\ \A i \in I : \E j \in 1..m : p[j] = i
      /\ \A i, j \in 1..m : i < j => p[i] < p[j]
      /\ Len(Picked(s, I)) = m
  BY <1>1, LenProperties DEF PickedAt, IsPlaces
<1>3. \A i \in 1..m : p[i] \in Nat
  BY <1>1, LenProperties, ElementOfSeq DEF PickedAt, IsPlaces
<1> HIDE DEF m
<1>4. \A i, j \in 1..m : p[i] = p[j] => i = j
  <2> SUFFICES ASSUME NEW i \in 1..m, NEW j \in 1..m, p[i] = p[j], i # j PROVE FALSE
    OBVIOUS
  <2>1. i < j \/ j < i
    BY <1>2
  <2>2. ~(p[i] < p[j]) /\ ~(p[j] < p[i])
    BY <1>3
  <2>3. QED
    BY <1>2, <2>1, <2>2
<1>5. p \in [1..m -> I]
  <2>1. p = [i \in 1..m |-> p[i]]
    BY <1>2
  <2>2. QED
    BY <1>2, <2>1
<1>6. p \in Bijection(1..m, I)
  BY <1>2, <1>4, <1>5 DEF Bijection, Injection, Surjection, IsInjective
<1>7. IsFiniteSet(1..m) /\ Cardinality(1..m) = m
  BY <1>2, FS_Interval
<1>8. ExistsBijection(1..m, I)
  BY <1>6 DEF ExistsBijection
<1>9. QED
  BY <1>2, <1>7, <1>8, FS_Bijection

(* The first of each key: no key twice, every key, and no later one of a key.    *)
Firsts(keys, n) == {i \in 1..n : \A j \in 1..i - 1 : keys[j] # keys[i]}
FirstsAt(t, found, keys, p) ==
  /\ PickedAt(t, found, Firsts(keys, Len(found)), p)
  /\ \A i, j \in 1..Len(p) : keys[p[i]] = keys[p[j]] => i = j
  /\ \A i \in 1..Len(found) : \E j \in 1..Len(p) : keys[p[j]] = keys[i]

(* Of each key the first element is kept, in order.                          *)
LEMMA FirstKeys ==
  ASSUME NEW T, NEW found \in Seq(T), NEW keys
  PROVE  /\ FirstOfEach(found, keys) \in Seq(T)
         /\ \E p : FirstsAt(FirstOfEach(found, keys), found, keys, p)
<1> DEFINE n == Len(found)
           I == Firsts(keys, n)
           t == Picked(found, I)
<1>1. n \in Nat /\ I \in SUBSET (1..n)
  BY LenProperties DEF Firsts
<1>2. FirstOfEach(found, keys) = t
  BY DEF FirstOfEach, Firsts
<1>3. t \in Seq(T) /\ \E p : PickedAt(t, found, I, p)
  <2> HIDE DEF t, I
  <2>1. Picked(found, I) \in Seq(T) /\ \E p : PickedAt(Picked(found, I), found, I, p)
    BY <1>1, PickedElements
  <2>2. QED
    BY <2>1 DEF t
<1>4. PICK p : PickedAt(t, found, I, p)
  BY <1>3
<1> HIDE DEF t
<1>5. /\ \A i \in 1..Len(p) : p[i] \in I /\ p[i] \in 1..n
      /\ \A i \in I : \E j \in 1..Len(p) : p[j] = i
      /\ \A i, j \in 1..Len(p) : i < j => p[i] < p[j]
      /\ Len(p) \in Nat
  BY <1>4, LenProperties DEF PickedAt, IsPlaces
<1>6. \A i, j \in 1..n : i < j /\ j \in I => keys[i] # keys[j]
  <2> SUFFICES ASSUME NEW i \in 1..n, NEW j \in 1..n, i < j, j \in I PROVE keys[i] # keys[j]
    OBVIOUS
  <2>1. i \in 1..j - 1
    BY <1>1
  <2>2. QED
    BY <2>1 DEF Firsts
<1>7. ASSUME NEW i \in 1..n PROVE \E j \in I : keys[j] = keys[i]
  <2> DEFINE J == {k \in 1..n : keys[k] = keys[i]}
  <2>1. J \in SUBSET Nat /\ J # {}
    BY <1>1
  <2>2. PICK j \in J : \A k \in J : j <= k
    <3> HIDE DEF J
    <3>1. QED
      BY <2>1, LeastNatural
  <2>3. j \in 1..n /\ keys[j] = keys[i]
    BY <2>2
  <2>4. \A k \in 1..j - 1 : keys[k] # keys[j]
    <3> SUFFICES ASSUME NEW k \in 1..j - 1, keys[k] = keys[j] PROVE FALSE
      OBVIOUS
    <3>1. k \in 1..n /\ ~(j <= k)
      BY <1>1, <2>3
    <3>2. k \in J
      BY <2>3, <3>1
    <3>3. QED
      BY <2>2, <3>1, <3>2
  <2>5. QED
    BY <2>3, <2>4 DEF Firsts
<1> HIDE DEF I
<1>8. \A i, j \in 1..Len(p) : keys[p[i]] = keys[p[j]] => i = j
  <2> SUFFICES ASSUME NEW i \in 1..Len(p), NEW j \in 1..Len(p), keys[p[i]] = keys[p[j]], i # j PROVE FALSE
    OBVIOUS
  <2>1. i < j \/ j < i
    BY <1>5
  <2>2. CASE i < j
    BY <1>5, <1>6, <2>2
  <2>3. CASE j < i
    BY <1>5, <1>6, <2>3
  <2>4. QED
    BY <2>1, <2>2, <2>3
<1>9. \A i \in 1..n : \E j \in 1..Len(p) : keys[p[j]] = keys[i]
  BY <1>5, <1>7
<1>10. FirstsAt(t, found, keys, p)
  BY <1>4, <1>8, <1>9 DEF FirstsAt, I, n
<1>11. QED
  BY <1>2, <1>3, <1>10

(* One publication of each reference, the first one.                         *)
LEMMA FirstReferences ==
  ASSUME NEW T, NEW found \in Seq(T)
  PROVE  /\ FirstOfReferences(found) \in Seq(T)
         /\ IsInjective(ReferencesOf(FirstOfReferences(found)))
         /\ Range(ReferencesOf(FirstOfReferences(found))) = {found[i].reference : i \in 1..Len(found)}
         /\ \A i \in 1..Len(found) :
               (\A j \in 1..i - 1 : found[j].reference # found[i].reference) =>
                  found[i] \in Range(FirstOfReferences(found))
<1> DEFINE n == Len(found)
           keys == [i \in 1..Len(found) |-> found[i].reference]
           t == FirstOfReferences(found)
<1>1. n \in Nat
  BY LenProperties
<1>2. \A i \in 1..n : keys[i] = found[i].reference
  OBVIOUS
<1>3. t = FirstOfEach(found, keys)
  BY DEF FirstOfReferences
<1> HIDE DEF t, keys
<1>4. t \in Seq(T) /\ \E p : FirstsAt(t, found, keys, p)
  BY <1>3, FirstKeys
<1>5. PICK p : FirstsAt(t, found, keys, p)
  BY <1>4
<1>6. /\ Len(t) = Len(p)
      /\ \A i \in 1..Len(p) : p[i] \in 1..n /\ t[i] = found[p[i]]
      /\ \A i \in Firsts(keys, n) : \E j \in 1..Len(p) : p[j] = i
      /\ \A i, j \in 1..Len(p) : keys[p[i]] = keys[p[j]] => i = j
      /\ \A i \in 1..n : \E j \in 1..Len(p) : keys[p[j]] = keys[i]
  BY <1>5 DEF FirstsAt, PickedAt
<1>7. DOMAIN t = 1..Len(p) /\ Len(t) \in Nat
  BY <1>4, <1>6, LenProperties
<1> HIDE DEF n
<1>8. /\ DOMAIN ReferencesOf(t) = 1..Len(p)
      /\ \A i \in 1..Len(p) : ReferencesOf(t)[i] = keys[p[i]]
  <2>1. ReferencesOf(t) = [i \in 1..Len(t) |-> t[i].reference]
    BY DEF ReferencesOf
  <2>2. QED
    BY <1>2, <1>6, <2>1
<1>9. IsInjective(ReferencesOf(t))
  BY <1>6, <1>8, SMTT(30) DEF IsInjective
<1>10. Range(ReferencesOf(t)) = {keys[p[i]] : i \in 1..Len(p)}
  BY <1>8 DEF Range
<1>11. {keys[p[i]] : i \in 1..Len(p)} = {found[i].reference : i \in 1..n}
  <2>1. \A i \in 1..Len(p) : keys[p[i]] \in {found[k].reference : k \in 1..n}
    BY <1>2, <1>6, SMTT(30)
  <2>2. ASSUME NEW i \in 1..n PROVE found[i].reference \in {keys[p[j]] : j \in 1..Len(p)}
    <3>1. PICK j \in 1..Len(p) : keys[p[j]] = keys[i]
      BY <1>6
    <3>2. keys[p[j]] = found[i].reference
      BY <1>2, <3>1
    <3>3. QED
      BY <3>2
  <2>3. QED
    BY <2>1, <2>2
<1>12. ASSUME NEW i \in 1..n, \A j \in 1..i - 1 : found[j].reference # found[i].reference
       PROVE  found[i] \in Range(t)
  <2>1. \A j \in 1..i - 1 : j \in 1..n
    BY <1>1
  <2>2. i \in Firsts(keys, n)
    BY <1>2, <1>12, <2>1 DEF Firsts
  <2>3. PICK j \in 1..Len(p) : p[j] = i
    BY <1>6, <2>2
  <2>4. t[j] = found[i]
    BY <1>6, <2>3
  <2>5. QED
    BY <1>7, <2>4 DEF Range
<1>13. QED
  BY <1>4, <1>9, <1>10, <1>11, <1>12 DEF t, n

(* The first element that is picked stands at the least place.               *)
LEMMA FirstOfPlaces ==
  ASSUME NEW s, NEW I \in SUBSET Nat, NEW k \in I, \A j \in I : k <= j
  PROVE  FirstPicked(s, I) = s[k]
<1>1. \A i \in I : (\A j \in I : i <= j) => i = k
  <2> SUFFICES ASSUME NEW i \in I, \A j \in I : i <= j PROVE i = k
    OBVIOUS
  <2>1. i <= k /\ k <= i /\ i \in Nat /\ k \in Nat
    OBVIOUS
  <2>2. QED
    BY <2>1
<1>2. (CHOOSE i \in I : \A j \in I : i <= j) = k
  BY <1>1
<1>3. QED
  BY <1>2 DEF FirstPicked

(* The elements of a flattened sequence are those of its parts.               *)
LEMMA FlattenElements ==
  ASSUME NEW S, NEW ss \in Seq(Seq(S))
  PROVE  /\ FlattenSeq(ss) \in Seq(S)
         /\ Range(FlattenSeq(ss)) = UNION {Range(ss[i]) : i \in 1..Len(ss)}
<1> DEFINE n == Len(ss)
<1>1. n \in Nat /\ \A i \in 1..n : ss[i] \in Seq(S)
  BY LenProperties, ElementOfSeq
<1>2. CASE n = 0
  <2>1. ss = <<>>
    BY <1>2, EmptySeq
  <2>2. FlattenSeq(ss) = <<>>
    BY <2>1 DEF FlattenSeq
  <2>3. Range(<<>>) = {} /\ UNION {Range(ss[i]) : i \in 1..0} = {}
    BY DEF Range
  <2>4. <<>> \in Seq(S)
    OBVIOUS
  <2>5. QED
    BY <1>2, <2>2, <2>3, <2>4
<1>3. CASE n # 0
  <2>1. PICK f \in [1..n -> Seq(S)] :
            /\ f[1] = ss[1]
            /\ \A i \in 1..n : i # 1 => f[i] = f[i - 1] \o ss[i]
            /\ FlattenSeq(ss) = f[n]
    BY <1>3, FlattenIterates
  <2> HIDE DEF n
  <2> DEFINE upto(m) == UNION {Range(ss[i]) : i \in 1..m}
             G == {m \in 0..n : m = 0 \/ Range(f[m]) = upto(m)}
  <2>2. 0 \in G
    BY <1>1
  <2>3. ASSUME NEW m \in 1..n, m - 1 \in G PROVE m \in G
    <3>1. 1..m = (1..(m - 1)) \cup {m}
      BY <1>1
    <3>2. upto(m) = upto(m - 1) \cup Range(ss[m])
      BY <3>1
    <3>3. CASE m = 1
      <4>1. upto(0) = {}
        OBVIOUS
      <4>2. upto(1) = Range(ss[1])
        BY <3>2, <3>3, <4>1
      <4> HIDE DEF upto
      <4>3. QED
        BY <1>1, <2>1, <3>3, <4>2
    <3>4. CASE m # 1
      <4>1. m - 1 \in 1..n /\ m - 1 # 0
        BY <1>1, <3>4
      <4>2. Range(f[m - 1]) = upto(m - 1)
        BY <2>3, <4>1
      <4>3. f[m - 1] \in Seq(S) /\ ss[m] \in Seq(S)
        BY <1>1, <2>1, <4>1
      <4>4. Range(f[m - 1] \o ss[m]) = Range(f[m - 1]) \cup Range(ss[m])
        BY <4>3, RangeOfConcat
      <4>5. f[m] = f[m - 1] \o ss[m]
        BY <2>1, <3>4
      <4> HIDE DEF upto
      <4>6. Range(f[m]) = upto(m)
        BY <3>2, <4>2, <4>4, <4>5
      <4>7. m \in 0..n
        BY <1>1
      <4>8. QED
        BY <4>6, <4>7
    <3>5. QED
      BY <3>3, <3>4
  <2>4. 0..n \subseteq G
    <3> HIDE DEF G
    <3>1. QED
      BY <1>1, <2>2, <2>3, InductionUpTo
  <2>5. Range(f[n]) = upto(n) /\ f[n] \in Seq(S)
    <3>1. n \in 0..n /\ n \in 1..n
      BY <1>1, <1>3 DEF n
    <3>2. n \in G
      <4> HIDE DEF G
      <4>1. QED
        BY <2>4, <3>1
    <3> HIDE DEF upto
    <3>3. n # 0
      BY <1>3 DEF n
    <3>4. QED
      BY <2>1, <3>1, <3>2, <3>3
  <2>6. QED
    BY <2>1, <2>5 DEF n
<1>4. QED
  BY <1>2, <1>3

(* A list is a sequence of its own elements.                                 *)
LEMMA ListHasType ==
  ASSUME NEW s, IsList(s)
  PROVE  s \in Seq(Range(s)) /\ Len(s) \in Nat /\ DOMAIN s = 1..Len(s)
BY LenProperties DEF IsList

-----------------------------------------------------------------------------
(* The index of legifrance-jorf.                                            *)

(* The nearest telling text around a link.                                   *)
LEMMA NearestTells ==
  ASSUME NEW around, IsList(around), NEW k \in 1..Len(around), k <= Hops, around[k].telling,
         \A m \in 1..k - 1 : ~around[m].telling
  PROVE  Blurb(around) = around[k]
<1> DEFINE near == IF Len(around) <= Hops THEN around ELSE SubSeq(around, 1, Hops)
           telling == {i \in 1..Len(near) : near[i].telling}
<1>1. Len(around) \in Nat /\ \A i \in 1..Len(around) : around[i] \in Range(around)
  BY ListHasType, ElementOfSeq
<1>2. /\ k \in 1..Len(near)
      /\ \A i \in 1..Len(near) : i <= k => near[i] = around[i]
      /\ Len(near) \in Nat
  <2>1. CASE Len(around) <= Hops
    BY <1>1, <2>1
  <2>2. CASE ~(Len(around) <= Hops)
    <3>1. Len(around) > 6
      BY <1>1, <2>2 DEF Hops
    <3>2. near = SubSeq(around, 1, 6)
      BY <2>2 DEF Hops
    <3>3. Len(SubSeq(around, 1, 6)) = 6 /\ \A i \in 1..6 : SubSeq(around, 1, 6)[i] = around[i]
      <4>1. \A i \in 1..6 : around[i] \in Range(around)
        BY <1>1, <3>1
      <4>2. /\ Len(SubSeq(around, 1, 6)) = IF 1 <= 6 THEN 6 - 1 + 1 ELSE 0
            /\ \A i \in 1..(6 - 1 + 1) : SubSeq(around, 1, 6)[i] = around[1 + i - 1]
        BY <1>1, <3>1, ListHasType, SubSeqProperties
      <4>3. QED
        BY <4>2
    <3> HIDE DEF near
    <3>4. Len(near) = 6 /\ \A i \in 1..6 : near[i] = around[i]
      BY <3>2, <3>3
    <3>5. QED
      BY <1>1, <3>4 DEF Hops
  <2>3. QED
    BY <2>1, <2>2
<1> HIDE DEF near
<1>3. k \in telling
  BY <1>2
<1>4. \A j \in telling : k <= j
  <2> SUFFICES ASSUME NEW j \in telling, ~(k <= j) PROVE FALSE
    OBVIOUS
  <2>1. j \in 1..k - 1 /\ j \in 1..Len(near) /\ near[j].telling
    BY <1>2
  <2>2. near[j] = around[j]
    BY <1>2, <2>1
  <2>3. QED
    BY <2>1, <2>2
<1>5. FirstPicked(near, telling) = near[k]
  <2>1. telling \in SUBSET Nat
    BY <1>2
  <2> HIDE DEF telling
  <2>2. QED
    BY <1>3, <1>4, <2>1, FirstOfPlaces
<1>6. telling # {}
  BY <1>3
<1>7. Blurb(around) = FirstPicked(near, telling)
  BY <1>6 DEF Blurb, near
<1>8. near[k] = around[k]
  BY <1>2
<1>9. QED
  BY <1>5, <1>7, <1>8

(* The numbers of a page, linked ones and those of its texts.                *)
JorfLinked(index) == {i \in 1..Len(index.links) : index.links[i].nor # None}
JorfLinks(index) ==
  [i \in 1..Len(Picked(index.links, JorfLinked(index))) |-> JorfLink(Picked(index.links, JorfLinked(index))[i])]
JorfTexts(index) == [i \in 1..Len(index.texts) |-> JorfText(index.texts[i])]

(* The links of the index come before its texts.                             *)
LEMMA JorfParts ==
  ASSUME NEW index
  PROVE  LegifranceJorf(index) = FirstOfReferences(JorfLinks(index) \o FlattenSeq(JorfTexts(index)))
BY DEF LegifranceJorf, JorfLinks, JorfTexts, JorfLinked

(* A text gives the numbers that stand in it.                                *)
LEMMA JorfTextNumbers ==
  ASSUME NEW t, IsList(t.nors)
  PROVE  /\ JorfText(t) \in Seq(Range(JorfText(t)))
         /\ {x.reference : x \in Range(JorfText(t))} = Range(t.nors)
<1> DEFINE n == Len(t.nors)
           s == JorfText(t)
           f(i) == Publication(t.nors[i], <<"jorf", t.nors[i]>>, t.published, t.effective, "html")
<1>1. n \in Nat /\ DOMAIN t.nors = 1..n
  BY ListHasType
<1>2. s = [i \in 1..n |-> f(i)]
  BY DEF JorfText
<1>3. \A i \in 1..n : f(i).reference = t.nors[i]
  BY DEF Publication
<1> HIDE DEF f, n, s
<1>4. DOMAIN s = 1..n /\ \A i \in 1..n : s[i] = f(i)
  BY <1>2
<1>5. s \in [1..n -> Range(s)]
  BY <1>2, <1>4 DEF Range
<1>6. s \in Seq(Range(s))
  BY <1>1, <1>5
<1>7. {x.reference : x \in Range(s)} = Range(t.nors)
  BY <1>1, <1>3, <1>4 DEF Range
<1>8. QED
  BY <1>6, <1>7 DEF s

(* The scan of legifrance-jorf reports what the index names.                 *)
LEMMA JorfScan ==
  ASSUME NEW index, IsList(index.links), IsList(index.texts),
         \A i \in 1..Len(index.links) : IsList(index.links[i].around),
         \A i \in 1..Len(index.texts) : IsList(index.texts[i].nors)
  PROVE  JorfIsComplete(index, LegifranceJorf(index))
<1> DEFINE I == JorfLinked(index)
           links == index.links
           texts == index.texts
           linked == Picked(links, I)
           L == JorfLinks(index)
           X == JorfTexts(index)
           found == L \o FlattenSeq(X)
           n == Len(linked)
           T == {JorfLink(linked[i]) : i \in 1..n} \cup UNION {Range(JorfText(texts[i])) : i \in 1..Len(texts)}
           answered == LegifranceJorf(index)
<1>1. I \in SUBSET (1..Len(links)) /\ Len(links) \in Nat /\ Len(texts) \in Nat
  BY ListHasType DEF JorfLinked
<1>2. linked \in Seq(Range(links)) /\ \E p : PickedAt(linked, links, I, p)
  <2> HIDE DEF I
  <2>1. QED
    BY <1>1, ListHasType, PickedElements
<1>3. PICK p : PickedAt(linked, links, I, p)
  BY <1>2
<1>4. n \in Nat /\ n = Len(p)
  BY <1>2, <1>3, LenProperties DEF PickedAt
<1>5. L = [i \in 1..n |-> JorfLink(linked[i])]
  BY DEF JorfLinks
<1>6. X = [i \in 1..Len(texts) |-> JorfText(texts[i])]
  BY DEF JorfTexts
<1>7. answered = FirstOfReferences(found)
  BY JorfParts
<1> HIDE DEF I, linked, L, X, answered, n
<1>8. /\ \A i \in 1..n : linked[i] = links[p[i]] /\ p[i] \in I /\ p[i] \in 1..Len(links)
      /\ \A i \in I : \E j \in 1..n : p[j] = i
      /\ \A i, j \in 1..n : i < j => p[i] < p[j]
  BY <1>3, <1>4 DEF PickedAt, IsPlaces
<1>9. L \in Seq(T) /\ Len(L) = n /\ DOMAIN L = 1..n /\ \A i \in 1..n : L[i] = JorfLink(linked[i])
  <2>1. \A i \in 1..n : JorfLink(linked[i]) \in T
    OBVIOUS
  <2> HIDE DEF T
  <2>2. L \in [1..n -> T]
    BY <1>5, <2>1
  <2>3. QED
    BY <1>4, <1>5, <2>2
<1>10. X \in Seq(Seq(T)) /\ Len(X) = Len(texts) /\ \A i \in 1..Len(texts) : X[i] = JorfText(texts[i])
  <2>1. ASSUME NEW i \in 1..Len(texts) PROVE JorfText(texts[i]) \in Seq(T)
    <3>1. JorfText(texts[i]) \in Seq(Range(JorfText(texts[i])))
      BY JorfTextNumbers
    <3>2. Range(JorfText(texts[i])) \subseteq T
      OBVIOUS
    <3> HIDE DEF T
    <3>3. QED
      BY <3>1, <3>2
  <2> HIDE DEF T
  <2>2. X \in [1..Len(texts) -> Seq(T)]
    BY <1>6, <2>1
  <2>3. QED
    BY <1>1, <1>6, <2>2
<1>11. FlattenSeq(X) \in Seq(T) /\ Range(FlattenSeq(X)) = UNION {Range(X[i]) : i \in 1..Len(texts)}
  <2> HIDE DEF T
  <2>1. QED
    BY <1>10, FlattenElements
<1>12. found \in Seq(T) /\ Range(found) = Range(L) \cup Range(FlattenSeq(X))
  <2> HIDE DEF T
  <2>1. QED
    BY <1>9, <1>11, RangeOfConcat
<1>13. /\ Len(found) \in Nat /\ DOMAIN found = 1..Len(found) /\ n <= Len(found)
       /\ \A i \in 1..n : found[i] = L[i]
  <2> HIDE DEF T
  <2>1. /\ Len(found) = n + Len(FlattenSeq(X)) /\ Len(FlattenSeq(X)) \in Nat
        /\ \A i \in 1..(n + Len(FlattenSeq(X))) : found[i] = IF i <= n THEN L[i] ELSE FlattenSeq(X)[i - n]
    BY <1>9, <1>11, ConcatProperties, LenProperties
  <2>2. QED
    BY <1>4, <1>12, <2>1, LenProperties
<1> HIDE DEF T, found
<1>14. /\ IsInjective(ReferencesOf(answered))
       /\ Range(ReferencesOf(answered)) = {found[i].reference : i \in 1..Len(found)}
       /\ \A i \in 1..Len(found) :
             (\A j \in 1..i - 1 : found[j].reference # found[i].reference) => found[i] \in Range(answered)
  BY <1>7, <1>12, FirstReferences
<1> DEFINE refs == {x.reference : x \in Range(found)}
           ofLinks == {links[i].nor : i \in I}
           ofTexts == UNION {Range(texts[i].nors) : i \in 1..Len(texts)}
<1>15. {found[i].reference : i \in 1..Len(found)} = refs
  BY <1>13 DEF Range
<1>16. {x.reference : x \in Range(L)} = ofLinks
  <2>1. \A i \in 1..n : L[i].reference = links[p[i]].nor
    BY <1>8, <1>9 DEF JorfLink, Publication
  <2>2. \A x \in Range(L) : x.reference \in ofLinks
    BY <1>8, <1>9, <2>1 DEF Range
  <2>3. ASSUME NEW i \in I PROVE links[i].nor \in {x.reference : x \in Range(L)}
    <3>1. PICK j \in 1..n : p[j] = i
      BY <1>8
    <3>2. L[j] \in Range(L) /\ L[j].reference = links[i].nor
      BY <1>9, <2>1, <3>1 DEF Range
    <3>3. QED
      BY <3>2
  <2>4. QED
    BY <2>2, <2>3
<1>17. {x.reference : x \in Range(FlattenSeq(X))} = ofTexts
  <2>1. \A i \in 1..Len(texts) : {x.reference : x \in Range(X[i])} = Range(texts[i].nors)
    BY <1>10, JorfTextNumbers
  <2>2. ASSUME NEW x \in Range(FlattenSeq(X)) PROVE x.reference \in ofTexts
    <3>1. PICK i \in 1..Len(texts) : x \in Range(X[i])
      BY <1>11
    <3>2. QED
      BY <2>1, <3>1
  <2>3. ASSUME NEW r \in ofTexts PROVE r \in {x.reference : x \in Range(FlattenSeq(X))}
    <3>1. PICK i \in 1..Len(texts) : r \in Range(texts[i].nors)
      OBVIOUS
    <3>2. PICK x \in Range(X[i]) : x.reference = r
      BY <2>1, <3>1
    <3>3. x \in Range(FlattenSeq(X))
      BY <1>11, <3>2
    <3>4. QED
      BY <3>2, <3>3
  <2>4. QED
    BY <2>2, <2>3
<1>18. Range(ReferencesOf(answered)) = ofLinks \cup ofTexts
  <2>1. refs = {x.reference : x \in Range(L)} \cup {x.reference : x \in Range(FlattenSeq(X))}
    BY <1>12
  <2> HIDE DEF refs, ofLinks, ofTexts
  <2>2. QED
    BY <1>14, <1>15, <1>16, <1>17, <2>1
<1>19. ASSUME NEW i \in I, \A j \in I : links[j].nor = links[i].nor => i <= j
       PROVE  JorfLink(links[i]) \in Range(answered)
  <2>1. PICK k \in 1..n : p[k] = i
    BY <1>8
  <2>2. found[k] = JorfLink(links[i]) /\ k \in 1..Len(found)
    BY <1>4, <1>8, <1>9, <1>13, <2>1
  <2>3. ASSUME NEW j \in 1..k - 1 PROVE found[j].reference # found[k].reference
    <3>1. j \in 1..n /\ j < k
      BY <1>4
    <3>2. p[j] < p[k] /\ p[j] \in I /\ p[j] \in Nat /\ p[k] \in Nat
      BY <1>1, <1>8, <3>1
    <3>3. links[p[j]].nor # links[i].nor
      BY <1>19, <2>1, <3>2
    <3>4. found[j].reference = links[p[j]].nor
      <4>1. found[j] = L[j]
        BY <1>13, <3>1
      <4>2. L[j] = JorfLink(links[p[j]])
        BY <1>8, <1>9, <3>1, SMTT(30)
      <4>3. QED
        BY <4>1, <4>2 DEF JorfLink, Publication
    <3>5. found[k].reference = links[i].nor
      BY <2>2 DEF JorfLink, Publication
    <3>6. QED
      BY <3>3, <3>4, <3>5
  <2>4. QED
    BY <1>14, <2>2, <2>3
<1>20. ASSUME NEW i \in I, NEW k \in 1..Len(links[i].around), k <= Hops, links[i].around[k].telling,
              \A m \in 1..k - 1 : ~links[i].around[m].telling
       PROVE  /\ JorfLink(links[i]).published = links[i].around[k].published
              /\ JorfLink(links[i]).effective = links[i].around[k].effective
  <2>1. IsList(links[i].around)
    BY <1>1
  <2>2. Blurb(links[i].around) = links[i].around[k]
    BY <1>20, <2>1, NearestTells
  <2>3. QED
    BY <2>2 DEF JorfLink, Publication
<1>21. ASSUME NEW i \in I, \A j \in I : links[j].nor = links[i].nor => i <= j
       PROVE  \E q \in Range(answered) :
                 /\ q.reference = links[i].nor /\ q.url = links[i].href
                 /\ \A k \in 1..Len(links[i].around) :
                       /\ k <= Hops /\ links[i].around[k].telling
                       /\ \A m \in 1..k - 1 : ~links[i].around[m].telling
                       => /\ q.published = links[i].around[k].published
                          /\ q.effective = links[i].around[k].effective
  <2> DEFINE q == JorfLink(links[i])
  <2>1. q \in Range(answered)
    BY <1>19, <1>21
  <2>2. q.reference = links[i].nor /\ q.url = links[i].href
    BY DEF JorfLink, Publication
  <2>3. QED
    BY <1>20, <2>1, <2>2
<1>22. IsInjective(ReferencesOf(answered))
  BY <1>14
<1>23. JorfIsComplete(index, answered)
  BY <1>18, <1>21, <1>22 DEF JorfIsComplete, I, JorfLinked
<1>24. QED
  BY <1>23 DEF answered

-----------------------------------------------------------------------------
(* The index of douane-opendata.                                            *)

(* The scan of douane-opendata reports the days of the page.                 *)
LEMMA DouaneScan ==
  ASSUME NEW s, IsList(s.page.links)
  PROVE  DouaneIsComplete(s, DouaneOpenData(s.page, s.config.extension))
<1> DEFINE links == s.page.links
           extension == Or(s.config.extension, "ods")
           I == {i \in 1..Len(links) : links[i].extension = extension /\ links[i].day # None}
           dated == Picked(links, I)
           n == Len(dated)
           found == [i \in 1..n |-> DouaneLink(dated[i], extension)]
           answered == DouaneOpenData(s.page, s.config.extension)
           T == {DouaneLink(dated[i], extension) : i \in 1..n}
<1>1. I \in SUBSET (1..Len(links))
  OBVIOUS
<1>2. answered = FirstOfReferences(found)
  BY DEF DouaneOpenData
<1>3. dated \in Seq(Range(links)) /\ \E p : PickedAt(dated, links, I, p)
  <2> HIDE DEF I
  <2>1. QED
    BY <1>1, ListHasType, PickedElements
<1> HIDE DEF answered, dated
<1>4. PICK p : PickedAt(dated, links, I, p)
  BY <1>3
<1>5. n \in Nat /\ n = Len(p)
  BY <1>3, <1>4, LenProperties DEF PickedAt
<1>6. found \in Seq(T) /\ Len(found) = n /\ \A i \in 1..n : found[i] = DouaneLink(dated[i], extension)
  <2>1. found \in [1..n -> T]
    OBVIOUS
  <2>2. QED
    BY <1>5, <2>1
<1> HIDE DEF n, found, T, extension, I
<1>7. /\ \A i \in 1..n : dated[i] = links[p[i]] /\ p[i] \in I
      /\ \A i \in I : \E j \in 1..n : p[j] = i
  BY <1>4, <1>5 DEF PickedAt
<1>8. /\ IsInjective(ReferencesOf(answered))
      /\ Range(ReferencesOf(answered)) = {found[i].reference : i \in 1..n}
  BY <1>2, <1>6, FirstReferences
<1>9. \A i \in 1..n : found[i].reference = <<"FR-DOUANE", links[p[i]].day>>
  BY <1>6, <1>7 DEF DouaneLink, Publication
<1>10. {found[i].reference : i \in 1..n} = {<<"FR-DOUANE", links[i].day>> : i \in I}
  <2>1. \A i \in 1..n : found[i].reference \in {<<"FR-DOUANE", links[j].day>> : j \in I}
    BY <1>7, <1>9
  <2>2. ASSUME NEW i \in I PROVE <<"FR-DOUANE", links[i].day>> \in {found[j].reference : j \in 1..n}
    <3>1. PICK j \in 1..n : p[j] = i
      BY <1>7
    <3>2. found[j].reference = <<"FR-DOUANE", links[i].day>>
      BY <1>9, <3>1
    <3>3. QED
      BY <3>2
  <2>3. QED
    BY <2>1, <2>2
<1>11. I = {j \in 1..Len(links) : links[j].day # None /\ links[j].extension = Or(s.config.extension, "ods")}
  BY DEF I, extension
<1>12. DouaneIsComplete(s, answered)
  BY <1>8, <1>10, <1>11 DEF DouaneIsComplete
<1>13. QED
  BY <1>12 DEF answered

-----------------------------------------------------------------------------
(* The index of generic-html-index.                                         *)

(* The scan of generic-html-index reports the items of the page.             *)
LEMMA GenericScan ==
  ASSUME NEW s, IsList(s.page.items)
  PROVE  ItemsAreComplete(s, GenericHtmlIndex(s.page, s.config.selector, s.config.mime))
<1> DEFINE items == s.page.items
           mime == Or(s.config.mime, "html")
           I == {i \in 1..Len(items) : items[i].href # None}
           linked == Picked(items, I)
           n == Len(linked)
           found == GenericHtmlIndex(s.page, s.config.selector, s.config.mime)
<1> SUFFICES ASSUME s.config.selector # None
             PROVE  /\ Len(found) = Cardinality(I)
                    /\ {<<found[i].reference, found[i].url>> : i \in 1..Len(found)} =
                          {<<Or(items[i].reference, items[i].href), items[i].href>> : i \in I}
  BY DEF ItemsAreComplete
<1>1. I \in SUBSET (1..Len(items))
  OBVIOUS
<1>2. found = [i \in 1..n |-> GenericItem(linked[i], mime)]
  BY DEF GenericHtmlIndex
<1>3. /\ linked \in Seq(Range(items)) /\ \E p : PickedAt(linked, items, I, p)
      /\ n = Cardinality(I)
  <2> HIDE DEF I
  <2>1. QED
    BY <1>1, ListHasType, PickedElements, PickedCount
<1> HIDE DEF found, linked
<1>4. PICK p : PickedAt(linked, items, I, p)
  BY <1>3
<1>5. n \in Nat /\ n = Len(p)
  BY <1>3, <1>4, LenProperties DEF PickedAt
<1> HIDE DEF n, mime
<1>6. Len(found) = n /\ \A i \in 1..n : found[i] = GenericItem(linked[i], mime)
  <2>1. found \in [1..n -> {GenericItem(linked[i], mime) : i \in 1..n}]
    BY <1>2
  <2>2. QED
    BY <1>2, <1>5, <2>1
<1> HIDE DEF I
<1>7. /\ \A i \in 1..n : linked[i] = items[p[i]] /\ p[i] \in I
      /\ \A i \in I : \E j \in 1..n : p[j] = i
  BY <1>4, <1>5 DEF PickedAt
<1>8. \A i \in 1..n : /\ found[i].reference = Or(items[p[i]].reference, items[p[i]].href)
                      /\ found[i].url = items[p[i]].href
  BY <1>6, <1>7 DEF GenericItem, Publication
<1> DEFINE named(i) == <<Or(items[i].reference, items[i].href), items[i].href>>
<1>9. \A i \in 1..n : <<found[i].reference, found[i].url>> = named(p[i])
  BY <1>8
<1> HIDE DEF named
<1>10. {<<found[i].reference, found[i].url>> : i \in 1..n} = {named(i) : i \in I}
  <2>1. \A i \in 1..n : <<found[i].reference, found[i].url>> \in {named(j) : j \in I}
    BY <1>7, <1>9
  <2>2. ASSUME NEW i \in I PROVE named(i) \in {<<found[j].reference, found[j].url>> : j \in 1..n}
    <3>1. PICK j \in 1..n : p[j] = i
      BY <1>7
    <3>2. <<found[j].reference, found[j].url>> = named(i)
      BY <1>9, <3>1
    <3>3. QED
      BY <3>2
  <2>3. QED
    BY <2>1, <2>2
<1>11. QED
  BY <1>3, <1>6, <1>10 DEF named

-----------------------------------------------------------------------------
(* The search of legifrance-dila, of a scan s.                              *)

TokenOf(s) == Token(s.cache, s.start, s.page.lifetime)
AskedAt(s, n) == s.start + (n - 1) * s.page.delay
Answered(s, n) == DilaAnswer(s.page, n, TokenOf(s), AskedAt(s, n), s.config.size)
Answers(s, m) == [n \in 1..m |-> Answered(s, n)]
ShortAnswers(s) == {n \in 1..s.config.pages : Len(Answered(s, n)) < s.config.size}
LastAnswered(s) ==
  IF ShortAnswers(s) = {} THEN s.config.pages
  ELSE CHOOSE n \in ShortAnswers(s) : \A m \in ShortAnswers(s) : n <= m
ItemsFound(s) == FlattenSeq(Answers(s, LastAnswered(s)))
Homologations(s) == {i \in 1..Len(ItemsFound(s)) : IsHomologation(ItemsFound(s)[i], s.config.nature)}
Discovered(s) ==
  [i \in 1..Len(Picked(ItemsFound(s), Homologations(s))) |->
      DilaItem(Picked(ItemsFound(s), Homologations(s))[i])]
SearchItems(s) == Range(s.page.results) \cup Range(s.page.unasked)

(* The scan of legifrance-dila, by its parts.                                *)
LEMMA DilaParts ==
  ASSUME NEW s
  PROVE  LegifranceDila(s.page, s.config, s.cache, s.start) = FirstOfReferences(Discovered(s))
<1>1. DilaPages(s.page, s.config, TokenOf(s), s.start) = Answers(s, LastAnswered(s))
  BY DEF DilaPages, Answers, LastAnswered, ShortAnswers, Answered, AskedAt
<1>2. QED
  BY <1>1 DEF LegifranceDila, Discovered, Homologations, ItemsFound, TokenOf

(* The numbers of a search, and the types of its results.                    *)
LEMMA SearchTypes ==
  ASSUME NEW s, IsSearch(s)
  PROVE  /\ s.page.results \in Seq(SearchItems(s)) /\ s.page.unasked \in Seq(SearchItems(s))
         /\ Len(s.page.results) \in Nat
         /\ s.page.delay \in Nat /\ s.page.lifetime \in Nat /\ s.page.lifetime > Margin
         /\ s.config.size \in Nat /\ s.config.size > 0 /\ s.config.pages \in Nat /\ s.start \in Nat
         /\ Margin \in Nat
<1>1. /\ s.page.results \in Seq(Range(s.page.results)) /\ Len(s.page.results) \in Nat
      /\ s.page.unasked \in Seq(Range(s.page.unasked))
  BY ListHasType DEF IsSearch
<1>2. /\ Range(s.page.results) \subseteq SearchItems(s)
      /\ Range(s.page.unasked) \subseteq SearchItems(s)
  BY DEF SearchItems
<1>3. s.page.results \in Seq(SearchItems(s)) /\ s.page.unasked \in Seq(SearchItems(s))
  BY <1>1, <1>2
<1>4. QED
  BY <1>1, <1>3, MarginAssumption DEF IsSearch

(* What a page of the search shows with a token that has not ended.           *)
PageEnd(s, n) == IF n * s.config.size <= Len(s.page.results) THEN n * s.config.size ELSE Len(s.page.results)

(* What the API answers to page n of a search, while the token lasts.        *)
LEMMA PageOfSearch ==
  ASSUME NEW s, IsSearch(s), NEW n \in Nat \ {0}
  PROVE  /\ Answered(s, n) \in Seq(SearchItems(s))
         /\ ~(TokenOf(s).ends <= AskedAt(s, n)) =>
               Answered(s, n) = SubSeq(s.page.results, (n - 1) * s.config.size + 1, PageEnd(s, n))
<1> DEFINE size == s.config.size
           from == (n - 1) * size
           results == s.page.results
           len == Len(results)
           page_(to) == SubSeq(results, from + 1, to)
<1>1. /\ results \in Seq(SearchItems(s)) /\ s.page.unasked \in Seq(SearchItems(s)) /\ len \in Nat
      /\ size \in Nat /\ size > 0
  BY SearchTypes
<1>2. from \in Nat
  BY <1>1
<1>3. n * size = from + size
  BY <1>1
<1>4. PageEnd(s, n) = IF from + size <= len THEN from + size ELSE len
  BY <1>3 DEF PageEnd
<1>5. Answered(s, n) = IF TokenOf(s).ends <= AskedAt(s, n) THEN s.page.unasked
                       ELSE page_(PageEnd(s, n))
  BY <1>4 DEF Answered, DilaAnswer
<1>6. PageEnd(s, n) \in Nat /\ PageEnd(s, n) <= len
  BY <1>1, <1>2, <1>4
<1> HIDE DEF from
<1>7. page_(PageEnd(s, n)) \in Seq(SearchItems(s))
  <2> DEFINE to == PageEnd(s, n)
  <2> HIDE DEF to
  <2>1. \A i \in (from + 1)..to : results[i] \in SearchItems(s)
    <3> SUFFICES ASSUME NEW i \in (from + 1)..to PROVE results[i] \in SearchItems(s)
      OBVIOUS
    <3>1. i \in 1..len
      BY <1>1, <1>2, <1>6 DEF to
    <3>2. QED
      BY <1>1, <3>1, ElementOfSeq
  <2>2. SubSeq(results, from + 1, to) \in Seq(SearchItems(s))
    <3>1. from + 1 \in Int /\ to \in Int
      BY <1>2, <1>6 DEF to
    <3>2. QED
      BY <2>1, <3>1, SubSeqProperties
  <2>3. QED
    BY <2>2 DEF to
<1> HIDE DEF page_
<1>8. Answered(s, n) \in Seq(SearchItems(s))
  BY <1>1, <1>5, <1>7
<1>9. QED
  BY <1>5, <1>8 DEF page_, from

(* The scan stops at the first page that is not full, or at the last allowed.    *)
LEMMA LastPageAsked ==
  ASSUME NEW s, IsSearch(s)
  PROVE  /\ LastAnswered(s) \in Nat /\ LastAnswered(s) <= s.config.pages
         /\ \A n \in 1..LastAnswered(s) - 1 : ~(Len(Answered(s, n)) < s.config.size)
         /\ LastAnswered(s) < s.config.pages =>
               /\ LastAnswered(s) \in Nat \ {0}
               /\ Len(Answered(s, LastAnswered(s))) < s.config.size
<1> DEFINE S == ShortAnswers(s)
           pages == s.config.pages
           last == LastAnswered(s)
<1>1. pages \in Nat /\ S \in SUBSET (1..pages)
  BY SearchTypes DEF ShortAnswers
<1>2. \A n \in 1..pages : n \in S <=> Len(Answered(s, n)) < s.config.size
  BY DEF ShortAnswers
<1>3. CASE S = {}
  <2>1. last = pages
    BY <1>3 DEF LastAnswered
  <2>2. QED
    BY <1>1, <1>2, <1>3, <2>1
<1>4. CASE S # {}
  <2>1. S \in SUBSET Nat
    BY <1>1
  <2>2. \E n \in S : \A m \in S : n <= m
    <3> HIDE DEF S
    <3>1. QED
      BY <1>4, <2>1, LeastNatural
  <2>3. last = CHOOSE n \in S : \A m \in S : n <= m
    BY <1>4 DEF LastAnswered
  <2>4. last \in S /\ \A m \in S : last <= m
    <3> HIDE DEF S, last
    <3>1. QED
      BY <2>2, <2>3
  <2>5. last \in 1..pages /\ Len(Answered(s, last)) < s.config.size
    <3>1. last \in 1..pages
      BY <1>1, <2>4
    <3>2. QED
      BY <1>2, <2>4, <3>1
  <2> HIDE DEF last, S, pages
  <2>6. ASSUME NEW n \in 1..last - 1 PROVE ~(Len(Answered(s, n)) < s.config.size)
    <3>1. n \in 1..pages /\ ~(last <= n)
      BY <1>1, <2>5
    <3>2. n \notin S
      BY <2>4, <3>1
    <3>3. QED
      BY <1>2, <3>1, <3>2
  <2>7. last \in Nat \ {0} /\ last <= pages
    BY <1>1, <2>5
  <2>8. QED
    BY <2>5, <2>6, <2>7 DEF last, pages
<1>5. QED
  BY <1>3, <1>4

(* The answers of a search are pages of its results.                         *)
LEMMA AnswersType ==
  ASSUME NEW s, IsSearch(s), NEW m \in Nat
  PROVE  /\ Answers(s, m) \in Seq(Seq(SearchItems(s))) /\ Len(Answers(s, m)) = m
         /\ \A n \in 1..m : Answers(s, m)[n] = Answered(s, n)
<1>1. \A n \in 1..m : Answered(s, n) \in Seq(SearchItems(s))
  <2>1. \A n \in 1..m : n \in Nat \ {0}
    OBVIOUS
  <2>2. QED
    BY <2>1, PageOfSearch
<1>2. Answers(s, m) \in [1..m -> Seq(SearchItems(s))]
  BY <1>1 DEF Answers
<1>3. QED
  BY <1>2 DEF Answers

(* A token that is not given up at the start lasts the margin.               *)
LEMMA TokenLasts ==
  ASSUME NEW s, IsSearch(s), NEW n \in Nat \ {0}, (n - 1) * s.page.delay <= Margin
  PROVE  ~(TokenOf(s).ends <= AskedAt(s, n))
<1> DEFINE spent == (n - 1) * s.page.delay
<1>1. /\ s.page.delay \in Nat /\ s.page.lifetime \in Nat /\ s.page.lifetime > Margin
      /\ s.start \in Nat /\ Margin \in Nat
  BY SearchTypes
<1>2. spent \in Nat
  BY <1>1
<1>3. AskedAt(s, n) = s.start + spent
  BY DEF AskedAt
<1>4. spent <= Margin
  OBVIOUS
<1> HIDE DEF spent
<1>5. CASE s.cache # None /\ s.cache.until > s.start
  <2>1. TokenOf(s) = s.cache
    BY <1>5 DEF TokenOf, Token
  <2>2. s.cache.until \in Nat /\ s.cache.ends = s.cache.until + Margin
    BY <1>5 DEF IsSearch
  <2>3. QED
    BY <1>1, <1>2, <1>3, <1>4, <1>5, <2>1, <2>2
<1>6. CASE ~(s.cache # None /\ s.cache.until > s.start)
  <2>1. TokenOf(s) = [until |-> s.start + s.page.lifetime - Margin, ends |-> s.start + s.page.lifetime]
    BY <1>6 DEF TokenOf, Token
  <2>2. TokenOf(s).ends = s.start + s.page.lifetime
    BY <2>1
  <2>3. QED
    BY <1>1, <1>2, <1>3, <1>4, <2>2
<1>7. QED
  BY <1>5, <1>6

(* With a token that lasts, the pages are the results from the first on.         *)
LEMMA PagesAreAPrefix ==
  ASSUME NEW s, IsSearch(s), \A n \in 1..LastAnswered(s) : ~(TokenOf(s).ends <= AskedAt(s, n)),
         NEW m \in 0..LastAnswered(s)
  PROVE  FlattenSeq(Answers(s, m)) = SubSeq(s.page.results, 1, PageEnd(s, m))
<1> DEFINE size == s.config.size
           results == s.page.results
           len == Len(results)
           last == LastAnswered(s)
           Good(k) == /\ FlattenSeq(Answers(s, k)) = SubSeq(results, 1, PageEnd(s, k))
                      /\ k < last => PageEnd(s, k) = k * size
           G == {k \in 0..last : Good(k)}
<1>1. /\ results \in Seq(SearchItems(s)) /\ len \in Nat /\ size \in Nat /\ size > 0
      /\ last \in Nat /\ \A n \in 1..last - 1 : ~(Len(Answered(s, n)) < size)
  BY SearchTypes, LastPageAsked
<1>2. 0 \in G
  <2>1. Answers(s, 0) = <<>>
    BY AnswersType, EmptySeq
  <2>2. FlattenSeq(Answers(s, 0)) = <<>>
    BY <2>1 DEF FlattenSeq
  <2>3. 0 * size = 0
    BY <1>1
  <2>4. PageEnd(s, 0) = 0
    BY <1>1, <2>3 DEF PageEnd
  <2>5. SubSeq(results, 1, 0) = <<>>
    BY SubSeqEmpty
  <2>6. Good(0)
    BY <2>2, <2>3, <2>4, <2>5
  <2>7. QED
    BY <1>1, <2>6
<1>3. ASSUME NEW k \in 1..last, k - 1 \in G PROVE k \in G
  <2> DEFINE from == (k - 1) * size
             to == PageEnd(s, k)
             p == Answered(s, k)
  <2>1. /\ FlattenSeq(Answers(s, k - 1)) = SubSeq(results, 1, PageEnd(s, k - 1))
        /\ k - 1 < last => PageEnd(s, k - 1) = from
    BY <1>3
  <2>2. PageEnd(s, k - 1) = from /\ from \in Nat
    <3>1. k - 1 < last /\ k - 1 \in Nat
      BY <1>1
    <3>2. QED
      BY <1>1, <2>1, <3>1, SMTT(30)
  <2>3. k * size = from + size
    BY <1>1
  <2>4. to = IF from + size <= len THEN from + size ELSE len
    BY <2>3 DEF PageEnd
  <2>5. from <= len
    <3>1. PageEnd(s, k - 1) <= len
      BY <1>1 DEF PageEnd
    <3>2. QED
      BY <2>2, <3>1
  <2>6. p \in Seq(SearchItems(s)) /\ p = SubSeq(results, from + 1, to)
    <3>1. k \in Nat \ {0} /\ ~(TokenOf(s).ends <= AskedAt(s, k))
      BY <1>1
    <3>2. QED
      BY <3>1, PageOfSearch
  <2>7. Answers(s, k) = Append(Answers(s, k - 1), p)
    <3> DEFINE before == Answers(s, k - 1)
               U == Seq(SearchItems(s))
    <3>1. /\ before \in Seq(U) /\ Len(before) = k - 1
          /\ \A n \in 1..k - 1 : before[n] = Answered(s, n)
      <4>1. k - 1 \in Nat
        BY <1>1
      <4>2. QED
        BY <4>1, AnswersType
    <3>2. Answers(s, k) \in Seq(U) /\ Len(Answers(s, k)) = k /\ \A n \in 1..k : Answers(s, k)[n] = Answered(s, n)
      <4>1. k \in Nat
        BY <1>1
      <4>2. QED
        BY <4>1, AnswersType
    <3> HIDE DEF before, U, p
    <3>3. p \in U
      BY <2>6 DEF U
    <3>4. /\ Append(before, p) \in Seq(U) /\ Len(Append(before, p)) = k
          /\ \A n \in 1..k - 1 : Append(before, p)[n] = before[n]
          /\ Append(before, p)[k] = p
      <4>1. (k - 1) + 1 = k
        BY <1>1
      <4>2. QED
        BY <3>1, <3>3, <4>1, AppendProperties
    <3> DEFINE t == Append(before, p)
    <3> HIDE DEF t
    <3>5. \A n \in 1..k : n = k \/ n \in 1..k - 1
      BY <1>1
    <3>6. \A n \in 1..k : t[n] = Answers(s, k)[n]
      BY <3>1, <3>2, <3>4, <3>5 DEF t, p
    <3>7. t \in Seq(U) /\ Len(t) = k
      BY <3>4 DEF t
    <3>8. t = Answers(s, k)
      BY <3>2, <3>6, <3>7, SeqEqual
    <3>9. QED
      BY <3>8 DEF t, before
  <2>8. FlattenSeq(Answers(s, k)) = FlattenSeq(Answers(s, k - 1)) \o p
    <3>1. Answers(s, k - 1) \in Seq(Seq(SearchItems(s)))
      BY <1>1, AnswersType
    <3> HIDE DEF p
    <3>2. QED
      BY <2>6, <2>7, <3>1, FlattenAppend
  <2> HIDE DEF from, to, p
  <2>9. from \in 0..len /\ to \in from..len
    BY <1>1, <2>2, <2>4, <2>5
  <2>10. SubSeq(results, 1, from) \o SubSeq(results, from + 1, to) = SubSeq(results, 1, to)
    BY <1>1, <2>9, PrefixContinued
  <2>11. FlattenSeq(Answers(s, k)) = SubSeq(results, 1, to)
    BY <2>1, <2>2, <2>6, <2>8, <2>10
  <2>12. k < last => to = k * size
    <3> SUFFICES ASSUME k < last PROVE to = k * size
      OBVIOUS
    <3>1. k \in 1..last - 1
      BY <1>1
    <3>2. ~(Len(p) < size)
      BY <1>1, <3>1 DEF p
    <3>3. Len(SubSeq(results, from + 1, to)) = IF from + 1 <= to THEN to - (from + 1) + 1 ELSE 0
      <4>1. \A i \in (from + 1)..to : results[i] \in SearchItems(s)
        <5> SUFFICES ASSUME NEW i \in (from + 1)..to PROVE results[i] \in SearchItems(s)
          OBVIOUS
        <5>1. i \in 1..len
          BY <1>1, <2>9
        <5>2. QED
          BY <1>1, <5>1, ElementOfSeq
      <4>2. from + 1 \in Int /\ to \in Int
        BY <1>1, <2>9
      <4>3. QED
        BY <4>1, <4>2, SubSeqProperties
    <3>4. Len(p) = IF from + 1 <= to THEN to - (from + 1) + 1 ELSE 0
      BY <2>6, <3>3
    <3> DEFINE shown == Len(p)
    <3> HIDE DEF shown, len, size
    <3>5. to = from + size
      <4>1. from \in Nat /\ to \in Nat /\ len \in Nat /\ size \in Nat /\ size > 0 /\ from <= to
        BY <1>1, <2>9
      <4>2. shown = IF from + 1 <= to THEN to - (from + 1) + 1 ELSE 0
        BY <3>4 DEF shown
      <4>3. ~(shown < size)
        BY <3>2 DEF shown
      <4>4. to = IF from + size <= len THEN from + size ELSE len
        BY <2>4
      <4>5. CASE from + 1 <= to
        BY <4>1, <4>2, <4>3, <4>4, <4>5
      <4>6. CASE ~(from + 1 <= to)
        BY <4>1, <4>2, <4>3, <4>6
      <4>7. QED
        BY <4>5, <4>6
    <3>6. QED
      BY <2>3, <3>5
  <2>13. k \in 0..last
    BY <1>1
  <2>14. QED
    BY <2>11, <2>12, <2>13 DEF to
<1>4. 0..last \subseteq G
  <2> HIDE DEF G, last
  <2>1. QED
    BY <1>1, <1>2, <1>3, InductionUpTo
<1>5. m \in G
  <2> HIDE DEF G
  <2>1. QED
    BY <1>4
<1>6. QED
  BY <1>5

(* The last page shows the last result, unless no more pages are asked for.      *)
LEMMA ItemsOfSearch ==
  ASSUME NEW s, IsSearch(s)
  PROVE  /\ ItemsFound(s) \in Seq(SearchItems(s))
         /\ (s.config.pages - 1) * s.page.delay <= Margin =>
               ItemsFound(s) = SubSeq(s.page.results, 1, PageEnd(s, s.config.pages))
<1> DEFINE size == s.config.size
           pages == s.config.pages
           delay == s.page.delay
           results == s.page.results
           len == Len(results)
           last == LastAnswered(s)
<1>1. /\ results \in Seq(SearchItems(s)) /\ len \in Nat /\ size \in Nat /\ size > 0
      /\ pages \in Nat /\ delay \in Nat /\ Margin \in Nat
      /\ last \in Nat /\ last <= pages
  BY SearchTypes, LastPageAsked
<1>2. ItemsFound(s) \in Seq(SearchItems(s))
  <2>1. Answers(s, last) \in Seq(Seq(SearchItems(s)))
    BY <1>1, AnswersType
  <2>2. QED
    BY <2>1, FlattenElements DEF ItemsFound
<1>3. ASSUME (pages - 1) * delay <= Margin
      PROVE  ItemsFound(s) = SubSeq(results, 1, PageEnd(s, pages))
  <2>1. ASSUME NEW n \in 1..last PROVE ~(TokenOf(s).ends <= AskedAt(s, n))
    <3>1. n \in Nat \ {0} /\ n - 1 \in Nat /\ pages - 1 \in Nat /\ n - 1 <= pages - 1
      BY <1>1
    <3>2. \A a, b, c \in Nat : a <= b => a * c <= b * c
      OBVIOUS
    <3>3. (n - 1) * delay <= (pages - 1) * delay
      <4> DEFINE a == n - 1
                 b == pages - 1
      <4>1. a \in Nat /\ b \in Nat /\ a <= b /\ delay \in Nat
        BY <1>1, <3>1
      <4> HIDE DEF a, b, delay
      <4>2. a * delay <= b * delay
        BY <3>2, <4>1
      <4>3. QED
        BY <4>2 DEF a, b
    <3>4. (n - 1) * delay \in Nat /\ (pages - 1) * delay \in Nat
      <4>1. \A a, c \in Nat : a * c \in Nat
        OBVIOUS
      <4>2. QED
        BY <1>1, <3>1, <4>1
    <3>5. (n - 1) * delay <= Margin
      <4> DEFINE a == (n - 1) * delay
                 b == (pages - 1) * delay
      <4>1. a <= b /\ b <= Margin /\ a \in Nat /\ b \in Nat
        BY <1>3, <3>3, <3>4
      <4> HIDE DEF a, b
      <4>2. a <= Margin
        BY <1>1, <4>1
      <4>3. QED
        BY <4>2 DEF a
    <3>6. QED
      BY <3>1, <3>5, TokenLasts
  <2>2. ItemsFound(s) = SubSeq(results, 1, PageEnd(s, last))
    <3>1. last \in 0..last
      BY <1>1
    <3>2. QED
      BY <2>1, <3>1, PagesAreAPrefix DEF ItemsFound
  <2>3. PageEnd(s, last) = PageEnd(s, pages)
    <3>1. CASE last = pages
      BY <3>1
    <3>2. CASE last # pages
      <4>1. last < pages
        BY <1>1, <3>2
      <4>2. last \in Nat \ {0} /\ Len(Answered(s, last)) < size
        BY <4>1, LastPageAsked
      <4> DEFINE from == (last - 1) * size
                 to == PageEnd(s, last)
                 shown == Len(Answered(s, last))
      <4>3. last * size = from + size /\ from \in Nat
        BY <1>1, <4>2, SMTT(30)
      <4>4. last * size <= pages * size /\ pages * size \in Nat
        <5>1. \A a, b, c \in Nat : a <= b => a * c <= b * c /\ b * c \in Nat
          OBVIOUS
        <5> HIDE DEF last, pages, size
        <5>2. QED
          BY <1>1, <5>1
      <4>5. Answered(s, last) = SubSeq(results, from + 1, to)
        <5>1. last \in 1..last
          BY <1>1, <4>2
        <5>2. ~(TokenOf(s).ends <= AskedAt(s, last))
          BY <2>1, <5>1
        <5>3. QED
          BY <4>2, <5>2, PageOfSearch
      <4>6. to = IF from + size <= len THEN from + size ELSE len
        BY <4>3 DEF PageEnd
      <4> DEFINE full == last * size
                 bound == pages * size
      <4>7. PageEnd(s, pages) = IF bound <= len THEN bound ELSE len
        BY DEF PageEnd
      <4>8. full = from + size /\ full <= bound /\ bound \in Nat /\ from \in Nat
        BY <4>3, <4>4
      <4> HIDE DEF from, to, full, bound, len, size, last
      <4>9. from + size > len
        <5> SUFFICES ASSUME from + size <= len PROVE FALSE
          BY <1>1, <4>8
        <5>1. to = from + size
          BY <4>6
        <5>2. \A i \in (from + 1)..to : results[i] \in SearchItems(s)
          <6> SUFFICES ASSUME NEW i \in (from + 1)..to PROVE results[i] \in SearchItems(s)
            OBVIOUS
          <6>1. i \in 1..Len(results)
            BY <1>1, <4>8, <5>1 DEF len
          <6>2. QED
            BY <1>1, <6>1, ElementOfSeq
        <5>3. from + 1 \in Int /\ to \in Int
          BY <1>1, <4>8, <5>1
        <5>4. Len(SubSeq(results, from + 1, to)) = IF from + 1 <= to THEN to - (from + 1) + 1 ELSE 0
          BY <5>2, <5>3, SubSeqProperties
        <5>5. shown = IF from + 1 <= to THEN to - (from + 1) + 1 ELSE 0
          BY <4>5, <5>4
        <5> HIDE DEF shown
        <5>6. shown = size
          BY <1>1, <4>8, <5>1, <5>5
        <5>7. shown < size
          BY <4>2 DEF shown
        <5>8. QED
          BY <1>1, <5>6, <5>7
      <4>10. to = len
        BY <1>1, <4>6, <4>8, <4>9
      <4>11. PageEnd(s, pages) = len
        <5>1. bound > len
          BY <1>1, <4>8, <4>9
        <5>2. QED
          BY <1>1, <4>7, <4>8, <5>1
      <4>12. QED
        BY <4>10, <4>11 DEF to
    <3>3. QED
      BY <3>1, <3>2
  <2>4. QED
    BY <2>2, <2>3
<1>4. QED
  BY <1>2, <1>3

(* The scan of legifrance-dila reports the results it asks for.              *)
LEMMA SearchScan ==
  ASSUME NEW s, IsSearch(s)
  PROVE  SearchIsComplete(s, LegifranceDila(s.page, s.config, s.cache, s.start))
<1> DEFINE items == ItemsFound(s)
           I == Homologations(s)
           found == Picked(items, I)
           n == Len(found)
           T == {DilaItem(found[i]) : i \in 1..n}
           all == Discovered(s)
           answered == LegifranceDila(s.page, s.config, s.cache, s.start)
           nature == s.config.nature
           results == s.page.results
           len == Len(results)
           bound == s.config.size * s.config.pages
           wanted == {j \in 1..len : j <= bound /\ IsHomologation(results[j], nature)}
<1>1. items \in Seq(SearchItems(s)) /\ I \in SUBSET (1..Len(items))
  BY ItemsOfSearch DEF Homologations
<1>2. answered = FirstOfReferences(all)
  BY DilaParts
<1>3. all = [i \in 1..n |-> DilaItem(found[i])]
  BY DEF Discovered
<1> HIDE DEF answered, all, I, items, found
<1>4. found \in Seq(SearchItems(s)) /\ \E p : PickedAt(found, items, I, p)
  BY <1>1, PickedElements DEF found
<1>5. PICK p : PickedAt(found, items, I, p)
  BY <1>4
<1>6. n \in Nat /\ n = Len(p)
  BY <1>4, <1>5, LenProperties DEF PickedAt
<1>7. all \in Seq(T) /\ Len(all) = n /\ \A i \in 1..n : all[i] = DilaItem(found[i])
  <2>1. all \in [1..n -> T]
    BY <1>3
  <2>2. QED
    BY <1>3, <1>6, <2>1
<1> HIDE DEF n, T
<1>8. /\ \A i \in 1..n : found[i] = items[p[i]] /\ p[i] \in I
      /\ \A i \in I : \E j \in 1..n : p[j] = i
  BY <1>5, <1>6 DEF PickedAt
<1>9. /\ IsInjective(ReferencesOf(answered))
      /\ Range(ReferencesOf(answered)) = {all[i].reference : i \in 1..n}
  BY <1>2, <1>7, FirstReferences
<1>10. \A i \in 1..n : all[i].reference = DilaReference(items[p[i]])
  BY <1>7, <1>8 DEF DilaItem, Publication
<1>11. {all[i].reference : i \in 1..n} = {DilaReference(items[i]) : i \in I}
  <2>1. \A i \in 1..n : all[i].reference \in {DilaReference(items[j]) : j \in I}
    BY <1>8, <1>10
  <2>2. ASSUME NEW i \in I PROVE DilaReference(items[i]) \in {all[j].reference : j \in 1..n}
    <3>1. PICK j \in 1..n : p[j] = i
      BY <1>8
    <3>2. all[j].reference = DilaReference(items[i])
      BY <1>10, <3>1
    <3>3. QED
      BY <3>2
  <2>3. QED
    BY <2>1, <2>2
<1>12. ASSUME (s.config.pages - 1) * s.page.delay <= Margin
       PROVE  {DilaReference(items[i]) : i \in I} = {DilaReference(results[i]) : i \in wanted}
  <2> DEFINE end == PageEnd(s, s.config.pages)
  <2>1. items = SubSeq(results, 1, end)
    BY <1>12, ItemsOfSearch DEF items
  <2>2. bound = s.config.pages * s.config.size /\ bound \in Nat
    BY SearchTypes
  <2>3. end = IF bound <= len THEN bound ELSE len
    BY <2>2 DEF PageEnd
  <2>4. results \in Seq(SearchItems(s)) /\ len \in Nat
    BY SearchTypes
  <2> HIDE DEF end, bound, len
  <2>5. end \in Nat /\ \A i \in 1..end : i \in 1..len
    BY <2>2, <2>3, <2>4
  <2>6. Len(items) = end /\ \A i \in 1..end : items[i] = results[i]
    <3>1. \A i \in 1..end : results[i] \in SearchItems(s)
      BY <2>4, <2>5, ElementOfSeq DEF len
    <3>2. /\ Len(SubSeq(results, 1, end)) = IF 1 <= end THEN end - 1 + 1 ELSE 0
          /\ \A i \in 1..(end - 1 + 1) : SubSeq(results, 1, end)[i] = results[1 + i - 1]
      BY <2>5, <3>1, SubSeqProperties
    <3>3. end - 1 + 1 = end /\ (~(1 <= end) => end = 0)
      BY <2>5
    <3>4. Len(items) = end
      BY <2>1, <2>5, <3>2, <3>3
    <3>5. \A i \in 1..end : 1 + i - 1 = i
      BY <2>5
    <3>6. \A i \in 1..end : items[i] = results[i]
      BY <2>1, <3>2, <3>3, <3>5
    <3>7. QED
      BY <3>4, <3>6
  <2>7. \A j \in 1..len : j <= bound <=> j \in 1..end
    BY <2>2, <2>3, <2>4
  <2>8. wanted = {i \in 1..end : IsHomologation(results[i], nature)}
    BY <2>5, <2>7
  <2>9. I = {i \in 1..end : IsHomologation(results[i], nature)}
    BY <2>6 DEF I, Homologations, items
  <2>10. I = wanted /\ \A i \in I : items[i] = results[i]
    BY <2>6, <2>8, <2>9
  <2> HIDE DEF wanted
  <2>11. QED
    BY <2>10
<1>13. SearchIsComplete(s, answered)
  <2>1. (s.config.pages - 1) * s.page.delay <= Margin =>
           Range(ReferencesOf(answered)) = {DilaReference(results[i]) : i \in wanted}
    BY <1>9, <1>11, <1>12
  <2>2. QED
    BY <1>9, <2>1 DEF SearchIsComplete
<1>14. QED
  BY <1>13 DEF answered

-----------------------------------------------------------------------------
(* A crawl.                                                                 *)

(* The products of a page, each once.                                        *)
LEMMA UrlsOfLinks ==
  ASSUME NEW T, NEW links \in Seq(T)
  PROVE  LET urls == {links[i].url : i \in {j \in 1..Len(links) : links[j].product}} IN
         /\ UrlsOf(links) \in Seq(urls)
         /\ IsInjective(UrlsOf(links))
         /\ Range(UrlsOf(links)) = urls
<1> DEFINE I == {i \in 1..Len(links) : links[i].product}
           all == {links[i].url : i \in I}
           products == Picked(links, I)
           urls == [i \in 1..Len(products) |-> products[i].url]
           t == UrlsOf(links)
<1>1. I \in SUBSET (1..Len(links)) /\ Len(links) \in Nat
  BY LenProperties
<1>2. products \in Seq(T) /\ \E p : PickedAt(products, links, I, p)
  <2> HIDE DEF I
  <2>1. QED
    BY <1>1, PickedElements
<1>3. t = FirstOfEach(urls, urls)
  BY DEF UrlsOf
<1> HIDE DEF products, t, I
<1>4. PICK p : PickedAt(products, links, I, p)
  BY <1>2
<1> DEFINE n == Len(products)
<1>5. n \in Nat /\ n = Len(p)
  BY <1>2, <1>4, LenProperties DEF PickedAt
<1>6. /\ \A i \in 1..n : products[i] = links[p[i]] /\ p[i] \in I
      /\ \A i \in I : \E j \in 1..n : p[j] = i
  <2> HIDE DEF n
  <2>1. QED
    BY <1>4, <1>5 DEF PickedAt
<1>7. \A i \in 1..n : products[i].url \in all
  BY <1>6
<1>8. /\ urls \in Seq(all) /\ Len(urls) = n
      /\ \A i \in 1..n : urls[i] = products[i].url
  <2>1. urls \in [1..n -> all]
    BY <1>7
  <2>2. QED
    BY <1>5, <2>1
<1>9. all = {urls[i] : i \in 1..n}
  BY <1>6, <1>8, SMTT(30)
<1> HIDE DEF urls, all, n
<1>10. t \in Seq(all) /\ \E q : FirstsAt(t, urls, urls, q)
  BY <1>3, <1>8, FirstKeys
<1>11. PICK q : FirstsAt(t, urls, urls, q)
  BY <1>10
<1>12. /\ Len(t) = Len(q)
       /\ \A i \in 1..Len(q) : q[i] \in 1..n /\ t[i] = urls[q[i]]
       /\ \A i, j \in 1..Len(q) : urls[q[i]] = urls[q[j]] => i = j
       /\ \A i \in 1..n : \E j \in 1..Len(q) : urls[q[j]] = urls[i]
  BY <1>8, <1>11 DEF FirstsAt, PickedAt
<1>13. DOMAIN t = 1..Len(q)
  BY <1>10, <1>12, LenProperties
<1>14. IsInjective(t)
  BY <1>12, <1>13, SMTT(30) DEF IsInjective
<1>15. Range(t) = all
  BY <1>9, <1>12, <1>13 DEF Range
<1>16. QED
  BY <1>10, <1>14, <1>15 DEF t, all, I

Linked(q) == UNION {Range(UrlsOf(LinksOf(q, k))) : k \in 1..Len(q.pages)}
Seen(q, n) == [k \in 1..n |-> UrlsOf(LinksOf(q, k))]

(* The pages of a shop and the last that is read.                            *)
LEMMA ShopTypes ==
  ASSUME NEW q \in Shops
  PROVE  /\ q.kind = "shop" /\ q.shop \in {"mistercigar", "cigarpassion"}
         /\ Len(q.pages) \in Nat /\ LastPage(q) \in Nat \ {0} /\ LastPage(q) <= Len(q.pages)
         /\ q.shop = "mistercigar" => LastPage(q) = Len(q.pages)
         /\ q.shop = "cigarpassion" => /\ LastPage(q) <= 5
                                       /\ LastPage(q) < 5 => LastPage(q) = Len(q.pages)
<1>1. /\ q.kind = "shop" /\ q.shop \in {"mistercigar", "cigarpassion"}
      /\ IsList(q.pages) /\ q.pages # <<>>
  BY ShopsAreNumbered
<1>2. q.pages \in Seq(Range(q.pages)) /\ Len(q.pages) \in Nat
  BY <1>1, ListHasType
<1>3. Len(q.pages) # 0
  BY <1>1, <1>2, EmptySeq
<1>4. QED
  BY <1>1, <1>2, <1>3 DEF LastPage, LastSitemap

(* A page lists every product of its links once.                             *)
LEMMA ProductsOfPage ==
  ASSUME NEW q \in Shops, NEW k \in 1..Len(q.pages)
  PROVE  LET links == LinksOf(q, k) IN
         /\ UrlsOf(links) \in Seq(Linked(q))
         /\ IsInjective(UrlsOf(links))
         /\ Range(UrlsOf(links)) = {links[i].url : i \in {j \in 1..Len(links) : links[j].product}}
<1> DEFINE links == LinksOf(q, k)
           urls == {links[i].url : i \in {j \in 1..Len(links) : links[j].product}}
<1>1. IsList(links)
  BY ShopsAreNumbered
<1>2. links \in Seq(Range(links))
  BY <1>1, ListHasType
<1> HIDE DEF links
<1>3. UrlsOf(links) \in Seq(urls) /\ IsInjective(UrlsOf(links)) /\ Range(UrlsOf(links)) = urls
  BY <1>2, UrlsOfLinks
<1>4. urls \subseteq Linked(q)
  BY <1>3 DEF Linked, links
<1> HIDE DEF urls
<1>5. UrlsOf(links) \in Seq(Linked(q))
  BY <1>3, <1>4
<1>6. QED
  BY <1>3, <1>5 DEF links, urls

(* What a crawl has seen of a shop.                                          *)
LEMMA SeenType ==
  ASSUME NEW q \in Shops, NEW n \in 0..Len(q.pages)
  PROVE  /\ Seen(q, n) \in Seq(Seq(Linked(q))) /\ Len(Seen(q, n)) = n
         /\ \A k \in 1..n : Seen(q, n)[k] = UrlsOf(LinksOf(q, k))
<1>1. n \in Nat /\ \A k \in 1..n : k \in 1..Len(q.pages)
  BY ShopTypes
<1>2. \A k \in 1..n : UrlsOf(LinksOf(q, k)) \in Seq(Linked(q))
  BY <1>1, ProductsOfPage
<1>3. Seen(q, n) \in [1..n -> Seq(Linked(q))]
  BY <1>2 DEF Seen
<1>4. QED
  BY <1>1, <1>3 DEF Seen

(* A page more is what it links to, at the end.                              *)
LEMMA OnePageMore ==
  ASSUME NEW q \in Shops, NEW n \in 1..Len(q.pages)
  PROVE  ProductsUpTo(q, n) = ProductsUpTo(q, n - 1) \o UrlsOf(LinksOf(q, n))
<1> DEFINE before == Seen(q, n - 1)
           U == Seq(Linked(q))
           s == UrlsOf(LinksOf(q, n))
           t == Append(before, s)
<1>1. n \in Nat /\ n - 1 \in 0..Len(q.pages) /\ n \in 0..Len(q.pages) /\ (n - 1) + 1 = n
  BY ShopTypes
<1>2. /\ before \in Seq(U) /\ Len(before) = n - 1
      /\ \A k \in 1..n - 1 : before[k] = UrlsOf(LinksOf(q, k))
  BY <1>1, SeenType
<1>3. /\ Seen(q, n) \in Seq(U) /\ Len(Seen(q, n)) = n
      /\ \A k \in 1..n : Seen(q, n)[k] = UrlsOf(LinksOf(q, k))
  BY <1>1, SeenType
<1>4. s \in U
  BY ProductsOfPage
<1> HIDE DEF before, s
<1>5. FlattenSeq(Append(before, s)) = FlattenSeq(before) \o s
  BY <1>2, <1>4, FlattenAppend
<1> HIDE DEF U
<1>6. /\ Append(before, s) \in Seq(U) /\ Len(Append(before, s)) = n
      /\ \A k \in 1..n - 1 : Append(before, s)[k] = before[k]
      /\ Append(before, s)[n] = s
  BY <1>1, <1>2, <1>4, AppendProperties
<1>7. \A k \in 1..n : k = n \/ k \in 1..n - 1
  BY <1>1
<1> HIDE DEF t
<1>8. \A k \in 1..n : t[k] = Seen(q, n)[k]
  BY <1>2, <1>3, <1>6, <1>7 DEF t, s
<1>9. t = Seen(q, n)
  <2>1. t \in Seq(U) /\ Len(t) = n
    BY <1>6 DEF t
  <2>2. QED
    BY <1>3, <1>8, <2>1, SeqEqual
<1>10. FlattenSeq(Seen(q, n)) = FlattenSeq(before) \o s
  BY <1>5, <1>9 DEF t
<1>11. QED
  BY <1>10 DEF ProductsUpTo, Seen, before, s

(* Where the next link of a page leads.                                      *)
LEMMA NextOfPage ==
  ASSUME NEW q \in Shops, NEW k \in 1..LastPage(q)
  PROVE  /\ ListingOf(q, k).products = UrlsOf(LinksOf(q, k))
         /\ k < LastPage(q) => ListingOf(q, k).next = k + 1
         /\ k = LastPage(q) => ListingOf(q, k).next \notin 1..Len(q.pages)
<1> DEFINE len == Len(q.pages)
<1>1. /\ q.shop \in {"mistercigar", "cigarpassion"} /\ len \in Nat
      /\ LastPage(q) \in Nat /\ LastPage(q) <= len
      /\ q.shop = "mistercigar" => LastPage(q) = len
      /\ q.shop = "cigarpassion" => LastPage(q) <= 5 /\ (LastPage(q) < 5 => LastPage(q) = len)
  BY ShopTypes
<1>2. k \in 1..len /\ None \notin Nat
  BY <1>1, ReferencesAreTables
<1>3. IsNumbered(q, k)
  BY <1>2, ShopsAreNumbered
<1>4. CASE q.shop = "mistercigar"
  <2> DEFINE pg == q.pages[k]
             after == {i \in 1..Len(pg.numbers) : pg.numbers[i].number = k + 1 /\ pg.numbers[i].href # None}
  <2>1. /\ CurrentPage(pg) = k /\ IsList(pg.numbers) /\ (after # {} <=> k < len)
        /\ \A i \in after : pg.numbers[i].href = k + 1
    BY <1>3, <1>4 DEF IsNumbered
  <2>2. ListingOf(q, k).products = UrlsOf(LinksOf(q, k)) /\ ListingOf(q, k).next = NextPageUrl(pg)
    BY <1>4 DEF ListingOf, MistercigarListing, LinksOf
  <2>3. NextPageUrl(pg) = IF after = {} THEN None ELSE FirstPicked(pg.numbers, after).href
    BY <2>1 DEF NextPageUrl
  <2>4. ASSUME after # {} PROVE FirstPicked(pg.numbers, after).href = k + 1
    <3>1. after \in SUBSET Nat
      BY <2>1, ListHasType
    <3> HIDE DEF after
    <3>2. PICK i \in after : \A j \in after : i <= j
      BY <2>4, <3>1, LeastNatural
    <3>3. FirstPicked(pg.numbers, after) = pg.numbers[i]
      BY <3>1, <3>2, FirstOfPlaces
    <3>4. QED
      BY <2>1, <3>2, <3>3
  <2> HIDE DEF after
  <2>5. k < LastPage(q) => ListingOf(q, k).next = k + 1
    BY <1>1, <1>4, <2>1, <2>2, <2>3, <2>4
  <2>6. k = LastPage(q) => ListingOf(q, k).next = None
    BY <1>1, <1>4, <2>1, <2>2, <2>3
  <2>7. None \notin 1..len
    BY <1>2
  <2>8. QED
    BY <2>2, <2>5, <2>6, <2>7
<1>5. CASE q.shop = "cigarpassion"
  <2>1. q.pages[k].number = k
    BY <1>3, <1>5 DEF IsNumbered
  <2>2. ListingOf(q, k).products = UrlsOf(LinksOf(q, k)) /\ ListingOf(q, k).next = NextSitemap(k)
    BY <1>5, <2>1 DEF ListingOf, CigarpassionListing, LinksOf
  <2>3. k # None
    BY <1>2
  <2>4. NextSitemap(k) = IF k >= 5 THEN None ELSE k + 1
    BY <2>3 DEF NextSitemap, LastSitemap
  <2> HIDE DEF len
  <2>5. k < LastPage(q) => ListingOf(q, k).next = k + 1
    BY <1>1, <1>2, <1>5, <2>2, <2>4
  <2>6. ASSUME k = LastPage(q) PROVE ListingOf(q, k).next \notin 1..len
    <3>1. CASE k >= 5
      BY <1>2, <2>2, <2>4, <3>1
    <3>2. CASE ~(k >= 5)
      <4>1. k = len
        BY <1>1, <1>5, <2>6, <3>2
      <4>2. ListingOf(q, k).next = len + 1
        BY <2>2, <2>4, <3>2, <4>1
      <4>3. QED
        BY <1>1, <4>2
    <3>3. QED
      BY <3>1, <3>2
  <2>7. QED
    BY <2>2, <2>5, <2>6 DEF len
<1>6. QED
  BY <1>1, <1>4, <1>5

-----------------------------------------------------------------------------
(* Packs of one reference.                                                  *)

(* A reference is read like a page that counts one piece.                     *)
LEMMA RowsOfReference ==
  ASSUME NEW r \in References
  PROVE  /\ Len(r.rows) \in Nat
         /\ \A i \in 1..Len(r.rows) :
               /\ r.rows[i] = [label |-> r.rows[i].label, value |-> r.rows[i].value]
               /\ r.rows[i].label = "Poids" => r.rows[i].value \in [amount : Nat, unit : STRING] \union {None}
         /\ \E i \in 1..Len(r.rows) : r.rows[i].label = "Packing" /\ r.rows[i].value # None
         /\ None \notin Nat /\ None \notin [amount : Nat, unit : STRING]
<1>1. IsList(r.rows)
  BY ReferencesAreTables
<1>2. Len(r.rows) \in Nat
  BY <1>1, ListHasType
<1>3. QED
  BY <1>2, ReferencesAreTables

Notices == {"attribute", "title", "both"}

(* A page has the rows of its reference.                                     *)
LEMMA RowsOfPage ==
  ASSUME NEW r \in References, NEW n \in Nat, NEW notice \in Notices, NEW host
  PROVE  LET rows == PageOf(r, n, notice, host).rows IN
         /\ Len(rows) = Len(r.rows)
         /\ \A i \in 1..Len(r.rows) : rows[i] = InPack(r.rows[i], n, notice)
<1> DEFINE f == [i \in 1..Len(r.rows) |-> InPack(r.rows[i], n, notice)]
<1>1. Len(r.rows) \in Nat
  BY RowsOfReference
<1>2. f \in [1..Len(r.rows) -> {InPack(r.rows[i], n, notice) : i \in 1..Len(r.rows)}]
  OBVIOUS
<1>3. Len(f) = Len(r.rows) /\ \A i \in 1..Len(r.rows) : f[i] = InPack(r.rows[i], n, notice)
  BY <1>1, <1>2
<1>4. PageOf(r, n, notice, host).rows = f
  BY DEF PageOf
<1>5. QED
  BY <1>3, <1>4

(* A row, whatever the pack.                                                 *)
LEMMA RowInPack ==
  ASSUME NEW row, row = [label |-> row.label, value |-> row.value],
         row.label = "Poids" => row.value \in [amount : Nat, unit : STRING] \union {None},
         NEW n \in Nat, NEW notice \in Notices,
         None \notin Nat, None \notin [amount : Nat, unit : STRING]
  PROVE  /\ InPack(row, n, notice).label = row.label
         /\ row.label \notin {"Packing", "Poids"} => InPack(row, n, notice).value = row.value
         /\ row.value = None => InPack(row, n, notice).value = None
         /\ row.label = "Packing" /\ row.value # None =>
               InPack(row, n, notice).value = IF notice = "title" THEN None ELSE n
         /\ row.label = "Poids" /\ row.value # None =>
               InPack(row, n, notice).value = [amount |-> n * row.value.amount, unit |-> row.value.unit]
<1>1. CASE row.value = None
  BY <1>1 DEF InPack
<1>2. CASE row.value # None /\ row.label = "Packing"
  <2>1. InPack(row, n, notice) = [row EXCEPT !.value = IF notice = "title" THEN None ELSE n]
    BY <1>2 DEF InPack
  <2>2. [row EXCEPT !.value = IF notice = "title" THEN None ELSE n]
        = [label |-> row.label, value |-> IF notice = "title" THEN None ELSE n]
    OBVIOUS
  <2>3. QED
    BY <1>2, <2>1, <2>2
<1>3. CASE row.value # None /\ row.label = "Poids"
  <2> DEFINE v == [amount |-> n * row.value.amount, unit |-> row.value.unit]
  <2>1. InPack(row, n, notice) = [row EXCEPT !.value = v]
    BY <1>3 DEF InPack
  <2> HIDE DEF v
  <2>2. [row EXCEPT !.value = v] = [label |-> row.label, value |-> v]
    OBVIOUS
  <2>3. InPack(row, n, notice).label = row.label /\ InPack(row, n, notice).value = v
    BY <2>1, <2>2
  <2>4. QED
    BY <1>3, <2>3 DEF v
<1>4. CASE row.value # None /\ row.label # "Packing" /\ row.label # "Poids"
  BY <1>4 DEF InPack
<1>5. QED
  BY <1>1, <1>2, <1>3, <1>4

(* A row of a page is that of the reference, for as many pieces.             *)
RowCounts(row, paged, n, notice) ==
  /\ paged.label = row.label
  /\ row.label \notin {"Packing", "Poids"} => paged.value = row.value
  /\ row.value = None => paged.value = None
  /\ row.label = "Packing" /\ row.value # None => paged.value = IF notice = "title" THEN None ELSE n
  /\ row.label = "Poids" /\ row.value # None =>
        paged.value = [amount |-> n * row.value.amount, unit |-> row.value.unit]

(* Only the size and the weight depend on the pack.                          *)
LEMMA RowOfPage ==
  ASSUME NEW r \in References, NEW n \in Nat, NEW notice \in Notices, NEW host, NEW i \in 1..Len(r.rows)
  PROVE  RowCounts(r.rows[i], PageOf(r, n, notice, host).rows[i], n, notice)
<1> DEFINE row == r.rows[i]
           paged == PageOf(r, n, notice, host).rows[i]
<1>1. /\ row = [label |-> row.label, value |-> row.value]
      /\ row.label = "Poids" => row.value \in [amount : Nat, unit : STRING] \union {None}
      /\ None \notin Nat /\ None \notin [amount : Nat, unit : STRING]
  BY RowsOfReference
<1>2. paged = InPack(row, n, notice)
  BY RowsOfPage
<1> HIDE DEF row, paged
<1>3. RowCounts(row, paged, n, notice)
  BY <1>1, <1>2, RowInPack DEF RowCounts
<1>4. QED
  BY <1>3 DEF row, paged

(* Rows that tell an attribute, and the last of them.                        *)
Telling(rows, label) == {i \in 1..Len(rows) : rows[i].label = label /\ rows[i].value # None}

(* An attribute by the rows that tell it.                                    *)
LEMMA AttributeOfRows ==
  ASSUME NEW x, NEW label
  PROVE  /\ Telling(x.rows, label) = {} => Attribute(x, label) = None
         /\ Telling(x.rows, label) # {} =>
               Attribute(x, label) =
                  x.rows[CHOOSE i \in Telling(x.rows, label) : \A j \in Telling(x.rows, label) : j <= i].value
BY DEF Attribute, Telling

(* Of the rows that tell a label the last one counts.                        *)
LEMMA LastTelling ==
  ASSUME NEW r \in References, NEW label, Telling(r.rows, label) # {}
  PROVE  LET S == Telling(r.rows, label)
             last == CHOOSE i \in S : \A j \in S : j <= i
         IN last \in S /\ last \in 1..Len(r.rows)
<1> DEFINE S == Telling(r.rows, label)
           len == Len(r.rows)
           T == {len - i : i \in S}
<1>1. len \in Nat /\ S \in SUBSET (1..len)
  BY RowsOfReference DEF Telling
<1>2. T \in SUBSET Nat /\ T # {}
  BY <1>1
<1>3. PICK t \in T : \A u \in T : t <= u
  <2> HIDE DEF T
  <2>1. QED
    BY <1>2, LeastNatural
<1>4. PICK i \in S : t = len - i
  BY <1>3
<1>5. \A j \in S : j <= i
  <2> SUFFICES ASSUME NEW j \in S PROVE j <= i
    OBVIOUS
  <2>1. len - i <= len - j
    BY <1>3, <1>4
  <2>2. i \in Nat /\ j \in Nat
    BY <1>1
  <2> HIDE DEF S, len
  <2>3. QED
    BY <1>1, <2>1, <2>2
<1>6. \E k \in S : \A j \in S : j <= k
  BY <1>5
<1> HIDE DEF S
<1>7. (CHOOSE k \in S : \A j \in S : j <= k) \in S
  BY <1>6
<1>8. QED
  BY <1>1, <1>7 DEF S

(* What does not depend on the pack is read off every page alike.             *)
LEMMA OtherAttribute ==
  ASSUME NEW r \in References, NEW n \in Nat, NEW notice \in Notices, NEW host,
         NEW label, label \notin {"Packing", "Poids"}
  PROVE  Attribute(PageOf(r, n, notice, host), label) = Attribute(r, label)
<1> DEFINE P == PageOf(r, n, notice, host)
           S == Telling(r.rows, label)
<1>1. Len(P.rows) = Len(r.rows)
  BY RowsOfPage
<1> HIDE DEF P
<1>2. \A i \in 1..Len(r.rows) : RowCounts(r.rows[i], P.rows[i], n, notice)
  BY RowOfPage DEF P
<1>3. Telling(P.rows, label) = S
  BY <1>1, <1>2 DEF Telling, RowCounts
<1>4. CASE S = {}
  BY <1>3, <1>4, AttributeOfRows DEF P
<1>5. CASE S # {}
  <2> DEFINE last == CHOOSE i \in S : \A j \in S : j <= i
  <2>1. last \in S /\ last \in 1..Len(r.rows)
    BY <1>5, LastTelling
  <2>2. Attribute(P, label) = P.rows[last].value /\ Attribute(r, label) = r.rows[last].value
    BY <1>3, <1>5, AttributeOfRows
  <2> HIDE DEF last
  <2>3. r.rows[last].label = label
    BY <2>1 DEF Telling
  <2>4. QED
    BY <1>2, <2>1, <2>2, <2>3 DEF P, RowCounts
<1>6. QED
  BY <1>4, <1>5 DEF P

(* The size of the pack is read wherever the page shows it.                   *)
LEMMA PackOfPage ==
  ASSUME NEW r \in References, NEW n \in Nat, NEW notice \in Notices, NEW host
  PROVE  PackSize(PageOf(r, n, notice, host)) = n
<1> DEFINE P == PageOf(r, n, notice, host)
           S == Telling(r.rows, "Packing")
<1>1. Len(P.rows) = Len(r.rows)
  BY RowsOfPage
<1>2. P.title.pack = IF notice = "attribute" THEN None ELSE n
  BY DEF PageOf
<1> HIDE DEF P
<1>3. \A i \in 1..Len(r.rows) : RowCounts(r.rows[i], P.rows[i], n, notice)
  BY RowOfPage DEF P
<1>4. S # {} /\ n # None
  BY RowsOfReference DEF Telling
<1>5. CASE notice = "title"
  <2>1. Telling(P.rows, "Packing") = {}
    BY <1>1, <1>3, <1>5 DEF Telling, RowCounts
  <2>2. Attribute(P, "Packing") = None
    BY <2>1, AttributeOfRows
  <2>3. QED
    BY <1>2, <1>5, <2>2 DEF PackSize, Or, P
<1>6. CASE notice # "title"
  <2> DEFINE last == CHOOSE i \in S : \A j \in S : j <= i
  <2>1. Telling(P.rows, "Packing") = S
    <3>1. ASSUME NEW i \in 1..Len(r.rows)
          PROVE  /\ P.rows[i].label = r.rows[i].label
                 /\ r.rows[i].label = "Packing" => (P.rows[i].value # None <=> r.rows[i].value # None)
      BY <1>3, <1>4, <1>6 DEF RowCounts
    <3>2. QED
      BY <1>1, <3>1 DEF Telling
  <2>2. last \in S /\ last \in 1..Len(r.rows)
    BY <1>4, LastTelling
  <2>3. Attribute(P, "Packing") = P.rows[last].value
    BY <1>4, <2>1, AttributeOfRows
  <2> HIDE DEF last
  <2>4. r.rows[last].label = "Packing" /\ r.rows[last].value # None
    BY <2>2 DEF Telling
  <2>5. Attribute(P, "Packing") = n
    BY <1>3, <1>6, <2>2, <2>3, <2>4 DEF RowCounts
  <2>6. QED
    BY <1>4, <2>5 DEF PackSize, Or, P
<1>7. QED
  BY <1>5, <1>6

(* The weight is that of n pieces.                                           *)
LEMMA WeightOfPage ==
  ASSUME NEW r \in References, NEW n \in Nat, NEW notice \in Notices, NEW host
  PROVE  /\ Weight(r) = None \/ Weight(r) \in Nat
         /\ Weight(PageOf(r, n, notice, host)) = IF Weight(r) = None THEN None ELSE n * Weight(r)
<1> DEFINE P == PageOf(r, n, notice, host)
           S == Telling(r.rows, "Poids")
           Weights == [amount : Nat, unit : STRING]
<1>1. Len(P.rows) = Len(r.rows)
  BY RowsOfPage
<1> HIDE DEF P
<1>2. \A i \in 1..Len(r.rows) : RowCounts(r.rows[i], P.rows[i], n, notice)
  BY RowOfPage DEF P
<1>3. \A i \in S : r.rows[i].value \in Weights
  BY RowsOfReference DEF Telling
<1>4. \A i \in S : P.rows[i].value \in Weights
  <2> SUFFICES ASSUME NEW i \in S PROVE P.rows[i].value \in Weights
    OBVIOUS
  <2>1. i \in 1..Len(r.rows) /\ r.rows[i].label = "Poids" /\ r.rows[i].value # None
    BY DEF Telling
  <2>2. P.rows[i].value = [amount |-> n * r.rows[i].value.amount, unit |-> r.rows[i].value.unit]
    BY <1>2, <2>1 DEF RowCounts
  <2>3. r.rows[i].value.amount \in Nat /\ r.rows[i].value.unit \in STRING
    BY <1>3
  <2>4. \A a, b \in Nat : a * b \in Nat
    OBVIOUS
  <2>5. QED
    BY <2>2, <2>3, <2>4
<1>5. None \notin Weights /\ None \notin Nat
  BY RowsOfReference
<1>6. Telling(P.rows, "Poids") = S
  <2>1. \A i \in 1..Len(r.rows) : i \in Telling(P.rows, "Poids") <=> i \in S
    <3> SUFFICES ASSUME NEW i \in 1..Len(r.rows) PROVE i \in Telling(P.rows, "Poids") <=> i \in S
      OBVIOUS
    <3>1. i \in S => P.rows[i].value # None
      BY <1>4, <1>5
    <3>2. i \in S <=> r.rows[i].label = "Poids" /\ r.rows[i].value # None
      BY DEF Telling
    <3>3. i \in Telling(P.rows, "Poids") <=> P.rows[i].label = "Poids" /\ P.rows[i].value # None
      BY <1>1 DEF Telling
    <3> HIDE DEF S
    <3>4. QED
      BY <1>2, <3>1, <3>2, <3>3 DEF RowCounts
  <2>2. S \subseteq 1..Len(r.rows) /\ Telling(P.rows, "Poids") \subseteq 1..Len(r.rows)
    BY <1>1 DEF Telling
  <2> HIDE DEF S
  <2>3. QED
    BY <2>1, <2>2
<1>7. CASE S = {}
  <2>1. Attribute(P, "Poids") = None /\ Attribute(r, "Poids") = None
    BY <1>6, <1>7, AttributeOfRows
  <2>2. QED
    BY <2>1 DEF Weight, P
<1>8. CASE S # {}
  <2> DEFINE last == CHOOSE i \in S : \A j \in S : j <= i
             w == r.rows[last].value
             v == P.rows[last].value
  <2>1. last \in S /\ last \in 1..Len(r.rows)
    BY <1>8, LastTelling
  <2>2. Attribute(P, "Poids") = v /\ Attribute(r, "Poids") = w
    BY <1>6, <1>8, AttributeOfRows
  <2>3. w \in Weights /\ v \in Weights
    <3> HIDE DEF last
    <3>1. QED
      BY <1>3, <1>4, <2>1
  <2>4. v.amount = n * w.amount /\ v.unit = w.unit
    <3> HIDE DEF last
    <3>1. r.rows[last].label = "Poids" /\ r.rows[last].value # None
      BY <2>1 DEF Telling
    <3>2. v = [amount |-> n * w.amount, unit |-> w.unit]
      BY <1>2, <2>1, <3>1 DEF RowCounts
    <3> HIDE DEF v, w
    <3>3. QED
      BY <3>2
  <2> HIDE DEF w, v, last
  <2>5. w # None /\ v # None /\ w.amount \in Nat
    BY <1>5, <2>3
  <2>6. /\ Weight(P) = (CASE v.unit = "g" -> v.amount [] v.unit = "kg" -> 1000 * v.amount [] OTHER -> None)
        /\ Weight(r) = (CASE w.unit = "g" -> w.amount [] w.unit = "kg" -> 1000 * w.amount [] OTHER -> None)
    BY <2>2, <2>5 DEF Weight
  <2>7. 1000 * v.amount = n * (1000 * w.amount) /\ 1000 * w.amount \in Nat
    BY <2>4, <2>5
  <2>8. CASE w.unit = "g"
    BY <1>5, <2>4, <2>5, <2>6, <2>8 DEF P
  <2>9. CASE w.unit = "kg"
    BY <1>5, <2>4, <2>5, <2>6, <2>7, <2>9 DEF P
  <2>10. CASE w.unit # "g" /\ w.unit # "kg"
    BY <2>4, <2>6, <2>10 DEF P
  <2>11. QED
    BY <2>8, <2>9, <2>10
<1>9. QED
  BY <1>7, <1>8

(* The rounded quotient of a product.                                        *)
LEMMA DividesBack ==
  ASSUME NEW n \in Nat \ {0}, NEW w \in Nat
  PROVE  DivideRounded(n * w, n) = w
<1> DEFINE a == n * w
           q == a \div n
           m == a % n
<1>1. a \in Nat /\ a = w * n
  OBVIOUS
<1>2. q = w /\ m = 0
  <2>1. \A x \in Nat : \A d \in Nat \ {0} :
           /\ x \div d \in Nat /\ x % d \in 0..(d - 1)
           /\ x = d * (x \div d) + (x % d)
    OBVIOUS
  <2>2. q \in Nat /\ m \in 0..(n - 1) /\ a = n * q + m
    BY <1>1, <2>1
  <2>3. \A x, y \in Nat : \A r \in 0..(n - 1) : n * x = n * y + r => x = y /\ r = 0
    <3> SUFFICES ASSUME NEW x \in Nat, NEW y \in Nat, NEW r \in 0..(n - 1), n * x = n * y + r
                 PROVE  x = y /\ r = 0
      OBVIOUS
    <3>1. n * (x - y) = r
      OBVIOUS
    <3>2. x - y = 0
      <4>1. CASE x - y >= 1
        <5>1. n * (x - y) >= n
          BY <4>1
        <5>2. QED
          BY <3>1, <5>1
      <4>2. CASE x - y <= -1
        <5>1. n * (x - y) < 0
          BY <4>2
        <5>2. QED
          BY <3>1, <5>1
      <4>3. QED
        BY <4>1, <4>2
    <3>3. QED
      BY <3>1, <3>2
  <2> HIDE DEF q, m
  <2>4. n * w = n * q + m
    BY <2>2
  <2>5. QED
    BY <2>2, <2>3, <2>4
<1>3. DivideRounded(a, n) = (IF 2 * m > n \/ (2 * m = n /\ q % 2 = 1) THEN q + 1 ELSE q)
  BY DEF DivideRounded
<1> HIDE DEF q, m, a
<1>4. ~(2 * m > n) /\ 2 * m # n
  BY <1>2
<1>5. DivideRounded(a, n) = w
  BY <1>2, <1>3, <1>4
<1>6. QED
  BY <1>5 DEF a

(* The weight of a piece, of any pack.                                       *)
PieceWeight(r) == IF Weight(r) = None \/ Weight(r) > 100 * MaxGrams THEN None ELSE Weight(r)

(* The weight of one piece, whatever the pack.                               *)
LEMMA UnitOfPack ==
  ASSUME NEW r, NEW n \in Nat \ {0}, NEW x, x.pack = n, None \notin Nat,
         Weight(r) = None \/ Weight(r) \in Nat,
         x.weight = IF Weight(r) = None THEN None ELSE n * Weight(r)
  PROVE  UnitWeight(x) = PieceWeight(r)
<1> DEFINE w == Weight(r)
           unit == IF x.weight = None THEN None
                   ELSE IF x.pack # None /\ x.pack > 1 THEN DivideRounded(x.weight, x.pack)
                   ELSE IF x.pack \in {None, 1} THEN x.weight ELSE None
<1>1. UnitWeight(x) = IF unit # None /\ unit > 100 * MaxGrams THEN None ELSE unit
  BY DEF UnitWeight
<1>2. unit = w
  <2>1. CASE w = None
    BY <2>1
  <2>2. CASE w # None
    <3>1. w \in Nat /\ x.weight = n * w
      BY <2>2
    <3>2. \A a, b \in Nat : a * b \in Nat
      OBVIOUS
    <3>3. x.weight \in Nat /\ x.weight # None /\ n # None
      BY <3>1, <3>2
    <3>4. CASE n > 1
      BY <3>1, <3>3, <3>4, DividesBack
    <3>5. CASE ~(n > 1)
      <4>1. n = 1
        BY <3>5
      <4>2. 1 * w = w
        BY <3>1
      <4>3. unit = x.weight
        BY <3>3, <4>1
      <4>4. QED
        BY <3>1, <4>1, <4>2, <4>3
    <3>6. QED
      BY <3>4, <3>5
  <2>3. QED
    BY <2>1, <2>2
<1> HIDE DEF unit
<1>3. CASE w = None
  BY <1>1, <1>2, <1>3 DEF PieceWeight
<1>4. CASE w # None
  BY <1>1, <1>2, <1>4 DEF PieceWeight
<1>5. QED
  BY <1>3, <1>4

(* What both parsers read alike.                                             *)
ReadAlike(x, p) ==
  /\ x.title = p.title
  /\ x.brand = Attribute(p, "Marque")
  /\ x.vitola = Attribute(p, "Module")
  /\ x.length = Attribute(p, "Longueur (mm)")
  /\ x.ring = Attribute(p, "Bague")
  /\ x.weight = Weight(p)
  /\ x.leaves = Leaves(p)
  /\ x.production = Attribute(p, "Pays de Production")
  /\ x.pack = PackSize(p)

(* Both parsers read the table alike.                                        *)
LEMMA ParsersReadAlike ==
  ASSUME NEW p
  PROVE  ReadAlike(Extraction(p), p)
<1> DEFINE common == MistercigarProduct(p)
<1>1. ReadAlike(common, p)
  BY DEF ReadAlike, MistercigarProduct
<1>2. CASE MerchantOf(p.host) = <<"ch", "cigarpassion">>
  <2> DEFINE offer == common.price
             shown == IF offer.amount = None THEN ShownPrice(p) ELSE [amount |-> None, currency |-> None]
             price == [amount |-> Or(offer.amount, shown.amount),
                       currency |-> Or(Or(offer.currency, shown.currency), "CHF")]
             image == Or(common.image, FirstOf(p.gallery))
             read == [common EXCEPT !.strength = None, !.price = price, !.image = image]
  <2>1. Extraction(p) = read
    BY <1>2 DEF Extraction, CigarpassionProduct
  <2>2. common = [title |-> common.title, sku |-> common.sku, brand |-> common.brand,
                  manufacturer |-> common.manufacturer, vitola |-> common.vitola, length |-> common.length,
                  ring |-> common.ring, weight |-> common.weight, leaves |-> common.leaves,
                  production |-> common.production, strength |-> common.strength, pack |-> common.pack,
                  price |-> common.price, image |-> common.image]
    BY DEF MistercigarProduct
  <2> HIDE DEF common, price, image
  <2>3. /\ read.title = common.title /\ read.brand = common.brand /\ read.vitola = common.vitola
        /\ read.length = common.length /\ read.ring = common.ring /\ read.weight = common.weight
        /\ read.leaves = common.leaves /\ read.production = common.production /\ read.pack = common.pack
    BY <2>2
  <2> HIDE DEF read
  <2>4. QED
    BY <1>1, <2>1, <2>3 DEF ReadAlike
<1>3. CASE MerchantOf(p.host) # <<"ch", "cigarpassion">>
  <2>1. Extraction(p) = common
    BY <1>3 DEF Extraction
  <2>2. QED
    BY <1>1, <2>1
<1>4. QED
  BY <1>2, <1>3

(* The price and the image of a reference in the shop of a merchant.          *)
DataPrice(r) == Offer(JsonLd(r.scripts))
DataImage(r) == IF JsonLd(r.scripts) = None THEN None ELSE CoerceImage(JsonLd(r.scripts).image)
ShopPrice(r) ==
  LET shown == IF DataPrice(r).amount = None THEN ShownPrice(r) ELSE [amount |-> None, currency |-> None]
  IN [amount |-> Or(DataPrice(r).amount, shown.amount),
      currency |-> Or(Or(DataPrice(r).currency, shown.currency), "CHF")]
PriceAt(r, merchant) == IF merchant = <<"ch", "cigarpassion">> THEN ShopPrice(r) ELSE DataPrice(r)
ImageAt(r, merchant) ==
  IF merchant = <<"ch", "cigarpassion">> THEN Or(DataImage(r), FirstOf(r.gallery)) ELSE DataImage(r)

(* Price and image depend on the data and on the shop.                       *)
LEMMA PriceAndImage ==
  ASSUME NEW r, NEW n, NEW notice, NEW host
  PROVE  /\ Extraction(PageOf(r, n, notice, host)).price = PriceAt(r, MerchantOf(host))
         /\ Extraction(PageOf(r, n, notice, host)).image = ImageAt(r, MerchantOf(host))
<1> DEFINE p == PageOf(r, n, notice, host)
           common == MistercigarProduct(p)
<1>1. p.scripts = r.scripts /\ p.shown = r.shown /\ p.gallery = r.gallery /\ p.host = host
  BY DEF PageOf
<1> HIDE DEF p
<1>2. common.price = DataPrice(r) /\ common.image = DataImage(r)
  BY <1>1 DEF MistercigarProduct, DataPrice, DataImage
<1>3. ShownPrice(p) = ShownPrice(r)
  BY <1>1 DEF ShownPrice
<1>4. CASE MerchantOf(host) = <<"ch", "cigarpassion">>
  <2> DEFINE offer == common.price
             shown == IF offer.amount = None THEN ShownPrice(p) ELSE [amount |-> None, currency |-> None]
             price == [amount |-> Or(offer.amount, shown.amount),
                       currency |-> Or(Or(offer.currency, shown.currency), "CHF")]
             image == Or(common.image, FirstOf(p.gallery))
             read == [common EXCEPT !.strength = None, !.price = price, !.image = image]
  <2>1. Extraction(p) = read
    BY <1>1, <1>4 DEF Extraction, CigarpassionProduct
  <2>2. common = [title |-> common.title, sku |-> common.sku, brand |-> common.brand,
                  manufacturer |-> common.manufacturer, vitola |-> common.vitola, length |-> common.length,
                  ring |-> common.ring, weight |-> common.weight, leaves |-> common.leaves,
                  production |-> common.production, strength |-> common.strength, pack |-> common.pack,
                  price |-> common.price, image |-> common.image]
    BY DEF MistercigarProduct
  <2>3. price = ShopPrice(r)
    BY <1>2, <1>3 DEF ShopPrice
  <2>4. image = Or(DataImage(r), FirstOf(r.gallery))
    BY <1>1, <1>2
  <2> HIDE DEF common, price, image
  <2>5. read.price = price /\ read.image = image
    BY <2>2
  <2>6. QED
    BY <1>4, <2>1, <2>3, <2>4, <2>5 DEF PriceAt, ImageAt, p
<1>5. CASE MerchantOf(host) # <<"ch", "cigarpassion">>
  <2>1. Extraction(p) = common
    BY <1>1, <1>5 DEF Extraction
  <2>2. QED
    BY <1>2, <1>5, <2>1 DEF PriceAt, ImageAt, p
<1>6. QED
  BY <1>4, <1>5

(* Complete data tell the price and the image in every shop.                 *)
LEMMA CompleteDataDecides ==
  ASSUME NEW r, Complete(r), NEW m1, NEW m2
  PROVE  PriceAt(r, m1) = PriceAt(r, m2) /\ ImageAt(r, m1) = ImageAt(r, m2)
<1> DEFINE offer == DataPrice(r)
           image == DataImage(r)
<1>1. offer.amount # None /\ offer.currency # None /\ image # None
  BY DEF Complete, DataPrice, DataImage
<1>2. offer = [amount |-> offer.amount, currency |-> offer.currency]
  BY DEF DataPrice, Offer
<1> HIDE DEF offer
<1>3. ShopPrice(r) = [amount |-> offer.amount, currency |-> offer.currency]
  BY <1>1 DEF ShopPrice, Or, offer
<1>4. ShopPrice(r) = DataPrice(r)
  BY <1>2, <1>3 DEF offer
<1>5. Or(DataImage(r), FirstOf(r.gallery)) = DataImage(r)
  BY <1>1 DEF Or
<1>6. QED
  BY <1>4, <1>5 DEF PriceAt, ImageAt

(* A cigar of which the strength is not told.                                *)
MildCigar(x) == [Cigar(x) EXCEPT !.strength = None]

(* What a cigar is made of.                                                  *)
LEMMA CigarsAgree ==
  ASSUME NEW x, NEW y, x.brand = y.brand, x.vitola = y.vitola, x.length = y.length, x.ring = y.ring,
         x.leaves = y.leaves, x.production = y.production, x.title.words = y.title.words,
         UnitWeight(x) = UnitWeight(y)
  PROVE  MildCigar(x) = MildCigar(y)
<1> DEFINE Told(z) ==
             [slug |-> Slug(z), full_name |-> StripPack(z.title),
              vitola |-> Or(z.vitola, <<"unknown">>), format |-> Format(z.vitola),
              length |-> z.length, ring |-> z.ring, weight |-> UnitWeight(z),
              wrapper |-> Country(z.leaves.wrapper), binder |-> Country(z.leaves.binder),
              fillers |-> FillerCountries(z.leaves), strength |-> None,
              is_cuban |-> Country(z.production) = "CUB" \/ Country(z.leaves.wrapper) = "CUB",
              blend |-> Components(z.leaves)]
<1>1. MildCigar(x) = Told(x)
  BY DEF MildCigar, Cigar
<1>2. MildCigar(y) = Told(y)
  BY DEF MildCigar, Cigar
<1>3. Slug(x) = Slug(y) /\ StripPack(x.title) = StripPack(y.title)
  BY DEF Slug, StripPack
<1>4. Told(x) = Told(y)
  BY <1>3
<1>5. QED
  BY <1>1, <1>2, <1>4

\* The line that a path without its ends tells.
InnerPath(p) == IF Len(p) < 3 THEN <<>> ELSE SubSeq(p, 2, Len(p) - 1)
InferredFrom(head, inner, brand) ==
    LET at == {i \in 1..Len(inner) : inner[i] = brand}
        b == CHOOSE i \in at : \A j \in at : i <= j
    IN IF head # "boutique" \/ at = {} THEN None
       ELSE IF b = Len(inner) \/ inner[b + 1] = "cigares-bucket" THEN None
       ELSE inner[b + 1]

(* The line is told by the parts between the first and the last.             *)
LEMMA InferLineIs ==
  ASSUME NEW p, NEW brand, p # <<>>
  PROVE  InferLine(p, brand) = InferredFrom(Head(p), InnerPath(p), brand)
<1> DEFINE inner == IF Len(p) < 3 THEN <<>> ELSE SubSeq(p, 2, Len(p) - 1)
           at == {i \in 1..Len(inner) : inner[i] = brand}
           b == CHOOSE i \in at : \A j \in at : i <= j
           out == IF b = Len(inner) \/ inner[b + 1] = "cigares-bucket" THEN None
                  ELSE inner[b + 1]
<1>1. InferLine(p, brand) = IF p = <<>> \/ Head(p) # "boutique" \/ at = {} THEN None ELSE out
  BY Zenon DEF InferLine
<1>2. InferredFrom(Head(p), InnerPath(p), brand) = IF Head(p) # "boutique" \/ at = {} THEN None ELSE out
  BY Zenon DEF InferredFrom, InnerPath
<1> HIDE DEF at, out
<1>3. QED
  BY <1>1, <1>2

(* The line does not depend on the last part of the path.                    *)
LEMMA LinesAgree ==
  ASSUME NEW r \in References, NEW n, NEW m, NEW brand
  PROVE  Line(PathOf(r, n), brand) = Line(PathOf(r, m), brand)
<1> DEFINE T == Range(r.path) \cup {n, m}
           s == PathOf(r, n)
           t == PathOf(r, m)
           k == Len(r.path)
           Inner(p) == IF Len(p) < 3 THEN <<>> ELSE SubSeq(p, 2, Len(p) - 1)
<1>1. r.path \in Seq(T) /\ k \in Nat
  <2>1. r.path \in Seq(Range(r.path)) /\ k \in Nat
    BY ListHasType, ReferencesAreTables
  <2>2. QED
    BY <2>1
<1>2. n \in T /\ m \in T
  OBVIOUS
<1> HIDE DEF T
<1>3. /\ s \in Seq(T) /\ Len(s) = k + 1 /\ \A i \in 1..k : s[i] = r.path[i]
      /\ t \in Seq(T) /\ Len(t) = k + 1 /\ \A i \in 1..k : t[i] = r.path[i]
  BY <1>1, <1>2, AppendProperties DEF PathOf
<1> HIDE DEF s, t, k
<1>4. Inner(s) = Inner(t)
  <2>1. CASE k + 1 < 3
    BY <1>3, <2>1
  <2>2. CASE ~(k + 1 < 3)
    <3>1. Inner(s) = SubSeq(s, 2, k) /\ Inner(t) = SubSeq(t, 2, k)
      <4>1. (k + 1) - 1 = k
        BY <1>1
      <4>2. QED
        BY <1>3, <2>2, <4>1
    <3>2. \A i \in 2..k : s[i] \in T /\ t[i] \in T /\ s[i] = t[i]
      <4>1. \A i \in 2..k : i \in 1..k /\ i \in 1..k + 1
        BY <1>1
      <4>2. QED
        BY <1>3, <4>1, ElementOfSeq
    <3>3. /\ SubSeq(s, 2, k) \in Seq(T) /\ Len(SubSeq(s, 2, k)) = IF 2 <= k THEN k - 2 + 1 ELSE 0
          /\ \A i \in 1..(k - 2 + 1) : SubSeq(s, 2, k)[i] = s[2 + i - 1]
      BY <1>1, <3>2, SubSeqProperties
    <3>4. /\ SubSeq(t, 2, k) \in Seq(T) /\ Len(SubSeq(t, 2, k)) = IF 2 <= k THEN k - 2 + 1 ELSE 0
          /\ \A i \in 1..(k - 2 + 1) : SubSeq(t, 2, k)[i] = t[2 + i - 1]
      BY <1>1, <3>2, SubSeqProperties
    <3> DEFINE a == SubSeq(s, 2, k)
               b == SubSeq(t, 2, k)
    <3>5. 2 <= k
      BY <1>1, <2>2
    <3>6. Len(a) = k - 2 + 1 /\ Len(b) = k - 2 + 1
      BY <3>3, <3>4, <3>5
    <3>7. \A i \in 1..(k - 2 + 1) : 2 + i - 1 \in 2..k
      BY <1>1
    <3>8. \A i \in 1..(k - 2 + 1) : a[i] = b[i]
      BY <3>2, <3>3, <3>4, <3>7
    <3>9. a \in Seq(T) /\ b \in Seq(T)
      BY <3>3, <3>4
    <3> HIDE DEF a, b
    <3>10. a = b
      BY <3>6, <3>8, <3>9, SeqEqual
    <3>11. QED
      BY <3>1, <3>10 DEF a, b
  <2>3. QED
    BY <2>1, <2>2
<1>5. s # <<>> /\ t # <<>>
  BY <1>1, <1>3, EmptySeq
<1>6. CASE k = 0
  <2>1. Inner(s) = <<>> /\ Inner(t) = <<>>
    BY <1>3, <1>6
  <2>2. InferLine(s, brand) = None /\ InferLine(t, brand) = None
    BY <1>3, <1>6, <2>1 DEF InferLine
  <2>3. QED
    BY <2>2 DEF Line, s, t
<1>7. CASE k # 0
  <2>1. Head(s) = Head(t)
    <3>1. Head(s) = s[1] /\ Head(t) = t[1]
      BY <1>3, <1>5, HeadTailProperties
    <3>2. 1 \in 1..k
      BY <1>1, <1>7
    <3>3. QED
      BY <1>3, <3>1, <3>2
  <2>2. /\ InferLine(s, brand) = InferredFrom(Head(s), InnerPath(s), brand)
        /\ InferLine(t, brand) = InferredFrom(Head(t), InnerPath(t), brand)
    BY <1>5, InferLineIs
  <2>3. InferLine(s, brand) = InferLine(t, brand)
    BY <1>4, <2>1, <2>2 DEF InnerPath
  <2>4. QED
    BY <2>3 DEF Line, s, t
<1>8. QED
  BY <1>6, <1>7

(* The entries of two packs, however and wherever they are shown.            *)
LEMMA EntriesAgree ==
  ASSUME NEW r \in References, NEW n \in Nat \ {0}, NEW m \in Nat \ {0},
         NEW notice \in Notices, NEW told \in Notices, NEW host, NEW shop
  PROVE  LET one == Entry(PageOf(r, n, notice, host), PathOf(r, n))
             two == Entry(PageOf(r, m, told, shop), PathOf(r, m))
         IN /\ one.pack = n
            /\ one.cigar = two.cigar /\ one.line = two.line
            /\ Complete(r) \/ MerchantOf(shop) = MerchantOf(host) =>
                  one.price = two.price /\ one.image = two.image
<1> DEFINE p == PageOf(r, n, notice, host)
           q == PageOf(r, m, told, shop)
           x == Extraction(p)
           y == Extraction(q)
           one == Entry(p, PathOf(r, n))
           two == Entry(q, PathOf(r, m))
<1>1. ReadAlike(x, p) /\ ReadAlike(y, q)
  BY ParsersReadAlike
<1>2. \A label : label \notin {"Packing", "Poids"} =>
         Attribute(p, label) = Attribute(r, label) /\ Attribute(q, label) = Attribute(r, label)
  BY OtherAttribute
<1>3. p.title.words = r.words /\ q.title.words = r.words
  BY DEF PageOf
<1>4. PackSize(p) = n /\ PackSize(q) = m
  BY PackOfPage
<1>5. /\ Weight(r) = None \/ Weight(r) \in Nat
      /\ Weight(p) = IF Weight(r) = None THEN None ELSE n * Weight(r)
      /\ Weight(q) = IF Weight(r) = None THEN None ELSE m * Weight(r)
  BY WeightOfPage
<1>6. /\ x.price = PriceAt(r, MerchantOf(host)) /\ x.image = ImageAt(r, MerchantOf(host))
      /\ y.price = PriceAt(r, MerchantOf(shop)) /\ y.image = ImageAt(r, MerchantOf(shop))
  BY PriceAndImage
<1> HIDE DEF p, q, x, y
<1>7. Leaves(p) = Leaves(q)
  BY <1>2 DEF Leaves
<1>8. UnitWeight(x) = PieceWeight(r) /\ UnitWeight(y) = PieceWeight(r)
  <2>1. x.pack = n /\ x.weight = Weight(p) /\ y.pack = m /\ y.weight = Weight(q)
    BY <1>1, <1>4 DEF ReadAlike
  <2>2. None \notin Nat
    BY ReferencesAreTables
  <2>3. QED
    BY <1>5, <2>1, <2>2, UnitOfPack
<1>9. /\ x.brand = Attribute(r, "Marque") /\ y.brand = Attribute(r, "Marque")
      /\ x.vitola = y.vitola /\ x.length = y.length /\ x.ring = y.ring
      /\ x.leaves = y.leaves /\ x.production = y.production /\ x.title.words = y.title.words
  BY <1>1, <1>2, <1>3, <1>7 DEF ReadAlike
<1>10. MildCigar(x) = MildCigar(y)
  BY <1>8, <1>9, CigarsAgree
<1>11. Line(PathOf(r, n), x.brand) = Line(PathOf(r, m), y.brand)
  BY <1>9, LinesAgree
<1>12. /\ one = [cigar |-> MildCigar(x), line |-> Line(PathOf(r, n), x.brand),
                 price |-> x.price, image |-> x.image, pack |-> x.pack]
       /\ two = [cigar |-> MildCigar(y), line |-> Line(PathOf(r, m), y.brand),
                 price |-> y.price, image |-> y.image, pack |-> y.pack]
  BY DEF Entry, MildCigar, x, y
<1> HIDE DEF one, two
<1>13. one.pack = n
  BY <1>1, <1>4, <1>12 DEF ReadAlike
<1>14. one.cigar = two.cigar /\ one.line = two.line
  BY <1>10, <1>11, <1>12
<1>15. ASSUME Complete(r) \/ MerchantOf(shop) = MerchantOf(host)
       PROVE  one.price = two.price /\ one.image = two.image
  <2>1. x.price = y.price /\ x.image = y.image
    BY <1>6, <1>15, CompleteDataDecides
  <2>2. QED
    BY <1>12, <2>1
<1>16. QED
  BY <1>13, <1>14, <1>15 DEF one, two, p, q

-----------------------------------------------------------------------------
(* Official documents.                                                      *)

(* Picking all but the first a of n elements.                                 *)
Dropped(s, a, n) == [i \in 1..(n - a) |-> s[a + i]]

(* What is picked from a place on is the rest.                              *)
LEMMA PickedFrom ==
  ASSUME NEW s, NEW n \in Nat, Len(s) = n, NEW a \in 0..n, NEW I, I = (a + 1)..n
  PROVE  Picked(s, I) = Dropped(s, a, n)
<1> DEFINE all == [i \in 1..n |-> i]
           places(m) == IF m <= a THEN <<>> ELSE [i \in 1..(m - a) |-> a + i]
<1>1. all \in Seq(Nat) /\ Len(all) = n /\ \A i \in 1..n : all[i] = i
  OBVIOUS
<1> HIDE DEF all
<1>2. PICK k : KeptUpTo(k, all, I) /\ Kept(all, I) = k[n]
  BY <1>1, KeptIterates
<1> DEFINE G == {m \in 0..n : k[m] = places(m)}
<1>3. 0 \in G
  BY <1>2 DEF KeptUpTo
<1>4. ASSUME NEW m \in 1..n, m - 1 \in G PROVE m \in G
  <2>1. k[m] = IF m \in I THEN Append(k[m - 1], m) ELSE k[m - 1]
    BY <1>1, <1>2 DEF KeptUpTo
  <2>2. k[m - 1] = places(m - 1) /\ m \in 0..n
    BY <1>4
  <2>3. CASE m <= a
    BY <2>1, <2>2, <2>3
  <2>4. CASE m > a
    <3>1. m \in I /\ m = a + (m - a) /\ m - a \in 1..n
      BY <2>4
    <3> DEFINE p == places(m - 1)
               t == Append(p, m)
               u == [i \in 1..(m - a) |-> a + i]
    <3>2. p \in Seq(Nat) /\ Len(p) = m - a - 1 /\ \A i \in 1..(m - a - 1) : p[i] = a + i
      <4>1. CASE m - 1 = a
        BY <2>4, <4>1
      <4>2. CASE m - 1 # a
        <5>1. m - 1 - a \in Nat /\ p = [i \in 1..(m - 1 - a) |-> a + i] /\ m - 1 - a = m - a - 1
          BY <2>4, <4>2
        <5> HIDE DEF p
        <5>2. QED
          BY <5>1
      <4>3. QED
        BY <4>1, <4>2
    <3> HIDE DEF p
    <3>3. t \in Seq(Nat) /\ Len(t) = m - a /\ t[m - a] = m /\ \A i \in 1..(m - a - 1) : t[i] = a + i
      <4>1. m \in Nat /\ m - a - 1 \in Nat
        BY <2>4
      <4>2. QED
        BY <3>2, <4>1, AppendProperties
    <3> HIDE DEF t
    <3>4. u \in Seq(Nat) /\ Len(u) = m - a /\ \A i \in 1..(m - a) : u[i] = a + i
      BY <2>4
    <3> HIDE DEF u
    <3>5. \A i \in 1..Len(t) : t[i] = u[i]
      BY <2>4, <3>1, <3>3, <3>4
    <3>6. t = u
      BY <3>3, <3>4, <3>5, SeqEqual
    <3>7. k[m] = u
      BY <2>1, <2>2, <3>1, <3>6 DEF t, p
    <3>8. QED
      BY <2>2, <2>4, <3>7 DEF u
  <2>5. QED
    BY <2>3, <2>4
<1> HIDE DEF G
<1>5. 0..n \subseteq G
  BY <1>3, <1>4, InductionUpTo
<1>6. Kept(all, I) = places(n)
  BY <1>2, <1>5 DEF G
<1>7. places(n) = [i \in 1..(n - a) |-> a + i]
  BY DEF places
<1> DEFINE p == [i \in 1..(n - a) |-> a + i]
<1>8. Len(p) = n - a /\ \A i \in 1..(n - a) : p[i] = a + i
  BY DEF p
<1>9. Picked(s, I) = [i \in 1..Len(p) |-> s[p[i]]]
  BY <1>6, <1>7 DEF Picked, all
<1> HIDE DEF p
<1>10. QED
  BY <1>8, <1>9 DEF Dropped

-----------------------------------------------------------------------------
(* Tables of a document.                                                    *)

ColumnsOf(q) == ColumnsFromCells(Heads(q), RolesOf(q))

(* The columns of a table are found by what they tell.                        *)
LEMMA ColumnOfRole ==
  ASSUME NEW q, IsLayout(q)
  PROVE  /\ DOMAIN ColumnsOf(q) \subseteq DOMAIN RolesOf(q)
         /\ \A r \in DOMAIN RolesOf(q) :
               /\ r \in DOMAIN ColumnsOf(q) <=> HasColumn(q, r)
               /\ HasColumn(q, r) => /\ ColumnsOf(q)[r] \in 1..Len(q.columns)
                                     /\ q.columns[ColumnsOf(q)[r]].role = r
<1> DEFINE n == Len(q.columns)
           roles == RolesOf(q)
           cells == Heads(q)
           at(r) == {i \in 1..Len(cells) : cells[i] \in roles[r]}
           known == {r \in DOMAIN roles : at(r) # {}}
           least(r) == CHOOSE i \in at(r) : \A j \in at(r) : i <= j
<1>1. /\ n \in Nat /\ \A i \in 1..n : \A r \in DOMAIN roles :
            q.columns[i].label \in roles[r] <=> q.columns[i].role = r
  BY ListHasType DEF IsLayout
<1>2. Len(cells) = n /\ \A i \in 1..n : cells[i] = q.columns[i].label
  BY <1>1 DEF Heads
<1>3. ColumnsOf(q) = [r \in known |-> least(r)]
  BY DEF ColumnsOf, ColumnsFromCells
<1>4. ASSUME NEW r \in DOMAIN roles PROVE at(r) = {i \in 1..n : q.columns[i].role = r}
  BY <1>1, <1>2
<1> HIDE DEF roles, cells, n
<1>5. ASSUME NEW r \in DOMAIN roles PROVE r \in known <=> HasColumn(q, r)
  BY <1>4 DEF HasColumn, n
<1>6. ASSUME NEW r \in known PROVE least(r) \in at(r)
  <2>1. at(r) \in SUBSET Nat /\ at(r) # {}
    BY <1>1, <1>2
  <2> HIDE DEF at
  <2>2. \E i \in at(r) : \A j \in at(r) : i <= j
    BY <2>1, LeastNatural
  <2>3. QED
    BY <2>2
<1>7. DOMAIN ColumnsOf(q) = known /\ \A r \in known : ColumnsOf(q)[r] = least(r)
  BY <1>3
<1>8. \A r \in known : r \in DOMAIN roles
  OBVIOUS
<1> HIDE DEF known, least
<1>9. \A r \in known : ColumnsOf(q)[r] \in 1..n /\ q.columns[ColumnsOf(q)[r]].role = r
  BY <1>4, <1>6, <1>7, <1>8
<1>10. QED
  BY <1>5, <1>7, <1>8, <1>9 DEF roles, n

(* An article of a list, as a table tells it.                                 *)
IsArticle(item) ==
  /\ Reading[item.price].price \in Nat /\ Reading[item.price].price # None
  /\ None \notin {item.brand, item.product}
  /\ Empty \notin {item.brand, item.product, item.joined}
  /\ IsInTable(item)

(* The articles of a list.                                                  *)
ItemsOf(q) == UNION {Range(q.parts[k]) : k \in 1..Len(q.parts)}

(* Every article of a list has a brand, a product and a price.              *)
LEMMA ItemsAreArticles ==
  ASSUME NEW q \in Documents, NEW item \in ItemsOf(q)
  PROVE  IsArticle(item)
<1>1. PICK k \in 1..Len(q.parts) : item \in Range(q.parts[k])
  BY DEF ItemsOf
<1>2. /\ IsList(q.parts[k])
      /\ \A i \in 1..Len(q.parts[k]) : IsArticle(q.parts[k][i])
  BY <1>1, DocumentsArePublished DEF IsArticle
<1>3. PICK i \in DOMAIN q.parts[k] : item = q.parts[k][i]
  BY <1>1 DEF Range
<1>4. i \in 1..Len(q.parts[k])
  BY <1>2, <1>3, ListHasType
<1>5. QED
  BY <1>2, <1>3, <1>4

(* What the entry of an article says.                                        *)
EntryMatches(e, item, dates) ==
  /\ e.brand = item.brand /\ e.product = item.product
  /\ e.price = Reading[item.price].price /\ e.dates = dates

(* The cells of an article, by what they tell.                                *)
LEMMA CellsOfArticle ==
  ASSUME NEW q, IsLayout(q), NEW item, NEW cells, cells = Cells(q, item)
  PROVE  /\ Len(cells) = Len(q.columns) /\ cells # <<>>
         /\ \A r \in DOMAIN ColumnsOf(q) : /\ ColumnsOf(q)[r] \in 1..Len(cells)
                                           /\ cells[ColumnsOf(q)[r]] = CellText(q, item, r)
<1> DEFINE n == Len(q.columns)
<1>1. n \in Nat
  BY ListHasType DEF IsLayout
<1>2. Len(cells) = n /\ \A i \in 1..n : cells[i] = CellText(q, item, q.columns[i].role)
  BY <1>1 DEF Cells
<1>3. \A r \in DOMAIN ColumnsOf(q) : ColumnsOf(q)[r] \in 1..n /\ q.columns[ColumnsOf(q)[r]].role = r
  BY ColumnOfRole
<1>4. n # 0
  BY <1>1 DEF IsLayout, HasColumn
<1>5. cells # <<>>
  BY <1>2, <1>4
<1> HIDE DEF n
<1>6. QED
  BY <1>2, <1>3, <1>5 DEF n

(* The cells of an article give its entry, whichever columns they have.     *)
LEMMA HtmlEntryMatches ==
  ASSUME NEW q, IsLayout(q), TypeOf(q) # "pdf", NEW item, IsArticle(item), NEW dates
  PROVE  /\ HasHtmlEntry(Cells(q, item), ColumnsOf(q))
         /\ EntryMatches(HtmlEntry(Cells(q, item), ColumnsOf(q), dates), item, dates)
<1> DEFINE cells == Cells(q, item)
           columns == ColumnsOf(q)
<1>1. RolesOf(q) = HtmlRoles
  BY DEF RolesOf
<1>2. /\ "product" \in DOMAIN columns /\ "price" \in DOMAIN columns
      /\ "brand" \in DOMAIN columns <=> HasColumn(q, "brand")
  BY <1>1, ColumnOfRole DEF HtmlRoles, IsLayout
<1>3. /\ \A r \in DOMAIN columns : columns[r] \in 1..Len(cells) /\ cells[columns[r]] = CellText(q, item, r)
      /\ Len(cells) \in Nat
  BY CellsOfArticle, ListHasType DEF IsLayout
<1> HIDE DEF cells, columns
<1>4. cells[columns["price"]] = item.price
  BY <1>2, <1>3 DEF CellText
<1>5. cells[columns["product"]] = IF HasColumn(q, "brand") THEN item.product ELSE item.joined
  BY <1>2, <1>3 DEF CellText
<1>6. HasColumn(q, "brand") => cells[columns["brand"]] = item.brand
  BY <1>2, <1>3 DEF CellText
<1>7. CellOf(cells, columns, "brand") = IF HasColumn(q, "brand") THEN item.brand ELSE None
  BY <1>2, <1>6 DEF CellOf, IsArticle
<1>8. HasHtmlEntry(cells, columns)
  <2>1. \A r \in DOMAIN columns : columns[r] <= Len(cells)
    BY <1>3
  <2>2. cells[columns["product"]] # Empty
    BY <1>5 DEF IsArticle
  <2>3. Reading[cells[columns["price"]]].price # None /\ Reading[cells[columns["price"]]].price >= 0
    BY <1>4 DEF IsArticle
  <2>4. QED
    BY <2>1, <2>2, <2>3 DEF HasHtmlEntry, HasEntry
<1> DEFINE product == cells[columns["product"]]
           split == IF CellOf(cells, columns, "brand") = None THEN Reading[product].split ELSE None
           packaging == CellOf(cells, columns, "packaging")
           brand == IF split # None THEN split[1] ELSE Or(CellOf(cells, columns, "brand"), "unknown")
           name == IF split # None THEN split[2] ELSE product
           entry == HtmlEntry(cells, columns, dates)
<1>9. /\ entry.brand = brand /\ entry.product = name /\ entry.dates = dates
      /\ entry.price = Reading[cells[columns["price"]]].price
  BY DEF HtmlEntry
<1>10. brand = item.brand /\ name = item.product
  <2> HIDE DEF entry
  <2>1. CASE HasColumn(q, "brand")
    <3>1. CellOf(cells, columns, "brand") = item.brand /\ item.brand # None /\ product = item.product
      BY <1>5, <1>7, <2>1 DEF IsArticle
    <3>2. split = None
      BY <3>1
    <3>3. Or(CellOf(cells, columns, "brand"), "unknown") = item.brand
      BY <3>1 DEF Or
    <3>4. QED
      BY <3>1, <3>2, <3>3
  <2>2. CASE ~HasColumn(q, "brand")
    <3>1. CellOf(cells, columns, "brand") = None /\ product = item.joined
      BY <1>5, <1>7, <2>2
    <3>2. split = Reading[item.joined].split
      BY <3>1
    <3>3. split # None /\ split[1] = item.brand /\ split[2] = item.product
      BY <3>2 DEF IsArticle, IsInTable
    <3> HIDE DEF split, product
    <3>4. QED
      BY <3>3
  <2>3. QED
    BY <2>1, <2>2
<1>11. EntryMatches(entry, item, dates)
  <2> HIDE DEF entry, brand, name
  <2>1. QED
    BY <1>4, <1>9, <1>10 DEF EntryMatches
<1>12. QED
  BY <1>8, <1>11 DEF entry, cells, columns

(* The same for a table of a PDF.                                           *)
LEMMA PdfEntryMatches ==
  ASSUME NEW q, IsLayout(q), TypeOf(q) = "pdf", NEW item, IsArticle(item), NEW dates
  PROVE  /\ HasEntry(Cells(q, item), ColumnsOf(q))
         /\ EntryMatches(PdfEntry(Cells(q, item), ColumnsOf(q), dates), item, dates)
<1> DEFINE cells == Cells(q, item)
           columns == ColumnsOf(q)
           entry == PdfEntry(cells, columns, dates)
<1>1. RolesOf(q) = PdfRoles
  BY DEF RolesOf
<1>2. "product" \in DOMAIN columns /\ "price" \in DOMAIN columns /\ "brand" \in DOMAIN columns
  BY <1>1, ColumnOfRole DEF PdfRoles, IsLayout
<1>3. /\ \A r \in DOMAIN columns : columns[r] \in 1..Len(cells) /\ cells[columns[r]] = CellText(q, item, r)
      /\ Len(cells) \in Nat
  BY CellsOfArticle, ListHasType DEF IsLayout
<1> HIDE DEF cells, columns
<1>4. /\ cells[columns["price"]] = item.price /\ cells[columns["product"]] = item.product
      /\ cells[columns["brand"]] = item.brand
  BY <1>2, <1>3 DEF CellText, IsLayout
<1>5. HasEntry(cells, columns)
  <2>1. \A r \in DOMAIN columns : columns[r] <= Len(cells)
    BY <1>3
  <2>2. QED
    BY <1>4, <2>1 DEF HasEntry, IsArticle
<1>6. CellOf(cells, columns, "brand") = item.brand
  BY <1>2, <1>4 DEF CellOf, IsArticle
<1>7. Or(CellOf(cells, columns, "brand"), "unknown") = item.brand
  BY <1>6 DEF Or, IsArticle
<1>8. /\ entry.brand = Or(CellOf(cells, columns, "brand"), "unknown") /\ entry.dates = dates
      /\ entry.product = cells[columns["product"]] /\ entry.price = Reading[cells[columns["price"]]].price
  BY DEF PdfEntry
<1> HIDE DEF entry
<1>9. EntryMatches(entry, item, dates)
  BY <1>4, <1>7, <1>8 DEF EntryMatches
<1>10. QED
  BY <1>5, <1>9 DEF entry, cells, columns

(* What the assumption says of a document.                                  *)
LEMMA DocumentIsPublished ==
  ASSUME NEW q \in Documents
  PROVE  /\ q.kind = "document" /\ q.form \in Forms /\ q.header \in {"th", "td"}
         /\ IsList(q.parts) /\ Len(q.parts) \in Nat
         /\ \A k \in 1..Len(q.parts) : IsList(q.parts[k]) /\ Len(q.parts[k]) \in Nat
         /\ TypeOf(q) # "ods" => IsLayout(q)
         /\ TypeOf(q) = "ods" => IsSheet(q)
         /\ Reading[q.date].homologation # None /\ Reading[q.date].effective # None
BY DocumentsArePublished, ListHasType

(* A table is its header and then the articles.                             *)
LEMMA TableRows ==
  ASSUME NEW q, NEW part, IsList(part)
  PROVE  /\ Len(TableOf(q, part)) = Len(part) + 1
         /\ TableOf(q, part)[1] = HeadRow(q)
         /\ \A i \in 1..Len(part) : TableOf(q, part)[i + 1] = TableRow(<<>>, Cells(q, part[i]))
<1> DEFINE n == Len(part)
           row(i) == IF i = 1 THEN HeadRow(q) ELSE TableRow(<<>>, Cells(q, part[i - 1]))
<1>1. n \in Nat
  BY ListHasType
<1>2. TableOf(q, part) = [i \in 1..n + 1 |-> row(i)]
  BY DEF TableOf
<1>3. row(1) = HeadRow(q)
  OBVIOUS
<1>4. \A i \in 1..n : row(i + 1) = TableRow(<<>>, Cells(q, part[i]))
  <2> TAKE i \in 1..n
  <2>1. i + 1 # 1 /\ (i + 1) - 1 = i
    BY <1>1
  <2>2. QED
    BY <2>1
<1> HIDE DEF row, n
<1>5. 1 \in 1..n + 1 /\ \A i \in 1..n : i + 1 \in 1..n + 1
  BY <1>1
<1>6. Len(TableOf(q, part)) = n + 1
  BY <1>1, <1>2
<1>7. QED
  BY <1>2, <1>3, <1>4, <1>5, <1>6 DEF n

(* The cells of the header, be they th or td.                               *)
LEMMA HeadCells ==
  ASSUME NEW q, IsLayout(q)
  PROVE  Len(Heads(q)) = Len(q.columns) /\ Len(q.columns) \in Nat \ {0} /\ Heads(q) # <<>>
<1>1. Len(q.columns) \in Nat
  BY ListHasType DEF IsLayout
<1>2. Len(q.columns) # 0
  BY <1>1 DEF IsLayout, HasColumn
<1>3. Len(Heads(q)) = Len(q.columns)
  BY <1>1 DEF Heads
<1>4. QED
  BY <1>1, <1>2, <1>3

(* The header of a table is its first row, as cells of either kind.           *)
LEMMA HeaderIsFound ==
  ASSUME NEW q, IsLayout(q), TypeOf(q) # "pdf", q.header \in {"th", "td"}, NEW part, IsList(part)
  PROVE  DetectColumns(TableOf(q, part)) = ColumnsOf(q)
<1> DEFINE table == TableOf(q, part)
           named == {i \in 1..Len(table) :
                       \/ table[i].th # <<>>
                       \/ "price" \in DOMAIN ColumnsFromCells(table[i].td, HtmlRoles)}
           header == FirstPicked(table, named)
<1>1. Len(table) = Len(part) + 1 /\ Len(part) \in Nat /\ table[1] = HeadRow(q)
  BY TableRows, ListHasType
<1>2. ColumnsOf(q) = ColumnsFromCells(Heads(q), HtmlRoles) /\ "price" \in DOMAIN ColumnsOf(q)
  <2>1. RolesOf(q) = HtmlRoles
    BY DEF RolesOf
  <2>2. QED
    BY <2>1, ColumnOfRole DEF HtmlRoles, IsLayout, ColumnsOf
<1>3. Heads(q) # <<>>
  BY HeadCells
<1>4. /\ q.header = "th" => table[1].th = Heads(q)
      /\ q.header = "td" => table[1].th = <<>> /\ table[1].td = Heads(q)
  BY <1>1 DEF HeadRow, TableRow
<1>5. DetectColumns(table) =
         IF named = {} THEN <<>>
         ELSE ColumnsFromCells(IF header.th # <<>> THEN header.th ELSE header.td, HtmlRoles)
  BY DEF DetectColumns
<1> HIDE DEF table
<1>6. 1 \in named
  <2>1. 1 \in 1..Len(table)
    BY <1>1
  <2>2. table[1].th # <<>> \/ "price" \in DOMAIN ColumnsFromCells(table[1].td, HtmlRoles)
    BY <1>2, <1>3, <1>4
  <2>3. QED
    BY <2>1, <2>2
<1>7. named \in SUBSET Nat /\ \A j \in named : 1 <= j
  BY <1>1
<1> HIDE DEF named
<1>8. header = table[1]
  BY <1>6, <1>7, FirstOfPlaces
<1> HIDE DEF header
<1>9. named # {}
  BY <1>6
<1>10. (IF header.th # <<>> THEN header.th ELSE header.td) = Heads(q)
  BY <1>3, <1>4, <1>8
<1>11. DetectColumns(table) = ColumnsFromCells(Heads(q), HtmlRoles)
  BY <1>5, <1>9, <1>10
<1>12. QED
  BY <1>2, <1>11 DEF table

RowsOf(q, part) == [i \in 1..Len(part) |-> TableRow(<<>>, Cells(q, part[i]))]

(* Its other rows are data, whatever words they contain.                       *)
LEMMA DataIsFound ==
  ASSUME NEW q, IsLayout(q), q.header \in {"th", "td"}, NEW part, IsList(part)
  PROVE  DataRows(TableOf(q, part)) = RowsOf(q, part)
<1> DEFINE table == TableOf(q, part)
           n == Len(part)
           headers == {i \in 1..Len(table) : table[i].th # <<>> \/ LooksLikeHeader(table[i])}
           isFirst(i) == i \in headers /\ \A j \in headers : i <= j
           I == {i \in 1..Len(table) : table[i].td # <<>> /\ ~isFirst(i)}
<1>1. n \in Nat /\ Len(table) = n + 1
  BY TableRows, ListHasType
<1>2. table[1] = HeadRow(q) /\ \A i \in 1..n : table[i + 1] = TableRow(<<>>, Cells(q, part[i]))
  BY TableRows
<1>3. DataRows(table) = Picked(table, I)
  BY DEF DataRows
<1> HIDE DEF table, n
<1>4. \A i \in 1..Len(table) : i = 1 \/ (i - 1 \in 1..n /\ i = (i - 1) + 1)
  BY <1>1
<1>5. \A i \in 1..n : table[i + 1].td # <<>>
  <2> TAKE i \in 1..n
  <2>1. Cells(q, part[i]) # <<>>
    BY CellsOfArticle
  <2>2. table[i + 1] = TableRow(<<>>, Cells(q, part[i]))
    BY <1>2
  <2>4. TableRow(<<>>, Cells(q, part[i])).td = Cells(q, part[i])
    BY DEF TableRow
  <2>3. QED
    BY <2>1, <2>2, <2>4
<1>6. 1 \in headers
  <2>1. 1 \in 1..Len(table)
    BY <1>1
  <2>2. CASE q.header = "th"
    <3>1. table[1].th = Heads(q)
      BY <1>2, <2>2 DEF HeadRow, TableRow
    <3>2. QED
      BY <2>1, <3>1, HeadCells
  <2>3. CASE q.header = "td"
    <3>1. table[1].td = Heads(q)
      BY <1>2, <2>3 DEF HeadRow, TableRow
    <3>2. PICK i \in 1..Len(q.columns) : Reading[q.columns[i].label].keyword
      BY <2>3 DEF IsLayout
    <3>3. i \in 1..Len(Heads(q)) /\ Heads(q)[i] = q.columns[i].label
      BY <3>2, HeadCells DEF Heads
    <3>4. LooksLikeHeader(table[1])
      BY <3>1, <3>2, <3>3 DEF LooksLikeHeader
    <3>5. QED
      BY <2>1, <3>4
  <2>4. QED
    BY <2>2, <2>3
<1>7. \A j \in headers : 1 <= j /\ j \in Nat
  BY <1>1
<1> HIDE DEF headers
<1>8. isFirst(1)
  BY <1>6, <1>7
<1>9. \A i \in 2..(n + 1) : ~isFirst(i)
  BY <1>1, <1>6
<1>10. I = 2..(n + 1)
  <2>1. ASSUME NEW i \in I PROVE i \in 2..(n + 1)
    <3>1. i # 1 /\ i \in 1..(n + 1)
      BY <1>1, <1>8
    <3>2. QED
      BY <1>1, <3>1
  <2>2. ASSUME NEW i \in 2..(n + 1) PROVE i \in I
    <3>1. i \in 1..Len(table) /\ ~isFirst(i)
      BY <1>1, <1>9
    <3>2. i - 1 \in 1..n /\ (i - 1) + 1 = i
      BY <1>1
    <3>3. table[(i - 1) + 1].td # <<>>
      BY <1>5, <3>2
    <3> HIDE DEF isFirst
    <3>4. QED
      BY <3>1, <3>2, <3>3
  <2> HIDE DEF I
  <2>3. QED
    BY <2>1, <2>2
<1> HIDE DEF I
<1>11. Picked(table, I) = [i \in 1..((n + 1) - 1) |-> table[1 + i]]
  <2>1. 1 \in 0..(n + 1) /\ n + 1 \in Nat /\ I = (1 + 1)..(n + 1)
    BY <1>1, <1>10
  <2>2. Picked(table, I) = Dropped(table, 1, n + 1)
    BY <1>1, <2>1, PickedFrom
  <2>3. QED
    BY <2>2 DEF Dropped
<1>12. (n + 1) - 1 = n /\ \A i \in 1..n : 1 + i = i + 1
  BY <1>1
<1>13. Picked(table, I) = [i \in 1..n |-> TableRow(<<>>, Cells(q, part[i]))]
  BY <1>2, <1>11, <1>12
<1>14. QED
  BY <1>3, <1>13 DEF RowsOf, table, n

\* The entries of the articles of a list.
HtmlRead(q, dates) == [item \in ItemsOf(q) |-> HtmlEntry(Cells(q, item), ColumnsOf(q), dates)]
PdfRead(q, dates) == [item \in ItemsOf(q) |-> PdfEntry(Cells(q, item), ColumnsOf(q), dates)]

(* A part is a sequence of articles of the list.                            *)
LEMMA PartHasItems ==
  ASSUME NEW q \in Documents, NEW k \in 1..Len(q.parts), NEW i \in 1..Len(q.parts[k])
  PROVE  q.parts[k][i] \in ItemsOf(q)
<1>1. i \in DOMAIN q.parts[k]
  BY DocumentIsPublished, ListHasType
<1>2. q.parts[k][i] \in Range(q.parts[k])
  BY <1>1 DEF Range
<1>3. QED
  BY <1>2 DEF ItemsOf

(* A table has one entry for each article of its part.                        *)
LEMMA HtmlTableIsRead ==
  ASSUME NEW q \in Documents, TypeOf(q) \in {"html", "json"}, NEW k \in 1..Len(q.parts), NEW dates
  PROVE  HtmlTable(TableOf(q, q.parts[k]), dates) = Mapped(HtmlRead(q, dates), q.parts[k])
<1> DEFINE part == q.parts[k]
           n == Len(part)
           table == TableOf(q, part)
           columns == ColumnsOf(q)
           data == RowsOf(q, part)
           I == {i \in 1..Len(data) : HasHtmlEntry(data[i].td, columns)}
           rows == Picked(data, I)
<1>1. IsLayout(q) /\ q.header \in {"th", "td"} /\ IsList(part) /\ n \in Nat /\ TypeOf(q) # "pdf"
  BY DocumentIsPublished
<1>2. DetectColumns(table) = columns /\ DataRows(table) = data
  BY <1>1, HeaderIsFound, DataIsFound
<1>3. IsPriceTable(columns)
  <2>1. RolesOf(q) = HtmlRoles
    BY <1>1 DEF RolesOf
  <2>2. "price" \in DOMAIN columns /\ "product" \in DOMAIN columns
    BY <1>1, <2>1, ColumnOfRole DEF HtmlRoles, IsLayout
  <2> HIDE DEF columns
  <2>3. QED
    BY <2>2 DEF IsPriceTable
<1>4. HtmlTable(table, dates) = [i \in 1..Len(rows) |-> HtmlEntry(rows[i].td, columns, dates)]
  BY <1>2, <1>3 DEF HtmlTable
<1> HIDE DEF table, columns
<1>5. Len(data) = n /\ \A i \in 1..n : data[i].td = Cells(q, part[i])
  BY <1>1 DEF RowsOf, TableRow
<1>6. \A i \in 1..n : part[i] \in ItemsOf(q)
  BY PartHasItems
<1>7. \A i \in 1..n : HasHtmlEntry(Cells(q, part[i]), columns)
  BY <1>1, <1>6, ItemsAreArticles, HtmlEntryMatches DEF columns
<1> HIDE DEF data
<1>8. I = 1..n
  BY <1>5, <1>7
<1> HIDE DEF I, n
<1>9. Picked(data, I) = [i \in 1..(n - 0) |-> data[0 + i]]
  <2>1. 0 \in 0..n /\ I = (0 + 1)..n
    BY <1>1, <1>8
  <2>2. Picked(data, I) = Dropped(data, 0, n)
    BY <1>1, <1>5, <2>1, PickedFrom
  <2>3. QED
    BY <2>2 DEF Dropped
<1>10. n - 0 = n /\ \A i \in 1..n : 0 + i = i
  BY <1>1
<1>11. rows = [i \in 1..n |-> data[i]]
  BY <1>9, <1>10
<1> HIDE DEF rows
<1>12. Len(rows) = n /\ \A i \in 1..n : rows[i].td = Cells(q, part[i])
  BY <1>1, <1>5, <1>11
<1>13. HtmlTable(table, dates) = [i \in 1..n |-> HtmlEntry(Cells(q, part[i]), columns, dates)]
  BY <1>4, <1>12
<1>14. \A i \in 1..n : HtmlRead(q, dates)[part[i]] = HtmlEntry(Cells(q, part[i]), columns, dates)
  BY <1>6 DEF HtmlRead, columns
<1>15. Mapped(HtmlRead(q, dates), part) = [i \in 1..n |-> HtmlEntry(Cells(q, part[i]), columns, dates)]
  BY <1>14 DEF Mapped, n
<1>16. QED
  BY <1>13, <1>15 DEF table

(* A block without a table has no entry.                                      *)
LEMMA NoTable ==
  ASSUME NEW dates
  PROVE  HtmlTable(<<>>, dates) = <<>>
<1>1. DetectColumns(<<>>) = <<>>
  BY DEF DetectColumns
<1>2. ~IsPriceTable(<<>>)
  BY DEF IsPriceTable
<1>3. QED
  BY <1>1, <1>2 DEF HtmlTable

DatesOf(q) ==
  [homologation |-> Reading[q.date].homologation, effective |-> Reading[q.date].effective]

(* A text with both dates that comes first tells the dates.                   *)
LEMMA DatesAreFound ==
  ASSUME NEW q \in Documents, NEW texts, Len(texts) \in Nat \ {0}, texts[1] = q.date
  PROVE  FirstDates(texts) = DatesOf(q)
<1> DEFINE n == Len(texts)
           h == [i \in 1..n |-> Reading[texts[i]].homologation]
           e == [i \in 1..n |-> Reading[texts[i]].effective]
           told(d) == {i \in 1..Len(d) : d[i] # None}
           homologation == FirstPicked(h, told(h))
           effective == FirstPicked(e, told(e))
<1>1. FirstDates(texts) = [homologation |-> homologation, effective |-> Or(effective, homologation)]
  BY DEF FirstDates
<1>2. /\ Len(h) = n /\ h[1] = Reading[q.date].homologation /\ h[1] # None
      /\ Len(e) = n /\ e[1] = Reading[q.date].effective /\ e[1] # None
  BY DocumentIsPublished
<1> HIDE DEF h, e, n
<1>3. ASSUME NEW d, Len(d) = n, d[1] # None PROVE FirstPicked(d, told(d)) = d[1]
  <2>1. told(d) \in SUBSET Nat /\ 1 \in told(d) /\ \A j \in told(d) : 1 <= j
    BY <1>3 DEF n
  <2> HIDE DEF told
  <2>2. QED
    BY <2>1, FirstOfPlaces
<1>4. homologation = h[1] /\ effective = e[1]
  BY <1>2, <1>3
<1> HIDE DEF homologation, effective
<1>5. Or(effective, homologation) = e[1]
  BY <1>2, <1>4 DEF Or
<1>6. QED
  BY <1>1, <1>2, <1>4, <1>5 DEF DatesOf

-----------------------------------------------------------------------------
(* Pages and trees: blocks of text and tables.                                *)

PartBlocks(q, parts) == [k \in 1..Len(parts) |-> Blocks(q, parts[k])]
DocumentBlocks(q, parts) == FlattenSeq(PartBlocks(q, parts))

\* What a part of a document consists of.
TextBlock(q) == [text |-> q.date, table |-> <<>>]
TableBlock(q, part) == [text |-> Empty, table |-> TableOf(q, part)]
BlockSet(q) == {TextBlock(q)} \cup {TableBlock(q, part) : part \in Range(q.parts)}

(* The blocks of a document, two for each part.                             *)
LEMMA BlocksOfParts ==
  ASSUME NEW q, NEW parts \in Seq(Range(q.parts)),
         NEW bb, bb = PartBlocks(q, parts)
  PROVE  /\ bb \in Seq(Seq(BlockSet(q))) /\ Len(bb) = Len(parts) /\ Len(parts) \in Nat
         /\ \A k \in 1..Len(parts) : /\ bb[k] = <<TextBlock(q), TableBlock(q, parts[k])>>
                                     /\ parts[k] \in Range(q.parts)
<1> DEFINE n == Len(parts)
           S == BlockSet(q)
<1>1. n \in Nat /\ \A k \in 1..n : parts[k] \in Range(q.parts)
  BY LenProperties, ElementOfSeq
<1>2. \A k \in 1..n : Blocks(q, parts[k]) = <<TextBlock(q), TableBlock(q, parts[k])>>
  BY DEF Blocks, TextBlock, TableBlock
<1>3. \A k \in 1..n : TextBlock(q) \in S /\ TableBlock(q, parts[k]) \in S
  BY <1>1 DEF BlockSet
<1> HIDE DEF S
<1>4. \A k \in 1..n : <<TextBlock(q), TableBlock(q, parts[k])>> \in Seq(S)
  BY <1>3
<1>5. bb = [k \in 1..n |-> Blocks(q, parts[k])]
  BY DEF PartBlocks
<1> HIDE DEF n
<1>6. bb \in [1..n -> Seq(S)]
  BY <1>2, <1>4, <1>5
<1>7. bb \in Seq(Seq(S)) /\ Len(bb) = n
  BY <1>1, <1>6
<1>8. QED
  BY <1>1, <1>2, <1>5, <1>7 DEF n, S

(* The blocks of a document begin with its date.                              *)
LEMMA DateComesFirst ==
  ASSUME NEW q, NEW parts \in Seq(Range(q.parts)), parts # <<>>
  PROVE  Len(DocumentBlocks(q, parts)) \in Nat \ {0} /\ DocumentBlocks(q, parts)[1] = TextBlock(q)
<1> DEFINE bb == PartBlocks(q, parts)
           S == BlockSet(q)
           n == Len(bb)
           rest == SubSeq(bb, 2, n)
<1>1. /\ bb \in Seq(Seq(S)) /\ n = Len(parts)
      /\ \A k \in 1..Len(parts) : bb[k] = <<TextBlock(q), TableBlock(q, parts[k])>>
  BY BlocksOfParts
<1>2. n \in Nat \ {0}
  BY <1>1, EmptySeq
<1>3. DocumentBlocks(q, parts) = FlattenSeq(bb)
  BY DEF DocumentBlocks
<1> HIDE DEF bb, S
<1>4. bb = <<bb[1]>> \o rest
  <2>1. SubSeq(bb, 1, n) = bb
    BY <1>1, SubSeqFull
  <2>2. 1 \in 1..n /\ n \in 1..n /\ 1 + 1 = 2
    BY <1>2
  <2>3. SubSeq(bb, 1, n) = <<bb[1]>> \o SubSeq(bb, 1 + 1, n)
    BY <1>1, <2>2, SubSeqRecursiveFirst
  <2>4. QED
    BY <2>1, <2>2, <2>3
<1>5. bb[1] \in Seq(S) /\ Len(bb[1]) = 2 /\ bb[1][1] = TextBlock(q)
  <2>1. 1 \in 1..n
    BY <1>2
  <2>2. bb[1] = <<TextBlock(q), TableBlock(q, parts[1])>> /\ bb[1] \in Seq(S)
    BY <1>1, <2>1, ElementOfSeq
  <2>3. QED
    BY <2>2
<1>6. rest \in Seq(Seq(S))
  <2>1. \A i \in 2..n : bb[i] \in Seq(S)
    BY <1>1, ElementOfSeq
  <2>2. n \in Int
    BY <1>2
  <2>3. QED
    BY <2>1, <2>2, SubSeqProperties
<1> HIDE DEF rest, n
<1>7. FlattenSeq(rest) \in Seq(S) /\ FlattenSeq(bb) = FlattenSeq(<<bb[1]>>) \o FlattenSeq(rest)
  <2>1. <<bb[1]>> \in Seq(Seq(S))
    BY <1>5
  <2>2. FlattenSeq(<<bb[1]>> \o rest) = FlattenSeq(<<bb[1]>>) \o FlattenSeq(rest) /\ FlattenSeq(rest) \in Seq(S)
    BY <1>6, <2>1, FlattenConcat
  <2>3. QED
    BY <1>4, <2>2
<1>8. FlattenSeq(<<bb[1]>>) = bb[1]
  BY <1>5, FlattenOne
<1>9. Len(FlattenSeq(bb)) = 2 + Len(FlattenSeq(rest)) /\ FlattenSeq(bb)[1] = bb[1][1] /\ Len(FlattenSeq(rest)) \in Nat
  <2> DEFINE a == FlattenSeq(rest)
             b == bb[1]
  <2>1. a \in Seq(S) /\ b \in Seq(S) /\ FlattenSeq(bb) = b \o a /\ Len(b) = 2
    BY <1>5, <1>7, <1>8
  <2> HIDE DEF a, b
  <2>2. /\ Len(b \o a) = Len(b) + Len(a) /\ Len(a) \in Nat
        /\ \A i \in 1..(Len(b) + Len(a)) : (b \o a)[i] = IF i <= Len(b) THEN b[i] ELSE a[i - Len(b)]
    BY <2>1, ConcatProperties, LenProperties
  <2>3. 1 \in 1..(Len(b) + Len(a)) /\ 1 <= Len(b)
    BY <2>1, <2>2
  <2>4. (b \o a)[1] = b[1]
    BY <2>2, <2>3
  <2>5. QED
    BY <2>1, <2>2, <2>4 DEF a, b
<1>10. QED
  BY <1>3, <1>5, <1>9

(* The parts of a document are sequences of its articles.                     *)
LEMMA PartsAreLists ==
  ASSUME NEW q \in Documents
  PROVE  /\ Range(q.parts) \subseteq Seq(ItemsOf(q))
         /\ q.parts \in Seq(Range(q.parts)) /\ q.parts \in Seq(Seq(ItemsOf(q)))
         /\ FlattenSeq(q.parts) \in Seq(ItemsOf(q))
<1>1. ASSUME NEW part \in Range(q.parts) PROVE part \in Seq(ItemsOf(q))
  <2>1. PICK k \in DOMAIN q.parts : part = q.parts[k]
    BY DEF Range
  <2>2. k \in 1..Len(q.parts)
    BY <2>1, DocumentIsPublished, ListHasType
  <2>3. IsList(part) /\ \A i \in 1..Len(part) : part[i] \in ItemsOf(q)
    BY <2>1, <2>2, DocumentIsPublished, PartHasItems
  <2>4. part \in Seq(Range(part)) /\ DOMAIN part = 1..Len(part)
    BY <2>3, ListHasType
  <2>5. Range(part) \subseteq ItemsOf(q)
    BY <2>3, <2>4 DEF Range
  <2>6. QED
    BY <2>4, <2>5, SeqMonotonic
<1>2. q.parts \in Seq(Range(q.parts))
  BY DocumentIsPublished, ListHasType
<1>3. q.parts \in Seq(Seq(ItemsOf(q)))
  BY <1>1, <1>2, SeqMonotonic
<1>4. QED
  BY <1>1, <1>2, <1>3, FlattenConcat

(* The tables of a document have one entry for each article, in order.        *)
LEMMA TablesAreRead ==
  ASSUME NEW q \in Documents, TypeOf(q) \in {"html", "json"},
         NEW parts \in Seq(Range(q.parts)), NEW dates,
         NEW blocks, blocks = DocumentBlocks(q, parts)
  PROVE  FlattenSeq([i \in 1..Len(blocks) |-> HtmlTable(blocks[i].table, dates)])
            = Mapped(HtmlRead(q, dates), FlattenSeq(parts))
<1> DEFINE bb == PartBlocks(q, parts)
           B == BlockSet(q)
           f == HtmlRead(q, dates)
           E == {f[item] : item \in ItemsOf(q)}
           g == [b \in B |-> HtmlTable(b.table, dates)]
           n == Len(parts)
<1>1. /\ bb \in Seq(Seq(B)) /\ Len(bb) = n /\ n \in Nat
      /\ \A k \in 1..n : bb[k] = <<TextBlock(q), TableBlock(q, parts[k])>> /\ parts[k] \in Range(q.parts)
  BY BlocksOfParts
<1>2. blocks = FlattenSeq(bb)
  BY DEF DocumentBlocks
<1>3. Range(q.parts) \subseteq Seq(ItemsOf(q)) /\ Maps(f, ItemsOf(q), E)
  <2>1. Range(q.parts) \subseteq Seq(ItemsOf(q))
    BY PartsAreLists
  <2>2. Maps(f, ItemsOf(q), E)
    BY DEF Maps
  <2> HIDE DEF f, E
  <2>3. QED
    BY <2>1, <2>2
<1>4. \A part \in Range(q.parts) : HtmlTable(TableOf(q, part), dates) = Mapped(f, part)
  <2> TAKE part \in Range(q.parts)
  <2>1. PICK k \in DOMAIN q.parts : part = q.parts[k]
    BY DEF Range
  <2>2. k \in 1..Len(q.parts)
    BY <2>1, DocumentIsPublished, ListHasType
  <2>3. QED
    BY <2>1, <2>2, HtmlTableIsRead
<1> HIDE DEF f, E
<1>5. /\ TextBlock(q) \in B /\ g[TextBlock(q)] = <<>>
      /\ \A part \in Range(q.parts) : TableBlock(q, part) \in B /\ g[TableBlock(q, part)] = Mapped(f, part)
  <2>1. TextBlock(q) \in B /\ \A part \in Range(q.parts) : TableBlock(q, part) \in B
    BY DEF BlockSet
  <2>2. TextBlock(q).table = <<>> /\ \A part : TableBlock(q, part).table = TableOf(q, part)
    BY DEF TextBlock, TableBlock
  <2> HIDE DEF B
  <2>3. QED
    BY <1>4, <2>1, <2>2, NoTable
<1>6. \A part \in Range(q.parts) : Mapped(f, part) \in Seq(E)
  BY <1>3, MappedElements
<1>7. Maps(g, B, Seq(E))
  <2> SUFFICES ASSUME NEW b \in B PROVE g[b] \in Seq(E)
    BY DEF Maps
  <2>1. b = TextBlock(q) \/ \E part \in Range(q.parts) : b = TableBlock(q, part)
    BY DEF BlockSet
  <2>2. <<>> \in Seq(E)
    OBVIOUS
  <2> HIDE DEF g
  <2>3. QED
    BY <1>5, <1>6, <2>1, <2>2
<1>8. [i \in 1..Len(blocks) |-> HtmlTable(blocks[i].table, dates)] = Mapped(g, blocks)
  <2>1. blocks \in Seq(B)
    BY <1>1, <1>2, FlattenConcat
  <2>2. \A i \in 1..Len(blocks) : g[blocks[i]] = HtmlTable(blocks[i].table, dates)
    <3>1. \A i \in 1..Len(blocks) : blocks[i] \in B
      BY <2>1, ElementOfSeq
    <3> HIDE DEF B
    <3>2. QED
      BY <3>1
  <2> HIDE DEF g
  <2>3. QED
    BY <2>2 DEF Mapped
<1> DEFINE sss == MappedEach(g, bb)
<1> HIDE DEF g, bb, B
<1>9. Mapped(g, blocks) = FlattenSeq(sss)
  BY <1>1, <1>2, <1>7, FlattenMapped
<1>10. \A k \in 1..n : Mapped(g, bb[k]) = << <<>>, Mapped(f, parts[k]) >>
  <2> TAKE k \in 1..n
  <2>1. bb[k] = <<TextBlock(q), TableBlock(q, parts[k])>> /\ parts[k] \in Range(q.parts)
    BY <1>1
  <2>2. g[TextBlock(q)] = <<>> /\ g[TableBlock(q, parts[k])] = Mapped(f, parts[k])
    BY <1>5, <2>1
  <2> DEFINE a == TextBlock(q)
             b == TableBlock(q, parts[k])
  <2> HIDE DEF a, b
  <2>3. Mapped(g, <<a, b>>) = <<g[a], g[b]>>
    <3>1. Len(<<a, b>>) = 2 /\ <<a, b>>[1] = a /\ <<a, b>>[2] = b
      OBVIOUS
    <3>2. Mapped(g, <<a, b>>) = [i \in 1..2 |-> g[<<a, b>>[i]]]
      BY <3>1 DEF Mapped
    <3>3. 1..2 = {1, 2}
      OBVIOUS
    <3>4. QED
      BY <3>1, <3>2, <3>3
  <2>4. QED
    BY <2>1, <2>2, <2>3 DEF a, b
<1>11. \A k \in 1..n : << <<>>, Mapped(f, parts[k]) >> \in Seq(Seq(E))
  <2> TAKE k \in 1..n
  <2> DEFINE x == Mapped(f, parts[k])
             T == Seq(E)
  <2>1. x \in T /\ <<>> \in T
    BY <1>1, <1>6
  <2> HIDE DEF x, T
  <2>2. << <<>>, x >> \in Seq(T)
    BY <2>1
  <2>3. QED
    BY <2>2 DEF x, T
<1>12. sss \in Seq(Seq(Seq(E))) /\ Len(sss) = n /\ \A k \in 1..n : sss[k] = << <<>>, Mapped(f, parts[k]) >>
  <2> DEFINE T == Seq(Seq(E))
  <2>1. sss = [k \in 1..n |-> Mapped(g, bb[k])]
    BY <1>1 DEF MappedEach
  <2>2. \A k \in 1..n : Mapped(g, bb[k]) \in T
    BY <1>10, <1>11
  <2> HIDE DEF T, sss, n
  <2>3. sss \in [1..n -> T] /\ \A k \in 1..n : sss[k] = Mapped(g, bb[k])
    BY <2>1, <2>2
  <2>4. n \in Nat
    BY <1>1
  <2>5. sss \in Seq(T) /\ Len(sss) = n
    BY <2>3, <2>4
  <2>6. QED
    BY <1>10, <2>3, <2>5 DEF T
<1> HIDE DEF sss
<1>13. \A k \in 1..n : FlattenSeq(sss[k]) = Mapped(f, parts[k])
  <2> TAKE k \in 1..n
  <2> DEFINE x == Mapped(f, parts[k])
  <2>1. x \in Seq(E) /\ <<>> \in Seq(E) /\ sss[k] = << <<>>, x >>
    BY <1>1, <1>6, <1>12
  <2> HIDE DEF x
  <2>2. FlattenSeq(<< <<>>, x >>) = <<>> \o x /\ <<>> \o x = x
    BY <2>1, FlattenTwo, ConcatEmptySeq
  <2>3. QED
    BY <2>1, <2>2 DEF x
<1>14. FlattenSeq(FlattenSeq(sss)) = FlattenSeq([k \in 1..Len(sss) |-> FlattenSeq(sss[k])])
  BY <1>12, FlattenTwice
<1>15. [k \in 1..Len(sss) |-> FlattenSeq(sss[k])] = MappedEach(f, parts)
  BY <1>12, <1>13 DEF MappedEach
<1>16. FlattenSeq(MappedEach(f, parts)) = Mapped(f, FlattenSeq(parts))
  <2>1. parts \in Seq(Seq(ItemsOf(q)))
    BY <1>3, SeqMonotonic
  <2>2. QED
    BY <1>3, <2>1, FlattenMapped
<1>17. QED
  BY <1>8, <1>9, <1>14, <1>15, <1>16 DEF f

(* An HTML page, and the articles of a tree, give the articles of the list.   *)
LEMMA LegifranceIsRead ==
  ASSUME NEW q \in Documents, TypeOf(q) \in {"html", "json"}, NEW parts \in Seq(Range(q.parts)),
         NEW blocks, blocks = DocumentBlocks(q, parts)
  PROVE  LegifranceHtml(blocks) = Mapped(HtmlRead(q, DatesOf(q)), FlattenSeq(parts))
<1> DEFINE preamble == IF Len(blocks) <= Preamble THEN blocks ELSE SubSeq(blocks, 1, Preamble)
           texts == [i \in 1..Len(preamble) |-> preamble[i].text]
           dates == FirstDates(texts)
<1>1. LegifranceHtml(blocks) = FlattenSeq([i \in 1..Len(blocks) |-> HtmlTable(blocks[i].table, dates)])
  BY DEF LegifranceHtml
<1> HIDE DEF dates
<1>2. LegifranceHtml(blocks) = Mapped(HtmlRead(q, dates), FlattenSeq(parts))
  BY <1>1, TablesAreRead
<1>3. CASE parts = <<>>
  <2>1. FlattenSeq(<<>>) = <<>>
    BY DEF FlattenSeq
  <2>2. \A f : Mapped(f, <<>>) = <<>>
    BY DEF Mapped
  <2>3. QED
    BY <1>2, <1>3, <2>1, <2>2
<1>4. CASE parts # <<>>
  <2>1. Len(blocks) \in Nat \ {0} /\ blocks[1] = TextBlock(q)
    BY <1>4, DateComesFirst
  <2>2. Preamble \in Nat \ {0}
    BY DocumentsArePublished
  <2>3. Len(preamble) \in Nat \ {0} /\ preamble[1] = TextBlock(q)
    <3>1. CASE Len(blocks) <= Preamble
      BY <2>1, <3>1
    <3>2. CASE ~(Len(blocks) <= Preamble)
      <4>1. preamble = SubSeq(blocks, 1, Preamble)
        BY <3>2
      <4>2. \A i \in 1..Preamble : blocks[i] \in {blocks[j] : j \in 1..Len(blocks)}
        BY <2>1, <2>2, <3>2
      <4>3. /\ Len(SubSeq(blocks, 1, Preamble)) = Preamble - 1 + 1
            /\ \A i \in 1..Preamble - 1 + 1 : SubSeq(blocks, 1, Preamble)[i] = blocks[1 + i - 1]
        BY <2>2, <4>2, SubSeqProperties
      <4>4. 1 \in 1..Preamble - 1 + 1 /\ 1 + 1 - 1 = 1 /\ Preamble - 1 + 1 = Preamble
        BY <2>2
      <4>5. QED
        BY <2>1, <2>2, <4>1, <4>3, <4>4
    <3>3. QED
      BY <3>1, <3>2
  <2> HIDE DEF preamble
  <2>4. Len(texts) \in Nat \ {0} /\ texts[1] = q.date
    <3>1. TextBlock(q).text = q.date
      BY DEF TextBlock
    <3>2. Len(texts) = Len(preamble) /\ texts[1] = preamble[1].text
      BY <2>3
    <3>3. QED
      BY <2>3, <3>1, <3>2
  <2> HIDE DEF texts
  <2>5. dates = DatesOf(q)
    BY <2>4, DatesAreFound DEF dates
  <2>6. QED
    BY <1>2, <2>5
<1>5. QED
  BY <1>3, <1>4

-----------------------------------------------------------------------------
(* Pages of a PDF.                                                          *)

(* A table of a PDF is its header and then the articles.                    *)
LEMMA PdfTableRows ==
  ASSUME NEW q, NEW part, IsList(part)
  PROVE  /\ Len(PdfTableOf(q, part)) = Len(part) + 1
         /\ PdfTableOf(q, part)[1] = Heads(q)
         /\ \A i \in 1..Len(part) : PdfTableOf(q, part)[1 + i] = Cells(q, part[i])
<1> DEFINE n == Len(part)
           row(i) == IF i = 1 THEN Heads(q) ELSE Cells(q, part[i - 1])
<1>1. n \in Nat
  BY ListHasType
<1>2. PdfTableOf(q, part) = [i \in 1..n + 1 |-> row(i)]
  BY DEF PdfTableOf
<1>3. row(1) = Heads(q)
  OBVIOUS
<1>4. \A i \in 1..n : row(1 + i) = Cells(q, part[i])
  <2> TAKE i \in 1..n
  <2>1. 1 + i # 1 /\ (1 + i) - 1 = i
    BY <1>1
  <2>2. QED
    BY <2>1
<1> HIDE DEF row, n
<1>5. 1 \in 1..n + 1 /\ \A i \in 1..n : 1 + i \in 1..n + 1
  BY <1>1
<1>6. Len(PdfTableOf(q, part)) = n + 1
  BY <1>1, <1>2
<1>7. QED
  BY <1>2, <1>3, <1>4, <1>5, <1>6 DEF n

(* A table of a PDF has one entry for each article of its part.               *)
LEMMA PdfTableIsRead ==
  ASSUME NEW q \in Documents, TypeOf(q) = "pdf", NEW k \in 1..Len(q.parts), NEW dates
  PROVE  PdfRows(PdfTableOf(q, q.parts[k]), dates) = Mapped(PdfRead(q, dates), q.parts[k])
<1> DEFINE part == q.parts[k]
           n == Len(part)
           table == PdfTableOf(q, part)
           columns == ColumnsOf(q)
           I == {i \in 2..Len(table) : HasEntry(table[i], columns)}
           rows == Picked(table, I)
<1>1. IsLayout(q) /\ IsList(part) /\ n \in Nat
  BY DocumentIsPublished
<1>2. /\ Len(table) = n + 1 /\ table[1] = Heads(q)
      /\ \A i \in 1..n : table[1 + i] = Cells(q, part[i])
  BY <1>1, PdfTableRows
<1>3. RolesOf(q) = PdfRoles
  BY DEF RolesOf
<1>4. columns = ColumnsFromCells(table[1], PdfRoles)
  BY <1>2, <1>3 DEF ColumnsOf
<1>5. IsPriceTable(columns)
  <2>1. "price" \in DOMAIN columns /\ "product" \in DOMAIN columns
    BY <1>1, <1>3, ColumnOfRole DEF PdfRoles, IsLayout
  <2> HIDE DEF columns
  <2>2. QED
    BY <2>1 DEF IsPriceTable
<1>6. table # <<>>
  BY <1>1, <1>2
<1>7. PdfRows(table, dates) = [i \in 1..Len(rows) |-> PdfEntry(rows[i], columns, dates)]
  <2> HIDE DEF table, columns
  <2>1. QED
    BY <1>4, <1>5, <1>6 DEF PdfRows
<1>8. \A i \in 1..n : part[i] \in ItemsOf(q)
  BY PartHasItems
<1>9. \A i \in 1..n : HasEntry(Cells(q, part[i]), columns)
  BY <1>1, <1>8, ItemsAreArticles, PdfEntryMatches
<1> HIDE DEF table, columns, n
<1>10. I = 2..(n + 1)
  <2>1. \A i \in 2..(n + 1) : i - 1 \in 1..n /\ 1 + (i - 1) = i
    BY <1>1
  <2>2. \A i \in 2..(n + 1) : HasEntry(table[i], columns)
    <3> TAKE i \in 2..(n + 1)
    <3>1. table[1 + (i - 1)] = Cells(q, part[i - 1])
      BY <1>2, <2>1
    <3>2. QED
      BY <1>9, <2>1, <3>1
  <2>3. QED
    BY <1>2, <2>2
<1> HIDE DEF I
<1>11. rows = [i \in 1..((n + 1) - 1) |-> table[1 + i]]
  <2>1. 1 \in 0..(n + 1) /\ n + 1 \in Nat /\ I = (1 + 1)..(n + 1)
    BY <1>1, <1>10
  <2>2. Picked(table, I) = Dropped(table, 1, n + 1)
    BY <1>2, <2>1, PickedFrom
  <2>3. QED
    BY <2>2 DEF Dropped
<1> HIDE DEF rows
<1>12. Len(rows) = n /\ \A i \in 1..n : rows[i] = Cells(q, part[i])
  <2>1. (n + 1) - 1 = n
    BY <1>1
  <2>2. rows = [i \in 1..n |-> table[1 + i]]
    BY <1>11, <2>1
  <2>3. Len(rows) = n /\ \A i \in 1..n : rows[i] = table[1 + i]
    BY <1>1, <2>2
  <2>4. QED
    BY <1>2, <2>3
<1>13. PdfRows(table, dates) = [i \in 1..n |-> PdfEntry(Cells(q, part[i]), columns, dates)]
  BY <1>7, <1>12
<1>14. \A i \in 1..n : PdfRead(q, dates)[part[i]] = PdfEntry(Cells(q, part[i]), columns, dates)
  BY <1>8 DEF PdfRead, columns
<1>15. Mapped(PdfRead(q, dates), part) = [i \in 1..n |-> PdfEntry(Cells(q, part[i]), columns, dates)]
  BY <1>14 DEF Mapped, n
<1>16. QED
  BY <1>13, <1>15 DEF table

(* A PDF gives the articles of its list, in order.                          *)
LEMMA PdfIsRead ==
  ASSUME NEW q \in Documents, TypeOf(q) = "pdf"
  PROVE  PdfTable(PdfPages(q)) = Mapped(PdfRead(q, DatesOf(q)), FlattenSeq(q.parts))
<1> DEFINE pages == PdfPages(q)
           n == Len(q.parts)
           table(k) == PdfTableOf(q, q.parts[k])
           dates == FirstDates(IF pages = <<>> THEN <<>> ELSE pages[1].texts)
           tables == FlattenSeq([i \in 1..Len(pages) |-> pages[i].tables])
           all == [k \in 1..n |-> table(k)]
<1>1. n \in Nat
  BY DocumentIsPublished
<1>2. PdfTable(pages) = FlattenSeq([i \in 1..Len(tables) |-> PdfRows(tables[i], dates)])
  BY DEF PdfTable
<1>3. Len(pages) = n /\ \A k \in 1..n : pages[k].texts = <<q.date>> /\ pages[k].tables = <<table(k)>>
  BY <1>1 DEF PdfPages
<1>4. all \in Seq({table(k) : k \in 1..n}) /\ Len(all) = n /\ \A k \in 1..n : all[k] = table(k)
  BY <1>1
<1> HIDE DEF pages, dates
<1>5. tables = all
  <2> HIDE DEF all, table
  <2>1. FlattenSeq([k \in 1..Len(all) |-> <<all[k]>>]) = all
    BY <1>4, FlattenSingles
  <2>2. [k \in 1..Len(all) |-> <<all[k]>>] = [i \in 1..Len(pages) |-> pages[i].tables]
    BY <1>3, <1>4
  <2>3. QED
    BY <2>1, <2>2
<1> HIDE DEF tables
<1>6. \A k \in 1..n : PdfRows(table(k), dates) = Mapped(PdfRead(q, dates), q.parts[k])
  BY PdfTableIsRead
<1> HIDE DEF all, table
<1> DEFINE f == PdfRead(q, dates)
<1> HIDE DEF f
<1>7. [i \in 1..Len(tables) |-> PdfRows(tables[i], dates)] = MappedEach(f, q.parts)
  BY <1>4, <1>5, <1>6 DEF MappedEach, f
<1>8. FlattenSeq(MappedEach(f, q.parts)) = Mapped(f, FlattenSeq(q.parts))
  <2>1. Maps(f, ItemsOf(q), {f[item] : item \in ItemsOf(q)})
    BY DEF Maps
  <2>2. QED
    BY <2>1, PartsAreLists, FlattenMapped
<1>9. PdfTable(pages) = Mapped(f, FlattenSeq(q.parts))
  BY <1>2, <1>7, <1>8
<1>10. CASE n = 0
  <2>1. q.parts = <<>>
    BY <1>10, PartsAreLists, EmptySeq
  <2>2. FlattenSeq(<<>>) = <<>>
    BY DEF FlattenSeq
  <2>3. \A g : Mapped(g, <<>>) = <<>>
    BY DEF Mapped
  <2>4. QED
    BY <1>9, <2>1, <2>2, <2>3 DEF pages
<1>11. CASE n # 0
  <2>1. 1 \in 1..n /\ pages # <<>>
    BY <1>1, <1>3, <1>11
  <2>2. Len(<<q.date>>) \in Nat \ {0} /\ <<q.date>>[1] = q.date
    OBVIOUS
  <2>3. FirstDates(<<q.date>>) = DatesOf(q)
    BY <2>2, DatesAreFound
  <2>4. dates = DatesOf(q)
    BY <1>3, <2>1, <2>3 DEF dates
  <2>5. QED
    BY <1>9, <2>4 DEF pages, f
<1>12. QED
  BY <1>10, <1>11

(* Flattening sequences of five: where each element stands.                   *)
LEMMA FlattenFives ==
  ASSUME NEW S, NEW tt \in Seq(Seq(S)), \A k \in 1..Len(tt) : Len(tt[k]) = 5
  PROVE  /\ FlattenSeq(tt) \in Seq(S) /\ Len(FlattenSeq(tt)) = 5 * Len(tt)
         /\ \A k \in 1..Len(tt) : \A j \in 1..5 : FlattenSeq(tt)[5 * (k - 1) + j] = tt[k][j]
<1> DEFINE Fives == {s \in Seq(S) : Len(s) = 5}
           Stands(ss) == /\ Len(FlattenSeq(ss)) = 5 * Len(ss)
                         /\ \A k \in 1..Len(ss) : \A j \in 1..5 : FlattenSeq(ss)[5 * (k - 1) + j] = ss[k][j]
           G == {ss \in Seq(Fives) : Stands(ss)}
<1>1. Fives \subseteq Seq(S)
  OBVIOUS
<1>2. <<>> \in Seq(Fives) /\ Len(<<>>) = 0 /\ FlattenSeq(<<>>) = <<>>
  BY DEF FlattenSeq
<1>3. <<>> \in G
  BY <1>2
<1>4. ASSUME NEW ss \in Seq(Fives), NEW s \in Fives, ss \in G PROVE Append(ss, s) \in G
  <2> DEFINE a == Append(ss, s)
             f == FlattenSeq(ss)
             n == Len(ss)
  <2>1. a \in Seq(Fives) /\ Len(a) = n + 1 /\ a[n + 1] = s /\ n \in Nat /\ \A k \in 1..n : a[k] = ss[k]
    BY AppendProperties, LenProperties
  <2>2. s \in Seq(S) /\ Len(s) = 5 /\ ss \in Seq(Seq(S))
    BY <1>1, SeqMonotonic
  <2>3. f \in Seq(S) /\ FlattenSeq(a) = f \o s
    BY <2>2, FlattenAppend
  <2>4. Len(f) = 5 * n /\ \A k \in 1..n : \A j \in 1..5 : f[5 * (k - 1) + j] = ss[k][j]
    BY <1>4
  <2> HIDE DEF a, f, n, Fives
  <2>5. /\ Len(f \o s) = Len(f) + Len(s)
        /\ \A i \in 1..(Len(f) + Len(s)) : (f \o s)[i] = IF i <= Len(f) THEN f[i] ELSE s[i - Len(f)]
    BY <2>2, <2>3, ConcatProperties
  <2>6. Len(FlattenSeq(a)) = 5 * Len(a)
    BY <2>1, <2>2, <2>3, <2>4, <2>5
  <2>7. ASSUME NEW k \in 1..Len(a), NEW j \in 1..5 PROVE FlattenSeq(a)[5 * (k - 1) + j] = a[k][j]
    <3>1. k \in Nat /\ 5 * (k - 1) + j \in 1..(5 * n + 5)
      BY <2>1
    <3>2. CASE k = n + 1
      <4>1. 5 * (k - 1) + j = 5 * n + j /\ ~(5 * n + j <= 5 * n) /\ (5 * n + j) - 5 * n = j
        BY <2>1, <3>2
      <4>2. (f \o s)[5 * (k - 1) + j] = s[j]
        BY <2>2, <2>4, <2>5, <3>1, <4>1, SMTT(30)
      <4>3. QED
        BY <2>1, <2>3, <3>2, <4>2
    <3>3. CASE k # n + 1
      <4>1. k \in 1..n /\ 5 * (k - 1) + j <= 5 * n
        BY <2>1, <3>1, <3>3
      <4>2. (f \o s)[5 * (k - 1) + j] = f[5 * (k - 1) + j]
        BY <2>2, <2>4, <2>5, <3>1, <4>1
      <4>3. QED
        BY <2>1, <2>3, <2>4, <4>1, <4>2
    <3>4. QED
      BY <3>2, <3>3
  <2>8. QED
    BY <2>1, <2>6, <2>7 DEF a
<1> HIDE DEF G
<1>5. Seq(Fives) \subseteq G
  <2> HIDE DEF Fives
  <2>1. QED
    BY <1>3, <1>4, AppendInduction
<1>6. tt \in Seq(Fives)
  <2>1. \A k \in 1..Len(tt) : tt[k] \in Fives
    BY ElementOfSeq
  <2>2. Len(tt) \in Nat /\ DOMAIN tt = 1..Len(tt)
    BY LenProperties
  <2> HIDE DEF Fives
  <2>3. QED
    BY <2>1, <2>2, SeqOfValues
<1>7. tt \in G
  BY <1>5, <1>6
<1>8. QED
  BY <1>7, FlattenConcat DEF G

-----------------------------------------------------------------------------
(* Rows of a spreadsheet.                                                   *)

IsRow(row, text) == Len(row) = 16 /\ row[1] = text /\ \A i \in 2..16 : row[i] = Empty

\* The cells of a row, each as often as it stands for a column.
Spread(cells) ==
  FlattenSeq([i \in 1..Len(cells) |->
                [j \in 1..(IF cells[i].repeat > MaxRepeat THEN 1 ELSE cells[i].repeat) |-> cells[i].text]])

(* The columns of a row, cut after the sixteenth.                           *)
LEMMA RowIsSpread ==
  ASSUME NEW cells
  PROVE  RowCells(cells) = IF Len(Spread(cells)) <= MaxColumns THEN Spread(cells)
                           ELSE SubSeq(Spread(cells), 1, MaxColumns)
BY DEF RowCells, Spread

(* A text and fifteen blank cells.                                          *)
Filling(a, b, c, text) ==
  Len(a) = 1 /\ Len(b) = 1 /\ Len(c) = 14 /\ a[1] = text /\ b[1] = Empty /\ \A i \in 1..14 : c[i] = Empty

(* Such a row has sixteen columns, the first of which is the text.          *)
LEMMA FilledRow ==
  ASSUME NEW text, NEW S, NEW a \in Seq(S), NEW b \in Seq(S), NEW c \in Seq(S), Filling(a, b, c, text)
  PROVE  FlattenSeq(<<a, b, c>>) \in Seq(S) /\ IsRow(FlattenSeq(<<a, b, c>>), text)
<1> DEFINE row == FlattenSeq(<<a, b, c>>)
<1>1. /\ row \in Seq(S) /\ Len(row) = Len(a) + Len(b) + Len(c)
      /\ \A i \in 1..Len(a) : row[i] = a[i]
      /\ \A i \in 1..Len(b) : row[Len(a) + i] = b[i]
      /\ \A i \in 1..Len(c) : row[Len(a) + Len(b) + i] = c[i]
  BY ThreeParts, SMTT(30)
<1> HIDE DEF row
<1>2. Len(a) = 1 /\ Len(b) = 1 /\ Len(c) = 14 /\ a[1] = text /\ b[1] = Empty /\ \A i \in 1..14 : c[i] = Empty
  BY DEF Filling
<1>3. /\ row \in Seq(S) /\ Len(row) = 16 /\ row[1] = text /\ row[2] = Empty
      /\ \A i \in 1..14 : row[2 + i] = Empty
  BY <1>1, <1>2
<1>4. \A i \in 2..16 : row[i] = Empty
  <2> TAKE i \in 2..16
  <2>1. i = 2 \/ (i - 2 \in 1..14 /\ 2 + (i - 2) = i)
    OBVIOUS
  <2>2. QED
    BY <1>3, <2>1
<1>5. QED
  BY <1>3, <1>4 DEF IsRow, row

(* A text that stands alone in its row.                                      *)
LEMMA RowOfText ==
  ASSUME NEW text
  PROVE  IsRow(RowCells(Filled(text)), text)
<1> DEFINE S == {text, Empty}
           cells == Filled(text)
           a == [j \in 1..1 |-> text]
           b == [j \in 1..1 |-> Empty]
           c == [j \in 1..14 |-> Empty]
           times(i) == IF cells[i].repeat > MaxRepeat THEN 1 ELSE cells[i].repeat
           columns == [i \in 1..Len(cells) |-> [j \in 1..times(i) |-> cells[i].text]]
<1>1. /\ Len(cells) = 3 /\ cells[1] = [text |-> text, repeat |-> 1]
      /\ cells[2] = [text |-> Empty, repeat |-> 300] /\ cells[3] = [text |-> Empty, repeat |-> 14]
  BY DEF Filled, OneCell
<1> HIDE DEF cells
<1>2. times(1) = 1 /\ times(2) = 1 /\ times(3) = 14
  BY <1>1 DEF MaxRepeat
<1>3. columns = [i \in 1..3 |-> [j \in 1..times(i) |-> cells[i].text]]
  BY <1>1
<1> HIDE DEF times
<1>4. columns[1] = a /\ columns[2] = b /\ columns[3] = c /\ Len(columns) = 3
  BY <1>1, <1>2, <1>3
<1>5. a \in Seq(S) /\ b \in Seq(S) /\ c \in Seq(S)
  OBVIOUS
<1>6. Filling(a, b, c, text)
  BY DEF Filling
<1>7. Spread(cells) = FlattenSeq(columns)
  BY DEF Spread, columns, times
<1> DEFINE columnsAre == columns = <<a, b, c>>
<1>8. columnsAre
  <2>1. columns = [i \in 1..3 |-> columns[i]]
    BY <1>3
  <2> HIDE DEF columns, a, b, c
  <2>2. <<a, b, c>> = [i \in 1..3 |-> <<a, b, c>>[i]]
    OBVIOUS
  <2>3. \A i \in 1..3 : i = 1 \/ i = 2 \/ i = 3
    OBVIOUS
  <2>4. \A i \in 1..3 : columns[i] = <<a, b, c>>[i]
    BY <1>4, <2>3
  <2>5. QED
    BY <2>1, <2>2, <2>4
<1> HIDE DEF columns, a, b, c, S
<1>9. FlattenSeq(<<a, b, c>>) \in Seq(S) /\ IsRow(FlattenSeq(<<a, b, c>>), text)
  BY <1>5, <1>6, FilledRow
<1>10. IsRow(Spread(cells), text)
  BY <1>7, <1>8, <1>9
<1>11. RowCells(cells) = Spread(cells)
  <2>1. Len(Spread(cells)) <= MaxColumns
    BY <1>10 DEF IsRow, MaxColumns
  <2>2. QED
    BY <2>1, RowIsSpread
<1>12. QED
  BY <1>10, <1>11 DEF cells

(* A blank row.                                                             *)
LEMMA RowOfNothing ==
  RowCells(<< [text |-> Empty, repeat |-> 300] >>) = <<Empty>>
<1> DEFINE cells == << [text |-> Empty, repeat |-> 300] >>
           a == [j \in 1..1 |-> Empty]
           times(i) == IF cells[i].repeat > MaxRepeat THEN 1 ELSE cells[i].repeat
           columns == [i \in 1..Len(cells) |-> [j \in 1..times(i) |-> cells[i].text]]
<1>1. Len(cells) = 1 /\ cells[1].text = Empty /\ cells[1].repeat = 300
  OBVIOUS
<1> HIDE DEF cells
<1>2. times(1) = 1
  BY <1>1 DEF MaxRepeat
<1>3. Spread(cells) = FlattenSeq(columns)
  BY DEF Spread
<1> HIDE DEF times
<1>4. columns = <<a>>
  <2>1. columns = [i \in 1..1 |-> [j \in 1..times(i) |-> cells[i].text]]
    BY <1>1
  <2>2. \A i \in 1..1 : i = 1
    OBVIOUS
  <2>3. columns = [i \in 1..1 |-> [j \in 1..1 |-> Empty]]
    BY <1>1, <1>2, <2>1, <2>2
  <2>4. [i \in 1..1 |-> a] = <<a>>
    OBVIOUS
  <2>5. QED
    BY <2>3, <2>4
<1>5. a \in Seq({Empty}) /\ a = <<Empty>>
  OBVIOUS
<1> HIDE DEF columns, a
<1>6. FlattenSeq(<<a>>) = a
  BY <1>5, FlattenOne
<1>7. Spread(cells) = <<Empty>> /\ Len(<<Empty>>) <= MaxColumns
  BY <1>3, <1>4, <1>5, <1>6 DEF MaxColumns
<1>8. QED
  BY <1>7, RowIsSpread DEF cells

(* A row of six cells.                                                      *)
LEMMA RowOfSix ==
  ASSUME NEW S, NEW texts \in Seq(S), Len(texts) = 6,
         NEW cells, Len(cells) = 6, \A i \in 1..6 : cells[i] = OneCell(texts[i])
  PROVE  RowCells(cells) = texts
<1> DEFINE times(i) == IF cells[i].repeat > MaxRepeat THEN 1 ELSE cells[i].repeat
           columns == [i \in 1..Len(cells) |-> [j \in 1..times(i) |-> cells[i].text]]
<1>1. \A i \in 1..6 : cells[i].text = texts[i] /\ cells[i].repeat = 1
  BY DEF OneCell
<1>2. \A i \in 1..6 : times(i) = 1
  BY <1>1 DEF MaxRepeat
<1>3. Spread(cells) = FlattenSeq(columns)
  BY DEF Spread
<1> HIDE DEF times
<1>4. columns = [i \in 1..6 |-> <<texts[i]>>]
  <2>1. \A t : [j \in 1..1 |-> t] = <<t>>
    OBVIOUS
  <2>2. \A i \in 1..6 : [j \in 1..times(i) |-> cells[i].text] = <<texts[i]>>
    <3> TAKE i \in 1..6
    <3>1. [j \in 1..times(i) |-> cells[i].text] = [j \in 1..1 |-> texts[i]]
      BY <1>1, <1>2
    <3>2. QED
      BY <2>1, <3>1
  <2>3. QED
    BY <2>2
<1> HIDE DEF columns
<1>5. FlattenSeq([i \in 1..Len(texts) |-> <<texts[i]>>]) = texts
  BY FlattenSingles
<1>6. Spread(cells) = texts /\ Len(texts) <= MaxColumns
  BY <1>3, <1>4, <1>5 DEF MaxColumns
<1>7. QED
  BY <1>6, RowIsSpread

(* A sheet is read row by row.                                              *)
ReadUpTo(f, sheet, m) ==
  /\ f = [n \in 0..m |-> f[n]] /\ f[0] = NothingRead
  /\ \A n \in 1..m : f[n] = OdsRow(f[n - 1], RowCells(sheet[n]))

(* The recursive function of the extractor exists.                          *)
LEMMA SheetIsReadByRow ==
  ASSUME NEW sheet, Len(sheet) \in Nat
  PROVE  \E f : ReadUpTo(f, sheet, Len(sheet)) /\ DouaneOds(sheet) = f[Len(sheet)].out
<1> DEFINE len == Len(sheet)
           Step(s, n) == OdsRow(s, RowCells(sheet[n]))
           Body(f) == [n \in 0..len |-> IF n = 0 THEN NothingRead ELSE Step(f[n - 1], n)]
           after == CHOOSE f : f = Body(f)
           T == {m \in 0..len : \E f : ReadUpTo(f, sheet, m)}
<1>1. len \in Nat /\ DouaneOds(sheet) = after[len].out
  BY DEF DouaneOds
<1> HIDE DEF len
<1>2. 0 \in T
  <2> DEFINE f == [n \in 0..0 |-> NothingRead]
  <2>1. f = [n \in 0..0 |-> f[n]] /\ f[0] = NothingRead /\ \A n \in 1..0 : FALSE
    OBVIOUS
  <2> HIDE DEF f
  <2>2. ReadUpTo(f, sheet, 0)
    BY <2>1 DEF ReadUpTo
  <2>3. QED
    BY <1>1, <2>2
<1>3. ASSUME NEW m \in 1..len, m - 1 \in T PROVE m \in T
  <2>1. PICK f : ReadUpTo(f, sheet, m - 1)
    BY <1>3
  <2> DEFINE last == Step(f[m - 1], m)
             g == [n \in 0..m |-> IF n < m THEN f[n] ELSE last]
  <2> HIDE DEF last
  <2>2. m \in Nat /\ 0 \in 0..m /\ 0 < m /\ m \in 0..m /\ ~(m < m)
    BY <1>1
  <2>3. g = [n \in 0..m |-> g[n]] /\ g[0] = f[0] /\ g[m] = last /\ \A n \in 0..(m - 1) : g[n] = f[n]
    BY <2>2
  <2> HIDE DEF g
  <2>4. ASSUME NEW n \in 1..m PROVE g[n] = Step(g[n - 1], n)
    <3>1. n - 1 \in 0..(m - 1)
      BY <2>2
    <3>2. g[n - 1] = f[n - 1]
      BY <2>3, <3>1
    <3>3. CASE n = m
      BY <2>3, <3>2, <3>3 DEF last
    <3>4. CASE n # m
      <4>1. n \in 1..(m - 1) /\ n \in 0..(m - 1)
        BY <2>2, <3>4
      <4>2. f[n] = Step(f[n - 1], n)
        BY <2>1, <4>1 DEF ReadUpTo
      <4>3. QED
        BY <2>3, <3>2, <4>1, <4>2
    <3>5. QED
      BY <3>3, <3>4
  <2>5. g[0] = NothingRead
    BY <2>1, <2>3 DEF ReadUpTo
  <2>6. ReadUpTo(g, sheet, m)
    BY <2>3, <2>4, <2>5 DEF ReadUpTo
  <2>7. QED
    BY <1>1, <2>6
<1> HIDE DEF T
<1>4. 0..len \subseteq T
  BY <1>1, <1>2, <1>3, InductionUpTo
<1>5. PICK g : ReadUpTo(g, sheet, len)
  BY <1>1, <1>4 DEF T
<1>6. g = Body(g)
  <2> HIDE DEF Step
  <2>1. g = [n \in 0..len |-> g[n]] /\ g[0] = NothingRead /\ \A n \in 1..len : g[n] = Step(g[n - 1], n)
    BY <1>5 DEF ReadUpTo, Step
  <2>2. \A n \in 0..len : g[n] = IF n = 0 THEN NothingRead ELSE Step(g[n - 1], n)
    <3> TAKE n \in 0..len
    <3>1. n = 0 \/ (n # 0 /\ n \in 1..len)
      BY <1>1
    <3>2. QED
      BY <2>1, <3>1
  <2>3. QED
    BY <2>1, <2>2
<1>7. after = Body(after)
  BY <1>6
<1> HIDE DEF after
<1>8. ReadUpTo(after, sheet, len)
  <2> HIDE DEF Step
  <2>1. /\ Body(after) = [n \in 0..len |-> Body(after)[n]]
        /\ \A n \in 0..len : Body(after)[n] = IF n = 0 THEN NothingRead ELSE Step(after[n - 1], n)
    OBVIOUS
  <2> HIDE DEF Body
  <2>2. /\ after = [n \in 0..len |-> after[n]]
        /\ \A n \in 0..len : after[n] = IF n = 0 THEN NothingRead ELSE Step(after[n - 1], n)
    BY <1>7, <2>1
  <2>3. after[0] = NothingRead
    BY <1>1, <2>2
  <2>4. \A n \in 1..len : after[n] = Step(after[n - 1], n)
    <3> TAKE n \in 1..len
    <3>1. n \in 0..len /\ n # 0
      BY <1>1
    <3>2. QED
      BY <2>2, <3>1
  <2>5. QED
    BY <2>2, <2>3, <2>4 DEF ReadUpTo, Step
<1>9. QED
  BY <1>1, <1>8 DEF len

-----------------------------------------------------------------------------
(* One row after another.                                                   *)

\* The state once the dates are known.
Dated(q, maker, category, out) ==
  [maker |-> maker, category |-> category, homologation |-> DatesOf(q).homologation,
   effective |-> DatesOf(q).effective, out |-> out]
DatedBy(s, row) ==
  [s EXCEPT !.homologation = Or(@, Reading[row[1]].homologation),
            !.effective = Or(@, Reading[row[1]].effective)]
IsSeen(s, entry) == \E i \in 1..Len(s.out) : SameKey(s.out[i], entry)

(* What a row does to the state depends on what its first text is.          *)
LEMMA RowByKind ==
  ASSUME NEW s, NEW row
  PROVE  OdsRow(s, row) =
            IF IsBlank(row) THEN s
            ELSE IF Reading[row[1]].supplier THEN DatedBy(s, row)
            ELSE IF Reading[row[1]].maker # None
                 THEN [DatedBy(s, row) EXCEPT !.maker = Reading[row[1]].maker, !.category = None]
            ELSE IF row[1] # Empty /\ Alone(row)
                 THEN IF Reading[row[1]].repeat THEN DatedBy(s, row) ELSE [DatedBy(s, row) EXCEPT !.category = row[1]]
            ELSE IF OdsEntry(row, DatedBy(s, row)).price = None \/ s.maker = None
                    \/ IsSeen(s, OdsEntry(row, DatedBy(s, row)))
                 THEN DatedBy(s, row)
            ELSE [DatedBy(s, row) EXCEPT !.out = Append(@, OdsEntry(row, DatedBy(s, row)))]
BY DEF OdsRow, DatedBy, IsSeen

(* The first dates stay.                                                    *)
LEMMA DatesStay ==
  ASSUME NEW q \in Documents, NEW maker, NEW category, NEW out, NEW row
  PROVE  DatedBy(Dated(q, maker, category, out), row) = Dated(q, maker, category, out)
<1>1. DatesOf(q).homologation # None /\ DatesOf(q).effective # None
  BY DocumentIsPublished DEF DatesOf
<1> DEFINE h == DatesOf(q).homologation
           e == DatesOf(q).effective
<1>2. Or(h, Reading[row[1]].homologation) = h /\ Or(e, Reading[row[1]].effective) = e
  BY <1>1 DEF Or
<1> HIDE DEF h, e
<1>3. Dated(q, maker, category, out)
        = [maker |-> maker, category |-> category, homologation |-> h, effective |-> e, out |-> out]
  BY DEF Dated, h, e
<1> DEFINE s == [maker |-> maker, category |-> category, homologation |-> h, effective |-> e, out |-> out]
           t == DatedBy(s, row)
<1>4. t = [s EXCEPT !.homologation = h, !.effective = e]
  BY <1>2 DEF DatedBy
<1> HIDE DEF t
<1>5. t = s
  BY <1>4
<1>6. QED
  BY <1>3, <1>5 DEF t

(* A text alone in its row is not blank.                                    *)
LEMMA TextStandsAlone ==
  ASSUME NEW row, NEW text, IsRow(row, text), text # Empty
  PROVE  row[1] = text /\ Alone(row) /\ ~IsBlank(row)
<1>1. row[1] = text /\ \A i \in 2..6 : row[i] = Empty
  BY DEF IsRow
<1>2. row # <<>>
  <2>1. Len(row) = 16
    BY DEF IsRow
  <2>2. QED
    BY <2>1, SMTT(30)
<1>3. QED
  BY <1>1, <1>2 DEF Alone, IsBlank

(* The row of the date tells both dates.                                    *)
LEMMA DateRow ==
  ASSUME NEW q \in Documents, IsSheet(q), NEW row, IsRow(row, q.date)
  PROVE  \E category : OdsRow(NothingRead, row) = Dated(q, None, category, <<>>)
<1>1. IsNoMaker(q.date) /\ q.date # Empty
  BY DEF IsSheet
<1>2. row[1] = q.date /\ Alone(row) /\ ~IsBlank(row)
  BY <1>1, TextStandsAlone
<1>3. DatedBy(NothingRead, row) = Dated(q, None, None, <<>>)
  <2>1. Or(None, Reading[row[1]].homologation) = DatesOf(q).homologation
    BY <1>2 DEF Or, DatesOf
  <2>2. Or(None, Reading[row[1]].effective) = DatesOf(q).effective
    BY <1>2 DEF Or, DatesOf
  <2> DEFINE h == DatesOf(q).homologation
             e == DatesOf(q).effective
  <2> HIDE DEF h, e
  <2> DEFINE t == DatedBy(NothingRead, row)
  <2>3. NothingRead.homologation = None /\ NothingRead.effective = None
    BY DEF NothingRead
  <2>4. t = [NothingRead EXCEPT !.homologation = h, !.effective = e]
    BY <2>1, <2>2, <2>3 DEF DatedBy, h, e
  <2> HIDE DEF t
  <2>5. t = [maker |-> None, category |-> None, homologation |-> h, effective |-> e, out |-> <<>>]
    BY <2>4 DEF NothingRead
  <2>6. QED
    BY <2>5 DEF Dated, h, e, t
<1>4. CASE Reading[q.date].repeat
  <2>1. OdsRow(NothingRead, row) = Dated(q, None, None, <<>>)
    BY <1>1, <1>2, <1>3, <1>4, RowByKind DEF IsNoMaker
  <2>2. QED
    BY <2>1
<1>5. CASE ~Reading[q.date].repeat
  <2>1. OdsRow(NothingRead, row) = [Dated(q, None, None, <<>>) EXCEPT !.category = q.date]
    BY <1>1, <1>2, <1>3, <1>5, RowByKind DEF IsNoMaker
  <2>2. OdsRow(NothingRead, row) = Dated(q, None, q.date, <<>>)
    BY <2>1 DEF Dated
  <2>3. QED
    BY <2>2
<1>6. QED
  BY <1>4, <1>5

(* The row of the supplier changes nothing else.                            *)
LEMMA SupplierRow ==
  ASSUME NEW q \in Documents, NEW maker, NEW category, NEW out, NEW row, IsRow(row, "FOURNISSEUR")
  PROVE  OdsRow(Dated(q, maker, category, out), row) = Dated(q, maker, category, out)
<1>1. Reading["FOURNISSEUR"].supplier /\ "FOURNISSEUR" # Empty
  BY DocumentsArePublished DEF Empty
<1>2. row[1] = "FOURNISSEUR" /\ ~IsBlank(row)
  BY <1>1, TextStandsAlone
<1>3. QED
  BY <1>1, <1>2, RowByKind, DatesStay

(* A blank row changes nothing.                                             *)
LEMMA BlankRow ==
  ASSUME NEW s
  PROVE  OdsRow(s, <<Empty>>) = s
<1>1. IsBlank(<<Empty>>)
  BY DEF IsBlank, Alone
<1>2. QED
  BY <1>1, RowByKind

(* A maker begins a section without a category.                             *)
LEMMA MakerRow ==
  ASSUME NEW q \in Documents, NEW maker, NEW category, NEW out, NEW row,
         NEW item, IsInSheet(item), item.brand # None, IsRow(row, item.maker)
  PROVE  OdsRow(Dated(q, maker, category, out), row) = Dated(q, item.brand, None, out)
<1>1. Reading[item.maker].maker = item.brand /\ ~Reading[item.maker].supplier /\ item.maker # Empty
  BY DEF IsInSheet
<1>2. row[1] = item.maker /\ ~IsBlank(row)
  BY <1>1, TextStandsAlone
<1>3. OdsRow(Dated(q, maker, category, out), row)
        = [Dated(q, maker, category, out) EXCEPT !.maker = item.brand, !.category = None]
  BY <1>1, <1>2, RowByKind, DatesStay
<1>4. QED
  BY <1>3 DEF Dated

(* The row of the labels changes nothing.                                   *)
LEMMA ReferenceRow ==
  ASSUME NEW q \in Documents, NEW maker, NEW category, NEW out, NEW row, IsRow(row, "REFERENCE")
  PROVE  OdsRow(Dated(q, maker, category, out), row) = Dated(q, maker, category, out)
<1>1. IsNoMaker("REFERENCE") /\ Reading["REFERENCE"].repeat /\ "REFERENCE" # Empty
  BY DocumentsArePublished DEF Empty
<1>2. row[1] = "REFERENCE" /\ Alone(row) /\ ~IsBlank(row)
  BY <1>1, TextStandsAlone
<1>3. QED
  BY <1>1, <1>2, RowByKind, DatesStay DEF IsNoMaker

(* A text that stands alone is the category.                                *)
LEMMA CategoryRow ==
  ASSUME NEW q \in Documents, NEW maker, NEW category, NEW out, NEW row, IsRow(row, "cigares")
  PROVE  OdsRow(Dated(q, maker, category, out), row) = Dated(q, maker, "cigares", out)
<1>1. IsNoMaker("cigares") /\ ~Reading["cigares"].repeat /\ "cigares" # Empty
  BY DocumentsArePublished DEF Empty
<1>2. row[1] = "cigares" /\ Alone(row) /\ ~IsBlank(row)
  BY <1>1, TextStandsAlone
<1>3. OdsRow(Dated(q, maker, category, out), row) = [Dated(q, maker, category, out) EXCEPT !.category = "cigares"]
  BY <1>1, <1>2, RowByKind, DatesStay DEF IsNoMaker
<1>4. QED
  BY <1>3 DEF Dated

(* The row of an article.                                                   *)
ArticleTexts(q, i) ==
  LET item == Whole(q)[i] IN
  << Empty, item.packed, Empty, IF i \in q.unchanged THEN item.price ELSE item.former, Empty,
     IF i \in q.unchanged THEN "sans changement" ELSE item.price >>

(* The columns of an article are its six cells.                             *)
LEMMA ArticleCells ==
  ASSUME NEW q, NEW i
  PROVE  RowCells(ArticleRow(q, i)) = ArticleTexts(q, i)
<1> DEFINE item == Whole(q)[i]
           x == IF i \in q.unchanged THEN item.price ELSE item.former
           y == IF i \in q.unchanged THEN "sans changement" ELSE item.price
           z == item.packed
           texts == <<Empty, z, Empty, x, Empty, y>>
           cells == << OneCell(Empty), OneCell(z), OneCell(Empty), OneCell(x), OneCell(Empty), OneCell(y) >>
           S == {Empty, x, y, z}
<1>1. ArticleTexts(q, i) = texts /\ ArticleRow(q, i) = cells
  BY DEF ArticleTexts, ArticleRow
<1> HIDE DEF x, y, z, item
<1>2. texts \in Seq(S) /\ Len(texts) = 6 /\ Len(cells) = 6
  OBVIOUS
<1>3. \A j \in 1..6 : cells[j] = OneCell(texts[j])
  <2>1. \A j \in 1..6 : j = 1 \/ j = 2 \/ j = 3 \/ j = 4 \/ j = 5 \/ j = 6
    OBVIOUS
  <2>2. /\ cells[1] = OneCell(texts[1]) /\ cells[2] = OneCell(texts[2]) /\ cells[3] = OneCell(texts[3])
        /\ cells[4] = OneCell(texts[4]) /\ cells[5] = OneCell(texts[5]) /\ cells[6] = OneCell(texts[6])
    OBVIOUS
  <2> HIDE DEF texts, cells
  <2>3. QED
    BY <2>1, <2>2
<1> HIDE DEF texts, cells, S
<1>4. RowCells(cells) = texts
  BY <1>2, <1>3, RowOfSix
<1>5. QED
  BY <1>1, <1>4

TellsArticle(row, item, unchanged) ==
  /\ row # <<>> /\ Len(row) = 6 /\ row[1] = Empty /\ row[2] = item.packed
  /\ unchanged => row[4] = item.price /\ row[6] = "sans changement"
  /\ ~unchanged => row[6] = item.price

(* What the texts of an article tell.                                       *)
LEMMA TextsOfArticle ==
  ASSUME NEW q, NEW i
  PROVE  TellsArticle(ArticleTexts(q, i), Whole(q)[i], i \in q.unchanged)
BY DEF ArticleTexts, TellsArticle

\* The articles of a sheet are those of its parts.
LEMMA ArticlesOfSheet ==
  ASSUME NEW q \in Documents, IsSheet(q), NEW i \in 1..Len(Whole(q))
  PROVE  IsArticle(Whole(q)[i]) /\ IsInSheet(Whole(q)[i])
<1>1. Whole(q) \in Seq(ItemsOf(q))
  BY PartsAreLists DEF Whole
<1>2. Whole(q)[i] \in ItemsOf(q)
  BY <1>1, ElementOfSeq
<1>3. PICK k \in 1..Len(q.parts) : Whole(q)[i] \in Range(q.parts[k])
  BY <1>2 DEF ItemsOf
<1>4. PICK j \in DOMAIN q.parts[k] : Whole(q)[i] = q.parts[k][j]
  BY <1>3 DEF Range
<1>5. j \in 1..Len(q.parts[k])
  BY <1>4, DocumentIsPublished, ListHasType
<1>6. IsInSheet(q.parts[k][j])
  BY <1>5 DEF IsSheet
<1>7. QED
  BY <1>2, <1>4, <1>6, ItemsAreArticles

(* Its price is the new one, or the one that stays.                           *)
LEMMA PriceIsSelected ==
  ASSUME NEW item, IsArticle(item), IsInSheet(item), NEW row, NEW unchanged, TellsArticle(row, item, unchanged)
  PROVE  SelectPrice(row) = Reading[item.price].price
<1> DEFINE text == item.price
           price(j) == IF j > Len(row) THEN None
                       ELSE IF row[j] = Empty \/ Reading[row[j]].unchanged THEN None
                       ELSE Reading[row[j]].price
<1>1. SelectPrice(row) = Or(price(6), price(4))
  BY DEF SelectPrice
<1>2. text # Empty /\ ~Reading[text].unchanged /\ Reading[text].price # None
  BY DEF IsArticle, IsInSheet
<1>3. Len(row) = 6
  BY DEF TellsArticle
<1> HIDE DEF text
<1>4. CASE unchanged
  <2>1. row[4] = text /\ row[6] = "sans changement"
    BY <1>4 DEF TellsArticle, text
  <2>2. Reading["sans changement"].unchanged
    BY DocumentsArePublished
  <2>3. price(6) = None
    BY <1>3, <2>1, <2>2
  <2>4. price(4) = Reading[text].price
    <3>1. ~(row[4] = Empty \/ Reading[row[4]].unchanged) /\ Reading[row[4]].price = Reading[text].price
      BY <1>2, <2>1
    <3>2. ~(4 > Len(row))
      BY <1>3
    <3>3. QED
      BY <3>1, <3>2
  <2> HIDE DEF price
  <2>5. QED
    BY <1>1, <2>3, <2>4 DEF Or, text
<1>5. CASE ~unchanged
  <2>1. row[6] = text
    BY <1>5 DEF TellsArticle, text
  <2>2. price(6) = Reading[text].price
    BY <1>2, <1>3, <2>1
  <2> HIDE DEF price
  <2>3. QED
    BY <1>1, <1>2, <2>2 DEF Or, text
<1>6. QED
  BY <1>4, <1>5

\* The entries of a sheet.
SheetEntry(q, i) ==
  LET item == Whole(q)[i]
      label == Reading[item.packed]
  IN [brand |-> item.brand, product |-> item.product, packaging |-> label.packaging,
      price |-> Reading[item.price].price, pack |-> label.pack, tax |-> "cigares", dates |-> DatesOf(q)]
SheetEntries(q, n) == [i \in 1..n |-> SheetEntry(q, i)]

(* The entry of the row of an article matches the article.                  *)
LEMMA EntryOfRow ==
  ASSUME NEW q, NEW i, IsArticle(Whole(q)[i]), IsInSheet(Whole(q)[i]), NEW row, NEW unchanged,
         TellsArticle(row, Whole(q)[i], unchanged), NEW out
  PROVE  OdsEntry(row, Dated(q, Whole(q)[i].brand, "cigares", out)) = SheetEntry(q, i)
<1> DEFINE item == Whole(q)[i]
           s == Dated(q, item.brand, "cigares", out)
           label == Reading[Label(row)]
<1>1. Label(row) = item.packed
  <2>1. Len(row) = 6 /\ row[2] = item.packed
    BY DEF TellsArticle
  <2>2. item.packed # Empty
    BY DEF IsInSheet
  <2>3. QED
    BY <2>1, <2>2 DEF Label
<1>2. Or(label.name, Label(row)) = item.product
  BY <1>1 DEF Or, IsInSheet, IsArticle
<1>3. SelectPrice(row) = Reading[item.price].price
  BY PriceIsSelected
<1>4. /\ s.maker = item.brand /\ s.category = "cigares"
      /\ s.homologation = DatesOf(q).homologation /\ s.effective = DatesOf(q).effective
  BY DEF Dated
<1>5. [homologation |-> s.homologation, effective |-> s.effective] = DatesOf(q)
  BY <1>4 DEF DatesOf
<1> HIDE DEF s
<1>6. OdsEntry(row, s) =
        [brand |-> s.maker, product |-> Or(label.name, Label(row)), packaging |-> label.packaging,
         price |-> SelectPrice(row), pack |-> label.pack, tax |-> s.category,
         dates |-> [homologation |-> s.homologation, effective |-> s.effective]]
  BY DEF OdsEntry
<1>7. OdsEntry(row, s) =
        [brand |-> item.brand, product |-> item.product, packaging |-> Reading[item.packed].packaging,
         price |-> Reading[item.price].price, pack |-> Reading[item.packed].pack, tax |-> "cigares",
         dates |-> DatesOf(q)]
  BY <1>1, <1>2, <1>3, <1>4, <1>5, <1>6
<1>8. QED
  BY <1>7 DEF SheetEntry, s

(* The row of an article under its maker: a new entry, or one that is known.    *)
LEMMA RowOfArticle ==
  ASSUME NEW q \in Documents, IsSheet(q), NEW i \in 1..Len(Whole(q)), NEW row, NEW unchanged,
         TellsArticle(row, Whole(q)[i], unchanged), NEW out, NEW s, s = Dated(q, Whole(q)[i].brand, "cigares", out)
  PROVE  OdsRow(s, row) = IF IsSeen(s, SheetEntry(q, i)) THEN s
                          ELSE Dated(q, Whole(q)[i].brand, "cigares", Append(out, SheetEntry(q, i)))
<1> DEFINE item == Whole(q)[i]
           e == SheetEntry(q, i)
<1>1. IsArticle(item) /\ IsInSheet(item)
  BY ArticlesOfSheet
<1>2. Len(row) = 6 /\ row[1] = Empty /\ row[2] = item.packed /\ item.packed # Empty
  BY <1>1 DEF IsInSheet, TellsArticle
<1>3. ~IsBlank(row) /\ row[1] = Empty
  <2>1. row # <<>>
    BY DEF TellsArticle
  <2>2. 2 \in 2..6 /\ 2 <= Len(row) /\ row[2] # Empty
    BY <1>2
  <2>3. ~Alone(row)
    BY <2>2 DEF Alone
  <2>4. QED
    BY <1>2, <2>1, <2>3 DEF IsBlank
<1>4. Reading[row[1]].maker = None /\ ~Reading[row[1]].supplier
  BY <1>3, DocumentsArePublished DEF IsNoMaker
<1>5. DatedBy(s, row) = s
  BY DatesStay
<1>6. OdsEntry(row, s) = e
  BY <1>1, EntryOfRow
<1>7. e.price # None
  BY <1>1 DEF SheetEntry, IsArticle
<1>8. s.maker = item.brand /\ s.maker # None /\ s.out = out
  BY <1>1 DEF Dated, IsArticle
<1> HIDE DEF e
<1>9. OdsRow(s, row) = IF IsSeen(s, e) THEN s ELSE [s EXCEPT !.out = Append(s.out, e)]
  <2> HIDE DEF item
  <2>1. OdsRow(s, row) =
            IF IsBlank(row) THEN s
            ELSE IF Reading[row[1]].supplier THEN s
            ELSE IF Reading[row[1]].maker # None
                 THEN [s EXCEPT !.maker = Reading[row[1]].maker, !.category = None]
            ELSE IF row[1] # Empty /\ Alone(row)
                 THEN IF Reading[row[1]].repeat THEN s ELSE [s EXCEPT !.category = row[1]]
            ELSE IF e.price = None \/ s.maker = None \/ IsSeen(s, e) THEN s
            ELSE [s EXCEPT !.out = Append(@, e)]
    BY <1>5, <1>6, RowByKind
  <2>2. QED
    BY <1>3, <1>4, <1>7, <1>8, <2>1
<1> DEFINE t == [s EXCEPT !.out = Append(out, e)]
<1>10. t = [Dated(q, item.brand, "cigares", out) EXCEPT !.out = Append(out, e)]
  OBVIOUS
<1> HIDE DEF t
<1>11. t = Dated(q, item.brand, "cigares", Append(out, e))
  BY <1>10 DEF Dated
<1>12. QED
  BY <1>8, <1>9, <1>11 DEF t, e

(* An article that was not seen before adds its entry.                      *)
LEMMA NewArticleRow ==
  ASSUME NEW q \in Documents, IsSheet(q), NEW i \in 1..Len(Whole(q)), NEW row, NEW unchanged,
         TellsArticle(row, Whole(q)[i], unchanged), NEW out, NEW s, s = Dated(q, Whole(q)[i].brand, "cigares", out),
         ~IsSeen(s, SheetEntry(q, i))
  PROVE  OdsRow(s, row) = Dated(q, Whole(q)[i].brand, "cigares", Append(out, SheetEntry(q, i)))
BY RowOfArticle

(* An article that was seen before adds none.                               *)
LEMMA KnownArticleRow ==
  ASSUME NEW q \in Documents, IsSheet(q), NEW i \in 1..Len(Whole(q)), NEW row, NEW unchanged,
         TellsArticle(row, Whole(q)[i], unchanged), NEW out, NEW s, s = Dated(q, Whole(q)[i].brand, "cigares", out),
         IsSeen(s, SheetEntry(q, i))
  PROVE  OdsRow(s, row) = s
BY RowOfArticle

(* Where the rows of a sheet stand.                                          *)
BlankCells == << [text |-> Empty, repeat |-> 300] >>

(* Where the rows of the preface and of each article stand.                 *)
LEMMA RowsOfSheet ==
  ASSUME NEW q \in Documents, NEW sheet, sheet = Sheet(q)
  PROVE  /\ Len(Whole(q)) \in Nat /\ Len(sheet) = 3 + 5 * Len(Whole(q))
         /\ sheet[1] = Filled(q.date) /\ sheet[2] = Filled("FOURNISSEUR") /\ sheet[3] = BlankCells
         /\ \A k \in 1..Len(Whole(q)) : \A j \in 1..5 : sheet[3 + (5 * (k - 1) + j)] = RowsOfArticle(q, k)[j]
<1> DEFINE n == Len(Whole(q))
           preface == Preface(q)
           rows(i) == RowsOfArticle(q, i)
           tt == [i \in 1..n |-> rows(i)]
           S == {preface[j] : j \in 1..3} \cup UNION {{rows(i)[j] : j \in 1..5} : i \in 1..n}
           f == FlattenSeq(tt)
<1>1. n \in Nat
  BY PartsAreLists, LenProperties DEF Whole
<1>2. /\ Len(preface) = 3 /\ preface = <<preface[1], preface[2], preface[3]>>
      /\ preface[1] = Filled(q.date) /\ preface[2] = Filled("FOURNISSEUR") /\ preface[3] = BlankCells
  BY DEF Preface, BlankCells
<1>3. ASSUME NEW i \in 1..n
      PROVE  Len(rows(i)) = 5 /\ rows(i) = <<rows(i)[1], rows(i)[2], rows(i)[3], rows(i)[4], rows(i)[5]>>
  BY DEF RowsOfArticle
<1>4. sheet = preface \o f
  BY DEF Sheet
<1> HIDE DEF preface, rows, n
<1>5. preface \in Seq(S)
  <2>1. preface[1] \in S /\ preface[2] \in S /\ preface[3] \in S
    OBVIOUS
  <2> HIDE DEF S
  <2>2. <<preface[1], preface[2], preface[3]>> \in Seq(S)
    BY <2>1
  <2>3. QED
    BY <1>2, <2>2
<1>6. ASSUME NEW i \in 1..n PROVE rows(i) \in Seq(S)
  <2>1. \A j \in 1..5 : rows(i)[j] \in S
    OBVIOUS
  <2> HIDE DEF S
  <2>2. rows(i)[1] \in S /\ rows(i)[2] \in S /\ rows(i)[3] \in S /\ rows(i)[4] \in S /\ rows(i)[5] \in S
    BY <2>1
  <2> DEFINE r1 == rows(i)[1]
             r2 == rows(i)[2]
             r3 == rows(i)[3]
             r4 == rows(i)[4]
             r5 == rows(i)[5]
  <2>3. rows(i) = <<r1, r2, r3, r4, r5>>
    BY <1>3
  <2>4. r1 \in S /\ r2 \in S /\ r3 \in S /\ r4 \in S /\ r5 \in S
    BY <2>2
  <2> HIDE DEF r1, r2, r3, r4, r5
  <2>5. <<r1, r2, r3, r4, r5>> \in Seq(S)
    BY <2>4
  <2>6. QED
    BY <2>3, <2>5
<1> HIDE DEF S
<1>7. tt \in Seq(Seq(S)) /\ Len(tt) = n /\ \A k \in 1..n : tt[k] = rows(k) /\ Len(tt[k]) = 5
  <2>1. tt \in [1..n -> Seq(S)] /\ \A k \in 1..n : tt[k] = rows(k)
    BY <1>6
  <2> HIDE DEF tt
  <2>2. tt \in Seq(Seq(S)) /\ Len(tt) = n
    BY <1>1, <2>1
  <2>3. QED
    BY <1>3, <2>1, <2>2
<1> HIDE DEF tt
<1>8. f \in Seq(S) /\ Len(f) = 5 * n /\ \A k \in 1..n : \A j \in 1..5 : f[5 * (k - 1) + j] = tt[k][j]
  <2>1. \A k \in 1..Len(tt) : Len(tt[k]) = 5
    BY <1>7
  <2>2. /\ FlattenSeq(tt) \in Seq(S) /\ Len(FlattenSeq(tt)) = 5 * Len(tt)
        /\ \A k \in 1..Len(tt) : \A j \in 1..5 : FlattenSeq(tt)[5 * (k - 1) + j] = tt[k][j]
    BY <1>7, <2>1, FlattenFives
  <2>3. QED
    BY <1>7, <2>2
<1> HIDE DEF f
<1>9. /\ preface \o f \in Seq(S) /\ Len(preface \o f) = Len(preface) + Len(f)
      /\ \A i \in 1..Len(preface) : (preface \o f)[i] = preface[i]
      /\ \A i \in 1..Len(f) : (preface \o f)[Len(preface) + i] = f[i]
  <2>1. f \in Seq(S)
    BY <1>8
  <2>2. QED
    BY <1>5, <2>1, ConcatParts
<1>10. /\ Len(sheet) = Len(preface) + Len(f)
       /\ \A i \in 1..Len(preface) : sheet[i] = preface[i]
       /\ \A i \in 1..Len(f) : sheet[Len(preface) + i] = f[i]
  BY <1>4, <1>9
<1>11. Len(sheet) = 3 + 5 * n /\ sheet[1] = preface[1] /\ sheet[2] = preface[2] /\ sheet[3] = preface[3]
  BY <1>2, <1>8, <1>10
<1>12. ASSUME NEW k \in 1..n, NEW j \in 1..5 PROVE sheet[3 + (5 * (k - 1) + j)] = rows(k)[j]
  <2>1. 5 * (k - 1) + j \in 1..Len(f)
    BY <1>1, <1>8
  <2>2. sheet[3 + (5 * (k - 1) + j)] = f[5 * (k - 1) + j]
    BY <1>2, <1>10, <2>1
  <2>3. QED
    BY <1>7, <1>8, <2>2
<1>13. QED
  BY <1>1, <1>2, <1>11, <1>12 DEF n, rows

(* The entries of one more article.                                          *)
LEMMA OneMoreEntry ==
  ASSUME NEW q, NEW k \in Nat \ {0}
  PROVE  Append(SheetEntries(q, k - 1), SheetEntry(q, k)) = SheetEntries(q, k)
<1> DEFINE S == {SheetEntry(q, i) : i \in 1..k}
           l == Append(SheetEntries(q, k - 1), SheetEntry(q, k))
           s == SheetEntries(q, k - 1)
           e == SheetEntry(q, k)
           m == SheetEntries(q, k)
<1>1. k \in Nat /\ k - 1 \in Nat /\ k \in 1..k /\ \A i \in 1..(k - 1) : i \in 1..k
  OBVIOUS
<1>2. \A i \in 1..k : SheetEntry(q, i) \in S
  OBVIOUS
<1> HIDE DEF S
<1>3. s \in [1..(k - 1) -> S] /\ \A i \in 1..(k - 1) : s[i] = SheetEntry(q, i)
  BY <1>1, <1>2 DEF SheetEntries
<1>4. m \in [1..k -> S] /\ \A i \in 1..k : m[i] = SheetEntry(q, i)
  BY <1>1, <1>2 DEF SheetEntries
<1>5. e \in S
  BY <1>1, <1>2
<1> HIDE DEF s, m
<1>6. s \in Seq(S) /\ Len(s) = k - 1 /\ m \in Seq(S) /\ Len(m) = k
  BY <1>1, <1>3, <1>4
<1>7. l = Append(s, e)
  BY DEF s
<1> HIDE DEF l, e
<1>8. l \in Seq(S) /\ Len(l) = k - 1 + 1 /\ l[k - 1 + 1] = e /\ \A i \in 1..(k - 1) : l[i] = s[i]
  BY <1>5, <1>6, <1>7, AppendProperties
<1>9. k - 1 + 1 = k /\ \A i \in 1..k : i = k \/ i \in 1..(k - 1)
  BY <1>1
<1>10. \A i \in 1..Len(l) : l[i] = m[i]
  BY <1>1, <1>3, <1>4, <1>8, <1>9 DEF e
<1>11. l = m
  BY <1>6, <1>8, <1>9, <1>10, SeqEqual
<1>12. QED
  BY <1>11 DEF l, m

(* An article is new to the entries before it, and known once it has one.       *)
LEMMA SeenOnce ==
  ASSUME NEW q, IsSheet(q), NEW k \in 1..Len(Whole(q)), Len(Whole(q)) \in Nat, NEW maker, NEW category
  PROVE  /\ ~IsSeen(Dated(q, maker, category, SheetEntries(q, k - 1)), SheetEntry(q, k))
         /\ IsSeen(Dated(q, maker, category, SheetEntries(q, k)), SheetEntry(q, k))
<1>1. \A n \in Nat : Len(SheetEntries(q, n)) = n /\ \A i \in 1..n : SheetEntries(q, n)[i] = SheetEntry(q, i)
  BY DEF SheetEntries
<1>2. \A n \in Nat : Dated(q, maker, category, SheetEntries(q, n)).out = SheetEntries(q, n)
  BY DEF Dated
<1>3. k \in Nat /\ k - 1 \in Nat /\ k \in 1..k
  OBVIOUS
<1>4. ASSUME NEW i \in 1..(k - 1) PROVE ~SameKey(SheetEntry(q, i), SheetEntry(q, k))
  <2>1. i \in 1..Len(Whole(q)) /\ i # k
    BY <1>3
  <2>2. <<Whole(q)[i].brand, Whole(q)[i].product>> # <<Whole(q)[k].brand, Whole(q)[k].product>>
    BY <2>1 DEF IsSheet
  <2>3. /\ SheetEntry(q, i).brand = Whole(q)[i].brand /\ SheetEntry(q, i).product = Whole(q)[i].product
        /\ SheetEntry(q, k).brand = Whole(q)[k].brand /\ SheetEntry(q, k).product = Whole(q)[k].product
    BY DEF SheetEntry
  <2>4. QED
    BY <2>2, <2>3 DEF SameKey
<1>5. SameKey(SheetEntry(q, k), SheetEntry(q, k))
  BY DEF SameKey
<1>6. QED
  BY <1>1, <1>2, <1>3, <1>4, <1>5 DEF IsSeen

(* The five rows of an article.                                              *)
LEMMA ArticleIsRead ==
  ASSUME NEW q \in Documents, IsSheet(q), NEW k \in 1..Len(Whole(q)), Len(Whole(q)) \in Nat,
         NEW maker, NEW category, NEW s0, NEW s1, NEW s2, NEW s3, NEW s4, NEW s5,
         s0 = Dated(q, maker, category, SheetEntries(q, k - 1)),
         s1 = OdsRow(s0, RowCells(RowsOfArticle(q, k)[1])), s2 = OdsRow(s1, RowCells(RowsOfArticle(q, k)[2])),
         s3 = OdsRow(s2, RowCells(RowsOfArticle(q, k)[3])), s4 = OdsRow(s3, RowCells(RowsOfArticle(q, k)[4])),
         s5 = OdsRow(s4, RowCells(RowsOfArticle(q, k)[5]))
  PROVE  s5 = Dated(q, Whole(q)[k].brand, "cigares", SheetEntries(q, k))
<1> DEFINE item == Whole(q)[k]
           out == SheetEntries(q, k - 1)
           row == RowCells(ArticleRow(q, k))
<1>1. /\ RowsOfArticle(q, k)[1] = Filled(item.maker) /\ RowsOfArticle(q, k)[2] = Filled("REFERENCE")
      /\ RowsOfArticle(q, k)[3] = Filled("cigares")
      /\ RowsOfArticle(q, k)[4] = ArticleRow(q, k) /\ RowsOfArticle(q, k)[5] = ArticleRow(q, k)
  BY DEF RowsOfArticle
<1>2. IsInSheet(item) /\ item.brand # None
  BY ArticlesOfSheet DEF IsArticle
<1>3. /\ IsRow(RowCells(Filled(item.maker)), item.maker)
      /\ IsRow(RowCells(Filled("REFERENCE")), "REFERENCE")
      /\ IsRow(RowCells(Filled("cigares")), "cigares")
  BY RowOfText
<1> DEFINE unchanged == k \in q.unchanged
<1>4. TellsArticle(row, item, unchanged)
  BY ArticleCells, TextsOfArticle
<1> HIDE DEF item, out, unchanged
<1>5. s1 = Dated(q, item.brand, None, out)
  BY <1>1, <1>2, <1>3, MakerRow DEF out
<1>6. s2 = Dated(q, item.brand, None, out)
  BY <1>1, <1>3, <1>5, ReferenceRow
<1>7. s3 = Dated(q, item.brand, "cigares", out)
  BY <1>1, <1>3, <1>6, CategoryRow
<1> DEFINE e == SheetEntry(q, k)
           more == SheetEntries(q, k)
<1>8. /\ s4 = OdsRow(s3, row) /\ s5 = OdsRow(s4, row)
  BY <1>1
<1> HIDE DEF row, e, more
<1>9. Append(out, e) = more
  <2>1. k \in Nat \ {0}
    OBVIOUS
  <2>2. QED
    BY <2>1, OneMoreEntry DEF out, e, more
<1>10. s4 = Dated(q, item.brand, "cigares", more)
  <2>1. ~IsSeen(s3, e)
    BY <1>7, SeenOnce DEF out, e
  <2>2. OdsRow(s3, row) = Dated(q, item.brand, "cigares", Append(out, e))
    BY <1>4, <1>7, <2>1, NewArticleRow DEF item, e
  <2>3. QED
    BY <1>8, <1>9, <2>1, <2>2
<1>11. s5 = s4
  <2>1. IsSeen(s4, e)
    BY <1>10, SeenOnce DEF more, e
  <2>2. OdsRow(s4, row) = s4
    BY <1>4, <1>10, <2>1, KnownArticleRow DEF item, e
  <2>3. QED
    BY <1>8, <2>1, <2>2
<1>12. QED
  BY <1>10, <1>11 DEF item, more

(* A sheet gives the articles of the list.                                   *)
LEMMA SheetIsRead ==
  ASSUME NEW q \in Documents, TypeOf(q) = "ods"
  PROVE  DouaneOds(Sheet(q)) = SheetEntries(q, Len(Whole(q)))
<1> DEFINE sheet == Sheet(q)
           n == Len(Whole(q))
           cells(i) == RowCells(sheet[i])
<1>1. IsSheet(q)
  BY DocumentIsPublished
<1>2. /\ n \in Nat /\ Len(sheet) = 3 + 5 * n
      /\ sheet[1] = Filled(q.date) /\ sheet[2] = Filled("FOURNISSEUR") /\ sheet[3] = BlankCells
      /\ \A k \in 1..n : \A j \in 1..5 : sheet[3 + (5 * (k - 1) + j)] = RowsOfArticle(q, k)[j]
  BY RowsOfSheet
<1>3. PICK f : ReadUpTo(f, sheet, Len(sheet)) /\ DouaneOds(sheet) = f[Len(sheet)].out
  <2>1. Len(sheet) \in Nat
    BY <1>2
  <2> HIDE DEF sheet
  <2>2. QED
    BY <2>1, SheetIsReadByRow
<1> HIDE DEF sheet, n
<1>4. f[0] = NothingRead /\ \A i \in 1..(3 + 5 * n) : f[i] = OdsRow(f[i - 1], cells(i))
  BY <1>2, <1>3 DEF ReadUpTo
<1> DEFINE Done(k) == \E maker, category : f[3 + 5 * k] = Dated(q, maker, category, SheetEntries(q, k))
           T == {k \in 0..n : Done(k)}
<1>5. 0 \in T
  <2>1. f[1] = OdsRow(NothingRead, cells(1)) /\ f[2] = OdsRow(f[1], cells(2)) /\ f[3] = OdsRow(f[2], cells(3))
    <3>1. 1 \in 1..(3 + 5 * n) /\ 2 \in 1..(3 + 5 * n) /\ 3 \in 1..(3 + 5 * n) /\ 1 - 1 = 0 /\ 2 - 1 = 1 /\ 3 - 1 = 2
      BY <1>2
    <3> HIDE DEF cells
    <3>2. f[1] = OdsRow(f[1 - 1], cells(1)) /\ f[2] = OdsRow(f[2 - 1], cells(2)) /\ f[3] = OdsRow(f[3 - 1], cells(3))
      BY <1>4, <3>1
    <3>3. QED
      BY <1>4, <3>1, <3>2
  <2>2. IsRow(cells(1), q.date) /\ IsRow(cells(2), "FOURNISSEUR") /\ cells(3) = <<Empty>>
    BY <1>2, RowOfText, RowOfNothing DEF BlankCells
  <2> HIDE DEF cells
  <2>3. PICK category : f[1] = Dated(q, None, category, <<>>)
    BY <1>1, <2>1, <2>2, DateRow
  <2>4. f[2] = Dated(q, None, category, <<>>)
    BY <2>1, <2>2, <2>3, SupplierRow
  <2>5. f[3] = f[2]
    BY <2>1, <2>2, BlankRow
  <2>6. SheetEntries(q, 0) = <<>> /\ 3 + 5 * 0 = 3
    BY DEF SheetEntries
  <2>7. Done(0)
    BY <2>4, <2>5, <2>6
  <2> HIDE DEF Done
  <2>8. QED
    BY <1>2, <2>7
<1>6. ASSUME NEW k \in 1..n, k - 1 \in T PROVE k \in T
  <2> DEFINE m == 3 + 5 * (k - 1)
             row(j) == RowCells(RowsOfArticle(q, k)[j])
  <2>0. n \in Nat /\ k \in Nat /\ 1 <= k /\ k <= n
    <3>1. n \in Nat
      BY <1>2
    <3>2. QED
      BY <3>1
  <2>1. m \in Nat /\ 3 + 5 * k = m + 5
    BY <2>0
  <2>2. ASSUME NEW j \in 1..5, NEW i, i = m + j
        PROVE  f[i] = OdsRow(f[i - 1], row(j))
    <3>1. i \in 1..(3 + 5 * n) /\ i = 3 + (5 * (k - 1) + j)
      BY <2>0, <2>2
    <3>2. cells(i) = row(j)
      BY <1>2, <3>1
    <3> HIDE DEF cells, row, m
    <3>3. QED
      BY <1>4, <3>1, <3>2
  <2>3. PICK maker, category : f[m] = Dated(q, maker, category, SheetEntries(q, k - 1))
    BY <1>6
  <2> HIDE DEF m, row
  <2> DEFINE i1 == m + 1
             i2 == m + 2
             i3 == m + 3
             i4 == m + 4
             i5 == m + 5
  <2>4. i1 - 1 = m /\ i2 - 1 = i1 /\ i3 - 1 = i2 /\ i4 - 1 = i3 /\ i5 - 1 = i4
    BY <2>1
  <2>5. i1 = m + 1 /\ i2 = m + 2 /\ i3 = m + 3 /\ i4 = m + 4 /\ i5 = m + 5
    OBVIOUS
  <2> HIDE DEF i1, i2, i3, i4, i5
  <2>6. 1 \in 1..5 /\ 2 \in 1..5 /\ 3 \in 1..5 /\ 4 \in 1..5 /\ 5 \in 1..5
    OBVIOUS
  <2>7. /\ f[i1] = OdsRow(f[m], row(1)) /\ f[i2] = OdsRow(f[i1], row(2)) /\ f[i3] = OdsRow(f[i2], row(3))
        /\ f[i4] = OdsRow(f[i3], row(4)) /\ f[i5] = OdsRow(f[i4], row(5))
    BY <2>2, <2>4, <2>5, <2>6
  <2>8. f[m + 5] = Dated(q, Whole(q)[k].brand, "cigares", SheetEntries(q, k))
    <3> DEFINE s0 == f[m]
               s1 == f[i1]
               s2 == f[i2]
               s3 == f[i3]
               s4 == f[i4]
               s5 == f[i5]
    <3>1. /\ s0 = Dated(q, maker, category, SheetEntries(q, k - 1))
          /\ s1 = OdsRow(s0, RowCells(RowsOfArticle(q, k)[1])) /\ s2 = OdsRow(s1, RowCells(RowsOfArticle(q, k)[2]))
          /\ s3 = OdsRow(s2, RowCells(RowsOfArticle(q, k)[3])) /\ s4 = OdsRow(s3, RowCells(RowsOfArticle(q, k)[4]))
          /\ s5 = OdsRow(s4, RowCells(RowsOfArticle(q, k)[5]))
      BY <2>3, <2>7 DEF row
    <3>2. k \in 1..Len(Whole(q)) /\ Len(Whole(q)) \in Nat
      BY <1>2 DEF n
    <3> HIDE DEF s0, s1, s2, s3, s4, s5
    <3>3. s5 = Dated(q, Whole(q)[k].brand, "cigares", SheetEntries(q, k))
      BY <1>1, <3>1, <3>2, ArticleIsRead
    <3>4. QED
      BY <2>5, <3>3 DEF s5
  <2>9. Done(k)
    BY <2>1, <2>8
  <2> HIDE DEF Done
  <2>10. QED
    BY <1>2, <2>9
<1> HIDE DEF T, Done
<1>7. 0..n \subseteq T
  BY <1>2, <1>5, <1>6, InductionUpTo
<1>8. Done(n)
  BY <1>2, <1>7 DEF T
<1>9. f[Len(sheet)].out = SheetEntries(q, n)
  <2>1. PICK maker, category : f[3 + 5 * n] = Dated(q, maker, category, SheetEntries(q, n))
    BY <1>8 DEF Done
  <2>2. Dated(q, maker, category, SheetEntries(q, n)).out = SheetEntries(q, n)
    BY DEF Dated
  <2>3. QED
    BY <1>2, <2>1, <2>2
<1>10. QED
  BY <1>3, <1>9 DEF sheet, n

(* What is read agrees with what is announced.                               *)
Agrees(read, list, q) ==
  DOMAIN read = DOMAIN list /\ \A i \in DOMAIN list : EntryMatches(read[i], list[i], DatesOf(q))

(* To agree with the list is what the property asks.                        *)
LEMMA AgreementSuffices ==
  ASSUME Agrees(answer, ListOf(question), question)
  PROVE  FormsAgree
<1> DEFINE list == ListOf(question)
           date == Reading[question.date]
           told == [homologation |-> date.homologation, effective |-> date.effective]
           a(i) == <<answer[i].brand, answer[i].product, answer[i].price, answer[i].dates>>
           b(i) == <<list[i].brand, list[i].product, Reading[list[i].price].price, told>>
<1>1. DOMAIN answer = DOMAIN list /\ \A i \in DOMAIN list : EntryMatches(answer[i], list[i], DatesOf(question))
  BY DEF Agrees
<1>2. DatesOf(question) = told
  BY DEF DatesOf
<1> HIDE DEF list, told
<1>3. \A i \in DOMAIN list : /\ answer[i].brand = list[i].brand /\ answer[i].product = list[i].product
                             /\ answer[i].price = Reading[list[i].price].price /\ answer[i].dates = told
  BY <1>1, <1>2 DEF EntryMatches
<1>4. \A i \in DOMAIN list : a(i) = b(i)
  BY <1>3
<1> HIDE DEF a, b
<1>5. [i \in DOMAIN answer |-> a(i)] = [i \in DOMAIN list |-> b(i)]
  BY <1>1, <1>4
<1>6. QED
  BY <1>5 DEF FormsAgree, a, b, list, told

(* Entries that match their articles agree with the list.                   *)
LEMMA MappedAgrees ==
  ASSUME NEW q, NEW f, NEW list \in Seq(ItemsOf(q)),
         \A item \in ItemsOf(q) : EntryMatches(f[item], item, DatesOf(q))
  PROVE  Agrees(Mapped(f, list), list, q)
<1>1. DOMAIN list = 1..Len(list) /\ \A i \in 1..Len(list) : list[i] \in ItemsOf(q)
  BY LenProperties, ElementOfSeq
<1>2. DOMAIN Mapped(f, list) = 1..Len(list) /\ \A i \in 1..Len(list) : Mapped(f, list)[i] = f[list[i]]
  BY DEF Mapped
<1>3. QED
  BY <1>1, <1>2 DEF Agrees

(* The entries that are read from tables match their articles.              *)
LEMMA HtmlReadMatches ==
  ASSUME NEW q \in Documents, TypeOf(q) \in {"html", "json"}, NEW item \in ItemsOf(q)
  PROVE  EntryMatches(HtmlRead(q, DatesOf(q))[item], item, DatesOf(q))
<1>1. IsLayout(q) /\ TypeOf(q) # "pdf"
  BY DocumentIsPublished
<1>2. EntryMatches(HtmlEntry(Cells(q, item), ColumnsOf(q), DatesOf(q)), item, DatesOf(q))
  BY <1>1, ItemsAreArticles, HtmlEntryMatches
<1>3. HtmlRead(q, DatesOf(q))[item] = HtmlEntry(Cells(q, item), ColumnsOf(q), DatesOf(q))
  BY DEF HtmlRead
<1>4. QED
  BY <1>2, <1>3

(* The entries that are read from a PDF match their articles.               *)
LEMMA PdfReadMatches ==
  ASSUME NEW q \in Documents, TypeOf(q) = "pdf", NEW item \in ItemsOf(q)
  PROVE  EntryMatches(PdfRead(q, DatesOf(q))[item], item, DatesOf(q))
<1>1. IsLayout(q)
  BY DocumentIsPublished
<1>2. EntryMatches(PdfEntry(Cells(q, item), ColumnsOf(q), DatesOf(q)), item, DatesOf(q))
  BY <1>1, ItemsAreArticles, PdfEntryMatches
<1>3. PdfRead(q, DatesOf(q))[item] = PdfEntry(Cells(q, item), ColumnsOf(q), DatesOf(q))
  BY DEF PdfRead
<1>4. QED
  BY <1>2, <1>3

(* A page, a PDF and a sheet give the list that is published.                 *)
LEMMA DocumentAgrees ==
  ASSUME NEW q \in Documents, ~IsTree(q)
  PROVE  Agrees(Extract(q.form[1], q.form[2], DocumentOf(q)), ListOf(q), q)
<1> DEFINE list == FlattenSeq(q.parts)
           read == Extract(q.form[1], q.form[2], DocumentOf(q))
<1>1. q.form \in Forms /\ q.kind = "document"
  BY DocumentIsPublished
<1>2. q.form # <<"legifrance-dila-json", "json">>
  BY <1>1 DEF IsTree
<1>3. list \in Seq(ItemsOf(q)) /\ q.parts \in Seq(Range(q.parts))
  BY PartsAreLists
<1>4. CASE q.form \in {<<"legifrance-html", "html">>, <<"ofdf-generic", "html">>}
  <2>1. TypeOf(q) = "html" /\ q.form[2] = "html" /\ q.form[1] \in {"legifrance-html", "ofdf-generic"}
    BY <1>4 DEF TypeOf
  <2>2. DocumentOf(q) = DocumentBlocks(q, q.parts)
    BY <2>1 DEF DocumentOf, Html, DocumentBlocks, PartBlocks
  <2>3. read = LegifranceHtml(DocumentBlocks(q, q.parts))
    <3>1. Extract(q.form[1], "html", DocumentOf(q)) = LegifranceHtml(DocumentOf(q))
      BY <2>1 DEF Extract, OfdfGeneric
    <3>2. QED
      BY <2>1, <2>2, <3>1
  <2> HIDE DEF list, read
  <2>4. read = Mapped(HtmlRead(q, DatesOf(q)), list)
    BY <1>3, <2>1, <2>3, LegifranceIsRead DEF list
  <2>5. ListOf(q) = list
    BY <2>1 DEF ListOf, list
  <2>6. Agrees(Mapped(HtmlRead(q, DatesOf(q)), list), list, q)
    BY <1>3, <2>1, HtmlReadMatches, MappedAgrees
  <2>7. QED
    BY <2>4, <2>5, <2>6 DEF read
<1>5. CASE q.form \in {<<"ofdf-generic", "pdf">>, <<"pdf-table", "pdf">>}
  <2>1. TypeOf(q) = "pdf" /\ q.form[2] = "pdf" /\ q.form[1] \in {"ofdf-generic", "pdf-table"}
    BY <1>5 DEF TypeOf
  <2>2. DocumentOf(q) = PdfPages(q)
    BY <2>1 DEF DocumentOf
  <2>3. read = PdfTable(PdfPages(q))
    <3>1. Extract(q.form[1], "pdf", DocumentOf(q)) = PdfTable(DocumentOf(q))
      BY <2>1 DEF Extract, OfdfGeneric
    <3>2. QED
      BY <2>1, <2>2, <3>1
  <2> HIDE DEF list, read
  <2>4. read = Mapped(PdfRead(q, DatesOf(q)), list)
    BY <2>1, <2>3, PdfIsRead DEF list
  <2>5. ListOf(q) = list
    BY <2>1 DEF ListOf, list
  <2>6. Agrees(Mapped(PdfRead(q, DatesOf(q)), list), list, q)
    BY <1>3, <2>1, PdfReadMatches, MappedAgrees
  <2>7. QED
    BY <2>4, <2>5, <2>6 DEF read
<1>6. CASE q.form = <<"douane-ods", "ods">>
  <2>1. TypeOf(q) = "ods" /\ q.form[2] = "ods" /\ q.form[1] = "douane-ods"
    BY <1>6 DEF TypeOf
  <2>2. DocumentOf(q) = Sheet(q)
    BY <2>1 DEF DocumentOf
  <2>3. read = DouaneOds(Sheet(q))
    <3>1. Extract("douane-ods", "ods", DocumentOf(q)) = DouaneOds(DocumentOf(q))
      BY DEF Extract
    <3>2. QED
      BY <2>1, <2>2, <3>1
  <2>4. ListOf(q) = Whole(q)
    BY <2>1 DEF ListOf, Whole
  <2> HIDE DEF list, read
  <2>5. read = SheetEntries(q, Len(Whole(q)))
    BY <2>1, <2>3, SheetIsRead
  <2>6. DOMAIN Whole(q) = 1..Len(Whole(q))
    BY <1>3, LenProperties DEF list, Whole
  <2>7. DOMAIN read = DOMAIN Whole(q) /\ \A i \in 1..Len(Whole(q)) : read[i] = SheetEntry(q, i)
    BY <2>5, <2>6 DEF SheetEntries
  <2>8. \A i : EntryMatches(SheetEntry(q, i), Whole(q)[i], DatesOf(q))
    BY DEF SheetEntry, EntryMatches
  <2>9. Agrees(read, Whole(q), q)
    BY <2>6, <2>7, <2>8 DEF Agrees
  <2>10. QED
    BY <2>4, <2>9 DEF read
<1>7. QED
  BY <1>1, <1>2, <1>4, <1>5, <1>6 DEF Forms

-----------------------------------------------------------------------------
(* A tree is taken apart.                                                    *)

\* The articles of the parts after the first k, from the last on.
Taken(q, k) == [i \in 1..(Len(q.parts) - k) |-> ArticleOf(q, (Len(q.parts) - i) + 1)]
FirstSections(q, k) == SubSeq(Sections(q), 1, k)

\* A tree has not been looked at; the sections up to one are left; the last of them
\* has been opened; or its articles have been read.
IsTaken(q, read, left) ==
  \/ left = None /\ Agrees(read, ListOf(q), q)
  \/ left = <<Tree(q)>> /\ read = <<>>
  \/ \E k \in 0..Len(q.parts) : left = FirstSections(q, k) /\ read = Taken(q, k)
  \/ \E k \in 1..Len(q.parts) : left = Append(FirstSections(q, k - 1), ArticleOf(q, k)) /\ read = Taken(q, k)

(* The last of an appended sequence, and what is before it.                 *)
LEMMA FrontOfAppend ==
  ASSUME NEW S, NEW s \in Seq(S), NEW e \in S
  PROVE  /\ Append(s, e) \in Seq(S) /\ Append(s, e) # <<>>
         /\ Last(Append(s, e)) = e /\ Front(Append(s, e)) = s
<1> DEFINE a == Append(s, e)
           n == Len(s)
           f == SubSeq(a, 1, n)
<1>1. a \in Seq(S) /\ Len(a) = n + 1 /\ a[n + 1] = e /\ n \in Nat /\ \A i \in 1..n : a[i] = s[i]
  BY AppendProperties, LenProperties
<1>2. a # <<>>
  <2>1. Len(a) # 0
    BY <1>1
  <2>2. QED
    BY <1>1, <2>1, EmptySeq
<1>3. Last(a) = e
  BY <1>1 DEF Last
<1>4. Front(a) = f
  <2>1. (n + 1) - 1 = n
    BY <1>1
  <2> HIDE DEF a, n
  <2>2. QED
    BY <1>1, <2>1 DEF Front
<1>5. \A i \in 1..n : a[i] \in S
  BY <1>1, ElementOfSeq
<1> HIDE DEF a, n
<1>6. f \in Seq(S) /\ Len(f) = n - 1 + 1 /\ \A i \in 1..(n - 1 + 1) : f[i] = a[1 + i - 1]
  BY <1>1, <1>5, SubSeqProperties
<1>7. n - 1 + 1 = n /\ \A i \in 1..n : 1 + i - 1 = i
  BY <1>1
<1> HIDE DEF f
<1>8. Len(f) = Len(s) /\ \A i \in 1..Len(f) : f[i] = s[i]
  BY <1>1, <1>6, <1>7 DEF n
<1>9. f = s
  BY <1>6, <1>8, SeqEqual
<1>10. QED
  BY <1>1, <1>2, <1>3, <1>4, <1>9 DEF a

(* The sections and articles of a tree are nodes of it.                     *)
LEMMA NodesOfTree ==
  ASSUME NEW q \in Documents
  PROVE  /\ Len(q.parts) \in Nat
         /\ Sections(q) \in Seq(Nodes(q)) /\ Len(Sections(q)) = Len(q.parts)
         /\ Tree(q) \in Nodes(q) /\ \A k \in 1..Len(q.parts) : ArticleOf(q, k) \in Nodes(q)
         /\ None \notin Seq(Nodes(q))
<1> DEFINE n == Len(q.parts)
           sections == Sections(q)
           section(k) == IF k \in q.nested THEN Node(FALSE, None, <<ArticleOf(q, k)>>) ELSE ArticleOf(q, k)
<1>1. n \in Nat /\ None \notin Seq(Nodes(q))
  BY DocumentsArePublished, ListHasType
<1>2. sections = [k \in 1..n |-> section(k)]
  BY DEF Sections
<1> HIDE DEF n, section
<1>3. DOMAIN sections = 1..n /\ Len(sections) = n
  BY <1>1, <1>2
<1> HIDE DEF sections
<1>4. \A k \in 1..n : sections[k] \in Nodes(q)
  <2>1. \A k \in 1..n : sections[k] \in Range(sections)
    BY <1>3 DEF Range
  <2>2. QED
    BY <2>1 DEF Nodes, sections
<1>5. sections \in Seq(Nodes(q))
  <2>1. sections = [k \in 1..n |-> sections[k]]
    BY <1>2, <1>3
  <2>2. QED
    BY <1>1, <1>4, <2>1, SeqOfValues
<1>6. Tree(q) \in Nodes(q) /\ \A k \in 1..n : ArticleOf(q, k) \in Nodes(q)
  BY DEF Nodes, n
<1>7. QED
  BY <1>1, <1>3, <1>5, <1>6 DEF sections, n

(* The sections up to one are those before it and the section itself.         *)
LEMMA LastSection ==
  ASSUME NEW q \in Documents, NEW k \in 0..Len(q.parts)
  PROVE  /\ FirstSections(q, k) \in Seq(Nodes(q))
         /\ k = 0 => FirstSections(q, k) = <<>>
         /\ k # 0 => /\ FirstSections(q, k) = Append(FirstSections(q, k - 1), Sections(q)[k])
                     /\ FirstSections(q, k - 1) \in Seq(Nodes(q)) /\ Sections(q)[k] \in Nodes(q)
                     /\ k - 1 \in 0..Len(q.parts) /\ k \in 1..Len(q.parts)
<1> DEFINE s == Sections(q)
           n == Len(q.parts)
<1>1. n \in Nat /\ s \in Seq(Nodes(q)) /\ Len(s) = n
  BY NodesOfTree
<1> HIDE DEF s, n
<1>2. \A m \in 0..n : SubSeq(s, 1, m) \in Seq(Nodes(q))
  <2> TAKE m \in 0..n
  <2>1. \A i \in 1..m : s[i] \in Nodes(q)
    BY <1>1, ElementOfSeq
  <2>2. m \in Int
    BY <1>1
  <2>3. QED
    BY <2>1, <2>2, SubSeqProperties
<1>3. k \in 0..n
  BY DEF n
<1>4. CASE k = 0
  <2>1. SubSeq(s, 1, 0) = <<>>
    BY SubSeqEmpty
  <2>2. QED
    BY <1>2, <1>3, <1>4, <2>1 DEF FirstSections, s
<1>5. CASE k # 0
  <2>1. k \in 1..n /\ k - 1 \in 0..n /\ 1 \in 1..n
    BY <1>1, <1>3, <1>5
  <2>2. SubSeq(s, 1, k) = Append(SubSeq(s, 1, k - 1), s[k])
    BY <1>1, <2>1, SubSeqRecursiveSecond
  <2>3. s[k] \in Nodes(q)
    BY <1>1, <2>1, ElementOfSeq
  <2>4. QED
    BY <1>2, <1>3, <1>5, <2>1, <2>2, <2>3 DEF FirstSections, s, n
<1>6. QED
  BY <1>4, <1>5

(* One more article is taken.                                               *)
LEMMA OneMoreTaken ==
  ASSUME NEW q \in Documents, NEW k \in 1..Len(q.parts)
  PROVE  Taken(q, k) \o <<ArticleOf(q, k)>> = Taken(q, k - 1) /\ Taken(q, k) \o <<>> = Taken(q, k)
<1> DEFINE n == Len(q.parts)
           S == Nodes(q)
           m == n - k
           s == Taken(q, k)
           t == Taken(q, k - 1)
           e == ArticleOf(q, k)
           at(i) == ArticleOf(q, (n - i) + 1)
<1>1. n \in Nat /\ \A j \in 1..n : ArticleOf(q, j) \in S
  BY NodesOfTree
<1>2. m \in Nat /\ n - (k - 1) = m + 1 /\ k \in 1..n
  BY <1>1
<1>3. \A i \in 1..(m + 1) : (n - i) + 1 \in 1..n
  BY <1>1
<1>4. \A i \in 1..(m + 1) : at(i) \in S
  BY <1>1, <1>3
<1>5. at(m + 1) = e
  <2>1. (n - (m + 1)) + 1 = k
    BY <1>1
  <2> HIDE DEF m, n
  <2>2. QED
    BY <2>1
<1>6. s = [i \in 1..m |-> at(i)] /\ t = [i \in 1..(m + 1) |-> at(i)]
  <2>1. s = [i \in 1..m |-> at(i)]
    BY DEF Taken
  <2>2. t = [i \in 1..(n - (k - 1)) |-> at(i)]
    BY DEF Taken
  <2> HIDE DEF s, t, at, m, n
  <2>3. QED
    BY <1>2, <2>1, <2>2
<1>7. e \in S
  BY <1>1, <1>2
<1> HIDE DEF s, t, at, m, n, S, e
<1>8. \A i \in 1..m : i \in 1..(m + 1)
  BY <1>2
<1>9. s \in Seq(S) /\ Len(s) = m /\ \A i \in 1..m : s[i] = at(i)
  <2>1. s \in [1..m -> S] /\ \A i \in 1..m : s[i] = at(i)
    BY <1>4, <1>6, <1>8
  <2>2. QED
    BY <1>2, <2>1
<1>10. t \in Seq(S) /\ Len(t) = m + 1 /\ \A i \in 1..(m + 1) : t[i] = at(i)
  <2>1. t \in [1..(m + 1) -> S] /\ \A i \in 1..(m + 1) : t[i] = at(i)
    BY <1>4, <1>6
  <2>2. m + 1 \in Nat
    BY <1>2
  <2>3. QED
    BY <2>1, <2>2
<1> DEFINE a == Append(s, e)
<1>11. a \in Seq(S) /\ Len(a) = m + 1 /\ a[m + 1] = e /\ \A i \in 1..m : a[i] = s[i]
  BY <1>7, <1>9, AppendProperties
<1> HIDE DEF a
<1>12. \A i \in 1..Len(a) : a[i] = t[i]
  <2> TAKE i \in 1..Len(a)
  <2>1. i \in 1..(m + 1) /\ (i = m + 1 \/ i \in 1..m)
    BY <1>2, <1>11
  <2>2. CASE i = m + 1
    BY <1>5, <1>10, <1>11, <2>1, <2>2
  <2>3. CASE i \in 1..m
    BY <1>9, <1>10, <1>11, <2>1, <2>3
  <2>4. QED
    BY <2>1, <2>2, <2>3
<1>13. a = t
  BY <1>10, <1>11, <1>12, SeqEqual
<1>14. s \o <<e>> = t
  <2>1. Append(s, e) = s \o <<e>>
    BY <1>7, <1>9, AppendIsConcat
  <2>2. QED
    BY <1>13, <2>1 DEF a
<1>15. s \o <<>> = s
  BY <1>9, ConcatEmptySeq
<1>16. QED
  BY <1>14, <1>15 DEF s, t, e

(* What a node is.                                                          *)
LEMMA NodeFields ==
  ASSUME NEW q
  PROVE  /\ ArticlesOf(Tree(q)) = <<>> /\ Tree(q).below = Sections(q)
         /\ \A k : /\ ArticlesOf(ArticleOf(q, k)) = <<ArticleOf(q, k)>> /\ ArticleOf(q, k).below = <<>>
                   /\ ArticleOf(q, k).html = Blocks(q, q.parts[k])
         /\ \A k : LET section == Node(FALSE, None, <<ArticleOf(q, k)>>) IN
                   ArticlesOf(section) = <<>> /\ section.below = <<ArticleOf(q, k)>>
BY DEF ArticlesOf, Tree, ArticleOf, Node

(* A section is the article itself or has it below.                         *)
LEMMA SectionIs ==
  ASSUME NEW q, NEW k \in 1..Len(q.parts)
  PROVE  \/ Sections(q)[k] = ArticleOf(q, k)
         \/ ArticlesOf(Sections(q)[k]) = <<>> /\ Sections(q)[k].below = <<ArticleOf(q, k)>>
<1> DEFINE section == Node(FALSE, None, <<ArticleOf(q, k)>>)
<1>1. Sections(q)[k] = IF k \in q.nested THEN section ELSE ArticleOf(q, k)
  BY DEF Sections
<1>2. ArticlesOf(section) = <<>> /\ section.below = <<ArticleOf(q, k)>>
  BY NodeFields
<1> HIDE DEF section
<1>3. QED
  BY <1>1, <1>2

(* A node that is taken brings the tree to the next state.                     *)
TakenFrom(q, read, left) == IsTaken(q, read \o ArticlesOf(Last(left)), NextCandidates(left))

(* The tree gives its sections.                                             *)
LEMMA TreeIsOpened ==
  ASSUME NEW q \in Documents
  PROVE  TakenFrom(q, <<>>, <<Tree(q)>>)
<1> DEFINE n == Len(q.parts)
           left == <<Tree(q)>>
           s == Sections(q)
<1>1. n \in Nat /\ s \in Seq(Nodes(q)) /\ Len(s) = n
  BY NodesOfTree
<1>2. Last(left) = Tree(q) /\ Front(left) = <<>>
  <2>1. Len(left) = 1 /\ left[1] = Tree(q)
    OBVIOUS
  <2>2. SubSeq(left, 1, 0) = <<>>
    BY SubSeqEmpty
  <2> HIDE DEF left
  <2>3. Front(left) = SubSeq(left, 1, 0)
    BY <2>1 DEF Front
  <2>4. QED
    BY <2>1, <2>2, <2>3 DEF Last
<1> HIDE DEF left, n, s
<1>3. <<>> \o ArticlesOf(Last(left)) = <<>>
  <2>1. ArticlesOf(Tree(q)) = <<>>
    BY NodeFields
  <2>2. ArticlesOf(Last(left)) = <<>>
    BY <1>2, <2>1
  <2>3. <<>> \in Seq(Nodes(q))
    OBVIOUS
  <2>4. <<>> \o <<>> = <<>>
    BY <2>3, ConcatEmptySeq
  <2>5. QED
    BY <2>2, <2>4
<1>4. NextCandidates(left) = s
  <2>1. Tree(q).below = s
    BY NodeFields DEF s
  <2>2. <<>> \o s = s
    BY <1>1, ConcatEmptySeq
  <2>3. QED
    BY <1>2, <2>1, <2>2 DEF NextCandidates
<1>5. s = FirstSections(q, n)
  BY <1>1, SubSeqFull DEF FirstSections, s
<1>6. Taken(q, n) = <<>>
  <2>1. Taken(q, n) = [i \in 1..(n - n) |-> ArticleOf(q, (n - i) + 1)]
    BY DEF Taken, n
  <2>2. 1..(n - n) = {}
    BY <1>1
  <2>3. QED
    BY <2>1, <2>2
<1>7. IsTaken(q, <<>>, s)
  <2>1. n \in 0..Len(q.parts)
    BY <1>1 DEF n
  <2>2. QED
    BY <1>5, <1>6, <2>1 DEF IsTaken
<1>8. QED
  BY <1>3, <1>4, <1>7 DEF TakenFrom, left

(* An article is taken after those of the later parts.                      *)
LEMMA ArticleIsTaken ==
  ASSUME NEW q \in Documents, NEW k \in 1..Len(q.parts)
  PROVE  TakenFrom(q, Taken(q, k), Append(FirstSections(q, k - 1), ArticleOf(q, k)))
<1> DEFINE rest == FirstSections(q, k - 1)
           e == ArticleOf(q, k)
           left == Append(rest, e)
<1>1. rest \in Seq(Nodes(q)) /\ e \in Nodes(q) /\ k - 1 \in 0..Len(q.parts)
  <2>1. k \in 0..Len(q.parts) /\ k # 0
    BY NodesOfTree
  <2>2. QED
    BY <2>1, LastSection, NodesOfTree
<1>2. ArticlesOf(e) = <<e>> /\ e.below = <<>>
  BY NodeFields
<1>3. Taken(q, k) \o <<e>> = Taken(q, k - 1)
  BY OneMoreTaken
<1> HIDE DEF rest, e
<1>4. Last(left) = e /\ Front(left) = rest
  BY <1>1, FrontOfAppend
<1> HIDE DEF left
<1>5. NextCandidates(left) = rest
  <2>1. rest \o <<>> = rest
    BY <1>1, ConcatEmptySeq
  <2>2. QED
    BY <1>2, <1>4, <2>1 DEF NextCandidates
<1>6. IsTaken(q, Taken(q, k - 1), rest)
  BY <1>1 DEF IsTaken, rest
<1>7. Taken(q, k) \o ArticlesOf(Last(left)) = Taken(q, k - 1)
  BY <1>2, <1>3, <1>4
<1>8. QED
  BY <1>5, <1>6, <1>7 DEF TakenFrom, left, rest, e

(* A section is an article or is opened in its place.                       *)
LEMMA SectionIsTaken ==
  ASSUME NEW q \in Documents, NEW k \in 1..Len(q.parts)
  PROVE  TakenFrom(q, Taken(q, k), FirstSections(q, k))
<1> DEFINE rest == FirstSections(q, k - 1)
           e == Sections(q)[k]
           left == FirstSections(q, k)
<1>1. left = Append(rest, e) /\ rest \in Seq(Nodes(q)) /\ e \in Nodes(q)
  <2>1. k \in 0..Len(q.parts) /\ k # 0
    BY NodesOfTree
  <2>2. QED
    BY <2>1, LastSection
<1>2. CASE e = ArticleOf(q, k)
  BY <1>1, <1>2, ArticleIsTaken
<1>3. CASE ArticlesOf(e) = <<>> /\ e.below = <<ArticleOf(q, k)>>
  <2> HIDE DEF rest, e, left
  <2>1. Last(left) = e /\ Front(left) = rest
    BY <1>1, FrontOfAppend
  <2>2. ArticleOf(q, k) \in Nodes(q)
    BY NodesOfTree
  <2>3. NextCandidates(left) = Append(rest, ArticleOf(q, k))
    <3>1. Append(rest, ArticleOf(q, k)) = rest \o <<ArticleOf(q, k)>>
      BY <1>1, <2>2, AppendIsConcat
    <3>2. QED
      BY <1>3, <2>1, <3>1 DEF NextCandidates
  <2>4. Taken(q, k) \o ArticlesOf(Last(left)) = Taken(q, k)
    BY <1>3, <2>1, OneMoreTaken
  <2>5. IsTaken(q, Taken(q, k), Append(rest, ArticleOf(q, k)))
    BY DEF IsTaken, rest
  <2>6. QED
    BY <2>3, <2>4, <2>5 DEF TakenFrom, left
<1>4. QED
  BY <1>2, <1>3, SectionIs

(* Whichever node comes last, taking it keeps the progress.                 *)
LEMMA NodeIsTaken ==
  ASSUME NEW q \in Documents, NEW read, NEW left, IsTaken(q, read, left), left \notin {None, <<>>}
  PROVE  TakenFrom(q, read, left)
<1>1. CASE left = <<Tree(q)>> /\ read = <<>>
  BY <1>1, TreeIsOpened
<1>2. ASSUME NEW k \in 0..Len(q.parts), left = FirstSections(q, k), read = Taken(q, k)
      PROVE  TakenFrom(q, read, left)
  <2>1. k # 0
    BY <1>2, LastSection
  <2>2. k \in 1..Len(q.parts)
    BY <2>1, LastSection
  <2>3. QED
    BY <1>2, <2>2, SectionIsTaken
<1>3. ASSUME NEW k \in 1..Len(q.parts), left = Append(FirstSections(q, k - 1), ArticleOf(q, k)), read = Taken(q, k)
      PROVE  TakenFrom(q, read, left)
  BY <1>3, ArticleIsTaken
<1>4. QED
  BY <1>1, <1>2, <1>3 DEF IsTaken

(* The articles of a tree give the list, from the last part on.               *)
LEMMA ArticlesAgree ==
  ASSUME NEW q \in Documents, IsTree(q), NEW read, IsTaken(q, read, <<>>)
  PROVE  Agrees(FromArticles(read), ListOf(q), q)
<1> DEFINE n == Len(q.parts)
           parts == Reverse(q.parts)
<1>1. TypeOf(q) = "json"
  BY DEF IsTree, TypeOf
<1>2. n \in Nat /\ None \notin Seq(Nodes(q)) /\ q.parts \in Seq(Range(q.parts))
  BY NodesOfTree, PartsAreLists
<1>3. read = Taken(q, 0)
  <2>1. <<>> # None
    <3>1. <<>> \in Seq(Nodes(q))
      OBVIOUS
    <3>2. QED
      BY <1>2, <3>1
  <2>2. <<>> # <<Tree(q)>>
    OBVIOUS
  <2>3. ASSUME NEW k \in 1..Len(q.parts) PROVE <<>> # Append(FirstSections(q, k - 1), ArticleOf(q, k))
    <3>1. k \in 0..Len(q.parts) /\ k # 0
      BY <1>2
    <3>2. FirstSections(q, k - 1) \in Seq(Nodes(q)) /\ ArticleOf(q, k) \in Nodes(q)
      BY <3>1, LastSection, NodesOfTree
    <3>3. QED
      BY <3>2, FrontOfAppend
  <2>4. PICK k \in 0..Len(q.parts) : <<>> = FirstSections(q, k) /\ read = Taken(q, k)
    BY <2>1, <2>2, <2>3 DEF IsTaken
  <2>5. k = 0
    <3> SUFFICES ASSUME k # 0 PROVE FALSE
      OBVIOUS
    <3>1. /\ FirstSections(q, k) = Append(FirstSections(q, k - 1), Sections(q)[k])
          /\ FirstSections(q, k - 1) \in Seq(Nodes(q)) /\ Sections(q)[k] \in Nodes(q)
      BY LastSection
    <3>2. Append(FirstSections(q, k - 1), Sections(q)[k]) # <<>>
      BY <3>1, FrontOfAppend
    <3>3. QED
      BY <2>4, <3>1, <3>2
  <2>6. QED
    BY <2>4, <2>5
<1>4. /\ parts \in Seq(Range(q.parts)) /\ Len(parts) = n
      /\ \A i \in 1..n : parts[i] = q.parts[(n - i) + 1] /\ (n - i) + 1 \in 1..n
  <2>1. parts = [i \in 1..n |-> q.parts[(n - i) + 1]]
    BY DEF Reverse
  <2>2. \A i \in 1..n : (n - i) + 1 \in 1..n
    BY <1>2
  <2>3. \A k \in 1..n : q.parts[k] \in Range(q.parts)
    BY <1>2, ElementOfSeq
  <2> DEFINE R == Range(q.parts)
  <2> HIDE DEF n, parts, R
  <2>4. parts \in [1..n -> R] /\ \A i \in 1..n : parts[i] = q.parts[(n - i) + 1]
    BY <2>1, <2>2, <2>3 DEF R
  <2>5. parts \in Seq(R) /\ Len(parts) = n
    <3>1. n \in Nat
      BY <1>2
    <3>2. QED
      BY <2>4, <3>1
  <2>6. QED
    BY <2>2, <2>4, <2>5 DEF R
<1> DEFINE text(a) == Or(Or(a.html, a.contenu), Or(a.texte, <<>>))
<1>5. FromArticles(read) = LegifranceHtml(FlattenSeq([i \in 1..Len(read) |-> text(read[i])]))
  BY DEF FromArticles
<1>6. \A k \in 1..n : text(ArticleOf(q, k)) = Blocks(q, q.parts[k])
  <2> TAKE k \in 1..n
  <2>1. Blocks(q, q.parts[k]) # None
    BY DocumentsArePublished
  <2>2. ArticleOf(q, k).html = Blocks(q, q.parts[k])
    BY NodeFields
  <2>3. QED
    BY <2>1, <2>2 DEF Or
<1> HIDE DEF text, parts
<1>7. Len(read) = n /\ \A i \in 1..n : read[i] = ArticleOf(q, (n - i) + 1)
  <2>1. n - 0 = n
    BY <1>2
  <2>2. read = [i \in 1..(n - 0) |-> ArticleOf(q, (n - i) + 1)]
    BY <1>3 DEF Taken
  <2> HIDE DEF n
  <2>3. read = [i \in 1..n |-> ArticleOf(q, (n - i) + 1)]
    BY <2>1, <2>2
  <2>4. QED
    BY <1>2, <2>3
<1> HIDE DEF n
<1>8. [i \in 1..Len(read) |-> text(read[i])] = PartBlocks(q, parts)
  <2>1. \A i \in 1..n : text(read[i]) = Blocks(q, parts[i])
    BY <1>4, <1>6, <1>7
  <2>2. QED
    BY <1>4, <1>7, <2>1 DEF PartBlocks
<1>9. FromArticles(read) = LegifranceHtml(DocumentBlocks(q, parts))
  BY <1>5, <1>8 DEF DocumentBlocks
<1>10. FromArticles(read) = Mapped(HtmlRead(q, DatesOf(q)), FlattenSeq(parts))
  BY <1>1, <1>4, <1>9, LegifranceIsRead
<1>11. ListOf(q) = FlattenSeq(parts)
  BY <1>1 DEF ListOf, parts
<1>12. FlattenSeq(parts) \in Seq(ItemsOf(q))
  <2>1. Range(q.parts) \subseteq Seq(ItemsOf(q))
    BY PartsAreLists
  <2>2. parts \in Seq(Seq(ItemsOf(q)))
    BY <1>4, <2>1, SeqMonotonic
  <2>3. QED
    BY <2>2, FlattenConcat
<1>13. Agrees(Mapped(HtmlRead(q, DatesOf(q)), FlattenSeq(parts)), FlattenSeq(parts), q)
  BY <1>1, <1>12, HtmlReadMatches, MappedAgrees
<1>14. QED
  BY <1>10, <1>11, <1>13

-----------------------------------------------------------------------------
(* The rules at work.                                                       *)

\* What is asked is one of the questions, and stays so.
Questions == question \in PageQuestions \union Documents \union Scans \union Shops

\* A crawl has read the pages before the next one, or all of them.
CrawlProgress ==
    question.kind = "shop" =>
        \/ next \in 1..LastPage(question) /\ answer = ProductsUpTo(question, next - 1)
        \/ next \notin 1..Len(question.pages) /\ answer = ProductsUpTo(question, LastPage(question))

\* A tree has been taken apart up to some part; any other document has been read, as
\* it is announced, or not yet.
DocumentProgress ==
    question.kind = "document" =>
        /\ IsTree(question) => IsTaken(question, answer, next)
        /\ ~IsTree(question) /\ next = None => Agrees(answer, ListOf(question), question)

RulesIInv == Questions /\ PacksConverge /\ DocumentProgress /\ ScanIsComplete /\ CrawlProgress

(* The kind of a question tells which one it is.                             *)
LEMMA QuestionKinds ==
  ASSUME Questions
  PROVE  /\ question.kind = "page" => question \in PageQuestions
         /\ question.kind = "document" => question \in Documents
         /\ question.kind = "scan" => question \in Scans
         /\ question.kind = "shop" => question \in Shops
<1>1. \A q \in PageQuestions : q.kind = "page"
  BY DEF PageQuestions
<1>2. \A q \in Scans : q.kind = "scan"
  BY ScansAreIndexes
<1>3. \A q \in Shops : q.kind = "shop"
  BY ShopsAreNumbered
<1>4. \A q \in Documents : q.kind = "document"
  BY DocumentsArePublished
<1>5. QED
  BY <1>1, <1>2, <1>3, <1>4 DEF Questions

(* A crawl begins with nothing.                                              *)
LEMMA NothingSeenYet ==
  ASSUME NEW q
  PROVE  ProductsUpTo(q, 0) = <<>>
<1>1. [k \in 1..0 |-> UrlsOf(LinksOf(q, k))] = <<>>
  OBVIOUS
<1>2. FlattenSeq(<<>>) = <<>>
  BY DEF FlattenSeq
<1>3. QED
  BY <1>1, <1>2 DEF ProductsUpTo

(* A tree is the document itself or what the API answers.                     *)
LEMMA TreeIsFound ==
  ASSUME NEW q \in Documents
  PROVE  Candidates(Json(q), q.cid, ApiAnswers(q)) = <<Tree(q)>>
<1>1. q.cid # None
  BY DocumentsArePublished
<1>2. Json(q) = None \/ Json(q) = Tree(q)
  BY DEF Json
<1>3. ApiAnswers(q)[q.cid] = Tree(q)
  BY DEF ApiAnswers
<1>4. QED
  BY <1>1, <1>2, <1>3 DEF Candidates

(* The invariant holds before anything is read.                              *)
LEMMA RulesInitIInv == RulesInit => RulesIInv
<1> SUFFICES ASSUME RulesInit PROVE RulesIInv
  OBVIOUS
<1>1. /\ Questions /\ answer = <<>> /\ 1 # None
      /\ next = IF IsTree(question) THEN Candidates(Json(question), question.cid, ApiAnswers(question)) ELSE 1
  BY ReferencesAreTables DEF RulesInit, Questions
<1>2. question.kind # "document" => next = 1
  BY <1>1 DEF IsTree
<1>3. PacksConverge /\ ScanIsComplete
  BY <1>1, <1>2 DEF PacksConverge, ScanIsComplete
<1>4. DocumentProgress
  <2>1. CASE question.kind = "document" /\ IsTree(question)
    <3>1. next = <<Tree(question)>>
      BY <1>1, <2>1, QuestionKinds, TreeIsFound
    <3>2. QED
      BY <1>1, <2>1, <3>1 DEF DocumentProgress, IsTaken
  <2>2. CASE ~IsTree(question)
    BY <1>1, <2>2 DEF DocumentProgress
  <2>3. QED
    BY <2>1, <2>2 DEF DocumentProgress
<1>5. CrawlProgress
  <2> SUFFICES ASSUME question.kind = "shop"
               PROVE  next \in 1..LastPage(question) /\ answer = ProductsUpTo(question, next - 1)
    BY DEF CrawlProgress
  <2>1. LastPage(question) \in Nat \ {0}
    BY <1>1, QuestionKinds, ShopTypes
  <2>2. next = 1 /\ 1 \in 1..LastPage(question) /\ next - 1 = 0
    BY <1>2, <2>1
  <2>3. ProductsUpTo(question, next - 1) = <<>>
    BY <2>2, NothingSeenYet
  <2>4. QED
    BY <1>1, <2>2, <2>3
<1>6. QED
  BY <1>1, <1>3, <1>4, <1>5 DEF RulesIInv

(* Reading a page keeps the promise about packs.                             *)
LEMMA PageIsRead ==
  ASSUME Questions, ReadPage
  PROVE  PacksConverge'
<1>1. /\ question.kind = "page" /\ question' = question
      /\ answer' = Entry(PageOf(question.reference, question.pack, question.notice, question.host),
                         PathOf(question.reference, question.pack))
  BY DEF ReadPage
<1> DEFINE r == question.reference
           n == question.pack
           h == question.host
<1>2. r \in References /\ n \in Nat \ {0} /\ question.notice \in Notices
  <2>1. question \in PageQuestions
    BY <1>1, QuestionKinds
  <2>2. QED
    BY <2>1, ReferencesAreTables DEF PageQuestions, Notices
<1>3. "both" \in Notices /\ 1 \in Nat \ {0}
  BY DEF Notices
<1> DEFINE notice == question.notice
           one == Entry(PageOf(r, n, notice, h), PathOf(r, n))
           single(host) == Entry(PageOf(r, 1, "both", host), PathOf(r, 1))
<1>4. \A host : /\ one.pack = n
                /\ one.cigar = single(host).cigar /\ one.line = single(host).line
                /\ Complete(r) \/ MerchantOf(host) = MerchantOf(h) =>
                      one.price = single(host).price /\ one.image = single(host).image
  <2> HIDE DEF r, n, h, notice
  <2>1. r \in References /\ n \in Nat \ {0} /\ notice \in Notices
    BY <1>2 DEF r, n, notice
  <2>2. QED
    BY <2>1, <1>3, EntriesAgree
<1>5. answer' = one
  BY <1>1
<1> HIDE DEF one
<1>6. /\ answer'.pack = n
      /\ \A host : /\ answer'.cigar = single(host).cigar /\ answer'.line = single(host).line
                   /\ Complete(r) \/ MerchantOf(host) = MerchantOf(h) =>
                         answer'.price = single(host).price /\ answer'.image = single(host).image
  BY <1>4, <1>5
<1>7. QED
  BY <1>1, <1>6 DEF PacksConverge

(* Reading an index keeps the promise about scans.                           *)
LEMMA IndexIsScanned ==
  ASSUME Questions, ScanIndex
  PROVE  ScanIsComplete'
<1>1. /\ question.kind = "scan" /\ question' = question
      /\ answer' = Discover(question.form, question.page, question.config, question.cache, question.start)
  BY DEF ScanIndex
<1>2. /\ question.form \in {"legifrance-dila", "legifrance-jorf", "douane-opendata", "generic-html-index"}
      /\ IsIndex(question)
  BY <1>1, QuestionKinds, ScansAreIndexes
<1>3. CASE question.form = "legifrance-dila"
  <2>1. answer' = LegifranceDila(question.page, question.config, question.cache, question.start)
    BY <1>1, <1>3 DEF Discover
  <2>2. IsSearch(question)
    BY <1>2, <1>3 DEF IsIndex
  <2>3. SearchIsComplete(question, answer')
    BY <2>1, <2>2, SearchScan
  <2>4. QED
    BY <1>1, <1>3, <2>3 DEF ScanIsComplete
<1>4. CASE question.form = "legifrance-jorf"
  <2>1. answer' = LegifranceJorf(question.page)
    BY <1>1, <1>4 DEF Discover
  <2>2. /\ IsList(question.page.links) /\ IsList(question.page.texts)
        /\ \A i \in 1..Len(question.page.links) : IsList(question.page.links[i].around)
        /\ \A i \in 1..Len(question.page.texts) : IsList(question.page.texts[i].nors)
    BY <1>2, <1>4 DEF IsIndex
  <2>3. JorfIsComplete(question.page, answer')
    BY <2>1, <2>2, JorfScan
  <2>4. QED
    BY <1>1, <1>4, <2>3 DEF ScanIsComplete
<1>5. CASE question.form = "douane-opendata"
  <2>1. answer' = DouaneOpenData(question.page, question.config.extension)
    BY <1>1, <1>5 DEF Discover
  <2>2. IsList(question.page.links)
    BY <1>2, <1>5 DEF IsIndex
  <2>3. DouaneIsComplete(question, answer')
    BY <2>1, <2>2, DouaneScan
  <2>4. QED
    BY <1>1, <1>5, <2>3 DEF ScanIsComplete
<1>6. CASE question.form = "generic-html-index"
  <2>1. answer' = GenericHtmlIndex(question.page, question.config.selector, question.config.mime)
    BY <1>1, <1>6 DEF Discover
  <2>2. IsList(question.page.items)
    BY <1>2, <1>6 DEF IsIndex
  <2>3. ItemsAreComplete(question, answer')
    BY <2>1, <2>2, GenericScan
  <2>4. QED
    BY <1>1, <1>6, <2>3 DEF ScanIsComplete
<1>7. QED
  BY <1>2, <1>3, <1>4, <1>5, <1>6

(* Every page of a crawl adds its products and names the next.               *)
LEMMA CrawlGoesOn ==
  ASSUME Questions, CrawlProgress, CrawlPage
  PROVE  CrawlProgress'
<1>1. /\ question.kind = "shop" /\ question' = question /\ next \in 1..Len(question.pages)
      /\ answer' = answer \o ListingOf(question, next).products
      /\ next' = ListingOf(question, next).next
  BY DEF CrawlPage
<1> DEFINE q == question
           k == next
           l == LastPage(question)
<1>2. q \in Shops
  BY <1>1, QuestionKinds
<1>3. l \in Nat \ {0} /\ l <= Len(q.pages) /\ Len(q.pages) \in Nat
  BY <1>2, ShopTypes
<1>4. k \in 1..l /\ answer = ProductsUpTo(q, k - 1)
  BY <1>1 DEF CrawlProgress
<1>5. /\ ListingOf(q, k).products = UrlsOf(LinksOf(q, k))
      /\ k < l => ListingOf(q, k).next = k + 1
      /\ k = l => ListingOf(q, k).next \notin 1..Len(q.pages)
  BY <1>2, <1>4, NextOfPage
<1>6. answer' = ProductsUpTo(q, k)
  BY <1>1, <1>2, <1>4, <1>5, OnePageMore
<1>7. CASE k < l
  <2>1. next' = k + 1 /\ k + 1 \in 1..l /\ (k + 1) - 1 = k
    BY <1>1, <1>3, <1>4, <1>5, <1>7
  <2>2. next' \in 1..LastPage(question') /\ answer' = ProductsUpTo(question', next' - 1)
    BY <1>1, <1>6, <2>1
  <2>3. QED
    BY <2>2 DEF CrawlProgress
<1>8. CASE k = l
  <2>1. next' \notin 1..Len(question'.pages) /\ answer' = ProductsUpTo(question', LastPage(question'))
    BY <1>1, <1>5, <1>6, <1>8
  <2>2. QED
    BY <2>1 DEF CrawlProgress
<1>9. QED
  BY <1>3, <1>4, <1>7, <1>8

(* A document that is no tree is read at once.                               *)
LEMMA DocumentIsRead ==
  ASSUME Questions, ReadDocument
  PROVE  DocumentProgress'
<1>1. /\ question.kind = "document" /\ ~IsTree(question) /\ question' = question
      /\ answer' = Extract(question.form[1], question.form[2], DocumentOf(question))
  BY DEF ReadDocument
<1>2. question \in Documents
  BY <1>1, QuestionKinds
<1>3. Agrees(answer', ListOf(question), question)
  BY <1>1, <1>2, DocumentAgrees
<1>4. QED
  BY <1>1, <1>3 DEF DocumentProgress

(* A tree is taken apart node by node.                                       *)
LEMMA TreeIsTakenApart ==
  ASSUME Questions, DocumentProgress, TakeNode
  PROVE  DocumentProgress'
<1>1. /\ IsTree(question) /\ question' = question /\ next \notin {None, <<>>}
      /\ answer' = answer \o ArticlesOf(Last(next)) /\ next' = NextCandidates(next)
  BY DEF TakeNode
<1>2. question.kind = "document"
  BY <1>1 DEF IsTree
<1>3. question \in Documents /\ IsTaken(question, answer, next)
  BY <1>1, <1>2, QuestionKinds DEF DocumentProgress
<1>4. TakenFrom(question, answer, next)
  BY <1>1, <1>3, NodeIsTaken
<1>5. IsTaken(question, answer', next')
  BY <1>1, <1>4 DEF TakenFrom
<1>6. QED
  BY <1>1, <1>5 DEF DocumentProgress

(* When nothing is left of a tree, its articles are read.                     *)
LEMMA TreeIsRead ==
  ASSUME Questions, DocumentProgress, ReadArticles
  PROVE  DocumentProgress'
<1>1. /\ IsTree(question) /\ question' = question /\ next = <<>>
      /\ answer' = FromArticles(answer) /\ next' = None
  BY DEF ReadArticles
<1>2. question.kind = "document"
  BY <1>1 DEF IsTree
<1>3. question \in Documents /\ IsTaken(question, answer, <<>>)
  BY <1>1, <1>2, QuestionKinds DEF DocumentProgress
<1>4. Agrees(answer', ListOf(question), question)
  BY <1>1, <1>3, ArticlesAgree
<1>5. IsTaken(question, answer', next')
  BY <1>1, <1>4 DEF IsTaken
<1>6. QED
  BY <1>1, <1>5 DEF DocumentProgress

(* Every step keeps the invariant.                                           *)
LEMMA RulesNextIInv == RulesIInv /\ [RulesNext]_ruleVars => RulesIInv'
<1> SUFFICES ASSUME RulesIInv, [RulesNext]_ruleVars PROVE RulesIInv'
  OBVIOUS
<1>1. Questions /\ PacksConverge /\ DocumentProgress /\ ScanIsComplete /\ CrawlProgress
  BY DEF RulesIInv
<1>2. question' = question /\ Questions'
  BY <1>1 DEF Questions, RulesNext, ReadPage, ReadDocument, TakeNode, ReadArticles, ScanIndex, CrawlPage,
              ruleVars
<1>3. CASE ReadPage
  <2>1. question.kind = "page"
    BY <1>3 DEF ReadPage
  <2>2. PacksConverge'
    BY <1>1, <1>3, PageIsRead
  <2>3. DocumentProgress' /\ ScanIsComplete' /\ CrawlProgress'
    BY <1>2, <2>1 DEF DocumentProgress, ScanIsComplete, CrawlProgress
  <2>4. QED
    BY <1>2, <2>2, <2>3 DEF RulesIInv
<1>4. CASE ScanIndex
  <2>1. question.kind = "scan"
    BY <1>4 DEF ScanIndex
  <2>2. ScanIsComplete'
    BY <1>1, <1>4, IndexIsScanned
  <2>3. PacksConverge' /\ DocumentProgress' /\ CrawlProgress'
    BY <1>2, <2>1 DEF PacksConverge, DocumentProgress, CrawlProgress
  <2>4. QED
    BY <1>2, <2>2, <2>3 DEF RulesIInv
<1>5. CASE CrawlPage
  <2>1. question.kind = "shop"
    BY <1>5 DEF CrawlPage
  <2>2. CrawlProgress'
    BY <1>1, <1>5, CrawlGoesOn
  <2>3. PacksConverge' /\ DocumentProgress' /\ ScanIsComplete'
    BY <1>2, <2>1 DEF PacksConverge, DocumentProgress, ScanIsComplete
  <2>4. QED
    BY <1>2, <2>2, <2>3 DEF RulesIInv
<1>6. CASE ReadDocument \/ TakeNode \/ ReadArticles
  <2>1. question.kind = "document"
    BY <1>6 DEF ReadDocument, TakeNode, ReadArticles, IsTree
  <2>2. DocumentProgress'
    BY <1>1, <1>6, DocumentIsRead, TreeIsTakenApart, TreeIsRead
  <2>3. PacksConverge' /\ ScanIsComplete' /\ CrawlProgress'
    BY <1>2, <2>1 DEF PacksConverge, ScanIsComplete, CrawlProgress
  <2>4. QED
    BY <1>2, <2>2, <2>3 DEF RulesIInv
<1>7. CASE UNCHANGED ruleVars
  <2>1. question' = question /\ answer' = answer /\ next' = next
    BY <1>7 DEF ruleVars
  <2>2. PacksConverge' = PacksConverge
    BY <2>1 DEF PacksConverge
  <2>3. ScanIsComplete' = ScanIsComplete
    BY <2>1 DEF ScanIsComplete
  <2>4. CrawlProgress' = CrawlProgress
    BY <2>1 DEF CrawlProgress
  <2>5. DocumentProgress' = DocumentProgress
    BY <2>1 DEF DocumentProgress
  <2>6. QED
    BY <1>1, <1>2, <2>2, <2>3, <2>4, <2>5 DEF RulesIInv
<1>8. QED
  BY <1>3, <1>4, <1>5, <1>6, <1>7 DEF RulesNext

(* Every reachable state of the rules answers one of the questions, the page, the *)
(* document or the index that has been read as promised; of a tree the parts up to   *)
(* some one are left, and a crawl has read the pages up to the one that comes next.   *)
THEOREM RulesSpecIInv == RulesSpec => []RulesIInv
BY RulesInitIInv, RulesNextIInv, PTL DEF RulesSpec

(* However a reference is packed, for any table of attributes, any data and any   *)
(* number of pieces, the catalogue gets one cigar with the weight of one piece, on *)
(* one line, and, where the page's own data tells them, one price and image         *)
(* (extraction_mapping.py:184-372; test_packaging_convergence.py).                   *)
THEOREM PackagingConverges == RulesSpec => []PacksConverge
<1>1. RulesIInv => PacksConverge
  BY DEF RulesIInv
<1>2. QED
  BY <1>1, RulesSpecIInv, PTL

(* A tree that has been read gives the list, and so does any other document.       *)
LEMMA ListIsExtracted == RulesIInv => FormsAgree
<1> SUFFICES ASSUME RulesIInv, question.kind = "document", next = None PROVE FormsAgree
  BY DEF FormsAgree
<1>1. question \in Documents /\ DocumentProgress
  BY QuestionKinds DEF RulesIInv
<1>2. CASE ~IsTree(question)
  BY <1>1, <1>2, AgreementSuffices DEF DocumentProgress
<1>3. CASE IsTree(question)
  <2>1. IsTaken(question, answer, None)
    BY <1>1, <1>3 DEF DocumentProgress
  <2>2. None \notin Seq(Nodes(question)) /\ <<Tree(question)>> \in Seq(Nodes(question))
    BY <1>1, NodesOfTree
  <2>3. \A k \in 0..Len(question.parts) : FirstSections(question, k) \in Seq(Nodes(question))
    BY <1>1, LastSection
  <2>4. \A k \in 1..Len(question.parts) :
           Append(FirstSections(question, k - 1), ArticleOf(question, k)) \in Seq(Nodes(question))
    <3> TAKE k \in 1..Len(question.parts)
    <3>1. k \in 0..Len(question.parts) /\ k # 0
      BY <1>1, NodesOfTree
    <3>2. FirstSections(question, k - 1) \in Seq(Nodes(question)) /\ ArticleOf(question, k) \in Nodes(question)
      BY <1>1, <3>1, LastSection, NodesOfTree
    <3>3. QED
      BY <3>2, FrontOfAppend
  <2>5. Agrees(answer, ListOf(question), question)
    BY <2>1, <2>2, <2>3, <2>4 DEF IsTaken
  <2>6. QED
    BY <2>5, AgreementSuffices
<1>4. QED
  BY <1>2, <1>3

(* However a list is published, as tables of a page, articles of a tree, pages of a *)
(* PDF or rows of a spreadsheet, whatever its articles, its columns and where it is  *)
(* cut, every article is extracted, once and in order, with its brand, product,       *)
(* price and dates (the extractors; tests/infrastructure/customs/).                     *)
THEOREM EveryFormIsRead == RulesSpec => []FormsAgree
<1>1. RulesIInv => FormsAgree
  BY ListIsExtracted
<1>2. QED
  BY <1>1, RulesSpecIInv, PTL

(* A finished crawl has read every page, and of each page every product once.     *)
LEMMA CrawlIsComplete == RulesIInv => CrawlSeesTheShop
<1> SUFFICES ASSUME RulesIInv, question.kind = "shop", next \notin 1..Len(question.pages)
             PROVE  /\ answer = ProductsUpTo(question, LastPage(question))
                    /\ \A k \in 1..LastPage(question) :
                          LET links == LinksOf(question, k) IN
                          /\ IsInjective(UrlsOf(links))
                          /\ Range(UrlsOf(links)) =
                                {links[i].url : i \in {j \in 1..Len(links) : links[j].product}}
  BY DEF CrawlSeesTheShop
<1>1. question \in Shops
  BY QuestionKinds DEF RulesIInv
<1>2. LastPage(question) \in Nat /\ LastPage(question) <= Len(question.pages) /\ Len(question.pages) \in Nat
  BY <1>1, ShopTypes
<1>3. answer = ProductsUpTo(question, LastPage(question))
  BY <1>2 DEF RulesIInv, CrawlProgress
<1>4. \A k \in 1..LastPage(question) : k \in 1..Len(question.pages)
  BY <1>2
<1>5. QED
  BY <1>1, <1>3, <1>4, ProductsOfPage

(* Of any index of publications, whatever it holds and however it is cut into      *)
(* pages, and of any shop that numbers its pages, a scan that reads to the end       *)
(* misses nothing and repeats nothing that the code promises not to                  *)
(* (discovery adapters; mistercigar.py:46-130, cigarpassion.py:61-99).                *)
THEOREM ReadingIsComplete == RulesSpec => []ScansAreComplete
<1>1. RulesIInv => ScansAreComplete
  BY CrawlIsComplete DEF RulesIInv, ScansAreComplete
<1>2. QED
  BY <1>1, RulesSpecIInv, PTL
=============================================================================
