------------------------------ MODULE DataLemmas ------------------------------
(***************************************************************************)
(* Facts about data that the proofs of several components need: minima,    *)
(* induction over a set of numbers or of finite sets, filtered lists, and  *)
(* sums over a finite set.  The induction principles speak of a set        *)
(* instead of a predicate: the provers can be given a set, but not an      *)
(* operator.                                                               *)
(***************************************************************************)
EXTENDS Integers, Sequences, FiniteSetsExt, Functions, Filters,
        WellFoundedInduction, FiniteSetTheorems, SequenceTheorems, TLAPS

(***************************************************************************)
(* Minima, maxima and induction.                                           *)
(***************************************************************************)

\* A set of numbers that is not empty has a least element, which is its Min.
LEMMA MinProperties ==
  ASSUME NEW T \in SUBSET Nat, T # {}
  PROVE  Min(T) \in T /\ \A n \in T : Min(T) <= n
<1>1. PICK m \in T : \A n \in T : ~ (<<n, m>> \in OpToRel(<, Nat))
  BY WFMin, NatLessThanWellFounded
<1>2. \A n \in T : ~ (n < m) BY <1>1 DEF OpToRel
<1>3. \E k \in T : \A n \in T : k <= n BY <1>2
<1> QED BY <1>3 DEF Min

\* A bounded set of numbers has a greatest element, which is its Max.
LEMMA MaxProperties ==
  ASSUME NEW T \in SUBSET Nat, T # {}, NEW bound \in Nat,
         \A n \in T : n <= bound
  PROVE  Max(T) \in T /\ \A n \in T : n <= Max(T)
<1> DEFINE gaps == {bound - n : n \in T}
<1>1. gaps \in SUBSET Nat /\ gaps # {}
  <2>1. \A n \in T : bound - n \in Nat OBVIOUS
  <2> QED BY <2>1
<1>2. Min(gaps) \in gaps /\ \A g \in gaps : Min(gaps) <= g
  BY <1>1, MinProperties
<1>3. PICK m \in T : Min(gaps) = bound - m BY <1>2
<1>4. \A n \in T : bound - m <= bound - n BY <1>2, <1>3
<1>5. \E k \in T : \A n \in T : k >= n BY <1>4
<1>6. Max(T) \in T /\ \A n \in T : Max(T) >= n BY <1>5 DEF Max
<1> QED BY <1>6

\* Induction over the numbers.
LEMMA NatSetInduction ==
  ASSUME NEW S, 0 \in S, \A n \in Nat : n \in S => n + 1 \in S
  PROVE  Nat \subseteq S
<1> SUFFICES ASSUME Nat \ S # {} PROVE FALSE OBVIOUS
<1>1. Min(Nat \ S) \in Nat \ S /\ \A n \in Nat \ S : Min(Nat \ S) <= n
  BY MinProperties
<1>2. PICK m \in Nat \ S : \A n \in Nat \ S : m <= n BY <1>1
<1>3. m # 0 /\ m - 1 \in Nat BY <1>2
<1>4. m - 1 \in S BY <1>2, <1>3
<1> QED BY <1>2, <1>3, <1>4

\* Induction over the subsets of a finite set, from smaller to larger ones: a
\* collection that contains every set all of whose proper subsets it contains
\* contains them all.
LEMMA SubsetInduction ==
  ASSUME NEW S, IsFiniteSet(S), NEW C,
         \A T \in SUBSET S : (\A x \in T : T \ {x} \in C) => T \in C
  PROVE  \A T \in SUBSET S : T \in C
<1> DEFINE N == {n \in Nat : \A T \in SUBSET S : Cardinality(T) = n => T \in C}
<1>1. \A T \in SUBSET S : IsFiniteSet(T) /\ Cardinality(T) \in Nat
  BY FS_Subset, FS_CardinalityType
<1>2. 0 \in N
  <2> SUFFICES ASSUME NEW T \in SUBSET S, Cardinality(T) = 0 PROVE T \in C
    OBVIOUS
  <2>1. T = {} BY <1>1, FS_EmptySet
  <2> QED BY <2>1
<1>3. ASSUME NEW n \in Nat, n \in N PROVE n + 1 \in N
  <2> SUFFICES ASSUME NEW T \in SUBSET S, Cardinality(T) = n + 1 PROVE T \in C
    OBVIOUS
  <2>1. ASSUME NEW x \in T PROVE T \ {x} \in C
    <3>1. Cardinality(T \ {x}) = n BY <1>1, FS_RemoveElement
    <3> QED BY <1>3, <3>1
  <2> QED BY <2>1
<1> HIDE DEF N
<1>4. Nat \subseteq N BY <1>2, <1>3, NatSetInduction
<1> QED BY <1>1, <1>4 DEF N

\* What is left of a sequence from a position on.
LEMMA DropProperties ==
  ASSUME NEW S, NEW s \in Seq(S), NEW m \in 1..(Len(s) + 1)
  PROVE  /\ SubSeq(s, m, Len(s)) \in Seq(S)
         /\ Len(SubSeq(s, m, Len(s))) = Len(s) - m + 1
         /\ DOMAIN SubSeq(s, m, Len(s)) = 1..(Len(s) - m + 1)
         /\ \A j \in 1..(Len(s) - m + 1) :
              SubSeq(s, m, Len(s))[j] = s[m + j - 1]
<1>1. /\ Len(s) \in Nat /\ m \in Nat /\ m <= Len(s) + 1
      /\ \A i \in m..Len(s) : s[i] \in S
  BY LenProperties, ElementOfSeq
<1>2. CASE m <= Len(s)
  <2>1. \A i \in m..Len(s) : i \in 1..Len(s) BY <1>1
  <2>2. m \in 1..(Len(s) + 1) /\ Len(s) \in (m - 1)..Len(s) BY <1>1, <1>2
  <2>3. /\ SubSeq(s, m, Len(s)) \in Seq(S)
        /\ Len(SubSeq(s, m, Len(s))) = Len(s) - m + 1
        /\ \A j \in 1..(Len(s) - m + 1) :
             SubSeq(s, m, Len(s))[j] = s[m + j - 1]
    BY <2>2, SubSeqProperties
  <2> QED BY <2>3, LenProperties
<1>3. CASE m = Len(s) + 1
  <2>1. SubSeq(s, m, Len(s)) = <<>> BY <1>1, <1>3
  <2> QED BY <1>1, <1>3, <2>1, EmptySeq
<1> QED BY <1>1, <1>2, <1>3

(***************************************************************************)
(* Filtered lists.                                                         *)
(***************************************************************************)
\* k is what is left of the first n elements of s: their positions, in order.
Picks(k, s, S, n) ==
  \E h \in [1..Len(k) -> 1..n] :
    /\ \A i, j \in 1..Len(k) : i < j => h[i] < h[j]
    /\ \A i \in 1..Len(k) : k[i] = s[h[i]] /\ s[h[i]] \in S
    /\ \A m \in 1..n : s[m] \in S => \E i \in 1..Len(k) : h[i] = m

\* One more element is taken or passed over.
LEMMA PicksOneMore ==
  ASSUME NEW T, NEW s \in Seq(T), NEW S, NEW n \in Nat, n + 1 \in 1..Len(s),
         NEW k \in Seq(T), Picks(k, s, S, n)
  PROVE  IF s[n + 1] \in S
         THEN Append(k, s[n + 1]) \in Seq(T) /\ Picks(Append(k, s[n + 1]), s, S, n + 1)
         ELSE Picks(k, s, S, n + 1)
<1>1. PICK h \in [1..Len(k) -> 1..n] :
        /\ \A i, j \in 1..Len(k) : i < j => h[i] < h[j]
        /\ \A i \in 1..Len(k) : k[i] = s[h[i]] /\ s[h[i]] \in S
        /\ \A m \in 1..n : s[m] \in S => \E i \in 1..Len(k) : h[i] = m
  BY DEF Picks
<1>2. s[n + 1] \in T OBVIOUS
<1>3. Len(k) \in Nat OBVIOUS
<1>4. CASE s[n + 1] \in S
  <2> DEFINE e == Append(k, s[n + 1])
             g == [i \in 1..(Len(k) + 1) |-> IF i = Len(k) + 1 THEN n + 1 ELSE h[i]]
  <2>1. /\ e \in Seq(T) /\ Len(e) = Len(k) + 1
        /\ \A i \in 1..Len(k) : e[i] = k[i]
        /\ e[Len(k) + 1] = s[n + 1]
    BY <1>2
  <2>2. /\ \A i \in 1..Len(k) : g[i] = h[i] /\ h[i] \in 1..n
        /\ g[Len(k) + 1] = n + 1
    BY <1>3
  <2>3. g \in [1..(Len(k) + 1) -> 1..(n + 1)]
    BY <2>2, <1>3
  <2> HIDE DEF e, g
  <2>4. \A i, j \in 1..Len(e) : i < j => g[i] < g[j]
    BY <1>1, <1>3, <2>1, <2>2
  <2>5. \A i \in 1..Len(e) : e[i] = s[g[i]] /\ s[g[i]] \in S
    <3> SUFFICES ASSUME NEW i \in 1..Len(e) PROVE e[i] = s[g[i]] /\ s[g[i]] \in S
      OBVIOUS
    <3>1. CASE i = Len(k) + 1 BY <1>4, <2>1, <2>2, <3>1
    <3>2. CASE i # Len(k) + 1
      <4>1. i \in 1..Len(k) BY <1>3, <2>1, <3>2
      <4> QED BY <1>1, <2>1, <2>2, <4>1
    <3> QED BY <3>1, <3>2
  <2>6. ASSUME NEW m \in 1..(n + 1), s[m] \in S PROVE \E i \in 1..Len(e) : g[i] = m
    <3>1. CASE m = n + 1 BY <1>3, <2>1, <2>2, <3>1
    <3>2. CASE m # n + 1
      <4>1. m \in 1..n BY <3>2
      <4>2. PICK i \in 1..Len(k) : h[i] = m BY <1>1, <2>6, <4>1
      <4> QED BY <1>3, <2>1, <2>2, <4>2
    <3> QED BY <3>1, <3>2
  <2>7. Picks(e, s, S, n + 1)
    <3>1. g \in [1..Len(e) -> 1..(n + 1)] BY <2>1, <2>3
    <3> QED BY <3>1, <2>4, <2>5, <2>6 DEF Picks
  <2> QED BY <1>4, <2>1, <2>7 DEF e
<1>5. CASE s[n + 1] \notin S
  <2>1. h \in [1..Len(k) -> 1..(n + 1)]
    <3>1. 1..n \subseteq 1..(n + 1) OBVIOUS
    <3> QED BY <3>1
  <2>2. ASSUME NEW m \in 1..(n + 1), s[m] \in S PROVE \E i \in 1..Len(k) : h[i] = m
    <3>1. m # n + 1 BY <1>5, <2>2
    <3>2. m \in 1..n BY <3>1
    <3> QED BY <1>1, <2>2, <3>2
  <2>3. Picks(k, s, S, n + 1) BY <1>1, <2>1, <2>2 DEF Picks
  <2> QED BY <1>5, <2>3
<1> QED BY <1>4, <1>5

\* The functions by which Filter is defined, up to a position of the list.
Rule(g, s, S, n) ==
  g = [m \in 0..n |-> IF m = 0 THEN <<>>
                      ELSE IF s[m] \in S THEN Append(g[m - 1], s[m]) ELSE g[m - 1]]
Filters(T, s, S, n) ==
  \E g \in [0..n -> Seq(T)] :
    Rule(g, s, S, n) /\ \A m \in 0..n : Picks(g[m], s, S, m)

\* A filtered list has the elements that pass, in the order of the list and from
\* different places of it.
LEMMA FilterProperties ==
  ASSUME NEW T, NEW s \in Seq(T), NEW S
  PROVE  Filter(s, S) \in Seq(T) /\ Picks(Filter(s, S), s, S, Len(s))
<1> DEFINE N == {n \in Nat : n <= Len(s) => Filters(T, s, S, n)}
<1>1. 0 \in N
  <2> DEFINE g == [m \in 0..0 |-> <<>>]
  <2>1. g \in [0..0 -> Seq(T)] /\ Rule(g, s, S, 0) BY DEF Rule
  <2>2. Picks(<<>>, s, S, 0)
    <3> DEFINE h == [i \in 1..0 |-> i]
    <3>1. h \in [1..Len(<<>>) -> 1..0] /\ 1..Len(<<>>) = {} /\ 1..0 = {} OBVIOUS
    <3> HIDE DEF h
    <3> QED BY <3>1 DEF Picks
  <2>3. \A m \in 0..0 : g[m] = <<>> /\ m = 0 OBVIOUS
  <2> HIDE DEF g
  <2> QED BY <2>1, <2>2, <2>3 DEF Filters
<1>2. ASSUME NEW n \in Nat, n \in N PROVE n + 1 \in N
  <2> SUFFICES ASSUME n + 1 <= Len(s) PROVE Filters(T, s, S, n + 1) OBVIOUS
  <2>1. n <= Len(s) /\ n + 1 \in 1..Len(s) OBVIOUS
  <2>2. PICK g \in [0..n -> Seq(T)] : Rule(g, s, S, n) /\ \A m \in 0..n : Picks(g[m], s, S, m)
    BY <1>2, <2>1 DEF Filters
  <2> DEFINE last == IF s[n + 1] \in S THEN Append(g[n], s[n + 1]) ELSE g[n]
             e == [m \in 0..(n + 1) |-> IF m = n + 1 THEN last ELSE g[m]]
  <2>3. n \in 0..n /\ g[n] \in Seq(T) /\ Picks(g[n], s, S, n) BY <2>2
  <2>4. last \in Seq(T) /\ Picks(last, s, S, n + 1)
    BY <2>1, <2>3, PicksOneMore
  <2> HIDE DEF last
  <2>5. /\ \A m \in 0..n : e[m] = g[m] /\ m # n + 1
        /\ e[n + 1] = last
        /\ \A m \in 0..(n + 1) : m = n + 1 \/ m \in 0..n
        /\ \A m \in 0..(n + 1) : m # 0 => m - 1 \in 0..n
    OBVIOUS
  <2>6. e \in [0..(n + 1) -> Seq(T)] BY <2>4, <2>5
  <2>7. \A m \in 0..(n + 1) :
          e[m] = IF m = 0 THEN <<>>
                 ELSE IF s[m] \in S THEN Append(e[m - 1], s[m]) ELSE e[m - 1]
    <3> SUFFICES ASSUME NEW m \in 0..(n + 1)
                 PROVE  e[m] = IF m = 0 THEN <<>>
                               ELSE IF s[m] \in S THEN Append(e[m - 1], s[m]) ELSE e[m - 1]
      OBVIOUS
    <3> HIDE DEF e
    <3>1. CASE m = n + 1
      <4>1. m # 0 /\ m - 1 = n BY <3>1
      <4>2. e[m - 1] = g[n] BY <2>3, <2>5, <4>1
      <4> QED BY <2>5, <3>1, <4>1, <4>2 DEF last
    <3>2. CASE m \in 0..n
      <4>1. g[m] = IF m = 0 THEN <<>>
                   ELSE IF s[m] \in S THEN Append(g[m - 1], s[m]) ELSE g[m - 1]
        BY <2>2, <3>2 DEF Rule
      <4>2. m # 0 => e[m - 1] = g[m - 1] BY <2>5
      <4> QED BY <2>5, <3>2, <4>1, <4>2
    <3> QED BY <2>5, <3>1, <3>2
  <2>8. Rule(e, s, S, n + 1)
    <3> HIDE DEF e
    <3> DEFINE f == [m \in 0..(n + 1) |-> IF m = 0 THEN <<>>
                        ELSE IF s[m] \in S THEN Append(e[m - 1], s[m]) ELSE e[m - 1]]
    <3>1. \A m \in 0..(n + 1) : e[m] = f[m] BY <2>7
    <3>2. e = f
      <4>1. DOMAIN e = 0..(n + 1) /\ e = [m \in DOMAIN e |-> e[m]] BY <2>6
      <4>2. DOMAIN f = 0..(n + 1) /\ f = [m \in DOMAIN f |-> f[m]] OBVIOUS
      <4> HIDE DEF f
      <4> QED BY <3>1, <4>1, <4>2
    <3> QED BY <3>2 DEF Rule
  <2>9. \A m \in 0..(n + 1) : Picks(e[m], s, S, m) BY <2>2, <2>4, <2>5
  <2> HIDE DEF e
  <2> QED BY <2>6, <2>8, <2>9 DEF Filters
<1> HIDE DEF N
<1>3. Len(s) \in Nat OBVIOUS
<1>4. Len(s) \in N BY <1>1, <1>2, <1>3, NatSetInduction
<1>5. PICK g \in [0..Len(s) -> Seq(T)] :
        Rule(g, s, S, Len(s)) /\ \A m \in 0..Len(s) : Picks(g[m], s, S, m)
  BY <1>3, <1>4 DEF N, Filters
<1> DEFINE kept == CHOOSE f : Rule(f, s, S, Len(s))
<1>6. Rule(kept, s, S, Len(s))
  <2> QED BY <1>5
<1>7. Filter(s, S) = kept[Len(s)] BY DEF Filter, Rule
<1> DEFINE K == {n \in Nat : n <= Len(s) => kept[n] = g[n]}
<1> HIDE DEF kept
<1>8. 0 \in K BY <1>3, <1>5, <1>6 DEF Rule
<1>9. ASSUME NEW n \in Nat, n \in K PROVE n + 1 \in K
  <2> SUFFICES ASSUME n + 1 <= Len(s) PROVE kept[n + 1] = g[n + 1] OBVIOUS
  <2>1. /\ n + 1 \in 0..Len(s) /\ n + 1 # 0 /\ (n + 1) - 1 = n /\ n <= Len(s)
    BY <1>3
  <2>2. kept[n] = g[n] BY <1>9, <2>1
  <2>3. kept[n + 1] = IF s[n + 1] \in S THEN Append(kept[n], s[n + 1]) ELSE kept[n]
    BY <1>6, <2>1 DEF Rule
  <2>4. g[n + 1] = IF s[n + 1] \in S THEN Append(g[n], s[n + 1]) ELSE g[n]
    BY <1>5, <2>1 DEF Rule
  <2> QED BY <2>2, <2>3, <2>4
<1> HIDE DEF K
<1>10. Len(s) \in K BY <1>3, <1>8, <1>9, NatSetInduction
<1>11. kept[Len(s)] = g[Len(s)] BY <1>3, <1>10 DEF K
<1>12. Len(s) \in 0..Len(s) BY <1>3
<1> QED BY <1>5, <1>7, <1>11, <1>12

\* What every element of a filtered list is.
LEMMA FilterElements ==
  ASSUME NEW T, NEW s \in Seq(T), NEW S
  PROVE  /\ Filter(s, S) \in Seq(T)
         /\ \A i \in 1..Len(Filter(s, S)) :
              Filter(s, S)[i] \in S /\ \E m \in 1..Len(s) : Filter(s, S)[i] = s[m]
<1>1. Filter(s, S) \in Seq(T) /\ Picks(Filter(s, S), s, S, Len(s)) BY FilterProperties
<1>2. Len(s) \in Nat /\ Len(Filter(s, S)) \in Nat BY <1>1
<1> QED BY <1>1, <1>2 DEF Picks

\* A list without repetitions has none after it was filtered.
LEMMA FilterInjective ==
  ASSUME NEW T, NEW s \in Seq(T), NEW S,
         \A i, j \in DOMAIN s : s[i] = s[j] => i = j
  PROVE  \A i, j \in 1..Len(Filter(s, S)) : Filter(s, S)[i] = Filter(s, S)[j] => i = j
<1> DEFINE k == Filter(s, S)
<1>1. k \in Seq(T) /\ Picks(k, s, S, Len(s)) BY FilterProperties
<1> HIDE DEF k
<1>2. PICK h \in [1..Len(k) -> 1..Len(s)] :
        /\ \A i, j \in 1..Len(k) : i < j => h[i] < h[j]
        /\ \A i \in 1..Len(k) : k[i] = s[h[i]]
  BY <1>1 DEF Picks
<1>3. ASSUME NEW i \in 1..Len(k), NEW j \in 1..Len(k), k[i] = k[j] PROVE i = j
  <2>1. h[i] \in 1..Len(s) /\ h[j] \in 1..Len(s) /\ s[h[i]] = s[h[j]] BY <1>2, <1>3
  <2>2. h[i] = h[j] BY <2>1
  <2>3. ~(i < j) /\ ~(j < i) BY <1>2, <2>1, <2>2
  <2>4. Len(k) \in Nat BY <1>1
  <2> QED BY <2>3, <2>4
<1> QED BY <1>3 DEF k

(***************************************************************************)
(* Sums of a function over a finite set.                                   *)
(***************************************************************************)
SumOver(f, S) == MapThenSumSet(LAMBDA x : f[x], S)

Chosen(T) == CHOOSE x \in T : TRUE
Rest(T) == T \ {Chosen(T)}

\* g adds up the sets of a collection.
AddsUp(g, f, sets) ==
  \A T \in sets : g[T] = IF T = {} THEN 0 ELSE f[Chosen(T)] + g[Rest(T)]

\* Taking the chosen element out of a set leaves a smaller one.
LEMMA RestProperties ==
  ASSUME NEW T, IsFiniteSet(T), T # {}
  PROVE  /\ Chosen(T) \in T /\ Rest(T) \subseteq T
         /\ IsFiniteSet(Rest(T)) /\ Cardinality(T) \in Nat
         /\ Cardinality(Rest(T)) = Cardinality(T) - 1
<1>1. Chosen(T) \in T BY DEF Chosen
<1> QED BY <1>1, FS_RemoveElement, FS_CardinalityType DEF Rest

\* A function that adds up every subset of a finite set exists.
LEMMA AddsUpExists ==
  ASSUME NEW S, IsFiniteSet(S), NEW f, \A x \in S : f[x] \in Nat
  PROVE  \E g \in [SUBSET S -> Nat] : AddsUp(g, f, SUBSET S)
<1> DEFINE Small(n) == {T \in SUBSET S : Cardinality(T) <= n}
           N == {n \in Nat : \E g \in [Small(n) -> Nat] : AddsUp(g, f, Small(n))}
<1>1. \A T \in SUBSET S : IsFiniteSet(T) /\ Cardinality(T) \in Nat
  BY FS_Subset, FS_CardinalityType
<1>2. 0 \in N
  <2>1. \A T \in Small(0) : T = {} BY <1>1, FS_EmptySet
  <2>2. AddsUp([T \in Small(0) |-> 0], f, Small(0)) BY <2>1 DEF AddsUp
  <2> QED BY <2>2
<1>3. ASSUME NEW n \in Nat, n \in N PROVE n + 1 \in N
  <2>1. PICK g \in [Small(n) -> Nat] : AddsUp(g, f, Small(n)) BY <1>3
  <2> DEFINE h == [T \in Small(n + 1) |->
                     IF T = {} THEN 0 ELSE f[Chosen(T)] + g[Rest(T)]]
  <2>2. \A T \in Small(n + 1) : T # {} =>
          Chosen(T) \in S /\ Rest(T) \in Small(n)
    BY <1>1, RestProperties
  <2>3. h \in [Small(n + 1) -> Nat] BY <2>1, <2>2
  <2>4. \A T \in Small(n) : T \in Small(n + 1) BY <1>1
  <2>5. \A T \in Small(n) : h[T] = g[T] BY <2>1, <2>4 DEF AddsUp
  <2>6. \A T \in Small(n + 1) :
          h[T] = IF T = {} THEN 0 ELSE f[Chosen(T)] + h[Rest(T)]
    BY <2>2, <2>5
  <2>7. AddsUp(h, f, Small(n + 1)) BY <2>6 DEF AddsUp
  <2> HIDE DEF Small, h
  <2> QED BY <2>3, <2>7
<1> HIDE DEF N
<1>4. Cardinality(S) \in N BY <1>1, <1>2, <1>3, NatSetInduction
<1>5. PICK g \in [Small(Cardinality(S)) -> Nat] :
        AddsUp(g, f, Small(Cardinality(S)))
  BY <1>4 DEF N
<1>6. Small(Cardinality(S)) = SUBSET S BY <1>1, FS_Subset
<1> QED BY <1>5, <1>6

\* A sum is what such a function gives.
LEMMA SumIsAdded ==
  ASSUME NEW S, IsFiniteSet(S), NEW f, \A x \in S : f[x] \in Nat
  PROVE  \E g \in [SUBSET S -> Nat] :
           AddsUp(g, f, SUBSET S) /\ SumOver(f, S) = g[S]
<1> DEFINE Equation(g) ==
             g = [T \in SUBSET S |->
                    IF T = {} THEN 0 ELSE f[CHOOSE x \in T : TRUE]
                                          + g[T \ {CHOOSE x \in T : TRUE}]]
           iter == CHOOSE g : Equation(g)
<1>1. SumOver(f, S) = iter[S]
  BY DEF SumOver, MapThenSumSet, MapThenFoldSet
<1>2. PICK g \in [SUBSET S -> Nat] : AddsUp(g, f, SUBSET S) BY AddsUpExists
<1>3. Equation(g) BY <1>2 DEF AddsUp, Chosen, Rest
<1>4. Equation(iter) BY <1>3
<1> HIDE DEF iter
<1>5. AddsUp(iter, f, SUBSET S) BY <1>4 DEF AddsUp, Chosen, Rest
<1>6. iter = [T \in SUBSET S |-> iter[T]] BY <1>4
<1> DEFINE C == {T \in SUBSET S : iter[T] \in Nat}
<1>7. \A T \in SUBSET S : (\A x \in T : T \ {x} \in C) => T \in C
  <2> SUFFICES ASSUME NEW T \in SUBSET S, \A x \in T : T \ {x} \in C
               PROVE  iter[T] \in Nat
    OBVIOUS
  <2>1. CASE T = {} BY <1>5, <2>1 DEF AddsUp
  <2>2. CASE T # {}
    <3>1. Chosen(T) \in T /\ Rest(T) \in C BY <2>2 DEF Chosen, Rest
    <3> QED BY <1>5, <2>2, <3>1 DEF AddsUp
  <2> QED BY <2>1, <2>2
<1> HIDE DEF C
<1>8. \A T \in SUBSET S : T \in C BY <1>7, SubsetInduction
<1>9. iter \in [SUBSET S -> Nat] BY <1>6, <1>8 DEF C
<1> QED BY <1>1, <1>5, <1>9

\* The sum of the empty set, and the sum of another one by any of its elements.
LEMMA SumEmpty == ASSUME NEW f PROVE SumOver(f, {}) = 0
<1>1. PICK g \in [SUBSET {} -> Nat] :
        AddsUp(g, f, SUBSET {}) /\ SumOver(f, {}) = g[{}]
  BY SumIsAdded, FS_EmptySet
<1> QED BY <1>1 DEF AddsUp

\* The sum of a set, one element at a time, in the order of the fold.
LEMMA SumChosen ==
  ASSUME NEW S, IsFiniteSet(S), S # {}, NEW f, \A x \in S : f[x] \in Nat
  PROVE  SumOver(f, S) = f[Chosen(S)] + SumOver(f, Rest(S))
<1>1. PICK g \in [SUBSET S -> Nat] :
        AddsUp(g, f, SUBSET S) /\ SumOver(f, S) = g[S]
  BY SumIsAdded
<1>2. Chosen(S) \in S /\ Rest(S) \subseteq S /\ IsFiniteSet(Rest(S))
  BY RestProperties
<1>3. PICK h \in [SUBSET Rest(S) -> Nat] :
        AddsUp(h, f, SUBSET Rest(S)) /\ SumOver(f, Rest(S)) = h[Rest(S)]
  BY <1>2, SumIsAdded
<1> DEFINE C == {T \in SUBSET Rest(S) : h[T] = g[T]}
<1>4. ASSUME NEW T \in SUBSET Rest(S), \A x \in T : T \ {x} \in C
      PROVE  T \in C
  <2>1. T \in SUBSET S BY <1>2
  <2>2. CASE T = {} BY <1>1, <1>3, <2>1, <2>2 DEF AddsUp
  <2>3. CASE T # {}
    <3>1. Rest(T) \in C BY <1>4, <2>3 DEF Chosen, Rest
    <3> QED BY <1>1, <1>3, <2>1, <2>3, <3>1 DEF AddsUp
  <2> QED BY <2>2, <2>3
<1> HIDE DEF C
<1>5. \A T \in SUBSET Rest(S) : T \in C BY <1>2, <1>4, SubsetInduction
<1>6. h[Rest(S)] = g[Rest(S)] BY <1>5 DEF C
<1> QED BY <1>1, <1>3, <1>6 DEF AddsUp

\* A sum of naturals is a natural.
LEMMA SumType ==
  ASSUME NEW S, IsFiniteSet(S), NEW f, \A x \in S : f[x] \in Nat
  PROVE  SumOver(f, S) \in Nat
<1>1. PICK g \in [SUBSET S -> Nat] : SumOver(f, S) = g[S] BY SumIsAdded
<1> QED BY <1>1

\* Any element may be added last.
LEMMA SumRemove ==
  ASSUME NEW S, IsFiniteSet(S), NEW f, \A x \in S : f[x] \in Nat
  PROVE  \A x \in S : SumOver(f, S) = f[x] + SumOver(f, S \ {x})
<1> DEFINE C == {T \in SUBSET S :
                   \A x \in T : SumOver(f, T) = f[x] + SumOver(f, T \ {x})}
<1>1. \A T \in SUBSET S : IsFiniteSet(T) /\ SumOver(f, T) \in Nat
  BY FS_Subset, SumType
<1>2. ASSUME NEW T \in SUBSET S, \A x \in T : T \ {x} \in C
      PROVE  T \in C
  <2> SUFFICES ASSUME NEW x \in T
               PROVE  SumOver(f, T) = f[x] + SumOver(f, T \ {x})
    OBVIOUS
  <2> DEFINE c == Chosen(T)
  <2>1. c \in T /\ Rest(T) = T \ {c}
        /\ SumOver(f, T) = f[c] + SumOver(f, T \ {c})
    BY <1>1, RestProperties, SumChosen DEF Rest
  <2> HIDE DEF c
  <2>2. CASE x # c
    <3>1. SumOver(f, T \ {c}) = f[x] + SumOver(f, (T \ {c}) \ {x})
      BY <1>2, <2>1, <2>2
    <3>2. SumOver(f, T \ {x}) = f[c] + SumOver(f, (T \ {x}) \ {c})
      BY <1>2, <2>1, <2>2
    <3>3. SumOver(f, (T \ {c}) \ {x}) = SumOver(f, (T \ {x}) \ {c})
      <4>1. (T \ {c}) \ {x} = (T \ {x}) \ {c} OBVIOUS
      <4> QED BY <4>1, Zenon
    <3>4. SumOver(f, (T \ {x}) \ {c}) \in Nat /\ f[x] \in Nat /\ f[c] \in Nat
      BY <1>1, <2>1
    <3> QED BY <2>1, <3>1, <3>2, <3>3, <3>4
  <2> QED BY <2>1, <2>2
<1> HIDE DEF C
<1>3. \A T \in SUBSET S : T \in C BY <1>2, SubsetInduction
<1> QED BY <1>3 DEF C

\* Adding an element to the set adds its value to the sum.
LEMMA SumAdd ==
  ASSUME NEW S, IsFiniteSet(S), NEW x, x \notin S,
         NEW f, \A y \in S \union {x} : f[y] \in Nat
  PROVE  SumOver(f, S \union {x}) = f[x] + SumOver(f, S)
<1>1. IsFiniteSet(S \union {x}) BY FS_AddElement
<1>2. (S \union {x}) \ {x} = S OBVIOUS
<1>3. SumOver(f, S \union {x}) = f[x] + SumOver(f, (S \union {x}) \ {x})
  BY <1>1, SumRemove
<1> QED BY <1>2, <1>3

\* Sums of two functions over one set.
LEMMA SumBelow ==
  ASSUME NEW S, IsFiniteSet(S), NEW f, NEW g,
         \A x \in S : f[x] \in Nat /\ g[x] \in Nat /\ f[x] <= g[x]
  PROVE  SumOver(f, S) <= SumOver(g, S)
<1> DEFINE C == {T \in SUBSET S : SumOver(f, T) <= SumOver(g, T)}
<1>1. \A T \in SUBSET S : IsFiniteSet(T) BY FS_Subset
<1>2. ASSUME NEW T \in SUBSET S, \A x \in T : T \ {x} \in C PROVE T \in C
  <2>1. CASE T = {} BY <2>1, SumEmpty
  <2>2. CASE T # {}
    <3>1. PICK x \in T : TRUE BY <2>2
    <3>2. /\ SumOver(f, T) = f[x] + SumOver(f, T \ {x})
          /\ SumOver(g, T) = g[x] + SumOver(g, T \ {x})
      BY <1>1, SumRemove
    <3>3. SumOver(f, T \ {x}) \in Nat /\ SumOver(g, T \ {x}) \in Nat
      BY <1>1, SumType
    <3>4. SumOver(f, T \ {x}) <= SumOver(g, T \ {x}) BY <1>2
    <3> HIDE DEF C
    <3>5. SumOver(f, T) <= SumOver(g, T) BY <3>2, <3>3, <3>4
    <3> QED BY <3>5 DEF C
  <2> QED BY <2>1, <2>2
<1> HIDE DEF C
<1>3. \A T \in SUBSET S : T \in C BY <1>2, SubsetInduction
<1> QED BY <1>3 DEF C

\* A sum depends on the values of its elements only.
LEMMA SumEqual ==
  ASSUME NEW S, IsFiniteSet(S), NEW f, NEW g,
         \A x \in S : f[x] \in Nat /\ f[x] = g[x]
  PROVE  SumOver(f, S) = SumOver(g, S)
<1>1. SumOver(f, S) <= SumOver(g, S) BY SumBelow
<1>2. SumOver(g, S) <= SumOver(f, S) BY SumBelow
<1>3. SumOver(f, S) \in Nat /\ SumOver(g, S) \in Nat BY SumType
<1> QED BY <1>1, <1>2, <1>3

\* A sum of zeros is zero.
LEMMA SumZero ==
  ASSUME NEW S, IsFiniteSet(S), NEW f, \A x \in S : f[x] = 0
  PROVE  SumOver(f, S) = 0
<1> DEFINE C == {T \in SUBSET S : SumOver(f, T) = 0}
<1>1. \A T \in SUBSET S : IsFiniteSet(T) BY FS_Subset
<1>2. ASSUME NEW T \in SUBSET S, \A x \in T : T \ {x} \in C PROVE T \in C
  <2>1. CASE T = {} BY <2>1, SumEmpty
  <2>2. CASE T # {}
    <3>1. PICK x \in T : TRUE BY <2>2
    <3>2. SumOver(f, T) = f[x] + SumOver(f, T \ {x}) BY <1>1, SumRemove
    <3> QED BY <1>2, <3>2
  <2> QED BY <2>1, <2>2
<1> HIDE DEF C
<1>3. \A T \in SUBSET S : T \in C BY <1>2, SubsetInduction
<1> QED BY <1>3 DEF C

\* Sums over two disjoint sets.
LEMMA SumUnion ==
  ASSUME NEW S, NEW T, IsFiniteSet(S), IsFiniteSet(T), S \intersect T = {},
         NEW f, \A x \in S \union T : f[x] \in Nat
  PROVE  SumOver(f, S \union T) = SumOver(f, S) + SumOver(f, T)
<1> DEFINE C == {U \in SUBSET T :
                   SumOver(f, S \union U) = SumOver(f, S) + SumOver(f, U)}
<1>1. \A U \in SUBSET T : IsFiniteSet(U) /\ IsFiniteSet(S \union U)
  BY FS_Subset, FS_Union
<1>2. \A U \in SUBSET T : SumOver(f, U) \in Nat BY <1>1, SumType
<1>3. SumOver(f, S) \in Nat BY SumType
<1>4. ASSUME NEW U \in SUBSET T, \A x \in U : U \ {x} \in C PROVE U \in C
  <2>1. CASE U = {}
    <3>1. S \union U = S BY <2>1
    <3> QED BY <1>3, <2>1, <3>1, SumEmpty
  <2>2. CASE U # {}
    <3>1. PICK x \in U : TRUE BY <2>2
    <3>2. SumOver(f, U) = f[x] + SumOver(f, U \ {x}) BY <1>1, SumRemove
    <3>3. SumOver(f, S \union U) = f[x] + SumOver(f, (S \union U) \ {x})
      BY <1>1, <3>1, SumRemove
    <3>4. SumOver(f, (S \union U) \ {x}) = SumOver(f, S \union (U \ {x}))
      <4>1. (S \union U) \ {x} = S \union (U \ {x}) BY <3>1
      <4> QED BY <4>1, Zenon
    <3>5. SumOver(f, S \union (U \ {x})) = SumOver(f, S) + SumOver(f, U \ {x})
      BY <1>4
    <3>6. f[x] \in Nat /\ SumOver(f, U \ {x}) \in Nat BY <1>2
    <3> HIDE DEF C
    <3>7. SumOver(f, S \union U) = SumOver(f, S) + SumOver(f, U)
      BY <1>3, <3>2, <3>3, <3>4, <3>5, <3>6
    <3> QED BY <3>7 DEF C
  <2> QED BY <2>1, <2>2
<1> HIDE DEF C
<1>5. \A U \in SUBSET T : U \in C BY <1>4, SubsetInduction
<1> QED BY <1>5 DEF C

\* A larger set has a larger sum.
LEMMA SumSubset ==
  ASSUME NEW T, IsFiniteSet(T), NEW S \in SUBSET T,
         NEW f, \A x \in T : f[x] \in Nat
  PROVE  SumOver(f, S) <= SumOver(f, T)
<1>1. IsFiniteSet(S) /\ IsFiniteSet(T \ S) BY FS_Subset
<1>2. SumOver(f, S \union (T \ S)) = SumOver(f, T)
  <2>1. S \union (T \ S) = T OBVIOUS
  <2> QED BY <2>1, Zenon
<1>3. SumOver(f, S \union (T \ S)) = SumOver(f, S) + SumOver(f, T \ S)
  BY <1>1, SumUnion
<1>4. SumOver(f, S) \in Nat /\ SumOver(f, T \ S) \in Nat BY <1>1, SumType
<1> QED BY <1>2, <1>3, <1>4

\* Renaming the elements of a set one to one.
LEMMA SumRename ==
  ASSUME NEW S, IsFiniteSet(S), NEW h,
         \A x, y \in S : h[x] = h[y] => x = y,
         NEW f, NEW g, \A x \in S : f[x] \in Nat /\ f[x] = g[h[x]]
  PROVE  SumOver(f, S) = SumOver(g, {h[x] : x \in S})
<1> DEFINE image(T) == {h[x] : x \in T}
           C == {T \in SUBSET S : SumOver(f, T) = SumOver(g, image(T))}
<1>1. \A T \in SUBSET S : IsFiniteSet(T) /\ IsFiniteSet(image(T))
  <2> SUFFICES ASSUME NEW T \in SUBSET S
               PROVE  IsFiniteSet(T) /\ IsFiniteSet(image(T))
    OBVIOUS
  <2>1. IsFiniteSet(T) BY FS_Subset
  <2>2. [x \in T |-> h[x]] \in Surjection(T, image(T)) BY DEF Surjection
  <2> QED BY <2>1, <2>2, FS_Surjection
<1>2. ASSUME NEW T \in SUBSET S, \A x \in T : T \ {x} \in C PROVE T \in C
  <2>1. CASE T = {} BY <2>1, SumEmpty
  <2>2. CASE T # {}
    <3>1. PICK x \in T : TRUE BY <2>2
    <3>2. SumOver(f, T) = f[x] + SumOver(f, T \ {x}) BY <1>1, SumRemove
    <3>3. h[x] \in image(T) /\ \A y \in image(T) : g[y] \in Nat OBVIOUS
    <3>4. SumOver(g, image(T)) = g[h[x]] + SumOver(g, image(T) \ {h[x]})
      BY <1>1, <3>3, SumRemove
    <3>5. image(T) \ {h[x]} = image(T \ {x}) BY <3>1
    <3>6. SumOver(f, T \ {x}) = SumOver(g, image(T \ {x})) BY <1>2
    <3>7. f[x] = g[h[x]] OBVIOUS
    <3> HIDE DEF C, image
    <3>8. SumOver(f, T) = SumOver(g, image(T))
      BY <3>2, <3>4, <3>5, <3>6, <3>7
    <3> QED BY <3>8 DEF C
  <2> QED BY <2>1, <2>2
<1> HIDE DEF C
<1>3. \A T \in SUBSET S : T \in C BY <1>2, SubsetInduction
<1> QED BY <1>3 DEF C

\* A function that is raised at one element of the set.
LEMMA SumRaise ==
  ASSUME NEW S, IsFiniteSet(S), NEW D, S \subseteq D, NEW f \in [D -> Nat],
         NEW x \in S, NEW n \in Nat
  PROVE  SumOver([f EXCEPT ![x] = @ + n], S) = SumOver(f, S) + n
<1> DEFINE g == [f EXCEPT ![x] = @ + n]
<1>1. g \in [D -> Nat] /\ g[x] = f[x] + n /\ \A y \in S \ {x} : g[y] = f[y]
  OBVIOUS
<1> HIDE DEF g
<1>2. IsFiniteSet(S \ {x}) BY FS_RemoveElement
<1>3. /\ \A y \in S : f[y] \in Nat /\ g[y] \in Nat
      /\ \A y \in S \ {x} : g[y] \in Nat /\ g[y] = f[y]
  BY <1>1
<1>4. SumOver(f, S) = f[x] + SumOver(f, S \ {x}) BY <1>3, SumRemove
<1>5. SumOver(g, S) = g[x] + SumOver(g, S \ {x}) BY <1>3, SumRemove
<1>6. SumOver(g, S \ {x}) = SumOver(f, S \ {x}) BY <1>2, <1>3, SumEqual
<1>7. SumOver(f, S \ {x}) \in Nat BY <1>2, <1>3, SumType
<1>8. SumOver(g, S) = SumOver(f, S) + n BY <1>1, <1>3, <1>4, <1>5, <1>6, <1>7
<1> QED BY <1>8 DEF g
===============================================================================
