---------------------------- MODULE FindingsProofs ----------------------------
(***************************************************************************)
(* Numbers, lists and what module Findings picks from them by their ranks: *)
(* lemmas for the proofs about the modules that extend it.                 *)
(***************************************************************************)
EXTENDS Findings, FiniteSetTheorems, SequenceTheorems, WellFoundedInduction, TLAPS

-----------------------------------------------------------------------------
(* Numbers.                                                                *)

\* Some numbers have a least one.
LEMMA LeastNumber ==
  ASSUME NEW T \in SUBSET Nat, T # {}
  PROVE  \E i \in T : \A j \in T : i <= j
<1> DEFINE Below == {ss \in Nat \X Nat : ss[1] < ss[2]}
<1>1. IsWellFoundedOn(Below, Nat)
  BY NatLessThanWellFounded DEF OpToRel
<1>2. PICK i \in T : \A j \in T : <<j, i>> \notin Below
  BY <1>1, WFMin
<1>3. \A j \in T : ~(j < i)
  BY <1>2
<1> QED
  BY <1>3

\* Some of the first numbers have a greatest one.
LEMMA GreatestNumber ==
  ASSUME NEW n \in Nat, NEW T \in SUBSET (1 .. n), T # {}
  PROVE  \E i \in T : \A j \in T : j <= i
<1> DEFINE below == {n - i : i \in T}
<1>1. below \in SUBSET Nat /\ below # {}
  <2>1. \A i \in T : n - i \in Nat
    OBVIOUS
  <2> QED
    BY <2>1
<1>2. PICK d \in below : \A e \in below : d <= e
  <2> HIDE DEF below
  <2> QED
    BY <1>1, LeastNumber
<1>3. PICK i \in T : d = n - i
  BY <1>2
<1>4. \A j \in T : n - i <= n - j
  BY <1>2, <1>3
<1>5. \A j \in T : j <= i
  BY <1>4
<1> QED
  BY <1>5

LEMMA LeastIs ==
  ASSUME NEW S \in SUBSET Nat, S # {}
  PROVE  Min(S) \in S
<1>1. \E i \in S : \A j \in S : i <= j
  BY LeastNumber
<1> QED
  BY <1>1 DEF Min

-----------------------------------------------------------------------------
(* Lists.                                                                  *)

\* Lists, as the theorems about sequences have them.
LEMMA ListOf ==
  ASSUME NEW n \in Nat, NEW s, s = [k \in 1 .. n |-> s[k]]
  PROVE  IsList(s) /\ s \in Seq(Range(s)) /\ Len(s) = n /\ DOMAIN s = 1 .. n
<1>1. s \in [1 .. n -> Range(s)]
  BY DEF Range
<1>2. s \in Seq(Range(s))
  BY <1>1, SeqDef
<1>3. DOMAIN s = 1 .. n /\ DOMAIN s = 1 .. Len(s) /\ Len(s) \in Nat
  BY <1>1, <1>2, LenProperties
<1> QED
  BY <1>2, <1>3 DEF IsList

LEMMA ListIs ==
  ASSUME NEW s, IsList(s)
  PROVE  Len(s) \in Nat /\ DOMAIN s = 1 .. Len(s) /\ s \in Seq(Range(s))
BY ListOf DEF IsList

LEMMA SeqIsList ==
  ASSUME NEW S, NEW s \in Seq(S)
  PROVE  IsList(s)
<1>1. Len(s) \in Nat /\ s \in [1 .. Len(s) -> S]
  BY LenProperties
<1> QED
  BY <1>1 DEF IsList

LEMMA SomeLength ==
  ASSUME NEW s, IsList(s), s # <<>>
  PROVE  Len(s) \in Nat /\ Len(s) >= 1
<1>1. Len(s) \in Nat /\ s = [k \in 1 .. Len(s) |-> s[k]]
  BY DEF IsList
<1>2. Len(s) = 0 => s = <<>>
  BY <1>1
<1> QED
  BY <1>1, <1>2

\* A list of one, of two and of three.
LEMMA ShortLists ==
  /\ IsList(<<>>) /\ Len(<<>>) = 0
  /\ \A a : IsList(<<a>>) /\ Len(<<a>>) = 1 /\ <<a>>[1] = a
  /\ \A a, b : IsList(<<a, b>>) /\ Len(<<a, b>>) = 2 /\ <<a, b>>[1] = a /\ <<a, b>>[2] = b
<1>1. IsList(<<>>) /\ Len(<<>>) = 0
  BY DEF IsList
<1>2. ASSUME NEW a PROVE IsList(<<a>>) /\ Len(<<a>>) = 1 /\ <<a>>[1] = a
  <2>1. <<a>> \in Seq({a})
    OBVIOUS
  <2> QED
    BY <2>1, SeqIsList
<1>3. ASSUME NEW a, NEW b PROVE IsList(<<a, b>>) /\ Len(<<a, b>>) = 2 /\ <<a, b>>[1] = a /\ <<a, b>>[2] = b
  <2>1. <<a, b>> \in Seq({a, b})
    OBVIOUS
  <2> QED
    BY <2>1, SeqIsList
<1> QED
  BY <1>1, <1>2, <1>3

LEMMA ListAfter ==
  ASSUME NEW s, NEW t, IsList(s), IsList(t)
  PROVE  /\ IsList(s \o t) /\ Len(s \o t) = Len(s) + Len(t)
         /\ \A i \in 1 .. Len(s) : (s \o t)[i] = s[i]
         /\ \A i \in 1 .. Len(t) : (s \o t)[Len(s) + i] = t[i]
         /\ \A i \in 1 .. Len(s) + Len(t) : i \in 1 .. Len(s) \/ i - Len(s) \in 1 .. Len(t)
<1> DEFINE S == Range(s) \cup Range(t)
           u == s \o t
           m == Len(s)
           n == Len(t)
<1>1. s \in Seq(S) /\ t \in Seq(S) /\ m \in Nat /\ n \in Nat
  BY ListIs, SeqMonotonic
<1>2. /\ u \in Seq(S) /\ Len(u) = m + n
      /\ \A i \in 1 .. m + n : u[i] = IF i <= m THEN s[i] ELSE t[i - m]
  BY <1>1, ConcatProperties
<1> HIDE DEF u, S, m, n
<1>3. IsList(u)
  BY <1>2, SeqIsList
<1>4. \A i \in 1 .. m : u[i] = s[i]
  BY <1>1, <1>2
<1>5. \A i \in 1 .. n : u[m + i] = t[i]
  <2> SUFFICES ASSUME NEW i \in 1 .. n PROVE u[m + i] = t[i]
    OBVIOUS
  <2>1. m + i \in 1 .. m + n /\ ~(m + i <= m) /\ (m + i) - m = i
    BY <1>1
  <2> QED
    BY <1>2, <2>1
<1>6. \A i \in 1 .. m + n : i \in 1 .. m \/ i - m \in 1 .. n
  BY <1>1
<1> QED
  BY <1>2, <1>3, <1>4, <1>5, <1>6 DEF u, m, n

\* The recursion of FlattenSeq has a solution.
LEMMA FlattenExists ==
  ASSUME NEW n \in Nat, NEW seqs
  PROVE  \E f : f = [i \in 1 .. n |-> IF i = 1 THEN seqs[i] ELSE f[i - 1] \o seqs[i]]
<1> DEFINE Solves(f, m) == f = [i \in 1 .. m |-> IF i = 1 THEN seqs[i] ELSE f[i - 1] \o seqs[i]]
           T == {m \in Nat : ~ \E f : Solves(f, m)}
<1>1. ASSUME T # {} PROVE FALSE
  <2>1. T \in SUBSET Nat
    OBVIOUS
  <2>2. PICK m \in T : \A j \in T : m <= j
    BY <1>1, <2>1, LeastNumber
  <2>3. m \in Nat /\ ~ \E f : Solves(f, m)
    BY <2>2
  <2>4. CASE m = 0
    <3>1. Solves(<<>>, m)
      BY <2>4
    <3> QED
      BY <2>3, <3>1
  <2>5. CASE m # 0
    <3>1. m - 1 \in Nat /\ m - 1 \notin T
      <4> HIDE DEF T
      <4> QED
        BY <2>2, <2>3, <2>5
    <3>2. PICK f : Solves(f, m - 1)
      BY <3>1
    <3> DEFINE g == [i \in 1 .. m |-> IF i = 1 THEN seqs[i] ELSE f[i - 1] \o seqs[i]]
    <3>3. \A i \in 1 .. m - 1 : g[i] = f[i]
      <4> SUFFICES ASSUME NEW i \in 1 .. m - 1 PROVE g[i] = f[i]
        OBVIOUS
      <4>1. i \in 1 .. m
        BY <2>3
      <4>2. g[i] = IF i = 1 THEN seqs[i] ELSE f[i - 1] \o seqs[i]
        BY <4>1
      <4>3. f[i] = IF i = 1 THEN seqs[i] ELSE f[i - 1] \o seqs[i]
        BY <3>2
      <4> QED
        BY <4>2, <4>3
    <3>4. \A i \in 1 .. m : i # 1 => g[i - 1] = f[i - 1]
      <4> SUFFICES ASSUME NEW i \in 1 .. m, i # 1 PROVE g[i - 1] = f[i - 1]
        OBVIOUS
      <4>1. i - 1 \in 1 .. m - 1
        BY <2>3
      <4> HIDE DEF g
      <4> QED
        BY <3>3, <4>1
    <3>5. g = [i \in 1 .. m |-> IF i = 1 THEN seqs[i] ELSE g[i - 1] \o seqs[i]]
      <4>1. \A i \in 1 .. m : (IF i = 1 THEN seqs[i] ELSE f[i - 1] \o seqs[i])
                                = (IF i = 1 THEN seqs[i] ELSE g[i - 1] \o seqs[i])
        BY <3>4
      <4> DEFINE h == g
      <4>2. \A i \in 1 .. m : (IF i = 1 THEN seqs[i] ELSE f[i - 1] \o seqs[i])
                                = (IF i = 1 THEN seqs[i] ELSE h[i - 1] \o seqs[i])
        BY <4>1
      <4> HIDE DEF h
      <4>3. g = [i \in 1 .. m |-> IF i = 1 THEN seqs[i] ELSE h[i - 1] \o seqs[i]]
        BY <4>2
      <4> QED
        BY <4>3 DEF h
    <3>6. Solves(g, m)
      BY <3>5
    <3> QED
      BY <2>3, <3>6
  <2> QED
    BY <2>4, <2>5
<1> QED
  BY <1>1

\* Lists one after the other.
LEMMA Flattened ==
  ASSUME NEW n \in Nat, NEW seqs, seqs = [k \in 1 .. n |-> seqs[k]], \A k \in 1 .. n : IsList(seqs[k])
  PROVE  /\ IsList(FlattenSeq(seqs))
         /\ Range(FlattenSeq(seqs)) = UNION {Range(seqs[k]) : k \in 1 .. n}
<1> DEFINE f == CHOOSE g : g = [i \in 1 .. Len(seqs) |-> IF i = 1 THEN seqs[i] ELSE g[i - 1] \o seqs[i]]
           S == UNION {Range(seqs[k]) : k \in 1 .. n}
           upTo(m) == UNION {Range(seqs[k]) : k \in 1 .. m}
<1>1. Len(seqs) = n
  BY ListOf
<1>2. FlattenSeq(seqs) = IF n = 0 THEN seqs ELSE f[n]
  BY <1>1 DEF FlattenSeq
<1>3. f = [i \in 1 .. n |-> IF i = 1 THEN seqs[i] ELSE f[i - 1] \o seqs[i]]
  <2>1. \E g : g = [i \in 1 .. n |-> IF i = 1 THEN seqs[i] ELSE g[i - 1] \o seqs[i]]
    BY FlattenExists
  <2> QED
    BY <1>1, <2>1
<1> HIDE DEF f
<1>4. \A k \in 1 .. n : seqs[k] \in Seq(S)
  <2> SUFFICES ASSUME NEW k \in 1 .. n PROVE seqs[k] \in Seq(S)
    OBVIOUS
  <2>1. seqs[k] \in Seq(Range(seqs[k]))
    BY ListIs
  <2>2. Range(seqs[k]) \subseteq S
    OBVIOUS
  <2> HIDE DEF S
  <2> QED
    BY <2>1, <2>2, SeqMonotonic
<1> DEFINE Bad == {m \in 1 .. n : ~(f[m] \in Seq(S) /\ Range(f[m]) = upTo(m))}
<1>5. Bad = {}
  <2> SUFFICES ASSUME Bad # {} PROVE FALSE
    OBVIOUS
  <2>1. Bad \in SUBSET Nat
    OBVIOUS
  <2>2. PICK m \in Bad : \A j \in Bad : m <= j
    BY <2>1, LeastNumber
  <2>3. m \in 1 .. n /\ ~(f[m] \in Seq(S) /\ Range(f[m]) = upTo(m))
    BY <2>2
  <2>4. CASE m = 1
    <3>1. f[m] = seqs[1]
      BY <1>3, <2>3, <2>4
    <3>2. upTo(1) = Range(seqs[1])
      OBVIOUS
    <3> QED
      BY <1>4, <2>3, <2>4, <3>1, <3>2
  <2>5. CASE m # 1
    <3>1. m - 1 \in 1 .. n /\ m - 1 \notin Bad
      <4> HIDE DEF Bad
      <4> QED
        BY <2>2, <2>3, <2>5
    <3>2. f[m - 1] \in Seq(S) /\ Range(f[m - 1]) = upTo(m - 1)
      BY <3>1
    <3>3. f[m] = f[m - 1] \o seqs[m]
      BY <1>3, <2>3, <2>5
    <3>4. upTo(m) = upTo(m - 1) \cup Range(seqs[m])
      <4>1. \A k : k \in 1 .. m <=> k \in 1 .. m - 1 \/ k = m
        BY <2>3
      <4> QED
        BY <4>1
    <3> HIDE DEF S, upTo, Bad
    <3>5. f[m] \in Seq(S) /\ Range(f[m]) = Range(f[m - 1]) \cup Range(seqs[m])
      BY <1>4, <2>3, <3>2, <3>3, ConcatProperties, RangeConcatenation
    <3> QED
      BY <2>3, <3>2, <3>4, <3>5
  <2> QED
    BY <2>4, <2>5
<1>6. CASE n = 0
  <2>1. FlattenSeq(seqs) = <<>>
    BY <1>2, <1>6
  <2>2. IsList(<<>>) /\ Range(<<>>) = {}
    BY DEF IsList, Range
  <2> QED
    BY <1>6, <2>1, <2>2
<1>7. CASE n # 0
  <2>1. n \in 1 .. n /\ n \notin Bad
    <3> HIDE DEF Bad
    <3> QED
      BY <1>5, <1>7
  <2>2. f[n] \in Seq(S) /\ Range(f[n]) = upTo(n)
    BY <2>1
  <2>3. FlattenSeq(seqs) = f[n]
    BY <1>2, <1>7
  <2> HIDE DEF Bad
  <2>4. upTo(n) = UNION {Range(seqs[k]) : k \in 1 .. n}
    OBVIOUS
  <2> HIDE DEF S, upTo
  <2> QED
    BY <2>2, <2>3, <2>4, SeqIsList
<1> QED
  BY <1>6, <1>7

-----------------------------------------------------------------------------
(* Ranks and positions.                                                    *)

\* Distinct ranks up to the number of things list them all.
LEMMA ByRankLists ==
  ASSUME NEW S, IsFiniteSet(S), NEW rank \in [S -> 1 .. Cardinality(S)],
         \A x, y \in S : rank[x] = rank[y] => x = y
  PROVE  /\ Cardinality(S) \in Nat
         /\ ByRank(rank) \in [1 .. Cardinality(S) -> S]
         /\ \A k \in 1 .. Cardinality(S) : rank[ByRank(rank)[k]] = k
         /\ \A x \in S : ByRank(rank)[rank[x]] = x
<1> DEFINE n == Cardinality(S)
<1>1. n \in Nat
  BY FS_CardinalityType
<1>2. IsFiniteSet(1 .. n) /\ Cardinality(1 .. n) = n
  BY <1>1, FS_Interval
<1>3. rank \in Injection(S, 1 .. n)
  BY DEF Injection, IsInjective
<1>4. rank \in Surjection(S, 1 .. n)
  BY <1>2, <1>3, FS_Injection
<1>5. \A k \in 1 .. n : \E x \in S : rank[x] = k
  BY <1>4 DEF Surjection, Range
<1>6. \A k \in 1 .. n : ByRank(rank)[k] \in S /\ rank[ByRank(rank)[k]] = k
  BY <1>5 DEF ByRank
<1>7. ByRank(rank) = [k \in 1 .. n |-> ByRank(rank)[k]]
  BY DEF ByRank
<1> QED
  BY <1>1, <1>6, <1>7

\* The ranks that a strict order of finitely many things gives them.
LEMMA OrderRanks ==
  ASSUME NEW S, IsFiniteSet(S), NEW R,
         \A x \in S : <<x, x>> \notin R,
         \A x, y, z \in S : <<x, y>> \in R /\ <<y, z>> \in R => <<x, z>> \in R,
         \A x, y \in S : x = y \/ <<x, y>> \in R \/ <<y, x>> \in R
  PROVE  LET rank == [x \in S |-> Cardinality({y \in S : <<y, x>> \in R}) + 1]
         IN  /\ rank \in [S -> 1 .. Cardinality(S)]
             /\ \A x, y \in S : <<x, y>> \in R => rank[x] < rank[y]
             /\ \A x, y \in S : rank[x] = rank[y] => x = y
<1> DEFINE below(x) == {y \in S : <<y, x>> \in R}
           rank == [x \in S |-> Cardinality(below(x)) + 1]
<1>1. ASSUME NEW x \in S
      PROVE  IsFiniteSet(below(x)) /\ Cardinality(below(x)) \in Nat /\ rank[x] \in 1 .. Cardinality(S)
  <2>1. below(x) \in SUBSET S /\ below(x) # S
    OBVIOUS
  <2>2. IsFiniteSet(below(x)) /\ Cardinality(below(x)) <= Cardinality(S) /\ Cardinality(below(x)) # Cardinality(S)
    BY <2>1, FS_Subset
  <2>3. Cardinality(below(x)) \in Nat /\ Cardinality(S) \in Nat
    BY <2>2, FS_CardinalityType
  <2>4. rank[x] = Cardinality(below(x)) + 1
    OBVIOUS
  <2> HIDE DEF rank, below
  <2> QED
    BY <2>2, <2>3, <2>4
<1>2. ASSUME NEW x \in S, NEW y \in S, <<x, y>> \in R
      PROVE  rank[x] < rank[y]
  <2>1. below(x) \in SUBSET below(y) /\ below(x) # below(y)
    BY <1>2
  <2>2. Cardinality(below(x)) <= Cardinality(below(y)) /\ Cardinality(below(x)) # Cardinality(below(y))
    BY <1>1, <2>1, FS_Subset
  <2>3. Cardinality(below(x)) \in Nat /\ Cardinality(below(y)) \in Nat
    BY <1>1
  <2>4. rank[x] = Cardinality(below(x)) + 1 /\ rank[y] = Cardinality(below(y)) + 1
    OBVIOUS
  <2> HIDE DEF rank, below
  <2> QED
    BY <2>2, <2>3, <2>4
<1>3. rank \in [S -> 1 .. Cardinality(S)]
  <2>1. \A x \in S : rank[x] \in 1 .. Cardinality(S)
    BY <1>1
  <2> QED
    BY <2>1
<1>4. \A x, y \in S : rank[x] = rank[y] => x = y
  <2>1. \A x \in S : rank[x] \in Int
    BY <1>3, FS_CardinalityType
  <2>2. \A x, y \in S : <<x, y>> \in R => rank[x] < rank[y]
    BY <1>2
  <2> SUFFICES ASSUME NEW x \in S, NEW y \in S, rank[x] = rank[y] PROVE x = y
    OBVIOUS
  <2>3. x = y \/ <<x, y>> \in R \/ <<y, x>> \in R
    OBVIOUS
  <2>4. rank[x] \in Int /\ rank[y] \in Int /\ ~(rank[x] < rank[y]) /\ ~(rank[y] < rank[x])
    <3> HIDE DEF rank
    <3> QED
      BY <2>1
  <2> HIDE DEF rank
  <2> QED
    BY <2>2, <2>3, <2>4
<1> QED
  BY <1>2, <1>3, <1>4

\* A strict order of the first n numbers, and these in its order.
IsOrder(R, n) ==
  /\ \A i \in 1 .. n : <<i, i>> \notin R
  /\ \A i, j, k \in 1 .. n : <<i, j>> \in R /\ <<j, k>> \in R => <<i, k>> \in R
  /\ \A i, j \in 1 .. n : i = j \/ <<i, j>> \in R \/ <<j, i>> \in R

Ordered(R, n) == ByRank([i \in 1 .. n |-> Cardinality({j \in 1 .. n : <<j, i>> \in R}) + 1])

LEMMA OrderLists ==
  ASSUME NEW n \in Nat, NEW R, IsOrder(R, n)
  PROVE  /\ Ordered(R, n) \in [1 .. n -> 1 .. n]
         /\ \A i \in 1 .. n : \E k \in 1 .. n : Ordered(R, n)[k] = i
         /\ \A k, l \in 1 .. n : k < l => <<Ordered(R, n)[k], Ordered(R, n)[l]>> \in R
<1> DEFINE order == Ordered(R, n)
           S == 1 .. n
           rank == [i \in S |-> Cardinality({j \in S : <<j, i>> \in R}) + 1]
<1>1. IsFiniteSet(S) /\ Cardinality(S) = n
  BY FS_Interval
<1>2. /\ \A i \in S : <<i, i>> \notin R
      /\ \A i, j, k \in S : <<i, j>> \in R /\ <<j, k>> \in R => <<i, k>> \in R
      /\ \A i, j \in S : i = j \/ <<i, j>> \in R \/ <<j, i>> \in R
      /\ order = ByRank(rank)
  BY DEF IsOrder, Ordered
<1>3. S = 1 .. n
  OBVIOUS
<1> HIDE DEF S, order
<1>4. /\ rank \in [S -> 1 .. Cardinality(S)]
      /\ \A x, y \in S : <<x, y>> \in R => rank[x] < rank[y]
      /\ \A x, y \in S : rank[x] = rank[y] => x = y
  BY ONLY <1>1, <1>2, OrderRanks
<1> HIDE DEF rank
<1>5. /\ order \in [1 .. Cardinality(S) -> S]
      /\ \A k \in 1 .. Cardinality(S) : rank[order[k]] = k
      /\ \A x \in S : order[rank[x]] = x
  <2>1. /\ ByRank(rank) \in [1 .. Cardinality(S) -> S]
        /\ \A k \in 1 .. Cardinality(S) : rank[ByRank(rank)[k]] = k
        /\ \A x \in S : ByRank(rank)[rank[x]] = x
    BY ONLY <1>1, <1>4, ByRankLists
  <2> QED
    BY <1>2, <2>1
<1>6. order \in [S -> S] /\ \A k \in S : rank[order[k]] = k
  BY <1>1, <1>3, <1>5
<1>7. ASSUME NEW k \in S, NEW l \in S, k < l PROVE <<order[k], order[l]>> \in R
  <2> DEFINE x == order[k]
             y == order[l]
  <2>1. x \in S /\ y \in S /\ rank[x] = k /\ rank[y] = l /\ k \in Nat /\ l \in Nat
    BY <1>3, <1>6
  <2> HIDE DEF x, y
  <2>2. x # y /\ <<y, x>> \notin R
    BY <1>4, <1>7, <2>1
  <2>3. <<x, y>> \in R
    BY <1>2, <2>1, <2>2
  <2> QED
    BY <2>3 DEF x, y
<1>8. \A i \in S : \E k \in S : order[k] = i
  <2> SUFFICES ASSUME NEW i \in S PROVE \E k \in S : order[k] = i
    OBVIOUS
  <2>1. rank[i] \in S /\ order[rank[i]] = i
    BY <1>1, <1>3, <1>4, <1>5
  <2> QED
    BY <2>1
<1> QED
  BY <1>3, <1>6, <1>7, <1>8 DEF order

\* Positions in their order.
LEMMA InOrderLists ==
  ASSUME NEW n \in Nat, NEW S \in SUBSET (1 .. n)
  PROVE  /\ IsFiniteSet(S) /\ Cardinality(S) \in 0 .. n
         /\ InOrder(S) \in [1 .. Cardinality(S) -> S]
         /\ \A x \in S : \E k \in 1 .. Cardinality(S) : InOrder(S)[k] = x
         /\ \A k, l \in 1 .. Cardinality(S) : k < l => InOrder(S)[k] < InOrder(S)[l]
<1>1. IsFiniteSet(S) /\ Cardinality(S) \in 0 .. n
  <2>1. IsFiniteSet(1 .. n) /\ Cardinality(1 .. n) = n
    BY FS_Interval
  <2>2. IsFiniteSet(S) /\ Cardinality(S) <= n
    BY <2>1, FS_Subset
  <2> QED
    BY <2>2, FS_CardinalityType
<1> DEFINE R == {p \in S \X S : p[1] < p[2]}
           rank == [i \in S |-> Cardinality({j \in S : j < i}) + 1]
           ranked == [x \in S |-> Cardinality({y \in S : <<y, x>> \in R}) + 1]
<1>2. /\ \A x \in S : <<x, x>> \notin R
      /\ \A x, y, z \in S : <<x, y>> \in R /\ <<y, z>> \in R => <<x, z>> \in R
      /\ \A x, y \in S : x = y \/ <<x, y>> \in R \/ <<y, x>> \in R
      /\ \A x, y \in S : <<x, y>> \in R <=> x < y
  OBVIOUS
<1>3. rank = ranked
  <2>1. \A x \in S : {j \in S : j < x} = {y \in S : <<y, x>> \in R}
    BY <1>2
  <2> QED
    BY <2>1
<1>4. /\ ranked \in [S -> 1 .. Cardinality(S)]
      /\ \A x, y \in S : <<x, y>> \in R => ranked[x] < ranked[y]
      /\ \A x, y \in S : ranked[x] = ranked[y] => x = y
  <2> HIDE DEF R
  <2> QED
    BY <1>1, <1>2, OrderRanks
<1>5. InOrder(S) = ByRank(ranked)
  BY <1>3 DEF InOrder
<1> HIDE DEF rank, ranked, R
<1>6. /\ InOrder(S) \in [1 .. Cardinality(S) -> S]
      /\ \A k \in 1 .. Cardinality(S) : ranked[InOrder(S)[k]] = k
      /\ \A x \in S : InOrder(S)[ranked[x]] = x
  <2>1. /\ ByRank(ranked) \in [1 .. Cardinality(S) -> S]
        /\ \A k \in 1 .. Cardinality(S) : ranked[ByRank(ranked)[k]] = k
        /\ \A x \in S : ByRank(ranked)[ranked[x]] = x
    BY ONLY <1>1, <1>4, ByRankLists
  <2> QED
    BY <1>5, <2>1
<1>7. ASSUME NEW k \in 1 .. Cardinality(S), NEW l \in 1 .. Cardinality(S), k < l
      PROVE  InOrder(S)[k] < InOrder(S)[l]
  <2> DEFINE x == InOrder(S)[k]
             y == InOrder(S)[l]
  <2>1. x \in S /\ y \in S /\ ranked[x] = k /\ ranked[y] = l
    BY <1>6
  <2> HIDE DEF x, y
  <2>2. x # y
    BY <1>1, <1>7, <2>1
  <2>3. <<y, x>> \in R => l < k
    BY <1>4, <2>1
  <2>4. <<y, x>> \notin R
    BY <1>1, <1>7, <2>3
  <2>5. x < y
    BY <1>2, <2>1, <2>2, <2>4
  <2> QED
    BY <2>5 DEF x, y
<1> QED
  BY <1>1, <1>4, <1>6, <1>7

\* A number and the next come one after the other.
LEMMA NextInOrder ==
  ASSUME NEW n \in Nat, NEW S \in SUBSET (1 .. n), NEW p \in 1 .. Cardinality(S),
         InOrder(S)[p] + 1 \in S
  PROVE  p + 1 \in 1 .. Cardinality(S) /\ InOrder(S)[p + 1] = InOrder(S)[p] + 1
<1> DEFINE c == Cardinality(S)
           at == InOrder(S)
<1>1. /\ Cardinality(S) \in 0 .. n
      /\ InOrder(S) \in [1 .. Cardinality(S) -> S]
      /\ \A x \in S : \E k \in 1 .. Cardinality(S) : InOrder(S)[k] = x
      /\ \A k, l \in 1 .. Cardinality(S) : k < l => InOrder(S)[k] < InOrder(S)[l]
  BY InOrderLists
<1>2. /\ c \in Nat /\ at \in [1 .. c -> S] /\ p \in 1 .. c /\ at[p] + 1 \in S
      /\ \A x \in S : \E k \in 1 .. c : at[k] = x
      /\ \A k, l \in 1 .. c : k < l => at[k] < at[l]
  BY <1>1
<1> HIDE DEF c, at
<1>3. \A k \in 1 .. c : at[k] \in 1 .. n
  BY <1>2
<1>4. PICK q \in 1 .. c : at[q] = at[p] + 1
  BY <1>2
<1>5. p < q
  <2>1. q # p
    BY <1>2, <1>3, <1>4
  <2>2. ~(q < p)
    BY <1>2, <1>3, <1>4
  <2> QED
    BY <1>2, <2>1, <2>2
<1>6. p + 1 \in 1 .. c
  BY <1>2, <1>5
<1>7. at[p] < at[p + 1] /\ at[p + 1] \in 1 .. n
  BY <1>2, <1>3, <1>6
<1>8. p + 1 < q => at[p + 1] < at[q]
  BY <1>2, <1>6
<1>9. p + 1 = q
  <2>1. ~(p + 1 < q)
    BY <1>2, <1>3, <1>4, <1>7, <1>8
  <2> QED
    BY <1>2, <1>5, <2>1
<1> QED
  BY <1>4, <1>6, <1>9 DEF c, at

\* What a sequence has at some positions, in their order.
LEMMA PickedLists ==
  ASSUME NEW n \in Nat, NEW S \in SUBSET (1 .. n), NEW s
  PROVE  /\ Cardinality(S) \in 0 .. n
         /\ Picked(s, S) = [k \in 1 .. Cardinality(S) |-> s[InOrder(S)[k]]]
         /\ \A k \in 1 .. Cardinality(S) : InOrder(S)[k] \in S
         /\ \A i \in S : \E k \in 1 .. Cardinality(S) : InOrder(S)[k] = i
         /\ \A k, l \in 1 .. Cardinality(S) : k < l => InOrder(S)[k] < InOrder(S)[l]
<1>1. DOMAIN InOrder(S) = 1 .. Cardinality(S)
  BY InOrderLists
<1> QED
  BY <1>1, InOrderLists DEF Picked

LEMMA PickedIs ==
  ASSUME NEW s, IsList(s), NEW S, S \subseteq DOMAIN s
  PROVE  /\ IsList(Picked(s, S)) /\ Len(Picked(s, S)) = Cardinality(S)
         /\ DOMAIN Picked(s, S) = 1 .. Cardinality(S)
         /\ Cardinality(S) \in Nat
<1>1. Len(s) \in Nat /\ S \in SUBSET (1 .. Len(s))
  BY ListIs
<1>2. /\ Cardinality(S) \in 0 .. Len(s)
      /\ Picked(s, S) = [k \in 1 .. Cardinality(S) |-> s[InOrder(S)[k]]]
  BY <1>1, PickedLists
<1> DEFINE t == Picked(s, S)
           n == Cardinality(S)
<1>3. n \in Nat /\ t = [k \in 1 .. n |-> t[k]]
  BY <1>1, <1>2
<1> HIDE DEF t, n
<1>4. IsList(t) /\ Len(t) = n /\ DOMAIN t = 1 .. n
  BY <1>3, ListOf
<1> QED
  BY <1>3, <1>4 DEF t, n

\* What is picked was there.
LEMMA PickedFrom ==
  ASSUME NEW s, IsList(s), NEW S, S \subseteq DOMAIN s
  PROVE  /\ IsList(Picked(s, S)) /\ Len(Picked(s, S)) \in Nat
         /\ DOMAIN Picked(s, S) = 1 .. Len(Picked(s, S))
         /\ \A k \in 1 .. Len(Picked(s, S)) : \E i \in S : Picked(s, S)[k] = s[i]
<1>1. Len(s) \in Nat /\ S \in SUBSET (1 .. Len(s))
  BY ListIs
<1>2. /\ IsList(Picked(s, S)) /\ Len(Picked(s, S)) = Cardinality(S)
      /\ DOMAIN Picked(s, S) = 1 .. Cardinality(S) /\ Cardinality(S) \in Nat
  BY PickedIs
<1>3. /\ Picked(s, S) = [k \in 1 .. Cardinality(S) |-> s[InOrder(S)[k]]]
      /\ \A k \in 1 .. Cardinality(S) : InOrder(S)[k] \in S
  BY <1>1, PickedLists
<1>4. \A k \in 1 .. Cardinality(S) : \E i \in S : Picked(s, S)[k] = s[i]
  BY <1>3
<1> QED
  BY <1>2, <1>4

-----------------------------------------------------------------------------
(* Lists of findings.                                                      *)

LEMMA TypedFindings ==
  ASSUME NEW n \in Nat, NEW s, s = [k \in 1 .. n |-> s[k]], \A k \in 1 .. n : IsFinding(s[k])
  PROVE  AreFindings(s) /\ Len(s) = n /\ DOMAIN s = 1 .. n
BY ListOf DEF AreFindings

LEMMA FindingsList ==
  ASSUME NEW s, AreFindings(s)
  PROVE  /\ Len(s) \in Nat /\ DOMAIN s = 1 .. Len(s) /\ s \in Seq(Range(s))
         /\ s = [k \in 1 .. Len(s) |-> s[k]]
         /\ \A k \in 1 .. Len(s) : IsFinding(s[k])
BY ListIs DEF AreFindings, IsList

LEMMA NoFindings == AreFindings(<<>>) /\ Len(<<>>) = 0
BY DEF AreFindings, IsList

\* One list after another.
LEMMA FindingsAfter ==
  ASSUME NEW s, NEW t, AreFindings(s), AreFindings(t)
  PROVE  /\ AreFindings(s \o t) /\ Len(s \o t) = Len(s) + Len(t)
         /\ Range(s \o t) = Range(s) \cup Range(t)
<1> DEFINE S == Range(s) \cup Range(t)
           u == s \o t
<1>1. s \in Seq(S) /\ t \in Seq(S)
  BY FindingsList, SeqMonotonic
<1>2. /\ u \in Seq(S)
      /\ Len(u) = Len(s) + Len(t)
      /\ \A i \in 1 .. Len(s) + Len(t) : u[i] = IF i <= Len(s) THEN s[i] ELSE t[i - Len(s)]
  BY <1>1, ConcatProperties
<1>3. Range(u) = S
  BY <1>1, RangeConcatenation
<1>4. \A x \in S : IsFinding(x)
  BY FindingsList DEF Range
<1>5. u \in Seq(Range(u)) /\ DOMAIN u = 1 .. Len(u)
  BY <1>2, <1>3, LenProperties
<1>6. \A k \in DOMAIN u : u[k] \in Range(u)
  BY DEF Range
<1> HIDE DEF u, S
<1>7. AreFindings(u)
  BY <1>2, <1>3, <1>4, <1>5, <1>6, SeqIsList DEF AreFindings
<1> QED
  BY <1>2, <1>3, <1>7 DEF u, S

LEMMA FlattenedFindings ==
  ASSUME NEW n \in Nat, NEW seqs, seqs = [k \in 1 .. n |-> seqs[k]], \A k \in 1 .. n : AreFindings(seqs[k])
  PROVE  AreFindings(FlattenSeq(seqs))
<1> DEFINE t == FlattenSeq(seqs)
<1>1. IsList(t) /\ Range(t) = UNION {Range(seqs[k]) : k \in 1 .. n}
  BY Flattened DEF AreFindings
<1>2. Len(t) \in Nat /\ DOMAIN t = 1 .. Len(t)
  BY <1>1, ListIs
<1>3. \A k \in 1 .. n : \A x \in Range(seqs[k]) : IsFinding(x)
  BY FindingsList DEF Range
<1> HIDE DEF t
<1>4. \A x \in Range(t) : IsFinding(x)
  BY <1>1, <1>3
<1>5. \A k \in 1 .. Len(t) : IsFinding(t[k])
  BY <1>2, <1>4 DEF Range
<1> QED
  BY <1>1, <1>5 DEF AreFindings, t
=============================================================================
