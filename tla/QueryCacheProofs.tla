--------------------------- MODULE QueryCacheProofs ---------------------------
(***************************************************************************)
(* The query cache keeps its types in both key modes and its promises in   *)
(* strict mode, for every history of commits, every number of runs,        *)
(* processes, queries and files, every cap and without the bounds that the *)
(* Max constants put on a model-checking run.  The capped maps it is made  *)
(* of come first: one stays within its cap, its queue stays in step with   *)
(* its entries, and it evicts the oldest, for every set of keys and values *)
(* and every cap.                                                          *)
(***************************************************************************)
EXTENDS QueryCache, CappedMapSpec, FiniteSetTheorems, SequenceTheorems, TLAPS

-----------------------------------------------------------------------------
(* Capped maps: what the operations do to the entries of a map and         *)
(* preserve of its shape.                                                  *)

(***************************************************************************)
(* Every entry of the map after an insertion was there before, with the    *)
(* same value, or is the one inserted.                                     *)
(***************************************************************************)
LEMMA InsertAddsOne ==
  ASSUME NEW c, NEW k, NEW v, NEW cap,
         NEW j \in Resident(Insert(c, k, v, cap))
  PROVE  \/ j = k /\ Insert(c, k, v, cap).map[j] = v
         \/ j \in Resident(c) /\ Insert(c, k, v, cap).map[j] = c.map[j]
BY DEF Insert, Resident, With, Without

\* The entries left by a removal are those of the other keys, unchanged.
LEMMA RemoveKeepsOthers ==
  ASSUME NEW c, NEW k
  PROVE  /\ Resident(Remove(c, k)) = Resident(c) \ {k}
         /\ \A j \in Resident(c) \ {k} : Remove(c, k).map[j] = c.map[j]
BY DEF Remove, Resident, Without

\* A replacement changes the value of its key only.
LEMMA ReplaceSetsOne ==
  ASSUME NEW c, NEW k, NEW v
  PROVE  /\ Resident(Replace(c, k, v)) = Resident(c) \cup {k}
         /\ Replace(c, k, v).map[k] = v
         /\ \A j \in Resident(c) \ {k} : Replace(c, k, v).map[j] = c.map[j]
BY DEF Replace, Resident, With

-----------------------------------------------------------------------------

\* A sequence in which no key occurs twice.
Distinct(s) == \A i, j \in 1..Len(s) : s[i] = s[j] => i = j

\* c is a well-formed capped map from keys K to values V with cap n.
Fits(c, K, V, n) ==
  /\ Resident(c) \subseteq K
  /\ c.map \in [Resident(c) -> V]
  /\ c.order \in Seq(K)
  /\ Queued(c) = Resident(c)
  /\ Distinct(c.order)
  /\ Len(c.order) <= n

\* A function on an initial segment of the naturals is a sequence.
LEMMA FunctionIsSeq ==
  ASSUME NEW K, NEW n \in Nat, NEW t \in [1..n -> K]
  PROVE  t \in Seq(K) /\ Len(t) = n
OBVIOUS

\* A sequence without repetition has as many elements as it has places.
LEMMA DistinctCount ==
  ASSUME NEW K, NEW s \in Seq(K), Distinct(s)
  PROVE  Cardinality({s[i] : i \in 1..Len(s)}) = Len(s)
<1> DEFINE T == {s[i] : i \in 1..Len(s)}
<1>1. Len(s) \in Nat /\ DOMAIN s = 1..Len(s) /\ s \in [1..Len(s) -> K]
  BY LenProperties
<1>2. s \in [1..Len(s) -> T]
  BY <1>1
<1>3. s \in Bijection(1..Len(s), T)
  BY <1>1, <1>2 DEF Bijection, Injection, Surjection, IsInjective, Distinct
<1>4. ExistsBijection(1..Len(s), T)
  BY <1>3 DEF ExistsBijection
<1> QED
  BY <1>1, <1>4, FS_CountingElements

\* So the queue of a well-formed map is as long as the map is large.
LEMMA ResidentCount ==
  ASSUME NEW K, NEW V, NEW n, NEW c, Fits(c, K, V, n)
  PROVE  Cardinality(Resident(c)) = Len(c.order)
BY DistinctCount DEF Fits, Queued

\* A key that joins the back of the queue is its only new element.
LEMMA AppendDistinct ==
  ASSUME NEW K, NEW s \in Seq(K), NEW k \in K, Distinct(s),
         \A i \in 1..Len(s) : s[i] # k
  PROVE  /\ Append(s, k) \in Seq(K)
         /\ Len(Append(s, k)) = Len(s) + 1
         /\ Distinct(Append(s, k))
         /\ {Append(s, k)[i] : i \in 1..Len(Append(s, k))} = {s[i] : i \in 1..Len(s)} \cup {k}
<1> DEFINE t == Append(s, k)
<1>1. Len(s) \in Nat /\ DOMAIN s = 1..Len(s)
  BY LenProperties
<1>2. /\ t \in Seq(K)
      /\ Len(t) = Len(s) + 1
      /\ \A i \in 1..Len(s) : t[i] = s[i]
      /\ t[Len(s) + 1] = k
  BY AppendProperties
<1>3. Distinct(t)
  BY <1>1, <1>2 DEF Distinct
<1>4. {t[i] : i \in 1..Len(t)} = {s[i] : i \in 1..Len(s)} \cup {k}
  <2>1. ASSUME NEW i \in 1..Len(t) PROVE t[i] \in {s[j] : j \in 1..Len(s)} \cup {k}
    <3>1. CASE i \in 1..Len(s)
      BY <3>1, <1>2
    <3>2. CASE i = Len(s) + 1
      BY <3>2, <1>2
    <3> QED
      BY <3>1, <3>2, <1>1, <1>2
  <2>2. ASSUME NEW i \in 1..Len(s) PROVE s[i] \in {t[j] : j \in 1..Len(t)}
    <3>1. i \in 1..Len(t)
      BY <1>1, <1>2
    <3> QED
      BY <3>1, <1>2
  <2>3. k \in {t[j] : j \in 1..Len(t)}
    <3>1. Len(s) + 1 \in 1..Len(t)
      BY <1>1, <1>2
    <3> QED
      BY <3>1, <1>2
  <2> QED
    BY <2>1, <2>2, <2>3
<1> QED
  BY <1>2, <1>3, <1>4

\* Dropping one place of a queue drops the key there and nothing else.
LEMMA DropAtDistinct ==
  ASSUME NEW K, NEW s \in Seq(K), NEW p \in 1..Len(s), Distinct(s)
  PROVE  /\ DropAt(s, p) \in Seq(K)
         /\ Len(DropAt(s, p)) = Len(s) - 1
         /\ Distinct(DropAt(s, p))
         /\ {DropAt(s, p)[i] : i \in 1..Len(DropAt(s, p))}
              = {s[i] : i \in 1..Len(s)} \ {s[p]}
<1> DEFINE t == DropAt(s, p)
           n == Len(s) - 1
<1>1. Len(s) \in Nat /\ DOMAIN s = 1..Len(s) /\ n \in Nat
  BY LenProperties
<1>2. \A i \in 1..n : s[i] \in K /\ s[i + 1] \in K
  BY <1>1, ElementOfSeq
<1>3. t \in [1..n -> K]
  BY <1>2 DEF DropAt
<1>4. t \in Seq(K) /\ Len(t) = n
  BY <1>1, <1>3, FunctionIsSeq
<1>5. \A i \in 1..n : t[i] = IF i < p THEN s[i] ELSE s[i + 1]
  BY DEF DropAt
<1>6. Distinct(t)
  <2>1. SUFFICES ASSUME NEW i \in 1..n, NEW j \in 1..n, t[i] = t[j]
                 PROVE  i = j
    BY <1>4 DEF Distinct
  <2>2. PICK a \in 1..Len(s) : t[i] = s[a] /\ a = IF i < p THEN i ELSE i + 1
    BY <1>1, <1>5
  <2>3. PICK b \in 1..Len(s) : t[j] = s[b] /\ b = IF j < p THEN j ELSE j + 1
    BY <1>1, <1>5
  <2>4. a = b
    BY <2>1, <2>2, <2>3 DEF Distinct
  <2> QED
    BY <1>1, <2>2, <2>3, <2>4
<1>7. ASSUME NEW i \in 1..n PROVE t[i] \in {s[j] : j \in 1..Len(s)} \ {s[p]}
  <2>1. CASE i < p
    BY <2>1, <1>1, <1>5 DEF Distinct
  <2>2. CASE ~(i < p)
    <3>1. t[i] = s[i + 1] /\ i + 1 \in 1..Len(s) /\ i + 1 # p
      BY <2>2, <1>1, <1>5
    <3> QED
      BY <3>1 DEF Distinct
  <2> QED
    BY <2>1, <2>2
<1>8. ASSUME NEW j \in 1..Len(s), j # p PROVE s[j] \in {t[i] : i \in 1..n}
  <2>1. CASE j < p
    <3>1. j \in 1..n /\ t[j] = s[j]
      BY <2>1, <1>1, <1>5
    <3> QED
      BY <3>1
  <2>2. CASE j > p
    <3>1. j - 1 \in 1..n /\ ~(j - 1 < p)
      BY <2>2, <1>1
    <3>2. t[j - 1] = s[(j - 1) + 1]
      BY <3>1, <1>5
    <3>3. (j - 1) + 1 = j
      BY <1>1
    <3> QED
      BY <3>1, <3>2, <3>3
  <2> QED
    BY <2>1, <2>2, <1>8, <1>1
<1> QED
  BY <1>4, <1>6, <1>7, <1>8

-----------------------------------------------------------------------------

\* An insertion leaves the map well formed: the eviction makes room exactly
\* when the newcomer is one too many, and evicts the key it unqueues.
LEMMA InsertFits ==
  ASSUME NEW K, NEW V, NEW n \in Nat, NEW c, Fits(c, K, V, n), NEW k \in K, NEW v \in V
  PROVE  Fits(Insert(c, k, v, n), K, V, n)
<1> DEFINE d     == Insert(c, k, v, n)
           grown == With(c.map, k, v)
           queue == Append(c.order, k)
<1>1. CASE n = 0
  BY <1>1 DEF Insert
<1>2. CASE n # 0 /\ k \in Resident(c)
  <2>1. d = [map |-> With(c.map, k, v), order |-> c.order]
    BY <1>2 DEF Insert
  <2>2. Resident(d) = Resident(c) /\ d.map \in [Resident(c) -> V] /\ d.order = c.order
    BY <2>1, <1>2 DEF Resident, With, Fits
  <2> QED
    BY <2>2 DEF Fits, Queued
<1>3. CASE n # 0 /\ k \notin Resident(c)
  <2>1. /\ c.order \in Seq(K) /\ Distinct(c.order) /\ Len(c.order) \in Nat
        /\ \A i \in 1..Len(c.order) : c.order[i] # k
    BY <1>3, LenProperties DEF Fits, Queued
  <2>2. /\ queue \in Seq(K)
        /\ Len(queue) = Len(c.order) + 1
        /\ Distinct(queue)
        /\ {queue[i] : i \in 1..Len(queue)} = Resident(c) \cup {k}
    <3>1. {c.order[i] : i \in 1..Len(c.order)} = Resident(c)
      BY DEF Fits, Queued
    <3> HIDE DEF queue
    <3>2. queue = Append(c.order, k)
      BY DEF queue
    <3>3. /\ Append(c.order, k) \in Seq(K)
          /\ Len(Append(c.order, k)) = Len(c.order) + 1
          /\ Distinct(Append(c.order, k))
          /\ {Append(c.order, k)[i] : i \in 1..Len(Append(c.order, k))}
               = {c.order[i] : i \in 1..Len(c.order)} \cup {k}
      <4> DEFINE s == c.order
      <4>1. s \in Seq(K) /\ k \in K /\ Distinct(s) /\ \A i \in 1..Len(s) : s[i] # k
        BY <2>1
      <4> HIDE DEF s
      <4>2. /\ Append(s, k) \in Seq(K)
            /\ Len(Append(s, k)) = Len(s) + 1
            /\ Distinct(Append(s, k))
            /\ {Append(s, k)[i] : i \in 1..Len(Append(s, k))} = {s[i] : i \in 1..Len(s)} \cup {k}
        BY ONLY <4>1, AppendDistinct
      <4> QED
        BY <4>2 DEF s
    <3> QED
      BY <3>1, <3>2, <3>3, Zenon
  <2>3. DOMAIN grown = Resident(c) \cup {k} /\ grown \in [Resident(c) \cup {k} -> V]
    BY <1>3 DEF Fits, With, Resident
  <2>4. Cardinality(DOMAIN grown) = Len(queue)
    BY <2>2, <2>3, DistinctCount
  <2>5. CASE Cardinality(DOMAIN grown) > n
    <3>1. d = [map |-> Without(grown, Head(queue)), order |-> Tail(queue)]
      BY <1>3, <2>5 DEF Insert
    <3>2. queue # << >> /\ 1 \in 1..Len(queue) /\ Head(queue) = queue[1]
      <4> HIDE DEF queue
      <4>1. queue \in Seq(K) /\ 1 \in 1..Len(queue)
        BY <2>1, <2>2
      <4>2. queue # << >>
        BY <4>1, EmptySeq
      <4> QED
        BY <4>1, <4>2, HeadTailProperties
    <3>3. /\ Tail(queue) \in Seq(K)
          /\ Len(Tail(queue)) = Len(queue) - 1
          /\ \A i \in 1..Len(Tail(queue)) : Tail(queue)[i] = queue[i + 1]
      BY <2>2, <3>2, HeadTailProperties
    <3>4. Tail(queue) = DropAt(queue, 1)
      <4>1. DropAt(queue, 1) \in Seq(K) /\ Len(DropAt(queue, 1)) = Len(queue) - 1
        BY <2>2, <3>2, DropAtDistinct
      <4>2. \A i \in 1..Len(Tail(queue)) : DropAt(queue, 1)[i] = queue[i + 1]
        BY <2>1, <2>2, <3>3 DEF DropAt
      <4> QED
        BY <3>3, <4>1, <4>2, SeqEqual
    <3>5. /\ Distinct(Tail(queue))
          /\ {Tail(queue)[i] : i \in 1..Len(Tail(queue))} = (Resident(c) \cup {k}) \ {Head(queue)}
      <4> HIDE DEF queue
      <4>1. /\ Distinct(DropAt(queue, 1))
            /\ {DropAt(queue, 1)[i] : i \in 1..Len(DropAt(queue, 1))}
                 = {queue[i] : i \in 1..Len(queue)} \ {queue[1]}
        BY <2>2, <3>2, DropAtDistinct
      <4> QED
        BY <2>2, <3>2, <3>4, <4>1
    <3>6. Len(Tail(queue)) <= n
      BY <2>1, <2>2, <3>3 DEF Fits
    <3>7. /\ Resident(d) = (Resident(c) \cup {k}) \ {Head(queue)}
          /\ d.map \in [Resident(d) -> V]
          /\ d.order = Tail(queue)
      BY <3>1, <2>3 DEF Resident, Without
    <3>8. Queued(d) = Resident(d)
      BY <3>5, <3>7 DEF Queued
    <3>9. Resident(d) \subseteq K /\ d.order \in Seq(K)
      BY <3>3, <3>7 DEF Fits
    <3>10. Distinct(d.order) /\ Len(d.order) <= n
      BY <3>5, <3>6, <3>7
    <3> HIDE DEF d
    <3>11. Fits(d, K, V, n)
      BY <3>7, <3>8, <3>9, <3>10 DEF Fits
    <3> QED
      BY <3>11 DEF d
  <2>6. CASE ~(Cardinality(DOMAIN grown) > n)
    <3>1. d = [map |-> grown, order |-> queue]
      BY <1>3, <2>6 DEF Insert
    <3>2. /\ Resident(d) = Resident(c) \cup {k}
          /\ d.map \in [Resident(d) -> V]
          /\ d.order = queue
      BY <3>1, <2>3 DEF Resident
    <3>3. Len(queue) <= n
      BY <2>1, <2>2, <2>4, <2>6
    <3> QED
      BY <2>2, <3>2, <3>3 DEF Fits, Queued
  <2> QED
    BY <2>5, <2>6
<1> QED
  BY <1>1, <1>2, <1>3

\* A removal leaves the map well formed: the key leaves the queue as well.
LEMMA RemoveFits ==
  ASSUME NEW K, NEW V, NEW n \in Nat, NEW c, Fits(c, K, V, n), NEW k \in K
  PROVE  Fits(Remove(c, k), K, V, n)
<1> DEFINE d == Remove(c, k)
<1>1. d.order = DropKey(c.order, k) /\ Resident(d) = Resident(c) \ {k}
  BY DEF Remove, Resident, Without
<1>2. d.map \in [Resident(d) -> V]
  BY <1>1 DEF Remove, Resident, Without, Fits
<1>3. c.order \in Seq(K) /\ Distinct(c.order) /\ Len(c.order) \in Nat
  BY LenProperties DEF Fits
<1>4. CASE \E i \in 1..Len(c.order) : c.order[i] = k
  <2>1. PICK p \in 1..Len(c.order) : d.order = DropAt(c.order, p) /\ c.order[p] = k
    BY <1>1, <1>4 DEF DropKey
  <2>2. /\ d.order \in Seq(K) /\ Len(d.order) = Len(c.order) - 1 /\ Distinct(d.order)
        /\ Queued(d) = Queued(c) \ {k}
    <3> DEFINE t == DropAt(c.order, p)
    <3>1. /\ t \in Seq(K) /\ Len(t) = Len(c.order) - 1 /\ Distinct(t)
          /\ {t[i] : i \in 1..Len(t)} = {c.order[i] : i \in 1..Len(c.order)} \ {k}
      BY <1>3, <2>1, DropAtDistinct
    <3> HIDE DEF t, d
    <3>2. d.order = t
      BY <2>1 DEF t
    <3> QED
      BY <3>1, <3>2 DEF Queued
  <2> QED
    BY <1>1, <1>2, <1>3, <2>2 DEF Fits
<1>5. CASE ~ \E i \in 1..Len(c.order) : c.order[i] = k
  <2>1. d.order = c.order /\ k \notin Queued(c)
    BY <1>1, <1>5 DEF DropKey, Queued
  <2> QED
    BY <1>1, <1>2, <2>1 DEF Fits, Queued
<1> QED
  BY <1>4, <1>5

\* An update in place leaves the map well formed.
LEMMA ReplaceFits ==
  ASSUME NEW K, NEW V, NEW n \in Nat, NEW c, Fits(c, K, V, n),
         NEW k \in Resident(c), NEW v \in V
  PROVE  Fits(Replace(c, k, v), K, V, n)
<1>1. /\ Resident(Replace(c, k, v)) = Resident(c)
      /\ Replace(c, k, v).map \in [Resident(c) -> V]
      /\ Replace(c, k, v).order = c.order
  BY DEF Replace, Resident, With, Fits
<1> QED
  BY <1>1 DEF Fits, Queued

-----------------------------------------------------------------------------
(* One capped map under any sequence of operations.                        *)

\* The inductive invariant: the map is well formed and the history is typed.
MapInv ==
  /\ Fits(cm, MapKeys, Values, Cap)
  /\ since \in [MapKeys -> Nat]
  /\ ops \in Nat

LEMMA InitFits == MapInit => MapInv
BY CapIsNat, EmptySeq
   DEF MapInit, MapInv, Fits, EmptyCapped, Resident, Queued, Distinct

LEMMA StepFits == MapInv /\ [MapNext]_mapVars => MapInv'
<1> SUFFICES ASSUME MapInv, [MapNext]_mapVars PROVE MapInv'
  OBVIOUS
<1>1. ASSUME NEW k \in MapKeys, NEW v \in Values, DoInsert(k, v) PROVE MapInv'
  BY <1>1, InsertFits, CapIsNat DEF MapInv, DoInsert
<1>2. ASSUME NEW k \in MapKeys, DoRemove(k) PROVE MapInv'
  BY <1>2, RemoveFits, CapIsNat DEF MapInv, DoRemove
<1>3. ASSUME NEW k \in MapKeys, NEW v \in Values, DoReplace(k, v) PROVE MapInv'
  BY <1>3, ReplaceFits, CapIsNat DEF MapInv, DoReplace
<1>4. CASE UNCHANGED mapVars
  BY <1>4 DEF MapInv, mapVars, Fits, Resident, Queued
<1> QED
  BY <1>1, <1>2, <1>3, <1>4 DEF MapNext

LEMMA CappedInvariant == MapSpec => []MapInv
BY InitFits, StepFits, PTL DEF MapSpec

(***************************************************************************)
(* The capped map and its history have their types, for all keys, values   *)
(* and caps (cache.rs, CappedMap).                                         *)
(***************************************************************************)
THEOREM CappedTypeOK == MapSpec => []MapTypeOK
<1>1. MapInv => MapTypeOK
  BY DEF MapInv, MapTypeOK, Fits
<1> QED
  BY <1>1, CappedInvariant, PTL

(***************************************************************************)
(* The eviction queue enumerates the resident keys without repetition.     *)
(***************************************************************************)
THEOREM CappedQueue == MapSpec => []QueueIsResident
<1>1. MapInv => QueueIsResident
  BY DEF MapInv, QueueIsResident, Fits, Distinct
<1> QED
  BY <1>1, CappedInvariant, PTL

(***************************************************************************)
(* A capped map never outgrows its cap; with a cap of zero it stays empty. *)
(***************************************************************************)
THEOREM CappedBound == MapSpec => []WithinCap
<1>1. MapInv => WithinCap
  BY ResidentCount DEF MapInv, WithinCap, Fits
<1> QED
  BY <1>1, CappedInvariant, PTL

-----------------------------------------------------------------------------
(* First in, first out.                                                    *)

\* The keys of s come in the order of what f gives them.
Sorted(s, f) ==
  \A i, j \in 1..Len(s) : i <= j => f[s[i]] <= f[s[j]]

\* The queue is in the order in which its keys became resident.
Aged ==
  /\ MapInv
  /\ Sorted(cm.order, since)
  /\ \A k \in Resident(cm) : since[k] <= ops

LEMMA SortedDrop ==
  ASSUME NEW s \in Seq(MapKeys), NEW f, NEW p \in 1..Len(s), Distinct(s), Sorted(s, f)
  PROVE  Sorted(DropAt(s, p), f)
<1> DEFINE t == DropAt(s, p)
<1>1. Len(s) \in Nat /\ Len(t) = Len(s) - 1
  BY LenProperties, DropAtDistinct
<1>2. \A i \in 1..Len(t) : t[i] = IF i < p THEN s[i] ELSE s[i + 1]
  BY <1>1 DEF DropAt
<1> HIDE DEF t
<1>3. Sorted(t, f)
  <2> SUFFICES ASSUME NEW i \in 1..Len(t), NEW j \in 1..Len(t), i <= j
               PROVE  f[t[i]] <= f[t[j]]
    BY DEF Sorted
  <2>1. PICK a, b \in 1..Len(s) : a <= b /\ t[i] = s[a] /\ t[j] = s[b]
    <3>1. CASE i < p /\ j < p
      BY <1>1, <1>2, <3>1
    <3>2. CASE i < p /\ ~(j < p)
      <4>1. j + 1 \in 1..Len(s) /\ i \in 1..Len(s) /\ i <= j + 1
        BY <1>1
      <4> QED
        BY <1>2, <3>2, <4>1
    <3>3. CASE ~(i < p) /\ ~(j < p)
      <4>1. j + 1 \in 1..Len(s) /\ i + 1 \in 1..Len(s) /\ i + 1 <= j + 1
        BY <1>1
      <4> QED
        BY <1>2, <3>3, <4>1
    <3>4. ~(~(i < p) /\ j < p)
      BY <1>1
    <3> QED
      BY <3>1, <3>2, <3>3, <3>4
  <2> QED
    BY <2>1 DEF Sorted
<1> QED
  BY <1>3 DEF t

\* How a newcomer changes the queue, and who leaves for it.
LEMMA InsertQueues ==
  ASSUME Fits(cm, MapKeys, Values, Cap), NEW k \in MapKeys, NEW v \in Values,
         Cap # 0, k \notin Resident(cm)
  PROVE  LET next  == Insert(cm, k, v, Cap)
             queue == Append(cm.order, k)
         IN  \/ next.order = queue /\ Resident(next) = Resident(cm) \cup {k}
             \/ /\ next.order = Tail(queue)
                /\ Resident(next) = (Resident(cm) \cup {k}) \ {Head(queue)}
BY DEF Insert, Resident, With, Without

LEMMA InsertAges ==
  ASSUME Aged, NEW k \in MapKeys, NEW v \in Values, DoInsert(k, v), Cap # 0, k \notin Resident(cm)
  PROVE  /\ Aged'
         /\ \A j \in Resident(cm) \ Resident(cm') : \A i \in Resident(cm) : since[j] <= since[i]
<1> DEFINE s == cm.order
           queue == Append(s, k)
<1>1. Fits(cm, MapKeys, Values, Cap) /\ MapInv' /\ ops \in Nat /\ since \in [MapKeys -> Nat]
  BY StepFits DEF Aged, MapInv, MapNext
<1>2. since' = [since EXCEPT ![k] = ops + 1] /\ ops' = ops + 1 /\ cm' = Insert(cm, k, v, Cap)
  BY DEF DoInsert
<1>3. /\ s \in Seq(MapKeys) /\ Len(s) \in Nat /\ Distinct(s)
      /\ Resident(cm) = {s[i] : i \in 1..Len(s)} /\ Resident(cm) \subseteq MapKeys
  BY <1>1, LenProperties DEF Fits, Queued
<1>4. \A i \in 1..Len(s) : s[i] # k /\ s[i] \in MapKeys /\ since'[s[i]] = since[s[i]]
  BY <1>1, <1>2, <1>3
<1>5. since'[k] = ops + 1 /\ \A i \in 1..Len(s) : since[s[i]] \in Nat /\ since[s[i]] <= ops
  BY <1>1, <1>2, <1>3, <1>4 DEF Aged
<1>6. /\ queue \in Seq(MapKeys) /\ Len(queue) = Len(s) + 1
      /\ \A i \in 1..Len(s) : queue[i] = s[i]
      /\ queue[Len(s) + 1] = k
  BY <1>3, AppendProperties
<1>7. Distinct(queue)
  BY <1>3, <1>4, AppendDistinct
<1> HIDE DEF queue
<1>8. Sorted(queue, since')
  <2> SUFFICES ASSUME NEW i \in 1..Len(queue), NEW j \in 1..Len(queue), i <= j
               PROVE  since'[queue[i]] <= since'[queue[j]]
    BY DEF Sorted
  <2>1. CASE j \in 1..Len(s)
    <3>1. i \in 1..Len(s)
      BY <1>3, <2>1
    <3>2. since[s[i]] <= since[s[j]]
      BY <2>1, <3>1 DEF Aged, Sorted
    <3> QED
      BY <1>4, <1>6, <2>1, <3>1, <3>2
  <2>2. CASE j = Len(s) + 1
    <3>1. CASE i = j
      BY <1>1, <1>5, <1>6, <2>2, <3>1
    <3>2. CASE i \in 1..Len(s)
      <4>1. since'[queue[i]] = since[s[i]] /\ since'[queue[j]] = ops + 1
        BY <1>4, <1>5, <1>6, <2>2, <3>2
      <4> QED
        BY <1>1, <1>5, <3>2, <4>1
    <3> QED
      BY <1>3, <2>2, <3>1, <3>2
  <2> QED
    BY <1>3, <1>6, <2>1, <2>2
<1>9. queue # << >> /\ 1 \in 1..Len(queue) /\ Head(queue) = queue[1]
  BY <1>3, <1>6
<1>10. Tail(queue) = DropAt(queue, 1)
  <2>1. /\ Tail(queue) \in Seq(MapKeys) /\ Len(Tail(queue)) = Len(queue) - 1
        /\ \A i \in 1..Len(Tail(queue)) : Tail(queue)[i] = queue[i + 1]
    BY <1>6, <1>9, HeadTailProperties
  <2>2. DropAt(queue, 1) \in Seq(MapKeys) /\ Len(DropAt(queue, 1)) = Len(queue) - 1
    BY <1>6, <1>7, <1>9, DropAtDistinct
  <2>3. \A i \in 1..Len(Tail(queue)) : DropAt(queue, 1)[i] = queue[i + 1]
    BY <1>3, <1>6, <2>1 DEF DropAt
  <2> QED
    BY <2>1, <2>2, <2>3, SeqEqual
<1>11. Sorted(Tail(queue), since')
  BY <1>6, <1>7, <1>8, <1>9, <1>10, SortedDrop
<1>12. \/ cm'.order = queue /\ Resident(cm') = Resident(cm) \cup {k}
       \/ cm'.order = Tail(queue) /\ Resident(cm') = (Resident(cm) \cup {k}) \ {queue[1]}
  BY <1>1, <1>2, <1>9, InsertQueues DEF queue
<1>13. Sorted(cm'.order, since')
  BY <1>8, <1>11, <1>12
<1>14. \A j \in Resident(cm') : since'[j] <= ops'
  <2> SUFFICES ASSUME NEW j \in Resident(cm') PROVE since'[j] <= ops'
    OBVIOUS
  <2>1. CASE j = k
    BY <1>1, <1>2, <1>5, <2>1
  <2>2. CASE j \in Resident(cm) /\ j # k
    <3>1. since'[j] = since[j] /\ since[j] \in Nat /\ since[j] <= ops
      BY <1>1, <1>2, <1>3, <2>2 DEF Aged
    <3> QED
      BY <1>1, <1>2, <3>1
  <2> QED
    BY <1>12, <2>1, <2>2
<1>15. ASSUME NEW j \in Resident(cm) \ Resident(cm'), NEW i \in Resident(cm)
       PROVE  since[j] <= since[i]
  <2>1. j = queue[1]
    BY <1>12
  <2>2. PICK a \in 1..Len(s) : s[a] = i
    BY <1>3
  <2>3. 1 \in 1..Len(s) /\ 1 <= a /\ j = s[1]
    BY <1>3, <1>6, <2>1, <2>2
  <2> QED
    BY <2>2, <2>3 DEF Aged, Sorted
<1> QED
  BY <1>1, <1>13, <1>14, <1>15 DEF Aged

LEMMA StepAges ==
  ASSUME Aged, [MapNext]_mapVars
  PROVE  Aged'
<1>1. MapInv' /\ ops \in Nat /\ since \in [MapKeys -> Nat] /\ Fits(cm, MapKeys, Values, Cap)
  BY StepFits DEF Aged, MapInv
<1>2. ASSUME cm'.order = cm.order, Resident(cm') = Resident(cm), since' = since,
             ops' = ops \/ ops' = ops + 1
      PROVE  Aged'
  <2>1. \A k \in Resident(cm) : since[k] \in Nat /\ since[k] <= ops
    BY <1>1 DEF Aged, Fits
  <2>2. \A k \in Resident(cm') : since'[k] <= ops'
    BY <1>1, <1>2, <2>1
  <2> QED
    BY <1>1, <1>2, <2>2 DEF Aged
<1>3. ASSUME NEW k \in MapKeys, NEW v \in Values, DoInsert(k, v) PROVE Aged'
  <2>1. CASE Cap # 0 /\ k \notin Resident(cm)
    BY <1>3, <2>1, InsertAges
  <2>2. CASE k \in Resident(cm)
    <3>1. cm'.order = cm.order /\ Resident(cm') = Resident(cm) /\ since' = since /\ ops' = ops + 1
      BY <1>3, <2>2 DEF DoInsert, Insert, Resident, With
    <3> QED
      BY <1>2, <3>1
  <2>3. CASE Cap = 0 /\ k \notin Resident(cm)
    <3>1. Len(cm.order) = 0 /\ Resident(cm) = {}
      BY <1>1, <2>3, LenProperties DEF Fits, Queued
    <3>2. cm' = cm
      BY <1>3, <2>3 DEF DoInsert, Insert
    <3> QED
      BY <1>1, <3>1, <3>2 DEF Aged, Sorted
  <2> QED
    BY <2>1, <2>2, <2>3
<1>4. ASSUME NEW k \in MapKeys, DoRemove(k) PROVE Aged'
  <2>1. cm' = Remove(cm, k) /\ since' = since /\ ops' = ops + 1
    BY <1>4 DEF DoRemove
  <2>2. Resident(cm') = Resident(cm) \ {k} /\ cm'.order = DropKey(cm.order, k)
    BY <2>1, RemoveKeepsOthers DEF Remove
  <2>3. Sorted(cm'.order, since)
    <3>1. CASE \E i \in 1..Len(cm.order) : cm.order[i] = k
      <4>1. PICK p \in 1..Len(cm.order) : cm'.order = DropAt(cm.order, p)
        BY <2>2, <3>1 DEF DropKey
      <4> QED
        BY <1>1, <4>1, SortedDrop DEF Aged, Fits
    <3>2. CASE ~ \E i \in 1..Len(cm.order) : cm.order[i] = k
      BY <2>2, <3>2 DEF DropKey, Aged
    <3> QED
      BY <3>1, <3>2
  <2>4. \A j \in Resident(cm') : since'[j] <= ops'
    <3>1. \A j \in Resident(cm) : since[j] \in Nat /\ since[j] <= ops
      BY <1>1 DEF Aged, Fits
    <3> QED
      BY <1>1, <2>1, <2>2, <3>1
  <2> QED
    BY <1>1, <2>1, <2>3, <2>4 DEF Aged
<1>5. ASSUME NEW k \in MapKeys, NEW v \in Values, DoReplace(k, v) PROVE Aged'
  <2>1. cm'.order = cm.order /\ Resident(cm') = Resident(cm) /\ since' = since /\ ops' = ops + 1
    BY <1>5 DEF DoReplace, Replace, Resident, With
  <2> QED
    BY <1>2, <2>1
<1>6. CASE UNCHANGED mapVars
  BY <1>2, <1>6 DEF mapVars
<1> QED
  BY <1>3, <1>4, <1>5, <1>6 DEF MapNext

(***************************************************************************)
(* First in, first out: whoever leaves for a newcomer has been there the   *)
(* longest, for any keys, values, cap and length (CappedMap::insert).      *)
(***************************************************************************)
THEOREM CappedEvictsOldest == MapSpec => EvictsOldest
<1> DEFINE Oldest == \A k \in Resident(cm) \ Resident(cm') :
             (\E j \in MapKeys : j \in Resident(cm') \ Resident(cm))
               => \A j \in Resident(cm) : since[k] <= since[j]
<1>1. MapInit => Aged
  <2> SUFFICES ASSUME MapInit PROVE Aged
    OBVIOUS
  <2>1. Len(cm.order) = 0 /\ Resident(cm) = {}
    BY DEF MapInit, EmptyCapped, Resident
  <2> QED
    BY <2>1, InitFits DEF Aged, Sorted
<1>2. Aged /\ [MapNext]_mapVars => Aged'
  BY StepAges
<1>3. Aged /\ [MapNext]_mapVars => [Oldest]_mapVars
  <2> SUFFICES ASSUME Aged, MapNext, NEW j \in Resident(cm') \ Resident(cm),
                      NEW k \in Resident(cm) \ Resident(cm'), NEW i \in Resident(cm)
               PROVE  since[k] <= since[i]
    OBVIOUS
  <2>1. ASSUME NEW h \in MapKeys, NEW v \in Values, DoInsert(h, v) PROVE since[k] <= since[i]
    <3>1. CASE Cap # 0 /\ h \notin Resident(cm)
      BY <2>1, <3>1, InsertAges
    <3>2. CASE Cap = 0 \/ h \in Resident(cm)
      BY <2>1, <3>2 DEF DoInsert, Insert, Resident, With
    <3> QED
      BY <3>1, <3>2
  <2>2. ASSUME NEW h \in MapKeys, DoRemove(h) PROVE FALSE
    BY <2>2, RemoveKeepsOthers DEF DoRemove
  <2>3. ASSUME NEW h \in MapKeys, NEW v \in Values, DoReplace(h, v) PROVE FALSE
    BY <2>3 DEF DoReplace, Replace, Resident, With
  <2> QED
    BY <2>1, <2>2, <2>3 DEF MapNext
<1> QED
  BY <1>1, <1>2, <1>3, PTL DEF MapSpec, EvictsOldest

-----------------------------------------------------------------------------
(* Fingerprints.                                                           *)

\* A fingerprint taken while HEAD does not move describes the working tree.
LEMMA FingerprintDescribesTree ==
  ASSUME NEW h \in Heads, NEW w \in Trees
  PROVE  TreeOf(FingerprintOf(h, h, w)) = w
BY CommitsHoldTrees, MarksAreNoContents
   DEF TreeOf, FingerprintOf, DirtyAgainst, Trees

\* A fingerprint is one, whether or not HEAD moves while it is taken.
LEMMA FingerprintType ==
  ASSUME NEW h \in Heads, NEW g \in Heads, NEW w \in Trees
  PROVE  FingerprintOf(h, g, w) \in Fingerprint
BY CommitsHoldTrees DEF FingerprintOf, DirtyAgainst, Trees, Fingerprint

\* Two fingerprints with a provably empty diff describe the same tree.
LEMMA EmptyDiffSameTree ==
  ASSUME NEW a \in Fingerprint, NEW b \in Fingerprint, ChangedPaths(a, b) = {}
  PROVE  TreeOf(a) = TreeOf(b)
<1>1. Unknown # {}
  BY UnknownIsDistinct
<1>2. a.dirty = b.dirty
  BY <1>1 DEF ChangedPaths
<1>3. \A f \in Files : CommitTree[a.head][f] = CommitTree[b.head][f]
  BY <1>2 DEF ChangedPaths
<1> QED
  BY <1>2, <1>3 DEF TreeOf

-----------------------------------------------------------------------------
(* Shapes.                                                                 *)

\* The phases in which a run cannot but have a fingerprint.
Fingerprinted == Phases \ {"idle", "walk", "explore"}

\* The variables that hold no entry have their types, and those that do
\* are functions.
Shape ==
  /\ head \in Heads /\ work \in Trees /\ stamp \in [Files -> Nat]
  /\ pc \in [Runs -> Phases]
  /\ key \in [Runs -> Keys]
  /\ walkHead \in [Runs -> Heads]
  /\ fp \in [Runs -> Fingerprint \cup {Unknown}]
  /\ answer \in [Runs -> Answer]
  /\ quiet \in [Runs -> BOOLEAN]
  /\ DOMAIN queries = Procs /\ DOMAIN tools = Procs
  /\ DOMAIN disk = Keys /\ DOMAIN seen = Runs
  /\ \A r \in Runs : pc[r] \in Fingerprinted => fp[r] # Unknown

\* Every entry of a cache, and every one a run holds, is in S.
EntriesIn(S) ==
  /\ \A p \in Procs : \A k \in Resident(queries[p]) : queries[p].map[k] \in S
  /\ \A k \in Keys : disk[k] # NoEntry => disk[k] \in S
  /\ \A r \in Runs : pc[r] \in Holding => seen[r] \in S

\* Every cell of the tool memo is, with its key, in T.
MemoIn(T) ==
  \A p \in Procs : \A t \in Resident(tools[p]) : <<t, tools[p].map[t]>> \in T

TypedCells == (Fingerprint \X Files) \X Cell

\* The inductive invariant behind the types.
TypeInv == Shape /\ EntriesIn(Entry) /\ MemoIn(TypedCells)

-----------------------------------------------------------------------------
(* Strict mode.                                                            *)

\* What is true of every entry: its label still describes the tree it was
\* born with, and if that tree held still, its answer quotes it.
SoundEntry ==
  {e \in Entry : /\ TreeOf(e.fp) = TreeOf(e.born)
                 /\ e.quiet => QuotesLabel(e)}

\* What is true of every memo cell: made while the repository held still, it
\* has the content of the file in the tree of the fingerprint it is keyed by.
SoundCells ==
  {c \in TypedCells : c[2].quiet => c[2].content = TreeOf(c[1][1])[c[1][2]]}

\* What a run knows of the repository while that holds still under it.
RunsKnow ==
  \A r \in Runs : quiet[r] =>
    /\ fp[r] # Unknown => TreeOf(fp[r]) = work
    /\ pc[r] = "walk" => walkHead[r] = head
    /\ \A f \in Quoted(answer[r]) : answer[r][f] = work[f]

\* An entry found valid describes the tree of the run's fingerprint.
ValidIsSameTree ==
  \A r \in Runs : pc[r] \in {"relabel", "promote", "served"}
    => TreeOf(seen[r].fp) = TreeOf(fp[r])

\* The inductive invariant behind the promises of strict mode.
StrictInv ==
  TypeInv /\ EntriesIn(SoundEntry) /\ MemoIn(SoundCells) /\ RunsKnow /\ ValidIsSameTree
-----------------------------------------------------------------------------
(* Steps.                                                                  *)

\* A run belongs to a process and has a key.
LEMMA Places ==
  ASSUME Shape, NEW r \in Runs
  PROVE  ProcOf[r] \in Procs /\ key[r] \in Keys
BY RunsBelongToProcs DEF Shape

(***************************************************************************)
(* Whatever set S the entries are in, they stay in it, if new entries are  *)
(* made in S and relabelling does not lead out of it.                      *)
(***************************************************************************)
LEMMA EntriesStep ==
  ASSUME NEW S, Shape, EntriesIn(S), [Next]_vars,
         \A r \in Runs : pc[r] = "stamp" => NewEntry(r) \in S,
         \A r \in Runs : pc[r] = "relabel" /\ StillAsJudged(r)
           => Relabelled(L1(r).map[key[r]], r) \in S,
         \A r \in Runs : pc[r] = "promote" => Relabelled(seen[r], r) \in S
  PROVE  EntriesIn(S)'
<1> USE DEF EntriesIn
<1>1. CASE UNCHANGED vars
  BY <1>1 DEF vars, caches, locals, Resident
<1>2. ASSUME UNCHANGED <<queries, disk, seen>>,
             \A r \in Runs : pc'[r] \in Holding => pc[r] \in Holding
      PROVE  EntriesIn(S)'
  BY <1>2
<1>3. ASSUME NEW f \in Files, NEW c \in Contents, Edit(f, c) PROVE EntriesIn(S)'
  BY <1>3, <1>2 DEF Edit, caches
<1>4. ASSUME NEW h \in Heads, Commit(h) \/ Checkout(h) PROVE EntriesIn(S)'
  BY <1>4, <1>2 DEF Commit, Checkout, caches
<1>5. ASSUME NEW k \in Keys, DiskLoses(k) PROVE EntriesIn(S)'
  BY <1>5 DEF DiskLoses, locals, Shape
<1>6. ASSUME NEW p \in Procs, Restart(p) PROVE EntriesIn(S)'
  BY <1>6 DEF Restart, Over, Holding, EmptyCapped, Resident, Shape
<1>7. ASSUME NEW r \in Runs, NEW k \in Keys, Begin(r, k) PROVE EntriesIn(S)'
  BY <1>7 DEF Begin, caches, Holding, Shape
<1>8. ASSUME NEW r \in Runs, Walk(r) \/ WalkTimesOut(r) \/ MissMemory(r) PROVE EntriesIn(S)'
  BY <1>8, <1>2 DEF Walk, WalkTimesOut, MissMemory, Goto, caches, locals, Holding, Shape
<1>9. ASSUME NEW r \in Runs, HitMemory(r) \/ DoubtMemory(r) PROVE EntriesIn(S)'
  BY <1>9, Places DEF HitMemory, DoubtMemory, Goto, caches, Shape, InMemory, L1
<1>10. ASSUME NEW r \in Runs,
              \/ JudgeMemory(r) \/ JudgeMemoryTimesOut(r)
              \/ JudgeDisk(r) \/ JudgeDiskTimesOut(r)
       PROVE  EntriesIn(S)'
  <2>1. UNCHANGED <<queries, disk>>
    BY <1>10 DEF JudgeMemory, JudgeMemoryTimesOut, JudgeDisk, JudgeDiskTimesOut,
                 Judge, JudgeTimesOut, caches
  <2>2. ASSUME NEW q \in Runs, pc'[q] \in Holding
        PROVE  pc[q] \in Holding /\ seen'[q] = seen[q]
    <3>1. CASE JudgeMemory(r) \/ JudgeMemoryTimesOut(r)
      BY <2>2, <3>1 DEF JudgeMemory, JudgeMemoryTimesOut, Judge, JudgeTimesOut, Goto,
                        Holding, Shape
    <3>2. CASE JudgeDisk(r) \/ JudgeDiskTimesOut(r)
      BY <2>2, <3>2 DEF JudgeDisk, JudgeDiskTimesOut, Judge, JudgeTimesOut, Goto,
                        Holding, Shape
    <3> QED
      BY <1>10, <3>1, <3>2
  <2> QED
    BY <2>1, <2>2
<1>11. ASSUME NEW r \in Runs, Relabel(r) PROVE EntriesIn(S)'
  <2>1. /\ UNCHANGED <<disk, seen>>
        /\ \A q \in Runs : pc'[q] \in Holding => pc[q] \in Holding
    BY <1>11 DEF Relabel, Goto, locals, Holding, Shape
  <2>2. ASSUME NEW p \in Procs, NEW k \in Resident(queries'[p])
        PROVE  queries'[p].map[k] \in S
    <3>1. CASE StillAsJudged(r) /\ p = ProcOf[r]
      <4>1. queries'[p] = Replace(L1(r), key[r], Relabelled(L1(r).map[key[r]], r))
        BY <1>11, <3>1 DEF Relabel, Shape, L1
      <4>2. Resident(queries'[p]) = Resident(L1(r)) \cup {key[r]}
        BY <4>1, ReplaceSetsOne
      <4>3. queries'[p].map[key[r]] \in S
        BY <1>11, <3>1, <4>1, ReplaceSetsOne DEF Relabel, Goto
      <4>4. CASE k # key[r]
        BY <3>1, <4>1, <4>2, <4>4, ReplaceSetsOne DEF L1
      <4> QED
        BY <4>3, <4>4
    <3>2. CASE ~(StillAsJudged(r) /\ p = ProcOf[r])
      BY <1>11, <3>2 DEF Relabel, Shape
    <3> QED
      BY <3>1, <3>2
  <2> QED
    BY <2>1, <2>2
<1>12. ASSUME NEW r \in Runs, Drop(r) PROVE EntriesIn(S)'
  <2>1. ASSUME NEW p \in Procs, NEW k \in Resident(queries'[p])
        PROVE  queries'[p].map[k] \in S
    <3>1. CASE queries'[p] = Remove(queries[p], key[r])
      BY <3>1, RemoveKeepsOthers
    <3>2. CASE queries'[p] = queries[p]
      BY <3>2
    <3> QED
      BY <1>12, <3>1, <3>2 DEF Drop, Shape
  <2> QED
    BY <1>12, <2>1 DEF Drop, Goto, Holding, Shape
<1>13. ASSUME NEW r \in Runs, ReadDisk(r) PROVE EntriesIn(S)'
  BY <1>13, Places DEF ReadDisk, Goto, caches, Holding, Shape
<1>14. ASSUME NEW r \in Runs, NEW e \in S, queries' = [queries EXCEPT ![ProcOf[r]] =
                Insert(@, key[r], e, MaxEntries)]
       PROVE  \A p \in Procs : \A k \in Resident(queries'[p]) : queries'[p].map[k] \in S
  <2>1. ASSUME NEW p \in Procs, NEW k \in Resident(queries'[p])
        PROVE  queries'[p].map[k] \in S
    <3>1. CASE queries'[p] = Insert(queries[p], key[r], e, MaxEntries)
      BY <3>1, InsertAddsOne
    <3>2. CASE queries'[p] = queries[p]
      BY <3>2
    <3> QED
      BY <1>14, <3>1, <3>2 DEF Shape
  <2> QED
    BY <2>1
<1>15. ASSUME NEW r \in Runs, Promote(r) PROVE EntriesIn(S)'
  <2>1. Relabelled(seen[r], r) \in S
    BY <1>15 DEF Promote, Goto
  <2>2. \A p \in Procs : \A k \in Resident(queries'[p]) : queries'[p].map[k] \in S
    BY <1>15, <1>14, <2>1 DEF Promote
  <2> QED
    BY <1>15, <2>2 DEF Promote, Goto, locals, Holding, Shape
<1>16. ASSUME NEW r \in Runs,
              \/ Finish(r) \/ \E f \in Files : ReadMemo(r, f) \/ ReadFile(r, f)
       PROVE  EntriesIn(S)'
  BY <1>16, <1>2 DEF Finish, ReadMemo, ReadFile, Goto, caches, locals, Holding, Shape
<1>17. ASSUME NEW r \in Runs, FinishUnstored(r) PROVE EntriesIn(S)'
  BY <1>17 DEF FinishUnstored, Over, caches, Holding, Shape
<1>18. ASSUME NEW r \in Runs, Stamp(r) PROVE EntriesIn(S)'
  BY <1>18 DEF Stamp, Goto, caches, Shape
<1>19. ASSUME NEW r \in Runs, PutMemory(r) PROVE EntriesIn(S)'
  <2>1. seen[r] \in S
    BY <1>19 DEF PutMemory, Goto, Holding
  <2>2. \A p \in Procs : \A k \in Resident(queries'[p]) : queries'[p].map[k] \in S
    BY <1>19, <1>14, <2>1 DEF PutMemory
  <2> QED
    BY <1>19, <2>1, <2>2 DEF PutMemory, Goto, locals, Shape
<1>20. ASSUME NEW r \in Runs, PutDisk(r) \/ PutDiskFails(r) PROVE EntriesIn(S)'
  <2>1. seen[r] \in S
    BY <1>20 DEF PutDisk, PutDiskFails, Holding
  <2>2. \A q \in Runs : pc'[q] \in Holding => pc[q] \in Holding /\ seen'[q] = seen[q]
    <3>1. Over({r})
      BY <1>20 DEF PutDisk, PutDiskFails
    <3> QED
      BY <3>1 DEF Over, Holding
  <2>3. \A k \in Keys : disk'[k] \in {disk[k], seen[r]}
    BY <1>20 DEF PutDisk, PutDiskFails, caches, Shape
  <2>4. UNCHANGED queries
    BY <1>20 DEF PutDisk, PutDiskFails, caches
  <2> QED
    BY <2>1, <2>2, <2>3, <2>4
<1> HIDE DEF EntriesIn
<1>21. ASSUME NEW r \in Runs, Lookup(r) PROVE EntriesIn(S)'
  BY <1>8, <1>9, <1>10, <1>11, <1>12, <1>13, <1>15, <1>21 DEF Lookup
<1>22. ASSUME NEW r \in Runs, Explore(r) PROVE EntriesIn(S)'
  BY <1>16, <1>17, <1>22 DEF Explore
<1>23. ASSUME NEW r \in Runs, Store(r) PROVE EntriesIn(S)'
  BY <1>18, <1>19, <1>20, <1>23 DEF Store
<1>24. ASSUME Environment PROVE EntriesIn(S)'
  BY <1>3, <1>4, <1>5, <1>6, <1>24 DEF Environment
<1> QED
  BY <1>1, <1>7, <1>21, <1>22, <1>23, <1>24 DEF Next

(***************************************************************************)
(* Whatever set T the memo cells are in, they stay in it, if what a run    *)
(* reads from a file makes a cell in T.                                    *)
(***************************************************************************)
LEMMA MemoStep ==
  ASSUME NEW T, Shape, MemoIn(T), [Next]_vars,
         \A r \in Runs, f \in Files : pc[r] = "explore" /\ fp[r] # Unknown
           => <<ToolKey(r, f), [content |-> work[f], quiet |-> quiet[r]]>> \in T
  PROVE  MemoIn(T)'
<1>1. CASE UNCHANGED tools
  BY <1>1 DEF MemoIn
<1>2. ASSUME NEW p \in Procs, Restart(p) PROVE MemoIn(T)'
  BY <1>2 DEF Restart, EmptyCapped, Resident, MemoIn, Shape
<1>3. ASSUME NEW r \in Runs, NEW f \in Files, ReadFile(r, f) PROVE MemoIn(T)'
  <2>1. CASE fp[r] = Unknown
    BY <1>1, <1>3, <2>1 DEF ReadFile
  <2>2. CASE fp[r] # Unknown
    <3> DEFINE v == [content |-> work[f], quiet |-> quiet[r]]
    <3>1. <<ToolKey(r, f), v>> \in T
      BY <1>3, <2>2 DEF ReadFile
    <3>2. tools' = [tools EXCEPT ![ProcOf[r]] = Insert(@, ToolKey(r, f), v, MaxEntries)]
      BY <1>3, <2>2 DEF ReadFile
    <3> HIDE DEF v
    <3>3. ASSUME NEW p \in Procs, NEW t \in Resident(tools'[p])
          PROVE  <<t, tools'[p].map[t]>> \in T
      <4>1. CASE tools'[p] = Insert(tools[p], ToolKey(r, f), v, MaxEntries)
        BY <3>1, <4>1, InsertAddsOne DEF MemoIn
      <4>2. CASE tools'[p] = tools[p]
        BY <4>2 DEF MemoIn
      <4> QED
        BY <3>2, <4>1, <4>2 DEF Shape
    <3> QED
      BY <3>3 DEF MemoIn
  <2> QED
    BY <2>1, <2>2
<1>4. ASSUME NEW r \in Runs, Lookup(r) PROVE UNCHANGED tools
  BY <1>4 DEF Lookup, Walk, WalkTimesOut, MissMemory, HitMemory, DoubtMemory,
     JudgeMemory, JudgeMemoryTimesOut, JudgeDisk, JudgeDiskTimesOut, Judge, JudgeTimesOut,
     Relabel, Drop, ReadDisk, Promote, caches
<1>5. ASSUME NEW r \in Runs, Explore(r) PROVE MemoIn(T)'
  BY <1>1, <1>3, <1>5 DEF Explore, Finish, FinishUnstored, ReadMemo, caches
<1>6. ASSUME NEW r \in Runs, Store(r) PROVE UNCHANGED tools
  BY <1>6 DEF Store, Stamp, PutMemory, PutDisk, PutDiskFails, caches
<1>7. ASSUME Environment PROVE MemoIn(T)'
  BY <1>1, <1>2, <1>7 DEF Environment, Edit, Commit, Checkout, DiskLoses, caches
<1>8. ASSUME NEW r \in Runs, NEW k \in Keys, Begin(r, k) PROVE UNCHANGED tools
  BY <1>8 DEF Begin, caches
<1> QED
  BY <1>1, <1>4, <1>5, <1>6, <1>7, <1>8 DEF Next, vars, caches

\* The shape of the state is kept.
LEMMA ShapeStep ==
  ASSUME Shape, MemoIn(TypedCells), [Next]_vars
  PROVE  Shape'
<1>1. CASE UNCHANGED vars
  BY <1>1 DEF vars, repo, caches, locals, Shape
<1>2. ASSUME NEW f \in Files, NEW c \in Contents, Edit(f, c) PROVE Shape'
  BY <1>2 DEF Edit, Disturbed, caches, Shape, Trees
<1>3. ASSUME NEW h \in Heads, Commit(h) PROVE Shape'
  BY <1>3 DEF Commit, Disturbed, caches, Shape
<1>4. ASSUME NEW h \in Heads, Checkout(h) PROVE Shape'
  BY <1>4, CommitsHoldTrees DEF Checkout, Disturbed, caches, Shape, Trees
<1>5. ASSUME NEW k \in Keys, DiskLoses(k) PROVE Shape'
  BY <1>5 DEF DiskLoses, repo, locals, Shape
<1>6. ASSUME NEW R \in SUBSET Runs, Shape, Over(R), UNCHANGED repo,
             DOMAIN queries' = Procs, DOMAIN tools' = Procs, DOMAIN disk' = Keys
      PROVE  Shape'
  <2>1. NoAnswer \in Answer
    BY DEF NoAnswer, Answer
  <2>2. "idle" \in Phases /\ "idle" \notin Fingerprinted
    BY DEF Phases, Fingerprinted
  <2> QED
    BY <1>6, <2>1, <2>2, InitHeadIsCommit DEF Over, repo, Shape
<1>7. ASSUME NEW p \in Procs, Restart(p) PROVE Shape'
  BY <1>6, <1>7 DEF Restart, Shape
<1>8. ASSUME NEW r \in Runs, NEW k \in Keys, Begin(r, k) PROVE Shape'
  BY <1>8 DEF Begin, repo, caches, Shape, Phases, Fingerprinted, NoAnswer, Answer
<1>9. ASSUME NEW r \in Runs, Walk(r) PROVE Shape'
  <2>1. FingerprintOf(walkHead[r], head, work) \in Fingerprint
    BY FingerprintType DEF Shape
  <2> QED
    BY <1>9, <2>1, InitHeadIsCommit, UnknownIsDistinct
       DEF Walk, Goto, repo, caches, Shape, Phases, Fingerprinted
<1>10. ASSUME NEW r \in Runs, NEW from \in Phases, NEW to \in Phases, Goto(r, from, to),
              from \in Fingerprinted \/ to \notin Fingerprinted \/ fp[r] # Unknown,
              UNCHANGED <<repo, key, walkHead, fp, answer, quiet>>,
              DOMAIN queries' = Procs, UNCHANGED tools, UNCHANGED disk, DOMAIN seen' = Runs
       PROVE  Shape'
  BY <1>10 DEF Goto, repo, Shape
<1>11. ASSUME NEW r \in Runs, Lookup(r) PROVE Shape'
  <2>1. CASE WalkTimesOut(r)
    BY <1>10, <2>1 DEF WalkTimesOut, caches, locals, Phases, Fingerprinted, Shape
  <2>2. CASE MissMemory(r) \/ HitMemory(r) \/ DoubtMemory(r)
    BY <1>10, <2>2 DEF MissMemory, HitMemory, DoubtMemory, caches, locals, Phases, Fingerprinted, Shape
  <2>3. CASE JudgeMemory(r) \/ JudgeMemoryTimesOut(r)
    BY <1>10, <2>3 DEF JudgeMemory, JudgeMemoryTimesOut, Judge, JudgeTimesOut, caches, locals,
       Phases, Fingerprinted, Shape
  <2>4. CASE JudgeDisk(r) \/ JudgeDiskTimesOut(r)
    BY <1>10, <2>4 DEF JudgeDisk, JudgeDiskTimesOut, Judge, JudgeTimesOut, caches, locals,
       Phases, Fingerprinted, Shape
  <2>5. CASE Relabel(r) \/ Promote(r)
    BY <1>10, <2>5 DEF Relabel, Promote, locals, Phases, Fingerprinted, Shape
  <2>6. CASE Drop(r) \/ ReadDisk(r)
    BY <1>10, <2>6 DEF Drop, ReadDisk, caches, Phases, Fingerprinted, Shape
  <2> QED
    BY <1>9, <1>11, <2>1, <2>2, <2>3, <2>4, <2>5, <2>6 DEF Lookup
<1>12. ASSUME NEW r \in Runs, Finish(r) PROVE Shape'
  BY <1>10, <1>12 DEF Finish, caches, locals, Phases, Fingerprinted, Shape
<1>13. ASSUME NEW r \in Runs, FinishUnstored(r) PROVE Shape'
  BY <1>6, <1>13 DEF FinishUnstored, caches, Shape
<1>14. ASSUME NEW r \in Runs, NEW f \in Files, ReadMemo(r, f) PROVE Shape'
  <2> DEFINE cell == tools[ProcOf[r]].map[ToolKey(r, f)]
  <2>1. cell \in Cell
    BY <1>14, Places DEF ReadMemo, Memoized, MemoIn, TypedCells
  <2>2. cell.content \in Contents /\ cell.quiet \in BOOLEAN
    BY <2>1 DEF Cell
  <2>3. answer' \in [Runs -> Answer]
    BY <1>14, <2>2 DEF ReadMemo, Quote, Answer, Shape
  <2>4. quiet' \in [Runs -> BOOLEAN]
    BY <1>14, <2>2 DEF ReadMemo, Shape
  <2> QED
    BY <1>14, <2>3, <2>4 DEF ReadMemo, repo, caches, Shape
<1>15. ASSUME NEW r \in Runs, NEW f \in Files, ReadFile(r, f) PROVE Shape'
  <2>1. answer' \in [Runs -> Answer]
    BY <1>15 DEF ReadFile, Quote, Answer, Shape, Trees
  <2> QED
    BY <1>15, <2>1 DEF ReadFile, repo, Shape
<1>16. ASSUME NEW r \in Runs, Explore(r) PROVE Shape'
  BY <1>12, <1>13, <1>14, <1>15, <1>16 DEF Explore
<1>17. ASSUME NEW r \in Runs, Stamp(r) PROVE Shape'
  BY <1>17 DEF Stamp, Goto, NoAnswer, Answer, repo, caches, Shape, Phases, Fingerprinted
<1>18. ASSUME NEW r \in Runs, PutMemory(r) PROVE Shape'
  BY <1>10, <1>18 DEF PutMemory, locals, Phases, Fingerprinted, Shape
<1>19. ASSUME NEW r \in Runs, PutDisk(r) \/ PutDiskFails(r) PROVE Shape'
  BY <1>6, <1>19 DEF PutDisk, PutDiskFails, caches, Shape
<1>20. ASSUME NEW r \in Runs, Store(r) PROVE Shape'
  BY <1>17, <1>18, <1>19, <1>20 DEF Store
<1>21. ASSUME Environment PROVE Shape'
  BY <1>2, <1>3, <1>4, <1>5, <1>7, <1>21 DEF Environment
<1> QED
  BY <1>1, <1>8, <1>11, <1>16, <1>20, <1>21 DEF Next

-----------------------------------------------------------------------------
(* Types.                                                                  *)

\* A run with a fingerprint makes an entry and relabels entries to entries.
LEMMA NewEntryType ==
  ASSUME Shape, NEW r \in Runs, pc[r] = "stamp"
  PROVE  NewEntry(r) \in Entry
<1>1. fp[r] \in Fingerprint
  BY DEF Shape, Fingerprinted, Phases
<1>2. Stamps(r) \in Deps
  BY DEF Stamps, Deps, Shape
<1>3. answer[r] \in Answer /\ quiet[r] \in BOOLEAN
  BY DEF Shape
<1> QED
  BY <1>1, <1>2, <1>3 DEF NewEntry, Entry

LEMMA RelabelledType ==
  ASSUME Shape, NEW r \in Runs, pc[r] \in {"relabel", "promote"}, NEW e \in Entry
  PROVE  /\ Relabelled(e, r) \in Entry
         /\ Relabelled(e, r).fp = fp[r]
         /\ Relabelled(e, r).answer = e.answer
         /\ Relabelled(e, r).born = e.born
         /\ Relabelled(e, r).quiet = e.quiet
<1>1. fp[r] \in Fingerprint
  BY DEF Shape, Fingerprinted, Phases
<1>2. (e.kept /\ quiet[r]) \in BOOLEAN
  OBVIOUS
<1> QED
  BY <1>1, <1>2 DEF Relabelled, Entry

\* The entry a compare-and-swap finds is one of the cache.
LEMMA JudgedIsEntry ==
  ASSUME NEW S, Shape, EntriesIn(S), NEW r \in Runs, InMemory(r)
  PROVE  L1(r).map[key[r]] \in S
BY Places DEF EntriesIn, InMemory, L1

LEMMA TypeInit == Init => TypeInv
BY InitHeadIsCommit, CommitsHoldTrees
   DEF Init, TypeInv, Shape, EntriesIn, MemoIn, Trees, Phases, Holding, Fingerprinted,
       EmptyCapped, Resident, NoAnswer, Answer

LEMMA TypeStep == TypeInv /\ [Next]_vars => TypeInv'
<1> SUFFICES ASSUME TypeInv, [Next]_vars PROVE TypeInv'
  OBVIOUS
<1>1. Shape'
  BY ShapeStep DEF TypeInv
<1>2. EntriesIn(Entry)'
  <2>1. \A r \in Runs : pc[r] = "stamp" => NewEntry(r) \in Entry
    BY NewEntryType DEF TypeInv
  <2>2. \A r \in Runs : pc[r] = "relabel" /\ StillAsJudged(r)
          => Relabelled(L1(r).map[key[r]], r) \in Entry
    BY RelabelledType, JudgedIsEntry DEF TypeInv, StillAsJudged
  <2>3. \A r \in Runs : pc[r] = "promote" => Relabelled(seen[r], r) \in Entry
    BY RelabelledType DEF TypeInv, EntriesIn, Holding
  <2> QED
    BY <2>1, <2>2, <2>3, EntriesStep DEF TypeInv
<1>3. MemoIn(TypedCells)'
  <2>1. ASSUME NEW r \in Runs, NEW f \in Files, pc[r] = "explore", fp[r] # Unknown
        PROVE  <<ToolKey(r, f), [content |-> work[f], quiet |-> quiet[r]]>> \in TypedCells
    <3>1. fp[r] \in Fingerprint /\ work[f] \in Contents /\ quiet[r] \in BOOLEAN
      BY <2>1 DEF TypeInv, Shape, Trees
    <3> QED
      BY <3>1 DEF TypedCells, ToolKey, Cell
  <2> QED
    BY <2>1, MemoStep DEF TypeInv
<1> QED
  BY <1>1, <1>2, <1>3 DEF TypeInv

LEMMA TypeInvariant == Spec => []TypeInv
BY TypeInit, TypeStep, PTL DEF Spec

(***************************************************************************)
(* Every variable of the query cache keeps its type in both key modes: an  *)
(* entry in memory, on disk or in a run's hands is an answer with a        *)
(* fingerprint (never stored without one, agent.rs store_query_cache), and *)
(* the tool memo is keyed by fingerprints and holds file contents.         *)
(***************************************************************************)
THEOREM QueryCacheTypeOK == Spec => []TypeOK
<1>1. ASSUME TypeInv PROVE TypeOK
  <2>1. L1Entries \cup DiskEntries \cup HeldEntries \subseteq Entry
    BY <1>1 DEF TypeInv, EntriesIn, L1Entries, DiskEntries, HeldEntries
  <2>2. \A p \in Procs : \A t \in Resident(tools[p]) :
          t \in Fingerprint \X Files /\ tools[p].map[t] \in Cell
    BY <1>1 DEF TypeInv, MemoIn, TypedCells
  <2> QED
    BY <1>1, <2>1, <2>2 DEF TypeInv, Shape, TypeOK
<1> QED
  BY <1>1, TypeInvariant, PTL

-----------------------------------------------------------------------------
(* Strict mode.                                                            *)

\* While the repository holds still under a run, what the run has quoted is
\* what its fingerprint describes.
LEMMA QuotesFingerprint ==
  ASSUME Shape, RunsKnow, NEW r \in Runs, quiet[r], fp[r] # Unknown,
         NEW f \in Quoted(answer[r])
  PROVE  answer[r][f] = TreeOf(fp[r])[f]
BY DEF RunsKnow

\* An answer produced while the repository held still makes a sound entry.
LEMMA NewEntrySound ==
  ASSUME Shape, RunsKnow, NEW r \in Runs, pc[r] = "stamp"
  PROVE  NewEntry(r) \in SoundEntry
<1>1. NewEntry(r) \in Entry /\ fp[r] # Unknown
  BY NewEntryType DEF Shape, Fingerprinted, Phases
<1>2. ASSUME quiet[r] PROVE QuotesLabel(NewEntry(r))
  BY <1>1, <1>2, QuotesFingerprint DEF QuotesLabel, NewEntry
<1> QED
  BY <1>1, <1>2 DEF SoundEntry, NewEntry

\* Relabelling a sound entry within its tree leaves it sound.
LEMMA RelabelledSound ==
  ASSUME Shape, NEW r \in Runs, pc[r] \in {"relabel", "promote"},
         NEW e \in SoundEntry, TreeOf(e.fp) = TreeOf(fp[r])
  PROVE  Relabelled(e, r) \in SoundEntry
<1>1. e \in Entry
  BY DEF SoundEntry
<1> QED
  BY <1>1, RelabelledType DEF SoundEntry, QuotesLabel

\* What a verdict of validity stands on in strict mode.
LEMMA ValidSameTree ==
  ASSUME KeyMode = "strict", NEW r \in Runs, fp[r] \in Fingerprint,
         NEW e \in Entry, StillValid(e, r)
  PROVE  TreeOf(e.fp) = TreeOf(fp[r])
<1>1. e.fp \in Fingerprint
  BY DEF Entry
<1> QED
  BY <1>1, EmptyDiffSameTree DEF StillValid

LEMMA ValidStep ==
  ASSUME KeyMode = "strict", TypeInv, ValidIsSameTree, [Next]_vars
  PROVE  ValidIsSameTree'
<1> DEFINE Valid(r) == pc[r] \in {"relabel", "promote", "served"}
<1>1. ASSUME UNCHANGED <<fp, seen>>, \A r \in Runs : Valid(r)' => Valid(r)
      PROVE  ValidIsSameTree'
  BY <1>1 DEF ValidIsSameTree
<1>2. ASSUME NEW r \in Runs, \A q \in Runs \ {r} : /\ pc'[q] = pc[q]
                                                 /\ fp'[q] = fp[q]
                                                 /\ seen'[q] = seen[q],
             Valid(r)' => TreeOf(seen'[r].fp) = TreeOf(fp'[r])
      PROVE  ValidIsSameTree'
  BY <1>2 DEF ValidIsSameTree
<1>3. ASSUME NEW R \in SUBSET Runs, Over(R) PROVE ValidIsSameTree'
  <2>1. \A r \in Runs : Valid(r)' => Valid(r) /\ fp'[r] = fp[r] /\ seen'[r] = seen[r]
    BY <1>3 DEF Over
  <2> QED
    BY <2>1 DEF ValidIsSameTree
<1>4. CASE UNCHANGED vars
  BY <1>1, <1>4 DEF vars, locals
<1>5. ASSUME NEW r \in Runs, NEW k \in Keys, Begin(r, k) PROVE ValidIsSameTree'
  BY <1>2, <1>5 DEF Begin, TypeInv, Shape
<1>6. ASSUME NEW r \in Runs, Lookup(r) PROVE ValidIsSameTree'
  <2>1. CASE Walk(r) \/ Drop(r) \/ ReadDisk(r)
    BY <1>2, <2>1 DEF Walk, Drop, ReadDisk, Goto, TypeInv, Shape
  <2>2. CASE WalkTimesOut(r) \/ MissMemory(r)
    BY <1>1, <2>2 DEF WalkTimesOut, MissMemory, Goto, locals, TypeInv, Shape
  <2>3. CASE HitMemory(r) \/ DoubtMemory(r)
    BY <1>2, <2>3 DEF HitMemory, DoubtMemory, Goto, TypeInv, Shape
  <2>4. CASE JudgeMemory(r) \/ JudgeDisk(r)
    <3>1. StillValid(seen[r], r) \/ ~Valid(r)'
      BY <2>4 DEF JudgeMemory, JudgeDisk, Judge, Goto, TypeInv, Shape
    <3>2. pc[r] \in Holding /\ pc[r] \in Fingerprinted
      BY <2>4 DEF JudgeMemory, JudgeDisk, Judge, Goto, Holding, Fingerprinted, Phases
    <3>3. seen[r] \in Entry /\ fp[r] \in Fingerprint
      BY <3>2 DEF TypeInv, EntriesIn, Shape
    <3>4. /\ UNCHANGED fp
          /\ \A q \in Runs \ {r} : pc'[q] = pc[q] /\ seen'[q] = seen[q]
          /\ StillValid(seen[r], r) => seen'[r] = seen[r]
      BY <2>4 DEF JudgeMemory, JudgeDisk, Judge, Goto, TypeInv, Shape
    <3>5. Valid(r)' => TreeOf(seen'[r].fp) = TreeOf(fp'[r])
      BY <3>1, <3>3, <3>4, ValidSameTree
    <3> QED
      BY <1>2, <3>4, <3>5
  <2>5. CASE JudgeMemoryTimesOut(r) \/ JudgeDiskTimesOut(r)
    BY <1>2, <2>5 DEF JudgeMemoryTimesOut, JudgeDiskTimesOut, JudgeTimesOut, Goto,
       TypeInv, Shape
  <2>6. CASE Relabel(r) \/ Promote(r)
    BY <1>1, <2>6 DEF Relabel, Promote, Goto, locals, TypeInv, Shape
  <2> QED
    BY <1>6, <2>1, <2>2, <2>3, <2>4, <2>5, <2>6 DEF Lookup
<1>7. ASSUME NEW r \in Runs, Explore(r) PROVE ValidIsSameTree'
  BY <1>1, <1>3, <1>7 DEF Explore, Finish, FinishUnstored, ReadMemo, ReadFile, Goto, locals,
     TypeInv, Shape
<1>8. ASSUME NEW r \in Runs, Store(r) PROVE ValidIsSameTree'
  <2>1. CASE Stamp(r) \/ PutMemory(r)
    BY <1>2, <2>1 DEF Stamp, PutMemory, Goto, locals, TypeInv, Shape
  <2>2. CASE PutDisk(r) \/ PutDiskFails(r)
    BY <1>3, <2>2 DEF PutDisk, PutDiskFails
  <2> QED
    BY <1>8, <2>1, <2>2 DEF Store
<1>9. ASSUME Environment PROVE ValidIsSameTree'
  <2>1. CASE \E p \in Procs : Restart(p)
    BY <1>3, <2>1 DEF Restart
  <2> QED
    BY <1>1, <1>9, <2>1 DEF Environment, Edit, Commit, Checkout, DiskLoses, locals
<1> QED
  BY <1>4, <1>5, <1>6, <1>7, <1>8, <1>9 DEF Next

LEMMA KnowStep ==
  ASSUME TypeInv, MemoIn(SoundCells), RunsKnow, [Next]_vars
  PROVE  RunsKnow'
<1>1. ASSUME UNCHANGED <<head, work, walkHead, fp, answer, quiet>>,
             \A r \in Runs : pc'[r] = "walk" => pc[r] = "walk"
      PROVE  RunsKnow'
  BY <1>1 DEF RunsKnow, TreeOf, Quoted
<1>2. ASSUME NEW r \in Runs,
             \A q \in Runs \ {r} : /\ pc'[q] = pc[q]
                                  /\ walkHead'[q] = walkHead[q]
                                  /\ fp'[q] = fp[q]
                                  /\ answer'[q] = answer[q]
                                  /\ quiet'[q] = quiet[q],
             UNCHANGED <<head, work>>,
             quiet'[r] => /\ fp'[r] # Unknown => TreeOf(fp'[r]) = work
                          /\ pc'[r] = "walk" => walkHead'[r] = head
                          /\ \A f \in Quoted(answer'[r]) : answer'[r][f] = work[f]
      PROVE  RunsKnow'
  BY <1>2 DEF RunsKnow, TreeOf, Quoted
<1>3. ASSUME NEW R \in SUBSET Runs, Over(R), UNCHANGED repo PROVE RunsKnow'
  <2>1. UNCHANGED <<head, work>>
    BY <1>3 DEF repo
  <2>2. ASSUME NEW r \in Runs \ R
        PROVE  /\ pc'[r] = pc[r] /\ walkHead'[r] = walkHead[r] /\ fp'[r] = fp[r]
               /\ answer'[r] = answer[r] /\ quiet'[r] = quiet[r]
    BY <1>3 DEF Over
  <2>3. ASSUME NEW r \in R
        PROVE  pc'[r] = "idle" /\ fp'[r] = Unknown /\ Quoted(answer'[r]) = {}
    BY <1>3 DEF Over, NoAnswer, Quoted
  <2> QED
    BY <2>1, <2>2, <2>3 DEF RunsKnow
<1>4. ASSUME Disturbed PROVE RunsKnow'
  BY <1>4 DEF Disturbed, RunsKnow
<1>5. CASE UNCHANGED vars
  BY <1>1, <1>5 DEF vars, repo, locals
<1>6. ASSUME NEW r \in Runs, NEW k \in Keys, Begin(r, k) PROVE RunsKnow'
  <2>1. Quoted(answer'[r]) = {} /\ fp'[r] = Unknown /\ walkHead'[r] = head
    BY <1>6 DEF Begin, NoAnswer, Quoted, TypeInv, Shape
  <2> QED
    BY <1>2, <1>6, <2>1 DEF Begin, repo, TypeInv, Shape
<1>7. ASSUME NEW r \in Runs, Lookup(r) PROVE RunsKnow'
  <2>1. CASE Walk(r)
    <3>1. quiet[r] => TreeOf(FingerprintOf(walkHead[r], head, work)) = work
      BY <2>1, FingerprintDescribesTree DEF Walk, Goto, RunsKnow, TypeInv, Shape
    <3>2. fp'[r] = FingerprintOf(walkHead[r], head, work) /\ pc'[r] = "lookup"
      BY <2>1 DEF Walk, Goto, TypeInv, Shape
    <3>3. /\ UNCHANGED <<head, work, answer, quiet>>
          /\ \A q \in Runs \ {r} : /\ pc'[q] = pc[q]
                                  /\ walkHead'[q] = walkHead[q]
                                  /\ fp'[q] = fp[q]
      BY <2>1 DEF Walk, Goto, repo, TypeInv, Shape
    <3>4. quiet[r] => \A f \in Quoted(answer[r]) : answer[r][f] = work[f]
      BY DEF RunsKnow
    <3> QED
      BY <1>2, <3>1, <3>2, <3>3, <3>4
  <2>2. CASE WalkTimesOut(r) \/ MissMemory(r)
    BY <1>1, <2>2 DEF WalkTimesOut, MissMemory, Goto, repo, locals, TypeInv, Shape
  <2>3. CASE HitMemory(r) \/ DoubtMemory(r)
    BY <1>1, <2>3 DEF HitMemory, DoubtMemory, Goto, repo, TypeInv, Shape
  <2>4. CASE JudgeMemory(r) \/ JudgeDisk(r)
    BY <1>1, <2>4 DEF JudgeMemory, JudgeDisk, Judge, Goto, repo, locals, TypeInv, Shape
  <2>5. CASE JudgeMemoryTimesOut(r) \/ JudgeDiskTimesOut(r)
    BY <1>1, <2>5 DEF JudgeMemoryTimesOut, JudgeDiskTimesOut, JudgeTimesOut, Goto, repo, locals,
       TypeInv, Shape
  <2>6. CASE Relabel(r) \/ Promote(r)
    BY <1>1, <2>6 DEF Relabel, Promote, Goto, repo, locals, TypeInv, Shape
  <2>7. CASE Drop(r) \/ ReadDisk(r)
    BY <1>1, <2>7 DEF Drop, ReadDisk, Goto, repo, TypeInv, Shape
  <2> QED
    BY <1>7, <2>1, <2>2, <2>3, <2>4, <2>5, <2>6, <2>7 DEF Lookup
<1>8. ASSUME NEW r \in Runs, NEW f \in Files, ReadMemo(r, f) PROVE RunsKnow'
  <2> DEFINE cell == tools[ProcOf[r]].map[ToolKey(r, f)]
  <2>1. cell.quiet => cell.content = TreeOf(fp[r])[f]
    BY <1>8, Places DEF ReadMemo, Memoized, ToolKey, MemoIn, SoundCells, TypeInv
  <2>2. fp[r] # Unknown
    BY <1>8 DEF ReadMemo, Memoized
  <2>3. /\ answer'[r] = [answer[r] EXCEPT ![f] = cell.content]
        /\ quiet'[r] = (quiet[r] /\ cell.quiet)
        /\ \A q \in Runs \ {r} : answer'[q] = answer[q] /\ quiet'[q] = quiet[q]
        /\ UNCHANGED <<head, work, pc, walkHead, fp>>
    BY <1>8 DEF ReadMemo, Quote, repo, TypeInv, Shape
  <2>4. quiet'[r] => cell.content = work[f]
    BY <2>1, <2>2, <2>3 DEF RunsKnow
  <2>5. quiet'[r] => \A g \in Quoted(answer'[r]) : answer'[r][g] = work[g]
    BY <2>3, <2>4 DEF Quoted, RunsKnow, TypeInv, Shape, Answer
  <2> QED
    BY <1>2, <2>3, <2>5 DEF RunsKnow
<1>9. ASSUME NEW r \in Runs, NEW f \in Files, ReadFile(r, f) PROVE RunsKnow'
  <2>1. /\ answer'[r] = [answer[r] EXCEPT ![f] = work[f]]
        /\ \A q \in Runs \ {r} : answer'[q] = answer[q]
        /\ UNCHANGED <<head, work, pc, walkHead, fp, quiet>>
    BY <1>9 DEF ReadFile, Quote, repo, TypeInv, Shape
  <2>2. quiet[r] => \A g \in Quoted(answer'[r]) : answer'[r][g] = work[g]
    BY <2>1 DEF Quoted, RunsKnow, TypeInv, Shape, Answer
  <2> QED
    BY <1>2, <2>1, <2>2 DEF RunsKnow
<1>10. ASSUME NEW r \in Runs, Explore(r) PROVE RunsKnow'
  <2>1. CASE Finish(r)
    BY <1>1, <2>1 DEF Finish, Goto, repo, locals, TypeInv, Shape
  <2>2. CASE FinishUnstored(r)
    BY <1>3, <2>2 DEF FinishUnstored
  <2> QED
    BY <1>8, <1>9, <1>10, <2>1, <2>2 DEF Explore
<1>11. ASSUME NEW r \in Runs, Store(r) PROVE RunsKnow'
  <2>1. CASE Stamp(r)
    <3>1. Quoted(answer'[r]) = {} /\ \A q \in Runs \ {r} : answer'[q] = answer[q]
      BY <2>1 DEF Stamp, NoAnswer, Quoted, TypeInv, Shape
    <3>2. /\ UNCHANGED <<head, work, walkHead, fp, quiet>>
          /\ pc'[r] = "put" /\ \A q \in Runs \ {r} : pc'[q] = pc[q]
      BY <2>1 DEF Stamp, Goto, repo, TypeInv, Shape
    <3> QED
      BY <1>2, <3>1, <3>2 DEF RunsKnow
  <2>2. CASE PutMemory(r)
    BY <1>1, <2>2 DEF PutMemory, Goto, repo, locals, TypeInv, Shape
  <2>3. CASE PutDisk(r) \/ PutDiskFails(r)
    BY <1>3, <2>3 DEF PutDisk, PutDiskFails
  <2> QED
    BY <1>11, <2>1, <2>2, <2>3 DEF Store
<1>12. ASSUME Environment PROVE RunsKnow'
  <2>1. CASE \E k \in Keys : DiskLoses(k)
    BY <1>1, <2>1 DEF DiskLoses, repo, locals
  <2>2. CASE \E p \in Procs : Restart(p)
    BY <1>3, <2>2 DEF Restart
  <2> QED
    BY <1>4, <1>12, <2>1, <2>2 DEF Environment, Edit, Commit, Checkout
<1> QED
  BY <1>5, <1>6, <1>7, <1>10, <1>11, <1>12 DEF Next

\* Cells stay sound: what a run reads while the repository holds still is what
\* its fingerprint describes.
LEMMA CellsStep ==
  ASSUME TypeInv, MemoIn(SoundCells), RunsKnow, [Next]_vars
  PROVE  MemoIn(SoundCells)'
<1>1. ASSUME NEW r \in Runs, NEW f \in Files, pc[r] = "explore", fp[r] # Unknown
      PROVE  <<ToolKey(r, f), [content |-> work[f], quiet |-> quiet[r]]>> \in SoundCells
  <2>1. fp[r] \in Fingerprint /\ work[f] \in Contents /\ quiet[r] \in BOOLEAN
    BY <1>1 DEF TypeInv, Shape, Trees
  <2>2. quiet[r] => work[f] = TreeOf(fp[r])[f]
    BY <1>1 DEF RunsKnow
  <2> QED
    BY <2>1, <2>2 DEF SoundCells, TypedCells, ToolKey, Cell
<1> QED
  BY <1>1, MemoStep DEF TypeInv

LEMMA StrictInit == Init => StrictInv
BY TypeInit
   DEF Init, StrictInv, EntriesIn, MemoIn, RunsKnow, ValidIsSameTree, Holding,
       EmptyCapped, Resident, NoAnswer, Quoted

LEMMA StrictStep ==
  ASSUME KeyMode = "strict"
  PROVE  StrictInv /\ [Next]_vars => StrictInv'
<1> SUFFICES ASSUME StrictInv, [Next]_vars PROVE StrictInv'
  OBVIOUS
<1>1. TypeInv /\ Shape
  BY DEF StrictInv, TypeInv
<1>2. TypeInv'
  BY <1>1, TypeStep
<1>3. EntriesIn(SoundEntry)'
  <2>1. \A r \in Runs : pc[r] = "stamp" => NewEntry(r) \in SoundEntry
    BY <1>1, NewEntrySound DEF StrictInv
  <2>2. ASSUME NEW r \in Runs, pc[r] = "relabel", StillAsJudged(r)
        PROVE  Relabelled(L1(r).map[key[r]], r) \in SoundEntry
    <3> DEFINE e == L1(r).map[key[r]]
    <3>1. e \in SoundEntry /\ e.fp = seen[r].fp
      BY <1>1, <2>2, JudgedIsEntry DEF StrictInv, StillAsJudged
    <3>2. TreeOf(e.fp) = TreeOf(fp[r])
      BY <2>2, <3>1 DEF StrictInv, ValidIsSameTree
    <3> QED
      BY <1>1, <2>2, <3>1, <3>2, RelabelledSound
  <2>3. ASSUME NEW r \in Runs, pc[r] = "promote"
        PROVE  Relabelled(seen[r], r) \in SoundEntry
    <3>1. seen[r] \in SoundEntry /\ TreeOf(seen[r].fp) = TreeOf(fp[r])
      BY <2>3 DEF StrictInv, EntriesIn, Holding, ValidIsSameTree
    <3> QED
      BY <1>1, <2>3, <3>1, RelabelledSound
  <2> QED
    BY <1>1, <2>1, <2>2, <2>3, EntriesStep DEF StrictInv
<1>4. MemoIn(SoundCells)'
  BY CellsStep DEF StrictInv
<1>5. RunsKnow'
  BY KnowStep DEF StrictInv
<1>6. ValidIsSameTree'
  BY ValidStep DEF StrictInv
<1> QED
  BY <1>2, <1>3, <1>4, <1>5, <1>6 DEF StrictInv

LEMMA StrictInvariant ==
  ASSUME KeyMode = "strict"
  PROVE  Spec => []StrictInv
BY StrictInit, StrictStep, PTL DEF Spec

(***************************************************************************)
(* In strict mode a cache hit never hands out a snippet that an edit has   *)
(* invalidated (agent.rs query_cache_lookup; configuration.md, `strict`):  *)
(* for any number of explorations in any number of processes over any      *)
(* history, if the repository held still while the answer was produced     *)
(* and holds still under the run it is served to.                          *)
(***************************************************************************)
THEOREM StrictServesFresh ==
  ASSUME KeyMode = "strict"
  PROVE  Spec => []ServedFresh
<1>1. ASSUME StrictInv PROVE ServedFresh
  <2>1. SUFFICES ASSUME NEW r \in Runs, pc[r] = "served", quiet[r], seen[r].quiet,
                        NEW f \in Quoted(seen[r].answer)
                 PROVE  seen[r].answer[f] = work[f]
    BY DEF ServedFresh, QuotesWork
  <2>2. seen[r] \in SoundEntry
    BY <1>1, <2>1 DEF StrictInv, EntriesIn, Holding
  <2>3. seen[r].answer[f] = TreeOf(seen[r].fp)[f]
    BY <2>1, <2>2 DEF SoundEntry, QuotesLabel
  <2>4. TreeOf(seen[r].fp) = TreeOf(fp[r])
    BY <1>1, <2>1 DEF StrictInv, ValidIsSameTree
  <2>5. fp[r] # Unknown
    BY <1>1, <2>1 DEF StrictInv, TypeInv, Shape, Fingerprinted, Phases
  <2>6. TreeOf(fp[r]) = work
    BY <1>1, <2>1, <2>5 DEF StrictInv, RunsKnow
  <2> QED
    BY <2>3, <2>4, <2>6
<1> QED
  BY <1>1, StrictInvariant, PTL

(***************************************************************************)
(* In strict mode no chain of relabels and promotions, by whatever runs,   *)
(* ever carries an entry to a tree other than the one it was produced on   *)
(* (cache.rs refresh_query_fingerprint, agent.rs query_cache_lookup).      *)
(***************************************************************************)
THEOREM StrictLabelsKeepBirthTree ==
  ASSUME KeyMode = "strict"
  PROVE  Spec => []LabelKeepsBirthTree
<1>1. ASSUME StrictInv PROVE LabelKeepsBirthTree
  BY <1>1 DEF StrictInv, EntriesIn, SoundEntry, LabelKeepsBirthTree, L1Entries, DiskEntries
<1> QED
  BY <1>1, StrictInvariant, PTL

(***************************************************************************)
(* In strict mode an in-memory entry is right for its label, however the   *)
(* relabels, stores and deletions of concurrent runs interleave            *)
(* (cache.rs refresh_query_fingerprint, remove_query).                     *)
(***************************************************************************)
THEOREM StrictLabelsMatchAnswers ==
  ASSUME KeyMode = "strict"
  PROVE  Spec => []LabelMatchesAnswer
<1>1. ASSUME StrictInv PROVE LabelMatchesAnswer
  BY <1>1 DEF StrictInv, EntriesIn, SoundEntry, LabelMatchesAnswer, L1Entries
<1> QED
  BY <1>1, StrictInvariant, PTL

-----------------------------------------------------------------------------
(* The compare-and-delete.                                                 *)

\* An entry is only doubted, and only dropped, if its label is not the run's.
DoubtedIsForeign ==
  \A r \in Runs : pc[r] \in {"judge", "drop"} => seen[r].fp # fp[r]

DropInv == TypeInv /\ DoubtedIsForeign

LEMMA DropInit == Init => DropInv
BY TypeInit DEF Init, DropInv, DoubtedIsForeign

LEMMA DropStep == DropInv /\ [Next]_vars => DropInv'
<1> SUFFICES ASSUME DropInv, [Next]_vars PROVE DropInv'
  OBVIOUS
<1> DEFINE Doubting(r) == pc[r] \in {"judge", "drop"}
<1>1. ASSUME \A r \in Runs : Doubting(r)' =>
               \/ seen'[r].fp # fp'[r]
               \/ Doubting(r) /\ fp'[r] = fp[r] /\ seen'[r] = seen[r]
      PROVE  DropInv'
  BY <1>1, TypeStep DEF DropInv, DoubtedIsForeign
<1>2. CASE UNCHANGED vars
  BY <1>1, <1>2 DEF vars, locals
<1>3. ASSUME NEW r \in Runs, NEW k \in Keys, Begin(r, k) PROVE DropInv'
  BY <1>1, <1>3 DEF Begin, DropInv, TypeInv, Shape
<1>4. ASSUME NEW R \in SUBSET Runs, Over(R) PROVE DropInv'
  BY <1>1, <1>4 DEF Over
<1>5. ASSUME NEW r \in Runs, Lookup(r) PROVE DropInv'
  <2>1. CASE Walk(r) \/ WalkTimesOut(r) \/ MissMemory(r)
    BY <1>1, <2>1 DEF Walk, WalkTimesOut, MissMemory, Goto, locals, DropInv, TypeInv, Shape
  <2>2. CASE HitMemory(r) \/ DoubtMemory(r)
    BY <1>1, <2>2 DEF HitMemory, DoubtMemory, Goto, DropInv, TypeInv, Shape
  <2>3. CASE JudgeMemory(r) \/ JudgeMemoryTimesOut(r)
    BY <1>1, <2>3 DEF JudgeMemory, JudgeMemoryTimesOut, Judge, JudgeTimesOut, Goto, locals,
       DropInv, TypeInv, Shape
  <2>4. CASE JudgeDisk(r) \/ JudgeDiskTimesOut(r)
    BY <1>1, <2>4 DEF JudgeDisk, JudgeDiskTimesOut, Judge, JudgeTimesOut, Goto, locals,
       DropInv, TypeInv, Shape
  <2>5. CASE Relabel(r) \/ Promote(r)
    BY <1>1, <2>5 DEF Relabel, Promote, Goto, locals, DropInv, TypeInv, Shape
  <2>6. CASE Drop(r) \/ ReadDisk(r)
    BY <1>1, <2>6 DEF Drop, ReadDisk, Goto, DropInv, TypeInv, Shape
  <2> QED
    BY <1>5, <2>1, <2>2, <2>3, <2>4, <2>5, <2>6 DEF Lookup
<1>6. ASSUME NEW r \in Runs, Explore(r) PROVE DropInv'
  BY <1>1, <1>4, <1>6 DEF Explore, Finish, FinishUnstored, ReadMemo, ReadFile, Goto, locals,
     DropInv, TypeInv, Shape
<1>7. ASSUME NEW r \in Runs, Store(r) PROVE DropInv'
  <2>1. CASE Stamp(r) \/ PutMemory(r)
    BY <1>1, <2>1 DEF Stamp, PutMemory, Goto, locals, DropInv, TypeInv, Shape
  <2>2. CASE PutDisk(r) \/ PutDiskFails(r)
    BY <1>4, <2>2 DEF PutDisk, PutDiskFails
  <2> QED
    BY <1>7, <2>1, <2>2 DEF Store
<1>8. ASSUME Environment PROVE DropInv'
  <2>1. CASE \E p \in Procs : Restart(p)
    BY <1>4, <2>1 DEF Restart
  <2> QED
    BY <1>1, <1>8, <2>1 DEF Environment, Edit, Commit, Checkout, DiskLoses, locals
<1> QED
  BY <1>2, <1>3, <1>5, <1>6, <1>7, <1>8 DEF Next

\* Only a run's own compare-and-delete takes it from there to the disk.
LEMMA OnlyDropReadsOn ==
  ASSUME Shape, Next, NEW r \in Runs, pc[r] = "drop", pc'[r] = "readDisk"
  PROVE  Drop(r)
<1>1. ASSUME NEW q \in Runs, NEW k \in Keys, Begin(q, k) PROVE FALSE
  BY <1>1 DEF Begin, Shape
<1>2. ASSUME NEW R \in SUBSET Runs, Over(R) PROVE FALSE
  BY <1>2 DEF Over
<1>3. ASSUME NEW q \in Runs, NEW from, NEW to, Goto(q, from, to)
      PROVE  q = r /\ from = "drop" /\ to = "readDisk"
  BY <1>3 DEF Goto, Shape
<1>4. ASSUME NEW q \in Runs, Lookup(q) PROVE Drop(r)
  BY <1>3, <1>4 DEF Lookup, Walk, WalkTimesOut, MissMemory, HitMemory, DoubtMemory,
     JudgeMemory, JudgeMemoryTimesOut, JudgeDisk, JudgeDiskTimesOut, Judge, JudgeTimesOut,
     Relabel, Drop, ReadDisk, Promote
<1>5. ASSUME NEW q \in Runs, Explore(q) PROVE FALSE
  BY <1>2, <1>3, <1>5 DEF Explore, Finish, FinishUnstored, ReadMemo, ReadFile
<1>6. ASSUME NEW q \in Runs, Store(q) PROVE FALSE
  <2>1. CASE Stamp(q) \/ PutMemory(q)
    BY <1>3, <2>1 DEF Stamp, PutMemory
  <2>2. CASE PutDisk(q) \/ PutDiskFails(q)
    BY <1>2, <2>2 DEF PutDisk, PutDiskFails
  <2> QED
    BY <1>6, <2>1, <2>2 DEF Store
<1>7. ASSUME Environment PROVE FALSE
  <2>1. CASE \E p \in Procs : Restart(p)
    BY <1>2, <2>1 DEF Restart
  <2> QED
    BY <1>7, <2>1 DEF Environment, Edit, Commit, Checkout, DiskLoses, caches
<1> QED
  BY <1>1, <1>4, <1>5, <1>6, <1>7 DEF Next

(***************************************************************************)
(* In both modes the compare-and-delete of a stale verdict never removes   *)
(* an entry that carries the deleting run's own fingerprint, whoever       *)
(* stored it meanwhile (cache.rs remove_query).                            *)
(***************************************************************************)
THEOREM DropSparesFreshEntry == Spec => FreshEntrySurvivesDrop
<1>1. ASSUME DropInv, [Next]_vars
      PROVE  [\A r \in Runs :
                pc[r] = "drop" /\ pc'[r] = "readDisk" /\ InMemory(r) /\ L1(r).map[key[r]].fp = fp[r]
                  => InMemory(r)']_vars
  <2>1. SUFFICES ASSUME Next, NEW r \in Runs, pc[r] = "drop", pc'[r] = "readDisk", InMemory(r),
                        L1(r).map[key[r]].fp = fp[r]
                 PROVE  InMemory(r)'
    BY <1>1
  <2>2. Drop(r)
    BY <1>1, <2>1, OnlyDropReadsOn DEF DropInv, TypeInv
  <2>3. ~StillAsJudged(r)
    BY <1>1, <2>1 DEF StillAsJudged, DropInv, DoubtedIsForeign
  <2>4. UNCHANGED <<queries, key>>
    BY <2>2, <2>3 DEF Drop
  <2> QED
    BY <2>1, <2>4 DEF InMemory, L1, Resident
<1> QED
  BY <1>1, DropInit, DropStep, PTL DEF Spec, FreshEntrySurvivesDrop

-----------------------------------------------------------------------------
(* One exploration at a time in each process, in either mode.              *)

OneRunEach == \A q, r \in Runs : ProcOf[q] = ProcOf[r] => q = r

\* What is true of every entry: its stamps are of all the files it quotes or of
\* none, and none is from the future; if its answer was produced while the
\* repository held still, a file with an unmoved stamp still reads as quoted; and
\* if the repository also held still under all who relabelled it, it is right
\* for its label.
SteadyEntry ==
  {e \in Entry : /\ Stamped(e.deps) \in {{}, Quoted(e.answer)}
                 /\ \A f \in Stamped(e.deps) : e.deps[f] <= stamp[f]
                 /\ e.quiet => \A f \in Stamped(e.deps) :
                                 e.deps[f] = stamp[f] => e.answer[f] = work[f]
                 /\ e.quiet /\ e.kept => QuotesLabel(e)}

Reliable(r) == quiet[r] /\ seen[r].quiet /\ seen[r].kept => QuotesWork(seen[r])

\* An entry found valid quotes the files as they are.
ValidIsReliable == \A r \in Runs : pc[r] \in {"relabel", "promote", "served"} => Reliable(r)

\* The entry that was judged is the one in memory.
JudgedIsThere ==
  \A r \in Runs : pc[r] \in {"judge", "relabel", "drop"} /\ InMemory(r) =>
    L1(r).map[key[r]] = seen[r]

\* The inductive invariant.
LoneInv ==
  /\ TypeInv /\ EntriesIn(SteadyEntry) /\ MemoIn(SoundCells) /\ RunsKnow
  /\ ValidIsReliable /\ JudgedIsThere

\* An answer is stamped with what its files are at that moment.
LEMMA NewEntrySteady ==
  ASSUME TypeInv, RunsKnow, NEW r \in Runs, pc[r] = "stamp"
  PROVE  NewEntry(r) \in SteadyEntry
<1> DEFINE e == NewEntry(r)
<1>1. e \in Entry /\ fp[r] # Unknown
  BY NewEntryType DEF TypeInv, Shape, Fingerprinted, Phases
<1>2. e.deps = Stamps(r) /\ e.answer = answer[r] /\ e.quiet = quiet[r] /\ e.fp = fp[r]
  BY DEF NewEntry
<1>3. \A f \in Files : stamp[f] \in Nat /\ stamp[f] # Unknown
  BY UnknownIsNoStamp DEF TypeInv, Shape
<1>4. \A f \in Stamped(e.deps) : f \in Files /\ e.deps[f] = stamp[f] /\ f \in Quoted(answer[r])
  BY <1>2 DEF Stamped, Stamps
<1>5. Stamped(e.deps) \in {{}, Quoted(e.answer)}
  <2>1. CASE KeyMode = "paths" /\ \A g \in Quoted(answer[r]) : work[g] # Absent
    BY <1>2, <1>3, <2>1 DEF Stamped, Stamps, Quoted
  <2>2. CASE ~(KeyMode = "paths" /\ \A g \in Quoted(answer[r]) : work[g] # Absent)
    BY <1>2, <2>2 DEF Stamped, Stamps
  <2> QED
    BY <2>1, <2>2
<1>6. quiet[r] => \A f \in Quoted(answer[r]) : answer[r][f] = work[f]
  BY DEF RunsKnow
<1>7. quiet[r] => QuotesLabel(e)
  BY <1>1, <1>2, QuotesFingerprint DEF QuotesLabel, TypeInv
<1>8. \A f \in Stamped(e.deps) : e.deps[f] <= stamp[f]
  <2>1. ASSUME NEW f \in Stamped(e.deps) PROVE e.deps[f] = stamp[f] /\ stamp[f] \in Nat
    BY <1>3, <1>4, <2>1
  <2> HIDE DEF e
  <2> QED
    BY <2>1
<1> QED
  BY <1>1, <1>2, <1>4, <1>5, <1>6, <1>7, <1>8 DEF SteadyEntry

\* A run under which the repository holds still relabels what is right for it.
LEMMA RelabelledSteady ==
  ASSUME TypeInv, RunsKnow, NEW r \in Runs, pc[r] \in {"relabel", "promote"},
         seen[r] \in SteadyEntry, Reliable(r)
  PROVE  Relabelled(seen[r], r) \in SteadyEntry
<1> DEFINE e == seen[r]
           n == Relabelled(e, r)
<1>1. e \in Entry /\ fp[r] # Unknown
  BY DEF SteadyEntry, TypeInv, Shape, Fingerprinted, Phases
<1>2. /\ n \in Entry /\ n.fp = fp[r] /\ n.answer = e.answer /\ n.quiet = e.quiet
      /\ n.deps = e.deps /\ n.kept = (e.kept /\ quiet[r])
  BY <1>1, RelabelledType DEF TypeInv, Relabelled, Entry
<1>3. n.quiet /\ n.kept => QuotesLabel(n)
  <2>1. ASSUME n.quiet, n.kept PROVE QuotesWork(e) /\ TreeOf(fp[r]) = work
    BY <1>1, <1>2, <2>1 DEF Reliable, RunsKnow
  <2> QED
    BY <1>2, <2>1 DEF QuotesWork, QuotesLabel
<1> QED
  BY <1>2, <1>3 DEF SteadyEntry

\* A verdict of validity by stamps, or by an empty diff.
LEMMA ValidQuotesWork ==
  ASSUME TypeInv, RunsKnow, NEW r \in Runs, fp[r] # Unknown,
         seen[r] \in SteadyEntry, StillValid(seen[r], r)
  PROVE  Reliable(r)
<1> DEFINE e == seen[r]
<1> SUFFICES ASSUME quiet[r], e.quiet, e.kept, NEW f \in Quoted(e.answer)
             PROVE  e.answer[f] = work[f]
  BY DEF Reliable, QuotesWork
<1>1. e \in Entry /\ e.fp \in Fingerprint /\ fp[r] \in Fingerprint
  BY DEF SteadyEntry, Entry, TypeInv, Shape
<1>2. TreeOf(fp[r]) = work
  BY DEF RunsKnow
<1>3. CASE TreeOf(e.fp) = TreeOf(fp[r])
  BY <1>2, <1>3 DEF SteadyEntry, QuotesLabel
<1>4. CASE Stamped(e.deps) # {} /\ DepsUnchanged(e.deps)
  BY <1>4 DEF SteadyEntry, DepsUnchanged
<1> QED
  BY <1>1, <1>3, <1>4, EmptyDiffSameTree DEF StillValid

\* Entries stay steady while the repository moves, since a write moves the stamp.
LEMMA MovesAreStamped ==
  ASSUME TypeInv, Environment, ~UNCHANGED <<work, stamp>>
  PROVE  SteadyEntry \subseteq SteadyEntry'
<1>1. ASSUME NEW f \in Files
      PROVE  /\ stamp[f] \in Nat /\ stamp'[f] \in Nat /\ stamp[f] <= stamp'[f]
             /\ stamp'[f] = stamp[f] => work'[f] = work[f]
  <2>1. stamp[f] \in Nat /\ work \in Trees
    BY DEF TypeInv, Shape
  <2>2. ASSUME NEW g \in Files, NEW c \in Contents, Edit(g, c)
        PROVE  /\ stamp'[f] = IF f = g THEN stamp[f] + 1 ELSE stamp[f]
               /\ f # g => work'[f] = work[f]
    BY <2>2 DEF Edit, TypeInv, Shape, Trees
  <2>3. ASSUME NEW h \in Heads, Checkout(h)
        PROVE  /\ work'[f] = CommitTree[h][f]
               /\ stamp'[f] = IF CommitTree[h][f] = work[f] THEN stamp[f] ELSE stamp[f] + 1
    BY <2>3 DEF Checkout
  <2>4. (\E g \in Files, c \in Contents : Edit(g, c)) \/ \E h \in Heads : Checkout(h)
    BY DEF Environment, Commit, DiskLoses, Restart, repo
  <2> QED
    BY <2>1, <2>2, <2>3, <2>4
<1>2. ASSUME NEW e \in SteadyEntry PROVE e \in SteadyEntry'
  <2>1. e \in Entry /\ \A f \in Stamped(e.deps) : f \in Files /\ e.deps[f] \in Nat
    BY <1>2 DEF SteadyEntry, Stamped, Entry, Deps
  <2>2. \A f \in Stamped(e.deps) : e.deps[f] <= stamp[f]
    BY <1>2 DEF SteadyEntry
  <2>3. \A f \in Stamped(e.deps) : e.deps[f] <= stamp'[f]
    BY <1>1, <2>1, <2>2
  <2>4. \A f \in Stamped(e.deps) : e.deps[f] = stamp'[f] => e.deps[f] = stamp[f] /\ work'[f] = work[f]
    BY <1>1, <2>1, <2>2
  <2> QED
    BY <1>2, <2>3, <2>4 DEF SteadyEntry, QuotesLabel
<1> QED
  BY <1>2

LEMMA SteadyStep ==
  ASSUME LoneInv, [Next]_vars
  PROVE  EntriesIn(SteadyEntry)'
<1>1. CASE UNCHANGED <<work, stamp>>
  <2>1. PICK S : S = SteadyEntry
    OBVIOUS
  <2>2. EntriesIn(S)
    BY <2>1 DEF LoneInv
  <2>3. \A r \in Runs : pc[r] = "stamp" => NewEntry(r) \in S
    BY <2>1, NewEntrySteady DEF LoneInv
  <2>4. ASSUME NEW r \in Runs, pc[r] \in {"relabel", "promote"}
        PROVE  Relabelled(seen[r], r) \in S
    <3>1. seen[r] \in SteadyEntry /\ Reliable(r)
      BY <2>4 DEF LoneInv, EntriesIn, Holding, ValidIsReliable
    <3> QED
      BY <2>1, <2>4, <3>1, RelabelledSteady DEF LoneInv
  <2>5. \A r \in Runs : pc[r] = "relabel" /\ StillAsJudged(r) =>
          Relabelled(L1(r).map[key[r]], r) \in S
    BY <2>4 DEF LoneInv, JudgedIsThere, StillAsJudged
  <2>6. EntriesIn(S)'
    BY <2>2, <2>3, <2>4, <2>5, EntriesStep DEF LoneInv, TypeInv
  <2>7. SteadyEntry' = S
    BY <1>1, <2>1 DEF SteadyEntry, QuotesLabel
  <2> QED
    BY <2>6, <2>7
<1>2. CASE ~UNCHANGED <<work, stamp>>
  <2>1. Environment
    BY <1>2 DEF vars, repo, Next, Begin, Lookup, Walk, WalkTimesOut, MissMemory, HitMemory,
       DoubtMemory, JudgeMemory, JudgeMemoryTimesOut, JudgeDisk, JudgeDiskTimesOut, Judge,
       JudgeTimesOut, Relabel, Drop, ReadDisk, Promote, Explore, Finish, FinishUnstored,
       ReadMemo, ReadFile, Store, Stamp, PutMemory, PutDisk, PutDiskFails
  <2>2. UNCHANGED <<queries, disk, pc, seen>>
    BY <1>2, <2>1 DEF Environment, Edit, Commit, Checkout, DiskLoses, Restart, repo, caches
  <2>3. SteadyEntry \subseteq SteadyEntry'
    BY <1>2, <2>1, MovesAreStamped DEF LoneInv
  <2> QED
    BY <2>2, <2>3 DEF LoneInv, EntriesIn, Resident
<1> QED
  BY <1>1, <1>2

\* A verdict of validity is reliable, and stays so while the repository holds still.
LEMMA ReliableStep ==
  ASSUME LoneInv, [Next]_vars
  PROVE  ValidIsReliable'
<1> DEFINE Valid(r) == pc[r] \in {"relabel", "promote", "served"}
<1>1. ASSUME UNCHANGED <<work, seen, quiet>>, \A r \in Runs : Valid(r)' => Valid(r)
      PROVE  ValidIsReliable'
  BY <1>1 DEF LoneInv, ValidIsReliable, Reliable, QuotesWork
<1>2. ASSUME NEW r \in Runs, UNCHANGED <<work, quiet>>,
             \A q \in Runs \ {r} : pc'[q] = pc[q] /\ seen'[q] = seen[q],
             Valid(r)' => Reliable(r)'
      PROVE  ValidIsReliable'
  BY <1>2 DEF LoneInv, ValidIsReliable, Reliable, QuotesWork
<1>3. ASSUME NEW R \in SUBSET Runs, Over(R), UNCHANGED repo PROVE ValidIsReliable'
  <2>1. \A r \in Runs : Valid(r)' => Valid(r) /\ quiet'[r] = quiet[r] /\ seen'[r] = seen[r]
    BY <1>3 DEF Over
  <2> QED
    BY <1>3, <2>1 DEF LoneInv, ValidIsReliable, Reliable, QuotesWork, repo
<1>4. ASSUME Disturbed PROVE ValidIsReliable'
  BY <1>4 DEF Disturbed, ValidIsReliable, Reliable
<1>5. CASE UNCHANGED vars
  BY <1>1, <1>5 DEF vars, repo, locals
<1>6. ASSUME NEW r \in Runs, NEW k \in Keys, Begin(r, k) PROVE ValidIsReliable'
  <2>1. ~Valid(r)'
    BY <1>6 DEF Begin, LoneInv, TypeInv, Shape
  <2>2. \A q \in Runs \ {r} : pc'[q] = pc[q] /\ quiet'[q] = quiet[q] /\ seen'[q] = seen[q]
    BY <1>6 DEF Begin, LoneInv, TypeInv, Shape
  <2> QED
    BY <1>6, <2>1, <2>2 DEF Begin, repo, LoneInv, ValidIsReliable, Reliable, QuotesWork
<1>7. ASSUME NEW r \in Runs, Lookup(r) PROVE ValidIsReliable'
  <2>1. CASE Walk(r) \/ Drop(r) \/ ReadDisk(r)
    BY <1>2, <2>1 DEF Walk, Drop, ReadDisk, Goto, repo, LoneInv, TypeInv, Shape
  <2>2. CASE WalkTimesOut(r) \/ MissMemory(r)
    BY <1>1, <2>2 DEF WalkTimesOut, MissMemory, Goto, repo, locals, LoneInv, TypeInv, Shape
  <2>3. CASE DoubtMemory(r)
    BY <1>2, <2>3 DEF DoubtMemory, Goto, repo, LoneInv, TypeInv, Shape
  <2>4. CASE HitMemory(r)
    <3> DEFINE e == L1(r).map[key[r]]
    <3>1. e \in SteadyEntry /\ e.fp = fp[r]
      BY <2>4, Places DEF HitMemory, LoneInv, TypeInv, EntriesIn, InMemory, L1
    <3>2. fp[r] # Unknown
      BY <2>4 DEF HitMemory, Goto, LoneInv, TypeInv, Shape, Fingerprinted, Phases
    <3>3. quiet[r] => TreeOf(fp[r]) = work
      BY <3>2 DEF LoneInv, RunsKnow
    <3>4. quiet[r] /\ e.quiet /\ e.kept => QuotesWork(e)
      BY <3>1, <3>3 DEF SteadyEntry, QuotesLabel, QuotesWork
    <3>5. /\ UNCHANGED <<work, quiet>> /\ seen'[r] = e
          /\ \A q \in Runs \ {r} : pc'[q] = pc[q] /\ seen'[q] = seen[q]
      BY <2>4 DEF HitMemory, Goto, repo, LoneInv, TypeInv, Shape
    <3> HIDE DEF e
    <3>6. Reliable(r)'
      BY <3>4, <3>5 DEF Reliable, QuotesWork
    <3> QED
      BY <1>2, <3>5, <3>6
  <2>5. CASE JudgeMemory(r) \/ JudgeDisk(r)
    <3>1. StillValid(seen[r], r) \/ ~Valid(r)'
      BY <2>5 DEF JudgeMemory, JudgeDisk, Judge, Goto, LoneInv, TypeInv, Shape
    <3>2. pc[r] \in Holding /\ pc[r] \in Fingerprinted
      BY <2>5 DEF JudgeMemory, JudgeDisk, Judge, Goto, Holding, Fingerprinted, Phases
    <3>3. seen[r] \in SteadyEntry /\ fp[r] # Unknown
      BY <3>2 DEF LoneInv, TypeInv, EntriesIn, Shape
    <3>4. /\ UNCHANGED <<work, quiet>>
          /\ \A q \in Runs \ {r} : pc'[q] = pc[q] /\ seen'[q] = seen[q]
          /\ StillValid(seen[r], r) => seen'[r] = seen[r]
      BY <2>5 DEF JudgeMemory, JudgeDisk, Judge, Goto, repo, LoneInv, TypeInv, Shape
    <3>5. StillValid(seen[r], r) => Reliable(r)
      BY <3>3, ValidQuotesWork DEF LoneInv
    <3>6. Valid(r)' => Reliable(r)'
      BY <3>1, <3>4, <3>5 DEF Reliable, QuotesWork
    <3> QED
      BY <1>2, <3>4, <3>6
  <2>6. CASE JudgeMemoryTimesOut(r) \/ JudgeDiskTimesOut(r)
    BY <1>2, <2>6 DEF JudgeMemoryTimesOut, JudgeDiskTimesOut, JudgeTimesOut, Goto, repo,
       LoneInv, TypeInv, Shape
  <2>7. CASE Relabel(r) \/ Promote(r)
    BY <1>1, <2>7 DEF Relabel, Promote, Goto, repo, locals, LoneInv, TypeInv, Shape
  <2> QED
    BY <1>7, <2>1, <2>2, <2>3, <2>4, <2>5, <2>6, <2>7 DEF Lookup
<1>8. ASSUME NEW r \in Runs, NEW f \in Files, ReadMemo(r, f) PROVE ValidIsReliable'
  <2>1. \A q \in Runs : Valid(q)' => Valid(q) /\ quiet'[q] = quiet[q]
    BY <1>8 DEF ReadMemo, LoneInv, TypeInv, Shape
  <2> QED
    BY <1>8, <2>1 DEF ReadMemo, repo, LoneInv, ValidIsReliable, Reliable, QuotesWork
<1>9. ASSUME NEW r \in Runs, Explore(r) PROVE ValidIsReliable'
  <2>1. CASE FinishUnstored(r)
    BY <1>3, <2>1 DEF FinishUnstored
  <2>2. CASE Finish(r) \/ \E f \in Files : ReadFile(r, f)
    BY <1>1, <2>2 DEF Finish, ReadFile, Goto, repo, locals, LoneInv, TypeInv, Shape
  <2> QED
    BY <1>8, <1>9, <2>1, <2>2 DEF Explore
<1>10. ASSUME NEW r \in Runs, Store(r) PROVE ValidIsReliable'
  <2>1. CASE Stamp(r) \/ PutMemory(r)
    BY <1>2, <2>1 DEF Stamp, PutMemory, Goto, repo, locals, LoneInv, TypeInv, Shape
  <2>2. CASE PutDisk(r) \/ PutDiskFails(r)
    BY <1>3, <2>2 DEF PutDisk, PutDiskFails
  <2> QED
    BY <1>10, <2>1, <2>2 DEF Store
<1>11. ASSUME Environment PROVE ValidIsReliable'
  <2>1. CASE \E k \in Keys : DiskLoses(k)
    BY <1>1, <2>1 DEF DiskLoses, repo, locals
  <2>2. CASE \E p \in Procs : Restart(p)
    BY <1>3, <2>2 DEF Restart
  <2> QED
    BY <1>4, <1>11, <2>1, <2>2 DEF Environment, Edit, Commit, Checkout
<1> QED
  BY <1>5, <1>6, <1>7, <1>9, <1>10, <1>11 DEF Next

\* While a run judges, nobody else touches the memory of its process.
LEMMA JudgedStep ==
  ASSUME OneRunEach, LoneInv, [Next]_vars
  PROVE  JudgedIsThere'
<1> DEFINE Judging(r) == pc[r] \in {"judge", "relabel", "drop"}
<1>1. ASSUME UNCHANGED <<queries, key>>,
             \A r \in Runs : Judging(r)' => Judging(r) /\ seen'[r] = seen[r]
      PROVE  JudgedIsThere'
  BY <1>1 DEF LoneInv, JudgedIsThere, InMemory, L1, Resident
<1>2. ASSUME NEW r \in Runs, ~Judging(r)',
             \A q \in Runs \ {r} : /\ pc'[q] = pc[q] /\ seen'[q] = seen[q] /\ key'[q] = key[q]
                                  /\ queries'[ProcOf[q]] = queries[ProcOf[q]]
      PROVE  JudgedIsThere'
  BY <1>2 DEF LoneInv, JudgedIsThere, InMemory, L1, Resident
<1>3. \A r \in Runs : \A q \in Runs \ {r} : ProcOf[q] # ProcOf[r]
  BY DEF OneRunEach
<1>4. ASSUME NEW R \in SUBSET Runs, Over(R), UNCHANGED queries PROVE JudgedIsThere'
  <2>1. \A r \in Runs : Judging(r)' => Judging(r) /\ seen'[r] = seen[r]
    BY <1>4 DEF Over
  <2> QED
    BY <1>1, <1>4, <2>1 DEF Over
<1>5. CASE UNCHANGED vars
  BY <1>1, <1>5 DEF vars, caches, locals
<1>6. ASSUME NEW r \in Runs, NEW k \in Keys, Begin(r, k) PROVE JudgedIsThere'
  BY <1>2, <1>6 DEF Begin, caches, LoneInv, TypeInv, Shape
<1>7. ASSUME NEW r \in Runs, Lookup(r) PROVE JudgedIsThere'
  <2>1. CASE Walk(r) \/ HitMemory(r) \/ ReadDisk(r)
    BY <1>2, <2>1 DEF Walk, HitMemory, ReadDisk, Goto, caches, LoneInv, TypeInv, Shape
  <2>2. CASE WalkTimesOut(r) \/ MissMemory(r)
    BY <1>1, <2>2 DEF WalkTimesOut, MissMemory, Goto, caches, locals, LoneInv, TypeInv, Shape
  <2>3. CASE DoubtMemory(r)
    <3>1. /\ UNCHANGED <<queries, key>> /\ seen'[r] = L1(r).map[key[r]]
          /\ \A q \in Runs \ {r} : pc'[q] = pc[q] /\ seen'[q] = seen[q]
      BY <2>3 DEF DoubtMemory, Goto, caches, LoneInv, TypeInv, Shape
    <3> QED
      BY <3>1 DEF LoneInv, JudgedIsThere, InMemory, L1, Resident
  <2>4. CASE JudgeMemory(r) \/ JudgeMemoryTimesOut(r)
    BY <1>1, <2>4 DEF JudgeMemory, JudgeMemoryTimesOut, Judge, JudgeTimesOut, Goto, caches,
       LoneInv, TypeInv, Shape
  <2>5. CASE JudgeDisk(r) \/ JudgeDiskTimesOut(r)
    BY <1>2, <2>5 DEF JudgeDisk, JudgeDiskTimesOut, Judge, JudgeTimesOut, Goto, caches,
       LoneInv, TypeInv, Shape
  <2>6. CASE Relabel(r) \/ Drop(r) \/ Promote(r)
    <3>1. /\ UNCHANGED key /\ ~Judging(r)'
          /\ \A q \in Runs \ {r} : pc'[q] = pc[q] /\ seen'[q] = seen[q]
      BY <2>6 DEF Relabel, Drop, Promote, Goto, locals, LoneInv, TypeInv, Shape
    <3>2. \A p \in Procs \ {ProcOf[r]} : queries'[p] = queries[p]
      BY <2>6 DEF Relabel, Drop, Promote, LoneInv, TypeInv, Shape
    <3>3. \A q \in Runs : ProcOf[q] \in Procs
      BY RunsBelongToProcs
    <3> QED
      BY <1>2, <1>3, <3>1, <3>2, <3>3
  <2> QED
    BY <1>7, <2>1, <2>2, <2>3, <2>4, <2>5, <2>6 DEF Lookup
<1>8. ASSUME NEW r \in Runs, Explore(r) PROVE JudgedIsThere'
  <2>1. CASE FinishUnstored(r)
    BY <1>4, <2>1 DEF FinishUnstored, caches
  <2>2. CASE Finish(r) \/ \E f \in Files : ReadMemo(r, f) \/ ReadFile(r, f)
    BY <1>1, <2>2 DEF Finish, ReadMemo, ReadFile, Goto, caches, locals, LoneInv, TypeInv, Shape
  <2> QED
    BY <1>8, <2>1, <2>2 DEF Explore
<1>9. ASSUME NEW r \in Runs, Store(r) PROVE JudgedIsThere'
  <2>1. CASE Stamp(r) \/ PutMemory(r)
    <3>1. /\ UNCHANGED key /\ ~Judging(r)'
          /\ \A q \in Runs \ {r} : pc'[q] = pc[q] /\ seen'[q] = seen[q]
      BY <2>1 DEF Stamp, PutMemory, Goto, locals, LoneInv, TypeInv, Shape
    <3>2. \A p \in Procs \ {ProcOf[r]} : queries'[p] = queries[p]
      BY <2>1 DEF Stamp, PutMemory, caches, LoneInv, TypeInv, Shape
    <3>3. \A q \in Runs : ProcOf[q] \in Procs
      BY RunsBelongToProcs
    <3> QED
      BY <1>2, <1>3, <3>1, <3>2, <3>3
  <2>2. CASE PutDisk(r) \/ PutDiskFails(r)
    BY <1>4, <2>2 DEF PutDisk, PutDiskFails, caches
  <2> QED
    BY <1>9, <2>1, <2>2 DEF Store
<1>10. ASSUME NEW p \in Procs, Restart(p) PROVE JudgedIsThere'
  <2>1. ASSUME NEW q \in Runs, Judging(q)'
        PROVE  /\ Judging(q) /\ seen'[q] = seen[q] /\ key'[q] = key[q]
               /\ queries'[ProcOf[q]] = queries[ProcOf[q]]
    <3>1. ProcOf[q] # p
      BY <1>10, <2>1 DEF Restart, Over
    <3> QED
      BY <1>10, <2>1, <3>1 DEF Restart, Over, LoneInv, TypeInv, Shape
  <2> QED
    BY <2>1 DEF LoneInv, JudgedIsThere, InMemory, L1, Resident
<1>11. ASSUME Environment PROVE JudgedIsThere'
  <2>1. CASE \E f \in Files, c \in Contents : Edit(f, c)
    BY <1>1, <2>1 DEF Edit, caches
  <2>2. CASE \E h \in Heads : Commit(h) \/ Checkout(h)
    BY <1>1, <2>2 DEF Commit, Checkout, caches
  <2>3. CASE \E k \in Keys : DiskLoses(k)
    BY <1>1, <2>3 DEF DiskLoses, locals
  <2> QED
    BY <1>10, <1>11, <2>1, <2>2, <2>3 DEF Environment
<1> QED
  BY <1>5, <1>6, <1>7, <1>8, <1>9, <1>11 DEF Next

LEMMA LoneInvariant ==
  ASSUME OneRunEach
  PROVE  Spec => []LoneInv
<1>1. Init => LoneInv
  BY TypeInit
     DEF Init, LoneInv, EntriesIn, MemoIn, RunsKnow, ValidIsReliable, JudgedIsThere, Holding,
         EmptyCapped, Resident, NoAnswer, Quoted
<1>2. LoneInv /\ [Next]_vars => LoneInv'
  <2> SUFFICES ASSUME LoneInv, [Next]_vars PROVE LoneInv'
    OBVIOUS
  <2>1. TypeInv' /\ MemoIn(SoundCells)' /\ RunsKnow'
    BY TypeStep, CellsStep, KnowStep DEF LoneInv
  <2> QED
    BY <2>1, SteadyStep, ReliableStep, JudgedStep DEF LoneInv
<1> QED
  BY <1>1, <1>2, PTL DEF Spec

(***************************************************************************)
(* With one exploration at a time in each process, for any number of       *)
(* processes that share the store on disk, a cache hit quotes the files as *)
(* they are, also where it stands on their stamps: if the repository held  *)
(* still while the answer was produced, under those who relabelled it and  *)
(* under the run it is served to (agent.rs entry_still_valid, `paths`).    *)
(***************************************************************************)
THEOREM LoneRunsServeFresh ==
  ASSUME OneRunEach
  PROVE  Spec => []ServedFreshByStamps
<1>1. ASSUME LoneInv PROVE ServedFreshByStamps
  BY <1>1 DEF LoneInv, ValidIsReliable, Reliable, ServedFreshByStamps
<1> QED
  BY <1>1, LoneInvariant, PTL

(***************************************************************************)
(* Nor is a label ever wrong then: it takes two explorations of one        *)
(* process for a relabelling to hit what it was not decided for (cache.rs  *)
(* refresh_query_fingerprint).                                             *)
(***************************************************************************)
THEOREM LoneRunsLabelRightly ==
  ASSUME OneRunEach
  PROVE  Spec => []LabelMatchesAnswer
<1>1. ASSUME LoneInv PROVE LabelMatchesAnswer
  BY <1>1 DEF LoneInv, EntriesIn, SteadyEntry, LabelMatchesAnswer, L1Entries
<1> QED
  BY <1>1, LoneInvariant, PTL
=============================================================================
