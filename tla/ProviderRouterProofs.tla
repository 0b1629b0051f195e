------------------------- MODULE ProviderRouterProofs -------------------------
(***************************************************************************)
(* A model whose daily quota is spent rests for the day, a request is not  *)
(* given up before every model has refused it, and a conversation sticks   *)
(* to its model, for any number of explorations, entries and models and    *)
(* any durations: proofs about ProviderRouter.                             *)
(***************************************************************************)
EXTENDS ProviderRouter, WellFoundedInduction, TLAPS

WaitsFor(r, m) == pc[r] = "wait" /\ At(r) = m

\* What the argument needs to know of the shape of the variables.
Shape ==
  /\ wall \in 0..Day - 1
  /\ cooling \in [Models -> Nat]
  /\ banned \in [Models -> Nat]
  /\ pc = [r \in Runs |-> pc[r]]
  /\ pos = [r \in Runs |-> pos[r]]
  /\ seed = [r \in Runs |-> seed[r]]
  /\ late = [m \in Models |-> late[m]] /\ raced \in [Models -> BOOLEAN]

\* Whoever waits for a model that is out for the day did so when it ran out, so no
\* one else cuts its rest short.
Resting(m) ==
  ~raced[m] => /\ banned[m] <= cooling[m]
               /\ banned[m] > 0 => \A r \in Runs : WaitsFor(r, m) => r \in late[m]

QuotaInv == Shape /\ \A m \in Models : Resting(m)

-----------------------------------------------------------------------------

\* A run that neither moves nor draws a seed stays at its model.
LEMMA StaysAt ==
  ASSUME NEW r, pos'[r] = pos[r], seed'[r] = seed[r]
  PROVE  At(r)' = At(r)
BY DEF At, Start

LEMMA InitQuota == Init => QuotaInv
<1> SUFFICES ASSUME Init PROVE QuotaInv
  OBVIOUS
<1>1. Shape
  BY DurationsAreNats DEF Init, Shape
<1>2. ASSUME NEW m \in Models PROVE Resting(m)
  BY DEF Init, Resting
<1> QED
  BY <1>1, <1>2 DEF QuotaInv

LEMMA StepShape == Shape /\ [Next]_vars => Shape'
<1> SUFFICES ASSUME Shape, [Next]_vars PROVE Shape'
  OBVIOUS
<1> USE DEF Shape
<1>1. ASSUME NEW r \in Runs, Begin(r) PROVE Shape'
  BY <1>1 DEF Begin, NewTour, quotas
<1>2. ASSUME NEW r \in Runs, Turn(r) PROVE Shape'
  BY <1>2 DEF Turn, NewTour, quotas
<1>3. ASSUME NEW r \in Runs, Skip(r) PROVE Shape'
  BY <1>3 DEF Skip, MoveOn, quotas
<1>4. ASSUME NEW r \in Runs, Ask(r) PROVE Shape'
  BY <1>4 DEF Ask, quotas
<1>5. ASSUME NEW r \in Runs, Answer(r) PROVE Shape'
  BY <1>5 DEF Answer, TurnOver, Settled
<1>6. ASSUME NEW r \in Runs, NEW error, FailFast(r, error) PROVE Shape'
  BY <1>6 DEF FailFast, TurnOver, Settled
<1>7. ASSUME NEW r \in Runs, NEW error, Limited(r, error) PROVE Shape'
  <2>1. raced' = [raced EXCEPT ![At(r)] = @ \/ r \in late[At(r)]]
    BY <1>7 DEF Limited
  <2>2. raced' \in [Models -> BOOLEAN]
    BY <2>1, Zenon
  <2> QED
    BY <1>7, <2>2, DurationsAreNats DEF Limited, MoveOn, Settled
<1>8. ASSUME NEW r \in Runs, NEW error, OutForTheDay(r, error) PROVE Shape'
  <2>1. Day - wall \in Nat
    BY DurationsAreNats
  <2> QED
    BY <1>8, <2>1 DEF OutForTheDay, UntilMidnight, MoveOn
<1>9. ASSUME NEW r \in Runs, Exhaust(r) PROVE Shape'
  BY <1>9 DEF Exhaust, TurnOver, quotas
<1>10. CASE Tick
  <2>1. wall' \in 0..Day - 1
    BY <1>10, DurationsAreNats DEF Tick
  <2>2. cooling' \in [Models -> Nat] /\ banned' \in [Models -> Nat]
    BY <1>10 DEF Tick, Less
  <2> QED
    BY <1>10, <2>1, <2>2 DEF Tick, tours
<1>11. CASE UNCHANGED vars
  BY <1>11 DEF vars, tours, quotas
<1> QED
  BY <1>1, <1>2, <1>3, <1>4, <1>5, <1>6, <1>7, <1>8, <1>9, <1>10, <1>11 DEF Next

\* A step of a run that leaves cooldowns and bans alone, and asks no model.
LEMMA QuietStep ==
  ASSUME Shape, NEW m \in Models, Resting(m), NEW r \in Runs,
         cooling' = cooling, banned' = banned, raced' = raced,
         pc'[r] # "wait", late' = late \/ Settled(r),
         \A q \in Runs \ {r} : pc'[q] = pc[q] /\ pos'[q] = pos[q] /\ seed'[q] = seed[q]
  PROVE  Resting(m)'
<1>1. \A q \in Runs : WaitsFor(q, m)' => q # r /\ WaitsFor(q, m)
  BY StaysAt DEF WaitsFor
<1>2. \A q \in Runs \ {r} : q \in late[m] => q \in late'[m]
  BY DEF Settled
<1> QED
  BY <1>1, <1>2 DEF Resting

\* Whoever shortens the rest of m has waited for it since before it began.
LEMMA StepResting ==
  ASSUME Shape, [Next]_vars, NEW m \in Models, Resting(m)
  PROVE  Resting(m)'
<1>1. ASSUME NEW r \in Runs, Begin(r) PROVE Resting(m)'
  BY <1>1, QuietStep DEF Begin, NewTour, quotas, Shape
<1>2. ASSUME NEW r \in Runs, Turn(r) PROVE Resting(m)'
  BY <1>2, QuietStep DEF Turn, NewTour, quotas, Shape
<1>3. ASSUME NEW r \in Runs, Skip(r) PROVE Resting(m)'
  BY <1>3, QuietStep DEF Skip, MoveOn, quotas, Shape
<1>4. ASSUME NEW r \in Runs, Ask(r) PROVE Resting(m)'
  <2>1. \A q \in Runs : At(q)' = At(q)
    BY <1>4, StaysAt DEF Ask
  <2>2. \A q \in Runs : WaitsFor(q, m)' => WaitsFor(q, m) \/ (q = r /\ At(r) = m)
    BY <1>4, <2>1 DEF Ask, WaitsFor, Shape
  <2>3. At(r) = m => cooling[m] = 0
    BY <1>4 DEF Ask
  <2>4. cooling' = cooling /\ banned' = banned /\ late' = late /\ raced' = raced
    BY <1>4 DEF Ask, quotas
  <2>5. cooling[m] \in Nat /\ banned[m] \in Nat
    BY DEF Shape
  <2> QED
    BY <2>2, <2>3, <2>4, <2>5 DEF Resting
<1>5. ASSUME NEW r \in Runs, Answer(r) PROVE Resting(m)'
  BY <1>5, QuietStep DEF Answer, TurnOver, Shape
<1>6. ASSUME NEW r \in Runs, NEW error, FailFast(r, error) PROVE Resting(m)'
  BY <1>6, QuietStep DEF FailFast, TurnOver, Shape
<1>7. ASSUME NEW r \in Runs, NEW error, Limited(r, error) PROVE Resting(m)'
  <2>1. WaitsFor(r, At(r))
    BY <1>7 DEF Limited, WaitsFor
  <2>2. \A q \in Runs : WaitsFor(q, m)' => q # r /\ WaitsFor(q, m)
    BY <1>7, StaysAt DEF Limited, MoveOn, WaitsFor, Shape
  <2>3. banned' = banned /\ cooling'[m] \in Nat /\ banned[m] \in Nat
    BY <1>7, StepShape DEF Limited, Shape
  <2>4. CASE At(r) = m
    <3>1. raced'[m] = (raced[m] \/ r \in late[m])
      BY <1>7, <2>4 DEF Limited, Shape
    <3>2. ~raced'[m] => banned[m] = 0
      <4>1. ASSUME ~raced'[m] PROVE ~raced[m] /\ r \notin late[m]
        BY <3>1, <4>1, Zenon
      <4>2. ~raced[m] /\ r \notin late[m] => ~(banned[m] > 0)
        BY <2>1, <2>4 DEF Resting
      <4> QED
        BY <4>1, <4>2, <2>3
    <3> QED
      BY <3>2, <2>3 DEF Resting
  <2>5. CASE At(r) # m
    <3>1. cooling'[m] = cooling[m] /\ raced'[m] = raced[m]
      BY <1>7, <2>5 DEF Limited, Shape
    <3>2. \A q \in Runs \ {r} : q \in late[m] => q \in late'[m]
      BY <1>7 DEF Limited, Settled
    <3> QED
      BY <3>1, <3>2, <2>2, <2>3 DEF Resting
  <2> QED
    BY <2>4, <2>5
<1>8. ASSUME NEW r \in Runs, NEW error, OutForTheDay(r, error) PROVE Resting(m)'
  <2>1. \A q \in Runs : WaitsFor(q, m)' => q # r /\ WaitsFor(q, m)
    BY <1>8, StaysAt DEF OutForTheDay, MoveOn, WaitsFor, Shape
  <2>2. CASE At(r) = m
    <3>1. cooling'[m] = Day - wall /\ banned'[m] = Day - wall /\ Day - wall \in Nat
      BY <1>8, <2>2, DurationsAreNats DEF OutForTheDay, UntilMidnight, Shape
    <3>2. late'[m] = {q \in Runs \ {r} : WaitsFor(q, m)}
      BY <1>8, <2>2 DEF OutForTheDay, WaitsFor
    <3> QED
      BY <3>1, <3>2, <2>1 DEF Resting
  <2>3. CASE At(r) # m
    <3>1. cooling'[m] = cooling[m] /\ banned'[m] = banned[m] /\ raced'[m] = raced[m]
      BY <1>8, <2>3 DEF OutForTheDay, Shape
    <3>2. \A q \in Runs \ {r} : q \in late[m] => q \in late'[m]
      BY <1>8, <2>3 DEF OutForTheDay
    <3> QED
      BY <3>1, <3>2, <2>1 DEF Resting
  <2> QED
    BY <2>2, <2>3
<1>9. ASSUME NEW r \in Runs, Exhaust(r) PROVE Resting(m)'
  BY <1>9, QuietStep DEF Exhaust, TurnOver, quotas, Shape
<1>10. CASE Tick
  <2>1. \A q \in Runs : WaitsFor(q, m)' <=> WaitsFor(q, m)
    BY <1>10, StaysAt DEF Tick, tours, WaitsFor
  <2>2. cooling[m] \in Nat /\ banned[m] \in Nat
    BY DEF Shape
  <2>3. cooling'[m] = Less(cooling[m]) /\ banned'[m] = Less(banned[m])
    BY <1>10 DEF Tick
  <2>4. raced'[m] = (raced[m] /\ banned[m] > 1)
    BY <1>10 DEF Tick
  <2>5. CASE raced[m]
    <3>1. ~raced'[m] => ~(banned[m] > 1)
      BY <2>4, <2>5
    <3>2. ~(banned[m] > 1) => banned'[m] = 0 /\ cooling'[m] \in Nat
      BY <2>2, <2>3 DEF Less
    <3> QED
      BY <3>1, <3>2 DEF Resting
  <2>6. CASE ~raced[m]
    <3>1. banned'[m] <= cooling'[m] /\ (banned'[m] > 0 => banned[m] > 1)
      BY <2>2, <2>3, <2>6 DEF Less, Resting
    <3>2. banned[m] > 1 => late'[m] = late[m] /\ banned[m] > 0
      BY <1>10, <2>2 DEF Tick
    <3> QED
      BY <3>1, <3>2, <2>1, <2>6 DEF Resting
  <2> QED
    BY <2>5, <2>6
<1>11. CASE UNCHANGED vars
  <2>1. \A q \in Runs : WaitsFor(q, m)' <=> WaitsFor(q, m)
    BY <1>11, StaysAt DEF vars, tours, WaitsFor
  <2> QED
    BY <1>11, <2>1 DEF vars, quotas, Resting
<1> QED
  BY <1>1, <1>2, <1>3, <1>4, <1>5, <1>6, <1>7, <1>8, <1>9, <1>10, <1>11 DEF Next

(***************************************************************************)
(* In every behaviour, a model that has run out of its daily quota cools   *)
(* down until midnight, unless another request was waiting for it when it  *)
(* said so and has since been limited: only such a request can overwrite   *)
(* the deadline with an earlier one (complete_with_tools).                 *)
(***************************************************************************)
THEOREM DailyQuotaRests == Spec => []BannedUnlessRaced
<1>1. Init => QuotaInv
  BY InitQuota
<1>2. QuotaInv /\ [Next]_vars => QuotaInv'
  BY StepShape, StepResting DEF QuotaInv
<1>3. QuotaInv => BannedUnlessRaced
  BY DEF QuotaInv, Resting, BannedUnlessRaced, Shape
<1> QED
  BY <1>1, <1>2, <1>3, PTL DEF Spec

-----------------------------------------------------------------------------
(* Tours.                                                                  *)

\* Where a tour may stop, and where it ends.
Stops == UNION {{e} \X (0..ModelsOf[e] - 1) : e \in 1..Entries}

Finish == <<Entries + 1, 0>>

Earlier(q, p) == q[1] < p[1] \/ (q[1] = p[1] /\ q[2] < p[2])

\* The model a run with seed s finds at a stop.
ModelAt(s, p) ==
  LET start == IF p[1] \in Rotating THEN s % ModelsOf[p[1]] ELSE 0
  IN  <<p[1], (start + p[2]) % ModelsOf[p[1]]>>

Passed(s, p) == {ModelAt(s, q) : q \in {q \in Stops : Earlier(q, p)}}

LEMMA LeastNumber ==
  ASSUME NEW T \in SUBSET Nat, T # {}
  PROVE  \E i \in T : \A j \in T : i <= j
<1> DEFINE Below == {ss \in Nat \X Nat : ss[1] < ss[2]}
<1>1. IsWellFoundedOn(Below, Nat)
  BY NatLessThanWellFounded DEF OpToRel
<1>2. PICK i \in T : \A j \in T : <<j, i>> \notin Below
  BY <1>1, WFMin
<1>3. \A j \in T : ~(j < i)
  BY <1>2
<1> QED
  BY <1>3

\* EntryFrom finds the first entry that lists a model.
LEMMA EntryFromIsFirst ==
  ASSUME NEW e \in 1..Entries + 1
  PROVE  /\ EntryFrom(e) \in e..Entries + 1
         /\ EntryFrom(e) > Entries \/ ModelsOf[EntryFrom(e)] > 0
         /\ \A j \in e..EntryFrom(e) - 1 : ModelsOf[j] = 0
<1> DEFINE T == {i \in e..Entries + 1 : i > Entries \/ ModelsOf[i] > 0}
<1>1. T \in SUBSET Nat /\ Entries + 1 \in T
  BY EntriesListModels
<1>2. PICK i \in T : \A j \in T : i <= j
  BY <1>1, LeastNumber
<1>3. \A j \in e..i - 1 : ModelsOf[j] = 0
  <2> SUFFICES ASSUME NEW j \in e..i - 1 PROVE ModelsOf[j] = 0
    OBVIOUS
  <2>1. j \notin T /\ j \in 1..Entries
    BY <1>1, <1>2, EntriesListModels
  <2> QED
    BY <2>1, EntriesListModels
<1>4. \E k \in e..Entries + 1 :
        /\ k > Entries \/ ModelsOf[k] > 0
        /\ \A j \in e..k - 1 : ModelsOf[j] = 0
  BY <1>2, <1>3
<1> QED
  BY <1>4 DEF EntryFrom

\* What EntryFrom finds is a stop or the end, and no stop lies between.
LEMMA EntryIsNext ==
  ASSUME NEW e \in 1..Entries + 1
  PROVE  /\ <<EntryFrom(e), 0>> \in Stops \cup {Finish}
         /\ \A q \in Stops : Earlier(q, <<EntryFrom(e), 0>>) <=> q[1] < e
<1>1. /\ EntryFrom(e) \in e..Entries + 1
      /\ EntryFrom(e) > Entries \/ ModelsOf[EntryFrom(e)] > 0
      /\ \A j \in e..EntryFrom(e) - 1 : ModelsOf[j] = 0
  BY EntryFromIsFirst
<1>2. <<EntryFrom(e), 0>> \in Stops \cup {Finish}
  BY <1>1, EntriesListModels DEF Stops, Finish
<1>3. ASSUME NEW q \in Stops PROVE Earlier(q, <<EntryFrom(e), 0>>) <=> q[1] < e
  <2>1. q[1] \in 1..Entries /\ ModelsOf[q[1]] \in Nat /\ q[2] \in 0..ModelsOf[q[1]] - 1
    BY EntriesListModels DEF Stops
  <2>2. ModelsOf[q[1]] > 0
    BY <2>1
  <2>3. q[1] \notin e..EntryFrom(e) - 1
    BY <1>1, <2>2
  <2>4. EntryFrom(e) \in Nat /\ e \in Nat /\ e <= EntryFrom(e)
    BY <1>1, EntriesListModels
  <2>5. Earlier(q, <<EntryFrom(e), 0>>) <=> q[1] < EntryFrom(e)
    BY <2>1, <2>4 DEF Earlier
  <2>6. q[1] < EntryFrom(e) <=> q[1] < e
    BY <2>1, <2>3, <2>4
  <2> QED
    BY <2>5, <2>6
<1> QED
  BY <1>2, <1>3

\* TourNext goes to the very next stop.
LEMMA NextIsNext ==
  ASSUME NEW p \in Stops
  PROVE  /\ TourNext(p) \in Stops \cup {Finish}
         /\ \A q \in Stops : Earlier(q, TourNext(p)) <=> Earlier(q, p) \/ q = p
<1>1. /\ p = <<p[1], p[2]>> /\ p[1] \in 1..Entries /\ ModelsOf[p[1]] \in Nat
      /\ p[2] \in 0..ModelsOf[p[1]] - 1
  BY EntriesListModels DEF Stops
<1>2. \A q \in Stops : /\ q = <<q[1], q[2]>> /\ q[1] \in 1..Entries /\ ModelsOf[q[1]] \in Nat
                       /\ q[2] \in 0..ModelsOf[q[1]] - 1
  BY EntriesListModels DEF Stops
<1>3. CASE p[2] + 1 < ModelsOf[p[1]]
  <2>1. TourNext(p) = <<p[1], p[2] + 1>>
    BY <1>3 DEF TourNext
  <2>2. TourNext(p) \in Stops
    BY <1>1, <1>3, <2>1 DEF Stops
  <2>3. ASSUME NEW q \in Stops PROVE Earlier(q, TourNext(p)) <=> Earlier(q, p) \/ q = p
    <3>1. q[1] = p[1] => (q[2] < p[2] + 1 <=> q[2] < p[2] \/ q[2] = p[2])
      BY <1>1, <1>2
    <3> QED
      BY <1>1, <1>2, <2>1, <3>1 DEF Earlier
  <2> QED
    BY <2>2, <2>3
<1>4. CASE ~(p[2] + 1 < ModelsOf[p[1]])
  <2>1. TourNext(p) = <<EntryFrom(p[1] + 1), 0>> /\ p[1] + 1 \in 1..Entries + 1
    BY <1>1, <1>4, EntriesListModels DEF TourNext
  <2>2. /\ TourNext(p) \in Stops \cup {Finish}
        /\ \A q \in Stops : Earlier(q, TourNext(p)) <=> q[1] < p[1] + 1
    BY <2>1, EntryIsNext
  <2>3. ASSUME NEW q \in Stops PROVE q[1] < p[1] + 1 <=> Earlier(q, p) \/ q = p
    <3>1. q[1] = p[1] => q[2] < p[2] \/ q[2] = p[2]
      BY <1>1, <1>2, <1>4
    <3> QED
      BY <1>1, <1>2, <3>1 DEF Earlier
  <2> QED
    BY <2>2, <2>3
<1> QED
  BY <1>3, <1>4

LEMMA StartIsFirst ==
  /\ TourStart \in Stops \cup {Finish}
  /\ \A s : Passed(s, TourStart) = {}
<1>1. 1 \in 1..Entries + 1
  BY EntriesListModels
<1>2. \A q \in Stops : q[1] \in 1..Entries
  BY DEF Stops
<1>3. \A q \in Stops : ~Earlier(q, TourStart)
  BY <1>1, <1>2, EntryIsNext DEF TourStart
<1> QED
  BY <1>1, <1>3, EntryIsNext DEF TourStart, Passed

\* Every model has its stop, whatever the seed.
LEMMA FinishPassedAll ==
  ASSUME NEW s \in Nat
  PROVE  Passed(s, Finish) = Models
<1>1. \A q \in Stops : Earlier(q, Finish)
  BY EntriesListModels DEF Stops, Earlier, Finish
<1>2. ASSUME NEW q \in Stops PROVE ModelAt(s, q) \in Models
  <2>1. q[1] \in 1..Entries /\ ModelsOf[q[1]] \in Nat /\ q[2] \in 0..ModelsOf[q[1]] - 1
    BY EntriesListModels DEF Stops
  <2> DEFINE n == ModelsOf[q[1]]
  <2>2. n \in Nat \ {0}
    BY <2>1
  <2>3. s % n \in 0..n - 1
    BY <2>2
  <2>4. ((s % n) + q[2]) % n \in 0..n - 1 /\ (0 + q[2]) % n \in 0..n - 1
    BY <2>1, <2>2, <2>3
  <2> QED
    BY <2>1, <2>4 DEF ModelAt, Models
<1>3. ASSUME NEW m \in Models PROVE \E q \in Stops : ModelAt(s, q) = m
  <2>1. m = <<m[1], m[2]>> /\ m[1] \in 1..Entries /\ ModelsOf[m[1]] \in Nat
        /\ m[2] \in 0..ModelsOf[m[1]] - 1
    BY EntriesListModels DEF Models
  <2> DEFINE n == ModelsOf[m[1]]
             start == IF m[1] \in Rotating THEN s % n ELSE 0
  <2>2. n \in Nat \ {0}
    BY <2>1
  <2>3. s % n \in 0..n - 1
    BY <2>2
  <2>4. start \in 0..n - 1
    BY <2>2, <2>3
  <2>5. \E o \in 0..n - 1 : (start + o) % n = m[2]
    <3> HIDE DEF n, start
    <3>1. m[2] \in 0..n - 1
      BY <2>1 DEF n
    <3>2. CASE m[2] >= start
      <4>1. m[2] - start \in 0..n - 1 /\ start + (m[2] - start) = m[2]
        BY <2>2, <2>4, <3>1, <3>2
      <4>2. m[2] % n = m[2]
        BY <2>2, <3>1
      <4> QED
        BY <4>1, <4>2
    <3>3. CASE m[2] < start
      <4>1. (m[2] - start) + n \in 0..n - 1 /\ start + ((m[2] - start) + n) = m[2] + n
        BY <2>2, <2>4, <3>1, <3>3
      <4>2. (m[2] + n) % n = m[2]
        BY <2>2, <3>1
      <4> QED
        BY <4>1, <4>2
    <3> QED
      BY <2>4, <3>1, <3>2, <3>3
  <2>6. PICK o \in 0..n - 1 : (start + o) % n = m[2]
    BY <2>5
  <2>7. <<m[1], o>> \in Stops /\ ModelAt(s, <<m[1], o>>) = m
    BY <2>1, <2>6 DEF Stops, ModelAt
  <2> QED
    BY <2>7
<1> QED
  BY <1>1, <1>2, <1>3 DEF Passed

\* A run stands at a stop or at the end of its tour and has been refused by
\* all models before; so had the turn that was last answered, where it stood.
Touring(r) ==
  /\ seed[r] \in Nat
  /\ pos[r] \in Stops \cup {Finish}
  /\ refused[r] = Passed(seed[r], pos[r])
  /\ pc[r] = "wait" => pos[r] # Finish
  /\ pc[r] \in {"idle", "over"} => pos[r] = TourStart
  /\ by[r] # NoModel =>
       \E p \in Stops : by[r] = ModelAt(seed[r], p) /\ refusedBy[r] = Passed(seed[r], p)

TourInv ==
  /\ nextSeed \in Nat
  /\ pc = [r \in Runs |-> pc[r]] /\ pos = [r \in Runs |-> pos[r]]
  /\ seed = [r \in Runs |-> seed[r]] /\ refused = [r \in Runs |-> refused[r]]
  /\ by = [r \in Runs |-> by[r]] /\ refusedBy = [r \in Runs |-> refusedBy[r]]
  /\ \A r \in Runs : Touring(r)

LEMMA FinishIsNoStop == Finish \notin Stops /\ Finish[1] = Entries + 1
BY EntriesListModels DEF Finish, Stops

LEMMA LookingAtStop ==
  ASSUME TourInv, NEW r \in Runs, Looking(r) \/ pc[r] = "wait"
  PROVE  pos[r] \in Stops /\ At(r) = ModelAt(seed[r], pos[r])
<1>1. pos[r] \in Stops
  BY FinishIsNoStop, EntriesListModels DEF TourInv, Touring, Looking, AtEnd
<1> QED
  BY <1>1 DEF At, Start, ModelAt

\* What a step means to the tours of other runs: nothing.
LEMMA OthersTour ==
  ASSUME NEW q, Touring(q), pc'[q] = pc[q], pos'[q] = pos[q], seed'[q] = seed[q],
         refused'[q] = refused[q], by'[q] = by[q], refusedBy'[q] = refusedBy[q]
  PROVE  Touring(q)'
BY DEF Touring

LEMMA MoveOnTours ==
  ASSUME TourInv, NEW r \in Runs, Looking(r) \/ pc[r] = "wait", MoveOn(r),
         UNCHANGED <<nextSeed, seed, past>>
  PROVE  TourInv'
<1>1. pos[r] \in Stops /\ At(r) = ModelAt(seed[r], pos[r])
  BY LookingAtStop
<1>2. /\ pc'[r] = "look" /\ pos'[r] = TourNext(pos[r])
      /\ refused'[r] = refused[r] \cup {ModelAt(seed[r], pos[r])}
  BY <1>1 DEF TourInv, MoveOn
<1>3. Passed(seed[r], TourNext(pos[r])) = Passed(seed[r], pos[r]) \cup {ModelAt(seed[r], pos[r])}
  BY <1>1, NextIsNext DEF Passed
<1>4. Touring(r)'
  BY <1>1, <1>2, <1>3, NextIsNext DEF TourInv, Touring, past
<1>5. ASSUME NEW q \in Runs \ {r} PROVE Touring(q)'
  BY OthersTour DEF TourInv, MoveOn, past
<1> QED
  BY <1>4, <1>5 DEF TourInv, MoveOn, past

LEMMA TurnOverTours ==
  ASSUME TourInv, NEW r \in Runs, TurnOver(r), UNCHANGED <<nextSeed, seed>>,
         \/ UNCHANGED past
         \/ /\ pc[r] = "wait"
            /\ by' = [by EXCEPT ![r] = At(r)]
            /\ refusedBy' = [refusedBy EXCEPT ![r] = refused[r]]
  PROVE  TourInv'
<1>1. pc'[r] = "over" /\ pos'[r] = TourStart /\ refused'[r] = {} /\ seed'[r] = seed[r]
  BY DEF TourInv, TurnOver
<1>2. by'[r] # NoModel =>
        \E p \in Stops : by'[r] = ModelAt(seed[r], p) /\ refusedBy'[r] = Passed(seed[r], p)
  <2>1. CASE UNCHANGED past
    BY <2>1 DEF TourInv, Touring, past
  <2>2. CASE pc[r] = "wait" /\ by'[r] = At(r) /\ refusedBy'[r] = refused[r]
    BY <2>2, LookingAtStop DEF TourInv, Touring
  <2> QED
    BY <2>1, <2>2 DEF TourInv
<1>3. Touring(r)'
  BY <1>1, <1>2, StartIsFirst DEF TourInv, Touring
<1>4. ASSUME NEW q \in Runs \ {r} PROVE Touring(q)'
  BY OthersTour DEF TourInv, TurnOver, past
<1> QED
  BY <1>3, <1>4 DEF TourInv, TurnOver, past

LEMMA TourStep == TourInv /\ [Next]_vars => TourInv'
<1> SUFFICES ASSUME TourInv, [Next]_vars PROVE TourInv'
  OBVIOUS
<1>1. ASSUME NEW r \in Runs, Begin(r) PROVE TourInv'
  <2>1. nextSeed' \in Nat
    BY <1>1, SeedsArePositive DEF Begin, TourInv
  <2>2. Touring(r)'
    BY <1>1, StartIsFirst DEF Begin, NewTour, TourInv, Touring
  <2>3. ASSUME NEW q \in Runs \ {r} PROVE Touring(q)'
    BY <1>1, OthersTour DEF Begin, NewTour, TourInv
  <2> QED
    BY <1>1, <2>1, <2>2, <2>3 DEF Begin, NewTour, TourInv
<1>2. ASSUME NEW r \in Runs, Turn(r) \/ Ask(r) PROVE TourInv'
  <2>1. Touring(r)'
    BY <1>2, LookingAtStop, FinishIsNoStop DEF Turn, NewTour, Ask, past, TourInv, Touring
  <2>2. ASSUME NEW q \in Runs \ {r} PROVE Touring(q)'
    BY <1>2, OthersTour DEF Turn, NewTour, Ask, past, TourInv
  <2> QED
    BY <1>2, <2>1, <2>2 DEF Turn, NewTour, Ask, past, TourInv
<1>3. ASSUME NEW r \in Runs, Skip(r) PROVE TourInv'
  BY <1>3, MoveOnTours DEF Skip
<1>4. ASSUME NEW r \in Runs, NEW error, Limited(r, error) \/ OutForTheDay(r, error) PROVE TourInv'
  BY <1>4, MoveOnTours DEF Limited, OutForTheDay
<1>5. ASSUME NEW r \in Runs, Answer(r) PROVE TourInv'
  BY <1>5, TurnOverTours DEF Answer
<1>6. ASSUME NEW r \in Runs, NEW error, FailFast(r, error) \/ Exhaust(r) PROVE TourInv'
  BY <1>6, TurnOverTours DEF FailFast, Exhaust
<1>7. CASE Tick \/ UNCHANGED vars
  <2>1. UNCHANGED <<nextSeed, seed, pc, pos, refused, by, refusedBy>>
    BY <1>7 DEF Tick, vars, tours, past
  <2> QED
    BY <2>1 DEF TourInv, Touring
<1> QED
  BY <1>1, <1>2, <1>3, <1>4, <1>5, <1>6, <1>7 DEF Next

LEMMA TourAtFirst == Init => TourInv
<1> SUFFICES ASSUME Init PROVE TourInv
  OBVIOUS
<1>1. ASSUME NEW r \in Runs PROVE Touring(r)
  BY StartIsFirst DEF Init, Touring
<1> QED
  BY <1>1 DEF Init, TourInv

THEOREM ToursAreKept == Spec => []TourInv
BY TourAtFirst, TourStep, PTL DEF Spec

(***************************************************************************)
(* A request is given up as exhausted only when every model has refused    *)
(* it, wherever its seed made the tours of the entries start               *)
(* (complete_with_tools, AllExhausted).                                    *)
(***************************************************************************)
THEOREM NoModelIsForgotten == Spec => ExhaustedMeansAllRefused
<1> DEFINE Refused == \A r \in Runs : pc[r] = "look" /\ pc'[r] = "over" => refused[r] = Models
<1>1. TourInv /\ [Next]_vars => [Refused]_vars
  <2> SUFFICES ASSUME TourInv, Next, NEW r \in Runs, pc[r] = "look", pc'[r] = "over"
               PROVE  refused[r] = Models
    BY DEF vars
  <2>1. ASSUME NEW q \in Runs, Begin(q) \/ Turn(q) \/ Skip(q) \/ Ask(q) PROVE FALSE
    BY <2>1 DEF Begin, Turn, NewTour, Skip, Ask, MoveOn, TourInv
  <2>2. ASSUME NEW q \in Runs, NEW error,
               Answer(q) \/ FailFast(q, error) \/ Limited(q, error) \/ OutForTheDay(q, error)
        PROVE  FALSE
    BY <2>2 DEF Answer, FailFast, Limited, OutForTheDay, TurnOver, MoveOn, TourInv
  <2>3. ASSUME NEW q \in Runs, Exhaust(q) PROVE refused[r] = Models
    <3>1. q = r
      BY <2>3 DEF Exhaust, TurnOver, TourInv
    <3>2. pos[r] = Finish
      BY <2>3, <3>1, EntriesListModels DEF Exhaust, AtEnd, TourInv, Touring, Stops
    <3> QED
      BY <3>2, FinishPassedAll DEF TourInv, Touring
  <2>4. ASSUME Tick PROVE FALSE
    BY <2>4 DEF Tick, tours
  <2> QED
    BY <2>1, <2>2, <2>3, <2>4 DEF Next
<1> QED
  BY <1>1, ToursAreKept, PTL DEF Spec, ExhaustedMeansAllRefused

(***************************************************************************)
(* A conversation changes its model only if one of the two refused it,     *)
(* whatever other explorations draw and ask meanwhile (rotation_seed).     *)
(***************************************************************************)
THEOREM ConversationsStick == Spec => SticksUnlessRefused
<1> DEFINE Sticks == \A r \in Runs :
             NoModel \notin {by[r], by'[r]} /\ by'[r] # by[r]
               => by[r] \in refused[r] \/ by'[r] \in refusedBy[r]
<1>1. TourInv /\ [Next]_vars => [Sticks]_vars
  <2> SUFFICES ASSUME TourInv, Next, NEW r \in Runs, by[r] # NoModel, by'[r] # NoModel,
                      by'[r] # by[r]
               PROVE  by[r] \in refused[r] \/ by'[r] \in refusedBy[r]
    BY DEF vars
  <2>1. Answer(r)
    BY DEF Next, Begin, Turn, Skip, Ask, Answer, FailFast, Limited, OutForTheDay, Exhaust, Tick,
           past, TourInv
  <2>2. PICK p \in Stops : by[r] = ModelAt(seed[r], p) /\ refusedBy[r] = Passed(seed[r], p)
    BY DEF TourInv, Touring
  <2>3. pos[r] \in Stops /\ by'[r] = ModelAt(seed[r], pos[r])
    BY <2>1, LookingAtStop DEF Answer, TourInv
  <2>4. p # pos[r]
    BY <2>2, <2>3
  <2>5. Earlier(p, pos[r]) \/ Earlier(pos[r], p)
    <3>1. \A q \in Stops : q = <<q[1], q[2]>> /\ q[1] \in Nat /\ q[2] \in Nat
      BY EntriesListModels DEF Stops
    <3> QED
      BY <2>3, <2>4, <3>1 DEF Earlier
  <2> QED
    BY <2>2, <2>3, <2>5 DEF Passed, TourInv, Touring
<1> QED
  BY <1>1, ToursAreKept, PTL DEF Spec, SticksUnlessRefused
=============================================================================
