------------------------------ MODULE CappedMap ------------------------------
(***************************************************************************)
(* The capped map with first-in first-out eviction that backs all four     *)
(* in-memory caches of the agent (tool results, retrieval legs, queries,   *)
(* briefs) and its index-refresh marks: cache.rs, struct CappedMap.        *)
(*                                                                         *)
(* A capped map is a record of a partial function and the sequence of its  *)
(* keys in the order in which they became resident.                        *)
(***************************************************************************)
EXTENDS Naturals, Sequences, FiniteSets

\* A map with no entry, whatever its cap.
EmptyCapped == [map |-> [k \in {} |-> k], order |-> << >>]

\* The keys that currently have an entry.
Resident(cm) == DOMAIN cm.map

\* The keys of the eviction queue, oldest first.
Queued(cm) == {cm.order[i] : i \in 1..Len(cm.order)}

\* m with its entry for k dropped, if it has one.
Without(m, k) == [j \in DOMAIN m \ {k} |-> m[j]]

\* m with the value of k set to v, k being in its domain or not.
With(m, k, v) == [j \in DOMAIN m \cup {k} |-> IF j = k THEN v ELSE m[j]]

\* s with the element at position i left out.
DropAt(s, i) == [j \in 1..(Len(s) - 1) |-> IF j < i THEN s[j] ELSE s[j + 1]]

\* Mutant of DropKey: the key stays queued after its entry is gone.
KeepKey(s, k) == s

\* s with its occurrence of k left out (keys occur at most once).
DropKey(s, k) ==
  IF \E i \in 1..Len(s) : s[i] = k
  THEN DropAt(s, CHOOSE i \in 1..Len(s) : s[i] = k)
  ELSE s

\* Mutant of Insert: an update in place moves the key to the back of the queue.
InsertRenews(cm, k, v, cap) ==
  LET queue == Append(DropKey(cm.order, k), k)
      grown == With(cm.map, k, v)
  IN  IF cap = 0 THEN cm
      ELSE IF Cardinality(DOMAIN grown) > cap
      THEN [map |-> Without(grown, Head(queue)), order |-> Tail(queue)]
      ELSE [map |-> grown, order |-> queue]

\* Mutant of Insert: a map that has just reached its cap is trimmed already.
InsertTrimsEarly(cm, k, v, cap) ==
  LET grown == With(cm.map, k, v)
      queue == Append(cm.order, k)
  IN  IF cap = 0 THEN cm
      ELSE IF k \in Resident(cm) THEN [map |-> grown, order |-> cm.order]
      ELSE IF Cardinality(DOMAIN grown) >= cap
      THEN [map |-> Without(grown, Head(queue)), order |-> Tail(queue)]
      ELSE [map |-> grown, order |-> queue]

\* Mutant of Insert: a map at its cap is not trimmed until it has outgrown it.
InsertTrimsLate(cm, k, v, cap) ==
  IF cap = 0 THEN cm
  ELSE IF k \in Resident(cm) THEN [map |-> With(cm.map, k, v), order |-> cm.order]
  ELSE LET grown == With(cm.map, k, v)
           queue == Append(cm.order, k)
       IN  IF Cardinality(DOMAIN cm.map) > cap
           THEN [map |-> Without(grown, Head(queue)), order |-> Tail(queue)]
           ELSE [map |-> grown, order |-> queue]

(***************************************************************************)
(* CappedMap::insert. A cap of zero stores nothing; an occupied key gets   *)
(* the new value and keeps its place in the queue; a vacant key joins the  *)
(* back of the queue, and when that exceeds the cap the front one leaves.  *)
(***************************************************************************)
Insert(cm, k, v, cap) ==
  IF cap = 0
  THEN cm
  ELSE IF k \in Resident(cm)
  THEN [map |-> With(cm.map, k, v), order |-> cm.order]
  ELSE LET grown  == With(cm.map, k, v)
           queue  == Append(cm.order, k)
       IN  IF Cardinality(DOMAIN grown) > cap
           THEN [map |-> Without(grown, Head(queue)), order |-> Tail(queue)]
           ELSE [map |-> grown, order |-> queue]

\* CappedMap::remove: the entry leaves the map and the queue.
Remove(cm, k) == [map |-> Without(cm.map, k), order |-> DropKey(cm.order, k)]

\* CappedMap::get_mut and an assignment through it: the queue is not touched.
Replace(cm, k, v) == [map |-> With(cm.map, k, v), order |-> cm.order]
=============================================================================
