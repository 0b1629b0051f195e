---------------------------- MODULE CappedMapSpec ----------------------------
(***************************************************************************)
(* The state machine of one capped map under any sequence of its           *)
(* operations, and what its users rely on.                                 *)
(***************************************************************************)
EXTENDS CappedMap

CONSTANTS
  MapKeys,  \* the cache keys
  Values,   \* the cached values
  Cap,      \* the cap given to CappedMap::new
  MaxOps    \* bounds the number of operations of a behaviour

ASSUME CapIsNat == Cap \in Nat
ASSUME MaxOpsIsNat == MaxOps \in Nat

VARIABLES
  cm,       \* the capped map
  since,    \* history: the operation at which each key last became resident
  ops       \* the number of operations so far

mapVars == <<cm, since, ops>>

MapInit ==
  /\ cm = EmptyCapped
  /\ since = [k \in MapKeys |-> 0]
  /\ ops = 0

\* A cache stores a value.
DoInsert(k, v) ==
  /\ ops < MaxOps
  /\ cm' = Insert(cm, k, v, Cap)
  /\ since' = IF k \in Resident(cm) THEN since ELSE [since EXCEPT ![k] = ops + 1]
  /\ ops' = ops + 1

\* A cache drops an entry it knows to be stale.
DoRemove(k) ==
  /\ ops < MaxOps
  /\ cm' = Remove(cm, k)
  /\ ops' = ops + 1
  /\ UNCHANGED since

\* A cache edits an entry in place.
DoReplace(k, v) ==
  /\ ops < MaxOps
  /\ k \in Resident(cm)
  /\ cm' = Replace(cm, k, v)
  /\ ops' = ops + 1
  /\ UNCHANGED since

MapNext ==
  \E k \in MapKeys :
    \/ DoRemove(k)
    \/ \E v \in Values : DoInsert(k, v) \/ DoReplace(k, v)

MapSpec == MapInit /\ [][MapNext]_mapVars

-----------------------------------------------------------------------------

\* The map and the queue have their shapes.
MapTypeOK ==
  /\ Resident(cm) \subseteq MapKeys
  /\ cm.map \in [Resident(cm) -> Values]
  /\ cm.order \in Seq(MapKeys)
  /\ since \in [MapKeys -> Nat]
  /\ ops \in Nat

(***************************************************************************)
(* The queue is an enumeration of the resident keys: a key that leaves the *)
(* map by either road (eviction, remove) leaves the queue too, else a dead *)
(* key would later be evicted in place of a live one and the map outgrow   *)
(* its cap (cache.rs, the `order` field).                                  *)
(***************************************************************************)
QueueIsResident ==
  /\ Queued(cm) = Resident(cm)
  /\ \A i, j \in 1..Len(cm.order) : cm.order[i] = cm.order[j] => i = j

\* The map never holds more entries than its cap, and none when it is zero.
WithinCap == Cardinality(Resident(cm)) <= Cap

(***************************************************************************)
(* First in, first out: the key an insertion pushes out is one no resident *)
(* key has been resident longer than; updating a key in place does not     *)
(* renew it.                                                               *)
(***************************************************************************)
EvictsOldest ==
  [][\A k \in Resident(cm) \ Resident(cm') :
        (\E j \in MapKeys : j \in Resident(cm') \ Resident(cm))
          => \A j \in Resident(cm) : since[k] <= since[j]]_mapVars
=============================================================================
