----------------------------- MODULE MCDiskCache -----------------------------
(***************************************************************************)
(* Small stores for DiskCache: one process or two with a task each, keys   *)
(* with one hash, and results of two bytes.                                *)
(***************************************************************************)
EXTENDS DiskCache, TLC

CONSTANTS p1, p2, t1, t2, k1, k2, s1

SameVersion == [p \in Procs |-> 2]

OneEach == [t \in Tasks |-> IF t = t1 THEN p1 ELSE p2]

Colliding == [k \in Keys |-> s1]

TwoBytes == [x \in Values |-> 2]

Swapped == [x \in {p1, p2, t1, t2} |->
              IF x = p1 THEN p2 ELSE IF x = p2 THEN p1 ELSE IF x = t1 THEN t2 ELSE t1]

\* With a task each and keys with one hash, processes, keys and values are alike.
Alike ==
  {keys @@ values @@ tasks : keys \in Permutations(Keys), values \in Permutations(Values),
                             tasks \in {Swapped, [x \in DOMAIN Swapped |-> x]}}
=============================================================================
