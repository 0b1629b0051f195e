----------------------------- MODULE MCQueryCache -----------------------------
(***************************************************************************)
(* Small repositories for QueryCache. A history of three commits: h2       *)
(* changes the first file, h3 is an empty commit on h1 (an amended         *)
(* message, say), so that HEAD can move with and without a diff.           *)
(***************************************************************************)
EXTENDS QueryCache, TLC

CONSTANTS f1, f2, c1, c2, h1, h2, h3

BaseTree == [f \in Files |-> c1]
NextTree == [f \in Files |-> IF f = f1 THEN c2 ELSE c1]
MCCommitTree == [h \in Heads |-> IF h = h2 THEN NextTree ELSE BaseTree]

CONSTANTS r1, r2, p1, p2

OneProc == [r \in Runs |-> p1]
TwoProcs == [r \in Runs |-> IF r = r1 THEN p1 ELSE p2]

Interchangeable == Permutations({r1, r2})
=============================================================================
