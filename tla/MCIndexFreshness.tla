--------------------------- MODULE MCIndexFreshness ---------------------------
(***************************************************************************)
(* A small upstream for IndexFreshness. "p" is an index of the root under  *)
(* another spelling and listed first, "q" is the name the upstream files   *)
(* an index of the root under.                                             *)
(***************************************************************************)
EXTENDS IndexFreshness, TLC

CONSTANTS r1, r2

Two == <<"p", "q">>

Aliased == [n \in {"p", "q"} |-> IF n = "p" THEN "alias" ELSE "exact"]
=============================================================================
