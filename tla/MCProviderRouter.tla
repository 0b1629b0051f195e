--------------------------- MODULE MCProviderRouter ---------------------------
(***************************************************************************)
(* Small configurations for ProviderRouter: a rotating entry with two      *)
(* models, an entry without any and one with a single model; or one model. *)
(***************************************************************************)
EXTENDS ProviderRouter, TLC

TwoNoneOne == <<2, 0, 1>>

Single == <<1>>

Interchangeable == Permutations(Runs)
=============================================================================
