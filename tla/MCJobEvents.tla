----------------------------- MODULE MCJobEvents -----------------------------
(* Model checking JobEvents: the runner and the API write. *)
EXTENDS JobEvents, TLC

CONSTANTS runner, api

WriterSymmetry == Permutations(Writers)
=============================================================================
