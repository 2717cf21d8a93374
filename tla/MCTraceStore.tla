---------------------------- MODULE MCTraceStore ----------------------------
(* Model checking TraceStore: a runner with two calls, the API with one. *)
EXTENDS TraceStore, TLC

CONSTANTS runner, api, first, second, third, j1, j2

Home == [c \in Calls |-> IF c = third THEN api ELSE runner]
JobSymmetry == Permutations(Jobs)
=============================================================================
