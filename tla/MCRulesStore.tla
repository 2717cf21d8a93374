---------------------------- MODULE MCRulesStore ----------------------------
(* Model checking RulesStore: two publishes, a rollback, a client and two   *)
(* runs of one runner.                                                      *)
EXTENDS RulesStore, TLC

CONSTANTS runner

OneRunner == [r \in Runs |-> runner]
RulesSymmetry == Permutations(Versions) \cup Permutations(Archives)
                     \cup Permutations(Publishes) \cup Permutations(Runs)
=============================================================================
