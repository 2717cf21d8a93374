--------------------------- MODULE MCJobLifecycle ---------------------------
(* Model checking JobLifecycle: the symmetry of its interchangeable sets.   *)
EXTENDS JobLifecycle, TLC

Interchangeable == Permutations(Workers) \cup Permutations(Cancels)
                   \cup Permutations(Readers)
=============================================================================
