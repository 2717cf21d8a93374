--------------------------- MODULE MCSectionTeam ---------------------------
(* Model checking SectionTeam: a valid text, one that almost is, one far off. *)
EXTENDS SectionTeam

CONSTANTS good, near, far

Penalty == [t \in Texts |-> CASE t = good -> 0 [] t = near -> 1 [] t = far -> 2]
=============================================================================
