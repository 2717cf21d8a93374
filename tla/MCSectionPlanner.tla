-------------------------- MODULE MCSectionPlanner --------------------------
(* Model checking SectionPlanner: two groups, a section with two candidates,*)
(* a section that is repaired item by item, a derived one.                  *)
EXTENDS SectionPlanner

CONSTANTS title, bullets, terms

TwoGroups == [s \in Sections |-> IF s = terms THEN 2 ELSE 1]
TwoCandidates == [s \in Sections |-> IF s = title THEN 2 ELSE 1]
=============================================================================
