----------------------------- MODULE SectionRun -----------------------------
(***************************************************************************)
(* What section generation promises over the runs of one job: sections are *)
(* produced group after group, each value is checkpointed before the next  *)
(* group begins, a checkpoint is never replaced, and a run that returns    *)
(* returns the checkpointed values.  How sections are produced is left to  *)
(* SectionPlanner.                                                         *)
(***************************************************************************)
EXTENDS Naturals

CONSTANTS
    Sections,   (* the sections to generate                                *)
    GroupOf,    (* the parallel group of each section, from 1              *)
    Values,     (* section contents                                        *)
    None        (* "no value yet"                                          *)

VARIABLES
    saved,      (* the checkpoint that outlives a run                      *)
    have,       (* what the current run holds                              *)
    outcome     (* "none", "running", "returned" or "threw"                *)

vars == <<saved, have, outcome>>

Init ==
    /\ saved = [s \in Sections |-> None]
    /\ have = [s \in Sections |-> None]
    /\ outcome = "none"

\* A first or a further run begins with the checkpoint.
Begin ==
    /\ outcome \in {"none", "threw"}
    /\ outcome' = "running"
    /\ have' = saved
    /\ UNCHANGED saved

EarlierGroupsSaved(s) ==
    \A t \in Sections : GroupOf[t] < GroupOf[s] => saved[t] # None

Produce(s, v) ==
    /\ outcome = "running"
    /\ have[s] = None
    /\ EarlierGroupsSaved(s)
    /\ have' = [have EXCEPT ![s] = v]
    /\ UNCHANGED <<saved, outcome>>

Save(s) ==
    /\ outcome = "running"
    /\ have[s] # None
    /\ saved[s] = None
    /\ saved' = [saved EXCEPT ![s] = have[s]]
    /\ UNCHANGED <<have, outcome>>

Return ==
    /\ outcome = "running"
    /\ \A s \in Sections : have[s] # None /\ have[s] = saved[s]
    /\ outcome' = "returned"
    /\ UNCHANGED <<saved, have>>

Throw ==
    /\ outcome = "running"
    /\ outcome' = "threw"
    /\ UNCHANGED <<saved, have>>

Next ==
    \/ Begin
    \/ \E s \in Sections : Save(s) \/ \E v \in Values : Produce(s, v)
    \/ Return
    \/ Throw

Spec == Init /\ [][Next]_vars
=============================================================================
