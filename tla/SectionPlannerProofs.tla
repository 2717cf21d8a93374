------------------------ MODULE SectionPlannerProofs ------------------------
(***************************************************************************)
(* SectionPlanner, for every set of sections, grouping, number of          *)
(* candidates, tries and runs: its types, that it leaves no work behind,   *)
(* that it loses no success, and that it implements SectionRun.            *)
(***************************************************************************)
EXTENDS SectionPlanner, TLAPS

USE GroupAssumption, CountAssumption, BoundAssumption, KindAssumption, NoneAssumption

-----------------------------------------------------------------------------
(* The inductive invariant: what a task's position says about the values,  *)
(* about the group in progress, about failures and about the candidates.   *)

\* A value is set once, between "picking" and "saving", and saved before "done".
TaskData(s) ==
    /\ task[s] \in {"working", "picking", "failed"} => sections[s] = None /\ saved[s] = None
    /\ task[s] = "saving" => sections[s] \in Values /\ saved[s] = None
    /\ task[s] = "done" => sections[s] \in Values /\ saved[s] = sections[s]
    /\ (task[s] = "idle" /\ Live) => sections[s] = saved[s]

\* Groups are worked through in order and left only when all is done.
Progress(s) ==
    /\ phase = "sections" =>
          /\ GroupOf[s] > group => task[s] = "idle"
          /\ GroupOf[s] <= group => task[s] # "idle"
          /\ GroupOf[s] < group => task[s] = "done"
    /\ phase \in {"translate", "assemble", "returned"} => task[s] = "done"
    /\ phase \in {"none", "threw"} => task[s] \in {"idle", "done", "failed"}

\* The planner has aborted exactly when a task has failed.
Blame(s) == /\ task[s] = "failed" => Aborted
            /\ failure = s => task[s] = "failed"

\* Candidates are in flight only while their task waits for them, and a task
\* whose candidates succeeded does not fail.
Waits(s) ==
    \A i \in Own(s) :
        /\ cand[s][i] \in {"calling", "cut", "backoff", "repairing"} => task[s] = "working"
        /\ s \in Derived \/ task[s] = "idle" => cand[s][i] = "idle"
        /\ task[s] = "failed" => cand[s][i] # "ok"
        /\ cand[s][i] = "backoff" => tries[s][i] < Tries

PlannerInv ==
    /\ TypeOK
    /\ phase # "none" => run > 0
    /\ \A s \in Sections : TaskData(s) /\ Progress(s) /\ Blame(s) /\ Waits(s)

LEMMA OwnIndexes == \A s \in Sections : Own(s) \subseteq Indexes
BY DEF Own, Indexes

LEMMA NewValues ==
    ASSUME run \in 1..MaxRuns
    PROVE  /\ <<run, 0>> \in Values
           /\ \A s \in Sections : \A i \in Own(s) : <<run, i>> \in Values
BY DEF Values, Own

LEMMA PlannerInvInit == Init => PlannerInv
<1> SUFFICES ASSUME Init PROVE PlannerInv
    OBVIOUS
<1>1. TypeOK
  <2>1. cancelled \in BOOLEAN /\ translating \subseteq Slots
    BY DEF Init
  <2>2. cand \in [Sections -> [Indexes -> CandStates]]
    BY DEF Init, AllIdle, CandStates
  <2>3. tries \in [Sections -> [Indexes -> 0..Tries]]
    BY DEF Init
  <2>4. /\ saved \in [Sections -> Values \cup {None}]
        /\ sections \in [Sections -> Values \cup {None}]
        /\ task \in [Sections -> TaskStates]
    BY DEF Init, Nothing, TaskStates
  <2>5. run \in 0..MaxRuns /\ phase \in Phases /\ group \in 0..Groups
        /\ failure \in Sections \cup {None}
    BY DEF Init, Phases
  <2> QED BY <2>1, <2>2, <2>3, <2>4, <2>5 DEF TypeOK
<1>2. ASSUME NEW s \in Sections PROVE TaskData(s) /\ Progress(s) /\ Blame(s)
  BY <1>2 DEF Init, TaskData, Progress, Blame, Live
<1>3. ASSUME NEW s \in Sections PROVE Waits(s)
  BY <1>3, OwnIndexes DEF Init, Waits, AllIdle
<1> QED BY <1>1, <1>2, <1>3 DEF PlannerInv, Init

\* A step of a candidate keeps the types.
LEMMA CandStepTypes ==
    ASSUME TypeOK, NEW s \in Sections, NEW i \in Indexes,
           NEW from \in CandStates, NEW to \in CandStates, CandStep(s, i, from, to),
           tries' \in [Sections -> [Indexes -> 0..Tries]]
    PROVE  TypeOK'
<1>1. cand \in [Sections -> [Indexes -> CandStates]]
  BY DEF TypeOK
<1>2. [cand EXCEPT ![s][i] = to] \in [Sections -> [Indexes -> CandStates]]
  <2>1. [cand[s] EXCEPT ![i] = to] \in [Indexes -> CandStates]
    BY <1>1
  <2> QED BY <1>1, <2>1
<1>3. cand' \in [Sections -> [Indexes -> CandStates]]
  BY <1>2 DEF CandStep
<1>4. UNCHANGED <<saved, sections, run, phase, group, task, failure, cancelled, translating>>
  BY DEF CandStep
<1> QED BY <1>3, <1>4 DEF TypeOK

LEMMA TypeStep == PlannerInv /\ [Next]_vars => TypeOK'
<1> SUFFICES ASSUME PlannerInv, [Next]_vars PROVE TypeOK'
    OBVIOUS
<1> USE OwnIndexes DEF PlannerInv, TypeOK, TaskStates, CandStates, Phases
<1>1. CASE Begin
  BY <1>1 DEF Begin, AllIdle
<1>2. CASE Cancel
  <2>1. cancelled' \in BOOLEAN
    BY <1>2 DEF Cancel
  <2> QED BY <1>2, <2>1 DEF Cancel
<1>9. CASE Crash
  BY <1>9 DEF Crash, AllIdle
<1>3. CASE NextGroup
  <2>1. ASSUME NEW s \in Sections, NEW i \in Indexes PROVE FirstCall(s, i) \in CandStates
    BY DEF FirstCall
  <2>5. ASSUME NEW s \in Sections PROVE FirstTask(s) \in TaskStates
    BY DEF FirstTask
  <2>2. task' \in [Sections -> TaskStates]
    BY <1>3, <2>5 DEF NextGroup, StartGroup
  <2>3. cand' \in [Sections -> [Indexes -> CandStates]]
    <3>1. ASSUME NEW s \in Sections
          PROVE  [i \in Indexes |-> FirstCall(s, i)] \in [Indexes -> CandStates]
      BY <2>1
    <3> QED BY <1>3, <3>1 DEF NextGroup, StartGroup
  <2>4. tries' \in [Sections -> [Indexes -> 0..Tries]] /\ group' \in 0..Groups
    BY <1>3 DEF NextGroup, StartGroup
  <2> QED BY <1>3, <2>2, <2>3, <2>4 DEF NextGroup
<1>4. CASE GroupThrows \/ StartTranslations \/ Assemble
  BY <1>4 DEF GroupThrows, StartTranslations, Assemble
<1>5. ASSUME NEW x \in Slots, TranslationStep(x) PROVE TypeOK'
  BY <1>5 DEF TranslationStep, TranslationReturns, TranslationFails
<1>6. ASSUME NEW s \in Sections, SectionStep(s) PROVE TypeOK'
  <2>1. CASE DeriveReturns(s)
    BY <1>6, <2>1, NewValues DEF DeriveReturns, TaskStep
  <2>2. CASE DeriveFails(s) \/ CandidatesFail(s)
    BY <1>6, <2>2 DEF DeriveFails, CandidatesFail, Fail, TaskStep
  <2>3. CASE CandidatesSucceed(s)
    BY <1>6, <2>3 DEF CandidatesSucceed, TaskStep
  <2>4. CASE Pick(s)
    BY <1>6, <2>4, NewValues DEF Pick, TaskStep, Succeeded
  <2>5. CASE Save(s)
    BY <1>6, <2>5 DEF Save, TaskStep
  <2> QED BY <1>6, <2>1, <2>2, <2>3, <2>4, <2>5 DEF SectionStep
<1>7. ASSUME NEW s \in Sections, NEW i \in Indexes, CandidateStep(s, i) PROVE TypeOK'
  <2>1. CASE CallSucceeds(s, i) \/ CallCut(s, i)
    BY <2>1, CandStepTypes DEF CallSucceeds, CallCut
  <2>4. CASE RepairEnds(s, i)
    BY <2>4, CandStepTypes DEF RepairEnds
  <2>2. CASE CallFails(s, i)
    BY <2>2, CandStepTypes DEF CallFails, GivesUp
  <2>3. CASE Retry(s, i)
    <3>1. tries' \in [Sections -> [Indexes -> 0..Tries]]
      BY <2>3, BoundAssumption DEF Retry, CandStep, Waits
    <3> QED BY <2>3, <3>1, CandStepTypes DEF Retry
  <2> QED BY <1>7, <2>1, <2>2, <2>3, <2>4 DEF CandidateStep
<1>8. CASE UNCHANGED vars
  BY <1>8 DEF vars
<1> QED BY <1>1, <1>2, <1>9, <1>3, <1>4, <1>5, <1>6, <1>7, <1>8 DEF Next, PlannerStep

LEMMA SectionStepInv ==
    ASSUME PlannerInv, [Next]_vars, NEW t \in Sections
    PROVE  TaskData(t)' /\ Progress(t)' /\ Blame(t)' /\ Waits(t)'
<1> USE DEF PlannerInv
<1>0. t \in DOMAIN task /\ t \in DOMAIN cand /\ t \in DOMAIN saved /\ t \in DOMAIN sections
  BY DEF TypeOK
<1>t. GroupOf[t] \in Nat /\ group \in Nat /\ Groups \in Nat /\ GroupOf[t] <= Groups
  BY DEF TypeOK
<1>s. /\ TaskData(t) /\ Progress(t) /\ Blame(t) /\ Waits(t)
      /\ task[t] \in TaskStates
  BY DEF TypeOK
<1>1. CASE Begin
  <2>1. TaskData(t)'
    BY <1>1, <1>0 DEF Begin, TaskData, Live
  <2>2. Progress(t)'
    BY <1>1 DEF Begin, Progress
  <2>3. Blame(t)'
    BY <1>1 DEF Begin, Blame, Aborted
  <2>4. Waits(t)'
    BY <1>1, OwnIndexes DEF Begin, Waits, AllIdle, Own
  <2> QED BY <2>1, <2>2, <2>3, <2>4
<1>2. CASE Cancel
  BY <1>2 DEF Cancel, TaskData, Progress, Blame, Waits, Live, Aborted, Own
<1>3. CASE Crash
  <2>1. TaskData(t)'
    BY <1>3 DEF Crash, TaskData, Live
  <2>2. Progress(t)'
    BY <1>3 DEF Crash, Progress
  <2>3. Blame(t)'
    BY <1>3 DEF Crash, Blame, Aborted
  <2>4. Waits(t)'
    BY <1>3, OwnIndexes DEF Crash, Waits, AllIdle, Own
  <2> QED BY <2>1, <2>2, <2>3, <2>4
<1>4. CASE NextGroup
  <2> USE <1>4 DEF NextGroup
  <2>1. task'[t] = IF GroupOf[t] = group + 1 THEN FirstTask(t) ELSE task[t]
    BY DEF StartGroup
  <2>2. GroupOf[t] = group + 1 => task[t] = "idle"
    BY DEF Progress, TypeOK
  <2>3. TaskData(t)'
    BY <2>1, <2>2 DEF TaskData, FirstTask, Live, TypeOK
  <2>4. Progress(t)'
    <3>1. GroupOf[t] < group => task[t] = "done"
      BY <1>s DEF Progress
    <3>2. GroupOf[t] = group => task[t] = "done"
      BY <1>s DEF GroupSettled, Settled, Blame
    <3>3. CASE GroupOf[t] = group + 1
      <4>1. task'[t] \in {"done", "working"} /\ group' = GroupOf[t] /\ phase' = "sections"
        BY <2>1, <3>3 DEF FirstTask, StartGroup
      <4> QED BY <1>t, <4>1 DEF Progress
    <3>4. CASE GroupOf[t] < group + 1
      <4>1. GroupOf[t] < group \/ GroupOf[t] = group
        BY <1>t, <3>4
      <4>2. task[t] = "done"
        BY <3>1, <3>2, <4>1
      <4>3. task'[t] = "done" /\ GroupOf[t] <= group' /\ phase' = "sections" /\ group' \in Nat
        BY <1>t, <2>1, <3>4, <4>2 DEF StartGroup
      <4> QED BY <1>t, <4>3 DEF Progress
    <3>5. CASE GroupOf[t] > group + 1
      <4>1. task[t] = "idle"
        BY <1>s, <1>t, <3>5 DEF Progress
      <4>2. task'[t] = "idle" /\ GroupOf[t] > group' /\ phase' = "sections" /\ group' \in Nat
        BY <1>t, <2>1, <3>5, <4>1 DEF StartGroup
      <4> QED BY <1>t, <4>2 DEF Progress
    <3> QED BY <1>t, <3>3, <3>4, <3>5
  <2>5. Blame(t)'
    BY <2>1 DEF Blame, FirstTask, Aborted
  <2>6. Waits(t)'
    <3>1. CASE GroupOf[t] = group + 1
      <4>1. \A i \in Own(t) : cand'[t][i] = FirstCall(t, i) /\ tries'[t][i] = 1
        BY <3>1, OwnIndexes DEF StartGroup
      <4>2. Own(t)' = Own(t)
        BY DEF Own
      <4> QED BY <3>1, <4>1, <4>2, <2>1 DEF Waits, FirstCall, FirstTask
    <3>2. CASE GroupOf[t] # group + 1
      BY <3>2, <2>1 DEF StartGroup, Waits, Own
    <3> QED BY <3>1, <3>2
  <2> QED BY <2>3, <2>4, <2>5, <2>6
<1>5. CASE GroupThrows
  <2>1. task[t] \in {"idle", "done", "failed"}
    <3>1. CASE GroupOf[t] = group
      BY <1>5, <3>1 DEF GroupThrows, GroupSettled, Settled
    <3>2. CASE GroupOf[t] < group \/ GroupOf[t] > group
      BY <1>5, <1>s, <3>2 DEF GroupThrows, Progress
    <3> QED BY <1>t, <3>1, <3>2
  <2> QED BY <1>5, <2>1 DEF GroupThrows, TaskData, Progress, Blame, Waits, Live, Aborted, Own
<1>6. CASE StartTranslations
  <2>1. task[t] = "done"
    <3>1. CASE GroupOf[t] = group
      BY <1>6, <1>s, <3>1 DEF StartTranslations, GroupSettled, Settled, Blame
    <3>2. CASE GroupOf[t] < group
      BY <1>6, <1>s, <3>2 DEF StartTranslations, Progress
    <3> QED BY <1>6, <1>t, <3>1, <3>2 DEF StartTranslations
  <2> QED
    BY <1>6, <2>1 DEF StartTranslations, TaskData, Progress, Blame, Waits, Live, Aborted, Own
<1>7. CASE Assemble
  BY <1>7 DEF Assemble, TaskData, Progress, Blame, Waits, Live, Aborted, Own
<1>8. ASSUME NEW x \in Slots, TranslationStep(x)
      PROVE  TaskData(t)' /\ Progress(t)' /\ Blame(t)' /\ Waits(t)'
  BY <1>8 DEF TranslationStep, TranslationReturns, TranslationFails, TaskData, Progress,
     Blame, Waits, Live, Aborted, Own
<1>9. ASSUME NEW s \in Sections, SectionStep(s)
      PROVE  TaskData(t)' /\ Progress(t)' /\ Blame(t)' /\ Waits(t)'
  <2>1. CASE DeriveReturns(s)
    BY <1>9, <2>1, NewValues DEF DeriveReturns, TaskStep, TaskData, Progress, Blame, Waits,
       Live, Aborted, Own, TypeOK
  <2>2. CASE Fail(s) /\ \A i \in Own(s) : cand[s][i] \in {"idle", "failed"}
    <3> USE <1>9, <2>2 DEF Fail, TaskStep
    <3>1. task'[t] = (IF t = s THEN "failed" ELSE task[t]) /\ (t = s => task[t] = "working")
      BY <1>0
    <3>2. UNCHANGED <<saved, sections, phase, group, cand, tries>>
      OBVIOUS
    <3>3. TaskData(t)'
      BY <1>s, <3>1, <3>2 DEF TaskData, Live
    <3>4. Progress(t)'
      BY <1>s, <1>t, <3>1, <3>2 DEF Progress
    <3>5. Blame(t)'
      <4>1. failure' # None
        BY DEF Aborted
      <4>2. failure' = t => failure = t \/ t = s
        BY DEF Aborted
      <4> QED BY <1>s, <3>1, <4>1, <4>2 DEF Blame, Aborted
    <3>6. Waits(t)'
      <4>1. CASE t = s
        BY <1>s, <3>1, <3>2, <4>1 DEF Waits, Own
      <4>2. CASE t # s
        BY <1>s, <3>1, <3>2, <4>2 DEF Waits, Own
      <4> QED BY <4>1, <4>2
    <3> QED BY <3>3, <3>4, <3>5, <3>6
  <2>3. CASE CandidatesSucceed(s)
    BY <1>9, <2>3 DEF CandidatesSucceed, CandidatesSettled, TaskStep, TaskData, Progress,
       Blame, Waits, Live, Aborted, Own, TypeOK
  <2>4. CASE Pick(s)
    BY <1>9, <2>4, NewValues DEF Pick, Succeeded, TaskStep, TaskData, Progress, Blame, Waits,
       Live, Aborted, Own, TypeOK
  <2>5. CASE Save(s)
    BY <1>9, <2>5 DEF Save, TaskStep, TaskData, Progress, Blame, Waits,
       Live, Aborted, Own, TypeOK
  <2>6. CASE DeriveFails(s)
    BY <1>9, <2>6, <2>2 DEF DeriveFails, Waits
  <2>7. CASE CandidatesFail(s)
    BY <1>9, <2>7, <2>2 DEF CandidatesFail, CandidatesSettled, Succeeded
  <2> QED BY <1>9, <2>1, <2>3, <2>4, <2>5, <2>6, <2>7 DEF SectionStep
<1>10. ASSUME NEW s \in Sections, NEW i \in Indexes, CandidateStep(s, i)
       PROVE  TaskData(t)' /\ Progress(t)' /\ Blame(t)' /\ Waits(t)'
  <2>1. PICK from \in CandStates \ {"idle", "ok", "failed"}, to \in CandStates \ {"idle"} :
           /\ CandStep(s, i, from, to)
           /\ to = "backoff" => tries'[s][i] < Tries
    BY <1>10 DEF CandidateStep, CallSucceeds, CallFails, CallCut, Retry, RepairEnds,
       Retries, GivesUp, CandStates
  <2>2. UNCHANGED <<saved, sections, phase, group, task, failure>>
    BY <2>1 DEF CandStep
  <2>3. TaskData(t)' /\ Progress(t)' /\ Blame(t)'
    BY <2>2 DEF TaskData, Progress, Blame, Live, Aborted
  <2>4. \A j \in Own(t) : <<t, j>> # <<s, i>> =>
           cand'[t][j] = cand[t][j] /\ tries'[t][j] = tries[t][j]
    BY <1>10, <2>1, OwnIndexes DEF CandStep, CandidateStep, CallSucceeds, CallFails, CallCut,
       Retry, RepairEnds, TypeOK
  <2>5. cand'[s][i] = to /\ task[s] = "working" /\ s \notin Derived
    BY <1>10, <2>1 DEF CandStep, Waits, CandStates, TypeOK
  <2>6. Waits(t)'
    BY <1>10, <2>1, <2>2, <2>4, <2>5 DEF Waits, Own
  <2> QED BY <2>3, <2>6
<1>11. CASE UNCHANGED vars
  BY <1>11 DEF vars, TaskData, Progress, Blame, Waits, Live, Aborted, Own
<1> QED
  BY <1>1, <1>2, <1>3, <1>4, <1>5, <1>6, <1>7, <1>8, <1>9, <1>10, <1>11 DEF Next, PlannerStep

LEMMA PlannerInvStep == PlannerInv /\ [Next]_vars => PlannerInv'
<1> SUFFICES ASSUME PlannerInv, [Next]_vars PROVE PlannerInv'
    OBVIOUS
<1>1. TypeOK'
  BY TypeStep
<1>2. \A s \in Sections : TaskData(s)' /\ Progress(s)' /\ Blame(s)' /\ Waits(s)'
  BY SectionStepInv
<1>3. (phase # "none" => run > 0)'
  <2>1. CASE Begin
    BY <2>1 DEF Begin, PlannerInv, TypeOK
  <2>2. CASE ~Begin
    <3>1. run' = run /\ (phase' # "none" => phase # "none")
      BY <2>2 DEF Next, PlannerStep, NextGroup, GroupThrows, StartTranslations, Assemble,
         TranslationStep, TranslationReturns, TranslationFails, Cancel, Crash, Live, SectionStep,
         DeriveReturns, DeriveFails, CandidatesSucceed, CandidatesFail, Fail, Pick, Save, TaskStep,
         CandidateStep, CallSucceeds, CallFails, CallCut, Retry, RepairEnds, CandStep, vars
    <3> QED BY <3>1 DEF PlannerInv
  <2> QED BY <2>1, <2>2
<1> QED BY <1>1, <1>2, <1>3 DEF PlannerInv

LEMMA PlannerInvAlways == Spec => []PlannerInv
BY PlannerInvInit, PlannerInvStep, PTL DEF Spec

-----------------------------------------------------------------------------
(* The theorems.                                                           *)

\* Every state of the planner is well typed; in particular no candidate makes
\* more attempts than withRetry allows.
THEOREM PlannerTypes == Spec => []TypeOK
<1>1. PlannerInv => TypeOK
  BY DEF PlannerInv
<1> QED BY <1>1, PlannerInvAlways, PTL

\* When executeRuntimeSections has thrown or gone on, no task and no candidate
\* of it is in flight.
THEOREM NoWorkIsOrphaned == Spec => []NoOrphans
<1>1. PlannerInv => NoOrphans
  <2> SUFFICES ASSUME PlannerInv, phase # "sections", NEW s \in Sections
               PROVE  ~InFlight(s)
      BY DEF NoOrphans
  <2>1. Progress(s) /\ Waits(s) /\ phase \in Phases
    BY DEF PlannerInv, TypeOK
  <2>2. task[s] \in {"idle", "done", "failed"}
    BY <2>1 DEF Progress, Phases
  <2>3. \A i \in Own(s) : cand[s][i] \notin {"calling", "cut", "backoff", "repairing"}
    BY <2>1, <2>2 DEF Waits
  <2> QED BY <2>2, <2>3 DEF InFlight
<1> QED BY <1>1, PlannerInvAlways, PTL

\* A run that throws has checkpointed every section that one of its candidates
\* succeeded at.
THEOREM NoSuccessIsLost == Spec => []SuccessesAreSaved
<1>1. PlannerInv => SuccessesAreSaved
  <2> SUFFICES ASSUME PlannerInv, phase = "threw", NEW s \in Sections,
                      NEW i \in Own(s), cand[s][i] = "ok"
               PROVE  saved[s] # None
      BY DEF SuccessesAreSaved, Succeeded
  <2>1. TaskData(s) /\ Progress(s) /\ Waits(s)
    BY DEF PlannerInv
  <2>2. task[s] = "done"
    BY <2>1 DEF Progress, Waits
  <2> QED BY <2>1, <2>2, NoneAssumption DEF TaskData
<1> QED BY <1>1, PlannerInvAlways, PTL

\* The section whose failure aborts a run has no checkpoint.
THEOREM TheBlamedIsMissing == Spec => []BlamedIsMissing
<1>1. PlannerInv => BlamedIsMissing
  BY DEF PlannerInv, BlamedIsMissing, Aborted, TypeOK, Blame, TaskData
<1> QED BY <1>1, PlannerInvAlways, PTL

-----------------------------------------------------------------------------
(* The planner implements SectionRun.                                      *)

LEMMA InitImplements == Init => Abstract!Init
BY DEF Init, Nothing, Outcome, Live, Abstract!Init

\* When a section gets its value, all sections of earlier groups are saved.
LEMMA EarlierAreSaved ==
    ASSUME PlannerInv, phase = "sections", NEW s \in Sections, task[s] # "idle"
    PROVE  Abstract!EarlierGroupsSaved(s)
<1> SUFFICES ASSUME NEW t \in Sections, GroupOf[t] < GroupOf[s] PROVE saved[t] # None
    BY DEF Abstract!EarlierGroupsSaved
<1>1. GroupOf[t] \in Nat /\ GroupOf[s] \in Nat /\ group \in Nat
  BY DEF PlannerInv, TypeOK
<1>2. Progress(s) /\ Progress(t) /\ TaskData(t)
  BY DEF PlannerInv
<1>3. ~(GroupOf[s] > group)
  BY <1>2 DEF Progress
<1>4. GroupOf[t] < group
  BY <1>1, <1>3
<1>5. task[t] = "done"
  BY <1>2, <1>4 DEF Progress
<1> QED BY <1>2, <1>5 DEF TaskData

LEMMA SectionStepImplements ==
    ASSUME PlannerInv, NEW s \in Sections, SectionStep(s)
    PROVE  [Abstract!Next]_(Abstract!vars)
<1>1. phase = "sections" /\ Outcome = "running" /\ Outcome' = Outcome
  BY DEF SectionStep, DeriveReturns, DeriveFails, CandidatesSucceed, CandidatesFail, Fail,
     Pick, Save, TaskStep, Outcome, Live
<1>2. TaskData(s) /\ run \in 1..MaxRuns
  BY <1>1 DEF PlannerInv, TypeOK
<1>3. CASE DeriveReturns(s)
  <2>1. sections[s] = None /\ Abstract!EarlierGroupsSaved(s)
    BY <1>1, <1>2, <1>3, EarlierAreSaved DEF DeriveReturns, TaskStep, TaskData
  <2>2. Abstract!Produce(s, <<run, 0>>)
    BY <1>1, <1>3, <2>1 DEF DeriveReturns, Abstract!Produce
  <2> QED BY <1>2, <2>2, NewValues DEF Abstract!Next
<1>4. CASE Pick(s)
  <2>1. sections[s] = None /\ Abstract!EarlierGroupsSaved(s)
    BY <1>1, <1>2, <1>4, EarlierAreSaved DEF Pick, TaskStep, TaskData
  <2>2. PICK i \in Own(s) : sections' = [sections EXCEPT ![s] = <<run, i>>]
    BY <1>4 DEF Pick, Succeeded
  <2>3. Abstract!Produce(s, <<run, i>>)
    BY <1>1, <1>4, <2>1, <2>2 DEF Pick, Abstract!Produce
  <2> QED BY <1>2, <2>3, NewValues DEF Abstract!Next
<1>5. CASE Save(s)
  <2>1. sections[s] # None /\ saved[s] = None
    BY <1>2, <1>5 DEF Save, TaskStep, TaskData
  <2>2. Abstract!Save(s)
    BY <1>1, <1>5, <2>1 DEF Save, Abstract!Save
  <2> QED BY <2>2 DEF Abstract!Next
<1>6. CASE DeriveFails(s) \/ CandidatesSucceed(s) \/ CandidatesFail(s)
  BY <1>1, <1>6 DEF DeriveFails, CandidatesSucceed, CandidatesFail, Fail, Abstract!vars
<1> QED BY <1>3, <1>4, <1>5, <1>6 DEF SectionStep

LEMMA NextImplements ==
    ASSUME PlannerInv, [Next]_vars
    PROVE  [Abstract!Next]_(Abstract!vars)
<1>1. CASE Begin
  <2>1. Outcome \in {"none", "threw"} /\ Outcome' = "running"
    BY <1>1 DEF Begin, Outcome, Live
  <2> QED BY <1>1, <2>1 DEF Begin, Abstract!Begin, Abstract!Next
<1>2. CASE Crash \/ GroupThrows
  <2>1. Outcome = "running" /\ Outcome' = "threw"
    BY <1>2 DEF Crash, GroupThrows, Outcome, Live
  <2> QED BY <1>2, <2>1 DEF Crash, GroupThrows, Abstract!Throw, Abstract!Next
<1>3. CASE Assemble
  <2>1. Outcome = "running" /\ Outcome' \in {"threw", "returned"} /\ UNCHANGED <<saved, sections>>
    BY <1>3 DEF Assemble, Outcome, Live
  <2>2. \A s \in Sections : sections[s] # None /\ sections[s] = saved[s]
    BY <1>3 DEF Assemble, PlannerInv, Progress, TaskData
  <2> QED BY <2>1, <2>2 DEF Abstract!Throw, Abstract!Return, Abstract!Next
<1>4. CASE StartTranslations
  <2>1. Outcome = "running" /\ Outcome' \in {"threw", "running"} /\ UNCHANGED <<saved, sections>>
    BY <1>4 DEF StartTranslations, Outcome, Live
  <2> QED BY <2>1 DEF Abstract!Throw, Abstract!Next, Abstract!vars
<1>5. ASSUME NEW x \in Slots, TranslationStep(x) PROVE [Abstract!Next]_(Abstract!vars)
  <2>1. Outcome = "running" /\ Outcome' \in {"threw", "running"} /\ UNCHANGED <<saved, sections>>
    BY <1>5 DEF TranslationStep, TranslationReturns, TranslationFails, Outcome, Live
  <2> QED BY <2>1 DEF Abstract!Throw, Abstract!Next, Abstract!vars
<1>6. CASE NextGroup \/ Cancel \/ UNCHANGED vars
  BY <1>6 DEF NextGroup, Cancel, vars, Outcome, Live, Abstract!vars
<1>7. ASSUME NEW s \in Sections, SectionStep(s) PROVE [Abstract!Next]_(Abstract!vars)
  BY <1>7, SectionStepImplements
<1>8. ASSUME NEW s \in Sections, NEW i \in Indexes, CandidateStep(s, i)
      PROVE  [Abstract!Next]_(Abstract!vars)
  BY <1>8 DEF CandidateStep, CallSucceeds, CallFails, CallCut, Retry, RepairEnds, CandStep,
     Outcome, Live, Abstract!vars
<1> QED BY <1>1, <1>2, <1>3, <1>4, <1>5, <1>6, <1>7, <1>8 DEF Next, PlannerStep

\* Over all the runs of a job section generation keeps the promise of SectionRun:
\* groups in order, values checkpointed before the next group and never replaced,
\* and only checkpointed values returned.
THEOREM PlannerImplementsSectionRun == Spec => ImplementsSectionRun
<1>1. PlannerInv /\ [Next]_vars => [Abstract!Next]_(Abstract!vars)
  BY NextImplements
<1> QED BY InitImplements, <1>1, PlannerInvAlways, PTL DEF Spec, ImplementsSectionRun, Abstract!Spec

-----------------------------------------------------------------------------
(* Why a run ends: no step repeats what was done.                          *)

\* How far a run, a task and an attempt of a candidate are from their ends.
PhaseLeft == [none |-> 4, sections |-> 3, translate |-> 2, assemble |-> 1,
              returned |-> 0, threw |-> 0]
TaskLeft == [idle |-> 4, working |-> 3, picking |-> 2, saving |-> 1, done |-> 0, failed |-> 0]
CandLeft == [idle |-> 4, calling |-> 3, cut |-> 3, backoff |-> 2, repairing |-> 1,
             ok |-> 0, failed |-> 0]

\* The task of s comes nearer to its end, the others stay where they are.
TaskAdvances(s) ==
    /\ TaskLeft[task'[s]] < TaskLeft[task[s]]
    /\ \A r \in Sections \ {s} : task'[r] = task[r]

\* Candidate i of s begins a further attempt or comes nearer to the end of this
\* one, the others stay where they are.
CandAdvances(s, i) ==
    /\ \/ tries'[s][i] > tries[s][i]
       \/ tries'[s][i] = tries[s][i] /\ CandLeft[cand'[s][i]] < CandLeft[cand[s][i]]
    /\ \A r \in Sections, j \in Indexes :
           r # s \/ j # i => tries'[r][j] = tries[r][j] /\ cand'[r][j] = cand[r][j]

\* A step begins a run, goes on to a later phase of it or a further group, or brings
\* one task, one candidate or one translation nearer to its end.  Otherwise the
\* job is cancelled, for good.
PlannerAdvances ==
    \/ run' > run
    \/ run' = run /\ PhaseLeft[phase'] < PhaseLeft[phase]
    \/ UNCHANGED <<run, phase>> /\ group' > group
    \/ /\ UNCHANGED <<run, phase, group>>
       /\ \/ \E s \in Sections : TaskAdvances(s)
          \/ UNCHANGED task /\ \E s \in Sections, i \in Indexes : CandAdvances(s, i)
          \/ /\ UNCHANGED <<task, cand, tries>>
             /\ translating' \subseteq translating /\ translating' # translating
          \/ UNCHANGED <<task, cand, tries, translating>> /\ ~cancelled /\ cancelled'

LEMMA PhasesLeft ==
    /\ PhaseLeft["none"] = 4 /\ PhaseLeft["sections"] = 3 /\ PhaseLeft["translate"] = 2
    /\ PhaseLeft["assemble"] = 1 /\ PhaseLeft["returned"] = 0 /\ PhaseLeft["threw"] = 0
BY DEF PhaseLeft

LEMMA TasksLeft ==
    /\ TaskLeft["idle"] = 4 /\ TaskLeft["working"] = 3 /\ TaskLeft["picking"] = 2
    /\ TaskLeft["saving"] = 1 /\ TaskLeft["done"] = 0 /\ TaskLeft["failed"] = 0
BY DEF TaskLeft

LEMMA CandsLeft ==
    /\ CandLeft["idle"] = 4 /\ CandLeft["calling"] = 3 /\ CandLeft["cut"] = 3
    /\ CandLeft["backoff"] = 2 /\ CandLeft["repairing"] = 1
    /\ CandLeft["ok"] = 0 /\ CandLeft["failed"] = 0
BY DEF CandLeft

\* Between two phases.
LEMMA PhaseAdvances ==
    ASSUME PlannerInv, PlannerStep \/ Begin \/ Crash
    PROVE  PlannerAdvances
<1>1. CASE Begin
  BY <1>1 DEF Begin, PlannerAdvances, PlannerInv, TypeOK
<1>2. CASE Crash
  <2>1. run' = run /\ phase' = "threw" /\ phase \in {"sections", "translate", "assemble"}
    BY <1>2 DEF Crash, Live
  <2>2. PhaseLeft[phase'] < PhaseLeft[phase]
    BY <2>1, PhasesLeft
  <2>3. QED
    BY <2>1, <2>2 DEF PlannerAdvances
<1>3. CASE NextGroup
  <2>1. UNCHANGED <<run, phase>> /\ group' = group + 1
    BY <1>3 DEF NextGroup, StartGroup
  <2>2. QED
    BY <2>1 DEF PlannerAdvances, PlannerInv, TypeOK
<1>4. CASE GroupThrows \/ StartTranslations \/ Assemble
  <2>1. /\ run' = run
        /\ \/ phase = "sections" /\ phase' \in {"threw", "translate"}
           \/ phase = "assemble" /\ phase' \in {"returned", "threw"}
    BY <1>4 DEF GroupThrows, StartTranslations, Assemble
  <2>2. PhaseLeft[phase'] < PhaseLeft[phase]
    BY <2>1, PhasesLeft
  <2>3. QED
    BY <2>1, <2>2 DEF PlannerAdvances
<1>5. QED
  BY <1>1, <1>2, <1>3, <1>4 DEF PlannerStep

LEMMA TranslationAdvances ==
    ASSUME PlannerInv, NEW x \in Slots, TranslationStep(x)
    PROVE  PlannerAdvances
<1>1. /\ phase = "translate" /\ x \in translating /\ translating' = translating \ {x}
      /\ UNCHANGED <<run, group, task, cand, tries>>
  BY DEF TranslationStep, TranslationReturns, TranslationFails
<1>2. phase' \in {"translate", "assemble", "threw"}
  BY <1>1 DEF TranslationStep, TranslationReturns, TranslationFails
<1>3. CASE phase' = phase
  BY <1>1, <1>3 DEF PlannerAdvances
<1>4. CASE phase' # phase
  <2>1. PhaseLeft[phase'] < PhaseLeft[phase]
    BY <1>1, <1>2, <1>4, PhasesLeft
  <2>2. QED
    BY <1>1, <2>1 DEF PlannerAdvances
<1>5. QED
  BY <1>3, <1>4

\* Every step of a section is one of its task's, along its places.
LEMMA TaskOnlyAdvances ==
    ASSUME PlannerInv, NEW s \in Sections,
           NEW from \in TaskStates, NEW to \in TaskStates, TaskStep(s, from, to),
           TaskLeft[to] < TaskLeft[from]
    PROVE  PlannerAdvances
<1>1. UNCHANGED <<run, phase, group>>
  BY DEF TaskStep
<1>2. task[s] = from /\ task' = [task EXCEPT ![s] = to]
  BY DEF TaskStep
<1>3. TaskAdvances(s)
  BY <1>2 DEF TaskAdvances, PlannerInv, TypeOK
<1>4. QED
  BY <1>1, <1>3 DEF PlannerAdvances

LEMMA TaskAlways ==
    ASSUME PlannerInv, NEW s \in Sections, SectionStep(s)
    PROVE  PlannerAdvances
<1>1. PICK from \in TaskStates, to \in TaskStates :
          /\ TaskStep(s, from, to)
          /\ \/ from = "working" /\ to \in {"failed", "saving", "picking"}
             \/ from = "picking" /\ to = "saving"
             \/ from = "saving" /\ to = "done"
  <2>1. {"working", "picking", "saving", "done", "failed"} \subseteq TaskStates
    BY DEF TaskStates
  <2>2. CASE DeriveReturns(s)
    BY <2>1, <2>2 DEF DeriveReturns
  <2>3. CASE DeriveFails(s) \/ CandidatesFail(s)
    BY <2>1, <2>3 DEF DeriveFails, CandidatesFail, Fail
  <2>4. CASE CandidatesSucceed(s)
    BY <2>1, <2>4 DEF CandidatesSucceed
  <2>5. CASE Pick(s)
    BY <2>1, <2>5 DEF Pick
  <2>6. CASE Save(s)
    BY <2>1, <2>6 DEF Save
  <2>7. QED
    BY <2>2, <2>3, <2>4, <2>5, <2>6 DEF SectionStep
<1>2. TaskLeft[to] < TaskLeft[from]
  BY <1>1, TasksLeft
<1>3. QED
  BY <1>1, <1>2, TaskOnlyAdvances

\* A step of a candidate within an attempt.
LEMMA CandOnlyAdvances ==
    ASSUME PlannerInv, NEW s \in Sections, NEW i \in Indexes,
           NEW from \in CandStates, NEW to \in CandStates, CandStep(s, i, from, to),
           \/ UNCHANGED tries /\ CandLeft[to] < CandLeft[from]
           \/ tries' = [tries EXCEPT ![s][i] = @ + 1]
    PROVE  PlannerAdvances
<1>1. UNCHANGED <<run, phase, group, task>>
  BY DEF CandStep
<1>2. cand[s][i] = from /\ cand' = [cand EXCEPT ![s][i] = to]
  BY DEF CandStep
<1>3. /\ cand \in [Sections -> [Indexes -> CandStates]]
      /\ tries \in [Sections -> [Indexes -> 0..Tries]]
  BY DEF PlannerInv, TypeOK
<1>4. /\ cand'[s][i] = to
      /\ \A r \in Sections, j \in Indexes : r # s \/ j # i => cand'[r][j] = cand[r][j]
  BY <1>2, <1>3
<1>5. CASE UNCHANGED tries /\ CandLeft[to] < CandLeft[from]
  <2>1. CandAdvances(s, i)
    BY <1>2, <1>4, <1>5 DEF CandAdvances
  <2>2. QED
    BY <1>1, <2>1 DEF PlannerAdvances
<1>6. CASE tries' = [tries EXCEPT ![s][i] = @ + 1]
  <2>1. /\ tries'[s][i] = tries[s][i] + 1 /\ tries[s][i] \in Nat
        /\ \A r \in Sections, j \in Indexes : r # s \/ j # i => tries'[r][j] = tries[r][j]
    BY <1>3, <1>6
  <2>2. CandAdvances(s, i)
    BY <1>4, <2>1 DEF CandAdvances
  <2>3. QED
    BY <1>1, <2>2 DEF PlannerAdvances
<1>7. QED
  BY <1>5, <1>6

LEMMA CandAlways ==
    ASSUME PlannerInv, NEW s \in Sections, NEW i \in Indexes, CandidateStep(s, i)
    PROVE  PlannerAdvances
<1>1. {"calling", "cut", "backoff", "repairing", "ok", "failed"} \subseteq CandStates
  BY DEF CandStates
<1>2. CASE CallSucceeds(s, i)
  <2>1. CandLeft["ok"] < CandLeft["calling"]
    BY CandsLeft
  <2>2. QED
    BY <1>1, <1>2, <2>1, CandOnlyAdvances DEF CallSucceeds
<1>3. CASE CallFails(s, i)
  <2>1. PICK to \in {"backoff", "repairing", "failed"} : CandStep(s, i, "calling", to)
    BY <1>3 DEF CallFails, GivesUp
  <2>2. CandLeft[to] < CandLeft["calling"]
    BY CandsLeft
  <2>3. UNCHANGED tries
    BY <1>3 DEF CallFails
  <2>4. QED
    BY <1>1, <2>1, <2>2, <2>3, CandOnlyAdvances
<1>4. CASE CallCut(s, i)
  <2>1. CandLeft["failed"] < CandLeft["cut"]
    BY CandsLeft
  <2>2. QED
    BY <1>1, <1>4, <2>1, CandOnlyAdvances DEF CallCut
<1>5. CASE Retry(s, i)
  <2>1. PICK to \in {"cut", "calling"} : CandStep(s, i, "backoff", to)
    BY <1>5 DEF Retry
  <2>2. QED
    BY <1>1, <1>5, <2>1, CandOnlyAdvances DEF Retry
<1>6. CASE RepairEnds(s, i)
  <2>1. PICK to \in {"ok", "failed"} : CandStep(s, i, "repairing", to) /\ UNCHANGED tries
    BY <1>6 DEF RepairEnds
  <2>2. CandLeft[to] < CandLeft["repairing"]
    BY CandsLeft
  <2>3. QED
    BY <1>1, <2>1, <2>2, CandOnlyAdvances
<1>7. QED
  BY <1>2, <1>3, <1>4, <1>5, <1>6 DEF CandidateStep

\* A run of the planner makes no step twice, whatever fails, is cancelled, aborted
\* or crashes: its groups, their tasks, their candidates' attempts and the
\* translations are worked off.
THEOREM PlannerRunsAdvance == Spec => [][PlannerAdvances]_vars
<1>1. PlannerInv /\ [Next]_vars => [PlannerAdvances]_vars
  <2> SUFFICES ASSUME PlannerInv, Next PROVE PlannerAdvances
    OBVIOUS
  <2>1. CASE Cancel
    BY <2>1 DEF Cancel, PlannerAdvances
  <2>2. CASE Begin \/ Crash \/ PlannerStep
    BY <2>2, PhaseAdvances
  <2>3. CASE \E x \in Slots : TranslationStep(x)
    BY <2>3, TranslationAdvances
  <2>4. CASE \E s \in Sections : SectionStep(s)
    BY <2>4, TaskAlways
  <2>5. CASE \E s \in Sections : \E i \in Indexes : CandidateStep(s, i)
    BY <2>5, CandAlways
  <2>6. QED
    BY <2>1, <2>2, <2>3, <2>4, <2>5 DEF Next
<1>2. QED
  BY <1>1, PlannerInvAlways, PTL DEF Spec
=============================================================================
