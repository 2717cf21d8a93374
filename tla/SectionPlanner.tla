--------------------------- MODULE SectionPlanner ---------------------------
(***************************************************************************)
(* executeRuntimeSections of agent-runtime/planner.ts inside               *)
(* GenerationService.executeAgentRuntime, over the successive runs of one  *)
(* queue job.                                                              *)
(*                                                                         *)
(* A run works through the parallel groups.  Every section of a group is a *)
(* task; a generated section starts all its candidates at once, each a     *)
(* retry loop around model calls (utils/retry.ts).  The first task that    *)
(* fails aborts the others; the group waits for all of them all the same.  *)
(* Finished sections are checkpointed in the job hash and the next run     *)
(* begins with them.                                                       *)
(***************************************************************************)
EXTENDS Naturals

CONSTANTS
    Sections,        (* the executable sections                            *)
    GroupOf,         (* index of each section's parallel group             *)
    Groups,          (* number of parallel groups                          *)
    Derived,         (* sections with mode "derive"                        *)
    CandidateCount,  (* candidates per section                             *)
    MaxCandidates,   (* bound on the candidate counts                      *)
    ItemRepair,      (* sections repaired item by item (bullets)           *)
    Tries,           (* attempts of one candidate's retry loop             *)
    MaxRuns,         (* bound: runs of the job (attempts and redeliveries) *)
    None             (* no value, no failure                               *)

ASSUME GroupAssumption == GroupOf \in [Sections -> 1..Groups]
ASSUME CountAssumption == /\ MaxCandidates \in Nat
                          /\ CandidateCount \in [Sections -> 1..MaxCandidates]
ASSUME BoundAssumption == Groups \in Nat /\ MaxRuns \in Nat /\ Tries \in Nat \ {0}
ASSUME KindAssumption  == Derived \subseteq Sections /\ ItemRepair \subseteq Sections

VARIABLES
    saved,           (* runtime_section fields of the job hash             *)
    sections,        (* the sections object of the run                     *)
    run,             (* runs begun                                         *)
    phase,           (* where the run is                                   *)
    group,           (* the group in progress                              *)
    task,            (* each section's task                                *)
    cand,            (* each candidate's promise                           *)
    tries,           (* attempts begun of each candidate                   *)
    failure,         (* executionFailure: the section that failed first    *)
    cancelled,       (* the job's AbortSignal is aborted                   *)
    translating      (* translations in flight                             *)

vars == <<saved, sections, run, phase, group, task, cand, tries, failure,
          cancelled, translating>>

-----------------------------------------------------------------------------
Indexes == 1..MaxCandidates

\* The candidates of a section.
Own(s) == 1..CandidateCount[s]

\* A content is known by the run and the candidate that made it; index 0 is a
\* derived section.
Values == (1..MaxRuns) \X (0..MaxCandidates)
ASSUME NoneAssumption == None \notin Values \cup Sections

\* One translation per section, and those of the category and the keywords.
Slots == Sections \cup {"category", "keywords"}

TaskStates == {"idle", "working", "picking", "saving", "done", "failed"}
CandStates == {"idle", "calling", "cut", "backoff", "repairing", "ok", "failed"}
Phases == {"none", "sections", "translate", "assemble", "returned", "threw"}

Nothing == [s \in Sections |-> None]
AllIdle == [s \in Sections |-> [i \in Indexes |-> "idle"]]

TypeOK ==
    /\ saved \in [Sections -> Values \cup {None}]
    /\ sections \in [Sections -> Values \cup {None}]
    /\ run \in 0..MaxRuns
    /\ phase \in Phases
    /\ group \in 0..Groups
    /\ task \in [Sections -> TaskStates]
    /\ cand \in [Sections -> [Indexes -> CandStates]]
    /\ tries \in [Sections -> [Indexes -> 0..Tries]]
    /\ failure \in Sections \cup {None}
    /\ cancelled \in BOOLEAN
    /\ translating \subseteq Slots

Init ==
    /\ saved = Nothing
    /\ sections = Nothing
    /\ run = 0
    /\ phase = "none"
    /\ group = 0
    /\ task = [s \in Sections |-> "idle"]
    /\ cand = AllIdle
    /\ tries = [s \in Sections |-> [i \in Indexes |-> 0]]
    /\ failure = None
    /\ cancelled = FALSE
    /\ translating = {}

Live == phase \in {"sections", "translate", "assemble"}

\* executionController.signal.aborted: it is aborted with the first failure.
Aborted == failure # None

\* A section's task is over: its promise is settled.
Settled(s) == task[s] \in {"done", "failed"}

GroupSettled(g) == \A s \in Sections : GroupOf[s] = g => Settled(s)

-----------------------------------------------------------------------------
(* A run of the job.                                                       *)

\* The processor reads the checkpoint and calls executeAgentRuntime.  A job
\* that was cancelled is not run again.
Begin ==
    /\ phase \in {"none", "threw"}
    /\ ~cancelled
    /\ run < MaxRuns
    /\ run' = run + 1
    /\ phase' = "sections"
    /\ group' = 0
    /\ sections' = saved
    /\ task' = [s \in Sections |-> "idle"]
    /\ cand' = AllIdle
    /\ tries' = [s \in Sections |-> [i \in Indexes |-> 0]]
    /\ failure' = None
    /\ translating' = {}
    /\ UNCHANGED <<saved, cancelled>>

\* Variant: a checkpointed section is generated again.
FirstTaskAlways(s) == "working"

\* The task of a section returns at once when the section is checkpointed.
FirstTask(s) == IF sections[s] # None THEN "done" ELSE "working"

\* All candidates of a section start in the same tick.  Under an aborted job
\* signal a call is cut off before it is sent.
FirstCall(s, i) ==
    IF FirstTask(s) = "done" \/ s \in Derived \/ i \notin Own(s) THEN "idle"
    ELSE IF cancelled THEN "cut" ELSE "calling"

StartGroup(g) ==
    /\ group' = g
    /\ task' = [s \in Sections |-> IF GroupOf[s] = g THEN FirstTask(s) ELSE task[s]]
    /\ cand' = [s \in Sections |-> IF GroupOf[s] = g
                                   THEN [i \in Indexes |-> FirstCall(s, i)]
                                   ELSE cand[s]]
    /\ tries' = [s \in Sections |-> IF GroupOf[s] = g
                                    THEN [i \in Indexes |-> 1]
                                    ELSE tries[s]]

\* Variant: the next group starts before the checkpoints are written.
NextGroupEarly ==
    /\ phase = "sections"
    /\ group < Groups
    /\ \A s \in Sections : GroupOf[s] = group => task[s] \in {"done", "saving"}
    /\ ~Aborted
    /\ StartGroup(group + 1)
    /\ UNCHANGED <<saved, sections, run, phase, failure, cancelled, translating>>

\* The for loop goes on to the next group, in the tick that settled this one.
NextGroup ==
    /\ phase = "sections"
    /\ group < Groups
    /\ GroupSettled(group)
    /\ ~Aborted
    /\ StartGroup(group + 1)
    /\ UNCHANGED <<saved, sections, run, phase, failure, cancelled, translating>>

\* Variant: Promise.all in the place of Promise.allSettled.
GroupThrowsAtOnce ==
    /\ phase = "sections"
    /\ Aborted
    /\ phase' = "threw"
    /\ UNCHANGED <<saved, sections, run, group, task, cand, tries, failure,
                   cancelled, translating>>

\* The group is settled and one of its tasks failed: executionFailure is thrown.
GroupThrows ==
    /\ phase = "sections"
    /\ GroupSettled(group)
    /\ Aborted
    /\ phase' = "threw"
    /\ UNCHANGED <<saved, sections, run, group, task, cand, tries, failure,
                   cancelled, translating>>

\* After the last group all translations start in the same tick; each begins
\* with throwIfAborted.
StartTranslations ==
    /\ phase = "sections"
    /\ group = Groups
    /\ GroupSettled(group)
    /\ ~Aborted
    /\ phase' = IF cancelled THEN "threw" ELSE "translate"
    /\ translating' = IF cancelled THEN {} ELSE Slots
    /\ UNCHANGED <<saved, sections, run, group, task, cand, tries, failure, cancelled>>

TranslationReturns(x) ==
    /\ phase = "translate"
    /\ x \in translating
    /\ translating' = translating \ {x}
    /\ phase' = IF translating' = {} THEN "assemble" ELSE phase
    /\ UNCHANGED <<saved, sections, run, group, task, cand, tries, failure, cancelled>>

\* Promise.all rejects with the first failure and leaves the others in flight.
TranslationFails(x) ==
    /\ phase = "translate"
    /\ x \in translating
    /\ translating' = translating \ {x}
    /\ phase' = "threw"
    /\ UNCHANGED <<saved, sections, run, group, task, cand, tries, failure, cancelled>>

\* Judge, later translations and rendering; generate ends with throwIfAborted.
Assemble ==
    /\ phase = "assemble"
    /\ phase' \in IF cancelled THEN {"threw"} ELSE {"returned", "threw"}
    /\ UNCHANGED <<saved, sections, run, group, task, cand, tries, failure,
                   cancelled, translating>>

\* The cancel message reaches the run.
Cancel ==
    /\ Live
    /\ ~cancelled
    /\ cancelled' = TRUE
    /\ UNCHANGED <<saved, sections, run, phase, group, task, cand, tries, failure,
                   translating>>

\* The runner dies: whatever was in flight is gone, the checkpoint stays.
Crash ==
    /\ Live
    /\ phase' = "threw"
    /\ task' = [s \in Sections |-> "idle"]
    /\ cand' = AllIdle
    /\ failure' = None
    /\ translating' = {}
    /\ UNCHANGED <<saved, sections, run, group, tries, cancelled>>

-----------------------------------------------------------------------------
(* A candidate: withRetry around one model call.                           *)

CandStep(s, i, from, to) ==
    /\ phase = "sections"
    /\ i \in Own(s)
    /\ cand[s][i] = from
    /\ cand' = [cand EXCEPT ![s][i] = to]
    /\ UNCHANGED <<saved, sections, run, phase, group, task, failure,
                   cancelled, translating>>

CallSucceeds(s, i) == CandStep(s, i, "calling", "ok") /\ UNCHANGED tries

\* shouldRetry, and the attempts of withRetry: an error that looks like an abort
\* is not retried, nor is any error once the planner has aborted.
Retries(s, i, error) == error # "abort" /\ tries[s][i] < Tries /\ ~Aborted

\* The error of the last attempt leaves withRetry.  Bullets whose content failed
\* validation get another chance, item by item, whoever aborted.
GivesUp(s, error) == IF error = "invalid" /\ s \in ItemRepair THEN "repairing" ELSE "failed"

CallFails(s, i) ==
    \E error \in {"abort", "invalid", "other"} :
        /\ CandStep(s, i, "calling",
                    IF Retries(s, i, error) THEN "backoff" ELSE GivesUp(s, error))
        /\ UNCHANGED tries

\* A call that was aborted before it began.
CallCut(s, i) == CandStep(s, i, "cut", "failed") /\ UNCHANGED tries

\* Variant: an abort during the sleep is noticed and the loop is left for good.
RetryUnlessAborted(s, i) ==
    /\ ~Aborted
    /\ CandStep(s, i, "backoff", IF cancelled THEN "cut" ELSE "calling")
    /\ tries' = [tries EXCEPT ![s][i] = @ + 1]

\* The sleep of withRetry is over; nobody looks at the abort signals meanwhile.
Retry(s, i) ==
    /\ CandStep(s, i, "backoff", IF Aborted \/ cancelled THEN "cut" ELSE "calling")
    /\ tries' = [tries EXCEPT ![s][i] = @ + 1]

RepairEnds(s, i) ==
    \E to \in {"ok", "failed"} : CandStep(s, i, "repairing", to) /\ UNCHANGED tries

CandidateStep(s, i) ==
    \/ CallSucceeds(s, i) \/ CallFails(s, i) \/ CallCut(s, i)
    \/ Retry(s, i) \/ RepairEnds(s, i)

-----------------------------------------------------------------------------
(* The task of a section.                                                  *)

TaskStep(s, from, to) ==
    /\ phase = "sections"
    /\ task[s] = from
    /\ task' = [task EXCEPT ![s] = to]
    /\ UNCHANGED <<run, phase, group, cand, tries, cancelled, translating>>

\* The wrapper of every task: only the first failure is kept.
Fail(s) ==
    /\ TaskStep(s, "working", "failed")
    /\ failure' = IF Aborted THEN failure ELSE s
    /\ UNCHANGED <<saved, sections>>

\* deriveSection: the value is set in the tick it was computed.
DeriveReturns(s) ==
    /\ s \in Derived
    /\ TaskStep(s, "working", "saving")
    /\ sections' = [sections EXCEPT ![s] = <<run, 0>>]
    /\ UNCHANGED <<saved, failure>>

\* executeDeriveNode throws: a section it cannot derive, or search terms that
\* buildSearchTermsFromRule cannot make or finds invalid.
DeriveFails(s) == s \in Derived /\ Fail(s)

Succeeded(s) == {i \in Own(s) : cand[s][i] = "ok"}
CandidatesSettled(s) ==
    s \notin Derived /\ \A i \in Own(s) : cand[s][i] \in {"ok", "failed"}

\* Promise.allSettled of the candidates, one of which succeeded.
CandidatesSucceed(s) ==
    /\ CandidatesSettled(s)
    /\ Succeeded(s) # {}
    /\ TaskStep(s, "working", "picking")
    /\ UNCHANGED <<saved, sections, failure>>

\* Variant: a task that sees the abort gives its candidates up.
CandidatesFailOnAbort(s) ==
    CandidatesSettled(s) /\ (Succeeded(s) = {} \/ Aborted) /\ Fail(s)

\* No candidate succeeded.
CandidatesFail(s) == CandidatesSettled(s) /\ Succeeded(s) = {} /\ Fail(s)

\* pickBestCandidate: which one wins depends on its content.
Pick(s) ==
    /\ TaskStep(s, "picking", "saving")
    /\ \E i \in Succeeded(s) : sections' = [sections EXCEPT ![s] = <<run, i>>]
    /\ UNCHANGED <<saved, failure>>

\* onSectionComplete: saveRuntimeSection.
Save(s) ==
    /\ TaskStep(s, "saving", "done")
    /\ saved' = [saved EXCEPT ![s] = sections[s]]
    /\ UNCHANGED <<sections, failure>>

SectionStep(s) ==
    \/ DeriveReturns(s) \/ DeriveFails(s) \/ CandidatesSucceed(s) \/ CandidatesFail(s)
    \/ Pick(s) \/ Save(s)

-----------------------------------------------------------------------------
PlannerStep == NextGroup \/ GroupThrows \/ StartTranslations \/ Assemble

TranslationStep(x) == TranslationReturns(x) \/ TranslationFails(x)

Next ==
    \/ Begin \/ Cancel \/ Crash
    \/ PlannerStep
    \/ \E x \in Slots : TranslationStep(x)
    \/ \E s \in Sections : SectionStep(s) \/ \E i \in Indexes : CandidateStep(s, i)

Spec == Init /\ [][Next]_vars

\* Promises settle: model calls return or fail, sleeps and Redis writes end.
\* No run has to begin, no cancel and no crash has to come.
Fairness ==
    /\ WF_vars(PlannerStep)
    /\ \A x \in Slots : WF_vars(TranslationStep(x))
    /\ \A s \in Sections : WF_vars(SectionStep(s))
    /\ \A s \in Sections, i \in Indexes : WF_vars(CandidateStep(s, i))

FairSpec == Spec /\ Fairness

-----------------------------------------------------------------------------
(* Properties.                                                             *)

InFlight(s) ==
    \/ task[s] \in {"working", "picking", "saving"}
    \/ \E i \in Own(s) : cand[s][i] \in {"calling", "cut", "backoff", "repairing"}

\* executeRuntimeSections leaves no section work behind: when it has thrown or
\* gone on to the translations, no task and no candidate is in flight, so that
\* the next run of the job cannot be written into by this one.
NoOrphans == phase # "sections" => \A s \in Sections : ~InFlight(s)

\* Work that succeeded is not lost when another section fails: when a run throws,
\* every section one of whose candidates succeeded is checkpointed, although the
\* abort reached its task in the middle.
SuccessesAreSaved ==
    phase = "threw" =>
        \A s \in Sections : Succeeded(s) # {} => saved[s] # None

\* A run that was not hit by its own failure is not blamed: the section whose
\* failure is thrown has no checkpoint, so the next run generates it again.
BlamedIsMissing == Aborted => saved[failure] = None

\* The promise of section generation over all runs: see SectionRun.
Outcome == CASE phase = "none" -> "none" [] Live -> "running" [] OTHER -> phase
Abstract == INSTANCE SectionRun WITH have <- sections, outcome <- Outcome
ImplementsSectionRun == Abstract!Spec

\* Every run ends, whatever fails, is cancelled or aborted.
EveryRunEnds == (phase = "sections") ~> (phase \in {"returned", "threw"})
=============================================================================
