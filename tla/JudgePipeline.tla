---------------------------- MODULE JudgePipeline ----------------------------
(***************************************************************************)
(* What a run of services/generation-service.ts does with the sections and *)
(* translations of the section planner (a returned SectionRun): the judge  *)
(* reviews the sections, those it complains of are written anew, round     *)
(* after round, and translations of changed sections are made again.       *)
(*                                                                         *)
(* All calls to the model are sequential; the job may be cancelled at any  *)
(* moment.  A translation stands for the text it was made from.            *)
(***************************************************************************)
EXTENDS Naturals

CONSTANTS
    Sections,     (* the sections the planner returns                      *)
    Unslotted,    (* sections of the rules that it does not: translation   *)
    Ignored,      (* search_terms and judge.skip_sections                  *)
    Texts,        (* what a section may say                                *)
    MaxRounds,    (* judge.max_rounds                                      *)
    None

ASSUME RoundsAssumption   == MaxRounds \in Nat
ASSUME SectionsAssumption == Sections \cap Unslotted = {} /\ Ignored \subseteq Sections \cup Unslotted
ASSUME NoneAssumption     == None \notin Sections \cup Texts /\ "judge" \notin Sections \cup {None}

VARIABLES
    phase,        (* where the run is                                      *)
    original,     (* sectionResult.sections                                *)
    text,         (* repairedSections, and their slots                     *)
    round,        (* judgeRound                                            *)
    issues,       (* sections that judgeIssues name                        *)
    todo,         (* those this round has still to repair                  *)
    busy,         (* the call under way: "judge", a section, or None       *)
    judge,        (* what became of the last review                        *)
    seen,         (* the sections the last answer of the judge was about   *)
    translated,   (* the text behind each <section>_cn slot                *)
    pending,      (* pendingSectionKeys still to translate                 *)
    cancelled     (* the job's abort signal                                *)

control == <<phase, busy, cancelled>>
review == <<round, issues, todo, judge, seen>>
vars == <<control, review, original, text, translated, pending>>

-----------------------------------------------------------------------------
Phases == {"reviewing", "repairing", "reusing", "translating", "returned", "failed"}
Ended == phase \in {"returned", "failed"}

TypeOK ==
    /\ phase \in Phases
    /\ original \in [Sections -> Texts]
    /\ text \in [Sections -> Texts]
    /\ round \in 0..MaxRounds
    /\ issues \subseteq (Sections \cup Unslotted) \ Ignored
    /\ todo \subseteq Sections
    /\ busy \in Sections \cup {"judge", None}
    /\ judge \in {"off", "unasked", "answered", "failed"}
    /\ seen \in [Sections -> Texts]
    /\ translated \in [Sections -> Texts \cup {None}]
    /\ pending \subseteq Sections
    /\ cancelled \in BOOLEAN

\* The judge may be switched off.
Init ==
    /\ original \in [Sections -> Texts]
    /\ \/ phase = "reviewing" /\ judge = "unasked"
       \/ phase = "reusing" /\ judge = "off"
    /\ text = original
    /\ round = 0
    /\ issues = {}
    /\ todo = {}
    /\ busy = None
    /\ seen = original
    /\ translated = [s \in Sections |-> None]
    /\ pending = {}
    /\ cancelled = FALSE

-----------------------------------------------------------------------------
(* throwIfAborted, and calls of the model                                  *)

Calls(what) ==
    /\ busy = None /\ ~cancelled
    /\ busy' = what
    /\ UNCHANGED <<phase, cancelled>>

Answers(what, next) ==
    /\ busy = what
    /\ busy' = None
    /\ phase' = next
    /\ UNCHANGED cancelled

\* Before the next call, or at the end, the run finds itself cancelled.
Abandon ==
    /\ ~Ended /\ busy = None /\ cancelled
    /\ phase' = "failed"
    /\ UNCHANGED <<busy, cancelled, review, original, text, translated, pending>>

\* A call to the writer or the translator fails, as does one to the judge when the
\* job is cancelled or the message speaks of an abort: the error leaves generate.
CallThrows ==
    /\ ~Ended /\ busy # None
    /\ Answers(busy, "failed")
    /\ UNCHANGED <<review, original, text, translated, pending>>

Cancel ==
    /\ ~cancelled /\ ~Ended
    /\ cancelled' = TRUE
    /\ UNCHANGED <<phase, busy, review, original, text, translated, pending>>

-----------------------------------------------------------------------------
(* executeJudgeNode                                                        *)

Review ==
    /\ phase = "reviewing"
    /\ Calls("judge")
    /\ UNCHANGED <<review, original, text, translated, pending>>

ToRepair(found) == found \cap Sections

\* Variant: the rounds are not counted.
ConcludeUncounted(found) ==
    /\ issues' = found
    /\ Answers("judge", IF found # {} THEN "repairing" ELSE "reusing")
    /\ todo' = ToRepair(found)
    /\ UNCHANGED round

\* The loop's head, with the issues of the last review.
Conclude(found) ==
    /\ issues' = found
    /\ IF found # {} /\ round < MaxRounds
       THEN /\ Answers("judge", "repairing")
            /\ round' = round + 1
            /\ todo' = ToRepair(found)
       ELSE /\ Answers("judge", "reusing")
            /\ UNCHANGED <<round, todo>>

\* parseJudgeIssues and the dropped sections.
JudgeAnswers ==
    /\ \E named \in SUBSET (Sections \cup Unslotted) : Conclude(named \ Ignored)
    /\ judge' = "answered"
    /\ seen' = text
    /\ UNCHANGED <<original, text, translated, pending>>

\* Variant: without a new answer the last one counts.
JudgeFailsKeepingIssues ==
    /\ ~cancelled
    /\ Conclude(issues)
    /\ judge' = "failed"
    /\ UNCHANGED <<seen, original, text, translated, pending>>

\* A judge that fails has nothing to complain of.
JudgeFails ==
    /\ ~cancelled
    /\ Conclude({})
    /\ judge' = "failed"
    /\ UNCHANGED <<seen, original, text, translated, pending>>

Repair(s) ==
    /\ phase = "repairing" /\ s \in todo
    /\ Calls(s)
    /\ UNCHANGED <<review, original, text, translated, pending>>

\* The team may well write the same again.
RepairReturns(s, t) ==
    /\ phase = "repairing"
    /\ Answers(s, "repairing")
    /\ text' = [text EXCEPT ![s] = t]
    /\ todo' = todo \ {s}
    /\ UNCHANGED <<round, issues, judge, seen, original, translated, pending>>

\* Variant: the last round's repairs are not reviewed.
EndRoundEarly ==
    /\ phase = "repairing" /\ todo = {} /\ busy = None
    /\ phase' = IF round < MaxRounds THEN "reviewing" ELSE "reusing"
    /\ UNCHANGED <<busy, cancelled, review, original, text, translated, pending>>

EndRound ==
    /\ phase = "repairing" /\ todo = {} /\ busy = None
    /\ phase' = "reviewing"
    /\ UNCHANGED <<busy, cancelled, review, original, text, translated, pending>>

-----------------------------------------------------------------------------
(* buildTranslationReusePlan and the translations of executeAgentRuntime.   *)

\* Variant: a section changed if it was complained of last.
ChangedLately(s) == s \in issues

Changed(s) == original[s] # text[s]

\* The planner's translations are of the original sections.  (An empty one would be
\* pending too; runAgentText throws on an empty answer, so there is none.)
PlanTranslations ==
    /\ phase = "reusing"
    /\ phase' = "translating"
    /\ pending' = {s \in Sections : Changed(s)}
    /\ translated' = [s \in Sections |-> IF Changed(s) THEN None ELSE original[s]]
    /\ UNCHANGED <<busy, cancelled, review, original, text>>

Translate(s) ==
    /\ phase = "translating" /\ s \in pending
    /\ Calls(s)
    /\ UNCHANGED <<review, original, text, translated, pending>>

TranslationReturns(s) ==
    /\ phase = "translating"
    /\ Answers(s, "translating")
    /\ translated' = [translated EXCEPT ![s] = text[s]]
    /\ pending' = pending \ {s}
    /\ UNCHANGED <<review, original, text>>

\* Rendering, and the last check of the signal.
Return ==
    /\ phase = "translating" /\ pending = {} /\ busy = None /\ ~cancelled
    /\ phase' = "returned"
    /\ UNCHANGED <<busy, cancelled, review, original, text, translated, pending>>

-----------------------------------------------------------------------------
RunStep ==
    \/ Abandon \/ CallThrows \/ Review \/ JudgeAnswers \/ JudgeFails \/ EndRound
    \/ PlanTranslations \/ Return
    \/ \E s \in Sections : \/ Repair(s) \/ Translate(s) \/ TranslationReturns(s)
                           \/ \E t \in Texts : RepairReturns(s, t)

Next == RunStep \/ Cancel

Spec == Init /\ [][Next]_vars

\* Calls of the judge and the translator have a timer (runAgentText), those of the
\* team the agents SDK's.
FairSpec == Spec /\ WF_vars(RunStep)

-----------------------------------------------------------------------------
(* Properties.                                                             *)

\* A listing never has a section whose translation is of another text: not of the
\* one before the judge's repairs, nor of one in between.
TranslationsFit == phase = "returned" => \A s \in Sections : translated[s] = text[s]

\* The number of issues that the validation report gives is about the very sections
\* that are returned, unless the judge is off or failed in the end.
IssuesAreCurrent == phase = "returned" /\ judge = "answered" => seen = text

\* A section is written anew only because the judge, having read what it says now,
\* complained of it; never on an outdated or ignored complaint.
RepairsAreAskedFor ==
    [][\A s \in Sections :
           text'[s] # text[s] => judge = "answered" /\ s \in issues \ Ignored /\ seen[s] = text[s]]_vars

\* However the judge complains and the repairs turn out, the run ends.
PipelineEnds == <>Ended
==============================================================================
