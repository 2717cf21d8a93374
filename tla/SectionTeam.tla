---------------------------- MODULE SectionTeam ----------------------------
(***************************************************************************)
(* One candidate of a section: generateSectionWithAgentTeam of             *)
(* services/llm-client.ts inside the generateSection callback of           *)
(* GenerationService.executeAgentRuntime.                                  *)
(*                                                                         *)
(* An attempt asks the team once and validates its text.  While the text   *)
(* is invalid, a repair round sends two calls that both start from it, and *)
(* goes on with the better result, whatever the other call does.  An       *)
(* attempt that fails is repeated by withRetry, with the errors of the     *)
(* last text that failed in its prompt.  Bullets that are still invalid    *)
(* after the last attempt are repaired line by line (BulletRepair).        *)
(*                                                                         *)
(* The run of the job and the planner may stop the candidate at any time,  *)
(* each with a signal of its own.                                          *)
(***************************************************************************)
EXTENDS Naturals

CONSTANTS
    Texts,        (* contents, after normalisation                         *)
    Score,        (* scoreRepairValidation of each                         *)
    Attempts,     (* attempts of withRetry                                 *)
    Rounds,       (* maxRepairFallbackRounds of the section                *)
    ItemRepair,   (* the section is repaired item by item (bullets)        *)
    None          (* no text yet                                           *)

ASSUME TextAssumption  == Score \in [Texts -> Nat] /\ None \notin Texts
ASSUME BoundAssumption == Attempts \in Nat \ {0} /\ Rounds \in Nat \ {0}
ASSUME KindAssumption  == ItemRepair \in BOOLEAN

VARIABLES
    pc,           (* where the candidate is                                *)
    attempt,      (* attempts begun                                        *)
    cut,          (* the attempt or round began under an aborted signal    *)
    text,         (* text: the last one validated in this attempt          *)
    round,        (* repairRound, 0 before the first                       *)
    calls,        (* the two calls of the round                            *)
    feedback,     (* retryValidationErrors: the text they are the errors of *)
    error,        (* what the attempt threw                                *)
    result,       (* what the candidate returned                           *)
    cancelled,    (* abortSignal: the job is cancelled                     *)
    aborted,      (* executionController.signal: the planner gave up       *)
    seen,         (* history: every text validated so far                  *)
    late          (* history: attempts begun under an aborted signal       *)

vars == <<pc, attempt, cut, text, round, calls, feedback, error, result,
          cancelled, aborted, seen, late>>

-----------------------------------------------------------------------------
Pair == {1, 2}
Call == [state : {"answered"}, text : Texts]
        \cup [state : {"idle", "calling", "failed"}, text : {None}]
NoCall == [state |-> "idle", text |-> None]
Errors == {"none", "abort", "invalid", "other"}
Places == {"entry", "round", "backoff", "items", "returned", "threw"}

TypeOK ==
    /\ pc \in Places
    /\ attempt \in 1..Attempts
    /\ cut \in BOOLEAN
    /\ text \in Texts \cup {None}
    /\ round \in 0..Rounds
    /\ calls \in [Pair -> Call]
    /\ feedback \in Texts \cup {None}
    /\ error \in Errors
    /\ result \in Texts \cup {None}
    /\ cancelled \in BOOLEAN
    /\ aborted \in BOOLEAN
    /\ seen \subseteq Texts
    /\ late \in Nat

\* No errors, no penalty; every error costs 10 000 or more.
Valid(t) == Score[t] = 0

\* linkAbortSignals: either signal stops the calls of an attempt.
Stopped == cancelled \/ aborted

\* The planner starts all candidates in one tick, before it can have aborted.
Init ==
    /\ cancelled \in BOOLEAN
    /\ aborted = FALSE
    /\ pc = "entry"
    /\ attempt = 1
    /\ cut = cancelled
    /\ text = None
    /\ round = 0
    /\ calls = [i \in Pair |-> NoCall]
    /\ feedback = None
    /\ error = "none"
    /\ result = None
    /\ seen = {}
    /\ late = 0

-----------------------------------------------------------------------------
(* The signals.                                                            *)

Cancel ==
    /\ ~cancelled
    /\ cancelled' = TRUE
    /\ UNCHANGED <<pc, attempt, cut, text, round, calls, feedback, error, result,
                   aborted, seen, late>>

\* Another section has failed.
Abort ==
    /\ ~aborted
    /\ aborted' = TRUE
    /\ UNCHANGED <<pc, attempt, cut, text, round, calls, feedback, error, result,
                   cancelled, seen, late>>

-----------------------------------------------------------------------------
(* The end of an attempt.                                                  *)

\* Variant: every error is tried again while attempts are left.
RetriesWhateverFailed(e) == attempt < Attempts

\* Variant: the planner's abort is not asked.
RetriesWhoeverAborted(e) == e # "abort" /\ attempt < Attempts

\* withRetry and its shouldRetry: an error that looks like an abort ends the
\* loop, and so does the planner's abort; a cancelled job alone does not.
Retries(e) == e # "abort" /\ attempt < Attempts /\ ~aborted

\* The attempt throws e.  After the last one bullets that failed validation get
\* another chance.
Throw(e) ==
    /\ error' = e
    /\ pc' = CASE Retries(e) -> "backoff"
               [] ~Retries(e) /\ e = "invalid" /\ ItemRepair -> "items"
               [] OTHER -> "threw"
    /\ UNCHANGED <<attempt, cut, result, cancelled, aborted, late>>

Return(t) ==
    /\ pc' = "returned"
    /\ result' = t
    /\ UNCHANGED <<attempt, cut, error, cancelled, aborted, late>>

\* A round of repairs: both calls start from the same text in the same tick.
BeginRound(r) ==
    /\ pc' = "round"
    /\ round' = r
    /\ cut' = Stopped
    /\ calls' = [i \in Pair |-> [state |-> "calling", text |-> None]]
    /\ UNCHANGED <<attempt, feedback, error, result, cancelled, aborted, late>>

\* Variant: the last round's text is returned unseen.
GoOnTrusting(t) ==
    \/ /\ Valid(t) \/ round = Rounds
       /\ Return(t)
       /\ UNCHANGED <<round, calls, feedback>>
    \/ ~Valid(t) /\ round < Rounds /\ BeginRound(round + 1)

\* With a validated text: return it, repair it, or throw its errors and keep
\* them for the next attempt's prompt.
GoOn(t) ==
    \/ Valid(t) /\ Return(t) /\ UNCHANGED <<round, calls, feedback>>
    \/ ~Valid(t) /\ round < Rounds /\ BeginRound(round + 1)
    \/ /\ ~Valid(t) /\ round = Rounds
       /\ feedback' = t
       /\ Throw("invalid")
       /\ UNCHANGED <<round, calls>>

-----------------------------------------------------------------------------
(* An attempt.                                                             *)

\* The team's text, validated.
EntryAnswers(t) ==
    /\ pc = "entry"
    /\ ~cut
    /\ text' = t
    /\ seen' = seen \cup {t}
    /\ GoOn(t)

\* An empty text, a failed call or one that was stopped.  A call that begins
\* under an aborted signal is refused with an error that says so.
EntryFails(e) ==
    /\ pc = "entry"
    /\ cut => e = "abort"
    /\ Throw(e)
    /\ UNCHANGED <<text, round, calls, feedback, seen>>

\* A repair call answers and its text is validated and scored.
RepairAnswers(i, t) ==
    /\ pc = "round"
    /\ ~cut
    /\ calls[i].state = "calling"
    /\ calls' = [calls EXCEPT ![i] = [state |-> "answered", text |-> t]]
    /\ seen' = seen \cup {t}
    /\ UNCHANGED <<pc, attempt, cut, text, round, feedback, error, result,
                   cancelled, aborted, late>>

RepairFails(i) ==
    /\ pc = "round"
    /\ calls[i].state = "calling"
    /\ calls' = [calls EXCEPT ![i] = [state |-> "failed", text |-> None]]
    /\ UNCHANGED <<pc, attempt, cut, text, round, feedback, error, result,
                   cancelled, aborted, seen, late>>

\* Variant: Promise.all without a look at the rejections.
BothAnswered == pc = "round" /\ \A i \in Pair : calls[i].state = "answered"

\* Promise.allSettled of the two calls.
RoundSettled == pc = "round" /\ \A i \in Pair : calls[i].state \in {"answered", "failed"}

Answered == {i \in Pair : calls[i].state = "answered"}

\* Variant: the first candidate that answered.
FirstAnswer(i) == \A j \in Answered : i <= j

\* The lowest score, then the lower index.
Best(i) ==
    \A j \in Answered :
        \/ Score[calls[i].text] < Score[calls[j].text]
        \/ Score[calls[i].text] = Score[calls[j].text] /\ i <= j

\* The best answer is the next text, even one worse than the text it was to
\* repair.
RoundChooses ==
    /\ RoundSettled
    /\ \E i \in Answered :
        /\ Best(i)
        /\ text' = calls[i].text
        /\ GoOn(calls[i].text)
    /\ UNCHANGED seen

\* No call answered: "section agent team repair output empty", whatever the
\* reason was.
RoundFails ==
    /\ RoundSettled
    /\ Answered = {}
    /\ Throw("other")
    /\ UNCHANGED <<text, round, calls, feedback, seen>>

\* The sleep of withRetry ends; nobody looked at the signals meanwhile.
NextAttempt ==
    /\ pc = "backoff"
    /\ pc' = "entry"
    /\ attempt' = attempt + 1
    /\ cut' = Stopped
    /\ text' = None
    /\ round' = 0
    /\ calls' = [i \in Pair |-> NoCall]
    /\ late' = IF Stopped THEN late + 1 ELSE late
    /\ UNCHANGED <<feedback, error, result, cancelled, aborted, seen>>

\* repairBulletItems reports a content and its errors: accepted without errors.
ItemsRepaired(t) ==
    /\ pc = "items"
    /\ Valid(t)
    /\ Return(t)
    /\ UNCHANGED <<text, round, calls, feedback, seen>>

ItemsFail ==
    /\ pc = "items"
    /\ pc' = "threw"
    /\ UNCHANGED <<attempt, cut, text, round, calls, feedback, error, result,
                   cancelled, aborted, seen, late>>

-----------------------------------------------------------------------------
Entry == (\E t \in Texts : EntryAnswers(t)) \/ (\E e \in {"abort", "other"} : EntryFails(e))
Repair(i) == (\E t \in Texts : RepairAnswers(i, t)) \/ RepairFails(i)
Round == RoundChooses \/ RoundFails
Items == (\E t \in Texts : ItemsRepaired(t)) \/ ItemsFail

Next ==
    \/ Cancel \/ Abort
    \/ Entry
    \/ \E i \in Pair : Repair(i)
    \/ Round
    \/ NextAttempt
    \/ Items

Spec == Init /\ [][Next]_vars

\* Calls answer or fail and sleeps end; no signal has to come.
Fairness ==
    /\ WF_vars(Entry)
    /\ \A i \in Pair : WF_vars(Repair(i))
    /\ WF_vars(Round)
    /\ WF_vars(NextAttempt)
    /\ WF_vars(Items)

FairSpec == Spec /\ Fairness

-----------------------------------------------------------------------------
(* Properties.                                                             *)

\* What the candidate returns has passed the validation, whichever of the team,
\* a repair round or the item repair made it and however often it was tried.
ReturnedIsValid == pc = "returned" => result \in Texts /\ Valid(result)

\* A valid text is never lost: once one call has produced it the candidate only
\* awaits the other call of the round, and then returns, even if that call fails
\* and even if both signals were aborted meanwhile.
ValidIsNotLost ==
    (\E t \in seen : Valid(t)) =>
        \/ pc = "returned"
        \/ pc = "round" /\ \E i \in Answered : Valid(calls[i].text)

\* A candidate that was stopped gives up: the error of a repair round hides the
\* abort and the sleep of withRetry ignores it, but together they cost at most
\* one further attempt, which calls no model.
StoppedSoon == late <= 1

\* Whatever happens, the candidate settles.
CandidateEnds == <>(pc \in {"returned", "threw"})

\* An attempt with all its repair rounds is what SectionPlanner takes for one
\* call: the candidate, next to another section whose failure aborts it, makes
\* only steps that SectionPlanner allows.
This == "this"
Other == "other"
Both == {This, Other}
Candidate ==
    CASE pc = "entry" /\ cut -> "cut"
      [] pc = "entry" /\ ~cut -> "calling"
      [] pc = "round" -> "calling"
      [] pc = "backoff" -> "backoff"
      [] pc = "items" -> "repairing"
      [] pc = "returned" -> "ok"
      [] pc = "threw" -> "failed"
Planner == INSTANCE SectionPlanner WITH
    Sections <- Both,
    GroupOf <- [s \in Both |-> 1],
    Groups <- 1,
    Derived <- {Other},
    CandidateCount <- [s \in Both |-> 1],
    MaxCandidates <- 1,
    ItemRepair <- IF ItemRepair THEN {This} ELSE {},
    Tries <- Attempts,
    MaxRuns <- 1,
    None <- "none",
    saved <- [s \in Both |-> "none"],
    sections <- [s \in Both |-> "none"],
    run <- 1,
    phase <- "sections",
    group <- 1,
    task <- [s \in Both |-> IF s = Other /\ aborted THEN "failed" ELSE "working"],
    cand <- [s \in Both |-> [i \in 1..1 |-> IF s = This THEN Candidate ELSE "idle"]],
    tries <- [s \in Both |-> [i \in 1..1 |-> IF s = This THEN attempt ELSE 1]],
    failure <- IF aborted THEN Other ELSE "none",
    translating <- {}
ImplementsCandidate == [][Planner!Next]_(Planner!vars)
=============================================================================
