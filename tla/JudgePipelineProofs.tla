------------------------ MODULE JudgePipelineProofs ------------------------
(***************************************************************************)
(* Proofs about JudgePipeline, for all sections, texts and rounds.         *)
(***************************************************************************)
EXTENDS JudgePipeline, TLAPS

\* What a round has still to repair was complained of, and says what the judge read.
TodoIsJudged ==
    phase = "repairing" =>
        /\ judge = "answered"
        /\ \A s \in todo : s \in issues /\ seen[s] = text[s]
        /\ \A s \in Sections : busy = s => s \in todo

\* Behind the judge, its last answer is about the sections as they are.
VerdictStands ==
    phase \in {"reusing", "translating", "returned"} /\ judge = "answered" => seen = text

\* What is not pending is translated.
OthersAreTranslated ==
    /\ phase \in {"translating", "returned"} =>
           \A s \in Sections \ pending : translated[s] = text[s]
    /\ phase = "returned" => pending = {}

PipelineInv == TypeOK /\ TodoIsJudged /\ VerdictStands /\ OthersAreTranslated

-----------------------------------------------------------------------------
LEMMA InvInit == Init => PipelineInv
<1>. SUFFICES ASSUME Init
              PROVE  PipelineInv
    OBVIOUS
<1>1. TypeOK
  <2>1. round \in 0..MaxRounds
      BY RoundsAssumption DEF Init
  <2>2. translated \in [Sections -> Texts \cup {None}]
      BY DEF Init
  <2>. QED BY <2>1, <2>2 DEF Init, TypeOK, Phases
<1>2. TodoIsJudged /\ VerdictStands /\ OthersAreTranslated
    BY DEF Init, TodoIsJudged, VerdictStands, OthersAreTranslated
<1>. QED BY <1>1, <1>2 DEF PipelineInv

LEMMA ConcludeKeepsTypes ==
    ASSUME TypeOK, NEW found \in SUBSET ((Sections \cup Unslotted) \ Ignored), Conclude(found)
    PROVE  /\ phase' \in {"repairing", "reusing"} /\ busy' = None
           /\ round' \in 0..MaxRounds
           /\ issues' = found /\ todo' \subseteq Sections /\ cancelled' = cancelled
           /\ phase' = "repairing" => todo' \subseteq found
<1>1. CASE found # {} /\ round < MaxRounds
    BY <1>1, RoundsAssumption DEF Conclude, Answers, ToRepair, TypeOK
<1>2. CASE ~(found # {} /\ round < MaxRounds)
    BY <1>2 DEF Conclude, Answers, TypeOK
<1>. QED BY <1>1, <1>2

\* After a review.
LEMMA ReviewKeepsInv ==
    ASSUME PipelineInv, JudgeAnswers \/ JudgeFails
    PROVE  PipelineInv' /\ text' = text
<1>0. TypeOK
    BY DEF PipelineInv
<1>1. CASE JudgeAnswers
  <2>1. PICK named \in SUBSET (Sections \cup Unslotted) : Conclude(named \ Ignored)
      BY <1>1 DEF JudgeAnswers
  <2>2. /\ phase' \in {"repairing", "reusing"} /\ busy' = None
        /\ round' \in 0..MaxRounds
        /\ issues' = named \ Ignored /\ todo' \subseteq Sections /\ cancelled' = cancelled
        /\ phase' = "repairing" => todo' \subseteq issues'
    <3>1. named \ Ignored \in SUBSET ((Sections \cup Unslotted) \ Ignored)
        BY <2>1
    <3>. QED BY <1>0, <2>1, <3>1, ConcludeKeepsTypes
  <2>3. /\ judge' = "answered" /\ seen' = text
        /\ UNCHANGED <<original, text, translated, pending>>
      BY <1>1 DEF JudgeAnswers
  <2>4. TypeOK'
      BY <1>0, <2>2, <2>3 DEF TypeOK, Phases
  <2>5. TodoIsJudged'
      BY <2>2, <2>3, NoneAssumption DEF TodoIsJudged
  <2>6. VerdictStands' /\ OthersAreTranslated'
      BY <2>2, <2>3 DEF VerdictStands, OthersAreTranslated
  <2>. QED BY <2>3, <2>4, <2>5, <2>6 DEF PipelineInv
<1>2. CASE JudgeFails
  <2>1. /\ phase' = "reusing" /\ busy' = None /\ round' = round /\ todo' = todo
        /\ issues' = {} /\ cancelled' = cancelled /\ judge' = "failed"
        /\ UNCHANGED <<seen, original, text, translated, pending>>
      BY <1>2 DEF JudgeFails, Conclude, Answers
  <2>2. TypeOK'
      BY <1>0, <2>1 DEF TypeOK, Phases
  <2>3. TodoIsJudged' /\ VerdictStands' /\ OthersAreTranslated'
      BY <2>1 DEF TodoIsJudged, VerdictStands, OthersAreTranslated
  <2>. QED BY <2>1, <2>2, <2>3 DEF PipelineInv
<1>. QED BY <1>1, <1>2

\* A repair changes a section the judge has read and complained of.
LEMMA RepairKeepsInv ==
    ASSUME PipelineInv, NEW s \in Sections, NEW t \in Texts, RepairReturns(s, t)
    PROVE  /\ PipelineInv'
           /\ judge = "answered" /\ s \in issues \ Ignored /\ seen[s] = text[s]
           /\ \A q \in Sections : q # s => text'[q] = text[q]
<1>0. TypeOK /\ TodoIsJudged
    BY DEF PipelineInv
<1>1. /\ phase = "repairing" /\ phase' = "repairing" /\ busy = s /\ busy' = None
      /\ text' = [text EXCEPT ![s] = t] /\ todo' = todo \ {s}
      /\ UNCHANGED <<cancelled, round, issues, judge, seen, original, translated, pending>>
    BY DEF RepairReturns, Answers
<1>2. judge = "answered" /\ s \in todo /\ s \in issues /\ seen[s] = text[s]
    BY <1>0, <1>1 DEF TodoIsJudged
<1>3. \A q \in Sections : q # s => text'[q] = text[q]
    BY <1>0, <1>1 DEF TypeOK
<1>4. s \notin Ignored
    BY <1>0, <1>2 DEF TypeOK
<1>5. TypeOK'
    BY <1>0, <1>1 DEF TypeOK
<1>6. TodoIsJudged'
  <2>1. \A q \in todo' : q \in issues' /\ seen'[q] = text'[q]
      BY <1>0, <1>1, <1>3 DEF TodoIsJudged, TypeOK
  <2>2. \A q \in Sections : busy' # q
      BY <1>1, NoneAssumption
  <2>. QED BY <1>1, <1>2, <2>1, <2>2 DEF TodoIsJudged
<1>7. VerdictStands' /\ OthersAreTranslated'
    BY <1>1 DEF VerdictStands, OthersAreTranslated
<1>. QED BY <1>2, <1>3, <1>4, <1>5, <1>6, <1>7 DEF PipelineInv

\* Everything else leaves the sections alone.
LEMMA OthersKeepInv ==
    ASSUME PipelineInv,
           \/ Abandon \/ CallThrows \/ Cancel \/ Review \/ EndRound \/ PlanTranslations \/ Return
           \/ \E s \in Sections : Repair(s) \/ Translate(s) \/ TranslationReturns(s)
           \/ UNCHANGED vars
    PROVE  PipelineInv' /\ text' = text
<1>. USE DEF PipelineInv, TypeOK, Phases, TodoIsJudged, VerdictStands, OthersAreTranslated, review
<1>1. CASE Abandon
    BY <1>1 DEF Abandon
<1>2. CASE CallThrows
    BY <1>2 DEF CallThrows, Answers
<1>3. CASE Cancel
    BY <1>3 DEF Cancel
<1>4. CASE Review
    BY <1>4 DEF Review, Calls
<1>5. CASE EndRound
    BY <1>5 DEF EndRound
<1>6. CASE PlanTranslations
  <2>1. /\ phase = "reusing" /\ phase' = "translating"
        /\ pending' = {s \in Sections : Changed(s)}
        /\ translated' = [s \in Sections |-> IF Changed(s) THEN None ELSE original[s]]
        /\ UNCHANGED <<busy, cancelled, round, issues, todo, judge, seen, original, text>>
      BY <1>6 DEF PlanTranslations
  <2>2. \A s \in Sections \ pending' : translated'[s] = text[s]
      BY <2>1 DEF Changed
  <2>. QED BY <2>1, <2>2
<1>7. CASE Return
    BY <1>7 DEF Return
<1>8. ASSUME NEW s \in Sections, Repair(s)
      PROVE  PipelineInv' /\ text' = text
    BY <1>8 DEF Repair, Calls
<1>9. ASSUME NEW s \in Sections, Translate(s)
      PROVE  PipelineInv' /\ text' = text
    BY <1>9 DEF Translate, Calls
<1>10. ASSUME NEW s \in Sections, TranslationReturns(s)
       PROVE  PipelineInv' /\ text' = text
    BY <1>10 DEF TranslationReturns, Answers
<1>11. CASE UNCHANGED vars
    BY <1>11 DEF vars, control
<1>. QED BY <1>1, <1>2, <1>3, <1>4, <1>5, <1>6, <1>7, <1>8, <1>9, <1>10, <1>11

LEMMA InvStep == PipelineInv /\ [Next]_vars => PipelineInv'
BY ReviewKeepsInv, RepairKeepsInv, OthersKeepInv DEF Next, RunStep

LEMMA SpecKeepsInv == Spec => []PipelineInv
BY InvInit, InvStep, PTL DEF Spec

\* Every state of a run is well typed; in particular the rounds never exceed
\* judge.max_rounds and only sections with a slot are repaired.
THEOREM PipelineTypesCorrect == Spec => []TypeOK
<1>1. PipelineInv => TypeOK
    BY DEF PipelineInv
<1>. QED BY <1>1, SpecKeepsInv, PTL

\* Every translation in a listing is of the text beside it, however often sections
\* were repaired, and back, between planner and return.
THEOREM TranslationsAlwaysFit == Spec => []TranslationsFit
<1>1. PipelineInv => TranslationsFit
    BY DEF PipelineInv, OthersAreTranslated, TranslationsFit
<1>. QED BY <1>1, SpecKeepsInv, PTL

\* The reported number of issues is the judge's verdict on what is returned.
THEOREM IssuesStayCurrent == Spec => []IssuesAreCurrent
<1>1. PipelineInv => IssuesAreCurrent
    BY DEF PipelineInv, VerdictStands, IssuesAreCurrent
<1>. QED BY <1>1, SpecKeepsInv, PTL

\* The text of a section changes only on a current complaint of the judge.
THEOREM RepairsAreJudged == Spec => RepairsAreAskedFor
<1>. DEFINE Asked == \A s \in Sections :
                        text'[s] # text[s] =>
                            judge = "answered" /\ s \in issues \ Ignored /\ seen[s] = text[s]
<1>1. PipelineInv /\ [Next]_vars => [Asked]_vars
    BY ReviewKeepsInv, RepairKeepsInv, OthersKeepInv DEF Next, RunStep
<1>. QED BY <1>1, SpecKeepsInv, PTL DEF Spec, RepairsAreAskedFor
-----------------------------------------------------------------------------
(* Why a run ends: no step repeats what was done.                          *)

\* The call under way fits the phase: it is the judge's, or about a section that
\* the phase has still to do.
CallsFit ==
    /\ phase = "reviewing" => busy \in {None, "judge"}
    /\ phase = "repairing" => busy \in todo \cup {None}
    /\ phase = "translating" => busy \in pending \cup {None}
    /\ phase \in {"reusing", "returned", "failed"} => busy = None

LEMMA CallsFitStep == PipelineInv /\ CallsFit /\ [Next]_vars => CallsFit'
<1>. SUFFICES ASSUME PipelineInv, CallsFit, [Next]_vars
              PROVE  CallsFit'
    OBVIOUS
<1>. USE NoneAssumption DEF CallsFit, review
<1>1. CASE JudgeAnswers \/ JudgeFails
  <2>1. phase' \in {"repairing", "reusing"} /\ busy' = None
      BY <1>1 DEF JudgeAnswers, JudgeFails, Conclude, Answers
  <2>. QED BY <2>1
<1>2. CASE Abandon \/ CallThrows \/ Cancel \/ Review
    BY <1>2 DEF Abandon, CallThrows, Cancel, Review, Calls, Answers
<1>3. CASE EndRound \/ PlanTranslations \/ Return
    BY <1>3 DEF EndRound, PlanTranslations, Return
<1>4. ASSUME NEW s \in Sections, Repair(s) \/ Translate(s) \/ TranslationReturns(s)
      PROVE  CallsFit'
    BY <1>4 DEF Repair, Translate, TranslationReturns, Calls, Answers
<1>5. ASSUME NEW s \in Sections, NEW t \in Texts, RepairReturns(s, t)
      PROVE  CallsFit'
    BY <1>5 DEF RepairReturns, Answers
<1>6. CASE UNCHANGED vars
    BY <1>6 DEF vars, control
<1>. QED BY <1>1, <1>2, <1>3, <1>4, <1>5, <1>6 DEF Next, RunStep

\* What a phase has before it.
Left == [repairing |-> 4, reviewing |-> 3, reusing |-> 2, translating |-> 1,
         returned |-> 0, failed |-> 0]

\* A step begins a further round, leaves a phase for good, finishes a section, sends
\* a call or cancels the job, and undoes nothing that ranks before that.
Advances ==
    \/ round' > round
    \/ round' = round /\ Left[phase'] < Left[phase]
    \/ /\ UNCHANGED <<round, phase>>
       /\ \/ todo' \subseteq todo /\ todo' # todo /\ UNCHANGED pending
          \/ pending' \subseteq pending /\ pending' # pending /\ UNCHANGED todo
          \/ UNCHANGED <<todo, pending>> /\ busy = None /\ busy' # None
          \/ UNCHANGED <<todo, pending, busy>> /\ ~cancelled /\ cancelled'

LEMMA StepAdvances == PipelineInv /\ CallsFit /\ Next => Advances
<1>. SUFFICES ASSUME PipelineInv, CallsFit, Next
              PROVE  Advances
    OBVIOUS
<1>. USE NoneAssumption DEF PipelineInv, TypeOK, Phases, Ended, Left, Advances, review
<1>1. CASE JudgeAnswers \/ JudgeFails
  <2>1. PICK found : Conclude(found)
      BY <1>1 DEF JudgeAnswers, JudgeFails
  <2>2. phase = "reviewing" /\ round \in Nat
      BY <2>1, RoundsAssumption DEF Conclude, Answers, CallsFit
  <2>3. CASE found # {} /\ round < MaxRounds
      BY <2>1, <2>2, <2>3 DEF Conclude
  <2>4. CASE ~(found # {} /\ round < MaxRounds)
      BY <2>1, <2>2, <2>4 DEF Conclude, Answers
  <2>. QED BY <2>3, <2>4
<1>2. CASE Abandon \/ CallThrows
    BY <1>2 DEF Abandon, CallThrows, Answers
<1>3. CASE Cancel \/ Review
    BY <1>3 DEF Cancel, Review, Calls
<1>4. CASE EndRound \/ PlanTranslations \/ Return
    BY <1>4 DEF EndRound, PlanTranslations, Return
<1>5. ASSUME NEW s \in Sections, Repair(s) \/ Translate(s)
      PROVE  Advances
    BY <1>5 DEF Repair, Translate, Calls
<1>6. ASSUME NEW s \in Sections, TranslationReturns(s)
      PROVE  Advances
    BY <1>6 DEF TranslationReturns, Answers, CallsFit
<1>7. ASSUME NEW s \in Sections, NEW t \in Texts, RepairReturns(s, t)
      PROVE  Advances
    BY <1>7 DEF RepairReturns, Answers, CallsFit
<1>. QED BY <1>1, <1>2, <1>3, <1>4, <1>5, <1>6, <1>7 DEF Next, RunStep

\* The run of executeJudgeNode and of the translations after it makes no step twice,
\* however the judge complains: as the rounds are bounded and the sections finite,
\* it can make only finitely many.
THEOREM RunsAdvance == Spec => [][Advances]_vars
<1>1. Init => CallsFit
    BY DEF Init, CallsFit
<1>2. PipelineInv /\ CallsFit /\ [Next]_vars => [Advances]_vars
    BY StepAdvances
<1>. QED BY <1>1, <1>2, SpecKeepsInv, CallsFitStep, PTL DEF Spec
=============================================================================
