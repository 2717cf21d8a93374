------------------------- MODULE SectionTeamProofs -------------------------
(* Proofs about SectionTeam, for any texts, scores, attempts and rounds.    *)
EXTENDS SectionTeam, TLAPS

\* What an action does to the places, texts and histories that the invariants
\* speak of, once for the definitions that several actions share.
LEMMA ThrowFacts ==
    ASSUME NEW e, Throw(e)
    PROVE  /\ error' = e
           /\ pc' \in {"backoff", "items", "threw"}
           /\ pc' = "backoff" => e # "abort" /\ attempt < Attempts /\ ~aborted
           /\ pc' = "items" => e = "invalid"
           /\ UNCHANGED <<attempt, cut, result, cancelled, aborted, late>>
BY DEF Throw, Retries

\* The three ways to go on from a validated text.
LEMMA GoOnCases ==
    ASSUME NEW t, GoOn(t)
    PROVE  \/ Valid(t) /\ Return(t) /\ UNCHANGED <<round, calls, feedback>>
           \/ ~Valid(t) /\ round < Rounds /\ BeginRound(round + 1)
           \/ /\ ~Valid(t) /\ round = Rounds /\ feedback' = t
              /\ Throw("invalid") /\ UNCHANGED <<round, calls>>
BY DEF GoOn

-----------------------------------------------------------------------------
(* Types.                                                                  *)

LEMMA GoOnTypes ==
    ASSUME TypeOK, NEW t \in Texts, GoOn(t)
    PROVE  /\ pc' \in Places
           /\ attempt' \in 1..Attempts
           /\ cut' \in BOOLEAN
           /\ round' \in 0..Rounds
           /\ calls' \in [Pair -> Call]
           /\ feedback' \in Texts \cup {None}
           /\ error' \in Errors
           /\ result' \in Texts \cup {None}
           /\ UNCHANGED <<cancelled, aborted, late>>
<1>1. CASE Return(t) /\ UNCHANGED <<round, calls, feedback>>
  BY <1>1 DEF Return, TypeOK, Places, Call
<1>2. CASE round < Rounds /\ BeginRound(round + 1)
  <2>1. [state |-> "calling", text |-> None] \in Call
    BY DEF Call
  <2>2. calls' \in [Pair -> Call]
    BY <1>2, <2>1 DEF BeginRound
  <2>3. round' \in 0..Rounds
    BY <1>2, BoundAssumption DEF BeginRound, TypeOK
  <2>4. QED
    BY <1>2, <2>2, <2>3 DEF BeginRound, TypeOK, Places, Stopped
<1>3. CASE feedback' = t /\ Throw("invalid") /\ UNCHANGED <<round, calls>>
  <2>1. pc' \in Places
    BY <1>3, ThrowFacts DEF Places
  <2>2. error' \in Errors
    BY <1>3, ThrowFacts DEF Errors
  <2>3. UNCHANGED <<attempt, cut, result, cancelled, aborted, late>>
    BY <1>3, ThrowFacts
  <2>4. QED
    BY <1>3, <2>1, <2>2, <2>3 DEF TypeOK, Call
<1>4. QED
  BY <1>1, <1>2, <1>3, GoOnCases

\* withRetry sleeps only while attempts are left.
Sleeping == pc = "backoff" => attempt < Attempts

\* Every step leaves every variable in its type.
LEMMA TypeStep == TypeOK /\ Sleeping /\ [Next]_vars => TypeOK'
<1> SUFFICES ASSUME TypeOK, Sleeping, [Next]_vars PROVE TypeOK'
  OBVIOUS
<1>1. CASE Cancel
  BY <1>1 DEF Cancel, TypeOK
<1>2. CASE Abort
  BY <1>2 DEF Abort, TypeOK
<1>3. ASSUME NEW t \in Texts, EntryAnswers(t) PROVE TypeOK'
  <2>1. text' \in Texts \cup {None} /\ seen' \subseteq Texts
    BY <1>3 DEF EntryAnswers, TypeOK
  <2>2. GoOn(t)
    BY <1>3 DEF EntryAnswers
  <2>3. QED
    BY <2>1, <2>2, GoOnTypes DEF TypeOK, Call
<1>4. ASSUME NEW e \in {"abort", "other"}, EntryFails(e) PROVE TypeOK'
  <2>1. Throw(e) /\ UNCHANGED <<text, round, calls, feedback, seen>>
    BY <1>4 DEF EntryFails
  <2>2. pc' \in Places /\ error' \in Errors
    BY <2>1, ThrowFacts DEF Places, Errors
  <2>3. UNCHANGED <<attempt, cut, result, cancelled, aborted, late>>
    BY <2>1, ThrowFacts
  <2>4. QED
    BY <2>1, <2>2, <2>3 DEF TypeOK
<1>5. ASSUME NEW i \in Pair, NEW t \in Texts, RepairAnswers(i, t) PROVE TypeOK'
  BY <1>5 DEF RepairAnswers, TypeOK, Call
<1>6. ASSUME NEW i \in Pair, RepairFails(i) PROVE TypeOK'
  BY <1>6 DEF RepairFails, TypeOK, Call
<1>7. CASE RoundChooses
  <2>1. PICK i \in Answered : text' = calls[i].text /\ GoOn(calls[i].text)
    BY <1>7 DEF RoundChooses
  <2>2. UNCHANGED seen
    BY <1>7 DEF RoundChooses
  <2>3. i \in Pair /\ calls[i].text \in Texts
    BY <2>1 DEF Answered, TypeOK, Call
  <2>4. QED
    BY <2>1, <2>2, <2>3, GoOnTypes DEF TypeOK
<1>8. CASE RoundFails
  <2>1. Throw("other") /\ UNCHANGED <<text, round, calls, feedback, seen>>
    BY <1>8 DEF RoundFails
  <2>2. pc' \in Places /\ error' \in Errors
    BY <2>1, ThrowFacts DEF Places, Errors
  <2>3. UNCHANGED <<attempt, cut, result, cancelled, aborted, late>>
    BY <2>1, ThrowFacts
  <2>4. QED
    BY <2>1, <2>2, <2>3 DEF TypeOK
<1>9. CASE NextAttempt
  <2>1. NoCall \in Call
    BY DEF NoCall, Call
  <2>2. calls' \in [Pair -> Call]
    BY <1>9, <2>1 DEF NextAttempt
  <2>3. Attempts \in Nat /\ Rounds \in Nat
    BY BoundAssumption
  <2>4. attempt' \in 1..Attempts
    BY <1>9, <2>3 DEF NextAttempt, Sleeping, TypeOK
  <2>5. round' \in 0..Rounds
    BY <1>9, <2>3 DEF NextAttempt
  <2>6. late' \in Nat
    BY <1>9 DEF NextAttempt, TypeOK
  <2>7. cut' \in BOOLEAN
    BY <1>9 DEF NextAttempt, Stopped, TypeOK
  <2>8. pc' \in Places /\ text' \in Texts \cup {None}
    BY <1>9 DEF NextAttempt, Places
  <2>9. QED
    BY <1>9, <2>2, <2>4, <2>5, <2>6, <2>7, <2>8 DEF NextAttempt, TypeOK
<1>10. ASSUME NEW t \in Texts, ItemsRepaired(t) PROVE TypeOK'
  BY <1>10 DEF ItemsRepaired, Return, TypeOK, Places
<1>11. CASE ItemsFail
  BY <1>11 DEF ItemsFail, TypeOK, Places
<1>12. CASE UNCHANGED vars
  BY <1>12 DEF vars, TypeOK
<1>13. QED
  BY <1>1, <1>2, <1>3, <1>4, <1>5, <1>6, <1>7, <1>8, <1>9, <1>10, <1>11, <1>12
     DEF Next, Entry, Repair, Round, Items

LEMMA GoOnSleeps ==
    ASSUME NEW t, GoOn(t)
    PROVE  Sleeping'
<1>1. CASE Return(t)
  BY <1>1 DEF Return, Sleeping
<1>2. CASE BeginRound(round + 1)
  BY <1>2 DEF BeginRound, Sleeping
<1>3. CASE Throw("invalid")
  BY <1>3, ThrowFacts DEF Sleeping
<1>4. QED
  BY <1>1, <1>2, <1>3, GoOnCases

LEMMA SleepStep == Sleeping /\ [Next]_vars => Sleeping'
<1> SUFFICES ASSUME Sleeping, [Next]_vars PROVE Sleeping'
  OBVIOUS
<1>1. CASE Cancel \/ Abort
  BY <1>1 DEF Cancel, Abort, Sleeping
<1>2. ASSUME NEW t \in Texts, EntryAnswers(t) PROVE Sleeping'
  BY <1>2, GoOnSleeps DEF EntryAnswers
<1>3. ASSUME NEW e \in {"abort", "other"}, EntryFails(e) PROVE Sleeping'
  BY <1>3, ThrowFacts DEF EntryFails, Sleeping
<1>4. ASSUME NEW i \in Pair, Repair(i) PROVE Sleeping'
  BY <1>4 DEF Repair, RepairAnswers, RepairFails, Sleeping
<1>5. CASE RoundChooses
  BY <1>5, GoOnSleeps DEF RoundChooses
<1>6. CASE RoundFails
  BY <1>6, ThrowFacts DEF RoundFails, Sleeping
<1>7. CASE NextAttempt
  BY <1>7 DEF NextAttempt, Sleeping
<1>8. CASE Items
  BY <1>8 DEF Items, ItemsRepaired, ItemsFail, Return, Sleeping
<1>9. CASE UNCHANGED vars
  BY <1>9 DEF vars, Sleeping
<1>10. QED
  BY <1>1, <1>2, <1>3, <1>4, <1>5, <1>6, <1>7, <1>8, <1>9 DEF Next, Entry, Round

LEMMA Typed == Spec => [](TypeOK /\ Sleeping)
<1>1. Init => TypeOK /\ Sleeping
  <2>1. 1 \in 1..Attempts /\ 0 \in 0..Rounds
    BY BoundAssumption
  <2>2. NoCall \in Call
    BY DEF NoCall, Call
  <2>3. ASSUME Init PROVE calls \in [Pair -> Call]
    BY <2>2, <2>3 DEF Init
  <2>4. ASSUME Init PROVE cut \in BOOLEAN /\ cancelled \in BOOLEAN /\ aborted \in BOOLEAN
    BY <2>4 DEF Init
  <2>5. ASSUME Init PROVE pc \in Places /\ error \in Errors /\ Sleeping
    BY <2>5 DEF Init, Places, Errors, Sleeping
  <2>6. ASSUME Init
        PROVE  /\ attempt = 1 /\ round = 0 /\ late = 0 /\ seen = {}
               /\ text = None /\ feedback = None /\ result = None
    BY <2>6 DEF Init
  <2>7. QED
    BY <2>1, <2>3, <2>4, <2>5, <2>6 DEF TypeOK
<1>2. QED
  BY <1>1, TypeStep, SleepStep, PTL DEF Spec

\* Every state of a candidate is well typed, for any number of attempts and
\* rounds; in particular withRetry begins no attempt beyond its last.
THEOREM TeamTypes == Spec => []TypeOK
BY Typed, PTL

-----------------------------------------------------------------------------
(* Only valid texts are returned, and no valid text is lost.               *)

LEMMA ReturnStep == TypeOK /\ ReturnedIsValid /\ [Next]_vars => ReturnedIsValid'
<1> SUFFICES ASSUME TypeOK, ReturnedIsValid, [Next]_vars PROVE ReturnedIsValid'
  OBVIOUS
<1>1. ASSUME NEW t \in Texts, GoOn(t) PROVE ReturnedIsValid'
  <2>1. CASE Valid(t) /\ Return(t)
    BY <1>1, <2>1 DEF Return, ReturnedIsValid, Valid
  <2>2. CASE BeginRound(round + 1)
    BY <2>2 DEF BeginRound, ReturnedIsValid
  <2>3. CASE Throw("invalid")
    BY <2>3, ThrowFacts DEF ReturnedIsValid
  <2>4. QED
    BY <1>1, <2>1, <2>2, <2>3, GoOnCases
<1>2. CASE Cancel \/ Abort
  BY <1>2 DEF Cancel, Abort, ReturnedIsValid, Valid
<1>3. ASSUME NEW t \in Texts, EntryAnswers(t) PROVE ReturnedIsValid'
  BY <1>1, <1>3 DEF EntryAnswers
<1>4. ASSUME NEW e \in {"abort", "other"}, EntryFails(e) PROVE ReturnedIsValid'
  BY <1>4, ThrowFacts DEF EntryFails, ReturnedIsValid
<1>5. ASSUME NEW i \in Pair, Repair(i) PROVE ReturnedIsValid'
  BY <1>5 DEF Repair, RepairAnswers, RepairFails, ReturnedIsValid
<1>6. CASE RoundChooses
  <2>1. PICK i \in Answered : GoOn(calls[i].text)
    BY <1>6 DEF RoundChooses
  <2>2. calls[i].text \in Texts
    BY <2>1 DEF Answered, TypeOK, Call
  <2>3. QED
    BY <1>1, <2>1, <2>2
<1>7. CASE RoundFails
  BY <1>7, ThrowFacts DEF RoundFails, ReturnedIsValid
<1>8. CASE NextAttempt
  BY <1>8 DEF NextAttempt, ReturnedIsValid
<1>9. CASE Items
  BY <1>9 DEF Items, ItemsRepaired, ItemsFail, Return, ReturnedIsValid, Valid
<1>10. CASE UNCHANGED vars
  BY <1>10 DEF vars, ReturnedIsValid, Valid
<1>11. QED
  BY <1>2, <1>3, <1>4, <1>5, <1>6, <1>7, <1>8, <1>9, <1>10 DEF Next, Entry, Round

\* Whatever a candidate returns has passed the validation.
THEOREM OnlyValidIsReturned == Spec => []ReturnedIsValid
<1>1. Init => ReturnedIsValid
  BY DEF Init, ReturnedIsValid
<1>2. QED
  BY <1>1, ReturnStep, Typed, PTL DEF Spec

-----------------------------------------------------------------------------
(* No valid text is lost.                                                  *)

\* An invalid text is thrown or repaired; nothing that was seen is forgotten.
LEMMA LostStep == TypeOK /\ ValidIsNotLost /\ [Next]_vars => ValidIsNotLost'
<1> SUFFICES ASSUME TypeOK, ValidIsNotLost, [Next]_vars PROVE ValidIsNotLost'
  OBVIOUS
<1> DEFINE Won == \E t \in seen : Valid(t)
<1>1. ASSUME NEW t \in Texts, GoOn(t), Valid(t) \/ ~Won, seen' \subseteq seen \cup {t}
      PROVE  ValidIsNotLost'
  <2>1. CASE Valid(t)
    BY <1>1, <2>1, GoOnCases DEF Return, ValidIsNotLost
  <2>2. CASE ~Valid(t)
    BY <1>1, <2>2 DEF ValidIsNotLost, Valid
  <2>3. QED
    BY <2>1, <2>2
<1>2. CASE Cancel \/ Abort
  BY <1>2 DEF Cancel, Abort, ValidIsNotLost, Valid, Answered
<1>3. ASSUME NEW t \in Texts, EntryAnswers(t) PROVE ValidIsNotLost'
  <2>1. ~Won
    BY <1>3 DEF EntryAnswers, ValidIsNotLost
  <2>2. QED
    BY <1>1, <1>3, <2>1 DEF EntryAnswers
<1>4. ASSUME NEW e \in {"abort", "other"}, EntryFails(e) PROVE ValidIsNotLost'
  BY <1>4 DEF EntryFails, ValidIsNotLost, Valid
<1>5. ASSUME NEW i \in Pair, NEW t \in Texts, RepairAnswers(i, t) PROVE ValidIsNotLost'
  <2>1. calls'[i].state = "answered" /\ calls'[i].text = t
    BY <1>5 DEF RepairAnswers, TypeOK
  <2>2. \A j \in Answered : j \in Answered' /\ calls'[j].text = calls[j].text
    BY <1>5 DEF RepairAnswers, TypeOK, Answered
  <2>3. i \in Answered'
    BY <2>1 DEF Answered
  <2>4. pc = "round" /\ pc' = "round" /\ seen' = seen \cup {t}
    BY <1>5 DEF RepairAnswers
  <2>5. CASE Valid(t)
    BY <2>1, <2>3, <2>4, <2>5 DEF ValidIsNotLost, Valid
  <2>6. CASE ~Valid(t)
    BY <2>2, <2>4, <2>6 DEF ValidIsNotLost, Valid
  <2>7. QED
    BY <2>5, <2>6
<1>6. ASSUME NEW i \in Pair, RepairFails(i) PROVE ValidIsNotLost'
  <2>1. \A j \in Answered : j \in Answered' /\ calls'[j].text = calls[j].text
    BY <1>6 DEF RepairFails, TypeOK, Answered
  <2>2. pc = "round" /\ pc' = "round" /\ seen' = seen
    BY <1>6 DEF RepairFails
  <2>3. QED
    BY <2>1, <2>2 DEF ValidIsNotLost, Valid
<1>7. CASE RoundChooses
  <2>1. PICK i \in Answered : Best(i) /\ GoOn(calls[i].text)
    BY <1>7 DEF RoundChooses
  <2>2. \A j \in Answered : calls[j].text \in Texts
    BY DEF Answered, TypeOK, Call
  <2>3. \A j \in Answered : Score[calls[j].text] \in Nat
    BY <2>2, TextAssumption
  <2>4. pc = "round" /\ seen' = seen
    BY <1>7 DEF RoundChooses, RoundSettled
  <2>5. ASSUME Won PROVE Valid(calls[i].text)
    <3>1. PICK j \in Answered : Score[calls[j].text] = 0
      BY <2>4, <2>5 DEF ValidIsNotLost, Valid
    <3>2. Score[calls[i].text] <= 0
      BY <2>1, <2>3, <3>1 DEF Best
    <3>3. QED
      BY <2>3, <3>2 DEF Valid
  <2>6. QED
    BY <1>1, <2>1, <2>2, <2>4, <2>5
<1>8. CASE RoundFails
  BY <1>8 DEF RoundFails, RoundSettled, ValidIsNotLost, Valid
<1>9. CASE NextAttempt
  BY <1>9 DEF NextAttempt, ValidIsNotLost, Valid
<1>10. CASE Items
  BY <1>10 DEF Items, ItemsRepaired, ItemsFail, Return, ValidIsNotLost, Valid
<1>11. CASE UNCHANGED vars
  BY <1>11 DEF vars, ValidIsNotLost, Valid, Answered
<1>12. QED
  BY <1>2, <1>3, <1>4, <1>5, <1>6, <1>7, <1>8, <1>9, <1>10, <1>11
     DEF Next, Entry, Repair, Round

\* Once any call has produced a valid text, the candidate returns: neither the
\* choice of a round nor a failure or a signal loses it.
THEOREM NoValidTextIsLost == Spec => []ValidIsNotLost
<1>1. Init => ValidIsNotLost
  BY DEF Init, ValidIsNotLost
<1>2. QED
  BY <1>1, LostStep, Typed, PTL DEF Spec

-----------------------------------------------------------------------------
(* A stopped candidate gives up.                                           *)

\* The one late attempt is refused at its first call, and then it is over.
LateIsLast ==
    /\ late \in {0, 1}
    /\ late = 1 => (pc = "entry" /\ cut) \/ pc = "threw"

LEMMA LateStep == LateIsLast /\ [Next]_vars => LateIsLast'
<1> SUFFICES ASSUME LateIsLast, [Next]_vars PROVE LateIsLast'
  OBVIOUS
<1>1. CASE Cancel \/ Abort
  BY <1>1 DEF Cancel, Abort, LateIsLast
<1>2. ASSUME NEW t, GoOn(t) PROVE late' = late
  <2>1. CASE Return(t)
    BY <2>1 DEF Return
  <2>2. CASE BeginRound(round + 1)
    BY <2>2 DEF BeginRound
  <2>3. CASE Throw("invalid")
    BY <2>3 DEF Throw
  <2>4. QED
    BY <1>2, <2>1, <2>2, <2>3, GoOnCases
<1>3. ASSUME NEW t \in Texts, EntryAnswers(t) PROVE LateIsLast'
  BY <1>2, <1>3 DEF EntryAnswers, LateIsLast
<1>4. ASSUME NEW e \in {"abort", "other"}, EntryFails(e) PROVE LateIsLast'
  <2>1. late' = late
    BY <1>4 DEF EntryFails, Throw
  <2>2. late = 1 => e = "abort"
    BY <1>4 DEF EntryFails, LateIsLast
  <2>3. e = "abort" => pc' = "threw"
    BY <1>4 DEF EntryFails, Throw, Retries
  <2>4. QED
    BY <2>1, <2>2, <2>3 DEF LateIsLast
<1>5. ASSUME NEW i \in Pair, Repair(i) PROVE LateIsLast'
  BY <1>5 DEF Repair, RepairAnswers, RepairFails, LateIsLast
<1>6. CASE RoundChooses
  BY <1>2, <1>6 DEF RoundChooses, RoundSettled, LateIsLast
<1>7. CASE RoundFails
  BY <1>7 DEF RoundFails, RoundSettled, Throw, LateIsLast
<1>8. CASE NextAttempt
  BY <1>8 DEF NextAttempt, LateIsLast
<1>9. CASE Items
  BY <1>9 DEF Items, ItemsRepaired, ItemsFail, Return, LateIsLast
<1>10. CASE UNCHANGED vars
  BY <1>10 DEF vars, LateIsLast
<1>11. QED
  BY <1>1, <1>3, <1>4, <1>5, <1>6, <1>7, <1>8, <1>9, <1>10 DEF Next, Entry, Round

\* A candidate that was stopped begins at most one further attempt, although
\* the sleep of withRetry ignores the signals and a repair round hides them.
THEOREM StoppedCandidatesGiveUp == Spec => []StoppedSoon
<1>1. Init => LateIsLast
  BY DEF Init, LateIsLast
<1>2. LateIsLast => StoppedSoon
  BY DEF LateIsLast, StoppedSoon
<1>3. QED
  BY <1>1, <1>2, LateStep, PTL DEF Spec

-----------------------------------------------------------------------------
(* A candidate makes only the steps SectionPlanner allows.                 *)

\* Where a candidate stands, as SectionPlanner sees it.
LEMMA CandidateCases ==
    /\ pc = "entry" /\ cut => Candidate = "cut"
    /\ pc = "entry" /\ ~cut => Candidate = "calling"
    /\ pc = "round" => Candidate = "calling"
    /\ pc = "backoff" => Candidate = "backoff"
    /\ pc = "items" => Candidate = "repairing"
    /\ pc = "returned" => Candidate = "ok"
    /\ pc = "threw" => Candidate = "failed"
BY DEF Candidate

\* The mapped function of candidates changes at one place.
LEMMA CandidateMoves ==
    ASSUME NEW from, NEW to, Candidate = from, Candidate' = to,
           UNCHANGED <<cancelled, aborted>>
    PROVE  Planner!CandStep(This, 1, from, to)
BY DEF Planner!CandStep, Planner!Own, Both, This, Other

LEMMA TriesStay ==
    ASSUME UNCHANGED attempt
    PROVE  UNCHANGED [s \in Both |-> [i \in 1..1 |-> IF s = This THEN attempt ELSE 1]]
OBVIOUS

LEMMA PlannerStutters ==
    ASSUME UNCHANGED <<cancelled, aborted, attempt>>, Candidate' = Candidate
    PROVE  UNCHANGED Planner!vars
BY DEF Planner!vars

\* A step of the candidate is a step of the planner.
LEMMA CandidateStepIsNext ==
    ASSUME Planner!CandidateStep(This, 1)
    PROVE  Planner!Next
<1>1. This \in Both /\ 1 \in 1..1
  BY DEF Both
<1>2. QED
  BY <1>1 DEF Planner!Next, Planner!Indexes

\* The planner has aborted exactly when the signal is.
LEMMA SameAbort == Planner!Aborted <=> aborted
BY DEF Planner!Aborted, Other

\* An attempt throws: SectionPlanner's call fails with the same error.
LEMMA ThrowIsCallFails ==
    ASSUME NEW e \in {"abort", "invalid", "other"}, Throw(e), Candidate = "calling"
    PROVE  Planner!Next
<1>1. Planner!Retries(This, 1, e) <=> Retries(e)
  BY SameAbort DEF Planner!Retries, Retries, Both, This
<1>2. Planner!GivesUp(This, e) = IF e = "invalid" /\ ItemRepair THEN "repairing" ELSE "failed"
  BY DEF Planner!GivesUp
<1>3. Candidate' = IF Retries(e) THEN "backoff" ELSE Planner!GivesUp(This, e)
  <2>1. pc' = IF Retries(e) THEN "backoff"
              ELSE IF e = "invalid" /\ ItemRepair THEN "items" ELSE "threw"
    BY DEF Throw
  <2>2. QED
    BY <2>1, <1>2 DEF Candidate
<1>4. UNCHANGED <<cancelled, aborted, attempt>>
  BY DEF Throw
<1>5. Planner!CandStep(This, 1, "calling",
          IF Planner!Retries(This, 1, e) THEN "backoff" ELSE Planner!GivesUp(This, e))
  <2>1. CASE Retries(e)
    BY <1>1, <1>3, <1>4, <2>1, CandidateMoves
  <2>2. CASE ~Retries(e) /\ e = "invalid" /\ ItemRepair
    <3>1. Candidate' = "repairing" /\ Planner!GivesUp(This, e) = "repairing"
      BY <1>2, <1>3, <2>2
    <3>2. Planner!CandStep(This, 1, "calling", "repairing")
      BY <1>4, <3>1, CandidateMoves
    <3>3. QED
      BY <1>1, <2>2, <3>1, <3>2
  <2>3. CASE ~Retries(e) /\ ~(e = "invalid" /\ ItemRepair)
    <3>1. Candidate' = "failed" /\ Planner!GivesUp(This, e) = "failed"
      BY <1>2, <1>3, <2>3
    <3>2. Planner!CandStep(This, 1, "calling", "failed")
      BY <1>4, <3>1, CandidateMoves
    <3>3. QED
      BY <1>1, <2>3, <3>1, <3>2
  <2>4. QED
    BY <2>1, <2>2, <2>3
<1>6. Planner!CallFails(This, 1)
  BY <1>4, <1>5, TriesStay DEF Planner!CallFails
<1>7. QED
  BY <1>6, CandidateStepIsNext DEF Planner!CandidateStep

\* Going on with a text either ends the call or goes on inside it.
LEMMA GoOnIsCall ==
    ASSUME NEW t, GoOn(t), Candidate = "calling"
    PROVE  Planner!Next \/ UNCHANGED Planner!vars
<1>1. CASE Return(t)
  <2>1. Candidate' = "ok" /\ UNCHANGED <<cancelled, aborted, attempt>>
    BY <1>1 DEF Return, Candidate
  <2>2. Planner!CallSucceeds(This, 1)
    BY <2>1, CandidateMoves, TriesStay DEF Planner!CallSucceeds
  <2>3. QED
    BY <2>2, CandidateStepIsNext DEF Planner!CandidateStep
<1>2. CASE BeginRound(round + 1)
  <2>1. Candidate' = "calling" /\ UNCHANGED <<cancelled, aborted, attempt>>
    BY <1>2 DEF BeginRound, Candidate
  <2>2. QED
    BY <2>1, PlannerStutters
<1>3. CASE Throw("invalid")
  BY <1>3, ThrowIsCallFails
<1>4. QED
  BY <1>1, <1>2, <1>3, GoOnCases

LEMMA StopSteps ==
    ASSUME Cancel \/ Abort
    PROVE  Planner!Next
<1>1. Candidate' = Candidate /\ attempt' = attempt
  <2>1. UNCHANGED <<pc, cut, attempt>>
    BY DEF Cancel, Abort
  <2>2. QED
    BY <2>1 DEF Candidate
<1>2. CASE Cancel
  <2>1. Planner!Cancel
    BY <1>1, <1>2 DEF Cancel, Planner!Cancel, Planner!Live
  <2>2. QED
    BY <2>1 DEF Planner!Next
<1>3. CASE Abort
  <2>1. Planner!TaskStep(Other, "working", "failed")
    BY <1>1, <1>3 DEF Abort, Planner!TaskStep, Both, This, Other
  <2>2. ~Planner!Aborted
    BY <1>3, SameAbort DEF Abort
  <2>3. Planner!Fail(Other)
    BY <1>3, <2>1, <2>2 DEF Abort, Planner!Fail
  <2>4. Planner!SectionStep(Other)
    BY <2>3 DEF Planner!SectionStep, Planner!DeriveFails
  <2>5. QED
    BY <2>4 DEF Planner!Next, Both
<1>4. QED
  BY <1>2, <1>3

LEMMA NextAttemptIsRetry ==
    ASSUME NextAttempt
    PROVE  Planner!Next
<1>1. Candidate = "backoff" /\ UNCHANGED <<cancelled, aborted>>
  BY DEF NextAttempt, Candidate
<1>2. Candidate' = IF Planner!Aborted \/ cancelled THEN "cut" ELSE "calling"
  BY SameAbort DEF NextAttempt, Candidate, Stopped
<1>3. Planner!CandStep(This, 1, "backoff",
                       IF Planner!Aborted \/ cancelled THEN "cut" ELSE "calling")
  <2>1. CASE Planner!Aborted \/ cancelled
    BY <1>1, <1>2, <2>1, CandidateMoves
  <2>2. CASE ~(Planner!Aborted \/ cancelled)
    BY <1>1, <1>2, <2>2, CandidateMoves
  <2>3. QED
    BY <2>1, <2>2
<1>4. [s \in Both |-> [i \in 1..1 |-> IF s = This THEN attempt ELSE 1]]'
      = [[s \in Both |-> [i \in 1..1 |-> IF s = This THEN attempt ELSE 1]]
            EXCEPT ![This][1] = @ + 1]
  BY DEF NextAttempt, Both, This, Other
<1>5. Planner!Retry(This, 1)
  BY <1>3, <1>4 DEF Planner!Retry
<1>6. QED
  BY <1>5, CandidateStepIsNext DEF Planner!CandidateStep

LEMMA PlannerStep == [Next]_vars => [Planner!Next]_(Planner!vars)
<1> SUFFICES ASSUME [Next]_vars PROVE Planner!Next \/ UNCHANGED Planner!vars
  OBVIOUS
<1>1. CASE Cancel \/ Abort
  BY <1>1, StopSteps
<1>2. ASSUME NEW t \in Texts, EntryAnswers(t) PROVE Planner!Next \/ UNCHANGED Planner!vars
  BY <1>2, GoOnIsCall, CandidateCases DEF EntryAnswers
<1>3. ASSUME NEW e \in {"abort", "other"}, EntryFails(e) PROVE Planner!Next
  <2>1. CASE cut
    <3>1. Candidate = "cut" /\ Candidate' = "failed"
      BY <1>3, <2>1 DEF EntryFails, Throw, Retries, Candidate
    <3>2. UNCHANGED <<cancelled, aborted, attempt>>
      BY <1>3 DEF EntryFails, Throw
    <3>3. Planner!CallCut(This, 1)
      BY <3>1, <3>2, CandidateMoves, TriesStay DEF Planner!CallCut
    <3>4. QED
      BY <3>3, CandidateStepIsNext DEF Planner!CandidateStep
  <2>2. CASE ~cut
    BY <1>3, <2>2, ThrowIsCallFails, CandidateCases DEF EntryFails
  <2>3. QED
    BY <2>1, <2>2
<1>4. ASSUME NEW i \in Pair, Repair(i) PROVE UNCHANGED Planner!vars
  <2>1. UNCHANGED <<pc, cut, cancelled, aborted, attempt>>
    BY <1>4 DEF Repair, RepairAnswers, RepairFails
  <2>2. Candidate' = Candidate
    BY <2>1 DEF Candidate
  <2>3. QED
    BY <2>1, <2>2, PlannerStutters
<1>5. CASE RoundChooses
  BY <1>5, GoOnIsCall, CandidateCases DEF RoundChooses, RoundSettled
<1>6. CASE RoundFails
  BY <1>6, ThrowIsCallFails, CandidateCases DEF RoundFails, RoundSettled
<1>7. CASE NextAttempt
  BY <1>7, NextAttemptIsRetry
<1>8. CASE Items
  <2>1. Candidate = "repairing" /\ Candidate' \in {"ok", "failed"}
    BY <1>8 DEF Items, ItemsRepaired, ItemsFail, Return, Candidate
  <2>2. UNCHANGED <<cancelled, aborted, attempt>>
    BY <1>8 DEF Items, ItemsRepaired, ItemsFail, Return
  <2>3. Planner!RepairEnds(This, 1)
    <3>1. PICK to \in {"ok", "failed"} : Candidate' = to
      BY <2>1
    <3>2. Planner!CandStep(This, 1, "repairing", to)
      BY <2>1, <2>2, <3>1, CandidateMoves
    <3>3. QED
      BY <2>2, <3>2, TriesStay DEF Planner!RepairEnds
  <2>4. QED
    BY <2>3, CandidateStepIsNext DEF Planner!CandidateStep
<1>9. CASE UNCHANGED vars
  <2>1. Candidate' = Candidate
    BY <1>9 DEF vars, Candidate
  <2>2. QED
    BY <1>9, <2>1, PlannerStutters DEF vars
<1>10. QED
  BY <1>1, <1>2, <1>3, <1>4, <1>5, <1>6, <1>7, <1>8, <1>9
     DEF Next, Entry, Round

\* The attempts, rounds and item repair of a candidate are steps, or parts of a
\* step, of a candidate of SectionPlanner.
THEOREM CandidatesFitThePlanner == Spec => ImplementsCandidate
BY PlannerStep, PTL DEF Spec, ImplementsCandidate

-----------------------------------------------------------------------------
(* Why a candidate settles: no step repeats what was done.                 *)

\* How far a place is from the end of its attempt.
Left == [entry |-> 3, round |-> 2, backoff |-> 1, items |-> 1, returned |-> 0, threw |-> 0]

Waiting == {i \in Pair : calls[i].state = "calling"}

\* A step begins a further attempt, or comes nearer to the end of this one: in a
\* place nearer to it, with a further round, or with one call less to wait for.
\* Otherwise it sets one of the two signals, for good.
CandidateAdvances ==
    \/ attempt' > attempt
    \/ attempt' = attempt /\ Left[pc'] < Left[pc]
    \/ /\ UNCHANGED <<attempt, pc>>
       /\ \/ round' > round
          \/ round' = round /\ Waiting' \subseteq Waiting /\ Waiting' # Waiting
          \/ UNCHANGED <<round, calls, aborted>> /\ ~cancelled /\ cancelled'
          \/ UNCHANGED <<round, calls, cancelled>> /\ ~aborted /\ aborted'

LEMMA LeftOf ==
    /\ Left["entry"] = 3 /\ Left["round"] = 2
    /\ Left["backoff"] = 1 /\ Left["items"] = 1
    /\ Left["returned"] = 0 /\ Left["threw"] = 0
BY DEF Left

LEMMA ThrowAdvances ==
    ASSUME TypeOK, NEW e, Throw(e), pc \in {"entry", "round"}
    PROVE  CandidateAdvances
<1>1. attempt' = attempt
  BY ThrowFacts
<1>2. pc' \in {"backoff", "items", "threw"}
  BY ThrowFacts
<1>3. Left[pc'] < Left[pc]
  BY <1>2, LeftOf
<1>4. QED
  BY <1>1, <1>3 DEF CandidateAdvances

LEMMA GoOnAdvances ==
    ASSUME TypeOK, NEW t, GoOn(t), pc \in {"entry", "round"}
    PROVE  CandidateAdvances
<1>1. CASE Return(t)
  <2>1. attempt' = attempt /\ pc' = "returned"
    BY <1>1 DEF Return
  <2>2. Left[pc'] < Left[pc]
    BY <2>1, LeftOf
  <2>3. QED
    BY <2>1, <2>2 DEF CandidateAdvances
<1>2. CASE BeginRound(round + 1)
  <2>1. attempt' = attempt /\ pc' = "round" /\ round' = round + 1
    BY <1>2 DEF BeginRound
  <2>2. round' > round
    BY <2>1 DEF TypeOK
  <2>3. CASE pc = "entry"
    <3>1. Left[pc'] < Left[pc]
      BY <2>1, <2>3, LeftOf
    <3>2. QED
      BY <2>1, <3>1 DEF CandidateAdvances
  <2>4. CASE pc = "round"
    BY <2>1, <2>2, <2>4 DEF CandidateAdvances
  <2>5. QED
    BY <2>3, <2>4
<1>3. CASE Throw("invalid")
  BY <1>3, ThrowAdvances
<1>4. QED
  BY <1>1, <1>2, <1>3, GoOnCases

LEMMA RepairCallAdvances ==
    ASSUME TypeOK, NEW i \in Pair, Repair(i)
    PROVE  CandidateAdvances
<1>1. i \in Waiting
  BY DEF Repair, RepairAnswers, RepairFails, Waiting
<1>2. UNCHANGED <<attempt, pc, round>>
  BY DEF Repair, RepairAnswers, RepairFails
<1>3. PICK c : calls' = [calls EXCEPT ![i] = c] /\ c.state # "calling"
  <2>1. ASSUME NEW t \in Texts, RepairAnswers(i, t)
        PROVE  \E c : calls' = [calls EXCEPT ![i] = c] /\ c.state # "calling"
    <3>1. calls' = [calls EXCEPT ![i] = [state |-> "answered", text |-> t]]
      BY <2>1 DEF RepairAnswers
    <3>2. [state |-> "answered", text |-> t].state # "calling"
      OBVIOUS
    <3>3. QED
      BY <3>1, <3>2
  <2>2. CASE RepairFails(i)
    <3>1. calls' = [calls EXCEPT ![i] = [state |-> "failed", text |-> None]]
      BY <2>2 DEF RepairFails
    <3>2. [state |-> "failed", text |-> None].state # "calling"
      OBVIOUS
    <3>3. QED
      BY <3>1, <3>2
  <2>3. QED
    BY <2>1, <2>2 DEF Repair
<1>4. i \notin Waiting' /\ Waiting' \subseteq Waiting
  BY <1>3 DEF TypeOK, Waiting
<1>5. QED
  BY <1>1, <1>2, <1>4 DEF CandidateAdvances

LEMMA AdvanceStep ==
    ASSUME TypeOK, Next
    PROVE  CandidateAdvances
<1>1. CASE Cancel
  BY <1>1 DEF Cancel, CandidateAdvances
<1>2. CASE Abort
  BY <1>2 DEF Abort, CandidateAdvances
<1>3. ASSUME NEW t \in Texts, EntryAnswers(t) PROVE CandidateAdvances
  BY <1>3, GoOnAdvances DEF EntryAnswers
<1>4. ASSUME NEW e \in {"abort", "other"}, EntryFails(e) PROVE CandidateAdvances
  BY <1>4, ThrowAdvances DEF EntryFails
<1>5. ASSUME NEW i \in Pair, Repair(i) PROVE CandidateAdvances
  BY <1>5, RepairCallAdvances
<1>6. CASE RoundChooses
  BY <1>6, GoOnAdvances DEF RoundChooses, RoundSettled
<1>7. CASE RoundFails
  BY <1>7, ThrowAdvances DEF RoundFails, RoundSettled
<1>8. CASE NextAttempt
  <2>1. attempt' = attempt + 1 /\ attempt \in Nat
    BY <1>8, BoundAssumption DEF NextAttempt, TypeOK
  <2>2. QED
    BY <2>1 DEF CandidateAdvances
<1>9. CASE Items
  <2>1. attempt' = attempt /\ pc = "items" /\ pc' \in {"returned", "threw"}
    BY <1>9 DEF Items, ItemsRepaired, ItemsFail, Return
  <2>2. Left[pc'] < Left[pc]
    BY <2>1, LeftOf
  <2>3. QED
    BY <2>1, <2>2 DEF CandidateAdvances
<1>10. QED
  BY <1>1, <1>2, <1>3, <1>4, <1>5, <1>6, <1>7, <1>8, <1>9 DEF Next, Entry, Round

\* A candidate makes no step twice, whatever its calls answer and whenever it is
\* stopped: at most Attempts attempts of at most Rounds rounds, each of two calls.
THEOREM CandidatesAdvance == Spec => [][CandidateAdvances]_vars
<1>1. TypeOK /\ [Next]_vars => [CandidateAdvances]_vars
  BY AdvanceStep
<1>2. QED
  BY <1>1, TeamTypes, PTL DEF Spec
=============================================================================
