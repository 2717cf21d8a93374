---------------------------- MODULE BulletRepair ----------------------------
(***************************************************************************)
(* GenerationService.repairBulletItems: the bullets of a candidate that    *)
(* failed its validation are repaired line by line.                        *)
(*                                                                         *)
(* The lines to repair are computed once, from the errors the bullets came *)
(* with.  Each gets up to three rounds of two concurrent calls; an answer  *)
(* competes with the line as it is, and only the errors that concern the   *)
(* line count.  The errors of another line, new or old, count only in the  *)
(* end, when the caller accepts the bullets if no error is left.           *)
(***************************************************************************)
EXTENDS Integers, SequencesExt, FiniteSetsExt

CONSTANTS
    LineTexts,    (* single bullets, without prefix and blanks             *)
    Nothing,      (* a text that is all prefix: splitLines drops the line  *)
    Answers,      (* the texts found in the answer of a call               *)
    Excess,       (* characters a bullet is out of its tolerated range     *)
    Words,        (* the keywords in a bullet, by number, in order         *)
    Branded,      (* the bullets that name the brand                       *)
    LineCount,    (* line_count of the rule                                *)
    Keywords,     (* keywords to embed, in this order                      *)
    MaxRounds     (* maxLineRepairRounds                                   *)

ASSUME TextAssumption  == /\ Excess \in [LineTexts -> Nat]
                          /\ Words \in [LineTexts -> Seq(1..Keywords)]
                          /\ Branded \subseteq LineTexts
                          /\ Nothing \notin LineTexts
                          /\ Answers \subseteq SUBSET (LineTexts \cup {Nothing})
ASSUME BoundAssumption == /\ LineCount \in Nat \ {0}
                          /\ Keywords \in Nat
                          /\ MaxRounds \in Nat \ {0}

VARIABLES
    pc,           (* "line", "calls" or "done"                             *)
    lines,        (* lines                                                 *)
    errors,       (* errors: what the caller will look at                  *)
    targets,      (* targetIndexes not done yet                            *)
    round,        (* round of the line in progress                         *)
    calls,        (* the two calls of the round                            *)
    start         (* history: the lines the repair began with              *)

vars == <<pc, lines, errors, targets, round, calls, start>>

-----------------------------------------------------------------------------
(* The validation of bullets.                                              *)

\* keywordCountsBySlot: the keywords are shared out evenly, the first lines
\* take one more.
Share(i) == (Keywords \div LineCount) + IF i <= Keywords % LineCount THEN 1 ELSE 0

\* keywordIndexToLineIndex: the line each keyword is planned for.
LineOf == [k \in 1..Keywords |->
              CHOOSE i \in 1..LineCount : /\ k <= MapThenSumSet(Share, 1..i)
                                         /\ k > MapThenSumSet(Share, 1..(i - 1))]

\* The scan for the keywords in their order: each is looked for behind the one
\* before, and the first that is not there ends the scan.
Found(c) ==
    FoldLeft(LAMBDA n, w : IF w = n + 1 THEN w ELSE n, 0,
             FlattenSeq([i \in DOMAIN c |-> Words[c[i]]]))

LengthError(i, x) == [kind |-> "length", at |-> i, off |-> x]
KeywordError(k) == [kind |-> "keyword", at |-> k, off |-> 5000]
CountError == [kind |-> "count", at |-> 0, off |-> 1000]
BrandError == [kind |-> "brand", at |-> 0, off |-> 1000]

\* The JSON of the bullets could not be read: no validation took place.
ParseError == [kind |-> "parse", at |-> 0, off |-> 1000]

\* validateSectionContent: a wrong number of lines hides all other errors, the brand
\* may be in any line, and only the first missing keyword is an error.  The length
\* stands for all that is asked of a single line, the brand for all that is asked of
\* the bullets together: also a missing keyword when their order is not enforced.
Errors(c) ==
    IF DOMAIN c # 1..LineCount THEN {CountError}
    ELSE {LengthError(i, Excess[c[i]]) : i \in {j \in DOMAIN c : Excess[c[j]] > 0}}
         \cup {e \in {BrandError} : \A i \in DOMAIN c : c[i] \notin Branded}
         \cup {KeywordError(k) : k \in {Found(c) + 1} \cap 1..Keywords}

\* The line an error is about, 0 when it is about none.
LineOfError(e) ==
    CASE e.kind = "length" -> e.at
      [] e.kind = "keyword" -> LineOf[e.at]
      [] OTHER -> 0

\* buildRelevantErrorsForBulletLine.
Relevant(t, es) == {e \in es : LineOfError(e) = t}

\* scoreRelevantSectionErrors.
Score(es) == MapThenSumSet(LAMBDA e : 10000 + e.off, es)

\* What the errors of line t weigh in content c.
Weight(t, c) == Score(Relevant(t, Errors(c)))

\* bulletRepairTargetIndexes: the lines some error is about.
Targets(es) == {t \in 1..LineCount : Relevant(t, es) # {}}

-----------------------------------------------------------------------------
Pair == {1, 2}
Contents == UNION {[1..n -> LineTexts] : n \in {LineCount - 1, LineCount, LineCount + 1}}
Call == [state : {"answered"}, line : LineTexts \cup {Nothing}] \cup [state : {"idle", "calling", "failed"}]
Idle == [i \in Pair |-> [state |-> "idle"]]

TypeOK ==
    /\ pc \in {"line", "calls", "done"}
    /\ lines \in Contents
    /\ targets \subseteq 1..LineCount
    /\ round \in 1..MaxRounds
    /\ calls \in [Pair -> Call]
    /\ start \in Contents

Init ==
    /\ start \in Contents
    /\ lines = start
    /\ errors \in {Errors(start), {ParseError}} \ {{}}
    /\ targets = Targets(errors)
    /\ pc = IF targets = {} THEN "done" ELSE "line"
    /\ round = 1
    /\ calls = Idle

\* The lines are repaired from the first to the last.
Target == Min(targets)

LeaveLine ==
    /\ targets' = targets \ {Target}
    /\ pc' = IF targets' = {} THEN "done" ELSE "line"
    /\ round' = 1
    /\ calls' = Idle

\* The line needs no repair, or no longer.
LineIsFine ==
    /\ pc = "line"
    /\ Relevant(Target, Errors(lines)) = {}
    /\ errors' = Errors(lines)
    /\ LeaveLine
    /\ UNCHANGED <<lines, start>>

StartRound ==
    /\ pc = "line"
    /\ Relevant(Target, Errors(lines)) # {}
    /\ pc' = "calls"
    /\ calls' = [i \in Pair |-> [state |-> "calling"]]
    /\ UNCHANGED <<lines, errors, targets, round, start>>

\* The lines with x in the place of the target, split once more.  A line too few
\* is the only error then and is none of the target's: the answer weighs nothing.
With(x) == IF x = Nothing THEN RemoveAt(lines, Target) ELSE [lines EXCEPT ![Target] = x]

\* Variant: the line as it is competes only when the answer holds no other.
PicksAnswer(variants) ==
    LET all == IF variants = {} THEN {lines[Target]} ELSE variants
    IN {x \in all : \A y \in all : Weight(Target, With(x)) <= Weight(Target, With(y))}

\* pickSingleLineRepairCandidate: the lines of the answer and the line as it is;
\* those of equal weight are told apart by their length.
Picks(variants) ==
    LET all == variants \cup {lines[Target]}
    IN {x \in all : \A y \in all : Weight(Target, With(x)) <= Weight(Target, With(y))}

CallAnswers(i) ==
    /\ pc = "calls"
    /\ calls[i].state = "calling"
    /\ \E variants \in Answers : \E x \in Picks(variants) :
           calls' = [calls EXCEPT ![i] = [state |-> "answered", line |-> x]]
    /\ UNCHANGED <<pc, lines, errors, targets, round, start>>

\* Both attempts of generateText failed, or the job is cancelled.
CallFails(i) ==
    /\ pc = "calls"
    /\ calls[i].state = "calling"
    /\ calls' = [calls EXCEPT ![i] = [state |-> "failed"]]
    /\ UNCHANGED <<pc, lines, errors, targets, round, start>>

RoundSettled == pc = "calls" /\ \A i \in Pair : calls[i].state \in {"answered", "failed"}
Answered == {i \in Pair : calls[i].state = "answered"}

WeightOf(i) == Weight(Target, With(calls[i].line))

\* The lighter answer, then the first.
Best(i) ==
    \A j \in Answered : WeightOf(i) < WeightOf(j) \/ (WeightOf(i) = WeightOf(j) /\ i <= j)

NextRound ==
    /\ round < MaxRounds
    /\ round' = round + 1
    /\ pc' = "line"
    /\ calls' = Idle
    /\ UNCHANGED targets

\* Variant: the report leaves out the errors of the other lines.
ReportTargetOnly(c) == Relevant(Target, Errors(c))

\* What is reported of the new lines: all their errors.
Report(c) == Errors(c)

\* The lines take the best answer; the line is left when nothing is wrong with
\* it any more or its rounds are used up.
RoundChooses ==
    /\ RoundSettled
    /\ \E i \in Answered :
        /\ Best(i)
        /\ lines' = With(calls[i].line)
        /\ errors' = Report(lines')
        /\ IF Relevant(Target, Errors(lines')) = {} \/ round = MaxRounds
           THEN LeaveLine
           ELSE NextRound
    /\ UNCHANGED start

\* Variant: a round without an answer is not counted.
RoundIsRepeated ==
    /\ RoundSettled
    /\ Answered = {}
    /\ pc' = "line"
    /\ calls' = Idle
    /\ UNCHANGED <<lines, errors, targets, round, start>>

\* No answer: the round is lost, the lines and their errors stay.
RoundIsLost ==
    /\ RoundSettled
    /\ Answered = {}
    /\ IF round = MaxRounds THEN LeaveLine ELSE NextRound
    /\ UNCHANGED <<lines, errors, start>>

-----------------------------------------------------------------------------
Step ==
    \/ LineIsFine \/ StartRound
    \/ \E i \in Pair : CallAnswers(i) \/ CallFails(i)
    \/ RoundChooses \/ RoundIsLost

Next == Step

Spec == Init /\ [][Next]_vars

\* Every call of generateText ends: it has a timer and a bounded number of
\* attempts.
FairSpec == Spec /\ WF_vars(Step)

-----------------------------------------------------------------------------
(* Properties.                                                             *)

\* executeAgentRuntime returns the repaired bullets when the report has no
\* errors: then the bullets are valid, all lines and keywords of them, although
\* each repair looked at the errors of one line only.
AcceptedIsValid == pc = "done" /\ errors = {} => Errors(lines) = {}

\* Lines that no error pointed at come out as they went in, whatever the other
\* repairs did and however often; unless an answer took its line away, after which
\* the bullets are rejected.
OthersStay ==
    DOMAIN lines = DOMAIN start =>
        \A i \in DOMAIN start : i \notin Targets(Errors(start)) => lines[i] = start[i]

\* A repair never makes its line worse: an answer that weighs more than the line
\* it was asked to repair is dropped, in every round.  (By the code's own measure:
\* an answer that takes the line away weighs nothing.)
RepairsDoNotHarm ==
    [][lines' # lines => Weight(Target, lines') <= Weight(Target, lines)]_vars

\* The repair of all lines ends, also when no call is ever answered.
RepairEnds == <>(pc = "done")
=============================================================================
