--------------------------- MODULE JobEventsProofs ---------------------------
(***************************************************************************)
(* JobEvents, for any writers, page size and bounds: its types, order and  *)
(* completeness of what a stream shows, and how a stream ends.             *)
(***************************************************************************)
EXTENDS JobEvents, TLAPS

USE PageAssumption, BoundAssumption

-----------------------------------------------------------------------------
(* The inductive invariant.                                                *)

\* What is shown is ordered, and lastTraceOffset is not behind it.
ShownUpToLast ==
    /\ ShownInOrder
    /\ \A i \in 1..Len(shown) : shown[i] <= last
    /\ pc = "none" => shown = <<>>

\* Nothing is announced, or about to be, that is not in the list.
Announceable ==
    /\ \A w \in Writers : \A i \in 1..Len(pending[w]) :
           pending[w][i].type = "trace" => pending[w][i].offset <= logged
    /\ \A i \in 1..Len(chan) : chan[i].type = "trace" => chan[i].offset <= logged

\* The backlog is shown without a gap.
BacklogShown ==
    pc \in {"none", "refused", "subscribing", "listing"} =>
        /\ cleanup = "no" /\ ~closeTimer
        /\ \A k \in Offsets : k > start /\ k <= last => Shown(k)

\* The message of an entry beyond lastTraceOffset is still to come, or was lost.
StillToCome ==
    BacklogReady /\ cleanup = "no" =>
        \A k \in Offsets : k > last => \A i \in 1..read : chan[i] = Trace(k) => i \in lost

\* How cleanup can have begun, in more detail than EndIsTold; and where the
\* timers and the close handler can be armed.
EndCauses ==
    /\ cleanup # "no" => \/ told \cap Terminal # {}
                         \/ pc \in {"vanished", "failed"}
                         \/ client = "gone" /\ pc = "open"
    /\ closeTimer => told \cap Terminal # {}
    /\ watching \/ keepalive => pc = "open"
    /\ pc = "open" => latest.status \notin Terminal

EventsInv ==
    /\ TypeOK /\ ShownUpToLast /\ Announceable /\ BacklogShown /\ StillToCome
    /\ NoSilentGaps /\ EndCauses /\ TimersEndWithStream

-----------------------------------------------------------------------------
(* Messages.                                                               *)

LEMMA TraceIsMessage == \A k \in Offsets : Trace(k) \in Messages /\ Trace(k).type = "trace"
                                           /\ Trace(k).offset = k
BY DEF Messages, Trace

LEMMA StatusIsMessage == \A r \in Records : Status(r) \in Messages /\ Status(r).type = "status"
                                            /\ Status(r).key = r
BY DEF Messages, Status

LEMMA MessageKinds ==
    ASSUME NEW m \in Messages
    PROVE  \/ m.type = "trace" /\ m.offset \in Offsets /\ m = Trace(m.offset)
           \/ m.type = "status" /\ m.key \in Records /\ \A k \in Offsets : m # Trace(k)
<1>1. CASE \E k \in Offsets : m = Trace(k)
  <2>1. PICK k \in Offsets : m = Trace(k)
    BY <1>1
  <2>2. m.type = "trace" /\ m.offset = k
    BY <2>1, TraceIsMessage
  <2> QED BY <2>1, <2>2
<1>2. CASE \E r \in Records : m = Status(r)
  <2>1. PICK r \in Records : m = Status(r)
    BY <1>2
  <2>2. m.type = "status" /\ m.key = r
    BY <2>1, StatusIsMessage
  <2>3. \A k \in Offsets : m # Trace(k)
    BY <2>2, TraceIsMessage
  <2> QED BY <2>2, <2>3
<1> QED BY <1>1, <1>2 DEF Messages

LEMMA RecordTypes ==
    ASSUME TypeOK, NEW status \in {"running"} \cup Terminal, record.at < MaxMarks
    PROVE  [status |-> status, at |-> record.at + 1] \in Records
BY DEF TypeOK, Records, Statuses

-----------------------------------------------------------------------------
LEMMA EventsInvInit == Init => EventsInv
<1> SUFFICES ASSUME Init PROVE EventsInv
    OBVIOUS
<1> USE DEF Init
<1>1. TypeOK
  <2>1. record \in Records /\ lastStatus \in Records /\ latest \in Records
    BY DEF Records, Statuses, NoStatus
  <2>2. pending \in [Writers -> Seq(Messages)] /\ chan \in Seq(Messages) /\ shown \in Seq(Offsets)
    OBVIOUS
  <2>3. /\ unannounced \in BOOLEAN /\ closeTimer \in BOOLEAN /\ keepalive \in BOOLEAN
        /\ watching \in BOOLEAN
    OBVIOUS
  <2>4. /\ logged \in 0..MaxEntries /\ start \in 0..MaxEntries /\ last \in 0..MaxEntries
        /\ read \in 0..Len(chan)
    OBVIOUS
  <2>5. /\ lost \subseteq 1..read /\ told \subseteq Statuses
        /\ pc = "none" /\ cleanup = "no" /\ client = "there"
    OBVIOUS
  <2> QED BY <2>1, <2>2, <2>3, <2>4, <2>5 DEF TypeOK
<1>2. ShownUpToLast /\ Announceable
  BY DEF ShownUpToLast, ShownInOrder, Announceable
<1>3. BacklogShown /\ StillToCome /\ NoSilentGaps
  BY DEF BacklogShown, StillToCome, NoSilentGaps, BacklogReady, Offsets
<1>4. EndCauses /\ TimersEndWithStream
  BY DEF EndCauses, TimersEndWithStream
<1> QED BY <1>1, <1>2, <1>3, <1>4 DEF EventsInv

-----------------------------------------------------------------------------
(* The types.                                                              *)

LEMMA AppendTypes ==
    ASSUME NEW s \in Seq(Messages), NEW m \in Messages
    PROVE  Append(s, m) \in Seq(Messages) /\ Len(s) \in Nat /\ Len(Append(s, m)) = Len(s) + 1
OBVIOUS

LEMMA WriterTypes ==
    ASSUME TypeOK, NEW w \in Writers, Write(w)
    PROVE  TypeOK'
<1> USE DEF TypeOK
<1>s. UNCHANGED streamVars
  BY DEF Write, Push, Mark, Publish, FailToPublish
<1>u. unannounced' \in BOOLEAN
  BY DEF Write, Push, Mark, Publish, FailToPublish
<1>1. CASE Push(w)
  <2>1. logged' \in 0..MaxEntries /\ Trace(logged') \in Messages
    BY <1>1, TraceIsMessage DEF Push, Offsets
  <2>2. pending' \in [Writers -> Seq(Messages)]
    BY <1>1, <2>1 DEF Push
  <2> QED BY <1>1, <1>s, <1>u, <2>1, <2>2 DEF Push, streamVars
<1>2. ASSUME NEW status \in {"running"} \cup Terminal, Mark(w, status) PROVE TypeOK'
  <2>1. record' \in Records /\ Status(record') \in Messages
    BY <1>2, RecordTypes, StatusIsMessage DEF Mark
  <2>2. pending' \in [Writers -> Seq(Messages)]
    BY <1>2, <2>1 DEF Mark
  <2> QED BY <1>2, <1>s, <1>u, <2>1, <2>2 DEF Mark, streamVars
<1>3. CASE Publish(w) \/ FailToPublish(w)
  <2>1. pending[w] \in Seq(Messages) /\ pending[w] # <<>>
    BY <1>3 DEF Publish, FailToPublish
  <2>2. Head(pending[w]) \in Messages /\ Tail(pending[w]) \in Seq(Messages)
    BY <2>1
  <2>3. pending' \in [Writers -> Seq(Messages)]
    BY <1>3, <2>2 DEF Publish, FailToPublish
  <2>4. chan' \in Seq(Messages) /\ Len(chan') >= Len(chan)
    <3>1. chan \in Seq(Messages) /\ chan' \in {chan, Append(chan, Head(pending[w]))}
      BY <1>3 DEF Publish, FailToPublish
    <3>2. /\ Append(chan, Head(pending[w])) \in Seq(Messages)
          /\ Len(chan) \in Nat /\ Len(Append(chan, Head(pending[w]))) = Len(chan) + 1
      <4>1. chan \in Seq(Messages) /\ Head(pending[w]) \in Messages
        BY <2>2, <3>1
      <4> HIDE DEF TypeOK
      <4> QED BY ONLY <4>1, AppendTypes
    <3>3. CASE chan' = chan
      BY <3>1, <3>2, <3>3
    <3>4. CASE chan' = Append(chan, Head(pending[w]))
      BY ONLY <3>2, <3>4
    <3> QED BY <3>1, <3>3, <3>4
  <2>5. read' \in 0..Len(chan') /\ read' = read
    BY <2>4, <1>s DEF streamVars
  <2> QED BY <1>3, <1>s, <1>u, <2>3, <2>4, <2>5 DEF Publish, FailToPublish, streamVars
<1> QED BY <1>1, <1>2, <1>3 DEF Write

LEMMA CleanUpTypes ==
    ASSUME TypeOK, CleanUp
    PROVE  /\ cleanup' \in {"no", "closing", "ended", "stuck"}
           /\ closeTimer' \in BOOLEAN /\ keepalive' \in BOOLEAN
BY DEF TypeOK, CleanUp

LEMMA NextMessageTypes ==
    ASSUME TypeOK, NextMessage, UNCHANGED chan
    PROVE  /\ read' \in 0..Len(chan') /\ read' \in 1..Len(chan) /\ lost \subseteq 1..read'
           /\ chan[read'] \in Messages
<1>1. read' \in 1..Len(chan) /\ read' = read + 1
  BY DEF TypeOK, NextMessage
<1>2. lost \subseteq 1..read /\ read \in Nat
  BY DEF TypeOK
<1>3. lost \subseteq 1..read'
  BY <1>1, <1>2
<1>4. chan \in Seq(Messages)
  BY DEF TypeOK
<1>5. chan[read'] \in Messages
  BY <1>1, <1>4
<1> QED BY <1>1, <1>3, <1>5

LEMMA PageLengthTypes ==
    ASSUME TypeOK
    PROVE  /\ PageLength(last) \in Nat /\ last + PageLength(last) <= MaxEntries
           /\ PageLength(last) > 0 => last + PageLength(last) <= logged
           /\ LastPage(PageLength(last)) => logged <= last + PageLength(last)
BY DEF TypeOK, PageLength, LastPage

LEMMA StreamTypes ==
    ASSUME TypeOK, Open \/ Subscribe \/ ListPage \/ ReadLatest \/ Answer \/ Receive
                   \/ LoseMessage \/ StreamFails \/ TimerFires \/ ClientGoes \/ CloseSubscriber \/ CloseFails
    PROVE  TypeOK'
<1>j. UNCHANGED jobVars
  BY DEF Open, Subscribe, ListPage, ReadLatest, Answer, AnswerGone, AnswerEnded, AnswerRunning,
     Receive, EmitTrace, EmitStatus, IgnoreMessage, LoseMessage, StreamFails, TimerFires,
     ClientGoes, CloseSubscriber, CloseFails
<1>0. /\ UNCHANGED <<logged, record, pending, chan, unannounced>>
      /\ logged' \in 0..MaxEntries /\ record' \in Records
      /\ pending' \in [Writers -> Seq(Messages)] /\ chan' \in Seq(Messages)
      /\ unannounced' \in BOOLEAN
  BY <1>j DEF jobVars, TypeOK
<1>1. CASE Open
  BY <1>0, <1>1 DEF Open, TypeOK
<1>2. CASE Subscribe
  <2>1. read' \in 0..Len(chan') /\ lost' \subseteq 1..read'
    BY <1>0, <1>2 DEF Subscribe, TypeOK
  <2> QED BY <1>0, <1>2, <2>1 DEF Subscribe, TypeOK
<1>3. CASE ListPage
  <2>1. last' \in 0..MaxEntries
    BY <1>3, PageLengthTypes DEF ListPage, TypeOK
  <2>2. [i \in 1..PageLength(last) |-> last + i] \in Seq(Offsets)
    <3>1. last \in Nat /\ MaxEntries \in Nat
      BY DEF TypeOK
    <3> QED BY <3>1, PageLengthTypes DEF Offsets
  <2>3. shown' \in Seq(Offsets)
    BY <1>3, <2>2 DEF ListPage, TypeOK
  <2>4. UNCHANGED <<start, read, lost, lastStatus, told, latest, closeTimer, keepalive, watching,
                    cleanup, client>> /\ pc' \in {"asking", pc}
    BY <1>3 DEF ListPage
  <2> QED BY <1>0, <2>1, <2>3, <2>4 DEF TypeOK
<1>4. CASE ReadLatest
  BY <1>0, <1>4 DEF ReadLatest, TypeOK
<1>5. CASE Answer
  <2>1. told' \subseteq Statuses /\ lastStatus' \in Records
    BY <1>5 DEF Answer, AnswerGone, AnswerEnded, AnswerRunning, TellLatest, TypeOK, Records
  <2>2. /\ cleanup' \in {"no", "closing", "ended", "stuck"}
        /\ closeTimer' \in BOOLEAN /\ keepalive' \in BOOLEAN /\ watching' \in BOOLEAN
    BY <1>5, CleanUpTypes DEF Answer, AnswerGone, AnswerEnded, AnswerRunning, TypeOK
  <2>3. UNCHANGED <<start, last, shown, read, lost, latest, client>>
        /\ pc' \in {"vanished", "returned", "open"}
    BY <1>5 DEF Answer, AnswerGone, AnswerEnded, AnswerRunning
  <2> QED BY <1>0, <2>1, <2>2, <2>3 DEF TypeOK
<1>6. CASE Receive \/ LoseMessage
  <2>1. NextMessage
    BY <1>6 DEF Receive, EmitTrace, EmitStatus, IgnoreMessage, LoseMessage
  <2>2. /\ read' \in 0..Len(chan') /\ read' \in 1..Len(chan) /\ lost \subseteq 1..read'
        /\ chan[read'] \in Messages
    BY <1>0, <2>1, NextMessageTypes
  <2>3. CASE EmitTrace
    <3>1. chan[read'].offset \in Offsets
      BY <2>2, <2>3, MessageKinds DEF EmitTrace
    <3>2. last' \in 0..MaxEntries /\ shown' \in Seq(Offsets)
      BY <2>3, <3>1 DEF EmitTrace, TypeOK, Offsets
    <3> QED BY <1>0, <2>2, <2>3, <3>2 DEF EmitTrace, TypeOK
  <2>4. CASE EmitStatus
    <3>1. chan[read'].key \in Records
      BY <2>2, <2>4, MessageKinds DEF EmitStatus
    <3>2. told' \subseteq Statuses /\ lastStatus' \in Records
      BY <2>4, <3>1 DEF EmitStatus, TypeOK, Records
    <3>3. closeTimer' \in BOOLEAN
      BY <2>4 DEF EmitStatus
    <3> QED BY <1>0, <2>2, <2>4, <3>2, <3>3 DEF EmitStatus, TypeOK
  <2>5. CASE IgnoreMessage
    BY <1>0, <2>2, <2>5 DEF IgnoreMessage, TypeOK
  <2>6. CASE LoseMessage
    <3>1. lost' \subseteq 1..read'
      BY <2>2, <2>6 DEF LoseMessage
    <3> QED BY <1>0, <2>2, <2>6, <3>1 DEF LoseMessage, TypeOK
  <2> QED BY <1>6, <2>3, <2>4, <2>5, <2>6 DEF Receive
<1>7. CASE StreamFails \/ TimerFires \/ ClientGoes
  <2>1. /\ cleanup' \in {"no", "closing", "ended", "stuck"}
        /\ closeTimer' \in BOOLEAN /\ keepalive' \in BOOLEAN
    BY <1>7, CleanUpTypes DEF StreamFails, TimerFires, ClientGoes, TypeOK
  <2>2. UNCHANGED <<start, last, shown, read, lost, lastStatus, told, latest, watching>>
        /\ pc' \in {pc, "failed"} /\ client' \in {client, "gone"}
    BY <1>7 DEF StreamFails, TimerFires, ClientGoes
  <2> QED BY <1>0, <2>1, <2>2 DEF TypeOK
<1>8. CASE CloseSubscriber \/ CloseFails
  BY <1>0, <1>8 DEF CloseSubscriber, CloseFails, TypeOK
<1> QED BY <1>1, <1>2, <1>3, <1>4, <1>5, <1>6, <1>7, <1>8

LEMMA TypeStep == TypeOK /\ [Next]_vars => TypeOK'
<1> SUFFICES ASSUME TypeOK, [Next]_vars PROVE TypeOK'
    OBVIOUS
<1>1. CASE TakeRecord
  <2>1. record' \in Records
    BY <1>1 DEF TakeRecord, TypeOK, Records, Statuses
  <2> QED BY <1>1, <2>1 DEF TakeRecord, TypeOK, streamVars
<1>2. CASE UNCHANGED vars
  BY <1>2 DEF vars, jobVars, streamVars, TypeOK
<1> QED BY <1>1, <1>2, WriterTypes, StreamTypes DEF Next

-----------------------------------------------------------------------------
(* What a step of a writer leaves alone.                                   *)

\* The channel only grows.
LEMMA ChannelGrows ==
    ASSUME TypeOK, [Next]_vars
    PROVE  /\ chan \in Seq(Messages) /\ chan' \in Seq(Messages) /\ Len(chan') >= Len(chan)
           /\ \A i \in 1..Len(chan) : chan'[i] = chan[i]
<1>1. chan \in Seq(Messages) /\ chan' \in Seq(Messages)
  BY TypeStep DEF TypeOK
<1>2. CASE chan' = chan
  BY <1>1, <1>2
<1>3. ASSUME NEW w \in Writers, Publish(w), Announced(Head(pending[w]))
      PROVE  Len(chan') >= Len(chan) /\ \A i \in 1..Len(chan) : chan'[i] = chan[i]
  <2>1. chan' = Append(chan, Head(pending[w]))
    BY <1>3 DEF Publish
  <2>2. Head(pending[w]) \in Messages
    BY <1>3 DEF Publish, TypeOK
  <2> QED BY <1>1, <2>1, <2>2
<1>4. chan' = chan \/ \E w \in Writers : Publish(w) /\ Announced(Head(pending[w]))
  BY DEF Next, Write, Push, Mark, Publish, FailToPublish, TakeRecord, Open, Subscribe, ListPage,
     ReadLatest, Answer, AnswerGone, AnswerEnded, AnswerRunning, Receive, EmitTrace, EmitStatus,
     IgnoreMessage, LoseMessage, StreamFails, TimerFires, ClientGoes, CloseSubscriber, CloseFails, vars, jobVars
<1> QED BY <1>1, <1>2, <1>3, <1>4

\* An entry once overtaken, or lost, stays so; and what was shown stays shown.
LEMMA GapsStayExcused ==
    ASSUME TypeOK, [Next]_vars, NEW k \in Offsets
    PROVE  /\ Overtaken(k) => Overtaken(k)'
           /\ LostOnTheWay(k) => LostOnTheWay(k)'
           /\ Shown(k) => Shown(k)'
<1>1. Overtaken(k) => Overtaken(k)'
  <2> SUFFICES ASSUME Overtaken(k) PROVE Overtaken(k)'
      OBVIOUS
  <2>1. PICK i \in 1..Len(chan) : /\ chan[i].type = "trace" /\ chan[i].offset > k
                                  /\ \A j \in 1..(i - 1) : chan[j] # Trace(k)
    BY DEF Overtaken
  <2>2. i \in 1..Len(chan') /\ chan'[i] = chan[i] /\ \A j \in 1..(i - 1) : chan'[j] = chan[j]
    BY ChannelGrows
  <2>3. Trace(k)' = Trace(k)
    BY DEF Trace
  <2> QED BY <2>1, <2>2, <2>3 DEF Overtaken
<1>2. LostOnTheWay(k) => LostOnTheWay(k)'
  <2> SUFFICES ASSUME NEW i \in lost, chan[i] = Trace(k) PROVE LostOnTheWay(k)'
      BY DEF LostOnTheWay
  <2>1. lost \subseteq 1..Len(chan)
    BY DEF TypeOK
  <2>2. chan'[i] = Trace(k)
    BY <2>1, ChannelGrows
  <2>3. lost \subseteq lost'
    BY DEF Next, Write, Push, Mark, Publish, FailToPublish, TakeRecord, Open, Subscribe, ListPage,
     ReadLatest, Answer, AnswerGone, AnswerEnded, AnswerRunning, Receive, EmitTrace, EmitStatus,
     IgnoreMessage, LoseMessage, StreamFails, TimerFires, ClientGoes, CloseSubscriber, CloseFails, vars,
     streamVars
  <2> QED BY <2>2, <2>3 DEF LostOnTheWay, Trace
<1>3. Shown(k) => Shown(k)'
  <2> SUFFICES ASSUME NEW i \in 1..Len(shown), shown[i] = k PROVE Shown(k)'
      BY DEF Shown
  <2>0. shown \in Seq(Offsets)
    BY DEF TypeOK
  <2>1. CASE shown' = shown
    BY <2>1 DEF Shown
  <2>2. CASE ListPage
    <3>1. PageLength(last) \in Nat /\ shown' = shown \o [j \in 1..PageLength(last) |-> last + j]
      BY <2>2, PageLengthTypes DEF ListPage
    <3>2. i \in 1..Len(shown') /\ shown'[i] = shown[i]
      BY <2>0, <3>1
    <3> QED BY <3>2 DEF Shown
  <2>3. CASE EmitTrace
    <3>1. shown' = Append(shown, chan[read'].offset)
      BY <2>3 DEF EmitTrace
    <3>2. i \in 1..Len(shown') /\ shown'[i] = shown[i]
      BY <2>0, <3>1
    <3> QED BY <3>2 DEF Shown
  <2>4. shown' = shown \/ ListPage \/ EmitTrace
    BY DEF Next, Write, Push, Mark, Publish, FailToPublish, TakeRecord, Open, Subscribe,
     ReadLatest, Answer, AnswerGone, AnswerEnded, AnswerRunning, Receive, EmitStatus,
     IgnoreMessage, LoseMessage, StreamFails, TimerFires, ClientGoes, CloseSubscriber, CloseFails, vars,
     streamVars
  <2> QED BY <2>1, <2>2, <2>3, <2>4
<1> QED BY <1>1, <1>2, <1>3

-----------------------------------------------------------------------------
(* The steps of the invariant.                                             *)

\* The actions that show entries or move lastTraceOffset.
LEMMA LastMoves ==
    ASSUME [Next]_vars
    PROVE  \/ Open \/ ListPage \/ EmitTrace
           \/ UNCHANGED <<shown, last, start>> /\ (pc' = "none" => pc = "none")
BY DEF Next, Write, Push, Mark, Publish, FailToPublish, TakeRecord, Open, Subscribe, ListPage,
     ReadLatest, Answer, AnswerGone, AnswerEnded, AnswerRunning, Receive, EmitTrace, EmitStatus,
     IgnoreMessage, LoseMessage, StreamFails, TimerFires, ClientGoes, CloseSubscriber, CloseFails, vars, streamVars

LEMMA OrderStep == EventsInv /\ [Next]_vars => ShownUpToLast'
<1> SUFFICES ASSUME EventsInv, [Next]_vars PROVE ShownUpToLast'
    OBVIOUS
<1>0. shown \in Seq(Offsets) /\ last \in Nat
  BY DEF EventsInv, TypeOK
<1>1. CASE Open
  BY <1>1 DEF Open, EventsInv, ShownUpToLast, ShownInOrder
<1>2. CASE ListPage
  <2>1. /\ PageLength(last) \in Nat /\ last' = last + PageLength(last)
        /\ shown' = shown \o [j \in 1..PageLength(last) |-> last + j]
        /\ pc' # "none"
    BY <1>2, PageLengthTypes DEF ListPage, EventsInv
  <2>2. Len(shown') = Len(shown) + PageLength(last) /\ Len(shown) \in Nat
    BY <1>0, <2>1
  <2>3. \A i \in 1..Len(shown) : shown'[i] = shown[i] /\ shown[i] <= last /\ shown[i] \in Nat
    BY <1>0, <2>1 DEF EventsInv, ShownUpToLast, Offsets
  <2>4. \A i \in 1..Len(shown') : i > Len(shown) => shown'[i] = last + (i - Len(shown))
    BY <1>0, <2>1, <2>2
  <2>5. ShownInOrder'
    <3> SUFFICES ASSUME NEW i \in 1..Len(shown'), NEW j \in 1..Len(shown'), i < j
                 PROVE  shown'[i] < shown'[j]
        BY DEF ShownInOrder
    <3>1. CASE j <= Len(shown)
      BY <2>2, <2>3, <3>1 DEF EventsInv, ShownUpToLast, ShownInOrder
    <3>2. CASE i <= Len(shown) /\ j > Len(shown)
      BY <1>0, <2>2, <2>3, <2>4, <3>2
    <3>3. CASE i > Len(shown)
      BY <1>0, <2>2, <2>4, <3>3
    <3> QED BY <2>2, <3>1, <3>2, <3>3
  <2>6. \A i \in 1..Len(shown') : shown'[i] <= last'
    BY <1>0, <2>1, <2>2, <2>3, <2>4
  <2> QED BY <2>1, <2>5, <2>6 DEF ShownUpToLast
<1>3. CASE EmitTrace
  <2>1. NextMessage /\ UNCHANGED chan
    BY <1>3 DEF EmitTrace, jobVars
  <2>2. chan[read'] \in Messages
    BY <2>1, NextMessageTypes DEF EventsInv
  <2>3. /\ last' \in Offsets /\ last' > last /\ shown' = Append(shown, last')
        /\ UNCHANGED pc
    BY <1>3, <2>2, MessageKinds DEF EmitTrace, IsNew
  <2>4. /\ Len(shown') = Len(shown) + 1 /\ Len(shown) \in Nat /\ shown'[Len(shown')] = last'
        /\ \A i \in 1..Len(shown) : shown'[i] = shown[i] /\ shown[i] \in Offsets
    BY <1>0, <2>3
  <2>5. \A i \in 1..Len(shown) : shown'[i] < last'
    BY <1>0, <2>3, <2>4 DEF EventsInv, ShownUpToLast, Offsets
  <2>6. ShownInOrder'
    <3> SUFFICES ASSUME NEW i \in 1..Len(shown'), NEW j \in 1..Len(shown'), i < j
                 PROVE  shown'[i] < shown'[j]
        BY DEF ShownInOrder
    <3>1. CASE j <= Len(shown)
      BY <2>4, <3>1 DEF EventsInv, ShownUpToLast, ShownInOrder
    <3>2. CASE j = Len(shown')
      BY <2>4, <2>5, <3>2
    <3> QED BY <2>4, <3>1, <3>2
  <2>7. \A i \in 1..Len(shown') : shown'[i] <= last'
    BY <2>3, <2>4, <2>5 DEF Offsets
  <2>8. pc' # "none"
    BY <2>1, <2>3 DEF NextMessage, BacklogReady
  <2> QED BY <2>6, <2>7, <2>8 DEF ShownUpToLast
<1>4. CASE UNCHANGED <<shown, last, start>> /\ (pc' = "none" => pc = "none")
  BY <1>4 DEF EventsInv, ShownUpToLast, ShownInOrder
<1> QED BY <1>1, <1>2, <1>3, <1>4, LastMoves

\* The elements of a sequence that was appended to, and of a tail.
LEMMA AppendElements ==
    ASSUME NEW s \in Seq(Messages), NEW m \in Messages, NEW i \in 1..Len(Append(s, m))
    PROVE  Append(s, m)[i] = m \/ (i \in 1..Len(s) /\ Append(s, m)[i] = s[i])
OBVIOUS

LEMMA TailElements ==
    ASSUME NEW s \in Seq(Messages), s # <<>>, NEW i \in 1..Len(Tail(s))
    PROVE  i + 1 \in 1..Len(s) /\ Tail(s)[i] = s[i + 1]
OBVIOUS

LEMMA AnnounceStep == EventsInv /\ [Next]_vars => Announceable'
<1> SUFFICES ASSUME EventsInv, [Next]_vars PROVE Announceable'
    OBVIOUS
<1>0. /\ logged \in Nat /\ pending \in [Writers -> Seq(Messages)] /\ chan \in Seq(Messages)
      /\ Announceable
  BY DEF EventsInv, TypeOK
<1>1. ASSUME NEW w \in Writers, NEW m \in Messages, m.type = "trace" => m.offset <= logged',
             pending' = [pending EXCEPT ![w] = Append(@, m)], chan' = chan,
             logged' \in Nat, logged' >= logged
      PROVE  Announceable'
  <2>1. ASSUME NEW v \in Writers, NEW i \in 1..Len(pending'[v]), pending'[v][i].type = "trace"
        PROVE  pending'[v][i].offset <= logged'
    <3>1. pending'[v][i] = m \/ (i \in 1..Len(pending[v]) /\ pending'[v][i] = pending[v][i])
      BY <1>0, <1>1
    <3>2. CASE pending'[v][i] = m
      BY <1>1, <2>1, <3>2
    <3>3. CASE i \in 1..Len(pending[v]) /\ pending'[v][i] = pending[v][i]
      <4>1. pending[v][i] \in Messages
        BY <1>0, <3>3
      <4>2. pending[v][i].offset \in Nat /\ pending[v][i].offset <= logged
        BY <1>0, <2>1, <3>3, <4>1, MessageKinds DEF Announceable, Offsets
      <4> QED BY <1>0, <1>1, <3>3, <4>2
    <3> QED BY <3>1, <3>2, <3>3
  <2>2. ASSUME NEW i \in 1..Len(chan'), chan'[i].type = "trace"
        PROVE  chan'[i].offset <= logged'
    <3>1. chan[i] \in Messages /\ i \in 1..Len(chan) /\ chan'[i] = chan[i]
      BY <1>0, <1>1
    <3>2. chan[i].offset \in Nat /\ chan[i].offset <= logged
      BY <1>0, <2>2, <3>1, MessageKinds DEF Announceable, Offsets
    <3> QED BY <1>0, <1>1, <3>1, <3>2
  <2> QED BY <2>1, <2>2 DEF Announceable
<1>2. ASSUME NEW w \in Writers, Push(w) PROVE Announceable'
  <2>1. logged' \in Offsets /\ logged' \in Nat /\ logged' >= logged
    BY <1>0, <1>2 DEF Push, Offsets
  <2>2. Trace(logged') \in Messages /\ Trace(logged').offset <= logged'
    BY <2>1, TraceIsMessage
  <2> QED BY <1>1, <1>2, <2>1, <2>2 DEF Push
<1>3. ASSUME NEW w \in Writers, NEW status \in {"running"} \cup Terminal, Mark(w, status)
      PROVE  Announceable'
  <2>1. Status(record') \in Messages /\ Status(record').type = "status"
    BY <1>3, RecordTypes, StatusIsMessage DEF Mark, EventsInv
  <2>2. logged' = logged /\ chan' = chan
        /\ pending' = [pending EXCEPT ![w] = Append(@, Status(record'))]
    BY <1>3 DEF Mark
  <2>3. Status(record').type = "trace" => Status(record').offset <= logged'
    BY <2>1
  <2>4. logged' \in Nat /\ logged' >= logged
    BY <1>0, <2>2
  <2> QED BY <1>1, <2>1, <2>2, <2>3, <2>4
<1>4. ASSUME NEW w \in Writers, Publish(w) \/ FailToPublish(w) PROVE Announceable'
  <2>1. /\ pending[w] \in Seq(Messages) /\ pending[w] # <<>>
        /\ pending' = [pending EXCEPT ![w] = Tail(@)]
        /\ logged' = logged
        /\ chan' \in {chan, Append(chan, Head(pending[w]))}
    BY <1>0, <1>4 DEF Publish, FailToPublish
  <2>2. ASSUME NEW v \in Writers, NEW i \in 1..Len(pending'[v])
        PROVE  \E j \in 1..Len(pending[v]) : pending'[v][i] = pending[v][j]
    <3>1. CASE v = w
      <4>1. pending'[v] = Tail(pending[w])
        BY <1>0, <2>1, <3>1
      <4>2. i + 1 \in 1..Len(pending[w]) /\ Tail(pending[w])[i] = pending[w][i + 1]
        BY <2>1, <2>2, <4>1, TailElements
      <4> QED BY <3>1, <4>1, <4>2
    <3>2. CASE v # w
      BY <1>0, <2>1, <3>2
    <3> QED BY <3>1, <3>2
  <2>3. ASSUME NEW i \in 1..Len(chan')
        PROVE  (i \in 1..Len(chan) /\ chan'[i] = chan[i]) \/ chan'[i] = pending[w][1]
    <3>1. Head(pending[w]) \in Messages /\ Head(pending[w]) = pending[w][1]
      BY <2>1
    <3>2. CASE chan' = Append(chan, Head(pending[w]))
      BY <1>0, <2>3, <3>1, <3>2, AppendElements
    <3>3. CASE chan' = chan
      BY <2>3, <3>3
    <3> QED BY <2>1, <3>2, <3>3
  <2>4. 1 \in 1..Len(pending[w])
    BY <2>1
  <2>5. ASSUME NEW v \in Writers, NEW i \in 1..Len(pending'[v]), pending'[v][i].type = "trace"
        PROVE  pending'[v][i].offset <= logged'
    <3>1. PICK j \in 1..Len(pending[v]) : pending'[v][i] = pending[v][j]
      BY <2>2, <2>5
    <3> QED BY <1>0, <2>1, <2>5, <3>1 DEF Announceable
  <2>6. ASSUME NEW i \in 1..Len(chan'), chan'[i].type = "trace"
        PROVE  chan'[i].offset <= logged'
    BY <1>0, <2>1, <2>3, <2>4, <2>6 DEF Announceable
  <2> QED BY <2>5, <2>6 DEF Announceable
<1>5. CASE UNCHANGED <<logged, pending, chan>>
  BY <1>0, <1>5 DEF Announceable
<1>6. UNCHANGED <<logged, pending, chan>> \/ \E w \in Writers : Write(w)
  BY DEF Next, Write, Push, Mark, Publish, FailToPublish, TakeRecord, Open, Subscribe, ListPage,
     ReadLatest, Answer, AnswerGone, AnswerEnded, AnswerRunning, Receive, EmitTrace, EmitStatus,
     IgnoreMessage, LoseMessage, StreamFails, TimerFires, ClientGoes, CloseSubscriber, CloseFails, vars, jobVars
<1> QED BY <1>2, <1>3, <1>4, <1>5, <1>6 DEF Write

LEMMA PageIsShown ==
    ASSUME EventsInv, ListPage
    PROVE  /\ \A k \in Offsets : k > start /\ k <= last' => Shown(k)'
           /\ start' = start /\ last' \in Nat
           /\ pc' # "listing" => logged <= last'
<1>0. shown \in Seq(Offsets) /\ last \in Nat /\ BacklogShown /\ pc = "listing" /\ TypeOK
  BY DEF EventsInv, TypeOK, ListPage
<1>1. /\ PageLength(last) \in Nat /\ last' = last + PageLength(last) /\ start' = start
      /\ shown' = shown \o [j \in 1..PageLength(last) |-> last + j]
      /\ pc' # "listing" => logged <= last'
  BY <1>0, PageLengthTypes DEF ListPage
<1>2. ASSUME NEW k \in Offsets, k > start, k <= last' PROVE Shown(k)'
  <2>1. CASE k <= last
    <3>1. PICK i \in 1..Len(shown) : shown[i] = k
      BY <1>0, <1>2, <2>1 DEF BacklogShown, Shown
    <3>2. i \in 1..Len(shown') /\ shown'[i] = k
      BY <1>0, <1>1, <3>1
    <3> QED BY <3>2 DEF Shown
  <2>2. CASE k > last
    <3>1. k - last \in 1..PageLength(last)
      BY <1>0, <1>1, <1>2, <2>2 DEF Offsets
    <3>2. /\ Len(shown) + (k - last) \in 1..Len(shown')
          /\ shown'[Len(shown) + (k - last)] = last + (k - last)
      BY <1>0, <1>1, <3>1
    <3>3. last + (k - last) = k
      BY <1>0 DEF Offsets
    <3> QED BY <3>2, <3>3 DEF Shown
  <2> QED BY <1>0, <2>1, <2>2 DEF Offsets
<1> QED BY <1>0, <1>1, <1>2

LEMMA BacklogStep == EventsInv /\ [Next]_vars => BacklogShown'
<1> SUFFICES ASSUME EventsInv, [Next]_vars,
                    pc' \in {"none", "refused", "subscribing", "listing"}
             PROVE  /\ cleanup' = "no" /\ ~closeTimer'
                    /\ \A k \in Offsets : k > start' /\ k <= last' => Shown(k)'
    BY DEF BacklogShown
<1>0. BacklogShown /\ EndCauses
  BY DEF EventsInv
<1>1. CASE Open
  BY <1>0, <1>1 DEF Open, BacklogShown, Offsets
<1>2. CASE ListPage
  <2>1. cleanup' = "no" /\ ~closeTimer'
    BY <1>0, <1>2 DEF ListPage, BacklogShown
  <2> QED BY <1>2, <2>1, PageIsShown
<1>3. CASE ~Open /\ ~ListPage
  <2>1. /\ pc \in {"none", "refused", "subscribing", "listing"}
        /\ UNCHANGED <<start, last, shown, cleanup, closeTimer>>
    BY <1>0, <1>3 DEF Next, Write, Push, Mark, Publish, FailToPublish, TakeRecord, Open, Subscribe, ListPage,
     ReadLatest, Answer, AnswerGone, AnswerEnded, AnswerRunning, Receive, EmitTrace, EmitStatus,
     IgnoreMessage, LoseMessage, StreamFails, TimerFires, ClientGoes, CloseSubscriber, CloseFails, vars, streamVars, BacklogShown, EndCauses, NextMessage, BacklogReady
  <2> QED BY <1>0, <2>1 DEF BacklogShown, Shown
<1> QED BY <1>1, <1>2, <1>3

LEMMA StillStep == EventsInv /\ [Next]_vars => StillToCome'
<1> SUFFICES ASSUME EventsInv, [Next]_vars, BacklogReady', cleanup' = "no",
                    NEW k \in Offsets, k > last',
                    NEW i \in 1..read', chan'[i] = Trace(k)
             PROVE  i \in lost'
    BY DEF StillToCome, Trace
<1>0. /\ StillToCome /\ Announceable /\ BacklogShown /\ EndCauses /\ TypeOK
      /\ read \in 0..Len(chan) /\ last \in Nat /\ chan \in Seq(Messages) /\ k \in Nat
  BY DEF EventsInv, TypeOK, Offsets
<1>1. CASE ListPage
  <2>1. pc' # "listing" /\ logged <= last' /\ last' \in Nat /\ logged \in Nat
    BY <1>0, <1>1, PageIsShown DEF BacklogReady, TypeOK
  <2>2. i \in 1..Len(chan) /\ chan[i] = Trace(k)
    BY <1>0, <1>1 DEF ListPage, jobVars
  <2>3. k <= logged
    BY <1>0, <2>2, TraceIsMessage DEF Announceable
  <2> QED BY <1>0, <2>1, <2>3
<1>2. CASE Receive \/ LoseMessage
  <2>1. NextMessage /\ chan' = chan /\ pc' = pc /\ cleanup = "no"
    BY <1>2 DEF Receive, EmitTrace, EmitStatus, IgnoreMessage, LoseMessage, jobVars
  <2>2. read' = read + 1 /\ chan[read'] \in Messages
    BY <1>0, <2>1, NextMessageTypes DEF NextMessage
  <2>3. last' \in Nat /\ last' >= last /\ lost \subseteq lost'
    <3>1. CASE EmitTrace
      BY <1>0, <2>2, <3>1, MessageKinds DEF EmitTrace, IsNew, Offsets
    <3>2. CASE EmitStatus \/ IgnoreMessage \/ LoseMessage
      BY <1>0, <3>2 DEF EmitStatus, IgnoreMessage, LoseMessage
    <3> QED BY <1>2, <3>1, <3>2 DEF Receive
  <2>4. CASE i \in 1..read
    BY <1>0, <2>1, <2>3, <2>4 DEF StillToCome, NextMessage
  <2>5. CASE i = read'
    <3>1. chan[read'].type = "trace" /\ chan[read'].offset = k
      BY <2>1, <2>5, TraceIsMessage
    <3>2. ~EmitTrace /\ ~EmitStatus /\ ~IgnoreMessage
      BY <1>0, <2>1, <2>3, <3>1 DEF EmitTrace, EmitStatus, IgnoreMessage, IsNew
    <3> QED BY <1>2, <2>5, <3>2 DEF Receive, LoseMessage
  <2> QED BY <1>0, <2>2, <2>4, <2>5
<1>3. CASE ~ListPage /\ ~Receive /\ ~LoseMessage
  <2>1. /\ BacklogReady /\ cleanup = "no" /\ UNCHANGED <<read, last, lost>>
    BY <1>0, <1>3 DEF Next, Write, Push, Mark, Publish, FailToPublish, TakeRecord, Open,
     Subscribe, ReadLatest, Answer, AnswerGone, AnswerEnded, AnswerRunning, StreamFails,
     TimerFires, ClientGoes, CloseSubscriber, CloseFails, CleanUp, vars, streamVars, BacklogReady
  <2>2. i \in 1..Len(chan) /\ chan[i] = Trace(k)
    BY <1>0, <2>1, ChannelGrows
  <2> QED BY <1>0, <2>1, <2>2 DEF StillToCome
<1> QED BY <1>1, <1>2, <1>3

LEMMA GapStep == EventsInv /\ [Next]_vars => NoSilentGaps'
<1> SUFFICES ASSUME EventsInv, [Next]_vars, NEW k \in Offsets, k > start', k <= last'
             PROVE  Shown(k)' \/ Overtaken(k)' \/ LostOnTheWay(k)'
    BY DEF NoSilentGaps
<1>0. /\ NoSilentGaps /\ StillToCome /\ TypeOK
      /\ read \in 0..Len(chan) /\ last \in Nat /\ chan \in Seq(Messages) /\ k \in Nat
  BY DEF EventsInv, TypeOK, Offsets
<1>1. CASE Open
  BY <1>0, <1>1 DEF Open
<1>2. CASE ListPage
  BY <1>2, PageIsShown
<1>3. CASE UNCHANGED <<shown, last, start>>
  BY <1>0, <1>3, GapsStayExcused DEF NoSilentGaps
<1>4. CASE EmitTrace
  <2>1. NextMessage /\ chan' = chan /\ cleanup = "no" /\ start' = start /\ lost' = lost
    BY <1>4 DEF EmitTrace, jobVars
  <2>2. read' = read + 1 /\ read' \in 1..Len(chan) /\ chan[read'] \in Messages
    BY <1>0, <2>1, NextMessageTypes DEF NextMessage
  <2>3. /\ chan[read'].type = "trace" /\ last' = chan[read'].offset /\ last' \in Nat
        /\ shown' = Append(shown, last')
    BY <1>4, <2>2, MessageKinds DEF EmitTrace, Offsets
  <2>4. CASE k <= last
    BY <1>0, <2>1, <2>4, GapsStayExcused DEF NoSilentGaps
  <2>5. CASE k = last'
    <3>1. shown \in Seq(Offsets) /\ last' \in Offsets
      BY <1>0, <2>5 DEF TypeOK
    <3>2. Len(shown') \in 1..Len(shown') /\ shown'[Len(shown')] = k
      BY <2>3, <2>5, <3>1
    <3> QED BY <3>2 DEF Shown
  <2>6. CASE k > last /\ k < last'
    <3>1. CASE \E i \in 1..read : chan[i] = Trace(k)
      <4>1. PICK i \in 1..read : chan[i] = Trace(k)
        BY <3>1
      <4>2. i \in lost
        BY <1>0, <2>1, <2>6, <4>1 DEF NextMessage, StillToCome
      <4> QED BY <2>1, <4>1, <4>2 DEF LostOnTheWay, Trace
    <3>2. CASE \A i \in 1..read : chan[i] # Trace(k)
      <4>1. \A i \in 1..(read' - 1) : chan[i] # Trace(k)
        BY <1>0, <2>2, <3>2
      <4>2. Overtaken(k)
        BY <2>2, <2>3, <2>6, <4>1 DEF Overtaken
      <4> QED BY <1>0, <4>2, GapsStayExcused
    <3> QED BY <3>1, <3>2
  <2> QED BY <1>0, <2>3, <2>4, <2>5, <2>6
<1> QED BY <1>1, <1>2, <1>3, <1>4, LastMoves

LEMMA EndStep == EventsInv /\ [Next]_vars => EndCauses' /\ TimersEndWithStream'
<1> SUFFICES ASSUME EventsInv, [Next]_vars PROVE EndCauses' /\ TimersEndWithStream'
    OBVIOUS
<1> USE DEF EndCauses, TimersEndWithStream
<1>0. EndCauses /\ TimersEndWithStream /\ TypeOK
  BY DEF EventsInv
<1>1. CASE AnswerGone \/ StreamFails
  BY <1>0, <1>1 DEF AnswerGone, StreamFails, CleanUp
<1>2. CASE AnswerEnded
  BY <1>0, <1>2 DEF AnswerEnded, TellLatest, CleanUp
<1>3. CASE AnswerRunning
  BY <1>0, <1>3 DEF AnswerRunning, TellLatest
<1>4. CASE TimerFires \/ ClientGoes
  BY <1>0, <1>4 DEF TimerFires, ClientGoes, CleanUp
<1>5. CASE CloseSubscriber \/ CloseFails \/ ReadLatest \/ Open \/ Subscribe \/ ListPage
  BY <1>0, <1>5 DEF CloseSubscriber, CloseFails, ReadLatest, Open, Subscribe, ListPage
<1>6. CASE EmitStatus
  BY <1>0, <1>6 DEF EmitStatus
<1>7. CASE UNCHANGED <<pc, told, latest, closeTimer, keepalive, watching, cleanup, client>>
  BY <1>0, <1>7
<1> QED
  BY <1>1, <1>2, <1>3, <1>4, <1>5, <1>6, <1>7
     DEF Next, Write, Push, Mark, Publish, FailToPublish, TakeRecord, Answer, Receive, EmitTrace,
     IgnoreMessage, LoseMessage, vars, streamVars

LEMMA EventsInvAlways == Spec => []EventsInv
<1>1. EventsInv /\ [Next]_vars => EventsInv'
  BY TypeStep, OrderStep, AnnounceStep, BacklogStep, StillStep, GapStep, EndStep DEF EventsInv
<1> QED BY EventsInvInit, <1>1, PTL DEF Spec

-----------------------------------------------------------------------------
(* The theorems.                                                           *)

\* Every state of a stream and its writers is well typed; in particular a stream
\* never reads beyond the list or the channel.
THEOREM StreamTypesCorrect == Spec => []TypeOK
<1>1. EventsInv => TypeOK
  BY DEF EventsInv
<1> QED BY <1>1, EventsInvAlways, PTL

\* No entry is shown twice, and none after a later one, although backlog and
\* channel overlap.
THEOREM EntriesInOrder == Spec => []ShownInOrder
<1>1. EventsInv => ShownInOrder
  BY DEF EventsInv, ShownUpToLast
<1> QED BY <1>1, EventsInvAlways, PTL

\* Where backlog and channel meet no entry is missing: every gap is an entry
\* announced after a later one, or never, or lost on the way.
THEOREM GapsAreExcused == Spec => []NoSilentGaps
<1>1. EventsInv => NoSilentGaps
  BY DEF EventsInv
<1> QED BY <1>1, EventsInvAlways, PTL

\* The server ends a stream only after a terminal status was sent, or for one of
\* the named reasons.
THEOREM EndsAreTold == Spec => []EndIsTold
<1>1. EventsInv => EndIsTold
  BY DEF EventsInv, EndCauses, EndIsTold
<1> QED BY <1>1, EventsInvAlways, PTL

\* A stream that has ended holds no timer, but for the keepalive interval armed on
\* an outdated answer.
THEOREM TimersAreReleased == Spec => []TimersEndWithStream
<1>1. EventsInv => TimersEndWithStream
  BY DEF EventsInv
<1> QED BY <1>1, EventsInvAlways, PTL
=============================================================================
