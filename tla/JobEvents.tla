------------------------------ MODULE JobEvents ------------------------------
(***************************************************************************)
(* The event stream of a job: GET /v1/jobs/:jobId/events (api/routes.ts)   *)
(* against the processes that append trace entries and mark statuses       *)
(* (store/trace-store.ts, store/job-store.ts) and announce both on the     *)
(* job's Redis channel (store/job-events.ts).                              *)
(*                                                                         *)
(* A writer first changes Redis and then announces the change, in two      *)
(* commands; a stream first subscribes, then reads the backlog page by     *)
(* page, then the record, and lets the channel's messages in after the     *)
(* backlog.  Streams share nothing, so there is one.  The k-th entry of    *)
(* the trace list is known by its offset k.                                *)
(***************************************************************************)
EXTENDS Naturals, Sequences, FiniteSets

CONSTANTS
    Writers,      (* processes that write traces and statuses of the job   *)
    PageSize,     (* entries per page of the backlog                       *)
    MaxEntries,   (* bound: entries of the trace list                      *)
    MaxMarks,     (* bound: status marks                                   *)
    MaxLosses     (* bound: messages lost by the subscriber's connection   *)

ASSUME PageAssumption  == PageSize \in Nat \ {0}
ASSUME BoundAssumption == MaxEntries \in Nat /\ MaxMarks \in Nat /\ MaxLosses \in Nat

VARIABLES
    logged,       (* length of the trace list                              *)
    record,       (* the job's status and the time of its mark, or gone    *)
    pending,      (* what each writer has written and not yet announced    *)
    chan,         (* the messages of the channel, since the beginning      *)
    unannounced,  (* some status was never announced                       *)
    pc,           (* position of the handler                               *)
    start,        (* query.offset                                          *)
    last,         (* lastTraceOffset                                       *)
    shown,        (* offsets of the trace entries sent to the client       *)
    read,         (* messages of chan that the subscriber is through with  *)
    lost,         (* those that its connection lost                        *)
    lastStatus,   (* lastStatusKey                                         *)
    told,         (* statuses sent to the client                           *)
    latest,       (* the record read after the backlog                     *)
    closeTimer,   (* the 300 ms timer is armed                             *)
    keepalive,    (* the keepalive interval is armed                       *)
    watching,     (* the request's close handler is registered             *)
    cleanup,      (* "no", "closing" (cleanedUp), "ended" or "stuck"       *)
    client        (* "there", "gone"                                       *)

jobVars == <<logged, record, pending, chan, unannounced>>
streamVars == <<pc, start, last, shown, read, lost, lastStatus, told, latest,
                closeTimer, keepalive, watching, cleanup, client>>
vars == <<jobVars, streamVars>>

-----------------------------------------------------------------------------
Offsets == 1..MaxEntries
Terminal == {"succeeded"}
Statuses == {"queued", "running", "gone"} \cup Terminal

\* updated_at, as the number of the mark.
Records == [status : Statuses, at : 0..MaxMarks]

Trace(k)  == [type |-> "trace", offset |-> k]
Status(r) == [type |-> "status", key |-> r]
Messages  == {Trace(k) : k \in Offsets} \cup {Status(r) : r \in Records}

\* lastStatusKey before any status was sent.
NoStatus == [status |-> "gone", at |-> 0]

TypeOK ==
    /\ logged \in 0..MaxEntries
    /\ record \in Records
    /\ pending \in [Writers -> Seq(Messages)]
    /\ chan \in Seq(Messages)
    /\ unannounced \in BOOLEAN
    /\ pc \in {"none", "refused", "subscribing", "listing", "asking", "asked",
               "open", "returned", "vanished", "failed"}
    /\ start \in 0..MaxEntries
    /\ last \in 0..MaxEntries
    /\ shown \in Seq(Offsets)
    /\ read \in 0..Len(chan)
    /\ lost \subseteq 1..read
    /\ lastStatus \in Records
    /\ told \subseteq Statuses
    /\ latest \in Records
    /\ closeTimer \in BOOLEAN /\ keepalive \in BOOLEAN /\ watching \in BOOLEAN
    /\ cleanup \in {"no", "closing", "ended", "stuck"}
    /\ client \in {"there", "gone"}

Init ==
    /\ logged = 0
    /\ record = [status |-> "queued", at |-> 0]
    /\ pending = [w \in Writers |-> <<>>]
    /\ chan = <<>>
    /\ unannounced = FALSE
    /\ pc = "none"
    /\ start = 0 /\ last = 0 /\ shown = <<>>
    /\ read = 0 /\ lost = {}
    /\ lastStatus = NoStatus /\ told = {} /\ latest = NoStatus
    /\ closeTimer = FALSE /\ keepalive = FALSE /\ watching = FALSE
    /\ cleanup = "no"
    /\ client = "there"

-----------------------------------------------------------------------------
(* The writers.  A process uses one connection: its announcements follow   *)
(* each other in the order of its writes.                                  *)

\* RedisTraceStore.append: RPUSH, whose reply is the offset to announce.
Push(w) ==
    /\ logged < MaxEntries
    /\ logged' = logged + 1
    /\ pending' = [pending EXCEPT ![w] = Append(@, Trace(logged'))]
    /\ UNCHANGED <<record, chan, unannounced, streamVars>>

\* A mark of the job store: HSET of status and updated_at.  Of a missing record it
\* makes one without a tenant, which the handlers answer with 404 and whose
\* announcement parseJobEventMessage drops: a stream never sees such a mark.
Mark(w, status) ==
    /\ record.status # "gone"
    /\ record.at < MaxMarks
    /\ record' = [status |-> status, at |-> record.at + 1]
    /\ pending' = [pending EXCEPT ![w] = Append(@, Status(record'))]
    /\ UNCHANGED <<logged, chan, unannounced, streamVars>>

\* Every mark reads the record before it announces: a record that was taken
\* away meanwhile is not announced.
Announced(m) == m.type = "trace" \/ record.status # "gone"

\* PUBLISH, publishTrace or publishStatus.
Publish(w) ==
    /\ pending[w] # <<>>
    /\ pending' = [pending EXCEPT ![w] = Tail(@)]
    /\ IF Announced(Head(pending[w]))
       THEN chan' = Append(chan, Head(pending[w])) /\ UNCHANGED unannounced
       ELSE UNCHANGED chan /\ unannounced' = TRUE
    /\ UNCHANGED <<logged, record, streamVars>>

\* The writer dies, or its command fails, between the write and the PUBLISH.
FailToPublish(w) ==
    /\ pending[w] # <<>>
    /\ pending' = [pending EXCEPT ![w] = Tail(@)]
    /\ unannounced' = (unannounced \/ Head(pending[w]).type = "status")
    /\ UNCHANGED <<logged, record, chan, streamVars>>

\* A reader takes the result, or the record expires.
TakeRecord ==
    /\ record.status # "gone"
    /\ record' = [record EXCEPT !.status = "gone"]
    /\ UNCHANGED <<logged, pending, chan, unannounced, streamVars>>

-----------------------------------------------------------------------------
(* The stream.                                                             *)

\* The record exists, or 404; the headers are sent.
Open ==
    /\ pc = "none"
    /\ \E offset \in 0..MaxEntries : start' = offset /\ last' = offset
    /\ pc' = IF record.status = "gone" THEN "refused" ELSE "subscribing"
    /\ UNCHANGED <<jobVars, shown, read, lost, lastStatus, told, latest, closeTimer,
                   keepalive, watching, cleanup, client>>

\* SUBSCRIBE: from now on the channel's messages reach the process.  They wait
\* in bufferedEvents, or on their way, until the backlog has been read.
Subscribe ==
    /\ pc = "subscribing"
    /\ pc' = "listing"
    /\ read' = Len(chan)
    /\ UNCHANGED <<jobVars, start, last, shown, lost, lastStatus, told, latest,
                   closeTimer, keepalive, watching, cleanup, client>>

\* LRANGE: the entries of one page after offset o.
PageLength(o) == IF logged <= o THEN 0
                 ELSE IF logged - o < PageSize THEN logged - o ELSE PageSize

\* Variant: the loop stops after any page that is not too long.
LastPageTooEarly(n) == n <= PageSize

\* The loop over the backlog ends with a page that is not full.
LastPage(n) == n < PageSize

ListPage ==
    /\ pc = "listing"
    /\ LET n == PageLength(last) IN
           /\ shown' = shown \o [i \in 1..n |-> last + i]
           /\ last' = last + n
           /\ pc' = IF LastPage(n) THEN "asking" ELSE pc
    /\ UNCHANGED <<jobVars, start, read, lost, lastStatus, told, latest, closeTimer,
                   keepalive, watching, cleanup, client>>

BacklogReady == pc \in {"asking", "asked", "open", "returned", "vanished"}

\* A message of the channel is taken off; the subscriber is closed by cleanup.
NextMessage ==
    /\ BacklogReady
    /\ cleanup \notin {"ended", "stuck"}
    /\ read < Len(chan)
    /\ read' = read + 1

\* Variant: entries that the backlog has shown are shown again.
IsNewAlways(k) == TRUE

IsNew(k) == k > last

EmitTrace ==
    /\ NextMessage
    /\ cleanup = "no"
    /\ LET m == chan[read'] IN
           /\ m.type = "trace"
           /\ IsNew(m.offset)
           /\ last' = m.offset
           /\ shown' = Append(shown, m.offset)
    /\ UNCHANGED <<jobVars, pc, start, lost, lastStatus, told, latest, closeTimer,
                   keepalive, watching, cleanup, client>>

\* Variant: a message never ends the stream.
EmitStatusOnly ==
    /\ NextMessage
    /\ cleanup = "no"
    /\ LET m == chan[read'] IN
           /\ m.type = "status"
           /\ m.key # lastStatus
           /\ lastStatus' = m.key
           /\ told' = told \cup {m.key.status}
    /\ UNCHANGED <<jobVars, pc, start, last, shown, lost, latest, closeTimer, keepalive,
                   watching, cleanup, client>>

\* emitStatus of a message: a terminal status arms the close timer.
EmitStatus ==
    /\ NextMessage
    /\ cleanup = "no"
    /\ LET m == chan[read'] IN
           /\ m.type = "status"
           /\ m.key # lastStatus
           /\ lastStatus' = m.key
           /\ told' = told \cup {m.key.status}
           /\ closeTimer' = (closeTimer \/ m.key.status \in Terminal)
    /\ UNCHANGED <<jobVars, pc, start, last, shown, lost, latest, keepalive, watching,
                   cleanup, client>>

\* A known entry, a repeated status, or a message after cleanup has begun.
IgnoreMessage ==
    /\ NextMessage
    /\ LET m == chan[read'] IN
           \/ cleanup # "no"
           \/ m.type = "trace" /\ ~IsNew(m.offset)
           \/ m.type = "status" /\ m.key = lastStatus
    /\ UNCHANGED <<jobVars, pc, start, last, shown, lost, lastStatus, told, latest,
                   closeTimer, keepalive, watching, cleanup, client>>

\* The subscriber's connection breaks and is made again: messages are lost.
LoseMessage ==
    /\ NextMessage
    /\ Cardinality(lost) < MaxLosses
    /\ lost' = lost \cup {read'}
    /\ UNCHANGED <<jobVars, pc, start, last, shown, lastStatus, told, latest,
                   closeTimer, keepalive, watching, cleanup, client>>

\* The record is read once more when the backlog has been shown ...
ReadLatest ==
    /\ pc = "asking"
    /\ pc' = "asked"
    /\ latest' = record
    /\ UNCHANGED <<jobVars, start, last, shown, read, lost, lastStatus, told,
                   closeTimer, keepalive, watching, cleanup, client>>

\* Variant: the timers outlive the stream.
CleanUpKeepingTimers ==
    /\ cleanup' = IF cleanup = "no" THEN "closing" ELSE cleanup
    /\ UNCHANGED <<closeTimer, keepalive>>

\* cleanup(): only the first call does anything, up to its first await.
CleanUp ==
    IF cleanup = "no"
    THEN cleanup' = "closing" /\ closeTimer' = FALSE /\ keepalive' = FALSE
    ELSE UNCHANGED <<cleanup, closeTimer, keepalive>>

\* emitStatus(latest): nothing is written to a response that has ended.
TellLatest ==
    /\ lastStatus' = latest
    /\ told' = IF cleanup = "ended" THEN told ELSE told \cup {latest.status}

\* ... and its reply is dealt with, any number of messages later.
AnswerGone ==
    /\ pc = "asked"
    /\ latest.status = "gone"
    /\ pc' = "vanished"
    /\ CleanUp
    /\ UNCHANGED <<jobVars, start, last, shown, read, lost, lastStatus, told, latest,
                   watching, client>>

\* Variant: the stream of a finished job is closed without a word.
AnswerEndedSilently ==
    /\ pc = "asked"
    /\ latest.status \in Terminal
    /\ pc' = "returned"
    /\ CleanUp
    /\ UNCHANGED <<jobVars, start, last, shown, read, lost, lastStatus, told, latest,
                   watching, client>>

AnswerEnded ==
    /\ pc = "asked"
    /\ latest.status \in Terminal
    /\ pc' = "returned"
    /\ TellLatest
    /\ CleanUp
    /\ UNCHANGED <<jobVars, start, last, shown, read, lost, latest, watching, client>>

\* The stream stays: keepalive and close handler, even if cleanup has begun.
AnswerRunning ==
    /\ pc = "asked"
    /\ latest.status \notin Terminal \cup {"gone"}
    /\ pc' = "open"
    /\ TellLatest
    /\ keepalive' = TRUE
    /\ watching' = TRUE
    /\ UNCHANGED <<jobVars, start, last, shown, read, lost, latest, closeTimer,
                   cleanup, client>>

\* An awaited command of the handler throws.
StreamFails ==
    /\ pc \in {"subscribing", "listing", "asking"}
    /\ pc' = "failed"
    /\ CleanUp
    /\ UNCHANGED <<jobVars, start, last, shown, read, lost, lastStatus, told, latest,
                   watching, client>>

TimerFires ==
    /\ closeTimer
    /\ CleanUp
    /\ UNCHANGED <<jobVars, pc, start, last, shown, read, lost, lastStatus, told,
                   latest, watching, client>>

\* The client disconnects.  A close that comes before the handler is registered
\* is not heard.
ClientGoes ==
    /\ client = "there"
    /\ pc \notin {"none", "refused"}
    /\ client' = "gone"
    /\ IF watching THEN CleanUp ELSE UNCHANGED <<cleanup, closeTimer, keepalive>>
    /\ UNCHANGED <<jobVars, pc, start, last, shown, read, lost, lastStatus, told,
                   latest, watching>>

\* cleanup() goes on: the subscriber is closed and the response ends.
CloseSubscriber ==
    /\ cleanup = "closing"
    /\ cleanup' = "ended"
    /\ UNCHANGED <<jobVars, pc, start, last, shown, read, lost, lastStatus, told, latest,
                   closeTimer, keepalive, watching, client>>

\* quit() fails: a handler that awaits cleanup throws, and the next cleanup() does
\* nothing, so the response is never ended.  (The other calls of cleanup() are not
\* awaited: their rejection ends the process, and the response with it, which is
\* CloseSubscriber as far as the stream goes.)
CloseFails ==
    /\ cleanup = "closing"
    /\ pc \in {"vanished", "failed"}
    /\ cleanup' = "stuck"
    /\ UNCHANGED <<jobVars, pc, start, last, shown, read, lost, lastStatus, told, latest,
                   closeTimer, keepalive, watching, client>>

-----------------------------------------------------------------------------
Answer == AnswerGone \/ AnswerEnded \/ AnswerRunning
Receive == EmitTrace \/ EmitStatus \/ IgnoreMessage

Write(w) ==
    \/ Push(w)
    \/ \E status \in {"running"} \cup Terminal : Mark(w, status)
    \/ Publish(w)
    \/ FailToPublish(w)

Next ==
    \/ \E w \in Writers : Write(w)
    \/ TakeRecord
    \/ Open \/ Subscribe \/ ListPage \/ ReadLatest \/ Answer
    \/ Receive \/ LoseMessage
    \/ StreamFails \/ TimerFires \/ ClientGoes \/ CloseSubscriber \/ CloseFails

Spec == Init /\ [][Next]_vars

\* A live writer announces what it wrote, the handler's commands are answered,
\* messages arrive and timers fire.  Nobody has to write, fail or leave.
Fairness ==
    /\ \A w \in Writers : WF_vars(Publish(w))
    /\ WF_vars(Subscribe \/ ListPage \/ ReadLatest \/ Answer)
    /\ WF_vars(Receive)
    /\ WF_vars(TimerFires)
    /\ WF_vars(CloseSubscriber \/ CloseFails)

FairSpec == Spec /\ Fairness

-----------------------------------------------------------------------------
(* Properties.                                                             *)

\* The backlog and the channel overlap, yet no entry is shown twice and none
\* after a later one (lastTraceOffset).
ShownInOrder == \A i, j \in 1..Len(shown) : i < j => shown[i] < shown[j]

\* A later entry was announced before entry k was: two writers, or a writer that
\* died between RPUSH and PUBLISH.
Overtaken(k) ==
    \E i \in 1..Len(chan) :
        /\ chan[i].type = "trace" /\ chan[i].offset > k
        /\ \A j \in 1..(i - 1) : chan[j] # Trace(k)

Shown(k) == \E i \in 1..Len(shown) : shown[i] = k
LostOnTheWay(k) == \E i \in lost : chan[i] = Trace(k)

\* Between the offset asked for and the last entry shown, no entry is missing
\* at the seam of backlog and channel: a gap is an entry that was announced after
\* a later one, or never, or whose message was lost.
NoSilentGaps ==
    \A k \in Offsets :
        k > start /\ k <= last => Shown(k) \/ Overtaken(k) \/ LostOnTheWay(k)

\* The server ends a stream only after it sent a terminal status, unless the
\* record vanished, the handler failed, or the client was the one to go.
EndIsTold ==
    cleanup # "no" =>
        told \cap Terminal # {} \/ pc \in {"vanished", "failed"} \/ client = "gone"

\* A stream that has ended holds no timer; except that the keepalive interval is
\* armed for good when the end was announced and acted on while the handler
\* waited for the answer to an older read of the record.
TimersEndWithStream ==
    cleanup # "no" =>
        /\ ~closeTimer
        /\ keepalive => told \cap Terminal # {} /\ latest.status \notin Terminal

\* A job that has ended ends its streams, at whatever point of their start the
\* mark hits them: unless its end was never announced (the marking process died,
\* or a reader had already taken the record), the job runs again, the message was
\* lost, or a handler that was giving up failed to close its subscriber.
EndedJobEndsStream ==
    (pc \notin {"none", "refused"} /\ record.status \in Terminal)
        ~> (cleanup \in {"ended", "stuck"} \/ unannounced \/ record.status = "running" \/ lost # {})
=============================================================================
