---------------------------- MODULE JobLifecycle ----------------------------
(***************************************************************************)
(* The life of one generation job, from POST /v1/generate to its terminal  *)
(* record, at the grain of single Redis commands.                          *)
(*                                                                         *)
(*   - the API process: the handlers of generate, cancel and result,       *)
(*     each suspended at every await, several of them in flight at once;   *)
(*   - the BullMQ queue (external): one queue job, its lock, its attempts, *)
(*     its stalled-job check;                                              *)
(*   - the runner processes: each Worker is one concurrency slot that runs *)
(*     the processor of worker/runner.ts;                                  *)
(*   - Redis: the job hash, the cancel key and the cancel channel.         *)
(*                                                                         *)
(* Jobs are keyed by a fresh random id and share nothing but worker slots, *)
(* so one job is modelled.                                                 *)
(***************************************************************************)
EXTENDS Integers, FiniteSets

CONSTANTS
    Workers,      (* concurrency slots of the runner processes              *)
    NoWorker,     (* "nobody holds the queue job's lock"                    *)
    Cancels,      (* the POST .../cancel requests                           *)
    Readers,      (* the GET .../result requests                            *)
    MaxAttempts,  (* attempts the queue job is added with (3 in the code)   *)
    MaxStalled,   (* BullMQ's maxStalledCount (1 by default)                *)
    Faults        (* which of the faults below may happen                   *)

FaultKinds == {"crash", "lock_loss", "api_crash", "expiry", "key_expiry"}

ASSUME WorkersAssumption  == NoWorker \notin Workers
ASSUME AttemptsAssumption == MaxAttempts \in Nat \ {0}
ASSUME StalledAssumption  == MaxStalled \in Nat
ASSUME FaultsAssumption   == Faults \subseteq FaultKinds

VARIABLES
    job,          (* the hash job:<id>                                      *)
    flag,         (* the key job:<id>:cancel exists                         *)
    qstate,       (* the BullMQ state of the queue job                      *)
    holder,       (* the worker whose lock on the queue job is valid        *)
    made,         (* attemptsMade of the queue job                          *)
    crashes,      (* lock holders that crashed                              *)
    lockLosses,   (* live lock holders whose lock expired                   *)
    lapsed,       (* the cancel key ran out                                 *)
    pc,           (* where each worker is in the processor                  *)
    attempt,      (* currentAttempt of each worker's run                    *)
    aborted,      (* cancelController.signal.aborted of each run            *)
    signal,       (* a cancel message is on its way to the run's subscriber *)
    rethrow,      (* the run ends by throwing (BullMQ sees a failure)       *)
    gen,          (* progress of the generate handler                       *)
    cpc,          (* where each cancel handler is                           *)
    seen,         (* record.status each cancel handler read                 *)
    removed,      (* queueRemoved of each cancel handler                    *)
    answer,       (* what each cancel request was answered                  *)
    rpc,          (* where each result handler is                           *)
    got           (* the result request was answered with the result        *)

storeVars  == <<job, flag>>
queueVars  == <<qstate, holder, made>>
faultVars  == <<crashes, lockLosses, lapsed>>
runVars    == <<pc, attempt, aborted, signal, rethrow>>
cancelVars == <<cpc, seen, removed, answer>>
readVars   == <<rpc, got>>
vars == <<storeVars, queueVars, faultVars, runVars, gen, cancelVars, readVars>>

-----------------------------------------------------------------------------
(* The job hash.  HSET on a missing key creates it with only the fields    *)
(* written, so a hash may have no id and tenant (not owned) or no status.  *)

Terminal == {"succeeded", "failed", "cancelled"}
Status   == {"queued", "running", "retrying"} \cup Terminal

JobHash == [live : BOOLEAN, owned : BOOLEAN, result : BOOLEAN,
            status : Status \cup {"unset"}]

NoHash == [live |-> FALSE, owned |-> FALSE, result |-> FALSE,
           status |-> "unset"]

\* RedisJobStore.get: the status of a record, "queued" when the field is missing.
StatusRead == IF job.status = "unset" THEN "queued" ELSE job.status

\* A record that belongs to the caller's tenant: the handlers answer 404 otherwise.
Found == job.live /\ job.owned

\* markStatus, and the HSET that begins markFailed and markCancelled.
Put(s) == [job EXCEPT !.live = TRUE, !.status = s]

\* The HSET of markSucceeded: status and result_json in one command.
PutResult == [job EXCEPT !.live = TRUE, !.status = "succeeded", !.result = TRUE]

\* An HSET of other fields: cancel_requested_at or a runtime section.
Touch == [job EXCEPT !.live = TRUE]

-----------------------------------------------------------------------------
(* Initial state and types.                                                *)

RunPCs == {"idle", "subscribe", "start", "check1", "resolve", "check2",
           "generate", "succeed", "catch", "cancel", "fail", "retry",
           "clear", "finish"}

QueueStates == {"none", "waiting", "active", "delayed",
                "completed", "failed", "removed"}

CancelPCs == {"idle", "touch", "flag", "inspect", "remove", "mark", "clear",
              "publish", "done", "crashed"}

Answers == {"none", "not_found", "already_done", "cancelled", "requested", "error"}

Init ==
    /\ job = NoHash
    /\ flag = FALSE
    /\ qstate = "none"
    /\ holder = NoWorker
    /\ made = 0
    /\ crashes = 0
    /\ lockLosses = 0
    /\ lapsed = FALSE
    /\ pc = [w \in Workers |-> "idle"]
    /\ attempt = [w \in Workers |-> 1]
    /\ aborted = [w \in Workers |-> FALSE]
    /\ signal = [w \in Workers |-> FALSE]
    /\ rethrow = [w \in Workers |-> FALSE]
    /\ gen = "idle"
    /\ cpc = [c \in Cancels |-> "idle"]
    /\ seen = [c \in Cancels |-> "queued"]
    /\ removed = [c \in Cancels |-> FALSE]
    /\ answer = [c \in Cancels |-> "none"]
    /\ rpc = [r \in Readers |-> "idle"]
    /\ got = [r \in Readers |-> FALSE]

TypeOK ==
    /\ job \in JobHash
    /\ flag \in BOOLEAN
    /\ qstate \in QueueStates
    /\ holder \in Workers \cup {NoWorker}
    /\ made \in 0..MaxAttempts
    /\ crashes \in Nat
    /\ lockLosses \in Nat
    /\ lapsed \in BOOLEAN
    /\ pc \in [Workers -> RunPCs]
    /\ attempt \in [Workers -> 1..MaxAttempts]
    /\ aborted \in [Workers -> BOOLEAN]
    /\ signal \in [Workers -> BOOLEAN]
    /\ rethrow \in [Workers -> BOOLEAN]
    /\ gen \in {"idle", "created", "enqueued", "answered", "crashed"}
    /\ cpc \in [Cancels -> CancelPCs]
    /\ seen \in [Cancels -> Status]
    /\ removed \in [Cancels -> BOOLEAN]
    /\ answer \in [Cancels -> Answers]
    /\ rpc \in [Readers -> {"idle", "consume", "delete", "done"}]
    /\ got \in [Readers -> BOOLEAN]

-----------------------------------------------------------------------------
(* POST /v1/generate.  The client learns the job id from the answer, so no *)
(* cancel or result request starts before gen = "answered".                *)

\* jobStore.createQueued: the id is fresh, the hash is new.
CreateQueued ==
    /\ gen = "idle"
    /\ gen' = "created"
    /\ job' = [live |-> TRUE, owned |-> TRUE, result |-> FALSE, status |-> "queued"]
    /\ UNCHANGED <<flag, queueVars, faultVars, runVars, cancelVars, readVars>>

\* enqueueGenerateJob: queue.add.  A worker may take the job at once.
Enqueue ==
    /\ gen = "created"
    /\ gen' = "enqueued"
    /\ qstate' = "waiting"
    /\ UNCHANGED <<storeVars, holder, made, faultVars, runVars, cancelVars, readVars>>

AnswerGenerate ==
    /\ gen = "enqueued"
    /\ gen' = "answered"
    /\ UNCHANGED <<storeVars, queueVars, faultVars, runVars, cancelVars, readVars>>

Generate == CreateQueued \/ Enqueue \/ AnswerGenerate

-----------------------------------------------------------------------------
(* POST /v1/jobs/:jobId/cancel.  Each step is one awaited Redis command.   *)

AlreadyDone(s) == s \in Terminal

\* jobStore.get, the tenant check and the already_done answer.  What the
\* handler read is what it goes on using: record.status is never read again.
CancelRead(c) ==
    /\ gen = "answered"
    /\ cpc[c] = "idle"
    /\ \/ /\ ~Found
          /\ cpc' = [cpc EXCEPT ![c] = "done"]
          /\ answer' = [answer EXCEPT ![c] = "not_found"]
          /\ UNCHANGED seen
       \/ /\ Found
          /\ seen' = [seen EXCEPT ![c] = StatusRead]
          /\ IF AlreadyDone(StatusRead)
             THEN /\ cpc' = [cpc EXCEPT ![c] = "done"]
                  /\ answer' = [answer EXCEPT ![c] = "already_done"]
             ELSE /\ cpc' = [cpc EXCEPT ![c] = "touch"]
                  /\ UNCHANGED answer
    /\ UNCHANGED <<storeVars, queueVars, faultVars, runVars, gen, removed, readVars>>

\* requestCancel, first command: HSET cancel_requested_at.
CancelTouch(c) ==
    /\ cpc[c] = "touch"
    /\ cpc' = [cpc EXCEPT ![c] = "flag"]
    /\ job' = Touch
    /\ UNCHANGED <<flag, queueVars, faultVars, runVars, gen,
                   seen, removed, answer, readVars>>

\* requestCancel, second command: SET job:<id>:cancel.
CancelFlag(c) ==
    /\ cpc[c] = "flag"
    /\ cpc' = [cpc EXCEPT ![c] = "inspect"]
    /\ flag' = TRUE
    /\ UNCHANGED <<job, queueVars, faultVars, runVars, gen,
                   seen, removed, answer, readVars>>

\* What the handler does when it has not removed the queue job: a record that
\* was read as "queued" is marked cancelled all the same.
NotRemoved(c) == IF seen[c] = "queued" THEN "mark" ELSE "publish"

\* queue.getJob and getState: remove a job that no worker has taken.
Removable(s) == s \in {"waiting", "delayed"}

CancelInspect(c) ==
    /\ cpc[c] = "inspect"
    /\ cpc' = [cpc EXCEPT ![c] = IF Removable(qstate) THEN "remove" ELSE NotRemoved(c)]
    /\ UNCHANGED <<storeVars, queueVars, faultVars, runVars, gen,
                   seen, removed, answer, readVars>>

\* Variant: an error of remove is swallowed and the job counted as removed.
CancelRemoveIgnoresLock(c) ==
    /\ cpc[c] = "remove"
    /\ qstate' = IF holder = NoWorker THEN "removed" ELSE qstate
    /\ removed' = [removed EXCEPT ![c] = TRUE]
    /\ cpc' = [cpc EXCEPT ![c] = "mark"]
    /\ UNCHANGED <<storeVars, holder, made, faultVars, runVars, gen, seen, answer, readVars>>

\* queueJob.remove: BullMQ refuses a locked job (the handler throws, HTTP 500)
\* and removes any other, whatever its state has become since getState.
CancelRemove(c) ==
    /\ cpc[c] = "remove"
    /\ \/ /\ holder # NoWorker
          /\ cpc' = [cpc EXCEPT ![c] = "done"]
          /\ answer' = [answer EXCEPT ![c] = "error"]
          /\ UNCHANGED <<qstate, removed>>
       \/ /\ holder = NoWorker
          /\ qstate' = "removed"
          /\ removed' = [removed EXCEPT ![c] = TRUE]
          /\ cpc' = [cpc EXCEPT ![c] = "mark"]
          /\ UNCHANGED answer
    /\ UNCHANGED <<storeVars, holder, made, faultVars, runVars, gen, seen, readVars>>

\* jobStore.markCancelled, first command: HSET status cancelled.
CancelMark(c) ==
    /\ cpc[c] = "mark"
    /\ cpc' = [cpc EXCEPT ![c] = "clear"]
    /\ job' = Put("cancelled")
    /\ UNCHANGED <<flag, queueVars, faultVars, runVars, gen,
                   seen, removed, answer, readVars>>

\* jobStore.markCancelled, second command: DEL of the cancel key; then the
\* answer {status: "cancelled", cancelled: true, reason: "queue_removed"}.
CancelClear(c) ==
    /\ cpc[c] = "clear"
    /\ cpc' = [cpc EXCEPT ![c] = "done"]
    /\ answer' = [answer EXCEPT ![c] = "cancelled"]
    /\ flag' = FALSE
    /\ UNCHANGED <<job, queueVars, faultVars, runVars, gen, seen, removed, readVars>>

\* A run listens on the cancel channel from its subscribe to its unsubscribe.
Subscribed(w) == pc[w] \notin {"idle", "subscribe"}

\* jobStore.publishCancel reaches the current subscribers and nobody else;
\* then the answer {status: "running", cancelled: false, reason: "cancel_requested"}.
CancelPublish(c) ==
    /\ cpc[c] = "publish"
    /\ cpc' = [cpc EXCEPT ![c] = "done"]
    /\ answer' = [answer EXCEPT ![c] = "requested"]
    /\ signal' = [w \in Workers |-> signal[w] \/ Subscribed(w)]
    /\ UNCHANGED <<storeVars, queueVars, faultVars, pc, attempt, aborted, rethrow,
                   gen, seen, removed, readVars>>

CancelStep(c) ==
    \/ CancelRead(c) \/ CancelTouch(c) \/ CancelFlag(c) \/ CancelInspect(c)
    \/ CancelRemove(c) \/ CancelMark(c) \/ CancelClear(c) \/ CancelPublish(c)

-----------------------------------------------------------------------------
(* GET /v1/jobs/:jobId/result: a read, the read of consumeResult, its DEL. *)

ReadRecord(r) ==
    /\ gen = "answered"
    /\ rpc[r] = "idle"
    /\ rpc' = [rpc EXCEPT ![r] =
                  IF Found /\ StatusRead = "succeeded" THEN "consume" ELSE "done"]
    /\ UNCHANGED <<storeVars, queueVars, faultVars, runVars, gen, cancelVars, got>>

\* consumeResult reads the record again; null is answered with 404.
ConsumeRead(r) ==
    /\ rpc[r] = "consume"
    /\ rpc' = [rpc EXCEPT ![r] =
                  IF job.live /\ StatusRead = "succeeded" /\ job.result
                  THEN "delete" ELSE "done"]
    /\ UNCHANGED <<storeVars, queueVars, faultVars, runVars, gen, cancelVars, got>>

\* consumeResult: DEL of the job hash, then the answer with the result.
ConsumeDelete(r) ==
    /\ rpc[r] = "delete"
    /\ rpc' = [rpc EXCEPT ![r] = "done"]
    /\ got' = [got EXCEPT ![r] = TRUE]
    /\ job' = NoHash
    /\ UNCHANGED <<flag, queueVars, faultVars, runVars, gen, cancelVars>>

ReadStep(r) == ReadRecord(r) \/ ConsumeRead(r) \/ ConsumeDelete(r)

-----------------------------------------------------------------------------
(* The processor of worker/runner.ts, run by worker w.                     *)

At(w, from, to) == pc[w] = from /\ pc' = [pc EXCEPT ![w] = to]

\* BullMQ hands the waiting job to a free slot and locks it; currentAttempt is
\* job.attemptsMade + 1.
Pick(w) ==
    /\ qstate = "waiting"
    /\ At(w, "idle", "subscribe")
    /\ qstate' = "active"
    /\ holder' = w
    /\ attempt' = [attempt EXCEPT ![w] = made + 1]
    /\ UNCHANGED <<storeVars, made, faultVars, aborted, signal, rethrow,
                   gen, cancelVars, readVars>>

\* A fresh AbortController, then the subscription to the cancel channel, which
\* is awaited before anything is read.
Subscribe(w) ==
    /\ At(w, "subscribe", "start")
    /\ aborted' = [aborted EXCEPT ![w] = FALSE]
    /\ signal' = [signal EXCEPT ![w] = FALSE]
    /\ UNCHANGED <<storeVars, queueVars, faultVars, attempt, rethrow,
                   gen, cancelVars, readVars>>

\* store.markStatus(jobId, "running"), whatever the record says.
MarkRunning(w) ==
    /\ At(w, "start", "check1")
    /\ job' = Put("running")
    /\ UNCHANGED <<flag, queueVars, faultVars, attempt, aborted, signal, rethrow,
                   gen, cancelVars, readVars>>

\* Variant: a cancel found here returns without marking the record.
CheckBeforeRulesOnlyReturns(w) ==
    /\ At(w, "check1", IF flag THEN "finish" ELSE "resolve")
    /\ UNCHANGED <<storeVars, queueVars, faultVars, attempt, aborted, signal, rethrow,
                   gen, cancelVars, readVars>>

\* The first isCancelRequested.
CheckBeforeRules(w) ==
    /\ At(w, "check1", IF flag THEN "cancel" ELSE "resolve")
    /\ UNCHANGED <<storeVars, queueVars, faultVars, attempt, aborted, signal, rethrow,
                   gen, cancelVars, readVars>>

\* rulesService.resolve, which throws when the tenant has no rules.
ResolveRules(w) ==
    /\ \/ At(w, "resolve", "check2") /\ UNCHANGED rethrow
       \/ At(w, "resolve", "catch") /\ rethrow' = [rethrow EXCEPT ![w] = TRUE]
    /\ UNCHANGED <<storeVars, queueVars, faultVars, attempt, aborted, signal,
                   gen, cancelVars, readVars>>

\* The second isCancelRequested: the last time a run looks for a cancel before
\* generating.  From here on only the signal can interrupt it.
CheckAfterRules(w) ==
    /\ At(w, "check2", IF flag THEN "cancel" ELSE "generate")
    /\ aborted' = [aborted EXCEPT ![w] = aborted[w] \/ flag]
    /\ UNCHANGED <<storeVars, queueVars, faultVars, attempt, signal, rethrow,
                   gen, cancelVars, readVars>>

\* persistRuntimeSection: HSET of a runtime section field.
PersistSection(w) ==
    /\ pc[w] = "generate"
    /\ job' = Touch
    /\ UNCHANGED <<flag, queueVars, faultVars, runVars, gen, cancelVars, readVars>>

\* generate returns.  Its last throwIfAborted is behind it: an abort that
\* arrives from here on no longer stops the run.
GenerateReturns(w) ==
    /\ ~aborted[w]
    /\ At(w, "generate", "succeed")
    /\ UNCHANGED <<storeVars, queueVars, faultVars, attempt, aborted, signal, rethrow,
                   gen, cancelVars, readVars>>

\* generate throws: an InputValidationError (the catch block will return), or
\* any other error, an abort among them (the catch block will rethrow it).
GenerateThrows(w) ==
    /\ At(w, "generate", "catch")
    /\ \E again \in BOOLEAN : rethrow' = [rethrow EXCEPT ![w] = again]
    /\ UNCHANGED <<storeVars, queueVars, faultVars, attempt, aborted, signal,
                   gen, cancelVars, readVars>>

\* Variant: an error after markSucceeded escapes to BullMQ.
MarkSucceededThenThrows(w) ==
    /\ At(w, "succeed", "clear")
    /\ job' = PutResult
    /\ rethrow' = [rethrow EXCEPT ![w] = TRUE]
    /\ UNCHANGED <<flag, queueVars, faultVars, attempt, aborted, signal,
                   gen, cancelVars, readVars>>

\* store.markSucceeded, first command.
MarkSucceeded(w) ==
    /\ At(w, "succeed", "clear")
    /\ job' = PutResult
    /\ rethrow' = [rethrow EXCEPT ![w] = FALSE]
    /\ UNCHANGED <<flag, queueVars, faultVars, attempt, aborted, signal,
                   gen, cancelVars, readVars>>

\* Variant: attempts counted from zero.
FinalAttemptOffByOne(w) == attempt[w] > MaxAttempts

\* currentAttempt >= maxAttempts.
FinalAttempt(w) == attempt[w] >= MaxAttempts

\* The catch block: cancelled (by signal or by flag), invalid input, final
\* attempt, or another attempt to come.
Catch(w) ==
    /\ At(w, "catch",
          IF aborted[w] \/ flag THEN "cancel"
          ELSE IF ~rethrow[w] \/ FinalAttempt(w) THEN "fail" ELSE "retry")
    /\ UNCHANGED <<storeVars, queueVars, faultVars, attempt, aborted, signal, rethrow,
                   gen, cancelVars, readVars>>

\* Variant: the catch block marks the record and then still rethrows.
MarkCancelledThenThrows(w) ==
    /\ At(w, "cancel", "clear")
    /\ job' = Put("cancelled")
    /\ UNCHANGED <<flag, queueVars, faultVars, attempt, aborted, signal, rethrow,
                   gen, cancelVars, readVars>>

\* store.markCancelled, first command; the processor then returns normally.
MarkCancelled(w) ==
    /\ At(w, "cancel", "clear")
    /\ job' = Put("cancelled")
    /\ rethrow' = [rethrow EXCEPT ![w] = FALSE]
    /\ UNCHANGED <<flag, queueVars, faultVars, attempt, aborted, signal,
                   gen, cancelVars, readVars>>

\* store.markFailed, first command.
MarkFailed(w) ==
    /\ At(w, "fail", "clear")
    /\ job' = Put("failed")
    /\ UNCHANGED <<flag, queueVars, faultVars, attempt, aborted, signal, rethrow,
                   gen, cancelVars, readVars>>

\* Variant: a retry clears the cancel key as the terminal marks do.
MarkRetryingClearsFlag(w) ==
    /\ At(w, "retry", "finish")
    /\ job' = Put("retrying")
    /\ flag' = FALSE
    /\ UNCHANGED <<queueVars, faultVars, attempt, aborted, signal, rethrow,
                   gen, cancelVars, readVars>>

\* store.markStatus(jobId, "retrying"): the cancel key stays.
MarkRetrying(w) ==
    /\ At(w, "retry", "finish")
    /\ job' = Put("retrying")
    /\ UNCHANGED <<flag, queueVars, faultVars, attempt, aborted, signal, rethrow,
                   gen, cancelVars, readVars>>

\* The second command of markSucceeded, markCancelled and markFailed.
ClearFlag(w) ==
    /\ At(w, "clear", "finish")
    /\ flag' = FALSE
    /\ UNCHANGED <<job, queueVars, faultVars, attempt, aborted, signal, rethrow,
                   gen, cancelVars, readVars>>

\* Where BullMQ moves a job whose processor returned or threw.
NextQueueState(w) ==
    IF ~rethrow[w] THEN "completed"
    ELSE IF attempt[w] < MaxAttempts THEN "delayed" ELSE "failed"

\* The finally block unsubscribes and BullMQ moves the job, if w still holds
\* its lock; otherwise the outcome is dropped.
Finish(w) ==
    /\ At(w, "finish", "idle")
    /\ signal' = [signal EXCEPT ![w] = FALSE]
    /\ IF holder = w
       THEN /\ qstate' = NextQueueState(w)
            /\ made' = attempt[w]
            /\ holder' = NoWorker
       ELSE UNCHANGED queueVars
    /\ UNCHANGED <<storeVars, faultVars, attempt, aborted, rethrow,
                   gen, cancelVars, readVars>>

\* The subscriber's callback: the run's AbortController aborts, once.
DeliverCancel(w) ==
    /\ signal[w]
    /\ Subscribed(w)
    /\ aborted' = [aborted EXCEPT ![w] = TRUE]
    /\ signal' = [signal EXCEPT ![w] = FALSE]
    /\ UNCHANGED <<storeVars, queueVars, faultVars, pc, attempt, rethrow,
                   gen, cancelVars, readVars>>

RunStep(w) ==
    \/ Pick(w) \/ Subscribe(w) \/ MarkRunning(w) \/ CheckBeforeRules(w)
    \/ ResolveRules(w) \/ CheckAfterRules(w) \/ PersistSection(w)
    \/ GenerateReturns(w) \/ GenerateThrows(w) \/ MarkSucceeded(w) \/ Catch(w)
    \/ MarkCancelled(w) \/ MarkFailed(w) \/ MarkRetrying(w) \/ ClearFlag(w)
    \/ Finish(w)

-----------------------------------------------------------------------------
(* BullMQ's timers and the faults.                                         *)

\* The backoff of a failed attempt is over.
Promote ==
    /\ qstate = "delayed"
    /\ qstate' = "waiting"
    /\ UNCHANGED <<storeVars, holder, made, faultVars, runVars,
                   gen, cancelVars, readVars>>

\* The stalled-job check: an active job whose lock is gone is handed out again,
\* maxStalledCount times; after that it fails without the processor being told.
CheckStalled ==
    /\ qstate = "active"
    /\ holder = NoWorker
    /\ qstate' = IF crashes + lockLosses > MaxStalled THEN "failed" ELSE "waiting"
    /\ UNCHANGED <<storeVars, holder, made, faultVars, runVars,
                   gen, cancelVars, readVars>>

QueueStep == Promote \/ CheckStalled

\* The process of worker w dies and restarts; its lock on the job expires.
Crash(w) ==
    /\ "crash" \in Faults
    /\ pc[w] # "idle"
    /\ pc' = [pc EXCEPT ![w] = "idle"]
    /\ signal' = [signal EXCEPT ![w] = FALSE]
    /\ IF holder = w
       THEN holder' = NoWorker /\ crashes' = crashes + 1
       ELSE UNCHANGED <<holder, crashes>>
    /\ UNCHANGED <<storeVars, qstate, made, lockLosses, lapsed, attempt, aborted, rethrow,
                   gen, cancelVars, readVars>>

\* A live worker fails to renew its lock in time and goes on running.
LoseLock(w) ==
    /\ "lock_loss" \in Faults
    /\ holder = w
    /\ holder' = NoWorker
    /\ lockLosses' = lockLosses + 1
    /\ UNCHANGED <<storeVars, qstate, made, crashes, lapsed, runVars,
                   gen, cancelVars, readVars>>

\* The API process dies: the handlers in flight end where they are.
ApiCrash ==
    /\ "api_crash" \in Faults
    /\ gen' = IF gen \in {"created", "enqueued"} THEN "crashed" ELSE gen
    /\ cpc' = [c \in Cancels |->
                  IF cpc[c] \in {"idle", "done"} THEN cpc[c] ELSE "crashed"]
    /\ rpc' = [r \in Readers |-> IF rpc[r] = "idle" THEN "idle" ELSE "done"]
    /\ UNCHANGED <<storeVars, queueVars, faultVars, runVars,
                   seen, removed, answer, got>>

\* The TTL of the job hash runs out (a backlog or a run longer than the TTL).
ExpireRecord ==
    /\ "expiry" \in Faults
    /\ job.live
    /\ job' = NoHash
    /\ UNCHANGED <<flag, queueVars, faultVars, runVars, gen, cancelVars, readVars>>

\* The TTL of the cancel key runs out.  Every HSET renews that of the hash, and
\* nothing that of the key, so the record may be there longer than the key.
ExpireKey ==
    /\ "key_expiry" \in Faults
    /\ flag
    /\ flag' = FALSE
    /\ lapsed' = TRUE
    /\ UNCHANGED <<job, queueVars, crashes, lockLosses, runVars, gen, cancelVars, readVars>>

-----------------------------------------------------------------------------
Next ==
    \/ Generate
    \/ \E c \in Cancels : CancelStep(c)
    \/ \E r \in Readers : ReadStep(r)
    \/ \E w \in Workers : RunStep(w) \/ DeliverCancel(w) \/ Crash(w) \/ LoseLock(w)
    \/ QueueStep
    \/ ApiCrash
    \/ ExpireRecord
    \/ ExpireKey

Spec == Init /\ [][Next]_vars

\* The event loops run every handler to its end, BullMQ's timers fire, and the
\* language-model calls inside generate return or fail.  Requests may never be
\* sent, and no fault has to happen.
Fairness ==
    /\ WF_vars(Enqueue)
    /\ WF_vars(QueueStep)
    /\ \A w \in Workers : WF_vars(RunStep(w))
    /\ \A c \in Cancels : WF_vars(cpc[c] # "idle" /\ CancelStep(c))
    /\ \A r \in Readers : WF_vars(rpc[r] # "idle" /\ ReadStep(r))

FairSpec == Spec /\ Fairness

-----------------------------------------------------------------------------
(* Properties.                                                             *)

\* A cancel request that read "queued", found the queue job taken by a worker
\* and marks the record cancelled without stopping that worker.
TookShortcut(c) ==
    /\ seen[c] = "queued"
    /\ ~removed[c]
    /\ cpc[c] \in {"mark", "clear", "crashed"} \/ answer[c] = "cancelled"

\* Nothing went around the ordinary life of the job: no lock was lost, no cancel
\* request marked the record of a job that is still running, and no cancel key ran
\* out (a job is over within one TTL of its cancel).
Undisturbed ==
    /\ ~lapsed
    /\ crashes + lockLosses = 0
    /\ \A c \in Cancels : ~TookShortcut(c)

\* The queue job will not be run again, and a run in progress only has its
\* terminal bookkeeping left.
Over ==
    \/ qstate \in {"completed", "failed", "removed"}
    \/ \E w \in Workers :
          \/ pc[w] = "clear"
          \/ pc[w] = "finish" /\ NextQueueState(w) # "delayed"

\* An accepted cancel (cancel_requested) is never lost: the next run finds the
\* cancel key, and a run that is already generating has the abort signal or is
\* about to get it.  It relates the order of subscribe, flag and publish in two
\* processes (worker/runner.ts and api/routes.ts).
CancelReachesRun ==
    Undisturbed =>
        \A c \in Cancels : answer[c] = "requested" =>
            \/ Over
            \/ /\ qstate \in {"waiting", "delayed"} => flag
               /\ \A w \in Workers :
                     /\ pc[w] \in {"subscribe", "start", "check1", "resolve", "check2"}
                           => flag
                     /\ pc[w] = "generate" => aborted[w] \/ signal[w]

\* A terminal status is final: with no lock lost, no cancel key run out and no
\* shortcut taken, nothing replaces one.  markStatus and the mark operations write unconditionally, so
\* this rests on the order of all the other steps; a cancel request that finds the
\* job waiting and removes it after a run relies on the run to have seen its key.
TerminalIsFinal ==
    [][ (job.status \in Terminal /\ job'.live /\ job'.status # job.status)
        => ~Undisturbed ]_vars

\* A cancel that really took the job out of the queue is the last word on it:
\* no run is in progress and the record says cancelled until it is read away.
RemovedStaysCancelled ==
    crashes + lockLosses = 0 =>
        \A c \in Cancels : (answer[c] = "cancelled" /\ removed[c]) =>
            /\ \A w \in Workers : pc[w] = "idle"
            /\ qstate = "removed"
            /\ Found => job.status = "cancelled"

\* The record of a job outlives its runs: it is deleted only by a reader of the
\* result, and no run of the job comes after that.
RecordOutlivesRuns ==
    ("expiry" \notin Faults /\ crashes + lockLosses = 0 /\ gen # "idle" /\ ~job.owned)
        => Over /\ \E r \in Readers : got[r]

\* Nothing is in progress: no worker runs the job, no cancel is being handled.
Quiet ==
    /\ \A w \in Workers : pc[w] = "idle"
    /\ \A c \in Cancels : cpc[c] \in {"idle", "done", "crashed"}

\* A cancel handler that died after it took the job out of the queue and before
\* it marked the record.
DiedAfterRemove(c) == cpc[c] = "crashed" /\ removed[c]

\* No job is left behind: when the queue is done with a job and nothing is in
\* progress, its record is terminal (or gone).  A crash between any two steps
\* is covered; the exceptions are named: a run whose lock was lost and that went
\* on writing, more stalls than BullMQ redelivers, a cancel handler that died.
NoStuckRecord ==
    (/\ qstate \in {"completed", "failed", "removed"}
     /\ Quiet
     /\ lockLosses = 0
     /\ crashes <= MaxStalled
     /\ \A c \in Cancels : ~DiedAfterRemove(c))
        => (Found => job.status \in Terminal)

\* What the handlers show of the job: they answer 404 for a record not found.
Shown ==
    IF gen = "idle" THEN "none"
    ELSE IF ~Found THEN "gone"
    ELSE IF job.status \in Terminal THEN job.status ELSE "open"

Client ==
    INSTANCE JobSpec WITH shown <- Shown, over <- Over, excused <- ~Undisturbed,
                          Expires <- "expiry" \in Faults

\* The handlers, the queue, the runs and the readers together keep what JobSpec
\* promises a client, until a lock is lost, a cancel key runs out or a cancel takes
\* the shortcut.
ImplementsJobSpec == Client!Spec

Settled ==
    /\ qstate \in {"completed", "failed", "removed"}
    /\ Found => job.status \in Terminal

\* Every queued job ends, with a terminal record, whatever cancels and results
\* are requested and even if the runner crashes as often as BullMQ redelivers.
EveryJobEnds == (qstate # "none") ~> (Settled \/ crashes > MaxStalled)

\* "A running job is interrupted at once by the cancel pub/sub": when a cancel has
\* been answered as accepted or done, a run that is generating has the abort or
\* is about to get it.  The shortcut of the cancel handler breaks this.
AnsweredCancelInterrupts ==
    \A c \in Cancels, w \in Workers :
        (answer[c] \in {"cancelled", "requested"} /\ pc[w] = "generate")
            => aborted[w] \/ signal[w]
=============================================================================
