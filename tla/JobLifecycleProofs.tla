------------------------ MODULE JobLifecycleProofs ------------------------
(***************************************************************************)
(* Proofs about JobLifecycle, for any number of workers, requests and      *)
(* attempts and any set of faults.                                         *)
(***************************************************************************)
EXTENDS JobLifecycle, TLAPS

\* No worker has crashed under, or lost, its lock on the queue job.
NoLoss == crashes + lockLosses = 0

\* While the job can still be run, an attempt is left for it.
AttemptsLeft ==
    qstate \in {"none", "waiting", "active", "delayed"} => made < MaxAttempts

\* Until the generate handler has added the queue job there is none, and no
\* request about the job starts before the handler has answered.
NotQueuedYet ==
    /\ gen \in {"idle", "created"} => qstate = "none"
    /\ gen # "answered" => /\ \A c \in Cancels : cpc[c] = "idle"
                           /\ \A r \in Readers : rpc[r] = "idle"

\* The queue's lock and the runs agree: a holder is running the active job; and
\* while no lock is lost the runs are exactly the holder's.
LocksAgree ==
    /\ \A w \in Workers : holder = w => pc[w] # "idle"
    /\ holder # NoWorker => qstate = "active"
    /\ NoLoss => /\ \A w \in Workers : pc[w] # "idle" => holder = w
                 /\ qstate = "active" => holder # NoWorker

TypeInv == TypeOK /\ AttemptsLeft /\ NotQueuedYet /\ LocksAgree

USE WorkersAssumption, AttemptsAssumption, StalledAssumption, FaultsAssumption
    DEF storeVars, queueVars, faultVars, runVars, cancelVars, readVars

LEMMA TypeInvInit == Init => TypeInv
<1> SUFFICES ASSUME Init PROVE TypeInv
  OBVIOUS
<1>1. job \in JobHash
  BY DEF Init, JobHash, NoHash
<1>2. /\ made \in 0..MaxAttempts /\ crashes \in Nat /\ lockLosses \in Nat
      /\ attempt \in [Workers -> 1..MaxAttempts]
      /\ AttemptsLeft /\ NotQueuedYet /\ LocksAgree
  BY DEF Init, AttemptsLeft, NotQueuedYet, LocksAgree, NoLoss
<1> QED
  BY <1>1, <1>2 DEF Init, TypeInv, TypeOK, Status, Terminal, QueueStates, RunPCs,
                    CancelPCs, Answers

LEMMA TypeInvStep == TypeInv /\ [Next]_vars => TypeInv'
<1> SUFFICES ASSUME TypeInv, [Next]_vars PROVE TypeInv'
  OBVIOUS
<1> USE DEF TypeInv, AttemptsLeft, NotQueuedYet, LocksAgree, NoLoss, JobHash, NoHash, Status,
            Terminal, QueueStates, RunPCs, CancelPCs, Answers

<1>1. CASE Generate
  <2>1. CASE CreateQueued
    <3>1. TypeOK'
      BY <2>1 DEF CreateQueued, TypeOK
    <3>2. (AttemptsLeft /\ NotQueuedYet /\ LocksAgree)'
      BY <2>1 DEF CreateQueued, TypeOK
    <3> QED
      BY <3>1, <3>2
  <2>2. CASE Enqueue
    <3>1. TypeOK'
      BY <2>2 DEF Enqueue, TypeOK
    <3>2. (AttemptsLeft /\ NotQueuedYet /\ LocksAgree)'
      BY <2>2 DEF Enqueue, TypeOK
    <3> QED
      BY <3>1, <3>2
  <2>3. CASE AnswerGenerate
    BY <2>3 DEF AnswerGenerate, TypeOK
  <2> QED
    BY <2>1, <2>2, <2>3, <1>1 DEF Generate
<1>2. ASSUME NEW c \in Cancels, CancelStep(c) PROVE TypeInv'
  <2>1. CASE CancelRead(c)
    BY <2>1, <1>2 DEF CancelRead, Found, StatusRead, AlreadyDone, TypeOK
  <2>2. CASE CancelTouch(c)
    BY <2>2, <1>2 DEF CancelTouch, Touch, TypeOK
  <2>3. CASE CancelFlag(c)
    BY <2>3, <1>2 DEF CancelFlag, TypeOK
  <2>4. CASE CancelInspect(c)
    BY <2>4, <1>2 DEF CancelInspect, NotRemoved, Removable, TypeOK
  <2>5. CASE CancelRemove(c)
    <3>1. TypeOK'
      <4>1. CASE holder # NoWorker /\ answer' = [answer EXCEPT ![c] = "error"] /\ UNCHANGED removed
        BY <2>5, <1>2, <4>1 DEF CancelRemove, TypeOK
      <4>2. CASE removed' = [removed EXCEPT ![c] = TRUE] /\ UNCHANGED answer
        BY <2>5, <1>2, <4>2 DEF CancelRemove, TypeOK
      <4> QED
        BY <2>5, <1>2, <4>1, <4>2 DEF CancelRemove
    <3>2. (AttemptsLeft /\ NotQueuedYet /\ LocksAgree)'
      BY <2>5, <1>2 DEF CancelRemove, TypeOK
    <3> QED
      BY <3>1, <3>2
  <2>6. CASE CancelMark(c)
    BY <2>6, <1>2 DEF CancelMark, Put, TypeOK
  <2>7. CASE CancelClear(c)
    <3>1. TypeOK'
      <4>1. lapsed' = lapsed /\ flag' = FALSE
        BY <2>7, <1>2 DEF CancelClear
      <4>2. lapsed' \in BOOLEAN /\ flag' \in BOOLEAN
        BY <4>1 DEF TypeOK
      <4> QED
        BY <2>7, <1>2, <4>2 DEF CancelClear, TypeOK
    <3>2. (AttemptsLeft /\ NotQueuedYet /\ LocksAgree)'
      BY <2>7, <1>2 DEF CancelClear, TypeOK
    <3> QED
      BY <3>1, <3>2
  <2>8. CASE CancelPublish(c)
    BY <2>8, <1>2 DEF CancelPublish, Subscribed, TypeOK
  <2> QED
    BY <2>1, <2>2, <2>3, <2>4, <2>5, <2>6, <2>7, <2>8, <1>2 DEF CancelStep
<1>3. ASSUME NEW r \in Readers, ReadStep(r) PROVE TypeInv'
  <2>1. CASE ReadRecord(r)
    BY <2>1, <1>3 DEF ReadRecord, TypeOK
  <2>2. CASE ConsumeRead(r)
    BY <2>2, <1>3 DEF ConsumeRead, TypeOK
  <2>3. CASE ConsumeDelete(r)
    <3>1. TypeOK'
      BY <2>3, <1>3 DEF ConsumeDelete, TypeOK
    <3>2. (AttemptsLeft /\ NotQueuedYet /\ LocksAgree)'
      BY <2>3, <1>3 DEF ConsumeDelete, TypeOK
    <3> QED
      BY <3>1, <3>2
  <2> QED
    BY <2>1, <2>2, <2>3, <1>3 DEF ReadStep
<1>4. ASSUME NEW w \in Workers, RunStep(w) PROVE TypeInv'
  <2>1. CASE Pick(w)
    BY <2>1, <1>4 DEF Pick, At, TypeOK
  <2>2. CASE Subscribe(w)
    BY <2>2, <1>4 DEF Subscribe, At, TypeOK
  <2>3. CASE MarkRunning(w)
    BY <2>3, <1>4 DEF MarkRunning, At, Put, TypeOK
  <2>4. CASE CheckBeforeRules(w)
    BY <2>4, <1>4 DEF CheckBeforeRules, At, TypeOK
  <2>5. CASE ResolveRules(w)
    <3>1. TypeOK'
      <4>1. CASE UNCHANGED rethrow
        BY <2>5, <1>4, <4>1 DEF ResolveRules, At, TypeOK
      <4>2. CASE rethrow' = [rethrow EXCEPT ![w] = TRUE]
        BY <2>5, <1>4, <4>2 DEF ResolveRules, At, TypeOK
      <4> QED
        BY <2>5, <1>4, <4>1, <4>2 DEF ResolveRules, At
    <3>2. (AttemptsLeft /\ NotQueuedYet /\ LocksAgree)'
      BY <2>5, <1>4 DEF ResolveRules, At, TypeOK
    <3> QED
      BY <3>1, <3>2
  <2>6. CASE CheckAfterRules(w)
    BY <2>6, <1>4 DEF CheckAfterRules, At, TypeOK
  <2>7. CASE PersistSection(w)
    BY <2>7, <1>4 DEF PersistSection, At, Touch, TypeOK
  <2>8. CASE GenerateReturns(w)
    BY <2>8, <1>4 DEF GenerateReturns, At, TypeOK
  <2>9. CASE GenerateThrows(w)
    BY <2>9, <1>4 DEF GenerateThrows, At, TypeOK
  <2>10. CASE MarkSucceeded(w)
    BY <2>10, <1>4 DEF MarkSucceeded, At, PutResult, TypeOK
  <2>11. CASE Catch(w)
    BY <2>11, <1>4 DEF Catch, At, FinalAttempt, TypeOK
  <2>12. CASE MarkCancelled(w)
    BY <2>12, <1>4 DEF MarkCancelled, At, Put, TypeOK
  <2>13. CASE MarkFailed(w)
    BY <2>13, <1>4 DEF MarkFailed, At, Put, TypeOK
  <2>14. CASE MarkRetrying(w)
    BY <2>14, <1>4 DEF MarkRetrying, At, Put, TypeOK
  <2>15. CASE ClearFlag(w)
    <3>1. TypeOK'
      <4>1. lapsed' = lapsed /\ flag' = FALSE
        BY <2>15, <1>4 DEF ClearFlag
      <4>2. lapsed' \in BOOLEAN /\ flag' \in BOOLEAN
        BY <4>1 DEF TypeOK
      <4> QED
        BY <2>15, <1>4, <4>2 DEF ClearFlag, At, TypeOK
    <3>2. (AttemptsLeft /\ NotQueuedYet /\ LocksAgree)'
      BY <2>15, <1>4 DEF ClearFlag, At, TypeOK
    <3> QED
      BY <3>1, <3>2
  <2>16. CASE Finish(w)
    BY <2>16, <1>4 DEF Finish, At, NextQueueState, TypeOK
  <2> QED
    BY <2>1, <2>2, <2>3, <2>4, <2>5, <2>6, <2>7, <2>8, <2>9, <2>10, <2>11, <2>12, <2>13, <2>14, <2>15, <2>16, <1>4 DEF RunStep
<1>5. ASSUME NEW w \in Workers, DeliverCancel(w) \/ Crash(w) \/ LoseLock(w) PROVE TypeInv'
  <2>1. CASE DeliverCancel(w)
    <3>1. TypeOK'
      BY <2>1, <1>5 DEF DeliverCancel, TypeOK
    <3>2. (AttemptsLeft /\ NotQueuedYet /\ LocksAgree)'
      BY <2>1, <1>5 DEF DeliverCancel, TypeOK
    <3> QED
      BY <3>1, <3>2
  <2>2. CASE Crash(w)
    <3>1. TypeOK'
      BY <2>2, <1>5 DEF Crash, TypeOK
    <3>2. (AttemptsLeft /\ NotQueuedYet /\ LocksAgree)'
      BY <2>2, <1>5 DEF Crash, TypeOK
    <3> QED
      BY <3>1, <3>2
  <2>3. CASE LoseLock(w)
    BY <2>3, <1>5 DEF LoseLock, TypeOK
  <2> QED
    BY <2>1, <2>2, <2>3, <1>5 DEF Next
<1>6. CASE QueueStep
  <2>1. CASE Promote
    BY <2>1 DEF Promote, TypeOK
  <2>2. CASE CheckStalled
    BY <2>2 DEF CheckStalled, TypeOK
  <2> QED
    BY <2>1, <2>2, <1>6 DEF QueueStep
<1>7. CASE ApiCrash
  BY <1>7 DEF ApiCrash, TypeOK
<1>8. CASE ExpireRecord \/ ExpireKey
  <2>1. CASE ExpireRecord
    BY <2>1 DEF ExpireRecord, TypeOK
  <2>2. CASE ExpireKey
    <3>1. TypeOK'
      <4>1. lapsed' \in BOOLEAN /\ flag' \in BOOLEAN
        BY <2>2 DEF ExpireKey
      <4> QED
        BY <2>2, <4>1 DEF ExpireKey, TypeOK
    <3>2. (AttemptsLeft /\ NotQueuedYet /\ LocksAgree)'
      BY <2>2 DEF ExpireKey, TypeOK
    <3> QED
      BY <3>1, <3>2
  <2> QED
    BY <1>8, <2>1, <2>2
<1>9. CASE UNCHANGED vars
  BY <1>9 DEF vars, TypeOK
<1> QED
  BY <1>1, <1>2, <1>3, <1>4, <1>5, <1>6, <1>7, <1>8, <1>9 DEF Next

\* The variables keep their types, and the queue never hands out an attempt
\* beyond the number the job was added with, whatever crashes and lock losses
\* there are (queue/jobs.ts, worker/runner.ts).
THEOREM TypeCorrect == Spec => []TypeOK
<1>1. Init => TypeInv
  BY TypeInvInit
<1>2. TypeInv /\ [Next]_vars => TypeInv'
  BY TypeInvStep
<1>3. TypeInv => TypeOK
  BY DEF TypeInv
<1> QED
  BY <1>1, <1>2, <1>3, PTL DEF Spec

-----------------------------------------------------------------------------
(* What a job's end is worth: while no lock is lost, Over is stable.        *)

\* A run that will end in a terminal mark has decided not to be retried.
RunsDecided ==
    \A w \in Workers : pc[w] \in {"fail", "clear"} =>
        ~rethrow[w] \/ attempt[w] >= MaxAttempts

LEMMA RunsDecidedStep == TypeInv /\ RunsDecided /\ [Next]_vars => RunsDecided'
<1> SUFFICES ASSUME TypeInv, RunsDecided, [Next]_vars,
                    NEW v \in Workers, pc'[v] \in {"fail", "clear"}
             PROVE  ~rethrow'[v] \/ attempt'[v] >= MaxAttempts
  BY DEF RunsDecided
<1> USE DEF TypeInv, TypeOK, RunsDecided
<1>1. CASE UNCHANGED runVars
  BY <1>1
<1>2. ASSUME NEW c \in Cancels, CancelPublish(c) PROVE UNCHANGED <<pc, rethrow, attempt>>
  BY <1>2 DEF CancelPublish
<1>3. CASE \E w \in Workers : RunStep(w)
  <2> PICK w \in Workers : RunStep(w)
    BY <1>3
  <2>1. CASE v # w
    <3>1. pc'[v] = pc[v] /\ rethrow'[v] = rethrow[v] /\ attempt'[v] = attempt[v]
      BY <2>1 DEF RunStep, Pick, Subscribe, MarkRunning, CheckBeforeRules, ResolveRules,
                  CheckAfterRules, PersistSection, GenerateReturns, GenerateThrows,
                  MarkSucceeded, Catch, MarkCancelled, MarkFailed, MarkRetrying,
                  ClearFlag, Finish, At
    <3> QED
      BY <3>1
  <2>2. CASE v = w
    <3>1. Catch(w) \/ MarkSucceeded(w) \/ MarkCancelled(w) \/ MarkFailed(w)
      BY <2>2 DEF RunStep, Pick, Subscribe, MarkRunning, CheckBeforeRules, ResolveRules,
                  CheckAfterRules, PersistSection, GenerateReturns, GenerateThrows,
                  MarkRetrying, ClearFlag, Finish, At
    <3>2. CASE Catch(w)
      BY <2>2, <3>2 DEF Catch, At, FinalAttempt
    <3>3. CASE MarkSucceeded(w) \/ MarkCancelled(w)
      BY <2>2, <3>3 DEF MarkSucceeded, MarkCancelled, At
    <3>4. CASE MarkFailed(w)
      BY <2>2, <3>4 DEF MarkFailed, At
    <3> QED
      BY <3>1, <3>2, <3>3, <3>4
  <2> QED
    BY <2>1, <2>2
<1>4. ASSUME NEW w \in Workers, DeliverCancel(w) \/ Crash(w) \/ LoseLock(w)
      PROVE  pc'[v] = pc[v] /\ UNCHANGED <<rethrow, attempt>>
  BY <1>4 DEF DeliverCancel, Crash, LoseLock
<1>5. UNCHANGED runVars \/ (\E c \in Cancels : CancelPublish(c))
      \/ (\E w \in Workers : RunStep(w) \/ DeliverCancel(w) \/ Crash(w) \/ LoseLock(w))
  BY DEF Next, vars, Generate, CreateQueued, Enqueue, AnswerGenerate, CancelStep, CancelRead,
         CancelTouch, CancelFlag, CancelInspect, CancelRemove, CancelMark, CancelClear,
         ReadStep, ReadRecord, ConsumeRead, ConsumeDelete, QueueStep, Promote,
         CheckStalled, ApiCrash, ExpireRecord, ExpireKey
<1> QED
  BY <1>1, <1>2, <1>3, <1>4, <1>5

LEMMA LossesStay == TypeInv /\ [Next]_vars /\ NoLoss' => NoLoss
<1> SUFFICES ASSUME TypeInv, [Next]_vars, NoLoss' PROVE NoLoss
  OBVIOUS
<1> USE DEF TypeInv, TypeOK, NoLoss
<1>1. ASSUME NEW w \in Workers, Crash(w) \/ LoseLock(w) PROVE NoLoss
  BY <1>1 DEF Crash, LoseLock
<1>2. UNCHANGED <<crashes, lockLosses>> \/ \E w \in Workers : Crash(w) \/ LoseLock(w)
  BY DEF Next, vars, Generate, CreateQueued, Enqueue, AnswerGenerate, CancelStep, CancelRead,
         CancelTouch, CancelFlag, CancelInspect, CancelRemove, CancelMark, CancelClear,
         CancelPublish, ReadStep, ReadRecord, ConsumeRead, ConsumeDelete, QueueStep, Promote,
         CheckStalled, ApiCrash, ExpireRecord, ExpireKey, DeliverCancel,
         RunStep, Pick, Subscribe, MarkRunning, CheckBeforeRules, ResolveRules,
         CheckAfterRules, PersistSection, GenerateReturns, GenerateThrows,
         MarkSucceeded, Catch, MarkCancelled, MarkFailed, MarkRetrying, ClearFlag, Finish
<1> QED
  BY <1>1, <1>2

\* A job that a run or the queue may still work on is not over.
LEMMA NotOverYet ==
  ASSUME TypeInv, NoLoss
  PROVE  /\ qstate \in {"none", "waiting", "delayed"} => ~Over
         /\ \A w \in Workers : pc[w] \notin {"idle", "clear", "finish"} => ~Over
  BY DEF TypeInv, TypeOK, LocksAgree, Over

\* Once the job is over it stays so: its queue job is done with, or the run that
\* ends it goes on to Finish.
LEMMA OverStays ==
  ASSUME TypeInv, RunsDecided, [Next]_vars, NoLoss', Over
  PROVE  Over'
<1>0. NoLoss
  BY LossesStay
<1> USE DEF TypeInv, TypeOK, LocksAgree, Over
<1>1. CASE UNCHANGED <<qstate, runVars>>
  BY <1>1 DEF NextQueueState
<1>2. CASE Enqueue \/ Promote \/ CheckStalled
  BY <1>0, <1>2, NotOverYet DEF Enqueue, Promote, CheckStalled, NotQueuedYet
<1>3. ASSUME NEW c \in Cancels, CancelRemove(c) \/ CancelPublish(c) PROVE Over'
  BY <1>3 DEF CancelRemove, CancelPublish, NextQueueState
<1>4. ASSUME NEW w \in Workers, RunStep(w) PROVE Over'
  <2>1. CASE ClearFlag(w)
    BY <2>1 DEF ClearFlag, At, NextQueueState, RunsDecided
  <2>2. CASE Finish(w)
    <3>1. holder = w
      BY <1>0, <2>2 DEF Finish, At
    <3>2. qstate' = NextQueueState(w) /\ pc[w] = "finish"
      BY <2>2, <3>1 DEF Finish, At
    <3>3. NextQueueState(w) # "delayed"
      BY <1>0, <3>1, <3>2
    <3> QED
      BY <3>2, <3>3 DEF NextQueueState
  <2>3. CASE Pick(w)
    BY <1>0, <2>3, NotOverYet DEF Pick
  <2>4. CASE pc[w] \notin {"idle", "clear", "finish"}
    BY <1>0, <2>4, NotOverYet
  <2> QED
    BY <1>4, <2>1, <2>2, <2>3, <2>4
       DEF RunStep, Subscribe, MarkRunning, CheckBeforeRules, ResolveRules, CheckAfterRules,
           PersistSection, GenerateReturns, GenerateThrows, MarkSucceeded, Catch,
           MarkCancelled, MarkFailed, MarkRetrying, At
<1>5. ASSUME NEW w \in Workers, DeliverCancel(w) PROVE Over'
  BY <1>5 DEF DeliverCancel, NextQueueState
<1>6. ASSUME NEW w \in Workers, Crash(w) \/ LoseLock(w) PROVE Over'
  <2>1. holder # w
    BY <1>0, <1>6 DEF Crash, LoseLock, NoLoss
  <2> QED
    BY <1>0, <1>6, <2>1 DEF Crash, LoseLock
<1>7. UNCHANGED <<qstate, runVars>> \/ Enqueue \/ Promote \/ CheckStalled
      \/ (\E c \in Cancels : CancelRemove(c) \/ CancelPublish(c))
      \/ (\E w \in Workers : RunStep(w) \/ DeliverCancel(w) \/ Crash(w) \/ LoseLock(w))
  BY DEF Next, vars, Generate, CreateQueued, AnswerGenerate, CancelStep, CancelRead,
         CancelTouch, CancelFlag, CancelInspect, CancelMark, CancelClear,
         ReadStep, ReadRecord, ConsumeRead, ConsumeDelete, QueueStep, ApiCrash, ExpireRecord, ExpireKey
<1> QED
  BY <1>1, <1>2, <1>3, <1>4, <1>5, <1>6, <1>7

-----------------------------------------------------------------------------
(* What the cancel handlers have done.                                      *)

CancelLocals ==
    \A c \in Cancels :
        /\ removed[c] => qstate = "removed" /\ cpc[c] \in {"mark", "clear", "done", "crashed"}
        /\ cpc[c] \in {"mark", "clear"} \/ answer[c] = "cancelled"
              => removed[c] \/ seen[c] = "queued"
        /\ answer[c] # "none" => cpc[c] = "done"

LEMMA CancelLocalsStep == TypeInv /\ CancelLocals /\ [Next]_vars => CancelLocals'
<1> SUFFICES ASSUME TypeInv, CancelLocals, [Next]_vars PROVE CancelLocals'
  OBVIOUS
<1> USE DEF TypeInv, TypeOK, LocksAgree, CancelLocals
<1>1. CASE UNCHANGED <<qstate, cancelVars>>
  BY <1>1
<1>2. ASSUME NEW c \in Cancels, CancelStep(c) PROVE CancelLocals'
  <2>1. CASE CancelRead(c)
    BY <1>2, <2>1 DEF CancelRead
  <2>2. CASE CancelTouch(c) \/ CancelFlag(c) \/ CancelInspect(c)
    BY <1>2, <2>2 DEF CancelTouch, CancelFlag, CancelInspect, NotRemoved
  <2>3. CASE CancelRemove(c)
    BY <1>2, <2>3 DEF CancelRemove
  <2>4. CASE CancelMark(c)
    BY <1>2, <2>4 DEF CancelMark
  <2>5. CASE CancelClear(c) \/ CancelPublish(c)
    BY <1>2, <2>5 DEF CancelClear, CancelPublish
  <2> QED
    BY <1>2, <2>1, <2>2, <2>3, <2>4, <2>5 DEF CancelStep
<1>3. CASE ApiCrash
  BY <1>3 DEF ApiCrash
<1>4. CASE UNCHANGED cancelVars /\ qstate # "removed"
  BY <1>4
<1>5. ASSUME NEW w \in Workers, RunStep(w)
      PROVE  UNCHANGED cancelVars /\ (qstate # "removed" \/ UNCHANGED qstate)
  BY <1>5 DEF RunStep, Pick, Subscribe, MarkRunning, CheckBeforeRules, ResolveRules,
              CheckAfterRules, PersistSection, GenerateReturns, GenerateThrows,
              MarkSucceeded, Catch, MarkCancelled, MarkFailed, MarkRetrying, ClearFlag,
              Finish
<1>6. CASE Generate \/ QueueStep \/ ExpireRecord \/ ExpireKey
  BY <1>1, <1>4, <1>6 DEF Generate, CreateQueued, Enqueue, AnswerGenerate, NotQueuedYet,
                          QueueStep, Promote, CheckStalled, ExpireRecord, ExpireKey
<1>7. ASSUME NEW r \in Readers, ReadStep(r) PROVE UNCHANGED <<qstate, cancelVars>>
  BY <1>7 DEF ReadStep, ReadRecord, ConsumeRead, ConsumeDelete
<1>8. ASSUME NEW w \in Workers, DeliverCancel(w) \/ Crash(w) \/ LoseLock(w)
      PROVE  UNCHANGED <<qstate, cancelVars>>
  BY <1>8 DEF DeliverCancel, Crash, LoseLock
<1>9. UNCHANGED vars => UNCHANGED <<qstate, cancelVars>>
  BY DEF vars
<1> QED
  BY <1>1, <1>2, <1>3, <1>4, <1>5, <1>6, <1>7, <1>8, <1>9 DEF Next

\* An undisturbed state is reached through undisturbed states only.
LEMMA DisturbanceStays ==
  TypeInv /\ CancelLocals /\ [Next]_vars /\ Undisturbed' => Undisturbed
<1>0. [Next]_vars /\ lapsed => lapsed'
  BY DEF Next, vars, Generate, CreateQueued, Enqueue, AnswerGenerate, CancelStep,
         CancelRead, CancelTouch, CancelFlag, CancelInspect, CancelRemove, CancelMark,
         CancelClear, CancelPublish, ReadStep, ReadRecord, ConsumeRead, ConsumeDelete,
         QueueStep, Promote, CheckStalled, ApiCrash, ExpireRecord, ExpireKey, DeliverCancel,
         Crash, LoseLock, RunStep, Pick, Subscribe, MarkRunning, CheckBeforeRules,
         ResolveRules, CheckAfterRules, PersistSection, GenerateReturns, GenerateThrows,
         MarkSucceeded, Catch, MarkCancelled, MarkFailed, MarkRetrying, ClearFlag, Finish
<1> SUFFICES ASSUME TypeInv, CancelLocals, [Next]_vars, Undisturbed',
                    NEW c \in Cancels, TookShortcut(c)
             PROVE  FALSE
  BY <1>0, LossesStay DEF Undisturbed, NoLoss
<1> USE DEF TypeInv, TypeOK, CancelLocals, TookShortcut, Undisturbed
<1>1. CASE UNCHANGED cancelVars
  BY <1>1
<1>2. ASSUME NEW d \in Cancels, CancelStep(d) PROVE TookShortcut(c)'
  BY <1>2 DEF CancelStep, CancelRead, CancelTouch, CancelFlag, CancelInspect, CancelRemove,
              CancelMark, CancelClear, CancelPublish
<1>3. CASE ApiCrash
  BY <1>3 DEF ApiCrash
<1>4. UNCHANGED cancelVars \/ ApiCrash \/ \E d \in Cancels : CancelStep(d)
  BY DEF Next, vars, Generate, CreateQueued, Enqueue, AnswerGenerate,
         ReadStep, ReadRecord, ConsumeRead, ConsumeDelete, QueueStep, Promote,
         CheckStalled, ExpireRecord, ExpireKey, DeliverCancel, Crash, LoseLock,
         RunStep, Pick, Subscribe, MarkRunning, CheckBeforeRules, ResolveRules,
         CheckAfterRules, PersistSection, GenerateReturns, GenerateThrows,
         MarkSucceeded, Catch, MarkCancelled, MarkFailed, MarkRetrying, ClearFlag, Finish
<1> QED
  BY <1>1, <1>2, <1>3, <1>4

-----------------------------------------------------------------------------
(* The inductive invariant for cancels and terminal records.                *)

\* The cancel request c has set the cancel key and has not marked the record.
PastFlag(c) ==
    cpc[c] \in {"inspect", "remove", "publish"} \/ answer[c] = "requested"

\* The cancel key stays until the job is over.
FlagKept ==
    Undisturbed => \A c \in Cancels : PastFlag(c) => flag \/ Over

\* A run that generates after an accepted cancel has been or will be aborted.
SignalKept ==
    Undisturbed =>
        \A c \in Cancels, w \in Workers :
            answer[c] = "requested" /\ pc[w] = "generate" => aborted[w] \/ signal[w]

\* A record turns terminal only when the job is over.
TerminalOver ==
    Undisturbed /\ job.status \in Terminal => Over

CancelInv ==
    TypeInv /\ RunsDecided /\ CancelLocals /\ FlagKept /\ SignalKept /\ TerminalOver

LEMMA FlagKeptStep == CancelInv /\ [Next]_vars => FlagKept'
<1> SUFFICES ASSUME CancelInv, [Next]_vars, Undisturbed',
                    NEW c \in Cancels, PastFlag(c)'
             PROVE  flag' \/ Over'
  BY DEF FlagKept
<1>0. Undisturbed /\ NoLoss /\ NoLoss'
  BY DisturbanceStays DEF CancelInv, Undisturbed, NoLoss
<1> USE DEF CancelInv, TypeInv, TypeOK
<1>1. Over => Over'
  BY <1>0, OverStays
<1>2. CASE CancelFlag(c)
  BY <1>2 DEF CancelFlag
<1>3. ASSUME NEW d \in Cancels, CancelClear(d) PROVE Over
  <2>1. CASE removed[d]
    BY <2>1 DEF CancelLocals, Over
  <2>2. CASE ~removed[d]
    BY <1>3, <2>2 DEF CancelClear, CancelLocals, Undisturbed, TookShortcut
  <2> QED
    BY <2>1, <2>2
<1>4. ASSUME NEW w \in Workers, ClearFlag(w) PROVE Over
  BY <1>4 DEF ClearFlag, At, Over
<1>5. PastFlag(c) \/ CancelFlag(c)
  BY DEF PastFlag, Next, vars, Generate, CreateQueued, Enqueue, AnswerGenerate, CancelStep,
         CancelRead, CancelTouch, CancelFlag, CancelInspect, CancelRemove, CancelMark,
         CancelClear, CancelPublish, ReadStep, ReadRecord, ConsumeRead, ConsumeDelete,
         QueueStep, Promote, CheckStalled, ApiCrash, ExpireRecord, ExpireKey, DeliverCancel, Crash, LoseLock,
         RunStep, Pick, Subscribe, MarkRunning, CheckBeforeRules, ResolveRules,
         CheckAfterRules, PersistSection, GenerateReturns, GenerateThrows,
         MarkSucceeded, Catch, MarkCancelled, MarkFailed, MarkRetrying, ClearFlag, Finish
<1>6. \/ UNCHANGED flag
      \/ \E d \in Cancels : CancelFlag(d) \/ CancelClear(d)
      \/ \E w \in Workers : ClearFlag(w)
      \/ ExpireKey
  BY DEF Next, vars, Generate, CreateQueued, Enqueue, AnswerGenerate, CancelStep,
         CancelRead, CancelTouch, CancelInspect, CancelRemove, CancelMark, CancelPublish,
         ReadStep, ReadRecord, ConsumeRead, ConsumeDelete,
         QueueStep, Promote, CheckStalled, ApiCrash, ExpireRecord, DeliverCancel, Crash, LoseLock,
         RunStep, Pick, Subscribe, MarkRunning, CheckBeforeRules, ResolveRules,
         CheckAfterRules, PersistSection, GenerateReturns, GenerateThrows,
         MarkSucceeded, Catch, MarkCancelled, MarkFailed, MarkRetrying, Finish
<1>7. ASSUME NEW d \in Cancels, CancelFlag(d) PROVE flag'
  BY <1>7 DEF CancelFlag
<1>8. ~ExpireKey
  BY DEF ExpireKey, Undisturbed
<1> QED
  BY <1>0, <1>1, <1>2, <1>3, <1>4, <1>5, <1>6, <1>7, <1>8 DEF FlagKept

LEMMA SignalKeptStep == CancelInv /\ [Next]_vars => SignalKept'
<1> SUFFICES ASSUME CancelInv, [Next]_vars, Undisturbed',
                    NEW c \in Cancels, NEW w \in Workers,
                    answer'[c] = "requested", pc'[w] = "generate"
             PROVE  aborted'[w] \/ signal'[w]
  BY DEF SignalKept
<1>0. Undisturbed /\ NoLoss /\ NoLoss'
  BY DisturbanceStays DEF CancelInv, Undisturbed, NoLoss
<1> USE DEF CancelInv, TypeInv, TypeOK
<1>1. CASE UNCHANGED <<answer, pc, aborted, signal>>
  BY <1>0, <1>1 DEF SignalKept
<1>2. ASSUME NEW d \in Cancels, CancelStep(d) PROVE aborted'[w] \/ signal'[w]
  <2>1. CASE CancelPublish(d)
    BY <2>1 DEF CancelPublish, Subscribed
  <2>2. CASE answer'[c] = answer[c] /\ UNCHANGED <<pc, aborted, signal>>
    BY <1>0, <2>2 DEF SignalKept
  <2> QED
    BY <1>2, <2>1, <2>2 DEF CancelStep, CancelRead, CancelTouch, CancelFlag, CancelInspect,
       CancelRemove, CancelMark, CancelClear
<1>3. ASSUME NEW v \in Workers, RunStep(v) PROVE aborted'[w] \/ signal'[w]
  <2>0. UNCHANGED answer
    BY <1>3 DEF RunStep, Pick, Subscribe, MarkRunning, CheckBeforeRules, ResolveRules,
       CheckAfterRules, PersistSection, GenerateReturns, GenerateThrows, MarkSucceeded,
       Catch, MarkCancelled, MarkFailed, MarkRetrying, ClearFlag, Finish
  <2>1. CASE CheckAfterRules(w)
    <3>1. ~flag /\ pc[w] = "check2"
      BY <2>1 DEF CheckAfterRules, At
    <3>2. flag \/ Over
      BY <1>0, <2>0 DEF FlagKept, PastFlag
    <3> QED
      BY <1>0, <3>1, <3>2, NotOverYet
  <2>2. CASE PersistSection(v)
    BY <1>1, <2>2 DEF PersistSection
  <2>3. CASE v # w
    <3>1. pc'[w] = pc[w] /\ aborted'[w] = aborted[w] /\ signal'[w] = signal[w]
      BY <1>3, <2>3 DEF RunStep, Pick, Subscribe, MarkRunning, CheckBeforeRules, ResolveRules,
         CheckAfterRules, PersistSection, GenerateReturns, GenerateThrows, MarkSucceeded,
         Catch, MarkCancelled, MarkFailed, MarkRetrying, ClearFlag, Finish, At
    <3> QED
      BY <1>0, <2>0, <3>1 DEF SignalKept
  <2> QED
    BY <1>3, <2>1, <2>2, <2>3 DEF RunStep, Pick, Subscribe, MarkRunning, CheckBeforeRules,
       ResolveRules, GenerateReturns, GenerateThrows, MarkSucceeded,
       Catch, MarkCancelled, MarkFailed, MarkRetrying, ClearFlag, Finish, At
<1>4. ASSUME NEW v \in Workers, DeliverCancel(v) PROVE aborted'[w] \/ signal'[w]
  <2>1. UNCHANGED <<answer, pc>>
    BY <1>4 DEF DeliverCancel
  <2>2. CASE v = w
    BY <1>4, <2>2 DEF DeliverCancel
  <2>3. CASE v # w
    BY <1>0, <1>4, <2>1, <2>3 DEF DeliverCancel, SignalKept
  <2> QED
    BY <2>2, <2>3
<1>5. ASSUME NEW v \in Workers, Crash(v) PROVE FALSE
  BY <1>0, <1>5 DEF Crash, LocksAgree, NoLoss
<1>6. \/ UNCHANGED <<answer, pc, aborted, signal>>
      \/ \E d \in Cancels : CancelStep(d)
      \/ \E v \in Workers : RunStep(v) \/ DeliverCancel(v) \/ Crash(v)
  BY DEF Next, vars, Generate, CreateQueued, Enqueue, AnswerGenerate,
         ReadStep, ReadRecord, ConsumeRead, ConsumeDelete,
         QueueStep, Promote, CheckStalled, ApiCrash, ExpireRecord, ExpireKey, LoseLock
<1> QED
  BY <1>1, <1>2, <1>3, <1>4, <1>5, <1>6

\* Who writes the status of a record that exists after the step.
LEMMA StatusWriters ==
  ASSUME TypeInv, [Next]_vars
  PROVE  \/ job'.status = job.status
         \/ ~job'.live /\ ~job'.owned /\ job'.status = "unset"
         \/ CreateQueued /\ job'.status = "queued"
         \/ \E c \in Cancels : CancelMark(c)
         \/ \E w \in Workers : MarkSucceeded(w) \/ MarkCancelled(w) \/ MarkFailed(w)
         \/ \E w \in Workers : /\ MarkRunning(w) \/ MarkRetrying(w)
                               /\ job'.status \in {"running", "retrying"}
<1> USE DEF TypeInv, TypeOK, JobHash
<1>1. ASSUME NEW w \in Workers, MarkRunning(w) \/ MarkRetrying(w)
      PROVE  job'.status \in {"running", "retrying"}
  BY <1>1 DEF MarkRunning, MarkRetrying, Put
<1>2. CreateQueued => job'.status = "queued"
  BY DEF CreateQueued
<1>3. job' = Touch => job'.status = job.status
  BY DEF Touch
<1>4. job' = NoHash => ~job'.live /\ ~job'.owned /\ job'.status = "unset"
  BY DEF NoHash
<1>5. \/ UNCHANGED job \/ job' = Touch \/ job' = NoHash \/ CreateQueued
      \/ \E c \in Cancels : CancelMark(c)
      \/ \E w \in Workers : \/ MarkSucceeded(w) \/ MarkCancelled(w) \/ MarkFailed(w)
                            \/ MarkRunning(w) \/ MarkRetrying(w)
  BY DEF Next, vars, Generate, Enqueue, AnswerGenerate, CancelStep,
         CancelRead, CancelTouch, CancelFlag, CancelInspect, CancelRemove, CancelClear,
         CancelPublish, ReadStep, ReadRecord, ConsumeRead, ConsumeDelete,
         QueueStep, Promote, CheckStalled, ApiCrash, ExpireRecord, ExpireKey, DeliverCancel, Crash,
         LoseLock, RunStep, Pick, Subscribe, CheckBeforeRules, ResolveRules,
         CheckAfterRules, PersistSection, GenerateReturns, GenerateThrows, Catch,
         ClearFlag, Finish
<1> QED
  BY <1>1, <1>2, <1>3, <1>4, <1>5

LEMMA TerminalOverStep == CancelInv /\ [Next]_vars => TerminalOver'
<1> SUFFICES ASSUME CancelInv, [Next]_vars, Undisturbed', job'.status \in Terminal
             PROVE  Over'
  BY DEF TerminalOver
<1>0. Undisturbed /\ NoLoss /\ NoLoss'
  BY DisturbanceStays DEF CancelInv, Undisturbed, NoLoss
<1> USE DEF CancelInv, TypeInv, TypeOK
<1>1. Over => Over'
  BY <1>0, OverStays
<1>2. CASE job'.status = job.status
  BY <1>0, <1>1, <1>2 DEF TerminalOver
<1>3. ASSUME NEW c \in Cancels, CancelMark(c) PROVE Over
  <2>1. CASE removed[c]
    BY <2>1 DEF CancelLocals, Over
  <2>2. CASE ~removed[c]
    BY <1>0, <1>3, <2>2 DEF CancelMark, CancelLocals, Undisturbed, TookShortcut
  <2> QED
    BY <2>1, <2>2
<1>4. ASSUME NEW w \in Workers, MarkSucceeded(w) \/ MarkCancelled(w) \/ MarkFailed(w)
      PROVE  Over'
  BY <1>4 DEF MarkSucceeded, MarkCancelled, MarkFailed, At, Over
<1> QED
  BY <1>1, <1>2, <1>3, <1>4, StatusWriters DEF Terminal

LEMMA CancelInvInductive == /\ Init => CancelInv
                            /\ CancelInv /\ [Next]_vars => CancelInv'
<1>1. Init => CancelInv
  <2> SUFFICES ASSUME Init PROVE CancelInv
    OBVIOUS
  <2>1. TypeInv
    BY TypeInvInit
  <2>2. RunsDecided /\ CancelLocals
    BY DEF Init, RunsDecided, CancelLocals
  <2>3. FlagKept /\ SignalKept
    BY DEF Init, FlagKept, SignalKept, PastFlag
  <2>4. TerminalOver
    BY DEF Init, TerminalOver, NoHash, Terminal
  <2> QED
    BY <2>1, <2>2, <2>3, <2>4 DEF CancelInv
<1>2. CancelInv /\ [Next]_vars => CancelInv'
  BY TypeInvStep, RunsDecidedStep, CancelLocalsStep, FlagKeptStep, SignalKeptStep,
     TerminalOverStep DEF CancelInv
<1> QED
  BY <1>1, <1>2

LEMMA CancelInvHolds == Spec => []CancelInv
  BY CancelInvInductive, PTL DEF Spec

-----------------------------------------------------------------------------
(* A cancel request that removes the queue job finds no other end.          *)

\* Between getState and the HSET of markCancelled a run may take the job and
\* finish; the cancel key makes it turn back before it generates.
Removing(c) == cpc[c] = "remove" \/ (cpc[c] = "mark" /\ removed[c])

RemovalsFindNoEnd ==
    Undisturbed => \A c \in Cancels : Removing(c) =>
        /\ job.status \notin {"succeeded", "failed"}
        /\ \A w \in Workers : pc[w] \in {"idle", "subscribe", "start", "check1",
                                         "cancel", "clear", "finish"}

FinalInv == CancelInv /\ RemovalsFindNoEnd

\* Which steps touch the queue job, its lock or the place of a run.
LEMMA QueueWriters ==
  ASSUME [Next]_vars
  PROVE  \/ UNCHANGED <<qstate, holder, pc, attempt, rethrow>>
         \/ Enqueue \/ Promote \/ CheckStalled
         \/ \E c \in Cancels : CancelRemove(c)
         \/ \E w \in Workers : RunStep(w) \/ Crash(w) \/ LoseLock(w)
  BY DEF Next, vars, Generate, CreateQueued, AnswerGenerate, CancelStep, CancelRead,
         CancelTouch, CancelFlag, CancelInspect, CancelMark, CancelClear, CancelPublish,
         ReadStep, ReadRecord, ConsumeRead, ConsumeDelete, QueueStep, ApiCrash,
         ExpireRecord, ExpireKey, DeliverCancel

\* Who begins to remove: a handler that finds the job waiting, when nothing runs.
LEMMA RemovingWriters ==
  ASSUME TypeInv, CancelLocals, [Next]_vars, NEW c \in Cancels, Removing(c)', ~Removing(c)
  PROVE  CancelInspect(c) /\ Removable(qstate)
<1> USE DEF TypeInv, TypeOK, Removing
<1>1. ~UNCHANGED cancelVars
  OBVIOUS
<1>2. ASSUME NEW d \in Cancels, CancelStep(d) PROVE CancelInspect(c) /\ Removable(qstate)
  BY <1>2 DEF CancelStep, CancelRead, CancelTouch, CancelFlag, CancelInspect, CancelRemove,
     CancelMark, CancelClear, CancelPublish, NotRemoved, CancelLocals
<1>3. ~ApiCrash
  BY DEF ApiCrash
<1>4. UNCHANGED cancelVars \/ ApiCrash \/ \E d \in Cancels : CancelStep(d)
  BY DEF Next, vars, Generate, CreateQueued, Enqueue, AnswerGenerate,
     ReadStep, ReadRecord, ConsumeRead, ConsumeDelete, QueueStep, Promote,
     CheckStalled, ExpireRecord, ExpireKey, DeliverCancel, Crash, LoseLock,
     RunStep, Pick, Subscribe, MarkRunning, CheckBeforeRules, ResolveRules,
     CheckAfterRules, PersistSection, GenerateReturns, GenerateThrows,
     MarkSucceeded, Catch, MarkCancelled, MarkFailed, MarkRetrying, ClearFlag, Finish
<1> QED
  BY <1>1, <1>2, <1>3, <1>4

LEMMA RemovalsFindNoEndStep == FinalInv /\ [Next]_vars => RemovalsFindNoEnd'
<1> SUFFICES ASSUME FinalInv, [Next]_vars, Undisturbed', NEW c \in Cancels, Removing(c)'
             PROVE  /\ job'.status \notin {"succeeded", "failed"}
                    /\ \A w \in Workers : pc'[w] \in {"idle", "subscribe", "start", "check1",
                                                      "cancel", "clear", "finish"}
  BY DEF RemovalsFindNoEnd
<1>0. Undisturbed /\ NoLoss
  BY DisturbanceStays DEF FinalInv, CancelInv, Undisturbed, NoLoss
<1> USE DEF FinalInv, CancelInv, TypeInv, TypeOK
<1>1. CASE ~Removing(c)
  <2>1. CancelInspect(c) /\ Removable(qstate)
    BY <1>1, RemovingWriters
  <2>2. \A w \in Workers : pc[w] = "idle"
    BY <1>0, <2>1 DEF LocksAgree, Removable
  <2>3. job.status \notin Terminal
    BY <1>0, <2>1, NotOverYet DEF TerminalOver, Removable
  <2> QED
    BY <2>1, <2>2, <2>3 DEF CancelInspect, Terminal
<1>2. CASE Removing(c)
  <2>1. /\ job.status \notin {"succeeded", "failed"}
        /\ \A w \in Workers : pc[w] \in {"idle", "subscribe", "start", "check1",
                                         "cancel", "clear", "finish"}
    BY <1>0, <1>2 DEF RemovalsFindNoEnd
  <2>2. \A w \in Workers : pc[w] = "check1" => flag
    <3> SUFFICES ASSUME NEW w \in Workers, pc[w] = "check1" PROVE flag
      OBVIOUS
    <3>1. ~Over
      BY <1>0, NotOverYet
    <3>2. qstate # "removed"
      BY <1>0 DEF LocksAgree
    <3>3. cpc[c] = "remove"
      BY <1>2, <3>2 DEF Removing, CancelLocals
    <3> QED
      BY <1>0, <3>1, <3>3 DEF FlagKept, PastFlag
  <2>3. job'.status \notin {"succeeded", "failed"}
    <3>1. ASSUME NEW d \in Cancels, CancelMark(d) PROVE job'.status = "cancelled"
      BY <3>1 DEF CancelMark, Put, JobHash
    <3>2. ASSUME NEW w \in Workers, MarkSucceeded(w) \/ MarkCancelled(w) \/ MarkFailed(w)
          PROVE  job'.status = "cancelled"
      BY <2>1, <3>2 DEF MarkSucceeded, MarkCancelled, MarkFailed, At, Put, JobHash
    <3> QED
      BY <2>1, <3>1, <3>2, StatusWriters
  <2>4. ASSUME NEW w \in Workers
        PROVE  pc'[w] \in {"idle", "subscribe", "start", "check1", "cancel", "clear", "finish"}
    <3>1. CASE pc'[w] = pc[w]
      BY <2>1, <3>1
    <3>2. ASSUME RunStep(w)
          PROVE  pc'[w] \in {"idle", "subscribe", "start", "check1", "cancel", "clear", "finish"}
      BY <2>1, <2>2, <3>2 DEF RunStep, Pick, Subscribe, MarkRunning, CheckBeforeRules,
         ResolveRules, CheckAfterRules, PersistSection, GenerateReturns, GenerateThrows,
         MarkSucceeded, Catch, MarkCancelled, MarkFailed, MarkRetrying, ClearFlag, Finish, At
    <3>3. ASSUME NEW v \in Workers, v # w, RunStep(v) \/ Crash(v) \/ LoseLock(v)
          PROVE  pc'[w] = pc[w]
      BY <3>3 DEF RunStep, Pick, Subscribe, MarkRunning, CheckBeforeRules, ResolveRules,
         CheckAfterRules, PersistSection, GenerateReturns, GenerateThrows, MarkSucceeded,
         Catch, MarkCancelled, MarkFailed, MarkRetrying, ClearFlag, Finish, At, Crash, LoseLock
    <3>4. Crash(w) \/ LoseLock(w) => pc'[w] \in {"idle", pc[w]}
      BY DEF Crash, LoseLock
    <3>5. UNCHANGED pc \/ \E v \in Workers : RunStep(v) \/ Crash(v) \/ LoseLock(v)
      BY QueueWriters DEF Enqueue, Promote, CheckStalled, CancelRemove
    <3> QED
      BY <2>1, <3>1, <3>2, <3>3, <3>4, <3>5
  <2> QED
    BY <2>3, <2>4
<1> QED
  BY <1>1, <1>2

LEMMA FinalInvInductive == /\ Init => FinalInv
                           /\ FinalInv /\ [Next]_vars => FinalInv'
<1>1. Init => RemovalsFindNoEnd
  BY DEF Init, RemovalsFindNoEnd, Removing
<1> QED
  BY <1>1, CancelInvInductive, RemovalsFindNoEndStep DEF FinalInv

-----------------------------------------------------------------------------
\* An accepted cancel reaches every run (CancelReachesRun): the order of
\* subscribe, check, flag and publish in worker/runner.ts and api/routes.ts loses
\* none, for any number of cancel requests and attempts.
THEOREM AcceptedCancelsReachRuns == Spec => []CancelReachesRun
<1>1. CancelInv => CancelReachesRun
  <2> SUFFICES ASSUME CancelInv, Undisturbed,
                      NEW c \in Cancels, answer[c] = "requested", ~Over
               PROVE  /\ qstate \in {"waiting", "delayed"} => flag
                      /\ \A w \in Workers :
                            /\ pc[w] \in {"subscribe", "start", "check1", "resolve", "check2"}
                                  => flag
                            /\ pc[w] = "generate" => aborted[w] \/ signal[w]
    BY DEF CancelReachesRun
  <2>1. flag
    BY DEF CancelInv, FlagKept, PastFlag
  <2>2. \A w \in Workers : pc[w] = "generate" => aborted[w] \/ signal[w]
    BY DEF CancelInv, SignalKept
  <2> QED
    BY <2>1, <2>2
<1> QED
  BY <1>1, CancelInvHolds, PTL

\* While nothing disturbs the job, no write replaces a terminal status.
LEMMA TerminalStays ==
  ASSUME FinalInv, [Next]_vars, Undisturbed, job.status \in Terminal, job'.live
  PROVE  job'.status = job.status
<1> SUFFICES ASSUME job'.status # job.status PROVE FALSE
  OBVIOUS
<1> USE DEF FinalInv, CancelInv, TypeInv, TypeOK
<1>0. Over /\ NoLoss
  BY DEF TerminalOver, Undisturbed, NoLoss
<1>1. ~CreateQueued
  BY <1>0, NotOverYet DEF CreateQueued, NotQueuedYet
<1>2. ASSUME NEW w \in Workers,
             \/ MarkRunning(w) \/ MarkRetrying(w) \/ MarkSucceeded(w)
             \/ MarkCancelled(w) \/ MarkFailed(w)
      PROVE  FALSE
  BY <1>0, <1>2, NotOverYet DEF MarkRunning, MarkRetrying, MarkSucceeded,
     MarkCancelled, MarkFailed, At
<1>3. PICK c \in Cancels : CancelMark(c)
  BY <1>1, <1>2, StatusWriters
<1>4. Removing(c)
  BY <1>3 DEF CancelMark, CancelLocals, Undisturbed, TookShortcut, Removing
<1>5. job.status \notin {"succeeded", "failed"}
  BY <1>4 DEF RemovalsFindNoEnd
<1>6. job'.status = "cancelled"
  BY <1>3 DEF CancelMark, Put, JobHash
<1> QED
  BY <1>5, <1>6 DEF Terminal

\* A terminal record is final (TerminalIsFinal): the unconditional writes of
\* store/job-store.ts never replace one while no lock is lost, no cancel
\* key runs out and no cancel request marks the record of a running job.  The one write that comes late, of a
\* handler that removed the queue job after a run, finds the record cancelled.
THEOREM TerminalRecordsAreFinal == Spec => TerminalIsFinal
<1> DEFINE Final ==
      (job.status \in Terminal /\ job'.live /\ job'.status # job.status) => ~Undisturbed
<1>1. FinalInv /\ [Next]_vars => [Final]_vars
  BY TerminalStays
<1> QED
  BY <1>1, FinalInvInductive, PTL DEF Spec, TerminalIsFinal

-----------------------------------------------------------------------------
(* The record and its deletion.                                             *)

SucceededOver == NoLoss /\ job.status = "succeeded" => Over

DeleteOver == NoLoss => \A r \in Readers : rpc[r] = "delete" => Over

RecordKept ==
    ("expiry" \notin Faults /\ NoLoss /\ gen # "idle" /\ ~job.owned)
        => Over /\ \E r \in Readers : got[r]

RemovedMarked ==
    NoLoss => \A c \in Cancels :
        removed[c] /\ (cpc[c] = "clear" \/ answer[c] = "cancelled")
            => (job.owned => job.status = "cancelled")

StoreInv ==
    /\ TypeInv /\ RunsDecided /\ CancelLocals
    /\ SucceededOver /\ DeleteOver /\ RecordKept /\ RemovedMarked

\* Who gives a record its owner and who takes it away.
LEMMA OwnerWriters ==
  ASSUME TypeInv, [Next]_vars
  PROVE  \/ job'.owned = job.owned
         \/ CreateQueued /\ job'.owned
         \/ \E r \in Readers : ConsumeDelete(r)
         \/ ExpireRecord
<1> USE DEF TypeInv, TypeOK, JobHash
<1>1. \A s \in Status : Put(s).owned = job.owned
  BY DEF Put
<1>2. Touch.owned = job.owned /\ PutResult.owned = job.owned
  BY DEF Touch, PutResult
<1>3. CreateQueued => job'.owned
  BY DEF CreateQueued
<1>4. \/ UNCHANGED job \/ job' = Touch \/ job' = PutResult \/ CreateQueued
      \/ \E s \in Status : job' = Put(s)
      \/ \E r \in Readers : ConsumeDelete(r)
      \/ ExpireRecord
  BY DEF Status, Terminal, Next, vars, Generate, Enqueue, AnswerGenerate, CancelStep,
         CancelRead, CancelTouch, CancelFlag, CancelInspect, CancelRemove, CancelMark,
         CancelClear, CancelPublish, ReadStep, ReadRecord, ConsumeRead,
         QueueStep, Promote, CheckStalled, ApiCrash, ExpireKey, DeliverCancel, Crash,
         LoseLock, RunStep, Pick, Subscribe, MarkRunning, CheckBeforeRules, ResolveRules,
         CheckAfterRules, PersistSection, GenerateReturns, GenerateThrows, MarkSucceeded,
         Catch, MarkCancelled, MarkFailed, MarkRetrying, ClearFlag, Finish
<1> QED
  BY <1>1, <1>2, <1>3, <1>4

LEMMA StoreInvStep == StoreInv /\ [Next]_vars => StoreInv'
<1> SUFFICES ASSUME StoreInv, [Next]_vars, NoLoss'
             PROVE  SucceededOver' /\ DeleteOver' /\ RecordKept' /\ RemovedMarked'
  BY TypeInvStep, RunsDecidedStep, CancelLocalsStep
     DEF StoreInv, SucceededOver, DeleteOver, RecordKept, RemovedMarked
<1> USE DEF StoreInv, TypeInv, TypeOK
<1>0. NoLoss
  BY LossesStay
<1>1. Over => Over'
  BY <1>0, OverStays
<1>2. SucceededOver'
  <2> SUFFICES ASSUME job'.status = "succeeded" PROVE Over'
    BY DEF SucceededOver
  <2>1. CASE job'.status = job.status
    BY <1>0, <1>1, <2>1 DEF SucceededOver
  <2>2. ASSUME NEW w \in Workers, MarkSucceeded(w) \/ MarkCancelled(w) \/ MarkFailed(w)
        PROVE  Over'
    BY <2>2 DEF MarkSucceeded, MarkCancelled, MarkFailed, At, Over
  <2>3. ASSUME NEW c \in Cancels, CancelMark(c) PROVE FALSE
    BY <2>3 DEF CancelMark, Put, JobHash
  <2> QED
    BY <2>1, <2>2, <2>3, StatusWriters
<1>3. DeleteOver'
  <2> SUFFICES ASSUME NEW r \in Readers, rpc'[r] = "delete" PROVE Over'
    BY DEF DeleteOver
  <2>1. CASE ConsumeRead(r)
    BY <1>0, <1>1, <2>1 DEF ConsumeRead, StatusRead, SucceededOver
  <2>2. ConsumeRead(r) \/ rpc[r] = "delete"
    BY DEF Next, vars, Generate, CreateQueued, Enqueue, AnswerGenerate, CancelStep,
         CancelRead, CancelTouch, CancelFlag, CancelInspect, CancelRemove, CancelMark,
         CancelClear, CancelPublish, ReadStep, ReadRecord, ConsumeRead, ConsumeDelete,
         QueueStep, Promote, CheckStalled, ApiCrash, ExpireRecord, ExpireKey, DeliverCancel, Crash,
         LoseLock, RunStep, Pick, Subscribe, MarkRunning, CheckBeforeRules, ResolveRules,
         CheckAfterRules, PersistSection, GenerateReturns, GenerateThrows, MarkSucceeded,
         Catch, MarkCancelled, MarkFailed, MarkRetrying, ClearFlag, Finish
  <2> QED
    BY <1>0, <1>1, <2>1, <2>2 DEF DeleteOver
<1>4. RecordKept'
  <2> SUFFICES ASSUME "expiry" \notin Faults, gen' # "idle", ~job'.owned
               PROVE  Over' /\ \E r \in Readers : got'[r]
    BY DEF RecordKept
  <2>1. ASSUME NEW r \in Readers, ConsumeDelete(r)
        PROVE  Over' /\ \E q \in Readers : got'[q]
    BY <1>0, <1>1, <2>1 DEF ConsumeDelete, DeleteOver
  <2>2. CASE job'.owned = job.owned /\ gen # "idle"
    <3>1. Over /\ \E r \in Readers : got[r]
      BY <1>0, <2>2 DEF RecordKept
    <3>2. \A r \in Readers : got[r] => got'[r]
      BY DEF Next, vars, Generate, CreateQueued, Enqueue, AnswerGenerate, CancelStep,
         CancelRead, CancelTouch, CancelFlag, CancelInspect, CancelRemove, CancelMark,
         CancelClear, CancelPublish, ReadStep, ReadRecord, ConsumeRead, ConsumeDelete,
         QueueStep, Promote, CheckStalled, ApiCrash, ExpireRecord, ExpireKey, DeliverCancel, Crash,
         LoseLock, RunStep, Pick, Subscribe, MarkRunning, CheckBeforeRules, ResolveRules,
         CheckAfterRules, PersistSection, GenerateReturns, GenerateThrows, MarkSucceeded,
         Catch, MarkCancelled, MarkFailed, MarkRetrying, ClearFlag, Finish
    <3> QED
      BY <1>1, <3>1, <3>2
  <2>3. gen = "idle" => gen' = "idle" \/ CreateQueued
    BY DEF Next, vars, Generate, CreateQueued, Enqueue, AnswerGenerate, CancelStep,
         CancelRead, CancelTouch, CancelFlag, CancelInspect, CancelRemove, CancelMark,
         CancelClear, CancelPublish, ReadStep, ReadRecord, ConsumeRead, ConsumeDelete,
         QueueStep, Promote, CheckStalled, ApiCrash, ExpireRecord, ExpireKey, DeliverCancel, Crash,
         LoseLock, RunStep, Pick, Subscribe, MarkRunning, CheckBeforeRules, ResolveRules,
         CheckAfterRules, PersistSection, GenerateReturns, GenerateThrows, MarkSucceeded,
         Catch, MarkCancelled, MarkFailed, MarkRetrying, ClearFlag, Finish
  <2>4. CreateQueued => job'.owned
    BY DEF CreateQueued
  <2> QED
    BY <2>1, <2>2, <2>3, <2>4, OwnerWriters DEF ExpireRecord
<1>5. RemovedMarked'
  <2> SUFFICES ASSUME NEW c \in Cancels, removed'[c],
                      cpc'[c] = "clear" \/ answer'[c] = "cancelled", job'.owned
               PROVE  job'.status = "cancelled"
    BY DEF RemovedMarked
  <2>1. ASSUME NEW d \in Cancels, CancelMark(d) PROVE job'.status = "cancelled"
    BY <2>1 DEF CancelMark, Put, JobHash
  <2>2. ASSUME ~CancelMark(c)
        PROVE  removed[c] /\ (cpc[c] = "clear" \/ answer[c] = "cancelled")
    <3>1. CASE UNCHANGED cancelVars
      BY <3>1
    <3>2. ASSUME NEW d \in Cancels, CancelStep(d)
          PROVE  removed[c] /\ (cpc[c] = "clear" \/ answer[c] = "cancelled")
      BY <2>2, <3>2 DEF CancelLocals, CancelStep, CancelRead, CancelTouch, CancelFlag,
         CancelInspect, CancelRemove, CancelMark, CancelClear, CancelPublish, NotRemoved
    <3>3. CASE ApiCrash
      BY <3>3 DEF ApiCrash
    <3>4. UNCHANGED cancelVars \/ ApiCrash \/ \E d \in Cancels : CancelStep(d)
      BY DEF Next, vars, Generate, CreateQueued, Enqueue, AnswerGenerate,
         ReadStep, ReadRecord, ConsumeRead, ConsumeDelete, QueueStep, Promote,
         CheckStalled, ExpireRecord, ExpireKey, DeliverCancel, Crash, LoseLock,
         RunStep, Pick, Subscribe, MarkRunning, CheckBeforeRules, ResolveRules,
         CheckAfterRules, PersistSection, GenerateReturns, GenerateThrows,
         MarkSucceeded, Catch, MarkCancelled, MarkFailed, MarkRetrying, ClearFlag, Finish
    <3> QED
      BY <3>1, <3>2, <3>3, <3>4
  <2>3. CASE ~CancelMark(c)
    <3>1. qstate = "removed"
      BY <2>2, <2>3 DEF CancelLocals
    <3>2. \A w \in Workers : pc[w] = "idle"
      BY <1>0, <3>1 DEF LocksAgree
    <3>3. ~CreateQueued
      BY <3>1 DEF CreateQueued, NotQueuedYet
    <3>4. \A r \in Readers : ~ConsumeDelete(r)
      BY DEF ConsumeDelete, NoHash
    <3>5. ~ExpireRecord
      BY DEF ExpireRecord, NoHash
    <3>6. job.status = "cancelled"
      BY <1>0, <2>2, <2>3, <3>3, <3>4, <3>5, OwnerWriters DEF RemovedMarked
    <3>7. ~\E w \in Workers : \/ MarkSucceeded(w) \/ MarkCancelled(w) \/ MarkFailed(w)
                              \/ MarkRunning(w) \/ MarkRetrying(w)
      BY <3>2 DEF MarkSucceeded, MarkCancelled, MarkFailed, MarkRunning, MarkRetrying, At
    <3> QED
      BY <2>1, <3>3, <3>6, <3>7, StatusWriters
  <2> QED
    BY <2>1, <2>3
<1> QED
  BY <1>2, <1>3, <1>4, <1>5

LEMMA StoreInvHolds == Spec => []StoreInv
<1>1. Init => StoreInv
  <2> SUFFICES ASSUME Init PROVE StoreInv
    OBVIOUS
  <2>1. RunsDecided /\ CancelLocals /\ DeleteOver /\ RemovedMarked
    BY DEF Init, RunsDecided, CancelLocals, DeleteOver, RemovedMarked
  <2>2. SucceededOver /\ RecordKept
    BY DEF Init, SucceededOver, RecordKept, NoHash
  <2> QED
    BY <2>1, <2>2, TypeInvInit DEF StoreInv
<1> QED
  BY <1>1, StoreInvStep, PTL DEF Spec

\* Only a reader of the result deletes a record, and no run of the job is left
\* or comes after it (RecordOutlivesRuns): consumeResult in store/job-store.ts.
THEOREM RecordsOutliveRuns == Spec => []RecordOutlivesRuns
<1>1. StoreInv => RecordOutlivesRuns
  BY DEF StoreInv, RecordKept, RecordOutlivesRuns, NoLoss
<1> QED
  BY <1>1, StoreInvHolds, PTL

\* A cancel request that took the job out of the queue is the last word on it
\* (RemovedStaysCancelled): the queue_removed branch of api/routes.ts.
THEOREM RemovedJobsStayCancelled == Spec => []RemovedStaysCancelled
<1>1. StoreInv => RemovedStaysCancelled
  BY DEF StoreInv, TypeInv, TypeOK, LocksAgree, CancelLocals, RemovedMarked,
         RemovedStaysCancelled, NoLoss, Found
<1> QED
  BY <1>1, StoreInvHolds, PTL

-----------------------------------------------------------------------------
(* A job the queue is done with has a terminal record, crashes included.    *)

\* No live run has lost its lock, and BullMQ redelivers after every crash so far.
Survivable == lockLosses = 0 /\ crashes <= MaxStalled

JobDone == job.owned => job.status \in Terminal

\* A run that is about to write "retrying" will be handed back by the queue.
RetriesDecided ==
    \A w \in Workers : pc[w] = "retry" => rethrow[w] /\ attempt[w] < MaxAttempts

\* A crashed run is gone: whoever runs the job holds its lock.
OneRun == \A w \in Workers : pc[w] # "idle" => holder = w

\* A run marks the record before it ends in a way that is not retried.
RunMarked ==
    \A w \in Workers :
        pc[w] = "clear" \/ (pc[w] = "finish" /\ NextQueueState(w) # "delayed") => JobDone

EndedMarked == qstate \in {"completed", "failed"} => JobDone

\* A handler that removed the queue job marks the record, unless it dies first.
RemovedSoonMarked ==
    qstate = "removed" =>
        JobDone \/ \E c \in Cancels : removed[c] /\ cpc[c] \in {"mark", "crashed"}

EndInv ==
    /\ TypeInv /\ RetriesDecided
    /\ Survivable => OneRun /\ RunMarked /\ EndedMarked /\ RemovedSoonMarked

LEMMA RetriesDecidedStep == TypeInv /\ RetriesDecided /\ [Next]_vars => RetriesDecided'
<1> SUFFICES ASSUME TypeInv, RetriesDecided, [Next]_vars,
                    NEW v \in Workers, pc'[v] = "retry"
             PROVE  rethrow'[v] /\ attempt'[v] < MaxAttempts
  BY DEF RetriesDecided
<1> USE DEF TypeInv, TypeOK, RetriesDecided
<1>1. CASE UNCHANGED runVars
  BY <1>1
<1>2. ASSUME NEW c \in Cancels, CancelPublish(c) PROVE UNCHANGED <<pc, rethrow, attempt>>
  BY <1>2 DEF CancelPublish
<1>3. ASSUME NEW w \in Workers, RunStep(w)
      PROVE  rethrow'[v] /\ attempt'[v] < MaxAttempts
  <2>1. CASE v = w /\ Catch(w)
    BY <2>1 DEF Catch, At, FinalAttempt
  <2>2. CASE v # w
    <3>1. pc'[v] = pc[v] /\ rethrow'[v] = rethrow[v] /\ attempt'[v] = attempt[v]
      BY <1>3, <2>2 DEF RunStep, Pick, Subscribe, MarkRunning, CheckBeforeRules,
         ResolveRules, CheckAfterRules, PersistSection, GenerateReturns, GenerateThrows,
         MarkSucceeded, Catch, MarkCancelled, MarkFailed, MarkRetrying,
         ClearFlag, Finish, At
    <3> QED
      BY <3>1
  <2>3. CASE v = w /\ ~Catch(w)
    BY <1>3, <2>3 DEF RunStep, Pick, Subscribe, MarkRunning, CheckBeforeRules,
       ResolveRules, CheckAfterRules, PersistSection, GenerateReturns, GenerateThrows,
       MarkSucceeded, MarkCancelled, MarkFailed, MarkRetrying, ClearFlag, Finish, At
  <2> QED
    BY <2>1, <2>2, <2>3
<1>4. ASSUME NEW w \in Workers, DeliverCancel(w) \/ Crash(w) \/ LoseLock(w)
      PROVE  pc'[v] = pc[v] /\ UNCHANGED <<rethrow, attempt>>
  BY <1>4 DEF DeliverCancel, Crash, LoseLock
<1>5. UNCHANGED runVars \/ (\E c \in Cancels : CancelPublish(c))
      \/ (\E w \in Workers : RunStep(w) \/ DeliverCancel(w) \/ Crash(w) \/ LoseLock(w))
  BY DEF Next, vars, Generate, CreateQueued, Enqueue, AnswerGenerate, CancelStep, CancelRead,
         CancelTouch, CancelFlag, CancelInspect, CancelRemove, CancelMark, CancelClear,
         ReadStep, ReadRecord, ConsumeRead, ConsumeDelete, QueueStep, Promote,
         CheckStalled, ApiCrash, ExpireRecord, ExpireKey
<1> QED
  BY <1>1, <1>2, <1>3, <1>4, <1>5

LEMMA SurvivableStays == TypeInv /\ [Next]_vars /\ Survivable' => Survivable
<1> SUFFICES ASSUME TypeInv, [Next]_vars, Survivable' PROVE Survivable
  OBVIOUS
<1> USE DEF TypeInv, TypeOK, Survivable
<1>1. ASSUME NEW w \in Workers, Crash(w) \/ LoseLock(w) PROVE Survivable
  BY <1>1 DEF Crash, LoseLock
<1>2. UNCHANGED <<crashes, lockLosses>> \/ \E w \in Workers : Crash(w) \/ LoseLock(w)
  BY DEF Next, vars, Generate, CreateQueued, Enqueue, AnswerGenerate, CancelStep, CancelRead,
         CancelTouch, CancelFlag, CancelInspect, CancelRemove, CancelMark, CancelClear,
         CancelPublish, ReadStep, ReadRecord, ConsumeRead, ConsumeDelete, QueueStep, Promote,
         CheckStalled, ApiCrash, ExpireRecord, ExpireKey, DeliverCancel,
         RunStep, Pick, Subscribe, MarkRunning, CheckBeforeRules, ResolveRules,
         CheckAfterRules, PersistSection, GenerateReturns, GenerateThrows,
         MarkSucceeded, Catch, MarkCancelled, MarkFailed, MarkRetrying, ClearFlag, Finish
<1> QED
  BY <1>1, <1>2

\* Only the start of a job, of a run and of another attempt undo a terminal record.
LEMMA JobDoneKept ==
  ASSUME TypeInv, [Next]_vars, JobDone, ~CreateQueued,
         \A w \in Workers : ~MarkRunning(w) /\ ~MarkRetrying(w)
  PROVE  JobDone'
<1> USE DEF TypeInv, TypeOK, JobDone
<1>1. CASE job'.owned /\ ~job.owned
  <2>1. ~(job'.owned = job.owned)
    BY <1>1
  <2>2. \A r \in Readers : ~ConsumeDelete(r)
    BY <1>1 DEF ConsumeDelete, NoHash
  <2>3. ~ExpireRecord
    BY <1>1 DEF ExpireRecord, NoHash
  <2> QED
    BY <2>1, <2>2, <2>3, OwnerWriters
<1>2. CASE job'.owned /\ job.owned
  <2>1. ASSUME NEW w \in Workers, MarkSucceeded(w) \/ MarkCancelled(w) \/ MarkFailed(w)
        PROVE  job'.status \in Terminal
    BY <2>1 DEF MarkSucceeded, MarkCancelled, MarkFailed, Put, PutResult, JobHash, Terminal
  <2>2. ASSUME NEW c \in Cancels, CancelMark(c) PROVE job'.status \in Terminal
    BY <2>2 DEF CancelMark, Put, JobHash, Terminal
  <2> QED
    BY <1>2, <2>1, <2>2, StatusWriters
<1> QED
  BY <1>1, <1>2

\* The steps of a run between Pick and Finish move nothing but the run.
LEMMA RunMoves ==
  ASSUME NEW w \in Workers, RunStep(w), ~Pick(w), ~Finish(w)
  PROVE  /\ UNCHANGED <<qstate, holder, cancelVars>>
         /\ pc[w] \notin {"idle", "finish"}
         /\ (PersistSection(w) /\ UNCHANGED pc) \/ (\E s \in RunPCs : At(w, pc[w], s))
  BY DEF RunStep, Subscribe, MarkRunning, CheckBeforeRules, ResolveRules, CheckAfterRules,
         PersistSection, GenerateReturns, GenerateThrows, MarkSucceeded, Catch,
         MarkCancelled, MarkFailed, MarkRetrying, ClearFlag, At, RunPCs

LEMMA OneRunStep ==
  ASSUME TypeInv, OneRun, [Next]_vars, Survivable'
  PROVE  OneRun'
<1> USE DEF TypeInv, TypeOK, LocksAgree, OneRun
<1>1. CASE UNCHANGED <<qstate, holder, pc, attempt, rethrow>>
  BY <1>1
<1>2. CASE Enqueue \/ Promote \/ CheckStalled
  BY <1>2 DEF Enqueue, Promote, CheckStalled
<1>3. ASSUME NEW c \in Cancels, CancelRemove(c) PROVE OneRun'
  BY <1>3 DEF CancelRemove
<1>4. ASSUME NEW w \in Workers, RunStep(w) PROVE OneRun'
  <2>1. CASE Pick(w)
    BY <2>1 DEF Pick, At
  <2>2. CASE Finish(w)
    BY <2>2 DEF Finish, At
  <2>3. CASE ~Pick(w) /\ ~Finish(w)
    BY <1>4, <2>3, RunMoves DEF At
  <2> QED
    BY <2>1, <2>2, <2>3
<1>5. ASSUME NEW w \in Workers, Crash(w) PROVE OneRun'
  BY <1>5 DEF Crash
<1>6. ASSUME NEW w \in Workers, LoseLock(w) PROVE FALSE
  BY <1>6 DEF LoseLock, Survivable
<1> QED
  BY <1>1, <1>2, <1>3, <1>4, <1>5, <1>6, QueueWriters

\* A terminal record is undone only while the job is still to be run.
LEMMA EndsKept ==
  ASSUME EndInv, [Next]_vars, Survivable'
  PROVE  RunMarked' /\ EndedMarked' /\ RemovedSoonMarked'
<1> USE DEF TypeInv, TypeOK, LocksAgree
<1>0. Survivable /\ TypeInv /\ RetriesDecided
      /\ OneRun /\ RunMarked /\ EndedMarked /\ RemovedSoonMarked
  BY SurvivableStays DEF EndInv
<1>1. CASE CreateQueued
  <2>1. qstate' = "none" /\ pc' = pc
    BY <1>0, <1>1 DEF CreateQueued, NotQueuedYet
  <2>2. \A w \in Workers : pc[w] = "idle"
    BY <1>0, <1>1 DEF CreateQueued, NotQueuedYet, OneRun
  <2> QED
    BY <2>1, <2>2 DEF RunMarked, EndedMarked, RemovedSoonMarked
<1>2. ASSUME NEW w \in Workers, MarkRunning(w) \/ MarkRetrying(w)
      PROVE  RunMarked' /\ EndedMarked' /\ RemovedSoonMarked'
  <2>1. qstate' = "active"
    BY <1>0, <1>2 DEF MarkRunning, MarkRetrying, At, OneRun
  <2>2. \A v \in Workers : v # w => pc'[v] = "idle"
    BY <1>0, <1>2 DEF MarkRunning, MarkRetrying, At, OneRun
  <2>3. pc'[w] = "check1" \/ (pc'[w] = "finish" /\ NextQueueState(w)' = "delayed")
    BY <1>0, <1>2 DEF MarkRunning, MarkRetrying, At, RetriesDecided, NextQueueState
  <2> QED
    BY <2>1, <2>2, <2>3 DEF RunMarked, EndedMarked, RemovedSoonMarked
<1>3. CASE ~CreateQueued /\ \A w \in Workers : ~MarkRunning(w) /\ ~MarkRetrying(w)
  <2>1. JobDone => JobDone'
    BY <1>0, <1>3, JobDoneKept
  <2>2. RunMarked'
    <3> SUFFICES ASSUME NEW v \in Workers,
                        pc'[v] = "clear" \/ (pc'[v] = "finish" /\ NextQueueState(v)' # "delayed"),
                        ~JobDone
                 PROVE  JobDone'
      BY <2>1 DEF RunMarked
    <3>1. pc[v] # "clear" /\ (pc[v] = "finish" => NextQueueState(v) = "delayed")
      BY <1>0 DEF RunMarked
    <3>2. MarkSucceeded(v) \/ MarkCancelled(v) \/ MarkFailed(v)
      <4>1. PICK w \in Workers : RunStep(w)
        BY <1>0, <3>1, QueueWriters
           DEF NextQueueState, Enqueue, Promote, CheckStalled, CancelRemove, Crash, LoseLock
      <4>2. v = w
        BY <1>0, <3>1, <4>1 DEF NextQueueState, RunStep, Pick, Subscribe, MarkRunning,
           CheckBeforeRules, ResolveRules, CheckAfterRules, PersistSection,
           GenerateReturns, GenerateThrows, MarkSucceeded, Catch, MarkCancelled,
           MarkFailed, MarkRetrying, ClearFlag, Finish, At
      <4> QED
        BY <1>0, <1>3, <3>1, <4>1, <4>2 DEF RunStep, Pick, Subscribe, CheckBeforeRules,
           ResolveRules, CheckAfterRules, PersistSection, GenerateReturns,
           GenerateThrows, Catch, ClearFlag, Finish, At, NextQueueState
    <3> QED
      BY <1>0, <3>2 DEF MarkSucceeded, MarkCancelled, MarkFailed, Put, PutResult, JobDone,
                  JobHash, Terminal
  <2>3. EndedMarked'
    <3> SUFFICES ASSUME qstate' \in {"completed", "failed"}, ~JobDone PROVE FALSE
      BY <2>1 DEF EndedMarked
    <3>1. qstate \notin {"completed", "failed"}
      BY <1>0 DEF EndedMarked
    <3>2. CASE CheckStalled
      BY <1>0, <3>2 DEF CheckStalled, Survivable
    <3>3. ASSUME NEW w \in Workers, Finish(w) PROVE FALSE
      BY <1>0, <3>1, <3>3 DEF Finish, At, RunMarked
    <3>4. ASSUME NEW w \in Workers, RunStep(w), ~Finish(w) PROVE FALSE
      BY <3>1, <3>4, RunMoves DEF Pick
    <3> QED
      BY <3>1, <3>2, <3>3, <3>4, QueueWriters
         DEF Enqueue, Promote, CancelRemove, Crash, LoseLock
  <2>4. RemovedSoonMarked'
    <3> SUFFICES ASSUME qstate' = "removed", ~JobDone, ~JobDone'
                 PROVE  \E c \in Cancels : removed'[c] /\ cpc'[c] \in {"mark", "crashed"}
      BY <2>1 DEF RemovedSoonMarked
    <3>1. CASE \E c \in Cancels : CancelRemove(c)
      <4> PICK c \in Cancels : CancelRemove(c)
        BY <3>1
      <4>1. CASE qstate = "removed"
        BY <1>0, <4>1 DEF RemovedSoonMarked, CancelRemove
      <4>2. CASE qstate # "removed"
        BY <1>0, <4>2 DEF CancelRemove
      <4> QED
        BY <4>1, <4>2
    <3>2. CASE ~\E c \in Cancels : CancelRemove(c)
      <4>1. qstate = "removed"
        <5>1. ASSUME NEW w \in Workers, Finish(w), holder = w PROVE FALSE
          BY <1>0, <5>1 DEF Finish, NextQueueState
        <5>2. ASSUME NEW w \in Workers, RunStep(w) PROVE qstate = "removed"
          BY <5>1, <5>2, RunMoves DEF Pick, Finish
        <5> QED
          BY <3>2, <5>2, QueueWriters DEF Enqueue, Promote, CheckStalled, Crash, LoseLock
      <4> PICK c \in Cancels : removed[c] /\ cpc[c] \in {"mark", "crashed"}
        BY <1>0, <4>1 DEF RemovedSoonMarked
      <4>2. ASSUME NEW d \in Cancels, CancelMark(d) PROVE FALSE
        BY <1>0, <4>2 DEF CancelMark, Put, JobDone, JobHash, Terminal
      <4>3. ASSUME NEW d \in Cancels, CancelStep(d)
            PROVE  removed'[c] /\ cpc'[c] \in {"mark", "crashed"}
        BY <1>0, <3>2, <4>2, <4>3 DEF CancelStep, CancelRead, CancelTouch, CancelFlag,
           CancelInspect, CancelClear, CancelPublish
      <4>4. CASE ApiCrash
        BY <1>0, <4>4 DEF ApiCrash
      <4>5. UNCHANGED cancelVars \/ ApiCrash \/ \E d \in Cancels : CancelStep(d)
        BY DEF Next, vars, Generate, CreateQueued, Enqueue, AnswerGenerate,
           ReadStep, ReadRecord, ConsumeRead, ConsumeDelete, QueueStep, Promote,
           CheckStalled, ExpireRecord, ExpireKey, DeliverCancel, Crash, LoseLock,
           RunStep, Pick, Subscribe, MarkRunning, CheckBeforeRules, ResolveRules,
           CheckAfterRules, PersistSection, GenerateReturns, GenerateThrows,
           MarkSucceeded, Catch, MarkCancelled, MarkFailed, MarkRetrying, ClearFlag, Finish
      <4> QED
        BY <4>3, <4>4, <4>5
    <3> QED
      BY <3>1, <3>2
  <2> QED
    BY <2>2, <2>3, <2>4
<1> QED
  BY <1>1, <1>2, <1>3

LEMMA EndInvHolds == Spec => []EndInv
<1>1. Init => EndInv
  <2> SUFFICES ASSUME Init PROVE EndInv
    OBVIOUS
  <2> QED
    BY TypeInvInit DEF Init, EndInv, RetriesDecided, OneRun, RunMarked, EndedMarked,
                       RemovedSoonMarked
<1>2. EndInv /\ [Next]_vars => EndInv'
  <2> SUFFICES ASSUME EndInv, [Next]_vars PROVE EndInv'
    OBVIOUS
  <2>1. TypeInv' /\ RetriesDecided'
    BY TypeInvStep, RetriesDecidedStep DEF EndInv
  <2>2. ASSUME Survivable' PROVE OneRun'
    BY <2>2, SurvivableStays, OneRunStep DEF EndInv
  <2>3. ASSUME Survivable' PROVE RunMarked' /\ EndedMarked' /\ RemovedSoonMarked'
    BY <2>3, EndsKept
  <2> QED
    BY <2>1, <2>2, <2>3 DEF EndInv
<1> QED
  BY <1>1, <1>2, PTL DEF Spec

\* No job is left behind (NoStuckRecord): a crash of the runner between any two
\* commands of worker/runner.ts, and of the API between any two of
\* api/routes.ts, leaves a record that some later step makes terminal, as long
\* as BullMQ redelivers the job.
THEOREM NoRecordIsStuck == Spec => []NoStuckRecord
<1>1. EndInv => NoStuckRecord
  <2> SUFFICES ASSUME EndInv, qstate \in {"completed", "failed", "removed"}, Quiet,
                      lockLosses = 0, crashes <= MaxStalled,
                      \A c \in Cancels : ~DiedAfterRemove(c), Found
               PROVE  job.status \in Terminal
    BY DEF NoStuckRecord
  <2>1. \A c \in Cancels : ~(removed[c] /\ cpc[c] \in {"mark", "crashed"})
    BY DEF Quiet, DiedAfterRemove
  <2>2. JobDone
    BY <2>1 DEF EndInv, Survivable, EndedMarked, RemovedSoonMarked
  <2> QED
    BY <2>2 DEF JobDone, Found
<1> QED
  BY <1>1, EndInvHolds, PTL
-----------------------------------------------------------------------------
(* The whole keeps the promises of JobSpec.                                 *)

\* The hash of an owned record exists, and there is none before the job.
HashesAgree ==
    /\ job.owned => job.live
    /\ gen = "idle" => ~job.owned

\* What a reader deletes is still the result it read.
ReadersDelete ==
    Undisturbed => \A r \in Readers : rpc[r] = "delete" /\ job.owned => job.status = "succeeded"

ClientInv == FinalInv /\ HashesAgree /\ ReadersDelete

\* gen leaves "idle" with the record's creation only, and never comes back.
LEMMA GenIdle ==
  ASSUME [Next]_vars
  PROVE  CreateQueued \/ ((gen = "idle") <=> (gen' = "idle"))
  BY DEF Next, vars, Generate, CreateQueued, Enqueue, AnswerGenerate, CancelStep,
     CancelRead, CancelTouch, CancelFlag, CancelInspect, CancelRemove, CancelMark,
     CancelClear, CancelPublish, ReadStep, ReadRecord, ConsumeRead, ConsumeDelete,
     QueueStep, Promote, CheckStalled, ApiCrash, ExpireRecord, ExpireKey, DeliverCancel, Crash,
     LoseLock, RunStep, Pick, Subscribe, MarkRunning, CheckBeforeRules, ResolveRules,
     CheckAfterRules, PersistSection, GenerateReturns, GenerateThrows, MarkSucceeded,
     Catch, MarkCancelled, MarkFailed, MarkRetrying, ClearFlag, Finish

LEMMA HashesAgreeStep == TypeInv /\ HashesAgree /\ [Next]_vars => HashesAgree'
<1> SUFFICES ASSUME TypeInv, HashesAgree, [Next]_vars PROVE HashesAgree'
  OBVIOUS
<1> USE DEF TypeInv, TypeOK, JobHash, HashesAgree
<1>1. job'.owned => job'.live
  <2>1. job' = NoHash => ~job'.owned
    BY DEF NoHash
  <2>2. job' = Touch \/ job' = PutResult => job'.live
    BY DEF Touch, PutResult
  <2>3. \A s \in Status : job' = Put(s) => job'.live
    BY DEF Put
  <2>4. CreateQueued => job'.live
    BY DEF CreateQueued
  <2>5. \/ UNCHANGED job \/ job' = NoHash \/ job' = Touch \/ job' = PutResult \/ CreateQueued
        \/ \E s \in Status : job' = Put(s)
    BY DEF Status, Terminal, Next, vars, Generate, Enqueue, AnswerGenerate, CancelStep,
       CancelRead, CancelTouch, CancelFlag, CancelInspect, CancelRemove, CancelMark,
       CancelClear, CancelPublish, ReadStep, ReadRecord, ConsumeRead, ConsumeDelete,
       QueueStep, Promote, CheckStalled, ApiCrash, ExpireRecord, ExpireKey, DeliverCancel, Crash,
       LoseLock, RunStep, Pick, Subscribe, MarkRunning, CheckBeforeRules, ResolveRules,
       CheckAfterRules, PersistSection, GenerateReturns, GenerateThrows, MarkSucceeded,
       Catch, MarkCancelled, MarkFailed, MarkRetrying, ClearFlag, Finish
  <2> QED
    BY <2>1, <2>2, <2>3, <2>4, <2>5
<1>2. gen' = "idle" => ~job'.owned
  <2>1. CreateQueued => gen' # "idle"
    BY DEF CreateQueued
  <2>2. ASSUME NEW r \in Readers, ConsumeDelete(r) PROVE ~job'.owned
    BY <2>2 DEF ConsumeDelete, NoHash
  <2>3. ExpireRecord => ~job'.owned
    BY DEF ExpireRecord, NoHash
  <2> QED
    BY <2>1, <2>2, <2>3, GenIdle, OwnerWriters
<1> QED
  BY <1>1, <1>2

LEMMA ReadersDeleteStep == ClientInv /\ [Next]_vars => ReadersDelete'
<1> SUFFICES ASSUME ClientInv, [Next]_vars, Undisturbed', NEW r \in Readers,
                    rpc'[r] = "delete", job'.owned
             PROVE  job'.status = "succeeded"
  BY DEF ReadersDelete
<1> USE DEF ClientInv, FinalInv, CancelInv, TypeInv, TypeOK
<1>0. Undisturbed /\ NoLoss
  BY DisturbanceStays DEF Undisturbed, NoLoss
<1>1. gen = "answered"
  <2>1. rpc[r] # "idle" \/ ConsumeRead(r)
    BY DEF Next, vars, Generate, CreateQueued, Enqueue, AnswerGenerate, CancelStep,
       CancelRead, CancelTouch, CancelFlag, CancelInspect, CancelRemove, CancelMark,
       CancelClear, CancelPublish, ReadStep, ReadRecord, ConsumeRead, ConsumeDelete,
       QueueStep, Promote, CheckStalled, ApiCrash, ExpireRecord, ExpireKey, DeliverCancel, Crash,
       LoseLock, RunStep, Pick, Subscribe, MarkRunning, CheckBeforeRules, ResolveRules,
       CheckAfterRules, PersistSection, GenerateReturns, GenerateThrows, MarkSucceeded,
       Catch, MarkCancelled, MarkFailed, MarkRetrying, ClearFlag, Finish
  <2> QED
    BY <2>1 DEF NotQueuedYet, ConsumeRead
<1>2. job.owned /\ ~CreateQueued
  <2>1. ASSUME NEW q \in Readers, ConsumeDelete(q) PROVE FALSE
    BY <2>1 DEF ConsumeDelete, NoHash
  <2>2. ~ExpireRecord
    BY DEF ExpireRecord, NoHash
  <2>3. ~CreateQueued
    BY <1>1 DEF CreateQueued
  <2> QED
    BY <2>1, <2>2, <2>3, OwnerWriters
<1>3. CASE ConsumeRead(r)
  BY <1>3 DEF ConsumeRead, StatusRead
<1>4. CASE ~ConsumeRead(r)
  <2>1. rpc[r] = "delete"
    BY <1>4 DEF Next, vars, Generate, CreateQueued, Enqueue, AnswerGenerate, CancelStep,
       CancelRead, CancelTouch, CancelFlag, CancelInspect, CancelRemove, CancelMark,
       CancelClear, CancelPublish, ReadStep, ReadRecord, ConsumeRead, ConsumeDelete,
       QueueStep, Promote, CheckStalled, ApiCrash, ExpireRecord, ExpireKey, DeliverCancel, Crash,
       LoseLock, RunStep, Pick, Subscribe, MarkRunning, CheckBeforeRules, ResolveRules,
       CheckAfterRules, PersistSection, GenerateReturns, GenerateThrows, MarkSucceeded,
       Catch, MarkCancelled, MarkFailed, MarkRetrying, ClearFlag, Finish
  <2>2. job.status = "succeeded"
    BY <1>0, <1>2, <2>1 DEF ReadersDelete
  <2>3. job'.live
    BY HashesAgreeStep DEF HashesAgree
  <2> QED
    BY <1>0, <2>2, <2>3, TerminalStays DEF Terminal
<1> QED
  BY <1>3, <1>4

LEMMA ClientInvInductive == /\ Init => ClientInv
                            /\ ClientInv /\ [Next]_vars => ClientInv'
<1>1. Init => HashesAgree /\ ReadersDelete
  BY DEF Init, HashesAgree, ReadersDelete, NoHash
<1> QED
  BY <1>1, FinalInvInductive, HashesAgreeStep, ReadersDeleteStep
     DEF ClientInv, FinalInv, CancelInv

\* A step that leaves what the client is shown can only end the work unseen.
LEMMA UnseenSteps ==
  ASSUME ClientInv, [Next]_vars, Undisturbed', Shown' = Shown
  PROVE  [Client!Next]_(Client!vars)
<1> USE DEF ClientInv, FinalInv, CancelInv, TypeInv, TypeOK
<1>0. Undisturbed /\ NoLoss /\ NoLoss'
  BY DisturbanceStays DEF Undisturbed, NoLoss
<1>1. UNCHANGED (~Undisturbed) /\ ~Undisturbed = FALSE
  BY <1>0
<1>2. Over => Over'
  BY <1>0, OverStays
<1>3. CASE Over' = Over
  BY <1>1, <1>3 DEF Client!vars
<1>4. CASE ~Over /\ Over'
  <2>1. Shown # "none"
    <3>1. SUFFICES ASSUME gen = "idle" PROVE FALSE
      BY DEF Shown, Terminal
    <3>2. TypeInv'
      BY TypeInvStep
    <3>3. gen' \in {"idle", "created"}
      BY <3>1, GenIdle DEF CreateQueued
    <3>4. qstate' = "none"
      BY <3>2, <3>3 DEF NotQueuedYet
    <3>5. \A w \in Workers : pc'[w] = "idle"
      BY <1>0, <3>2, <3>4 DEF LocksAgree
    <3> QED
      BY <1>4, <3>4, <3>5 DEF Over
  <2>2. Shown \notin Terminal
    BY <1>0, <1>4 DEF Shown, TerminalOver, Terminal
  <2>3. Shown \in {"open", "gone"}
    BY <2>1, <2>2 DEF Shown
  <2>4. Client!StopWork
    BY <1>4, <2>3 DEF Client!StopWork
  <2> QED
    BY <1>1, <2>4 DEF Client!Next
<1> QED
  BY <1>2, <1>3, <1>4 DEF Over

LEMMA ClientStep ==
  ASSUME ClientInv, [Next]_vars
  PROVE  [Client!Next]_(Client!vars)
<1> USE DEF ClientInv, FinalInv, CancelInv, TypeInv, TypeOK
<1>1. CASE ~Undisturbed'
  BY <1>1 DEF Client!Next
<1>2. CASE Undisturbed'
  <2>0. Undisturbed /\ NoLoss
    BY <1>2, DisturbanceStays DEF Undisturbed, NoLoss
  <2>1. UNCHANGED (~Undisturbed) /\ ~Undisturbed = FALSE
    BY <1>2, <2>0
  <2>2. CASE Shown' = Shown
    BY <1>2, <2>2, UnseenSteps
  <2>3. HashesAgree'
    BY HashesAgreeStep
  <2>4. Found <=> job.owned
    BY DEF Found, HashesAgree
  <2>5. Found' <=> job'.owned
    BY <2>3 DEF Found, HashesAgree
  <2>6. CASE CreateQueued
    <3>1. UNCHANGED <<qstate, runVars>>
      BY <2>6 DEF CreateQueued
    <3>2. Over' = Over
      BY <3>1 DEF Over, NextQueueState
    <3>3. Shown = "none" /\ Shown' = "open"
      BY <2>6 DEF CreateQueued, Shown, Found, Terminal
    <3>4. Client!Accept
      BY <3>2, <3>3 DEF Client!Accept
    <3> QED
      BY <2>1, <3>4 DEF Client!Next
  <2>7. ASSUME NEW r \in Readers, ConsumeDelete(r), Shown' # Shown
        PROVE  Client!Take
    <3>1. UNCHANGED <<qstate, runVars, gen>> /\ rpc[r] = "delete"
      BY <2>7 DEF ConsumeDelete
    <3>2. Over' = Over
      BY <3>1 DEF Over, NextQueueState
    <3>3. gen # "idle" /\ ~job'.owned
      BY <2>7, <3>1 DEF NotQueuedYet, ConsumeDelete, NoHash
    <3>4. Shown' = "gone"
      BY <2>5, <3>1, <3>3 DEF Shown
    <3>5. job.owned
      BY <2>4, <2>7, <3>3, <3>4 DEF Shown
    <3>6. job.status = "succeeded"
      BY <2>0, <3>1, <3>5 DEF ReadersDelete
    <3>7. Over /\ Shown = "succeeded"
      BY <2>0, <2>4, <3>3, <3>5, <3>6 DEF TerminalOver, Shown, Terminal
    <3> QED
      BY <3>2, <3>4, <3>7 DEF Client!Take
  <2>8. CASE ExpireRecord /\ Shown' # Shown
    <3>1. UNCHANGED <<qstate, runVars, gen>> /\ "expiry" \in Faults
      BY <2>8 DEF ExpireRecord
    <3>2. Over' = Over
      BY <3>1 DEF Over, NextQueueState
    <3>3. ~job'.owned
      BY <2>8 DEF ExpireRecord, NoHash
    <3>4. Shown \notin {"none", "gone"} /\ Shown' = "gone"
      BY <2>4, <2>5, <2>8, <3>1, <3>3 DEF Shown, Terminal
    <3>5. Client!Expire
      BY <3>1, <3>2, <3>4 DEF Client!Expire
    <3> QED
      BY <2>1, <3>5 DEF Client!Next
  <2>9. CASE /\ ~CreateQueued /\ ~ExpireRecord
             /\ \A r \in Readers : ~ConsumeDelete(r)
             /\ Shown' # Shown
    <3>1. job'.owned = job.owned /\ ((gen = "idle") <=> (gen' = "idle"))
      BY <2>9, OwnerWriters, GenIdle
    <3>2. job.owned /\ gen # "idle" /\ job'.owned /\ gen' # "idle"
      BY <2>4, <2>5, <2>9, <3>1 DEF Shown
    <3>3. /\ Shown = IF job.status \in Terminal THEN job.status ELSE "open"
          /\ Shown' = IF job'.status \in Terminal THEN job'.status ELSE "open"
      BY <2>4, <2>5, <3>2 DEF Shown
    <3>4. job.status \notin Terminal
      BY <2>0, <2>3, <2>9, <3>2, <3>3, TerminalStays DEF HashesAgree
    <3>5. ASSUME NEW c \in Cancels, CancelMark(c) PROVE Client!End
      <4>1. Removing(c) /\ removed[c]
        BY <1>2, <3>5 DEF CancelMark, CancelLocals, Undisturbed, TookShortcut, Removing
      <4>2. Over /\ Over'
        BY <3>5, <4>1 DEF CancelLocals, Over, CancelMark
      <4>3. job'.status = "cancelled"
        BY <3>5 DEF CancelMark, Put, JobHash
      <4> QED
        BY <3>3, <3>4, <4>2, <4>3 DEF Client!End, Terminal
    <3>6. ASSUME NEW w \in Workers, MarkSucceeded(w) \/ MarkCancelled(w) \/ MarkFailed(w)
          PROVE  Client!End
      <4>1. ~Over /\ Over'
        BY <2>0, <3>6, NotOverYet DEF MarkSucceeded, MarkCancelled, MarkFailed, At, Over
      <4>2. job'.status \in Terminal
        BY <3>6 DEF MarkSucceeded, MarkCancelled, MarkFailed, Put, PutResult, JobHash, Terminal
      <4> QED
        BY <3>3, <3>4, <4>1, <4>2 DEF Client!End, Terminal
    <3>7. job'.status \in Terminal
      BY <2>9, <3>3, <3>4
    <3>8. \/ \E c \in Cancels : CancelMark(c)
          \/ \E w \in Workers : MarkSucceeded(w) \/ MarkCancelled(w) \/ MarkFailed(w)
      BY <2>9, <3>4, <3>7, StatusWriters DEF Terminal
    <3> QED
      BY <2>1, <3>5, <3>6, <3>8 DEF Client!Next
  <2> QED
    BY <2>1, <2>2, <2>6, <2>7, <2>8, <2>9 DEF Client!Next
<1> QED
  BY <1>1, <1>2

\* The handlers of api/routes.ts, the processor of worker/runner.ts, BullMQ and the
\* store together keep what JobSpec promises a client (ImplementsJobSpec): a job
\* ends once, when nothing can work on it any more, and its end is what every later
\* request is shown until a reader takes the result.
THEOREM JobsKeepTheirPromises == Spec => ImplementsJobSpec
<1>1. Init => Client!Init
  BY DEF Init, Client!Init, Shown, Over, Undisturbed, TookShortcut
<1>2. ClientInv /\ [Next]_vars => [Client!Next]_(Client!vars)
  BY ClientStep
<1> QED
  BY <1>1, <1>2, ClientInvInductive, PTL DEF Spec, ImplementsJobSpec, Client!Spec

-----------------------------------------------------------------------------
(* How often a job is run: a hand-out ends with attemptsMade, or with the   *)
(* lock that is lost; the two are counted apart and bounded together.       *)

\* The hand-outs of the job so far: those that ended, and the one in progress.
HandOuts == made + crashes + lockLosses + (IF holder = NoWorker THEN 0 ELSE 1)

\* The lock's holder runs the attempt after those made.
HolderCounts == \A w \in Workers : holder = w => attempt[w] = made + 1

\* A job that can be handed out, or is, has not stalled too often.
FewLosses ==
    /\ crashes + lockLosses <= MaxStalled + 1
    /\ qstate \in {"none", "waiting", "delayed"} \/ holder # NoWorker
          => crashes + lockLosses <= MaxStalled

HandOutsBounded == HandOuts <= MaxAttempts + MaxStalled

HandOutInv == TypeInv /\ HolderCounts /\ FewLosses /\ HandOutsBounded

LEMMA HandOutWriters ==
  ASSUME [Next]_vars
  PROVE  \/ UNCHANGED <<qstate, holder, made, crashes, lockLosses, attempt>>
         \/ Enqueue \/ Promote \/ CheckStalled
         \/ \E c \in Cancels : CancelRemove(c)
         \/ \E w \in Workers : Pick(w) \/ Finish(w) \/ Crash(w) \/ LoseLock(w)
  BY DEF Next, vars, Generate, CreateQueued, AnswerGenerate, CancelStep, CancelRead,
         CancelTouch, CancelFlag, CancelInspect, CancelMark, CancelClear, CancelPublish,
         ReadStep, ReadRecord, ConsumeRead, ConsumeDelete, QueueStep, ApiCrash,
         ExpireRecord, ExpireKey, DeliverCancel, RunStep, Subscribe, MarkRunning, CheckBeforeRules,
         ResolveRules, CheckAfterRules, PersistSection, GenerateReturns, GenerateThrows,
         MarkSucceeded, Catch, MarkCancelled, MarkFailed, MarkRetrying, ClearFlag

LEMMA PickHandsOut ==
  ASSUME TypeInv, NEW w \in Workers, Pick(w)
  PROVE  /\ holder = NoWorker /\ holder' = w /\ qstate = "waiting" /\ made < MaxAttempts
         /\ UNCHANGED <<made, crashes, lockLosses>>
         /\ attempt' = [attempt EXCEPT ![w] = made + 1]
  BY DEF TypeInv, LocksAgree, AttemptsLeft, Pick

\* Each of the three ends of a hand-out is counted, once.
LEMMA HandOutEnds ==
  ASSUME HandOutInv, NEW w \in Workers, Finish(w) \/ Crash(w) \/ LoseLock(w)
  PROVE  /\ HandOuts' = HandOuts /\ HolderCounts' /\ FewLosses'
         /\ ~ \E v \in Workers : Pick(v)
<1> USE DEF HandOutInv, TypeInv, TypeOK, HandOuts, HolderCounts, FewLosses
<1>1. ~ \E v \in Workers : Pick(v)
  BY DEF Pick, Finish, Crash, LoseLock, LocksAgree, At
<1>2. CASE holder # w
  <2>1. UNCHANGED <<qstate, holder, made, crashes, lockLosses, attempt>>
    BY <1>2 DEF Finish, Crash, LoseLock
  <2> QED
    BY <1>1, <2>1
<1>3. CASE holder = w
  <2>1. holder' = NoWorker /\ UNCHANGED attempt
    BY <1>3 DEF Finish, Crash, LoseLock
  <2>2. \/ made' = made + 1 /\ UNCHANGED <<crashes, lockLosses>>
        \/ crashes' = crashes + 1 /\ UNCHANGED <<qstate, made, lockLosses>>
        \/ lockLosses' = lockLosses + 1 /\ UNCHANGED <<qstate, made, crashes>>
    BY <1>3 DEF Finish, Crash, LoseLock
  <2>3. qstate = "active"
    BY <1>3 DEF LocksAgree
  <2>4. HandOuts' = HandOuts
    BY <1>3, <2>1, <2>2
  <2>5. HolderCounts'
    BY <2>1
  <2>6. FewLosses'
    BY <1>3, <2>1, <2>2, <2>3
  <2> QED
    BY <1>1, <2>4, <2>5, <2>6
<1> QED
  BY <1>2, <1>3

LEMMA HandOutStep ==
  ASSUME HandOutInv, [Next]_vars
  PROVE  /\ HandOuts' = HandOuts + (IF \E w \in Workers : Pick(w) THEN 1 ELSE 0)
         /\ HolderCounts' /\ FewLosses' /\ HandOutsBounded'
<1> USE DEF HandOutInv, TypeInv, TypeOK, HandOuts, HolderCounts, FewLosses, HandOutsBounded
<1>1. ASSUME NEW w \in Workers, Pick(w)
      PROVE  /\ HandOuts' = HandOuts + (IF \E v \in Workers : Pick(v) THEN 1 ELSE 0)
             /\ HolderCounts' /\ FewLosses' /\ HandOutsBounded'
  <2>1. HandOuts' = HandOuts + 1
    BY <1>1, PickHandsOut
  <2>2. HolderCounts'
    BY <1>1, PickHandsOut
  <2>3. FewLosses'
    BY <1>1, PickHandsOut
  <2>4. HandOutsBounded'
    BY <1>1, PickHandsOut
  <2> QED
    BY <1>1, <2>1, <2>2, <2>3, <2>4
<1>2. ASSUME NEW w \in Workers, Finish(w) \/ Crash(w) \/ LoseLock(w)
      PROVE  /\ HandOuts' = HandOuts + (IF \E v \in Workers : Pick(v) THEN 1 ELSE 0)
             /\ HolderCounts' /\ FewLosses' /\ HandOutsBounded'
  BY <1>2, HandOutEnds
<1>3. CASE \/ UNCHANGED <<qstate, holder, made, crashes, lockLosses, attempt>>
           \/ Enqueue \/ Promote \/ CheckStalled \/ \E c \in Cancels : CancelRemove(c)
  <2>1. UNCHANGED <<holder, made, crashes, lockLosses, attempt>>
    BY <1>3 DEF Enqueue, Promote, CheckStalled, CancelRemove
  <2>2. /\ HandOuts' = HandOuts /\ HolderCounts' /\ HandOutsBounded'
    BY <2>1
  <2>3. FewLosses'
    <3>1. qstate' \in {"none", "waiting", "delayed"} => crashes + lockLosses <= MaxStalled
      BY <1>3, <2>1 DEF Enqueue, Promote, CheckStalled, CancelRemove, NotQueuedYet
    <3> QED
      BY <2>1, <3>1
  <2>4. ~ \E w \in Workers : Pick(w)
    BY <2>1, PickHandsOut DEF LocksAgree
  <2> QED
    BY <2>2, <2>3, <2>4
<1> QED
  BY <1>1, <1>2, <1>3, HandOutWriters

LEMMA HandOutInvHolds == Spec => []HandOutInv
<1>1. Init => HandOutInv
  BY TypeInvInit DEF Init, HandOutInv, HolderCounts, FewLosses, HandOutsBounded, HandOuts
<1>2. HandOutInv /\ [Next]_vars => HandOutInv'
  BY HandOutStep, TypeInvStep DEF HandOutInv
<1> QED
  BY <1>1, <1>2, PTL DEF Spec

\* HandOuts counts what its name says: it grows with every Pick, and with nothing
\* else, whatever crashes and whichever lock is lost.
THEOREM HandOutsAreCounted ==
  Spec => [][HandOuts' = HandOuts + (IF \E w \in Workers : Pick(w) THEN 1 ELSE 0)]_vars
<1>1. HandOutInv /\ [Next]_vars
      => [HandOuts' = HandOuts + (IF \E w \in Workers : Pick(w) THEN 1 ELSE 0)]_vars
  BY HandOutStep
<1> QED
  BY <1>1, HandOutInvHolds, PTL DEF Spec

\* The attempts of a job and the redeliveries after a stall add up and do not
\* multiply: however many workers there are and whatever fails, BullMQ hands it to the
\* processor of worker/runner.ts at most MaxAttempts + MaxStalled times.
THEOREM HandOutsAreBounded == Spec => [](HandOuts <= MaxAttempts + MaxStalled)
BY HandOutInvHolds, PTL DEF HandOutInv, HandOutsBounded
=============================================================================
