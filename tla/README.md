# A verification development of syl-listing-worker

`syl-listing-worker` turns a Markdown list of requirements into a bilingual product
listing with a team of language-model agents. The API process accepts a job, a BullMQ queue
in Redis hands it to a runner process, and the client polls, streams, cancels and finally
takes the result away. This directory models that system in TLA+, checks it with TLC and
proves its central invariants with TLAPS. All paths are relative to the repository
(`src/` is its TypeScript source).

## 1. Inventory

| Part | Code | State it keeps | Operations |
|---|---|---|---|
| job lifecycle | `src/worker/runner.ts`, `src/store/job-store.ts`, `src/queue/jobs.ts` | hash `syl:job:<id>`, key `syl:job:cancel:<id>`, BullMQ job, the run's AbortController | createQueued, the four marks, requestCancel, publishCancel, consumeResult, the processor |
| job API | `src/api/routes.ts` 374-479, 657-702 | locals of each handler across its awaits | generate, cancel, result |
| job events and SSE | `src/store/job-events.ts`, `src/api/routes.ts` 481-655 | per stream: last offset, buffer, timers | publishTrace, publishStatus, subscribe, the events handler |
| trace store | `src/store/trace-store.ts` | Redis list and start key; per process an LRU of start times and an in-flight map | append, list, getStartMs |
| rules registry | `src/services/rules-service.ts` | current-version key, metadata hash, archive file | bootstrap, publish, rollback, resolve, readArchive |
| rules loader | `src/services/rules-loader.ts` | process-wide cache by tenant and version | loadTenantRules |
| section planner | `src/agent-runtime/planner.ts` | section values, an AbortController, the first failure | executeRuntimeSections |
| compiler, registry, team | `src/agent-runtime/compiler.ts`, `registry.ts`, `section-team.ts` | none (pure) | compileExecutionSpec, chunkSections, overrides |
| language-model client | `src/services/llm-client.ts`, `src/utils/retry.ts` | retry counters, best candidate so far | withRetry, generateSectionWithAgentTeam, translateText |
| language-model health | `src/services/llm-health.ts` | last probe and its time | check |
| generation service | `src/services/generation-service.ts` | execution context, current rules | generate, planner, judge rounds, translation reuse, validation |
| parser, guidance | `src/services/requirements-parser.ts`, `section-guidance.ts` | none | text to structure |
| runtime support | `src/runtime-support/*` | slot map | get, set, bind |
| authentication | `src/auth/*` | none | token exchange |
| entry points | `src/api-main.ts`, `src/runner-main.ts`, `src/config/*` | process wiring | start, shutdown |

**Interaction.** The processes share nothing but Redis and the rules directory. The API
writes the record and adds the queue job; a runner slot takes the queue job, writes the
record and reads the cancel key; cancel requests reach a run by three roads (removing the
queue job, the cancel key, the pub/sub channel). Status and trace events go through Redis
pub/sub to the SSE handlers.

**What is hard.** Every `await` in a handler or in the processor is a point where all the
others may act, and almost every operation is two Redis commands or more. The marks are
unconditional `HSET`s, so no step is safe by itself: correctness rests on the order of steps
in different processes. BullMQ adds retries, redelivery after a crash, and locks that expire
under a live worker. Section generation is a tree of concurrent promises with one shared
abort. `PROJECT.json` lists the hazards at their lines.

**What makes each part correct.**

- job lifecycle: an accepted cancel is never lost; a terminal status is final; a job removed
  from the queue never runs; a record is deleted only when no run can follow; no record stays
  non-terminal once the queue is done; every job ends.
- events and SSE: a stream shows every trace entry once and in order, and ends after the
  terminal status.
- trace store: all processes agree on a job's start time as long as its key lives.
- rules registry: a version that resolves has metadata and an archive that belong together;
  a run works with the version it resolved.
- section planner: a group starts only when its predecessors are done, nothing of the run
  is still working when it returns, a checkpointed section is not generated again.
- language-model client: bounded attempts, no attempt after the abort, the best candidate wins.

## 2. Plan

1. `JobLifecycle`, `MCJobLifecycle`, `JobLifecycleProofs`: the core.
2. `SectionRun` (abstract) and `SectionPlanner` (detailed, implements it), `SectionPlannerProofs`.
3. `JobEvents`, `JobEventsProofs`: the stream handler against concurrent writers.
4. `RulesStore`, `RulesStoreProofs`: publish, rollback, resolve, and readers across a publish.
5. `TraceStore`, `TraceStoreProofs`: the shared start time.
6. `SectionTeam` (`withRetry` and `generateSectionWithAgentTeam`, implements the planner's
   candidate), `SectionTeamProofs`; `BulletRepair` (the repair of single bullets).
7. `JudgePipeline`: judge rounds, translation reuse, composed with the planner's outcome; `JudgePipelineProofs`.
8. `Compiler`: what a tenant's rules become: chunking, overrides, limits, rejections;
   `GenerationProofs`, about it and `BulletRepair`.
9. `JobSpec`: what a client may rely on, implemented by `JobLifecycle`.
10. `HealthCache`: concurrent probes of the language model that end in any order.

Items 1 to 9 are done. Left: item 10.

Type invariants are proved (`TypeCorrect`, `PlannerTypes`, `StreamTypesCorrect`, `TraceTypesCorrect`,
`RulesTypesCorrect`, `PipelineTypesCorrect`, `TeamTypes`, `BulletTypes`, and for `Compiler` as a part of
`PlansCanRun`), so the runs do not check them once more, and so are `NobodyWaitsInVain` of `TraceStore` and
`OthersStay` of `BulletRepair`.

**What the proofs leave to TLC.** Every invariant and every action property of the passing runs, and each refinement of
an abstract specification, are theorems. The properties that something must happen are not: `EveryJobEnds`,
`EveryRunEnds`, `CandidateEnds`, `RepairEnds`, `PipelineEnds`, `EndedJobEndsStream` and `AppendsGoOn` rest on
fairness, and so on `ENABLED`, which TLAPS does not reason about. For four of them the safety half is proved, that
no step repeats what was done: `PlannerRunsAdvance`, `CandidatesAdvance`, `RepairsAdvance` and `RunsAdvance` say of
every step that it comes nearer to the end, in an order that cannot fall for ever because attempts, rounds,
sections and calls are finitely many. That somebody can always make such a step, before the end, is what TLC adds.

## 3. JobLifecycle

One job, from `POST /v1/generate` to its terminal record. Jobs have fresh random ids and share
only worker slots, so one job shows all there is to see. A step is one awaited Redis command.

| Variable | Code |
|---|---|
| `job` | the hash: exists, has id and tenant, has `result_json`, status |
| `flag` | the cancel key exists |
| `qstate`, `holder`, `made` | BullMQ's state of the job, the holder of its lock, `attemptsMade` |
| `pc`, `attempt`, `aborted`, `signal`, `rethrow` | each slot's run of `createJobProcessor`: position, `currentAttempt`, the AbortController, a cancel message under way, whether the run ends by throwing |
| `gen`, `cpc`, `seen`, `removed`, `answer` | the generate handler; each cancel handler with the `record.status` it read and `queueRemoved` |
| `rpc`, `got` | each result handler |
| `crashes`, `lockLosses`, `lapsed` | how often a lock holder crashed or lost its lock; that a cancel key ran out |

The run is `Pick`, `Subscribe`, `MarkRunning`, `CheckBeforeRules`, `ResolveRules`,
`CheckAfterRules`, then `GenerateReturns` or `GenerateThrows` (with `PersistSection` any number of
times before), then `MarkSucceeded`, or `Catch` and one of the marks, `ClearFlag` and
`Finish`. The cancel handler is `CancelRead`, `CancelTouch`, `CancelFlag`, `CancelInspect`, and then
`CancelRemove`/`CancelMark`/`CancelClear` or `CancelPublish`.

Abstractions: `generate` is a choice of outcomes at any time, which includes every outcome of the
real one. `aborted` forbids only its normal return, because the last `throwIfAborted` is behind
that point. Redis commands do not fail (`maxRetriesPerRequest: null` makes ioredis retry). BullMQ is
modelled from how the code uses it: `waiting`/`active`/`delayed`, one lock, `attempts`, a stalled check
with `maxStalledCount` 1; a crash and the expiry of the dead worker's lock are one step. A
`Worker` is one slot in a process of its own. The status events that the marks publish, and
`prioritized`, which the code never uses, are left out.

`JobSpec` is what a client may rely on, whatever runs jobs: a job that was accepted ends once (`End`), its end is
what every later request is shown until a reader takes the result (`Take`, of a succeeded job only), nothing works
on it after that, and a job whose work was taken away before its end (`StopWork`) ends cancelled.
`ImplementsJobSpec` maps `shown <- Shown` (the record as a handler's caller sees it: "gone" for a 404, "open" for
the three states that are not terminal), `over <- Over` (the queue job is done with, or its run has only its
bookkeeping left) and `excused <- ~Undisturbed`; records expire if the faults have "expiry".

### Runs

| Run | Instance | Shows |
|---|---|---|
| `job_races` | 1 slot, 2 cancels, 1 reader, 3 attempts, crashes, fair; 1 652 384 states | `CancelReachesRun`, `RemovedStaysCancelled`, `RecordOutlivesRuns`, `TerminalIsFinal`, `ImplementsJobSpec`, `EveryJobEnds` |
| `job_faults` | 2 slots, 1 cancel, 1 reader, 2 attempts, all five faults; 6 039 549 states | `NoStuckRecord` |
| `job_stale_cancel` | 1 slot, 1 cancel, 1 attempt | the violation of `AnsweredCancelInterrupts` |

Two slots are enough to have a live run that lost its lock beside the run that replaced it; two
cancels are enough for one to act on what the other left; three attempts are the code's.
Without a lost lock one job occupies one slot at a time, so the cancel races need one slot. The
sets of slots, requests and readers are symmetric, which only `job_faults` uses: symmetry and liveness
do not go together. Deadlock is not checked because the system stops when the job is over.

Fairness (`job_races`): a started handler goes on, a free slot takes a waiting job, BullMQ's
timers fire, and a run goes on. That `generate` ends rests on bounded retries and on the
request timeout and turn limit of the agents SDK: `src/services/llm-client.ts:859` has no timer
of its own.
No request and no fault has to happen.

### Named exceptions

`Undisturbed` (no lock lost, no cancel key run out, no `TookShortcut`) is the premise of `CancelReachesRun` and
`TerminalIsFinal`, and `JobSpec` is excused when it ends. Outside it the code does not promise them: a worker that lost its lock may
write `retrying` over a terminal record of the run that replaced it, and the shortcut below
marks a running job; a cancel key that runs out before its job is over (both have a TTL of their own) is forgotten.
`NoStuckRecord` excepts a lost lock, more stalls than BullMQ redelivers
(it then fails the job without calling the processor, and the record says `running` until it
expires) and a cancel handler that dies between `remove` and `markCancelled`.

### Finding

`job_stale_cancel`: the cancel handler reads the record, then awaits `requestCancel`, `getJob` and
`getState`, then tests the old `record.status === "queued"` (`src/api/routes.ts:455`). A job taken by a
worker in between is not removed, yet `markCancelled` runs, deletes the cancel key, sends no cancel
message and the client is told `cancelled: true`. The run goes on uninterrupted and may overwrite the
record with `succeeded`.

### Proofs

`JobLifecycleProofs` proves, for every number of slots, requests, attempts and stalls and for every
set of faults, from the four `ASSUME`s of the module (see there):

- `TypeCorrect`: `Spec => []TypeOK`. `TypeOK` alone is not inductive: `attempt` stays in range because a
  job that is waiting has attempts left. `TypeInv` adds that, that the queue job does not exist
  before it is added, and that a lock belongs to a running slot of an active job (`LocksAgree`).
- `AcceptedCancelsReachRuns`: `CancelInv` adds where a cancel stands while its handler is between
  `SET` and publish (`FlagKept`, `SignalKept`) and that a terminal record means the job is `Over`.
  `RunsDecided` says that a run that reached a mark knows whether it will rethrow.
- `TerminalRecordsAreFinal`: `FinalInv` adds to `CancelInv` that a handler about to remove the queue job finds
  no record that succeeded or failed (`RemovalsFindNoEnd`). Such a handler saw the job waiting, with its key set; if
  a run takes the job before the removal and ends, then that run has read the key and ends cancelled.
  `StatusWriters` lists the actions that write a status.
- `JobsKeepTheirPromises`: `Spec => ImplementsJobSpec`. `ClientInv` adds to `FinalInv` that a record shown has its
  hash (`HashesAgree`) and that what a reader deletes is still the result it read (`ReadersDelete`).
  `UnseenSteps` takes all the steps a client cannot see, `ClientStep` maps the others one by one.
- `RecordsOutliveRuns`, `RemovedJobsStayCancelled`: `StoreInv`, from the reader's position
  (`SucceededOver`, `DeleteOver`), `RecordKept` and `RemovedMarked`.
- `NoRecordIsStuck`: `EndInv`. After a crash the job is not `Over`, so the argument is another one:
  as long as no live run lost its lock and BullMQ redelivers (`Survivable`), whoever runs the job holds
  its lock (`OneRun`), so the only steps that undo a terminal record (`JobDoneKept`) are those of that
  run, and it ends without a mark only when it will be retried (`RunMarked`, `RetriesDecided`).

`OverStays` and `DisturbanceStays` carry the argument: a job that is over stays over, and a disturbance
stays recorded, so each invariant has to be shown only for undisturbed steps.

- `HandOutsAreBounded`: a job is handed to the processor at most `MaxAttempts + MaxStalled` times. Attempts and
  redeliveries add up and do not multiply, although `attemptsMade` is written only by a run that still has its
  lock: `HandOutInv` says that the holder runs the attempt after those made (`HolderCounts`) and that a job that
  can be handed out has not stalled too often (`FewLosses`). `HandOutsAreCounted` says that the sum that is
  bounded is the number of `Pick`s.

Only model-checked: `EveryJobEnds` (liveness).

## 4. SectionRun and SectionPlanner

`SectionPlanner` is `executeRuntimeSections` (`src/agent-runtime/planner.ts`) inside
`executeAgentRuntime`, over the successive runs of one queue job. A step is what a process does
between two awaits of one promise; promises of the same run interleave freely.

| Variable | Code |
|---|---|
| `saved` | the `runtime_section_*` fields of the job hash |
| `sections` | the `sections` object of the run |
| `run`, `phase`, `group` | which run of the job, where it is, the index of the parallel group |
| `task` | the promise of each section: working, picking, saving, done, failed |
| `cand`, `tries` | each candidate's `withRetry` loop: calling, cut (aborted before it is sent), sleeping, item repair, settled; attempts begun |
| `failure` | `executionFailure`, by the section it belongs to; set means that `executionController` is aborted |
| `cancelled` | the job's signal |
| `translating` | the translations in flight |

`Begin` takes the checkpoint; `NextGroup` starts every task and candidate of a group at once;
`CallSucceeds`, `CallFails`, `CallCut`, `Retry`, `RepairEnds` are a candidate; `DeriveReturns`,
`DeriveFails`, `CandidatesSucceed`, `CandidatesFail`, `Pick`, `Save` a task; `GroupThrows` is the throw
after `Promise.allSettled`; `StartTranslations`, `TranslationReturns`, `TranslationFails`, `Assemble`
the rest of the run. A value is known by the run and the candidate that made it.

Abstractions: a team run with all its repair rounds is one call (section 5 shows that this is so), which
may fail as an abort, as invalid content or otherwise at any time, aborted or not. Writes of the checkpoint and of traces do not fail (as in section 3).
A checkpointed value has passed its validation and is never empty, so the filter for empty resumed values passes all.
Translations of a failed run that are still in flight write no section and no record; the model drops
them at the next `Begin`. Sections made under different rules versions are not told apart.

`SectionRun` is the promise: group after group, checkpoint before the next group, a checkpoint is
never replaced, and a run returns what is checkpointed. `ImplementsSectionRun` maps
`have <- sections` and the phase to `outcome`.

| Run | Instance | Shows |
|---|---|---|
| `sections` | 3 sections in 2 groups, one with 2 candidates, one with item repair, one derived; 2 tries, 3 runs, fair; 37 814 states | `NoOrphans`, `SuccessesAreSaved`, `BlamedIsMissing`, `ImplementsSectionRun`, `EveryRunEnds` |

Two groups are needed for order, two sections in a group for a failure beside work in progress, two
candidates for a choice, two tries for a sleep that an abort hits, and three runs for a checkpoint
that outlives more than one failure. Deadlock is not checked: the runs of a job are used up.

Fairness: promises settle, as for `generate` above. The sleep of `withRetry` does not look at the
abort, so a cancelled or failed run may still have to sleep; `EveryRunEnds` holds because each
following attempt is cut. No cancel, crash or further run has to happen.

`SectionPlannerProofs` proves, for all sections, groups, candidate counts, tries and runs:
`PlannerTypes`, `NoWorkIsOrphaned`, `NoSuccessIsLost`, `TheBlamedIsMissing` and
`PlannerImplementsSectionRun`. The inductive invariant `PlannerInv` adds to `TypeOK` what a task's
position says of its value and checkpoint (`TaskData`), that groups below the current one are settled
and those above idle (`Progress`), that the section blamed has failed (`Blame`), and that nothing waits
outside its phase (`Waits`). `NoOrphans` follows because the planner leaves a group only when it
is settled, and a settled task has settled candidates. The refinement is one step per action.
`PlannerRunsAdvance` proves that no step is made twice: runs, their phases and groups, and in a group tasks before
candidates before translations. Only model-checked: `EveryRunEnds`.

## 5. SectionTeam

One candidate of section 4: `generateSectionWithAgentTeam` (`src/services/llm-client.ts`) with `withRetry`,
inside the `generateSection` callback of `executeAgentRuntime`. What section 4 takes for one call is here
an attempt: the team's text is validated, and while it is invalid a repair round sends two calls that both
start from it and goes on with the better answer.

| Variable | Code |
|---|---|
| `pc` | the team's call (`entry`), a repair round, the sleep of `withRetry`, the repair of bullets, settled |
| `attempt`, `round` | the loops of `withRetry` and of `repairRound` |
| `cut` | the attempt, or round, began under an aborted signal |
| `text`, `calls` | the last validated text; the two calls of the round |
| `feedback` | `retryValidationErrors`, by the text they are the errors of |
| `error`, `result` | what the attempt threw, what the candidate returned |
| `cancelled`, `aborted` | the job's signal and the planner's, joined by `linkAbortSignals` |
| `seen`, `late` | history: all validated texts; attempts begun under an aborted signal |

`EntryAnswers` and `EntryFails` end the team's call, `RepairAnswers` and `RepairFails` a repair call;
`RoundChooses` or `RoundFails` follow `Promise.allSettled`. Whoever has a validated text does `GoOn`: return
it, repair it, or throw its errors. `Throw` is the `catch` with the decision of `withRetry`, `NextAttempt`
the end of its sleep, `ItemsRepaired` and `ItemsFail` the outcome of section 6.

Abstractions: a text is a value with a score, 0 for a valid one. A call that starts under an aborted signal fails
with an error that says "abort" (the SDK's doing, and what `isAbortLikeError` looks for); one that is hit
on its way may fail in any way or still answer. The tool calls within a team run, prompts and traces are
left out.

| Run | Instance | Shows |
|---|---|---|
| `candidates` | 3 texts (valid, near, far), 3 attempts, 3 rounds, bullets, fair; 11 588 states | `ReturnedIsValid`, `ValidIsNotLost`, `StoppedSoon`, `ImplementsCandidate`, `CandidateEnds` |

Three texts give a better and a worse repair beside a valid one, three rounds are the code's
for bullets, three attempts allow for a further attempt after a late one. A candidate ends, so deadlock is
not checked. Fairness: calls settle and sleeps end (for the team's calls by the SDK's timeout); no signal has to come.

`ImplementsCandidate` maps the candidate to `SectionPlanner` with one other section in its group: an aborted
signal is that section's failure, an attempt is one call, a round changes nothing the planner sees. The
planner's guard that a further attempt needs no abort is thereby shown of the real loop, whose `shouldRetry`
reads the signal before the sleep.

Three things to know. A round takes the best answer even when it is worse than the text it repairs.
When both repair calls fail, the error is "repair output empty": it hides an abort, so a cancelled
job (which `shouldRetry` does not ask) sleeps and begins one more attempt, which the linked signal cuts
(`StoppedSoon`); and it hides that a content failed its validation, so such bullets are not repaired line
by line.

`SectionTeamProofs` proves `TeamTypes`, `OnlyValidIsReturned`, `NoValidTextIsLost`, `StoppedCandidatesGiveUp` and
`CandidatesFitThePlanner` for any texts, scores, attempts and rounds. `TypeOK` needs
that a candidate sleeps only with attempts left (`Sleeping`). `ReturnedIsValid` and `ValidIsNotLost` are then inductive:
`Best` takes a valid answer if there is one, and whoever sees an invalid text has seen no valid one. `StoppedSoon`
needs `LateIsLast`: a late attempt is a cut one, which ends in an abort and is the last. `CandidatesAdvance` proves that no step is made twice: attempts, their
places, rounds, calls. Only model-checked: `CandidateEnds`.

## 6. BulletRepair

`repairBulletItems` (`src/services/generation-service.ts`) with the validation of bullets: what happens to
the content of the last attempt when the section is repaired by item.

| Variable | Code |
|---|---|
| `lines`, `errors` | the two locals: the bullets, and what the caller will look at |
| `targets`, `round` | `targetIndexes` not done yet, the round of the first of them |
| `calls` | the two calls of the round, with the line `pickSingleLineRepairCandidate` chose |
| `pc` | before a round, in its calls, done |
| `start` | history: the bullets the repair began with |

`LineIsFine`, `StartRound`, `CallAnswers`, `CallFails`, `RoundChooses` and `RoundIsLost` are the body of the inner loop.
`Errors` is `validateSectionContent` on bullets: a wrong number of lines hides everything else; every line has
its length; the brand must be somewhere; the keywords must appear in order, and the first that does not
ends the scan. `Relevant` is what counts for one line: its own errors, and a keyword error if `LineOf` plans that
keyword for it.

Abstractions: a bullet is known by how far its length is out of range, the keywords in it and whether it
names the brand; the length stands for all that is asked of a line alone (sentence end, heading). The
brand stands for all that is asked of the whole and of no line (total length, must-contain words). Equal
answers are told apart by length in the code, by choice here. Where the rule does not enforce the order of the
keywords, a missing one belongs to no line and stands with the brand.

| Run | Instance | Shows |
|---|---|---|
| `bullets` | 2 lines, 3 keywords, 6 bullets, 3 rounds, answers with one bullet, one text that comes to nothing, or none, fair; 25 390 states | `AcceptedIsValid`, `RepairsDoNotHarm`, `RepairEnds` |

Two lines and three keywords are shared out two and one, so a line's repair can move the missing keyword from one
line to the other; three rounds are the code's. The repair starts from every invalid content, one of
three lines and an unreadable one among them. Fairness: calls of `generateText` have a timer and two
attempts. The repair ends, so deadlock is not checked.

Three things to know. An answer of which `splitLines` leaves nothing (such as `Output: 1.`) takes its line away
(`Nothing`): the wrong number of lines hides all other errors, so it weighs nothing and wins; no line has an error
then, the repair ends, and the caller rejects the bullets. A repair looks at its own line: when it brings a keyword in order, the next missing
keyword may belong to a line that is not a target, and the bullets are then rejected, as they are when
a repair takes the brand away. The planner's abort is not asked here: only the job's signal stops these calls.

`GenerationProofs` proves `BulletTypes`, `AcceptedBulletsAreValid`, `OtherLinesStay` and `NoRepairHarmsItsLine` for any
bullets, keywords, lines and rounds; `Errors` stays opaque except for contents of the wrong size. `Shape` says that
an error of the first content pointed at each target and that calls are sent only for the right number of lines
(`Complete`), `AnswersFit` that an answer weighs no more than the line, from which an accepted round cannot
harm it. `RepairsAdvance` proves that no step is made twice: lines, rounds of a line, calls of a round. Only
model-checked: `RepairEnds`.

## 7. JobEvents

One stream of `GET /v1/jobs/:jobId/events` against the processes that write. Streams share nothing,
so one is enough.

| Variable | Code |
|---|---|
| `logged`, `record` | length of the trace list; status and time (`at`, the number of the mark) of the record |
| `pending` | per process, what it has written and not yet announced, in order |
| `chan` | all messages ever published on the job's channel |
| `pc`, `start`, `last` | the handler's position, `query.offset`, `lastTraceOffset` |
| `read`, `lost` | how far the subscriber is in `chan` and what its connection lost: together, `bufferedEvents` and whatever is under way |
| `shown`, `told`, `lastStatus`, `latest` | what was sent to the client, `lastStatusKey`, the record read after the backlog |
| `closeTimer`, `keepalive`, `watching`, `cleanup`, `client` | the two timers, the close handler, `cleanedUp` and the end of cleanup, the client's connection |

A writer is `Push` or `Mark` and then `Publish` or `FailToPublish`. The handler is `Open`,
`Subscribe`, `ListPage` (repeated), `ReadLatest` and one of `AnswerGone`, `AnswerEnded`, `AnswerRunning`.
Messages are `EmitTrace`, `EmitStatus`, `IgnoreMessage`, `LoseMessage`; the end is `TimerFires`,
`ClientGoes`, `CloseSubscriber`.

Abstractions: time is left out, so the 300 ms timer may fire at any moment after it is armed. `failed`
and `cancelled` are the same to this handler as `succeeded`, which stands for all terminal statuses.
Traces are known by their offset. A mark of a missing record makes one without a tenant, which no handler finds
and whose announcement `parseJobEventMessage` drops: it is left out.

| Run | Instance | Shows |
|---|---|---|
| `stream_traces` | 2 writers, 4 entries, pages of 2, 1 lost message, no marks; 605 452 states | `ShownInOrder`, `NoSilentGaps` |
| `stream_ends` | 1 writer, 3 marks, 1 entry, 1 lost message, fair; 1 218 228 states | `EndIsTold`, `TimersEndWithStream`, `EndedJobEndsStream` |

Two writers are needed for one announcement to overtake another; four entries with pages of two
give full, partial and empty last pages. Three marks are a running, a terminal and a later mark.
The end of a stream depends on marks, which one writer makes in every order the code knows. Deadlock
is not checked: a stream ends.

Fairness: a live writer publishes or fails, the handler's commands are answered or fail, messages
arrive or are lost, timers fire and the subscriber closes. Nobody has to write, fail or leave.

The properties name what the code does not prevent:

- An entry announced after a later one is never shown (`Overtaken`): offsets come from `RPUSH`,
  announcements from a later `PUBLISH`, and `src/api/routes.ts:531` drops lower offsets. So is one
  whose message was lost.
- The keepalive interval leaks when the end of the job is announced and the close timer fires while the
  handler waits for an older read of the record: it arms the interval after cleanup
  (`src/api/routes.ts:627`).
- A stream may stay open after the end if the end was never announced: the marking process died, or a
  reader had taken the record before `markSucceeded` read it back (`src/store/job-store.ts:120`).
- A subscriber whose `quit()` fails leaves the response open (`CloseFails`, `cleanup = "stuck"`) when the handler was
  awaiting `cleanup`, which does nothing the second time. The other calls of `cleanup` are not awaited: their rejection
  ends the process, and the response with it.
- A client that leaves before the close handler is registered is noticed only at the job's end.

`JobEventsProofs` proves, for every number of writers, entries, marks and losses and every page size:
`StreamTypesCorrect`, `EntriesInOrder`, `GapsAreExcused`, `EndsAreTold`, `TimersAreReleased`.
`EventsInv` adds that nothing beyond `last` was shown (`ShownUpToLast`), that only entries in the list
are announced (`Announceable`), that during the backlog everything from `start` to `last` is shown
(`BacklogShown`), and that no message of an entry above `last` has been read, unless it was lost
(`StillToCome`), from which `NoSilentGaps` survives an `EmitTrace` that jumps over offsets.
`EndCauses` says why cleanup began. Only model-checked: `EndedJobEndsStream`.

## 8. TraceStore

The start time of a job's trace (`src/store/trace-store.ts`), which makes `elapsed_ms` comparable
between the entries of the API and those of a runner. Appended entries themselves are in `JobEvents`.

| Variable | Code |
|---|---|
| `key` | `syl:trace:job-start:<id>` of each job, 0 when there is none |
| `cache` | `startMsCache` of each process, oldest use first |
| `lookup` | `startMsInflight`: the look-up of a process for a job and the command it is at |
| `call` | each `append`: waiting for a look-up, or writing with a start time |
| `clock` | the time, which only look-ups read |
| `expired` | jobs whose key ever expired |

`AppendCached`, `AppendJoins` and `AppendLooksUp` are the three ways through `getStartMs`; `SetFirst`,
`SetRefused`, `GetFound`, `GetNothing`, `SetAgain` are the commands of `resolveStartMs`, whose last one
settles every call that waits (`Settle`); `LookupFails` rejects them all, whether or not the command that was not
answered has written the key (`Unanswered`). `Expire` and `Restart` come
from outside. That `Settle` caches, answers and forgets the look-up in one step is a microtask's work.

| Run | Instance | Shows |
|---|---|---|
| `trace_starts` | a runner with 2 calls, the API with 1; 2 jobs, a cache of 1, 4 look-ups; 275 888 states | `StartsAgree`, `CacheIsBounded`, `AppendsGoOn` |

Two calls of one process share a look-up or look up two jobs at once, two processes race for the key,
and a cache of one entry evicts at the second job. `MaxTime` bounds the look-ups; four are two for each
process. Fairness: Redis answers a look-up, or it fails. `expired` is the exception of
`StartsAgree`: between a refused `SET NX` and `GET` the key may vanish, and a process that still has it
cached goes on with the old value. Every append extends the key's life, so this takes a job that is
silent for the whole TTL.

`TraceStoreProofs` proves, for all processes, jobs, calls and limits, `TraceTypesCorrect`,
`ProcessesAgree`, `CachesStayBounded`, `WaitingIsServed`. `TraceInv` adds that calls wait only for
look-ups (`NobodyWaitsInVain`), that a look-up has a time (`LookupsWait`) and a writer a start time
(`WritersHaveStart`). The facts about `Forget` and `Remember`, which entries they keep and that they
keep jobs distinct, are lemmas. Only model-checked: `AppendsGoOn`.

## 9. RulesStore

The registry of one tenant (`src/services/rules-service.ts`) and the loader's cache
(`src/services/rules-loader.ts`).

| Variable | Code |
|---|---|
| `current`, `meta`, `file` | the current key, the metadata hashes, the archive files |
| `publish`, `rollback` | each request: its version and archive, and the write it is at |
| `reader` | each client or run: the version it read, the `manifest_sha256` it resolved, what it got |
| `cache` | the loader's `cache` of each runner process |
| `twice`, `clashed` | versions that more than one publish began; that two were at together or one left unfinished |

A publish is `OpenFile`, `WriteFile`, `Describe`, `Activate`, and may die before any of the last three; a
rollback is `CheckRollback` and `ActivateRollback`; a reader is `ReadCurrent`, `ReadMeta` and then
`Download`, or `LoadCached`, or `Extract` and `StoreRules`. An archive stands for its hash. `Torn` is a
file that a writer has opened and not finished, or that two writers have mixed; extraction fails on it.

Left out: signatures and malformed requests, which are refused before anything is written; and
`bootstrap`, which writes nothing, because its two callers (`src/api-main.ts:27`,
`src/runner-main.ts:18`) pass no public-key fields and it returns early. A reader whose command fails
is a reader that does not go on.

| Run | Instance | Shows |
|---|---|---|
| `rules_versions` | 2 versions, 2 archives, 2 publishes, 1 rollback, 1 client, 2 runs of one runner; 219 236 states | `ResolveHolds`, `DescribedIsWhole`, `DownloadMatches`, `RunsUseTheirVersion`, `QuietVersionAgrees` |

Two publishes are of two versions, or of one, with the same archive or another; two runs of one process
race for a cache entry and use each other's. Requests and data are symmetric. Readers come
again, so nothing stops and deadlock is checked.

Nothing in the code forbids publishing a version again, and the properties say what is then lost:
the file is overwritten in place, so until the metadata follow (for good, if the publish
dies: `clashed`) a client downloads what was not described to it; a process that has the version cached
keeps the old rules, while another loads the new ones (`twice`).

`RulesStoreProofs` proves all of them, for any sets of versions, requests, readers and processes.
`RulesInv` follows a publish through its writes: before `Describe` a version published once has no
metadata (`BlankBefore`), after `WriteFile` its file is the request's (`WholeAfterwards`), before `Activate`
it has metadata (`DescribedAfterwards`). What readers and caches saw of a version (`ReadersSee`,
`ReadersGet`, `CachesSee`) stays true because metadata are never removed, and not replaced unless the
version is published again (`MetaGrows`). `CountedTogether` ties the two exceptions to the requests.

## 10. JudgePipeline

What `executeAgentRuntime` (`src/services/generation-service.ts`) does after the planner has returned:
`runRuntimeQualityJudge` with its `executeJudgeNode` rounds, `buildTranslationReusePlan`, and the
translations that are made again. It starts where `SectionRun` ends.

| Variable | Code |
|---|---|
| `original`, `text` | the planner's sections; `repairedSections` and their slots |
| `round`, `issues`, `todo` | `judgeRound`, the sections that `judgeIssues` names, those of the round still to repair |
| `busy` | the call under way; the calls of this part are sequential |
| `judge`, `seen` | what became of the last review, and the texts it was about |
| `translated`, `pending` | what each `<section>_cn` slot was translated from; `pendingSectionKeys` |
| `phase`, `cancelled` | position, and the job's signal |

`Review` is answered (`JudgeAnswers`, with any set of complaints), fails (`JudgeFails`, which the code
takes for no complaint) or throws (`CallThrows`); then `Repair`/`RepairReturns` for each complaint and
`EndRound`; `PlanTranslations`, `Translate`/`TranslationReturns`, `Return`. `Cancel` comes at any moment
and is noticed by `Abandon`.

Abstractions: a text is one of a small set, and a repair may return any of them, the old one included.
A translation stands for the text it was made from: `runAgentText` throws on an empty answer, so a
translation is never missing or empty, and the planner keeps the value it was given. The prompts, and the rule
by which `parseJudgeIssues` reads the answer, are data: an answer is the set of sections it names.

| Run | Instance | Shows |
|---|---|---|
| `judge_rounds` | 3 sections, one of them ignored, one name without a slot; 2 texts, 2 rounds, fair; 15 672 states | `TranslationsFit`, `IssuesAreCurrent`, `RepairsAreAskedFor`, `PipelineEnds` |

Two rounds and two texts are the least in which a repair takes back an earlier one, the case in which
an old translation fits again. The judge may be off from the start. A run ends, so deadlock is not
checked. Fairness: calls of the judge and the translator have the timer of `runAgentText`; the
team's, as in section 4, end by the SDK's.

Two things to know. A complaint of a section without a slot (`translation`) is counted and uses up a
round, and nothing is repaired. A judge that fails reports no issues, so the number in the
validation report says nothing then; `IssuesAreCurrent` leaves this out (`judge = "answered"`).

`JudgePipelineProofs` proves `PipelineTypesCorrect`, `TranslationsAlwaysFit`, `IssuesStayCurrent` and
`RepairsAreJudged` for all sections, texts and rounds. `PipelineInv` adds that what is left of a round is
what was complained of and still says what the judge read (`TodoIsJudged`), that after the rounds the
verdict stands (`VerdictStands`), and that whatever is not pending has its translation
(`OthersAreTranslated`). `RunsAdvance` proves that no step is made twice: rounds, their phases, sections, calls. It
needs that a call under way fits the phase (`CallsFit`). Only model-checked: `PipelineEnds`.

## 11. Compiler

`compileExecutionSpec` (`src/agent-runtime/compiler.ts`): one step checks the policy as a whole, one
plans each required section or rejects the rules, one cuts each chunk. Its result is what the
planner of section 4 takes as `GroupOf`, `CandidateCount` and `Derived`.

| Variable | Code |
|---|---|
| `rules` | `requiredSections` and `runtimePolicy`, as `parseRuntimePolicy` returns them |
| `left`, `executable`, `plans` | the loop over the required sections and what it collects |
| `index`, `groups` | `chunkSections` and `parallelGroups` |
| `phase` | position; `rejected` is a throw |

`Override`, `Template`, `Settings`, `Profile`, `Candidates`, `Reviewed` are the layers of defaults. What is not
said is `None`, and an override that is missing is one that says nothing. A policy has at most one
override of a section and one template of a name (`find` takes the first); a specialist's name is its
blueprint's. YAML numbers need not be whole, and `slice` cuts its bounds down: the concurrency and the numbers of
candidates are counted in parts of one, `Parts` to one, which are halves in the run. A policy that is missing
(`requireRuntimePolicy`) is one of the `strays`: nothing is compiled. The limits handed on for review rounds, and the agents that `section-team.ts` builds, are
left out.

| Run | Instance | Shows |
|---|---|---|
| `compiler` | the registry of the code, 24 300 different rules; 100 952 states | `GroupsInOrder`, `PlansCanRun`, `OwnWordsCount` |

The rules vary in what they say as a whole (concurrency unset, 0, 1.5 and 2; intent; unregistered
blueprints and profiles; templates of their own) and in what they say of one section, in every
combination. Compiling ends, so deadlock is not checked.

`GenerationProofs` proves `GroupsKeepTheirOrder`, `CompiledPlansCanRun` and `TenantsWordsCount` for every registry, every set
of rules whose values have the types that `parseRuntimePolicy` checks, and any parts. `CompilerInv` says of the
loop that what is executable is the part of the required sections passed so far, in order (`LoopInOrder`), of
every plan that it follows from the rules (`PlansAreOurs`), and of `chunkSections` that the groups, one after the
other, are the executable sections up to the index that is cut down (`ChunksInOrder`). The last needs that
`FlattenSeq` of one group more is the sequence that is longer by it. `FlattenSeq` is defined by recursion, so this
takes an induction (`Induction`: of the numbers where something fails, one would be the least) over its partial sums
(`SumsExist`, `SumsAgree`, `FlattenIsSum`). `DivisionGap` is what is known of a fractional chunk size: a chunk
spans less than one section more than it.

Three things to know. `required_sections` may name a section twice; both stay, and when they are in one
group two tasks work on the same section (the planner's model has each section once). A policy that
requires no reviewer outvotes a section that does, so such a section is compiled without one even where
its writer forbids reviewers. The registry's candidate count for `title` goes before that of a
template the tenant names for it.

## 12. Not modelled

Text processing (parsing, rendering, prompts, guidance), HTTP details, authentication, logging,
process wiring. `LLMHealthService` caches the report of a probe for the health endpoint; nothing else reads it
(plan, item 10). Four hazards are known and not covered: a call of the agents SDK that never answers, a
run that lost its lock, two readers of one result, and sections made under the rules of an earlier attempt (see the notes in `PROJECT.json`).
