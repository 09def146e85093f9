# pss-runtime in TLA+

Specifications of `packages/runtime` (`@minpeter/pss-runtime`), checked with TLC and, for the lease protocol
and its backstops, durable tool calls, the inputs of a thread, the file store and the dispatch of
notifications, proved with TLAPS. Paths below are relative to `packages/runtime/src/` unless they start with
`packages/`, `apps/` or `docs/`.

| module | what it is |
| --- | --- |
| `TurnRecords` | the pure decisions a store makes on a turn record: claim, transition, checkpoint write |
| `TurnAuthority` | abstract: the lease of a turn as a register of fencing tokens |
| `TurnLease` | who may run a turn and write for it: claims, starts, heartbeats, writes, settlement, crashes |
| `TurnBackstop` | `TurnLease` with the scheduled check that resumes a crashed turn |
| `DurableTurn` | the tool calls of a turn, their checkpoint journal, and recovery |
| `ThreadInput` | the durable inputs of a thread and the handles that admit, drain, interrupt and kill |
| `Notifications` | dispatched notifications of a thread, the rows that wake them, and the passes that resume them |
| `FileLock` | the lock the processes of a host take around a file store, and the reaping of dead owners |
| `LogFile` | the file of a log: its lines, and how it ends when an append stops |
| `StoreRegister` | abstract: a shared store as one register |
| `FileStore` | transactions over hard-linked generations, under the lock; implements `StoreRegister` |
| `TurnAuthorityProofs`, `TurnLeaseProofs`, `DurableTurnProofs`, `DurableOwnerProofs`, `TurnBackstopProofs`, `ThreadInputProofs`, `FileStoreProofs`, `NotificationsProofs` | the theorems |
| `MCTurnLease`, `MCTurnBackstop`, `MCDurableTurn`, `MCThreadInput`, `MCNotifications`, `MCFileStore`, `MCFileLock` | instances for TLC |

To check one run: `tlc -config TurnLeaseFence.cfg MCTurnLease`; to check the proofs:
`tlapm TurnLeaseProofs.tla`.

## 1. The system

An agent owns threads. Input sent to a thread becomes a *turn*: model requests alternating with
rounds of tool calls until the model stops. On a host with a durable store a turn has a *run
record*, a *checkpoint* and a place in the thread's *history*, so another process can carry on
after a crash. Hosts are memory, files, Durable Objects (Celld) and a SQL queue.

### Turn records and store decisions (`execution/host/turn-status.ts`, `checkpoint-write-decision.ts`)
- State: status, lease (id, deadline, attempt, owner) and checkpoint version of a run.
- Operations: `resolveTurnClaim`, `decideTurnTransition`, `decideCheckpointVersionWrite`,
  `decideLeaseFencedCheckpointWrite`. Pure; every store applies them atomically.
- Correct when: a claim never replaces a lease that holds, attempts are bounded, a write under a
  lease that is no longer the run's is refused.

### Turn lifecycle (`thread/runtime/execution.ts`, `turn-ownership.ts`, `terminal-run-settlement.ts`, `thread/handle/agent-thread-continuation.ts`, `agent/resume/`)
- State: the run record; per process the set of leases it holds and its owner id; per turn its
  lease, its heartbeat, and whether it lost ownership.
- Operations: admission of an input (with or without a record in advance), `thread.continue()`,
  `agent.resume()`, start, renewal, checkpoint and thread commits, settlement and its failure,
  cancellation, `agent.resolveRecovery()`.
- Interactions: processes meet only in the store; the tasks of one process share the drain of the
  thread and the set of held leases.
- Hard: every step is a store call that may come late, fail, or fail after it took effect; a claim
  is made from a record read earlier; clocks differ; a renewal may cross a settlement.
- Correct when: at most one turn passes the fence; writes follow the order of owners; a settled run
  stays settled; a live turn keeps its run; a superseded turn stops; takeovers spend attempts.

### Turn backstops (`execution/dispatch/turn-backstop.ts`, `platform/durable-object/celld/`)
- State: one scheduled row per run, with the claim of the drain that serves it.
- Operations: schedule with the start, cancel with the settlement, claim, `runTurnBackstop`,
  acknowledge, retry.
- Hard: a drain that outlives its claim; a resumed start that replaces the row under the drain that
  resumed it; store failures between the steps of a pass.
- Correct when: a started run always has its check, and a crashed turn is resumed by it alone.

### Durable tool calls (`thread/runtime/execution-checkpoints.ts`, `recovered-tool-round.ts`, `execution/host/tool-step-journal.ts`, `llm/tool-execution-wrapper.ts`)
- State: the latest checkpoint (own call, completed calls, journal of intents and results), the
  journal in memory, committed history.
- Operations: `beforeTool`, the effect, `afterTool`/`afterToolError`, commit of a round, recovery
  (restore, settle, rerun), `resolveRecovery`.
- Hard: parallel calls that each rewrite the whole checkpoint; crashes at every await, also during
  a recovery; provider call ids that recur; retry policies; operator decisions.
- Correct when: effects run as often as their policy allows, outcomes are neither lost nor
  committed twice, and the model hears of every effect.

### Thread input inbox (`execution/host/thread-input-inbox.ts`, `thread/runtime/durable-input-*.ts`, `thread/handle/durable-queue-*.ts`)
- State: durable input records (pending, claimed, acknowledged), each with a run of its own; per
  process, the line of admissions and the set of live inputs.
- Operations: admit, claim the next, release, promote, acknowledge, recover the claims of a dead
  process, cancel.
- Interactions: the handles of one process meet in the process's maps (keyed by the host store
  object) as well as in the store; a run is also resumed from outside (`agent.resume()`).
- Hard: claims of a dead process look like those of a live one; the head of a handle's queue is not
  always the oldest record; each step is a transaction that others may precede.
- Correct when: an admitted input is run once, in order, and is not lost when its owner dies.

### Thread drain (`thread/handle/agent-thread-drain.ts`, `thread-drain*.ts`, `agent-thread-kill.ts`, `agent-thread-machines.ts`)
- State: the queue of a handle and its machines for drain, turn, lifecycle and terminal state; the
  owner of the thread's drain in the process, and the last one.
- Operations: send, steer, drain, interrupt, kill, delete.
- Hard: a request to drain that meets a loop about to end; two handles that take turns, each with
  its own copy of the history; kill beside admissions under way; a failed turn that parks the queue.
- Correct when: one drain runs a thread on the history of the store, every accepted call ends, and
  after a kill nothing is left waiting.

### Notifications and dispatch (`execution/dispatch`, `agent/resume`)
- State: notification records and their runs, one pair per idempotency key; a row of scheduled work
  that wakes the run, and a check once it is started.
- Operations: dispatch (and dispatch again), wake, claim of a row, resume, queue, start, settle,
  acknowledge or retry the row.
- Interactions: the pass that resumed a run waits for its turn's events, while other passes come and
  the thread runs the turns of users; everything in memory goes with the object.
- Hard: two dispatches of a key at once; a row claimed again while the turn of its first claim waits
  in the queue; an item in the queue whose run was claimed again; a store that fails at any step.
- Correct when: all dispatches of a key answer one run, a recorded run is settled in the end whatever
  dies, and its input enters the thread once unless a turn was lost.

### Stores and hosts (`platform/`)
- File store (`platform/file/storage`). State: a lock file that names its owner and a reaping marker;
  a pointer file, generations as directories of hard links, logs and documents in them. Operations:
  acquire, release and reap; transactions, single writes, reads. Hard: every call of the filesystem
  is a step of its own beside other processes, any of which may die; what was read may be replaced
  before it is acted on; a log shared by two generations. Correct when: one holder of a lock; a
  transaction is visible whole or not at all; nothing committed is lost; a dead process blocks nobody.
- Durable Objects: SQL tables, one alarm for all scheduled work, claims with leases.
- SQL queue: leased entries, heartbeats, ack and nack.
- Memory: the decisions above over maps.

### The rest
- Agent loop and model steps (`agent/loop`, `llm`): retries of a request, stream handling, token metering.
- Thread state (`thread/state`, `thread/runtime/thread-event-log.ts`): history in memory, versioned
  commits, durable events.
- Compaction (`thread/runtime/auto-compaction-*.ts`, `speculative-compaction*.ts`): summaries of
  history under deadlines, prepared beside the turn and committed when nothing overtook them.
- Agent, plugins and hooks (`agent`): composition; hooks decide on calls and turns.
- `protocol`, `contracts`, `otel`, `channel`, `evals`, `testing`; `packages/kernel`: types,
  telemetry, test suites and composition, without protocol state.
- `apps/coding-agent` (terminal UI, session index, update lock), `apps/worker-agent` (RPC, Telegram
  delivery, session index), `extensions/` (renderers, web tools).

## 2. The models

### `TurnRecords`
A run record is a status, a lease `[id, attempt, owner]` and a checkpoint version. `NoLease` stands
for a null lease and has id 0; fresh ids are 1, 2, ... in the order they are issued, so comparing ids compares
owners by age (the code uses UUIDs and never orders them; the models use the order only in
properties). The deadline of a lease is not in the record but in the variable `left` of `TurnLease`.

### `TurnLease`
One run; `Task`s that act on it, each in a process (`Home`). Code to model:

| code | model |
| --- | --- |
| run record in the store | `run`, with `left`, the time to the lease's deadline |
| `processLeases().active`, `ownerId` | `active[p]`, `<<p, life[p]>>` |
| a task's place in the code | `pc`: idle, read, clear, claimed, queued, starting, started, scheduling, running, failed, settling |
| `executionRun.leaseId` | `held` |
| `TurnLeaseHeartbeat` | `beat` (mode and time left), `lost` (the abort signal) |
| version read before a checkpoint write | `version` |
| precreate, `prepareQueuedDurableInput` | `Precreate`, `EnqueueInput` |
| `recoverPersistedThreadContinuation`, `claimRun` | `ReadRun`, `CheckDrain`, `Claim` |
| what follows a claim | `ParkClaimed`, `CancelClaimed`, `RequeueClaimed`, `HandOffToInput`, `EnqueueContinuation` |
| `markRunRunning`, `startWithBackstop` | `BeginDrain`, `Start`, `StartConflict`, `StartError`, `HoldLease`, `ScheduleAfterStart` |
| `startTurnLeaseHeartbeat` | `SendRenewal`, `ApplyRenewal`, `RenewalError`, `AbandonLost` |
| checkpoint append, `commitOwned` | `ReadVersion`, `WriteCheckpoint`, `CommitOwned` |
| settlement | `StopRenewal`, `FinishTurn`, `TurnThrows`, `SettleFailedTurn`, `Settle`, `SettleError` |
| `resolveAgentRecovery` | `ResolveRecovery` |

Each action is one atomic store operation with the code around it that runs without an await, so
interleavings are those of the awaits. Time is counted down in timers (`left`, `beat.left`), so the clock needs no
bound. `Skew` lets clocks differ; `Prompt` says that renewals are not late (an assumption, used by
the one property that needs it); `ProvesDeath` is a host with `ownerLiveness`; `LateBackstop` a host
that schedules the check after the start.

A claim that is requeued or handed to an input drops its lease and with it the attempt count, as in
the code. Between the committed start and `holdRunningLease` the run is running under a lease its
process does not hold yet (`pc = "started"`). A claim of the same process could use that. The claim of
a continuation looks first whether the thread has a drain (`CheckDrain`), which it has then, unless two
hosts live in one process; that is not modelled. The claim of a notification run
(`agent/resume/resume.ts:71`) does not look, and `Notifications` merges the start with
`holdRunningLease`, so no model has that window for notifications. What such a claim displaces is
still stopped by the fence of the commits.

### `TurnAuthority`
A register: `Grant` gives a token nobody had, `Write` appends the owner's token, `Release`, `Close`,
`Reopen`. `TurnLease` implements it with `owner <- run.lease.id`, `writes <- log`.

### `TurnBackstop`
`TurnLease` with `row` (the check: when due, who claimed it) and `check` (the stage of each drain pass).
The start writes the row and the settlement drops it in their own transactions. A pass claims the
row, inspects the run, resumes it, reads the run again if there was no turn, drains the turn's
events, and acknowledges or retries the row it claimed. `TurnStep` runs a turn's actions under a
pass; its start replaces the row. The listing of due rows and the claim of one are one step, so `ClaimCheck` takes
a due row; the code lists first and then claims whatever the row has become
(`scheduled-work-claims.ts:31`), so it may also claim a check that a start has just replaced.

### `DurableTurn`
Attempt `t` is the `t`-th owner of the run and its lease id is `t`. An attempt is a turn that issues
rounds of parallel calls; the next attempt may claim the run at any time, whether the former is dead
or only slow. A checkpoint is its phase, its own call, the completed calls with the evidence they
keep (`prior`: the number of results of the same id in history; `version`), and the journal. The
value of a call is the attempt whose run produced it, or `Interrupted`, `Decided`, `Blocked`. The
`use` number tells uses of one id apart: properties read it, the modelled code does not.

Abstractions: a store call is atomic (the retry after a stale version within one append is left to
`TurnLease`, which has the version race); the lease deadline is nondeterminism in `Claim`. A store
failure while a recovery settles a carried call ends the run as `error` and rolls the thread back,
as the code does. Left out: a user's abort in the middle of a tool, a tool that is unavailable when
its call is run again, checkpoint formats before version 2, compaction between the attempts, and the
cancellation of a stale continuation. Neither is a continuation that the process still has in memory and
prefers to the checkpoint (`thread/handle/agent-thread-continuation.ts:525`); hooks that throw, after whose effects
`EndTurn` would keep the history instead of rolling it back (`thread/runtime/turn-error.ts:212`); and a stream that
fails beside calls that run (`llm/model-step.ts:289`). `MaxWork` only bounds how many calls and writes a behaviour
makes.

### `ThreadInput`
One thread, one process with two handles (`AgentThread`s on the same store object), which may die
and be replaced. A message is its `admittedSeq`.

| code | model |
| --- | --- |
| inbox records; the run admitted with each | `rec`, `run` |
| inputs in the committed history | `hist` |
| the `AgentTurn` a caller waits on | `turnOf`: open, ended, or gone with its caller |
| a handle's history against the store's | `thread`: unloaded, loading, fresh, stale |
| a continuation checkpoint whose recovery throws | `parked` |
| `inputQueue`, the drain and turn machines | `queue`, `drain` |
| `durableInputRecovery`, the shared flight | `rcv`, `flight` |
| terminal machine, the teardown of `killAgentThread` | `term`, `kill` |
| admission line, live inputs, drain ownership and last owner | `calls`, `live`, `own`, `last` |
| not in the code: handles made stale by a drain that threw | `unseen` |

A send goes through `Send`, `BeginCall`, `AdmitChecks`, `Admit`, `Push`, one step per await, in the order of
the process's line; `HandOff` is the admission of a resumed run. A drain goes through `DrainOwn`,
`DrainRecover`, `DrainReady`, then `DrainLoop` and `ClaimNext` for each input, a turn (`StartTurn`,
`CommitInput`, `SettleTurn`, `SettleFailed`), and `DrainExit`, `DrainSettled`. The store may fail a drain at
its refresh, its next claim or the cancellation of a dropped item (`DrainThrows`), at the start of a turn, at
the commit of its input or in its body, which also stands for the model and the tools (`TurnFails`), and at
the terminal transaction of a failed turn (`SettleRefused`). A drain that throws keeps its queue, ends the
turns of the sends that wait for its promise (`drain[h].joined`), and is not remembered as the last owner
(`last`). A kill is `Kill`, `KillFirst`, `KillAdmissions`, `KillSecond`, and `KillReopens` after a failure.
What a turn does between the commit of its input and its end (`body`) is left to `DurableTurn`; what becomes
of the run of an input already committed is left to `TurnLease`.

Left out: steering and the claims at step boundaries, the reuse of a message id (ids are fresh
UUIDs), queued continuations and notifications, two processes alive on one store, `delete` and `dispose`
(notifications have a module of their own, with a thread that holds no durable input). The cancellations of
a parked queue, and the claim and release within `HandOff`, are one step each.

Of the failures of the store: it answers for what it did, so a failed call changes nothing. A claim or a
release that fails after it took effect would leave a record claimed that no drain works on, until the claims
are recovered; the inputs after it would be committed first, against `AdmissionOrder` and
`packages/runtime/README.md:1099`. Failures of the load, the recovery of claims, the admission, the release of
a claim and the cancellations of a parked queue are not modelled. A restart after another handle let an input
go drains again each time it throws; the code gives up after three times and cancels what is queued
(`thread/handle/agent-thread-drain.ts:144`), which the bound on failures does not reach. `Resume` waits until
no cancellation that a kill sent off while the run's owner lived is still under way: a lease lasts longer than
a transaction.

### `Notifications`
One thread in one Celld object at a time. A run's id is the dispatch that made it up, and the
id of its lease the attempt.

| code | model |
| --- | --- |
| run records, notification records | `run`, `note` (the run each key's record names) |
| rows of kinds thread prompt and backstop, with their claim token | `row["prompt"]`, `row["check"]` |
| a dispatch's place and answer | `call` |
| `drainCelldScheduledWork`: up to the turn, and from its events on | `pass`, `duty` |
| `inputQueue`, the drain machine, those who wait for its promise | `queue`, `drain` |
| `dispatchAgentNotification` | `Dispatch`, then `Create`, or `Deduplicate` and `LookUpAgain`, or `Wake`; `DispatchFails` |
| `claimScheduledWorkLease`, `runTurnBackstop`, `resumeAgentTurn` | `TakeRow`, `Inspect`, `ReadRun`, `ClaimRun`, `Notify` |
| no turn, acknowledgement, retry, an error of the pass | `NoTurn`, `FinishPass`, `FinishDuty`, `NotifyFails`, `PassFails` |
| the drain loop and a turn | `DrainLoop`, `StartTurn`, `StartRefused`, `StartFails`, `CommitInput`, `SettleTurn`, `SettleFails` |
| `parkQueuedInputs` | `UserBlocked`, `ParkNext`, `Parked` |

Time is not kept: a row's claim and a lease that no turn renews may be found lapsed by whoever reads them, at any moment.
A turn that runs renews its lease, which then does not lapse (that this works is the
subject of `TurnLease`). An attempt that is one too many parks the run (`ClaimRun`).

What follows from the code and is a matter of timing, not of these properties: a notification
resumed while the thread is busy waits in the queue under a lease that nobody renews; after 300 s another pass claims
the run and queues it again, the older item is refused when its turn comes, and every round spends
an attempt, so that a run may be parked as `needs-recovery` before it was ever started. `NotificationsEnd`
counts a parked run as settled.

Left out: notifications that join a turn or are deferred (`notify` without a run of its own),
attachments and overlays, the retry authority a caller may pass, the run rows of the scheduler, the
arming of the alarm (see fairness), hosts other than Celld, the moment between the commit of a start and
`holdRunningLease` (one step, `StartTurn`), an acknowledgement that fails after a turn ended and an `onEvent` of the
caller that throws before it did (both leave the row to a later pass, beyond `FinishDuty`), and a turn's tools and superseding, which
are `DurableTurn` and `TurnLease`.

### `FileLock` and `FileStore`
Each call of the filesystem is one step, and a process may die between any two. An owner is a process
and its incarnation, which stands for a pid that is not used again. `at` is where a call is in `withProcessFileLock`:

| code | model |
| --- | --- |
| `lockIsOwned(reapingFile)`, before and after publishing | `Look`, `Confirm` |
| `publishOwner` | `Publish`, `Mark` |
| `reclaimDeadOwner` | `Observe`, `Mark`, `Verify`, `Reap` |
| `releaseProcessFileLock`: read and compare, then remove | `CheckOwner`, `RemoveFile` |
| `#commitGeneration` | `Stage`, `Resolve`, `Link`, `WriteLog`, `WriteDocument`, `Switch`, `Prune`, or `Throw` and `Undo` |
| a single write or read | `Resolve`, then `WriteLog`, `WriteDocument` or `ReadLog`, `ReadDocument` |

A generation has a log, whose inode (`gen[g].log`, named by the call that created it) may be linked
from several generations, and a document, which is always replaced; contents are sets of calls.
A log also has an end (`LogFile`): `appendJsonLine` appends in place when no other generation links the file, in more
than one write if the line is long, so an append that fails or whose process dies may leave a part of its line
(`AppendPart`, in `FailSingle`; a process that dies inside its line is one that stops there and dies before it lets the lock
go). The next line runs into that part, and every later read of the log throws. If only the newline is missing, the
log can be read until the next append.
`StoreRegister` is the promise: a call takes effect at once or not at all, before it is answered and
while its process lives, nothing is lost, and a read sees one moment. Its exception is `Stop`: an append that stops
inside its line leaves a log that cannot be read, at once or after the next append, but is never
read as less than was written. `FileStore` implements it with
`value <- Value`, what the pointer leads to, and `request <- call`.

`stale` remembers that a marker was removed that is not the one its remover had checked. From then
on two calls may hold the lock (`FileLockRaces`), so `FileStore` stops there; up to there the
exclusion, the refinement and the theorems hold.

Left out: loss of power (whether data is flushed; a failing flush after the rename is there), reuse
of pids, the migration of old scheduled work, several calls of one process at a time, and errors of the filesystem while
the lock is taken. Also left out is `fileThreadStorageHint` (`platform/file/storage/file-thread-inspection.ts:63`), which resolves the
pointer without the lock and, like every first caller, writes it when there is none: a hint that found no pointer
and is overtaken by the first transaction of the store names the first generation again, and the transaction is lost, although the
comment at `platform/file/storage/file-execution-store.ts:100` says that every reader and writer resolves the pointer under the lock.
`inspectFileThread` only asks for the hint after a load under the lock, which has named the pointer.

## 3. What the runs check

| run | instance | properties |
| --- | --- | --- |
| `TurnLeaseFence` | 2 processes, a task in each, late backstops, 1 fault, 2 writes | `TypeOK`, `WritesFollowLeases`, `OneAuthority`, `TakeoverSpendsAttempt`, `ImplementsAuthority` |
| `TurnLeaseRenewal` | 2 processes, clocks 1 apart, lease 6, renewal every 2, late backstops | `RenewedNeverTaken` |
| `TurnLeaseLateBackstop` | 2 processes, fair heartbeats, late backstops | `SupersededTurnStops`, violated |
| `TurnBackstopRuns` | a user and a drain in one object, failing starts, 3 attempts, 1 fault, fair | `BackstopTypeOK`, `RunningHasCheck`, `OnlyLostChecksStrand`, `TakenOnlyWhenLapsed`, `SettledForever`, `SupersededTurnStops` |
| `TurnBackstopFailedStart` | the same with a longer lease and 2 faults | `CrashedTurnResumes`, violated |
| `DurableTurnRuns` | 3 owners, 2 requests that call 2 tools, 1 fault, 6 units of work | `TypeOK`, `CallsCommittedOnce`, `EffectsKnownToModel`, `EvidenceSuffices`, `EffectsAtMostOnce`, `AttemptsDiffer`, `SavedOutcomeStays`, `OwnerNeverReruns` |
| `DurableTurnLostAnswer` | 2 owners, 1 request, failures after the effect | `SavedOutcomeStays`, violated |
| `ThreadInputDrains` | 2 handles, 3 sends, at most 4 events: sends, 2 failures, and one each of crash, kill, interrupt, resumption; fair | `TypeOK`, `InputsSettleOnce`, `AdmissionOrder`, `CommitsAreFresh`, `KillEndsCallers`, `AcceptedCallsEnd` |
| `ThreadInputInterrupted` | the same with 2 sends, interrupts of starts, fair | `EveryCallEnds`, violated |
| `NotificationsRuns` | 2 dispatches of one key, 2 attempts, 1 event: a turn of a user, a crash or a failure; fair | `NotificationsTypeOK`, `AnswersNameTheRun`, `QueuedRunsAreWoken`, `RepeatedOnlyWhenLost`, `RowsOutliveRuns`, `NotificationsEnd` |
| `FileStoreRuns` | 2 processes, each dies once, 3 calls of any kind, fair | `StoreTypeOK`, `HoldersExclude`, `PointerNamesGeneration`, `CallsEnd`, `ImplementsRegister` |
| `FileLockRaces` | 2 processes, each dies once | `OneHolder`, violated |

**Bounds.** Every hazard of the lease protocol is between an owner and its successor, and a task returns to
idle after each turn, so two tasks give successors of successors. A fault is a crash, a store failure, a
handed back claim or an operator's decision; TLC spends the one fault at every place it can happen, and lapses
and slow tasks cost none, so a run covers one failure anywhere under concurrency. `TurnBackstopFailedStart`
takes two, a crash and a failure in the pass that follows; with two, `OnlyLostChecksStrand` holds as well
(397,929 states), and its exception is needed. With one it is not. Two attempts are enough to spend the last
one. Two logged writes are enough to be out of order. The renewal run needs a lease of 6 to keep the ratio of
lease and renewal (3) under a skew of 1. Two rounds of two calls let an id recur beside another call; three
owners let a recovery be recovered. `MaxWork` counts an owner or a fault once and a request twice, so that a
behaviour has three owners of one round and a fault, or two owners of two rounds. Two handles are enough for
every hazard of `ThreadInput`, which are between a drain and one other actor; three sends let one input run,
one wait behind it and one arrive; the bound on events keeps the liveness check short (with 5 events the
invariants hold, 2,264,685 states); two failures let the drain of one handle throw and a turn of the other
fail. Three calls of the store let a transaction meet a call before and one after it, or two calls at the
removal of a dead owner's files, or an append run into one that stopped. In `NotificationsRuns` the event
comes at any step of any actor (the failure that blocks a user's turn comes with the turn), and a failed
dispatch may be repeated; a user's turn beside a crash or a failure was checked once (1,044,056 states); two
dispatches are enough, as the later ones of a key find what the first two left. `Drainer` has one member: one
pass at a time stands between the claim of a row and the queueing of its turn, but the duties of earlier
passes go on beside it, so a row is taken again under a turn that waits or runs. With two such passes, one of
which stalls there for longer than the row's claim (120 s) and the turn's lease (300 s) together,
`RowsOutliveRuns` and `NotificationsEnd` do not hold in the model: the superseded pass acknowledges the row of
a run whose live item stays in the queue behind it after its own start was refused
(`thread/handle/thread-drain.ts:85`). Deadlock is not checked because a settled run may have nothing left to
do.

**Symmetry** swaps processes with their tasks, tasks of a process, or call ids; all appear alike in
the modules, and no run with fairness uses it.

**Fairness.** `HeartbeatFairness`: time passes, a due renewal is sent, its answer is applied, and a turn told
of its loss abandons. These are timers and promise callbacks of the event loop. `BackstopFairness`: time
passes, drain passes run (the alarm of a Durable Object is retried by the platform), a turn under way takes
its next internal step up to running, and a settlement that began goes on. Nothing is fair about users, other
claims, crashes, the model or the tools: in particular a running turn may run for ever, so
`OnlyLostChecksStrand` and `CrashedTurnResumes` ask that the run is running again or settled, not that it
ends. `ThreadInput.Fairness`: the process takes some step of its own while it has one; its loads, transactions
and promises complete, and the body of a turn ends. A single weak fairness is enough there, as every behaviour
of these steps is finite. `Notifications.Fairness`: passes and the thread go on (weak); a due row is taken by
some pass and a lapsed lease is found lapsed by a pass that keeps coming (strong: the alarm is armed for the
earliest row in the transaction that writes it, and a lease that nobody renews runs out). Nothing is fair
about calls, sends and faults. `FileStore`: each process goes on with its call unless it dies; giving up after
the timeout is not required, so `CallsEnd` is not the timeout's doing. The calls are bounded, so contention
for the lock ends: `CallsEnd` says that no dead owner or reaper blocks it, and nothing about starvation among
calls that never cease to come, which only the timeout bounds.

## 4. What the properties say

- `WritesFollowLeases`, `OneAuthority`, `ImplementsAuthority`: the fence. However late a write
  arrives, no owner writes after a later owner has.
- `TakeoverSpendsAttempt`: the attempt limit counts takeovers although claims carry an attempt
  computed from a stale record (`resolveTurnClaim` takes the larger of both).
- `TakenOnlyWhenLapsed`: the shortcut for abandoned leases never hits a turn that is alive; here
  the order of `CheckDrain`, the read of the record and the release of held leases matters.
- `SettledForever`: second settlements, of a turn whose settlement failed after it took effect, and later starts leave a
  settled run alone. An undone start is in `ImplementsAuthority`, which late backstops exercise.
- `RenewedNeverTaken`: with a lease of three renewals, clocks may differ by a step.
- `SupersededTurnStops`: losing the run leads to stopping.
- `RunningHasCheck`, `OnlyLostChecksStrand`: the check outlives claims, crashes and late passes; a
  crashed turn is resumed unless its check was dropped after a start that failed
  (`CrashedTurnResumes`, without that exception, holds when starts do not fail).
- `EffectsAtMostOnce`, `AttemptsDiffer`, `OwnerNeverReruns`: retry policies.
- `SavedOutcomeStays`, `CallsCommittedOnce`, `EvidenceSuffices`, `EffectsKnownToModel`: outcomes.
- `InputsSettleOnce`, `AdmissionOrder`: committed once and in order through crashes, recoveries of
  claims and handles that alternate.
- `CommitsAreFresh`: the refresh after another handle completed a drain keeps handles that alternate on one history. It
  does not cover a drain that commits and then throws: the code remembers completed drains only
  (`thread/handle/thread-drain-coordinator.ts:123`, against line 15, which speaks of work that another owner completed), so the handle
  that drained before goes on with the history it had, and its next commit conflicts, which fails that turn. `unseen` holds the
  handles to which this happened, until they reload; without that exception TLC finds the property violated.
- `KillEndsCallers`: `kill()` waits for the admissions under way.
- `AcceptedCallsEnd`: no wakeup is lost. `Wedged` names the ways a queue gets stuck that it leaves
  out: a pending input whose run cannot start (the finding below, or a run leased to an owner that
  is gone and not yet resumed, so nothing is said of behaviours in which a crash strands a run), a pending input registered
  live that nobody holds any more, a handle that a failed kill opened again, and one whose drain broke off at a failure of the store and
  left its queue to the next send.
- `AnswersNameTheRun`, `QueuedRunsAreWoken`: what the transaction of a dispatch must check and write
  for dispatches that race, fail and are repeated.
- `RowsOutliveRuns`, `NotificationsEnd`: rows are passed from claim to claim and from the prompt to the check, so
  that something wakes the run until it is settled. A store that fails at the start drops
  the row of a turn that never started (finding 2, here for notifications too); both leave that out by asking
  that no store call failed (`RowsOutliveRuns`), or that a row is left (`NotificationsEnd`).
- `RepeatedOnlyWhenLost`: a run queued twice by two claims commits its input once.
- `HoldersExclude`, `PointerNamesGeneration`, `ImplementsRegister`, `CallsEnd`: the lock, the pointer,
  what readers see, and that no dead owner or reaper blocks the store.

## 5. Where the code and its documentation differ

1. `TurnLeaseLateBackstop`. `forwardTurnOwnershipLoss` (`thread/runtime/turn-ownership.ts:133`)
   listens for an abort that may have happened before. On a host that schedules the check after the
   start, the heartbeat runs during that call; a renewal refused meanwhile is never noticed, the
   heartbeat has stopped, and the superseded turn runs on until its next write is refused.
   `packages/runtime/README.md:1572` says it stops at once.
2. `TurnBackstopFailedStart`. `drainCelldBackstops` acknowledges the row after the events of the
   resumed turn end, also when that turn never started because its start transaction failed. The run stays
   leased without a check. `packages/runtime/README.md:1580` says a crashed turn resumes without
   `thread.continue()`; the comment in the drain names the acknowledgement of a turn that never
   started, so this may be a choice.
3. `DurableTurnLostAnswer`. A checkpoint append that fails after it took effect leaves the saved
   outcome in the store only; the next append of a parallel call replaces the checkpoint by one
   without it. `docs/rfc/0006-durable-recovery-v4.md:173` says that a saved result is never rerun or
   replaced. `DurableTurnRuns` takes failures before the effect.
4. `ThreadInputInterrupted`. An interrupt during the start transaction cancels the run and gives the
   input back (`thread/runtime/queued-input-processor.ts:109` and its finally clause). The input is
   then the first to be claimed and its run never starts (`thread/runtime/execution.ts:327`,
   `thread/handle/thread-drain.ts:85`): later calls of the thread do not end.
   `packages/runtime/README.md:1099` promises every accepted call a terminal event.
5. `FileLockRaces`. `releaseProcessFileLock` (`platform/file/storage/file-lock.ts:141`) removes by
   path what it compared before. Two callers that clear the marker of the same dead reaper can end with
   the lock of a live owner removed, against the comment at line 18.

## 6. What is proved

The lease, with the assumptions `ConstantsOK` only, but for `RenewedStays` (any set of processes and tasks, any clocks,
leases, bounds of faults and writes):

- `TypeCorrect`: `Spec => []TypeOK`.
- `FenceInvariant`: `Spec => []FenceInv`. `FenceInv` is `TypeOK` with: every held lease was issued;
  a working task holds a lease; no two tasks hold the same one; a settling task has an outcome.
  `OneAuthority` alone is not inductive: a step may make a second task hold the run only by giving it the
  lease of the first, which only `HeldApart` excludes, and that needs `HeldIssued` for the step that issues a
  fresh lease.
- `OneAuthorityAlways` from `FenceInv`: two tasks that pass the fence hold the lease of the record.
- `Refinement`: each action of `TurnLease` is a step of `TurnAuthority` or a stutter, by one lemma per
  kind of store operation (claim, swap of status, start, write, settle).
- `TokensWriteInOrder` (in `TurnAuthorityProofs`): the register's writes are in order, by the
  invariant that every written token is at most the owner's or, when unowned, the last issued.
- `OwnersWriteInOrder`: `WritesFollowLeases` for `TurnLease`, from the refinement and the register.
- `SettledRunsStay` and `TakeoversSpendAttempts`: the action properties.
- `LostOnlyWhenLapsed`: `TakenOnlyWhenLapsed`, from `ClaimsInv`. A claim is made from a record that may be old, and
  may name a lease it takes for abandoned, so the invariant has to speak of what a claim remembers. `RunHeld`: a carried
  lease that the record names belongs to the living owner it says, and its turn is at work if the run is running. `SeenHeld`:
  the same of the record a claim was made from, and once the claim has found the drain of its process free, no turn of
  that process runs under it. `GoneUnheld`: a lease taken for abandoned is carried by nobody. `IdsIssued`: ids only come
  from the counter, so a remembered id is never issued again.
- `RenewedStays`: `RenewedNeverTaken`, for constants that are `Timely`: renewals are never late (`Prompt`), and the lease outlasts
  one renewal, one more for each allowed fault, and the difference between any two clocks. `TURN_LEASE_RENEW_MS` is a third of
  `TURN_LEASE_MS`, so this allows one fault and clocks less than a third of the lease apart, as in `TurnLeaseRenewal`; the bound
  counts every fault though only failed renewals in a row matter. `RenewInv` says that a heartbeat is that of a turn at work whose
  lease its process holds, and that while the run is under that lease, what is left of it is ahead of the next renewal by the
  renewals that may still fail. So no process finds it expired (`NeverExpired`), and `StepTaken` leaves no other way to lose it.

Turn backstops, with `BackstopConstantsOK` beside `ConstantsOK` (any set of drains, any delays, claim times and margins):

- `BackstopInvariant` (in `TurnBackstopProofs`): `BSpec => []BackstopInv`. Each step is a step of `TurnLease`, or
  leaves the turn alone but for a counted fault (`LeaseSteps`), so `FenceInv` carries over. A pass drops a row long after it
  read the run, and a start may have replaced the row since; `DropsSettled` says that as long as the row is still
  the one a pass claimed, and the pass is past the read that lets it drop it or holds a claim of the run, the run is not
  running. It needs `ClaimsResume`: a pass holds a claim only while it resumes.
- `RunningChecked`: `RunningHasCheck` from it. `BackstopTypes`: a check is never due before now, as the retry of a live
  owner's run is only computed from a lease that is not over by the same clock (`LiveRetryLater`).
- `BackstopsKeepAuthority`: `OneAuthority` with passes beside users; `BackstopsTakeLapsed`: `TakenOnlyWhenLapsed` likewise, as a fault
  leaves what turns and claims remember alone.

Durable tool calls, with `DurableConstantsOK` (any finite set of call ids, any number of owners, requests,
store failures and operator decisions; answers of the store may be lost except where said):

- `TypeCorrect` (in `DurableTurnProofs`): `Spec => []TypeOK`, with `BasesFit`: a turn that ends in error can
  roll the thread back to where it began.
- `OwnerInvariant` (in `DurableOwnerProofs`): `Spec => []FullInv`. None of the properties is inductive, as a
  recovery relies on what an earlier attempt, perhaps dead, left in the store. `FullInv` has three parts on top of the types.
  `CallsInv`, of every attempt, superseded ones included: its memory and every journal name a call once, as
  unfinished or as finished (`WellFormed`), intents agree with the calls they are for, and a
  repetition of a call whose policy is strict was decided on by an operator (`CallOK`).
  `Checkpointed`, of the store: each call that was started, or is free to start, is in the journal or the history
  (`Covers`), unfinished calls are in no history, and the count kept with a result (`prior`) tells
  exactly whether it is committed (`ResultsOK`; ids recur, so this rests on results being saved with the
  history they were counted in). `Owner`, of the attempt that holds the run: its history
  is the committed one, and its journal has what the checkpoint has, but for a write that failed (`TakenOver`).
  `OneStarter` says that two attempts never start the same use of a call with the same attempt number: the
  owner of the run is the only one that records a start, and a superseded attempt only runs what it recorded before.
- `CommittedOnce`, `EffectsKnown`, `EvidenceIsEnough`, `AttemptsAreDistinct`, `OwnerRunsNoneAgain`: the
  properties of `DurableTurnRuns`, from that invariant.
- `EffectsBounded`: distinct runs of a call have distinct attempt numbers, and each number above one is
  named by a decision to rerun, so an injection bounds the runs by one and the decisions.
- `SavedStays`: assumes `~LostAnswers`. With lost answers it is false, as `DurableTurnLostAnswer` shows; everything else
  here holds with them.

The inputs of a thread, with `InputConstantsOK` (any finite set of handles, any number of sends, kills, interrupts,
crashes, failures and resumed runs):

- `InvariantHolds` (in `ThreadInputProofs`): `Spec => []Inv`. An input passes through a call, a queue, a drain
  and a record that change at different steps, so each property needs to know where else the message may be.
  Of the sixteen conjuncts, besides the types (`Shapes`):
  - who acts: only the owner of the thread is past its wait (`Owned`), a queue, a blocked message or a call past its first step
    belongs to a handle that has loaded (`Loaded`), and a history that a drain which did not throw made stale is reloaded before the owner
    gets past its recovery (`Stale`);
  - where a message is: one call at a time is past its beginning (`Lined`), sequence numbers
    are dense and the sends under way still fit (`Counted`), a message is in one queue once and none that is still to be
    pushed is in one (`Queued`), an input of a kill's snapshot, a drain or a resumed run is not at the same time live elsewhere
    (`Apart`), and an open turn is queued at its handle or is the one its drain works on (`Open`);
  - what a record says: a run exists with it (`Run`), a claim is held by the drain that works on it, or by nobody
    in this process, before recovery (`Claimed`), and all before a committed or claimed input are acknowledged (`Ordered`);
  - what survives an await: the head a drain chose is still first in its queue unless a kill took the queue (`Headed`), and
    each phase of a kill says which callers are told and what is left (`Torn`).
  `InputsSettleOnce` and `AdmissionOrder` are conjuncts themselves.
- `InputsSettle`: a commit finds the message in no history as its claim is not acknowledged, and a
  recovery gives back only claims of which `Claimed` says that no drain works on them.
- `AdmittedInOrder`: from `Ordered`; a claim takes the first pending record, and `Claimed` says that none
  before it is still claimed by somebody, so all before it are acknowledged.
- `FreshCommits`, with the exception of `unseen`: from `Stale` and `Owned`; `KillEnds`: from the last lines of `Torn`, which `Open` makes inductive.

The file store, with `LockConstantsOK` and `StoreConstantsOK` (any set of processes, any number of
crashes and calls; `Nothing`, the view of a call that has read nothing yet, is no view of the files):

- `LockExcludes`: `LockSpec => []HoldersExclude`. Exclusion depends on what each place of a call has
  learnt. `LockInv` says: files name owners of the past or present (`FilesPast`); the owner a call remembers is dead or itself
  (`Remembers`); and as long as no marker was removed unchecked, a caller between `Publish` and its release
  owns the lock file and a reaper owns the marker (`Owns`). The last needs the
  others: a removal spares a live file because it remembers a dead owner, and an owner that died stays dead.
- `StoreExcludes`: the same for `FileStore`, whose steps are steps of the lock or leave it alone.
- `StoreTyped`, `PointerNeverDangles`: from `StoreInv`, which adds to `LockInv` that a call works only while it holds the
  lock (`Waits`) and that the pointer and the directory a call works in exist (`WorksIn`). A sweep or an
  undo could remove the directory of another call but for `HoldersExclude`.
- `StoreIsRegister`: `Spec => ImplementsRegister`. `RegInv` says what a call may count on between its steps: a
  transaction that has not linked left no trace (`Fresh`), so that its copy is its own; from then on it works on the current
  value plus what it wrote, in a generation and a log that nothing else links (`Private`), which is why the switch publishes
  its writes and nothing more; a read and a single write use the current generation (`Current`); and a call about to be
  answered with success has taken effect (`Effective`). An append that stops inside its line is a `Stop` of the register. Logs are shared by hard links, and an append in place is seen
  through all of them: `AppendIs` says that a line reaches no other generation, as the file is copied unless it has one
  link (`OneLink`), and `KeepIs` that a sweep or an undo takes nothing the pointer leads to. Calls that wait for
  the lock are disturbed by none of this (`HolderSound`).

Notifications, with `NotificationConstantsOK` (any finite sets of dispatches and passes, any number of attempts, crashes and
failures; two and more passes at a time included):

- `DispatchInvariant`: `Spec => []DispatchInv`. A run that exists is the one its key's notification names
  (`Named`), and a dispatch that answers has found a run of its key (`Answered`): the check in the
  transaction keeps these apart from every other dispatch. That prompts stay is not inductive by itself, as a pass
  acknowledges a row long after it read the run; `PromptsSpent` says that a pass which may acknowledge a
  prompt, or waits for a turn, does so for a run that is no longer queued, and no step queues a run again.
- `AnswersAgree`, `QueuedWoken`: the two properties from it.
- `TurnInvariant`: `Spec => []TurnInv`, on top of `DispatchInv`. It says which leases are of the living object. Whatever
  a queue item or a pass carries, the run is this object's if it is still under that lease (`OursIfTaken`); a run that a
  pass read before its claim had no later lease, nor the same one under another owner (`SeenOK`). So a claim cannot take
  the run of a turn under way for abandoned (`HeldIsKept`), however old its read: `HeldRuns` is kept. `CommitsBound` counts
  the commit of a turn under way, or of a settled run, apart from the ones that crashes and failures account for, and
  rests on `HeldRuns`, as a second turn of the run could otherwise commit beside the first.
- `TurnsKeepRuns`: `NotificationsTypeOK`. Row claims are fresh as there are finitely many tokens (`TokensAreFinite`).
- `RepeatsAreLosses`: `RepeatedOnlyWhenLost`.

Only model-checked: the liveness of `TurnBackstop`, `RowsOutliveRuns` (which overlapping passes break, section
3) and `NotificationsEnd` of `Notifications`, `AcceptedCallsEnd` of `ThreadInput`, `CallsEnd` of `FileStore`.
Liveness is out of the prover's reach, as is ENABLED and induction over data.

## 7. Plan

In order of importance; each with its own module, instance and proofs where marked (P).

1. Notifications that join a turn, beside durable inputs of the same thread: `Notifications` and `ThreadInput` over one queue.
2. Steering and step boundaries in `ThreadInput`; two processes on one store.
3. `ScheduledWork`: run rows and the single alarm, the Cloudflare host; `SqlQueue`: leases and acks.
4. `ModelRetry`, `AutoCompaction`, `TurnEvents`.
5. Session index and update lock of the coding agent; delivery of the worker agent.

Proofs to add: those of the modules above. Of the present safety properties, only `RowsOutliveRuns` has no theorem.

## 8. Not modelled

What a model would add nothing to: row encodings, schemas, cursors and payload chunks of the stores;
rendering, terminal UI, prompts and tools of the coding agent; Telegram and RPC framing; telemetry;
`packages/kernel`, `extensions/`, `packages/contracts`, evals, examples and benchmarks: data and
plain I/O without shared state of the runtime. These are most of the repository's lines.

What is left for later is in the plan: the rest of scheduled work, the SQL queue, retries of a model request,
compaction, and the session index and deliveries of the two apps.
