# Calligraphy: a TLA+ model of the job platform

Calligraphy runs background jobs. **Redis Streams move the work, Postgres
records the truth**, and no transaction spans the two, so every interesting
question is about the windows between a round trip to one and a round trip to
the other: what happens when a process dies, stalls or is overtaken there. This
directory models those windows and model-checks them with TLC on small instances.
Around that core it models how outcomes are batched into Postgres, how a worker fetches
and drains, how operators reach workers, and how API replicas boot, elect a leader
and accept submissions. The safety properties of all of these are proved with TLAPS for
every instance. The one that the code does not keep in general, `NoStrandedJob`, is proved
until something fails, and through crashes and failed statements under conditions that four
violated runs and one trace show to be needed.

## The system

| component | code | state it keeps | operations |
|---|---|---|---|
| state machine | `internal/job` | none: the status vocabulary and the transition table | `CanTransition` |
| job store | `internal/store/store.go` | the `jobs` table: status, lease epoch and expiry, attempt count, Redis receipt; attempt and event logs | one conditional `UPDATE` per operation |
| batcher | `internal/store/batch.go` | outcomes waiting to be written, their waiters | submit, flush, stop |
| transport | `internal/queue/queue.go` | three priority streams with one consumer group, its pending entries list (PEL), a delayed set per priority, cancel flags, the leader key | enqueue, fetch, ack, heartbeat, promote (Lua), autoclaim |
| runner | `internal/worker/runner.go` | one delivery and one claim per slot | claim, execute under heartbeats, record, hand off, ack |
| pool, worker | `internal/worker/pool.go`, `worker.go` | slots, target size, paused, draining | batch fetch, resize, pause, drain |
| recovery leader | `internal/recovery/recovery.go` | the batch a duty works on, whether it leads | promote, reap, sweep, two repairs; acquire, renew, release |
| migrations | `internal/store/migrate.go` | the schema, the recorded versions, an advisory lock | one transaction at boot |
| API | `internal/api/server.go` | requests in progress | submit, cancel, requeue, reads, control |
| control plane | `internal/control` | sessions of connected workers | register, command, reconnect |
| autoscaler | `internal/scale/autoscaler.go` | idle ticks; shares the pool's target with the operator | decide, set |
| pure parts | `internal/retry`, `internal/config` | none | backoff, validation |

Jobs travel through the two stores only; the control plane's gRPC streams carry
commands and never work. A submission inserts the row, adds
the envelope to Redis and writes the receipt. A runner reads the entry (it is now
in the PEL), *claims* the job with an `UPDATE` that bumps `lease_epoch`, and
presents that epoch with everything it writes from then on. It records the
outcome first and acks second; a retry is recorded, handed to the delayed set,
and acked. The recovery leader, any API replica holding a Redis key, repairs
what is left between the stores: it promotes delayed envelopes and then flips
their rows, takes over PEL entries that went idle, sweeps rows whose lease
expired, and re-enqueues rows that Redis never heard of.

What is hard here: deliveries are at-least-once and may be stale; a worker can
lose its lease without noticing; every duty reads a batch and acts on it later;
two replicas may both believe they lead; each of the statements, commands and
processes can fail alone. `PROJECT.json` lists these hazards at their lines.

What makes each part correct:
* store: outcomes exclude each other, a fenced claim stays fenced, the retry
  budget is exact, rows follow the transition table, and a RUNNING row is always
  within a reaper's reach;
* runner: an outcome is durable before its delivery disappears;
* recovery, API and transport together: no job is ever where nothing will find
  it, each settles in the end, and Redis empties;
* batcher: a call that returns without an error is durable, and a queued outcome
  is flushed; the attempt history agrees with the jobs table;
* worker: it is handed a bounded number of deliveries, a drain ends, and a clean
  one leaves nothing running;
* control plane: the hub knows the session that serves, and the worker gets back
  to it after any loss;
* API replicas: the schema is complete before anyone uses it, one idempotency key
  is one job, a release never takes another's leader key, and an accepted job reaches
  Redis whoever leads.

## Modules

* **`JobStatus`**: statuses, the terminal set, the transition table.
* **`JobLifecycle`**: the abstract specification. A job appears as PENDING and
  only ever follows an edge of the table. The code keeps the table beside the
  store but never consults it when writing, so this is a claim to be shown.
* **`JobStore`**: the `jobs` table (`row`) and the `store.Claim` each runner has
  in memory (`claim`). One action per SQL statement; its guard is the `WHERE`
  clause. Anyone may issue any statement at any time. Columns no `WHERE` clause
  reads (payload, result, error, timestamps other than the lease) are left out.
* **`Dispatch`**: transport, runners, leaders and HTTP requests around an
  `INSTANCE` of `JobStore`. One step is one round trip; a process may die before
  each. `entry` says where each envelope is (`delayed`, `ready`, `pel`), `flag`
  is the cancel flag, and `runner`, `leader` and `call` are the program counters with the
  local data each process carries from one round trip to the next.
* **`Recorder`**: `batch.go` around another `INSTANCE` of `JobStore`, with the
  `job_attempts` table (`history`). `in`, `pending` and `loop` are the Batcher's channel
  and goroutine; `call` is each runner's call of a Recorder. A deployment says
  which runners share a process with a Batcher; the others use the `SyncRecorder`.
  The table's other writers (claims, heartbeats, reaps, cancels, requeues, receipts) are
  its environment.
* **`Worker`**: `Pool.Run`, `queue.Fetch` one Redis command at a time, and `Worker.Run`
  with heartbeats and drain. Deliveries are counted, not told apart: what each goes
  through is `Dispatch`.
* **`Autoscaler`**: `Next` and the two halves of the loop around it.
* **`Control`**: the hub, one worker's client, the operator, and an `INSTANCE` of
  `Autoscaler`, the other hand on the pool's target.
* **`Migrate`**, **`Leadership`**, **`Submission`**: the three protocols API replicas
  run among themselves, each over its own variables.
* **`Api`**: `calligraphy-api` composes them: boot through `Migrate`, serve
  `Submission`, contend in `Leadership`, sweep while leading, shut down or die. It uses
  the steps of the three as they stand and adds which may happen in which phase.
* **`JobStoreProofs`**, **`DispatchProofs`**, **`RecorderProofs`**, **`WorkerProofs`**,
  **`ControlProofs`**, **`ApiProofs`**: the inductive invariants, lemmas and theorems.
* **`StrandedProofs`**: more about `Dispatch`, namely when no job is stranded.
* **`MC...`**: values and symmetry sets for TLC.

Definitions whose comment begins with *Variant* are deliberately wrong versions
of the definition that follows them, each a plausible slip in that code; with
one in place of the original TLC finds the corresponding property violated.
They are not part of any specification.

| code | model |
|---|---|
| `Runner.Run` to the claim | `Fetch`, `Claim` (won, lost, store unreachable) |
| `heartbeat` | `ExtendLease`, `SeeCancelFlag`; the Redis half is the constant `Prompt` |
| `finish` | `Finish` (recorded, fenced, recorded but told `applied = false`, reaped mid-run, not durable), `Handoff`, `Ack` |
| `ClassifyError` | `Outcome`: success completes whatever the cause; otherwise the cause decides, and without one the handler's error (which may be `ErrCancelRequested` itself) and the budget do |
| `promote` | `PromoteDue` (atomic script), `MarkPromoted` |
| `reapAbandoned`, `reapOne`, `ackUnreaped` | `ReapAbandoned`, `ReapOne`, `ReapHandoff`, `Classify`, `Reenqueue`, `ReapAck` |
| `sweepStaleRunning` | `ListExpiredRunning`, `SweepOne`, `SweepHandoff` |
| `repairUnenqueued`, `repairStuckRetrying` | `ListUnenqueued` / `ListStuckRetrying`, `RepairEnqueue`, `OrphanMark` / `StuckMark` |
| `handleSubmit`, `handleRequeueDLQ` | `Submit` / `Requeue`, `CallEnqueue`, `CallEnqueueFails`, `CallReceipt` |
| `handleCancel` | `CancelLoad`, `CancelWaiting`, `RaiseFlag` |
| `Batcher.submit`, `loop` | `Submit`, `GiveUp`; `Receive`, `Tick`, `Drain`, `Stop` |
| `flush`, `flushOnce` | `FlushOnce`, `FlushFails` (rolled back, or committed and not confirmed), over `Matched`, `WriteRows`, `WriteHistory`, `Applied`, `Resolve` |
| `SyncRecorder` | `SyncWrite`, `SyncRecord` |
| `Pool.Run` | `LoopTop`, `Spawn`, `FinishOne`, `PoolReturns` |
| `Fetch`, `appendDeliveries` | `FetchPass` per stream, `FetchBlock` over all, `FetchFails`, `Poison` |
| `Worker.Run` | `BeginDrain`, `PoolDone`, `DrainTimeout`, `StopHeartbeat`, `Exit`, `Heartbeat` |
| `WorkerStream`, `register`, `unregister`, `send` | `Register`, `HelloLost`, `SendCommand`, `EndSession`, `Unregister`; `Lookup`, `Push` |
| `Client.connectOnce`, `dispatch` | `Connect`, `Disconnect`, `Dispatch` |
| `Autoscaler.Next`, `Run` | `Decide`; `ScaleDecide`, `ScaleApply` |
| `Migrate` | `Begin`, `TakeLock`, `ReadApplied`, `ApplyNext`, `Commit`, `Fail` |
| `Leader.Run`'s select | `AcquireLeader`, `RenewLeader`, `ReleaseLeader`, each with its failure |
| `CreateJob` with a key | `CreateJob`, `AnswerReplay`, `CreateFails` |
| `run` of `calligraphy-api` | `Start`, `Boot`, `Receive`, `Shutdown`, `Release`, `Exit` |

### Abstractions

* *Time.* A delay, an age or an idle threshold may have elapsed whenever a
  process looks. `scheduled_at`, `OrphanAge`, `SweepGrace` and scores therefore
  leave no guard. A lease is live until `LeaseExpires` says otherwise.
* *`Prompt`.* With `Prompt = TRUE`, a live worker renews both halves of its lease
  before either runs out and gets from one round trip to the next within
  `ReapMinIdle`. The configuration is built for that: heartbeats run every
  `LeaseTTL/3`, `Load` refuses `ReapMinIdle < LeaseTTL`, and recording and acking
  have timeouts of 15 s and 5 s. A handler may set a `LeaseTTL` of its own
  (`runner.go:81-83`), which nothing compares with `ReapMinIdle`: beyond three times that,
  its entries go idle between heartbeats. No handler in the repository does. With
  `Prompt = FALSE` workers stall at will, and such a handler's entries are among what is covered.
* *Leadership.* Every member of `Leaders` may run any duty at any time, which
  includes everything a replica that wrongly believes it leads can do.
* *Failures.* `crash` kills a process between two round trips. `store` makes a statement
  return an error, with or without its effect. Where the process then goes on to something
  else (`ReapOne`, `SweepOne`), "effect and error" is a case of its own; where the error ends the
  operation (claim, outcome, new row, cancel), it is the effect followed by a crash; the
  receipts and marks whose errors are only logged need no case. `confirm` is the Batcher's:
  the commit lands, its confirmation is lost, `flush` runs the batch again, matches nothing
  and answers `applied = false` without an error, upon which `finish` skips the ZADD and
  acks. `redis` makes a command return an error without effect; with it, that is the next step failing.
  A statement takes effect before its sender goes on, or never. One that lands later still
  is late like a stalled sender's: for a leader's see `split_brain`, and a batch flushed
  after its caller gave up is a stall, thus outside `Prompt`.
* *The cancel flag* never expires in the model (24 h in the code). A runner may
  always finish without having looked at it, so expiry adds no behaviour.
* *Envelopes.* Only the job id matters: claims take their attempt number from the
  row. Members of the delayed set are distinct because the attempt number is part of
  the member and no two handoffs of a run share it.
* *Batches.* In `Dispatch` an outcome is one atomic statement, and a lost confirmation the
  `confirm` case of `Finish`. `Recorder` is where that is examined: its refinement of
  `JobLifecycle` and `AnswerIsDurable` are what `Dispatch` relies on.
* *Validation.* One range check stands for all the checks of a submission: what
  fails one is refused and leaves no trace.
* *Sessions.* Tokens of `Control` are used again once neither end remembers the
  stream. The operator's target narrows to an int32 on its way (`Int32`; 2^31 is the constant
  `Int32Half`). Pause and resume take the way of setConcurrency; stats and acks are left out.
* Left out of the actions because nothing reads them back: event rows, the
  dead-letter log stream, metrics. `Dispatch` also leaves attempt rows to `Recorder`
  and worker rows to `Worker`.

## Runs

| run | instance | question and answer |
|---|---|---|
| `job_store` | 2 jobs, 2 runners, up to 2 attempts, requeue below epoch 3 | `ClaimsExclusive`, `BudgetRespected`, `RunningIsLeased`, `FencedForever`, refinement of `JobLifecycle`: hold |
| `dispatch_async` | 1 job, 2 runners, 1 leader, 1 request, cancels, requeue below epoch 2, 1 fault of any kind, workers stall at will | `RecordBeforeAck`, `SafeUntilFault` and the refinement of `JobStore` hold |
| `dispatch_crash` | 1 job, 2 runners, 1 leader, `Prompt`, 2 crashes or failed statements, no lost confirmation | `NoStrandedJob` holds |
| `dispatch_live` | 1 job, 1 runner, 1 leader, cancels, `Prompt`, 1 crash or failed statement, no lost confirmation, fair | `EventuallySettled`, `TransportDrains` hold |
| `lost_handoff` | `Prompt`, 1 failed Redis command | `NoStrandedJob` is **violated** |
| `lost_confirmation` | `Prompt`, 1 batch committed without confirmation | `NoStrandedJob` is **violated** |
| `late_receipt` | `Prompt`, 2 requests, requeue, 1 crash | `NoStrandedJob` is **violated** |
| `split_brain` | `Prompt`, 2 leaders, 1 crash | `NoStrandedJob` is **violated** |
| `recorder` | 1 job, 2 runners that share a Batcher or do not, batches of 2, 1 failure, requeue below epoch 2 | `AnswerIsDurable`, `AppliedIsTrue`, `HistoryTellsOutcome`, `Unresolved`, `QueuedIsFlushed`, refinement of `JobLifecycle`: hold |
| `worker` | 3 streams, 5 entries, targets 1 and 2, fetches of 1, 1 failure | `InHandBounded`, `CleanDrain`, `NoGhostWorker`, `DrainEnds`, `ReadyIsFetched`: hold |
| `control` | 1 worker, 2 sessions at a time, 1 cut or API restart, scaler between 2 and 3, operator asks for 0 (refused), 4, or 9, which narrows to a negative number and is clamped to 1 | `RegisteredIsLive`, `ServingIsRegistered`, `EventuallyConnected`, `DrainIsCarriedOut`, `ShrinkIsReluctant`: hold |
| `api` | 2 replicas, 2 migrations, 2 requests with one key, 1 that asks for too many attempts, 1 for a negative number, 2 failures, crashes, stalls or shutdowns | `MigratedOnce`, `SchemaIsReady`, `OneJobPerKey`, `ReceiptIsTrue`, `OnlyOwnerReleases`, `SplitBrainHeals`, `AcceptedIsEnqueued`: hold |

*Properties.* `NoStrandedJob`: a RUNNING or RETRYING row is found by a sweep and
an unreceipted PENDING row by the orphan sweep, but a PENDING row with a
receipt is found only by a delivery, so an envelope must exist or a live
process must have the job in hand. `SafeUntilFault`: races and stalls alone do not break that. `RecordBeforeAck`: a runner on its way to
delete its delivery no longer holds a claim the fence would let through.
`StoreSpec`: every step of `Dispatch` is a step of `JobStore` or leaves the
table alone, so the theorems about `JobStore` carry over.
`AnswerIsDurable` is the Recorder's contract, on which the runner acks; it is
about the state (the claim no longer runs), not about `applied`, which a lost
confirmation can make false for a write that took effect. `AppliedIsTrue` states what
`applied` *is* good for when a zombie and the next owner complete one job in one batch.
`HistoryTellsOutcome` relates the two tables. `InHandBounded` is the true bound
on a worker's deliveries. `ServingIsRegistered` and `RegisteredIsLive` are the two
directions of the hub's map. `OnlyOwnerReleases` says how a leader may lose its
key: by its own act, or by a fault that lets the key run out. The others read as
they are named; each is stated in full above its definition.

*Bounds.* One job is enough in `Dispatch`: jobs share no row, no entry and no
flag, and batches only interleave the duties of different jobs, whose steps
commute. Two attempts cover first, last and exhausted. `EpochBound` bounds only
requeues: below epoch 2, a job whose single attempt failed can be requeued once;
below 3, also one that was reaped or retried first; 0 means no requeue.
`Entries` bounds the envelopes in Redis at a time: five tokens are never used
up in `dispatch_live` (six give the same states); in `dispatch_async` two tokens cut
behaviours with more simultaneous duplicates, and one leader leaves out concurrent duties. For
`SafeUntilFault` the theorem `StrandingTakesAFault` has both, in any number.
`CHECK_DEADLOCK FALSE` in the `Dispatch` runs: with every job settled and no faults
left the system rests. So do a worker that has exited and a control plane whose
worker drained.

In `recorder` one job and two runners give the case that matters, a zombie's and
its successor's outcome in one batch or in a batch and a statement; different jobs share
no row. `Reported` leaves out `fail` and `cancel`, which are fenced and batched like
`dead`. Batches of 2 make both triggers happen, size and timer. With one failure the second flush
of a batch always succeeds; that both fail is left to the theorem `Durable`. Five entries in `worker`
exceed every bound on what is in hand, with fetches of 1 all three shares of the
blocking read occur. In `control` two sessions at a time are the old stream and the new; a third would
only wait for a token. Channel and stream capacities of 1 make "full" reachable; the
operator's targets end up on either side of the scaler's range, and an `Int32Half` of 8 lets a
small number overflow. In
`api`, two replicas are a leader and its successor, and two files distinguish none,
some and all applied; two failures include a lost reply followed by a crash.

*Fairness* (`dispatch_live`): a process that has begun an operation takes its
next step (weak fairness of `RunnerStep`, `LeaderStep`, `CallStep`): round trips
and handlers have timeouts. Idle slots fetch, the leader's ticker starts each
duty again while it finds something to do, and a lease nobody renews expires.
Nothing is assumed of clients, of faults or of what handlers return.
`recorder`: the loop's goroutine is scheduled, nothing else. `worker`: the goroutines of
the pool and of `Run` are scheduled and their timers fire; handlers return within
`ExecTimeout` until their context is cancelled, and after that nothing is assumed, which is
what `DrainEnds` is about. `control`: both ends' goroutines are scheduled and the
client's backoff ends. `api`: tickers fire, an advisory lock is granted in turn, Redis expires keys, and a
process that stopped is started again (`restart: unless-stopped` in
`docker-compose.yml`). Handlers of requests are *not* fair: a submission may hang
for ever in any window, and `AcceptedIsEnqueued` holds all the same.

### What the violations show

All four strand a job as PENDING with its receipt set and no envelope anywhere.
None of the repair sweeps looks for that row; the comment in `reapOne` describes
the same end state, reached another way and since repaired by `ackUnreaped`.

* **`lost_handoff`**. `promote` moves the envelope (round trip one); a worker
  fetches, claims, fails the attempt and records RETRYING; its ZADD fails and it acks,
  since "the stuck-retry sweep repairs exactly this" (`runner.go:280`); then the
  promoter's `MarkPromoted` (round trip two), matching on status alone, flips the
  *new* RETRYING to PENDING.
* **`lost_confirmation`**. The same window without a failed Redis command. The batch with the
  RETRYING commits and its confirmation is lost; the second flush tells the runner
  `applied = false`, which callers treat "as 'someone else owns this; ack and move on', which is the
  correct behavior for that case too" (`batch.go:262-264`). Of a retry it is not: `finish` hands
  over only what applied (`runner.go:275`), acks, and the late `MarkPromoted` flips the row.
* **`late_receipt`**. The receipt of a submission is still on its way to Postgres
  when the job's only attempt is dead-lettered and requeued. The requeue cleared the
  marker "so the orphan sweep would repair even a requeue whose XADD fails"
  (`store.go:564`); the late receipt sets it again, and the requeue dies before its XADD.
* **`split_brain`**. A leader stalls between `PromoteDue` and `MarkPromoted`. The
  promoted delivery's worker records RETRYING and dies before the handoff; the
  next leader reaps its entry, reads RETRYING and decides to ack; the first leader wakes
  up and flips the row. "Every duty is safe to run twice" (`recovery.go:22`) does
  not hold of this pair.

The traces point at two conditions the `UPDATE`s lack, the attempt that was
promoted in `MarkPromoted` and the run a receipt belongs to in `SetEnqueued`; such
a repair is not modelled. Because of these behaviours, `dispatch_crash` and `dispatch_live` exclude failed Redis
commands, batches committed without confirmation, a second leader and requeues.

### Where code and comments differ, without a run

Met while modelling; the properties above are stated so that they hold of the code.

* `pool.go:28-33` and `config.go:79-80` say a worker never asks Redis for more than its
  free slots. `COUNT` is per stream in the blocking read, so a pool may be handed three
  times that (`InHandBounded` has the exact bound).
* `batch.go:28-29`: `applied` tells whether *this* outcome was written. For completions it is
  looked up by job id, so a zombie sharing a batch with the next owner is told `applied`.
* `batch.go:225`, "already queued and WILL be flushed": not if the channel took the op after the
  stopping loop had found it empty. The caller times out, the delivery stays unacked.
* `control/server.go:253` narrows the operator's target to an int32: beyond 2^31 the API answers 202 with the
  target asked for, while the worker is sent its low 32 bits and clamps a negative one to 1.
* `migrations/0001_init.sql:4` promises one row per attempt; after a requeue the numbers
  start again and the new rows meet the old ones (`HistoryTellsOutcome` ends there).
* `autoscaler.go:12`, shrink only after `IdleAfter` idle observations: a target above
  `MaxConcurrency`, set by an operator, is cut back at the first backlog. And an observation made
  while the target is below the minimum leaves `idleTicks` alone (`autoscaler.go:62`), busy or not:
  two idle spells on either side of it count as one. `ShrinkIsReluctant` passes over such
  observations; counting them as busy made the proof's inductive step fail, which is how this was met.
* `calligraphy-worker/main.go:67-69`, the operator's command "becomes the next baseline": not if
  it falls between the scaler's read of the target and its `SetTarget`.
* `control/server.go:118` notes that gRPC allows one concurrent sender; the client sends
  stats and acks from two goroutines.
* `migrate.go:13-14` speaks of a transaction for each migration; the code uses one for all.
* `calligraphy-api/main.go:133` bounds the drain of HTTP requests so that nothing holds "the deploy open until
  the platform's kill timer"; `GracefulStop` right after it waits for the workers' streams without a bound.
* The drain time-out cancels jobs with the cause `context.Canceled`, which `ClassifyError` does not
  know as an interruption: the attempt counts as a failure.

## Proofs

Every theorem holds for all values of the constants that satisfy the module's named assumption
(`ConstantsOK`, `DispatchConstantsOK`, ...). The assumptions say what the constants are (naturals,
a job that is not `NoJob`; a submission's `maxAttempts` is any integer) and what the code enforces:
`WorkerConstantsOK` has the checks of `config.Load` and the width of the operator's int32,
`ApiConstantsOK` has migration files with distinct names. One goes beyond the code:
`RecorderConstantsOK` has `BatchMaxSize >= 1`, which `config.Load` does not check (`config.go:151`). The number of jobs, runners, replicas,
sessions, envelopes and faults is arbitrary throughout. `Entries` may be all of the naturals, so no proof rests on the bound that the runs put on envelopes.
Each module defines `IInv`, proves `InitIInv`
and `StepIInv` (one step per action, under it one per part the action can disturb) and derives
its theorems from `Inductive`. Each `IInv` was checked with TLC on the runs'
instances before it was proved; no run of its own repeats that.

| module | theorem | property |
|---|---|---|
| `JobStoreProofs` | `OutcomesExclusive`, `BudgetHolds`, `RunningAlwaysLeased` | `ClaimsExclusive`, `BudgetRespected`, `RunningIsLeased` |
| | `ZombiesStayFenced` | `FencedForever` |
| | `ImplementsLifecycle` | `LifecycleSpec`: `JobStore` refines `JobLifecycle` |
| `DispatchProofs` | `AckAfterRecord` | `RecordBeforeAck` |
| | `ImplementsStore`, `StoreResultsHold`, `StoreHistoryHolds` | `StoreSpec`: the processes refine `JobStore`, whose five results follow for them |
| `StrandedProofs` | `StrandingTakesAFault` | `SafeUntilFault`, that is `NoStrandedJob` as long as `faults = 0`, for all constants |
| | `CrashesStrandNothing` | `NoStrandedJob` if `CrashesOnly` |
| | `PromptWorkersExclusive` | `OneExecution` if `Prompt`: no two workers execute one job at a time |
| `RecorderProofs` | `Durable`, `AppliedHolds`, `HistoryAgrees`, `ResolvedOnce` | `AnswerIsDurable`, `AppliedIsTrue`, `HistoryTellsOutcome`, `Unresolved` |
| | `ImplementsLifecycle` | `LifecycleSpec`, of batches |
| | `StoreResultsHold`, `ZombiesStayFenced` | `JobStore`'s other four, of batches |
| `WorkerProofs` | `Backpressure`, `DrainIsClean`, `NoGhost` | `InHandBounded`, `CleanDrain`, `NoGhostWorker` |
| `ControlProofs` | `HubOffersLive`, `HubKeepsServing`, `Reluctant` | `RegisteredIsLive`, `ServingIsRegistered`, `ShrinkIsReluctant` |
| `ApiProofs` | `MigrationsRunOnce`, `ServesOnFullSchema` | `MigratedOnce`, `SchemaIsReady` |
| | `Idempotent`, `ReceiptsAreTrue`, `OwnersRelease` | `OneJobPerKey`, `ReceiptIsTrue`, `OnlyOwnerReleases` |
| | `SplitBrainTakesAStall` | at most one replica leads, unless a leader stalls for the key's whole time to live |

Each of the modules but `StrandedProofs` also proves `TypeCorrect`, its `TypeOK`.

**`JobStore`.** `ClaimsExclusive` is not inductive: that two claims do not both pass the fence
says nothing about a claim that does not pass it *now*. `IInv` adds
* `EpochBehind`: no claim is ahead of its row's epoch, so the epoch a new claim
  takes is new;
* `EpochsDiffer`: two runners never hold claims with the same job and epoch;
* `FenceAgrees`: while a claim passes the fence, its attempt number and limit are
  the row's, which is why `finish()` and `ReapJob` draw the same conclusion
  about the budget although they look at different copies of it.

`EpochGuardsRunning` is the fact behind `ZombiesStayFenced`: a row can only become RUNNING by an
increment of its epoch. `StatementMoves` goes through the statements once more for the refinement.

**`Dispatch`.** `NextIsStatement` shows that every step of a runner, a leader or a request is a
statement of `JobStore` or leaves the table alone. Two things are needed for it. Whoever holds a job
id (an envelope, a runner, a leader's batch, a request) knows that the row exists, since the
statements about rows that are not there are no steps of `JobStore`. And a runner that has not
claimed yet holds no claim, so that its claim is `ClaimJob`. `HandsOff` has the latter, and the part
`AckAfterRecord` rests on: a runner past `Finish` has no claim that could still record, and by
`StaleClaim` it does not get one back.

**When no job is stranded.** Two inductive invariants, both on top of `Base`: `IInv`, that a runner's
claim is of the job it was handed (`ClaimsMatch`), and that a token which some process remembers names no
other envelope (`TokensHeld`; stream ids are never reused).

*`StrandingTakesAFault`* has no condition on the constants: several leaders, stalled workers, stale
deliveries, requeues and cancels at any moment. `NoStrandedJob` speaks of PENDING rows, but a RETRYING
row becomes PENDING by a promotion that has already moved its envelope; the inductive form `Carried` is
therefore about every waiting row: an envelope of it is in the delayed set or on a stream, or a runner
was given one and is about to claim, or the process that made it wait is about to post one. No way of
losing an envelope is left: a fetch hands it to a runner, whose claim ends the wait or finds it ended.

*`CrashesStrandNothing`* is about `CrashesOnly`: processes die in any window, any number of times, and any
statement fails, with or without its effect, with one leader, `Prompt` workers, no failed Redis command,
no batch committed without confirmation and no requeues (cancels are allowed). Now envelopes do get lost, and `Backed` separates the jobs that may lose theirs from the others:
a job is `OnlyByDelivery` if its row is PENDING with a receipt or with one under way, or RETRYING with a leader about to
flip it. Each such job has an envelope that nobody is about to ack (`Kept`). "About to ack" is decided
by what a process has read, so the invariant needs that it is still true: a runner's entry is its own
until it acks (`Owned`), and the row of a job in execution still passes its runner's fence
(`StillFenced`). Every condition is needed. `lost_handoff`, `lost_confirmation`, `late_receipt` and `split_brain` drop one
each; without `Prompt` TLC finds a violation of 19 states with two runners, one leader and one crash:
the entry of a stalled runner is reaped while it executes, the retry is promoted, a second runner
loses the claim to the first and goes to ack, the first records RETRYING and dies before its handoff, and
the leader's `MarkPromoted` flips the row after the ack.

*`PromptWorkersExclusive`* needs `StillFenced` alone, and so only `Prompt`: two executions of a
job would be two claims that pass its fence.

**`Recorder`.** An op outlives its caller: a runner that gave up drops its claim while the op is in
the channel, and the loop later writes rows for claims nobody holds. A batch is thus no sequence of
`JobStore`'s statements, and that `JobStore`'s invariant survives it is proved directly
(`BatchKeepsTable`). A held claim, an op, an accepted outcome and a reaped attempt are all *witnesses* of
one claim, which gave them their epoch and attempt number. `WitnessesOK` says that a row never
falls behind its witnesses and that, until a requeue, two witnesses agree on the attempt number exactly
if they agree on the epoch: the number in the primary key of `job_attempts` is then as good as the
fencing token, which is why the first story told of an attempt is the right one. The remaining parts:
* `OneOpPerClaim`, `CallsMatch`: a claim yields one op ever, and a call is about its runner's claim;
* `OpsFit`: an op is `dead` or `retry` as its attempt number says, the budget's half of a batch;
* `QueuedOnce`: channel and batch have no op twice, nor one whose caller is settled;
* `Closed`: what was answered, accepted or reaped does not run;
* `ReapedIsNotAccepted`, `NothingToldEarly`: who may tell the story of an attempt, and when.

All steps but two are *quiet*: no attempt begins and no op appears, so witnesses only grow older.
`Quiet...` lemmas show once what that preserves, `...IsQuiet` lemmas that the steps are; `FinishKeeps`
and `ClaimKeeps` treat the two others.

**`Worker`.** What a `Fetch` may still bring was fixed when the loop read the pool, and the target and
the active jobs have moved since. `FetchFits` is what survives: the batch under way fits beside what
runs below the ceiling, because only the loop adds to what runs. `LoopEnds` and `HeartbeatEnds` order
the goroutines of a drain.

**`Control`.** The two directions of the hub's map need each other: a hello that registers severs the
session it replaces, so that one must be the only other that serves. `HelloIsFresh` adds that nobody
severs a session before it has registered. `IdleIsCounted`: `idleTicks` never exceeds the idle observations in a row.

**`Api`.** The advisory lock is held from the read of the versions to the commit, so what an open
transaction read is what is recorded (`TxContinues`, `LockIsHeld`), and what it ran continues the
list where the schema ends (`SchemaIsInitial`). As long as no leader stalls, who leads holds the key
(`LeadersHoldKey`): no lost reply, failed renewal, crash or restart under the same ID breaks that, so the second
leader that `split_brain` needs comes from a stall alone. For submissions: the unique index, and where in a
handler or a sweep a row is known to exist or its envelope to be in Redis (`HandlerKnows`).

*Only model-checked.* `EventuallySettled`, `TransportDrains`, `QueuedIsFlushed`, `DrainEnds`,
`ReadyIsFetched`, `EventuallyConnected`, `DrainIsCarriedOut`, `SplitBrainHeals` and `AcceptedIsEnqueued` are
liveness properties under fairness, beyond the proof system.

## Not modelled

* Generated protobuf code, metrics, the command line tool, the load generator, the TypeScript
  client and the binaries' wiring beyond `run` of `calligraphy-api`.
* The handlers' own work, the article analyser included: to the platform a handler may return
  anything, and so it may in the model.
* `retry/backoff.go`: a random duration below a capped power of two. The model lets any
  delay elapse at any time.
* Authentication, read requests, pagination, payload limits and the encoding of answers; the event
  log and the dead-letter log, which are written and only listed.
* Real time: lease, time-out and interval lengths appear only as the orders they allow.

## Plan

1. *Done*: `JobStatus`, `JobLifecycle`, `JobStore`, `Dispatch` and the theorems about the store.
2. *Done*: `Recorder`, `Worker`, `Autoscaler`, `Control`, `Migrate`, `Leadership`,
   `Submission`, `Api`.
3. *Done*: the safety theorems about `Dispatch`, `Recorder`, `Worker`, `Control` and `Api`.
4. *Done*: `NoStrandedJob` as a theorem, until a fault, and with crashes and failed statements; exclusive execution;
   split brain only after a stall.
5. *Open*: that `Recorder` implements `JobStore` with the ops of vanished callers as holders (its
   results are proved directly instead).
6. *Open*: pause and resume as commands of their own in `Control`, composed with `Worker`.
