------------------------------ MODULE Dispatch -------------------------------
(***************************************************************************)
(* How a job travels: the Redis transport (internal/queue/queue.go) and    *)
(* the three kinds of processes that move work through it while JobStore   *)
(* records the truth.                                                      *)
(*                                                                         *)
(*   runners  worker slots: fetch, claim, execute under heartbeats, record *)
(*            the outcome, hand a retry to Redis, ack  (worker/runner.go)  *)
(*   leaders  API replicas that believe they hold the recovery lock and    *)
(*            run its duties  (recovery/recovery.go)                       *)
(*   calls    HTTP requests in progress: submit, cancel, requeue           *)
(*            (api/server.go)                                              *)
(*                                                                         *)
(* A step is one round trip to Postgres or to Redis, so that every window  *)
(* between two of them is a state, and a process may die in any of them.   *)
(* Time is asynchronous: a delay, a lease or an idle threshold may have    *)
(* elapsed whenever a process looks, so the tests of scheduled_at, of the  *)
(* delayed set's scores and of the PEL's idle time leave no guard here,    *)
(* except that Prompt workers, while alive, renew both halves of a lease   *)
(* before it runs out.                                                     *)
(* Priorities, payloads and the dead-letter log stream are left out: no    *)
(* process takes a decision from them that the properties could see.       *)
(***************************************************************************)
EXTENDS Naturals, FiniteSetsExt

CONSTANTS
    Jobs, Runners, NoJob, MaxAttemptsCeiling, EpochBound,   \* see JobStore
    Leaders,     \* replicas that may run recovery duties concurrently
    Calls,       \* HTTP requests that may be in progress at a time
    Entries,     \* bound: tokens for the envelopes in Redis, natural numbers
    NoEntry,
    FaultKinds,  \* what may go wrong (see Fault)
    MaxFaults,   \* bound: how often
    MayCancel,   \* whether clients send cancel requests
    Prompt       \* whether live workers always renew in time (see Abandoned)

ASSUME DispatchConstantsOK ==
    /\ NoJob \notin Jobs
    /\ MaxAttemptsCeiling \in Nat \ {0} /\ EpochBound \in Nat
    /\ Entries \subseteq Nat /\ NoEntry \notin Entries
    /\ FaultKinds \subseteq {"crash", "store", "confirm", "redis"}
    /\ MaxFaults \in Nat
    /\ MayCancel \in BOOLEAN /\ Prompt \in BOOLEAN

VARIABLES
    row, claim,  \* Postgres and the claims in memory, as in JobStore
    entry,       \* entry[e]: where an envelope is in Redis, and whose it is
    flag,        \* flag[j]: the cooperative cancel flag
    runner, leader, call,
    faults

Store == INSTANCE JobStore

storeVars == <<row, claim>>
vars == <<row, claim, entry, flag, runner, leader, call, faults>>

------------------------------------------------------------------------------
(* State.                                                                    *)

\* "ready": on a stream, not yet read by the group.  "pel": delivered, in the
\* pending entries list until XACK.  "delayed": a member of the delayed zset.
Places == {"free", "delayed", "ready", "pel"}

Free == [place |-> "free", job |-> NoJob]

\* queue.Delivery: the entry and the job its envelope names.  Sweeps that work
\* from the database have a job and no entry.
Deliveries == [entry : Entries \cup {NoEntry}, job : Jobs \cup {NoJob}]

NoDelivery == [entry |-> NoEntry, job |-> NoJob]

IdleRunner == [at |-> "idle", d |-> NoDelivery, cause |-> "none"]
IdleLeader == [at |-> "idle", todo |-> {}, cur |-> NoDelivery]
IdleCall   == [at |-> "idle", job |-> NoJob]

Init ==
    /\ Store!Init
    /\ entry = [e \in Entries |-> Free]
    /\ flag = [j \in Jobs |-> FALSE]
    /\ runner = [r \in Runners |-> IdleRunner]
    /\ leader = [l \in Leaders |-> IdleLeader]
    /\ call = [c \in Calls |-> IdleCall]
    /\ faults = 0

TypeOK ==
    /\ Store!TypeOK
    /\ entry \in [Entries -> [place : Places, job : Jobs \cup {NoJob}]]
    /\ flag \in [Jobs -> BOOLEAN]
    /\ runner \in [Runners -> [at : {"idle", "claim", "run", "handoff", "ack"},
                               d : Deliveries,
                               cause : {"none", "lost", "cancel"}]]
    /\ leader \in [Leaders -> [at : {"idle", "promoted", "reap", "handoff", "classify",
                                     "reenqueue", "ack", "sweep", "sweepHandoff",
                                     "orphan", "orphanMark", "stuck", "stuckMark"},
                               todo : SUBSET Deliveries,
                               cur : Deliveries]]
    /\ call \in [Calls -> [at : {"idle", "submitted", "requeued", "receipt",
                                 "cancelWaiting", "raiseFlag"},
                           job : Jobs \cup {NoJob}]]
    /\ faults \in 0 .. MaxFaults

\* Something goes wrong.
\*   "crash"    a process dies, or the operation it is in is abandoned;
\*   "store"    a statement returns an error, with or without its effect;
\*   "confirm"  the commit of a batch of outcomes lands and its confirmation is
\*              lost, so that Batcher.flush runs the batch a second time;
\*   "redis"    a Redis command returns an error.
\* A statement that had its effect and returned an error is a case of its own
\* where the process goes on to something else (ReapOne, SweepOne).  A claim, an
\* outcome, a new row or a cancel ends its operation there: the effect and then
\* a crash.  A late mark or receipt is not asked how it went.  A Redis command
\* that had its effect and returned an error is the next step going wrong.
Fault(kind) ==
    /\ kind \in FaultKinds
    /\ faults < MaxFaults
    /\ faults' = faults + 1

------------------------------------------------------------------------------
(* Redis.                                                                    *)

\* Tokens of Entries that nobody remembers; stream ids are never reused.
Fresh == {e \in Entries :
            /\ entry[e].place = "free"
            /\ \A r \in Runners : runner[r].d.entry # e
            /\ \A l \in Leaders : \A d \in leader[l].todo \cup {leader[l].cur} : d.entry # e}

\* Enqueue: XADD to a stream, or ZADD to the delayed set for a job scheduled
\* ahead.  Which token stands for the new entry is immaterial: the lowest one.
Enqueue(j, place) ==
    /\ Fresh # {}
    /\ entry' = [entry EXCEPT ![Min(Fresh)] = [place |-> place, job |-> j]]

ScheduleRetry(j) == Enqueue(j, "delayed")

\* Variant: XACK without the XDEL leaves the entry on its stream.
RemoveWithoutXDel(e) == entry' = [entry EXCEPT ![e].place = "acked"]

\* Ack: XACK and XDEL.  Acking an entry that is already gone is no error.
Remove(e) == entry' = [entry EXCEPT ![e] = Free]

\* The cancel flag outlives its use: only its 24 hour expiry clears it.
RequestCancel(j) == flag' = [flag EXCEPT ![j] = TRUE]

IsCancelRequested(j) == flag[j]

At(place) == {e \in Entries : entry[e].place = place}

Delivery(e) == [entry |-> e, job |-> entry[e].job]

\* Entries whose idle time may have reached ReapMinIdle.  Heartbeats run every
\* LeaseTTL/3 and ReapMinIdle >= LeaseTTL, so the entry of a live worker gets
\* there only when the worker stalls or its heartbeats fail.  A handler type may
\* set a LeaseTTL of its own, which nothing compares with ReapMinIdle: one that
\* exceeds three times ReapMinIdle is the case Prompt = FALSE.
Abandoned ==
    {e \in At("pel") : Prompt => \A r \in Runners : runner[r].d.entry # e}

------------------------------------------------------------------------------
(* Runners.                                                                  *)

RunnerGoes(r, at) == runner' = [runner EXCEPT ![r].at = at]

\* The runner is done with its delivery, and forgets its claim if it has one.
RunnerLeaves(r) ==
    /\ runner' = [runner EXCEPT ![r] = IdleRunner]
    /\ claim' = [claim EXCEPT ![r] = Store!NoClaim]
    /\ UNCHANGED row

Fetch(r, e) ==
    /\ runner[r].at = "idle"
    /\ entry[e].place = "ready"
    /\ entry' = [entry EXCEPT ![e].place = "pel"]
    /\ runner' = [runner EXCEPT ![r] = [at |-> "claim", d |-> Delivery(e), cause |-> "none"]]
    /\ UNCHANGED <<storeVars, flag, leader, call, faults>>

\* Run, up to the claim: won, lost to someone else (ack the delivery away), or
\* the store is unreachable (leave the delivery pending).
Claim(r) ==
    /\ runner[r].at = "claim"
    /\ \/ /\ Store!ClaimJob(r, runner[r].d.job)
          /\ RunnerGoes(r, "run")
          /\ UNCHANGED faults
       \/ /\ ~Store!Claimable(runner[r].d.job)
          /\ RunnerGoes(r, "ack")
          /\ UNCHANGED <<storeVars, faults>>
       \/ /\ Fault("store")
          /\ RunnerLeaves(r)
    /\ UNCHANGED <<entry, flag, leader, call>>

\* The heartbeat goroutine's two decisions; it stops once it has cancelled the
\* handler.  XCLAIM only touches the idle clock.
ExtendLease(r) ==
    /\ runner[r].at = "run"
    /\ runner[r].cause = "none"
    /\ \/ /\ Store!ExtendLease(r)
          /\ UNCHANGED runner
       \/ /\ ~Store!Fence(r)
          /\ runner' = [runner EXCEPT ![r].cause = "lost"]
          /\ UNCHANGED storeVars
    /\ UNCHANGED <<entry, flag, leader, call, faults>>

SeeCancelFlag(r) ==
    /\ runner[r].at = "run"
    /\ runner[r].cause = "none"
    /\ IsCancelRequested(runner[r].d.job)
    /\ runner' = [runner EXCEPT ![r].cause = "cancel"]
    /\ UNCHANGED <<storeVars, entry, flag, leader, call, faults>>

\* The outcome statement finish() chooses for a handler that returned: no
\* error is a completion whatever the cause; otherwise the cause decides, and
\* without one the error, which may be ErrCancelRequested itself.
Outcome(r) ==
    \/ Store!CompleteJob(r)
    \/ runner[r].cause # "lost" /\ Store!CancelRunning(r)
    \/ runner[r].cause = "none" /\ (\/ Store!FailJob(r)
                                    \/ Store!DeadLetterJob(r)
                                    \/ Store!ScheduleRetry(r))

\* Variant: a failed record is acked like a successful one.
FinishAcksUnrecorded(r) ==
    /\ runner[r].at = "run"
    /\ \/ /\ Outcome(r)
          /\ RunnerGoes(r, IF row'[claim[r].job].status = "RETRYING" THEN "handoff" ELSE "ack")
          /\ UNCHANGED faults
       \/ /\ ~Store!Fence(r)
          /\ RunnerGoes(r, "ack")
          /\ UNCHANGED <<storeVars, faults>>
       \/ /\ Fault("store")
          /\ RunnerGoes(r, "ack")
          /\ UNCHANGED storeVars
    /\ UNCHANGED <<entry, flag, leader, call>>

\* finish(): the handler returned; record, and decide whether to ack.
Finish(r) ==
    /\ runner[r].at = "run"
    /\ \/ \* Recorded.  A retry is next handed to the delayed set.
          /\ Outcome(r)
          /\ RunnerGoes(r, IF row'[claim[r].job].status = "RETRYING" THEN "handoff" ELSE "ack")
          /\ UNCHANGED faults
       \/ \* Recorded, but the Batcher's second try matched nothing and answered
          \* applied = false: as if fenced, and a retry is not handed over.
          /\ Fault("confirm")
          /\ Outcome(r)
          /\ RunnerGoes(r, "ack")
       \/ \* Fenced: the job is owned elsewhere, the delivery is stale.
          /\ ~Store!Fence(r)
          /\ RunnerGoes(r, "ack")
          /\ UNCHANGED <<storeVars, faults>>
       \/ \* Reaped mid-run and the handler gave up: the reaper owns the entry.
          /\ runner[r].cause = "lost"
          /\ RunnerLeaves(r)
          /\ UNCHANGED faults
       \/ \* The record never became durable: leave the delivery pending.
          /\ Fault("store")
          /\ RunnerLeaves(r)
    /\ UNCHANGED <<entry, flag, leader, call>>

\* Variant: the next attempt is left to the stuck-retry sweep altogether.
HandoffLeftToSweep(r) ==
    /\ runner[r].at = "handoff"
    /\ RunnerGoes(r, "ack")
    /\ UNCHANGED <<storeVars, entry, flag, leader, call, faults>>

\* ZADD of the next attempt; when it fails the delivery is acked all the same.
Handoff(r) ==
    /\ runner[r].at = "handoff"
    /\ \/ ScheduleRetry(runner[r].d.job) /\ UNCHANGED faults
       \/ Fault("redis") /\ UNCHANGED entry
    /\ RunnerGoes(r, "ack")
    /\ UNCHANGED <<storeVars, flag, leader, call>>

Ack(r) ==
    /\ runner[r].at = "ack"
    /\ \/ Remove(runner[r].d.entry) /\ UNCHANGED faults
       \/ Fault("redis") /\ UNCHANGED entry
    /\ RunnerLeaves(r)
    /\ UNCHANGED <<flag, leader, call>>

\* SIGKILL, or a partition that outlives the process.
RunnerCrash(r) ==
    /\ runner[r].at # "idle"
    /\ Fault("crash")
    /\ RunnerLeaves(r)
    /\ UNCHANGED <<entry, flag, leader, call>>

RunnerStep(r) == Claim(r) \/ Finish(r) \/ Handoff(r) \/ Ack(r)

------------------------------------------------------------------------------
(* Leaders.  A duty reads a batch (`todo`) in one round trip and then works  *)
(* through it, one delivery at a time and in no particular order, on what    *)
(* may by then be stale.                                                     *)

LeaderGoes(l, at) == leader' = [leader EXCEPT ![l].at = at]

\* The loop of a duty takes its next delivery and goes on to its first step.
Take(l, d, at) ==
    leader' = [leader EXCEPT ![l] = [at |-> at, todo |-> leader[l].todo \ {d}, cur |-> d]]

\* One iteration is over: back to the head of the loop, or the duty is done.
Continue(l, head) ==
    leader' = [leader EXCEPT ![l] = IF leader[l].todo = {} THEN IdleLeader
                                    ELSE [at |-> head, todo |-> leader[l].todo, cur |-> NoDelivery]]

\* Likewise, for an iteration that ends with d in the step that takes it up.
Skip(l, d) ==
    leader' = [leader EXCEPT ![l] = IF leader[l].todo = {d} THEN IdleLeader
                                    ELSE [leader[l] EXCEPT !.todo = leader[l].todo \ {d}]]

StartDuty(l, head, batch) ==
    /\ leader[l].at = "idle"
    /\ batch # {}
    /\ leader' = [leader EXCEPT ![l] = [at |-> head, todo |-> batch, cur |-> NoDelivery]]

\* The batch a database sweep lists: rows, hence deliveries without an entry.
Listed(js) == {[entry |-> NoEntry, job |-> j] : j \in js}

\* promote: the Lua script moves due envelopes to their streams, atomically ...
PromoteDue(l) ==
    /\ \E due \in SUBSET At("delayed") :
          /\ StartDuty(l, "promoted", Listed({entry[e].job : e \in due}))
          /\ entry' = [e \in Entries |-> IF e \in due THEN [entry[e] EXCEPT !.place = "ready"]
                                         ELSE entry[e]]
    /\ UNCHANGED <<storeVars, flag, runner, call, faults>>

\* ... and one UPDATE then flips their rows, if it does not fail.
MarkPromoted(l) ==
    /\ leader[l].at = "promoted"
    /\ \/ Store!MarkPromoted({d.job : d \in leader[l].todo}) /\ UNCHANGED faults
       \/ Fault("store") /\ UNCHANGED storeVars
    /\ leader' = [leader EXCEPT ![l] = IdleLeader]
    /\ UNCHANGED <<entry, flag, runner, call>>

\* reapAbandoned: XAUTOCLAIM takes over entries that have been idle too long.
ReapAbandoned(l) ==
    /\ \E idle \in SUBSET Abandoned : StartDuty(l, "reap", {Delivery(e) : e \in idle})
    /\ UNCHANGED <<storeVars, entry, flag, runner, call, faults>>

\* reapOne, first statement: the database decides retry, dead letter or neither.
\* On an error the entry is left alone, whatever became of the row.
ReapOne(l) ==
    /\ leader[l].at = "reap"
    /\ \E d \in leader[l].todo :
          \/ /\ Store!ReapJob(d.job)
             /\ Take(l, d, IF Store!Exhausted(d.job) THEN "ack" ELSE "handoff")
             /\ UNCHANGED faults
          \/ /\ ~Store!Reapable(d.job)
             /\ Take(l, d, "classify")
             /\ UNCHANGED <<storeVars, faults>>
          \/ /\ Fault("store")
             /\ Skip(l, d)
             /\ Store!ReapJob(d.job) \/ UNCHANGED storeVars
    /\ UNCHANGED <<entry, flag, runner, call>>

\* reapOne, retry: the envelope goes back to the delayed set, or fails to.
ReapHandoff(l) ==
    /\ leader[l].at = "handoff"
    /\ \/ ScheduleRetry(leader[l].cur.job) /\ UNCHANGED faults
       \/ Fault("redis") /\ UNCHANGED entry
    /\ LeaderGoes(l, "ack")
    /\ UNCHANGED <<storeVars, flag, runner, call>>

\* Variant: whatever could not be reaped counts as spent.
ClassifyAllSpent(l) ==
    /\ leader[l].at = "classify"
    /\ LeaderGoes(l, "ack")
    /\ UNCHANGED <<storeVars, entry, flag, runner, call, faults>>

\* Variant: spent entries are left for somebody else to ack.
ClassifyKeepsSpent(l) ==
    /\ leader[l].at = "classify"
    /\ IF row[leader[l].cur.job].status = "PENDING" THEN LeaderGoes(l, "reenqueue")
                                                     ELSE Continue(l, "reap")
    /\ UNCHANGED <<storeVars, entry, flag, runner, call, faults>>

\* ackUnreaped: GetJob tells a spent entry from one whose job was never claimed.
Classify(l) ==
    /\ leader[l].at = "classify"
    /\ \/ /\ LeaderGoes(l, IF row[leader[l].cur.job].status = "PENDING"
                           THEN "reenqueue" ELSE "ack")
          /\ UNCHANGED faults
       \/ Fault("store") /\ Continue(l, "reap")
    /\ UNCHANGED <<storeVars, entry, flag, runner, call>>

\* ackUnreaped, PENDING: a fresh copy on the wire before the old one goes.
Reenqueue(l) ==
    /\ leader[l].at = "reenqueue"
    /\ \/ Enqueue(leader[l].cur.job, "ready") /\ LeaderGoes(l, "ack") /\ UNCHANGED faults
       \/ Fault("redis") /\ Continue(l, "reap") /\ UNCHANGED entry
    /\ UNCHANGED <<storeVars, flag, runner, call>>

ReapAck(l) ==
    /\ leader[l].at = "ack"
    /\ \/ Remove(leader[l].cur.entry) /\ UNCHANGED faults
       \/ Fault("redis") /\ UNCHANGED entry
    /\ Continue(l, "reap")
    /\ UNCHANGED <<storeVars, flag, runner, call>>

\* sweepStaleRunning: ListExpiredRunning, then ReapJob and the handoff per row.
ListExpiredRunning(l) ==
    /\ StartDuty(l, "sweep", Listed({j \in Jobs : Store!Reapable(j)}))
    /\ UNCHANGED <<storeVars, entry, flag, runner, call, faults>>

SweepOne(l) ==
    /\ leader[l].at = "sweep"
    /\ \E d \in leader[l].todo :
          \/ /\ Store!ReapJob(d.job)
             /\ IF Store!Exhausted(d.job) THEN Skip(l, d)
                                          ELSE Take(l, d, "sweepHandoff")
             /\ UNCHANGED faults
          \/ /\ ~Store!Reapable(d.job)
             /\ Skip(l, d)
             /\ UNCHANGED <<storeVars, faults>>
          \/ /\ Fault("store")
             /\ Skip(l, d)
             /\ Store!ReapJob(d.job) \/ UNCHANGED storeVars
    /\ UNCHANGED <<entry, flag, runner, call>>

SweepHandoff(l) ==
    /\ leader[l].at = "sweepHandoff"
    /\ \/ ScheduleRetry(leader[l].cur.job) /\ UNCHANGED faults
       \/ Fault("redis") /\ UNCHANGED entry
    /\ Continue(l, "sweep")
    /\ UNCHANGED <<storeVars, flag, runner, call>>

\* repairUnenqueued: PENDING rows without a Redis receipt.
Unenqueued == {j \in Jobs : row[j].status = "PENDING" /\ ~row[j].enq}

ListUnenqueued(l) ==
    /\ StartDuty(l, "orphan", Listed(Unenqueued))
    /\ UNCHANGED <<storeVars, entry, flag, runner, call, faults>>

\* repairStuckRetrying: RETRYING rows whose promotion is overdue.
ListStuckRetrying(l) ==
    /\ StartDuty(l, "stuck", Listed({j \in Jobs : row[j].status = "RETRYING"}))
    /\ UNCHANGED <<storeVars, entry, flag, runner, call, faults>>

\* The two repairs alike: XADD, then the receipt or the flip to PENDING.
RepairEnqueue(l) ==
    /\ leader[l].at \in {"orphan", "stuck"}
    /\ \E d \in leader[l].todo :
          \/ /\ Enqueue(d.job, "ready")
             /\ Take(l, d, IF leader[l].at = "orphan" THEN "orphanMark" ELSE "stuckMark")
             /\ UNCHANGED faults
          \/ /\ Fault("redis")
             /\ Skip(l, d)
             /\ UNCHANGED entry
    /\ UNCHANGED <<storeVars, flag, runner, call>>

OrphanMark(l) ==
    /\ leader[l].at = "orphanMark"
    /\ \/ Store!SetEnqueued(leader[l].cur.job) /\ UNCHANGED faults
       \/ Fault("store") /\ UNCHANGED storeVars
    /\ Continue(l, "orphan")
    /\ UNCHANGED <<entry, flag, runner, call>>

StuckMark(l) ==
    /\ leader[l].at = "stuckMark"
    /\ \/ Store!MarkPromoted({leader[l].cur.job}) /\ UNCHANGED faults
       \/ Fault("store") /\ UNCHANGED storeVars
    /\ Continue(l, "stuck")
    /\ UNCHANGED <<entry, flag, runner, call>>

LeaderCrash(l) ==
    /\ leader[l].at # "idle"
    /\ Fault("crash")
    /\ leader' = [leader EXCEPT ![l] = IdleLeader]
    /\ UNCHANGED <<storeVars, entry, flag, runner, call>>

LeaderStep(l) ==
    \/ MarkPromoted(l)
    \/ ReapOne(l) \/ ReapHandoff(l) \/ Classify(l) \/ Reenqueue(l) \/ ReapAck(l)
    \/ SweepOne(l) \/ SweepHandoff(l)
    \/ RepairEnqueue(l) \/ OrphanMark(l) \/ StuckMark(l)

------------------------------------------------------------------------------
(* Calls.                                                                    *)

CallGoes(c, at, j) == call' = [call EXCEPT ![c] = [at |-> at, job |-> j]]

CallEnds(c) == call' = [call EXCEPT ![c] = IdleCall]

\* handleSubmit: the row first ...
Submit(c) ==
    /\ call[c].at = "idle"
    /\ \E j \in Jobs, max \in 1 .. MaxAttemptsCeiling :
          Store!CreateJob(j, max) /\ CallGoes(c, "submitted", j)
    /\ UNCHANGED <<entry, flag, runner, leader, faults>>

\* handleRequeueDLQ, likewise.
Requeue(c) ==
    /\ call[c].at = "idle"
    /\ \E j \in Jobs : Store!RequeueDeadLetter(j) /\ CallGoes(c, "requeued", j)
    /\ UNCHANGED <<entry, flag, runner, leader, faults>>

\* ... then the handoff (a submission scheduled ahead goes to the delayed set);
\* when it fails the orphan sweep is trusted with the job ...
CallEnqueue(c) ==
    /\ \/ /\ call[c].at \in {"submitted", "requeued"}
          /\ Enqueue(call[c].job, "ready")
       \/ /\ call[c].at = "submitted"
          /\ Enqueue(call[c].job, "delayed")
    /\ CallGoes(c, "receipt", call[c].job)
    /\ UNCHANGED <<storeVars, flag, runner, leader, faults>>

CallEnqueueFails(c) ==
    /\ call[c].at \in {"submitted", "requeued"}
    /\ Fault("redis")
    /\ CallEnds(c)
    /\ UNCHANGED <<storeVars, entry, flag, runner, leader>>

\* ... and the receipt.
CallReceipt(c) ==
    /\ call[c].at = "receipt"
    /\ \/ Store!SetEnqueued(call[c].job) /\ UNCHANGED faults
       \/ Fault("store") /\ UNCHANGED storeVars
    /\ CallEnds(c)
    /\ UNCHANGED <<entry, flag, runner, leader>>

\* handleCancel loads the job; a terminal one is answered 409.
CancelLoad(c) ==
    /\ MayCancel
    /\ call[c].at = "idle"
    /\ \E j \in Jobs :
          \/ row[j].status \in Store!WaitingStatuses /\ CallGoes(c, "cancelWaiting", j)
          \/ row[j].status = "RUNNING" /\ CallGoes(c, "raiseFlag", j)
    /\ UNCHANGED <<storeVars, entry, flag, runner, leader, faults>>

\* Variant: the handler writes without checking the status it loaded again.
CancelWaitingUnchecked(c) ==
    /\ call[c].at = "cancelWaiting"
    /\ row' = [row EXCEPT ![call[c].job].status = "CANCELLED"]
    /\ CallGoes(c, "raiseFlag", call[c].job)
    /\ UNCHANGED <<claim, entry, flag, runner, leader, faults>>

\* CancelJob in the store, or 409 race_lost, or 503.
CancelWaiting(c) ==
    /\ call[c].at = "cancelWaiting"
    /\ \/ /\ Store!CancelJob(call[c].job)
          /\ CallGoes(c, "raiseFlag", call[c].job)
          /\ UNCHANGED faults
       \/ /\ row[call[c].job].status \notin Store!WaitingStatuses
          /\ CallEnds(c)
          /\ UNCHANGED <<storeVars, faults>>
       \/ /\ Fault("store")
          /\ CallEnds(c)
          /\ UNCHANGED storeVars
    /\ UNCHANGED <<entry, flag, runner, leader>>

RaiseFlag(c) ==
    /\ call[c].at = "raiseFlag"
    /\ \/ RequestCancel(call[c].job) /\ UNCHANGED faults
       \/ Fault("redis") /\ UNCHANGED flag
    /\ CallEnds(c)
    /\ UNCHANGED <<storeVars, entry, runner, leader>>

\* The API process dies, or the client disconnects and the request's context
\* with it.
CallCrash(c) ==
    /\ call[c].at # "idle"
    /\ Fault("crash")
    /\ CallEnds(c)
    /\ UNCHANGED <<storeVars, entry, flag, runner, leader>>

CallStep(c) == CallEnqueue(c) \/ CallReceipt(c) \/ CancelWaiting(c) \/ RaiseFlag(c)

------------------------------------------------------------------------------

\* Likewise for the database half of the lease.
LeaseExpires(j) ==
    /\ Prompt => \A r \in Runners : claim[r].job = j => ~Store!Fence(r)
    /\ Store!LeaseExpires(j)
    /\ UNCHANGED <<entry, flag, runner, leader, call, faults>>

Next ==
    \/ \E r \in Runners :
          \/ \E e \in Entries : Fetch(r, e)
          \/ Claim(r) \/ ExtendLease(r) \/ SeeCancelFlag(r)
          \/ Finish(r) \/ Handoff(r) \/ Ack(r) \/ RunnerCrash(r)
    \/ \E l \in Leaders :
          \/ PromoteDue(l) \/ MarkPromoted(l)
          \/ ReapAbandoned(l) \/ ReapOne(l) \/ ReapHandoff(l)
          \/ Classify(l) \/ Reenqueue(l) \/ ReapAck(l)
          \/ ListExpiredRunning(l) \/ SweepOne(l) \/ SweepHandoff(l)
          \/ ListUnenqueued(l) \/ ListStuckRetrying(l) \/ RepairEnqueue(l)
          \/ OrphanMark(l) \/ StuckMark(l) \/ LeaderCrash(l)
    \/ \E c \in Calls :
          \/ Submit(c) \/ Requeue(c) \/ CallEnqueue(c) \/ CallEnqueueFails(c)
          \/ CallReceipt(c) \/ CancelLoad(c) \/ CancelWaiting(c) \/ RaiseFlag(c)
          \/ CallCrash(c)
    \/ \E j \in Jobs : LeaseExpires(j)

Spec == Init /\ [][Next]_vars

\* The scheduling the code guarantees.  A request, a runner and a duty that
\* have begun go on to their next step: every round trip has a timeout and
\* every handler an execution timeout.  Workers fetch whenever a slot is idle,
\* and the leader's ticker starts each duty again and again.  A lease nobody
\* renews runs out.
Fairness ==
    /\ \A c \in Calls : WF_vars(CallStep(c))
    /\ \A r \in Runners : WF_vars(RunnerStep(r))
    /\ \A e \in Entries : WF_vars(\E r \in Runners : Fetch(r, e))
    /\ \A l \in Leaders :
          /\ WF_vars(LeaderStep(l))
          /\ WF_vars(PromoteDue(l))
          /\ WF_vars(ReapAbandoned(l))
          /\ WF_vars(ListExpiredRunning(l))
          /\ WF_vars(ListUnenqueued(l))
          /\ WF_vars(ListStuckRetrying(l))
    /\ \A j \in Jobs : WF_vars(LeaseExpires(j))

FairSpec == Spec /\ Fairness

------------------------------------------------------------------------------
(* Properties.                                                               *)

\* Some live process has job j in hand: it is about to claim it, or to put an
\* envelope of it on the wire.
InHand(j) ==
    \/ \E r \in Runners : runner[r].at \in {"claim", "handoff"} /\ runner[r].d.job = j
    \/ \E c \in Calls : call[c].at \in {"submitted", "requeued"} /\ call[c].job = j
    \/ \E l \in Leaders :
          \/ leader[l].at \in {"handoff", "reenqueue", "sweepHandoff"} /\ leader[l].cur.job = j
          \/ leader[l].at \in {"orphan", "stuck"} /\ \E d \in leader[l].todo : d.job = j

\* Whatever the last crash left behind, each unfinished job is where something
\* will find it: a RUNNING or RETRYING row is found by a sweep, a PENDING row
\* by the orphan sweep if it has no receipt, and otherwise only by a delivery,
\* so one must exist or be on its way (README.md, "no job silently disappears";
\* the comment in reapOne on the job that a chaos run stranded).  The code keeps
\* this through crashes and failed statements, but neither through a failed ZADD
\* nor through a batch that is committed and not confirmed.
NoStrandedJob ==
    \A j \in Jobs :
        row[j].status = "PENDING" /\ row[j].enq =>
            InHand(j) \/ \E e \in Entries : entry[e].job = j

\* Races alone strand no job: what workers that stall past their leases, stale
\* deliveries, requeues, cancels and concurrent duties do to each other needs
\* something to fail on top before a job is where nothing looks for it.
SafeUntilFault == faults = 0 => NoStrandedJob

\* finish(): "durable record FIRST, ack SECOND".  A runner that is on its way
\* to delete its delivery holds no claim the fence would still let through, so
\* no crash from there on can lose the outcome.
RecordBeforeAck ==
    \A r \in Runners : runner[r].at \in {"handoff", "ack"} => ~Store!Fence(r)

\* Refinement: the processes change the jobs table and their claims only by
\* JobStore's statements, so what is proved of JobStore holds of Dispatch.
StoreSpec == Store!Spec

\* Every accepted job is settled in the end: "every job reaches a terminal
\* state" (README.md), through crashes of workers, leaders and API replicas and
\* failed statements in any of the windows between Postgres and Redis.  What
\* strands a job (NoStrandedJob) keeps it from settling too, so this is stated
\* for runs without failed Redis commands and unconfirmed batches.
EventuallySettled ==
    \A j \in Jobs :
        row[j].status = "PENDING" ~> row[j].status \in Store!TerminalStatuses

\* Deliveries do not pile up: once submissions stop, Redis empties for good.
\* Every duplicate a repair produced is delivered and collapses at the claim,
\* and every entry of a dead runner is reaped and acked.
TransportDrains == <>[](\A e \in Entries : entry[e].place = "free")

==============================================================================
