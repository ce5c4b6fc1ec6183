------------------------------- MODULE Worker --------------------------------
(***************************************************************************)
(* One worker process: the pool that bounds how many deliveries run        *)
(* (worker/pool.go), the fetch that feeds it (queue.Fetch), and the drain  *)
(* and the heartbeats of Worker.Run (worker/worker.go).  The target is     *)
(* moved from outside at any time, by the operator and by the autoscaler   *)
(* (module Control says how).                                              *)
(*                                                                         *)
(* What a delivery goes through once it runs is the subject of Dispatch;   *)
(* here deliveries are counted.  A step of Fetch is one Redis command, so  *)
(* that entries may arrive between two of them.                            *)
(***************************************************************************)
EXTENDS Integers, FiniteSetsExt

CONSTANTS
    Concurrency,     \* configured start value of the target
    MinConcurrency, MaxConcurrency,
    FetchBatch,      \* batchMax
    Targets,         \* what the operator or the autoscaler may ask for
    MaxArrivals,     \* bound: entries that reach the streams
    MaxFaults        \* bound: commands that fail, entries that do not decode

\* The checks of config.Load that concern the pool.
LoadAccepts ==
    /\ {Concurrency, MinConcurrency, MaxConcurrency, FetchBatch} \subseteq Nat \ {0}
    /\ MinConcurrency <= MaxConcurrency

\* SetConcurrency carries an int32; the autoscaler stays at or below its maximum.
MaxInt32 == 2147483647

ASSUME WorkerConstantsOK ==
    /\ LoadAccepts
    /\ \A n \in Targets : n \in Nat /\ (n <= MaxInt32 \/ n <= MaxConcurrency)
    /\ MaxArrivals \in Nat /\ MaxFaults \in Nat

VARIABLES
    ready,    \* ready[p]: entries on stream p that the group has not read
    loop,     \* the pool's loop: where it is, max and len(out) of its Fetch
    target, active, paused,
    phase,    \* how far Worker.Run is
    hb,       \* the heartbeat goroutine is alive
    state,    \* this worker's row in the workers table
    arrived, faults

poolVars == <<ready, loop, active>>
vars == <<poolVars, target, paused, phase, hb, state, arrived, faults>>

------------------------------------------------------------------------------
(* State.                                                                    *)

\* job.PriorityOrder: 1 is "high", 2 "default", 3 "low".
Priorities == 1 .. 3

Total(f) == f[1] + f[2] + f[3]

\* "pass": the non-blocking read of stream p comes next.
LoopStates ==
    [at : {"top", "pass", "block", "spawn", "wait", "done"}, p : Priorities,
     max : Nat, out : Nat]

Top == [at |-> "top", p |-> 1, max |-> 0, out |-> 0]

Phases == {"running", "draining", "cancelled", "stopHB", "final", "exited"}

TypeOK ==
    /\ ready \in [Priorities -> Nat]
    /\ loop \in LoopStates
    /\ target \in Nat \ {0}
    /\ active \in Nat
    /\ paused \in BOOLEAN
    /\ phase \in Phases
    /\ hb \in BOOLEAN
    /\ state \in {"none", "active", "draining", "gone"}
    /\ arrived \in 0 .. MaxArrivals
    /\ faults \in 0 .. MaxFaults

AtLeast(lo, n) == IF n < lo THEN lo ELSE n
AtMost(hi, n) == IF n > hi THEN hi ELSE n

\* config.Load clamps the configured concurrency into the scaler's range.
Initial == AtMost(MaxConcurrency, AtLeast(MinConcurrency, Concurrency))

Init ==
    /\ ready = [p \in Priorities |-> 0]
    /\ loop = Top
    /\ target = Initial
    /\ active = 0
    /\ paused = FALSE
    /\ phase = "running"
    /\ hb = TRUE
    /\ state = "none"
    /\ arrived = 0
    /\ faults = 0

Fault == faults < MaxFaults /\ faults' = faults + 1

\* fetchCtx: cancelled by stopFetch when the drain begins.
FetchCancelled == phase # "running"

\* jobCtx: cancelled by stopJobs when the drain times out.
JobsCancelled == phase \notin {"running", "draining"}

------------------------------------------------------------------------------
(* The streams.                                                              *)

Arrive(p) ==
    /\ arrived < MaxArrivals
    /\ arrived' = arrived + 1
    /\ ready' = [ready EXCEPT ![p] = ready[p] + 1]
    /\ UNCHANGED <<loop, target, active, paused, phase, hb, state, faults>>

------------------------------------------------------------------------------
(* Pool.Run and Fetch.                                                       *)

unchangedByLoop == <<target, paused, phase, hb, state, arrived>>

\* Variant: what is running already is not subtracted.
FreeIgnoresActive == target

Free == target - active

\* Variant: the last free slot is never used.
LoopTopOffByOne ==
    /\ loop.at = "top"
    /\ \/ /\ FetchCancelled
          /\ loop' = [Top EXCEPT !.at = "wait"]
       \/ /\ ~FetchCancelled
          /\ ~paused
          /\ Free > 1
          /\ loop' = [Top EXCEPT !.at = "pass", !.max = AtMost(FetchBatch, Free)]
    /\ UNCHANGED <<ready, active, faults, unchangedByLoop>>

\* The head of the loop.  Paused or full, it sleeps and looks again.
LoopTop ==
    /\ loop.at = "top"
    /\ \/ /\ FetchCancelled
          /\ loop' = [Top EXCEPT !.at = "wait"]
       \/ /\ ~FetchCancelled
          /\ ~paused
          /\ Free > 0
          /\ loop' = [Top EXCEPT !.at = "pass", !.max = AtMost(FetchBatch, Free)]
    /\ UNCHANGED <<ready, active, faults, unchangedByLoop>>

\* decodeMessage: an entry that does not decode is acked away, not delivered.
Poison(n) ==
    \/ n = 0 /\ UNCHANGED faults
    \/ n = 1 /\ Fault

\* Where Fetch goes with `out` deliveries after the read of stream loop.p: it
\* returns, blocks, or reads the next stream.
AfterPass(out) ==
    IF out >= loop.max \/ (loop.p = 3 /\ out > 0)
    THEN [loop EXCEPT !.at = "spawn", !.p = 1, !.out = out]
    ELSE IF loop.p = 3
    THEN [loop EXCEPT !.at = "block", !.p = 1]
    ELSE [loop EXCEPT !.p = loop.p + 1, !.out = out]

\* XREADGROUP COUNT max-len(out) of stream p, without BLOCK.
PassShare == AtMost(loop.max - loop.out, ready[loop.p])

FetchPass ==
    /\ loop.at = "pass"
    /\ ready' = [ready EXCEPT ![loop.p] = ready[loop.p] - PassShare]
    /\ \E bad \in 0 .. AtMost(1, PassShare) :
          Poison(bad) /\ loop' = AfterPass(loop.out + PassShare - bad)
    /\ UNCHANGED <<active, unchangedByLoop>>

\* What one XREADGROUP COUNT max over all three streams hands out: COUNT holds
\* for each stream.
BlockingShare(p) == AtMost(loop.max, ready[p])

BlockingTotal == Total([p \in Priorities |-> BlockingShare(p)])

\* XREADGROUP BLOCK over all three streams: what there is, or nothing in time.
FetchBlock ==
    /\ loop.at = "block"
    /\ ready' = [p \in Priorities |-> ready[p] - BlockingShare(p)]
    /\ \E bad \in 0 .. AtMost(1, BlockingTotal) :
          Poison(bad) /\ loop' = [loop EXCEPT !.at = "spawn", !.out = BlockingTotal - bad]
    /\ UNCHANGED <<active, unchangedByLoop>>

\* A read fails, of itself or because fetchCtx was cancelled, before or after
\* Redis handed the entries out.  Fetch returns what it had with the error, and
\* the pool drops it: those entries stay in the group's pending list, where
\* only recovery finds them (Dispatch's Fetch followed by RunnerCrash).
FetchFails ==
    LET share == [p \in Priorities |->
                     IF loop.at = "block" THEN BlockingShare(p)
                     ELSE IF p = loop.p THEN PassShare ELSE 0]
    IN
    /\ loop.at \in {"pass", "block"}
    /\ \/ FetchCancelled /\ UNCHANGED faults
       \/ ~FetchCancelled /\ Fault
    /\ \/ ready' = [p \in Priorities |-> ready[p] - share[p]]
       \/ UNCHANGED ready
    /\ loop' = Top
    /\ UNCHANGED <<active, unchangedByLoop>>

\* One goroutine per delivery.
Spawn ==
    /\ loop.at = "spawn"
    /\ active' = active + loop.out
    /\ loop' = Top
    /\ UNCHANGED <<ready, faults, unchangedByLoop>>

\* Variant: Run returns when fetching has stopped.
PoolReturnsAtOnce ==
    /\ loop.at = "wait"
    /\ loop' = [loop EXCEPT !.at = "done"]
    /\ UNCHANGED <<ready, active, faults, unchangedByLoop>>

\* wg.Wait and the return of Run.
PoolReturns ==
    /\ loop.at = "wait"
    /\ active = 0
    /\ loop' = [loop EXCEPT !.at = "done"]
    /\ UNCHANGED <<ready, active, faults, unchangedByLoop>>

\* Variant: the slot is given back twice.
FinishOneTwice ==
    /\ phase # "exited"
    /\ active > 0
    /\ active' = active - 2
    /\ UNCHANGED <<ready, loop, faults, unchangedByLoop>>

\* A delivery is done: recorded and acked, or left to recovery.
FinishOne ==
    /\ phase # "exited"
    /\ active > 0
    /\ active' = active - 1
    /\ UNCHANGED <<ready, loop, faults, unchangedByLoop>>

------------------------------------------------------------------------------
(* Resizing and pausing from outside.                                        *)

SetTarget(n) == target' = AtLeast(1, n)

\* Autoscaler.Run and Client.dispatch, until the run context is cancelled.
Resize(n) ==
    /\ phase = "running"
    /\ SetTarget(n)
    /\ UNCHANGED <<poolVars, paused, phase, hb, state, arrived, faults>>

SetPaused ==
    /\ phase = "running"
    /\ paused' = ~paused
    /\ UNCHANGED <<poolVars, target, phase, hb, state, arrived, faults>>

------------------------------------------------------------------------------
(* Worker.Run: heartbeats and the drain.                                     *)

unchangedByRun == <<poolVars, target, paused, arrived>>

UpsertWorker(s) == state' = s

\* heartbeatLoop: upsert 'active' every five seconds.
Heartbeat ==
    /\ hb
    /\ UpsertWorker("active")
    /\ UNCHANGED <<unchangedByRun, phase, hb, faults>>

\* MarkDeadWorkers, by the recovery leader.  Time is asynchronous: any
\* heartbeat may have grown old.
MarkDeadWorkers ==
    /\ state \in {"active", "draining"}
    /\ state' = "gone"
    /\ UNCHANGED <<unchangedByRun, phase, hb, faults>>

\* SIGTERM, or the operator's Drain: stopFetch.
BeginDrain ==
    /\ phase = "running"
    /\ phase' = "draining"
    /\ UNCHANGED <<unchangedByRun, hb, state, faults>>

\* <-poolDone, in either of the two selects.
PoolDone ==
    /\ phase \in {"draining", "cancelled"}
    /\ loop.at = "done"
    /\ phase' = "stopHB"
    /\ UNCHANGED <<unchangedByRun, hb, state, faults>>

\* Variant: after cancelling the jobs Run waits for the pool without a bound.
DrainTimeoutOnce ==
    /\ phase = "draining"
    /\ loop.at # "done"
    /\ phase' = "cancelled"
    /\ UNCHANGED <<unchangedByRun, hb, state, faults>>

\* The drain timeout cancels the jobs; ten seconds later they are abandoned.
DrainTimeout ==
    /\ phase \in {"draining", "cancelled"}
    /\ loop.at # "done"
    /\ phase' = IF phase = "draining" THEN "cancelled" ELSE "stopHB"
    /\ UNCHANGED <<unchangedByRun, hb, state, faults>>

\* Variant: the heartbeat goroutine is told to stop and not waited for.
StopHeartbeatAsync ==
    /\ phase = "stopHB"
    /\ phase' = "final"
    /\ UNCHANGED <<unchangedByRun, hb, state, faults>>

\* stopHB and <-hbDone, then batcher.Stop (see Recorder).
StopHeartbeat ==
    /\ phase = "stopHB"
    /\ hb' = FALSE
    /\ phase' = "final"
    /\ UNCHANGED <<unchangedByRun, state, faults>>

\* finalHeartbeat, which may fail, and the return of Run: the process ends and
\* takes what still runs with it.
Exit ==
    /\ phase = "final"
    /\ phase' = "exited"
    /\ \/ UpsertWorker("draining") /\ UNCHANGED faults
       \/ Fault /\ UNCHANGED state
    /\ UNCHANGED <<unchangedByRun, hb>>

------------------------------------------------------------------------------

LoopStep == LoopTop \/ FetchPass \/ FetchBlock \/ FetchFails \/ Spawn \/ PoolReturns

RunStep == PoolDone \/ DrainTimeout \/ StopHeartbeat \/ Exit

Next ==
    \/ \E p \in Priorities : Arrive(p)
    \/ phase # "exited" /\ LoopStep
    \/ FinishOne
    \/ \E n \in Targets : Resize(n)
    \/ SetPaused
    \/ Heartbeat \/ MarkDeadWorkers \/ BeginDrain \/ RunStep

\* The goroutines of the loop and of Run are scheduled and their timers fire;
\* handlers return while they may (ExecTimeout), but once their context is
\* cancelled nothing is assumed of them.
Fairness ==
    /\ WF_vars(phase # "exited" /\ LoopStep)
    /\ WF_vars(~JobsCancelled /\ FinishOne)
    /\ WF_vars(RunStep)

Spec == Init /\ [][Next]_vars /\ Fairness

------------------------------------------------------------------------------
(* Properties.                                                               *)

\* The largest target anybody sets.
Ceiling == Max(Targets \cup {MaxConcurrency})

\* Backpressure.  The pool asks for no more than its free slots, but the
\* blocking read may be handed that number from each of the three streams
\* (queue.go:232), so the bound of pool.go:28 ("never asks Redis for more than
\* that") is exceeded by two more shares of the batch, and by no more: over
\* its target, the pool does not fetch until enough jobs have finished.
InHandBounded ==
    active + loop.out <= Ceiling + 2 * AtMost(Ceiling, FetchBatch)

\* "drained clean" (worker.go): when Run goes on because the pool is done, no
\* delivery runs and none is in the loop's hands, nor will be.
CleanDrain ==
    loop.at = "done" => active = 0 /\ loop.out = 0 /\ FetchCancelled

\* No ghost in the workers table: once the worker has exited after its final
\* heartbeat, no heartbeat that was under way shows it as active again.
NoGhostWorker ==
    [][phase = "exited" => (state # "active" => state' # "active")]_vars

\* The drain ends, even if jobs ignore their cancelled context.
DrainEnds == phase = "draining" ~> phase = "exited"

\* Work that is ready does not wait for ever on a worker that is up.
ReadyIsFetched ==
    (Total(ready) > 0 /\ phase = "running" /\ ~paused)
        ~> (Total(ready) = 0 \/ phase # "running" \/ paused)

==============================================================================
