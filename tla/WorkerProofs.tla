---------------------------- MODULE WorkerProofs -----------------------------
(***************************************************************************)
(* Proofs about Worker, for any configuration that config.Load accepts,    *)
(* any targets and any number of arrivals and faults.                      *)
(*                                                                         *)
(* Backpressure is not inductive by itself: what a Fetch may still bring   *)
(* was fixed when the loop read the pool, and the target and the active    *)
(* jobs have moved since.  FetchFits keeps the relation that survives: a   *)
(* Fetch under way fits beside what runs below the ceiling, because only   *)
(* the loop itself adds to what runs.                                      *)
(***************************************************************************)
EXTENDS Worker, TLAPS, WellFoundedInduction

\* The share of the batch that one stream can add.
Batch == AtMost(Ceiling, FetchBatch)

TargetBelowCeiling == target <= Ceiling

\* What the loop may hold where it is.
FetchFits ==
    /\ loop.at \in {"top", "wait", "done"} => loop.out = 0
    /\ loop.at \in {"pass", "block"} =>
          /\ loop.max >= 1 /\ loop.max <= Batch
          /\ active + loop.max <= Ceiling
    /\ loop.at = "pass" => loop.out < loop.max
    /\ loop.at = "block" => loop.out = 0

\* The loop leaves only when fetching was cancelled, and is done only when
\* nothing runs.
LoopEnds ==
    /\ loop.at \in {"wait", "done"} => FetchCancelled
    /\ loop.at = "done" => active = 0

\* Run waits for the heartbeat goroutine before it goes on.
HeartbeatEnds == phase \in {"final", "exited"} => ~hb

IInv ==
    /\ TypeOK
    /\ TargetBelowCeiling
    /\ InHandBounded
    /\ FetchFits
    /\ LoopEnds
    /\ HeartbeatEnds

------------------------------------------------------------------------------
(* The ceiling.                                                              *)

\* A set of naturals with an element and an upper bound has a largest element.
LEMMA BoundedHasMax ==
    ASSUME NEW T, T \subseteq Nat, T # {}, NEW b \in Nat, \A n \in T : n <= b
    PROVE  Max(T) \in T /\ \A n \in T : n <= Max(T)
<1> DEFINE U == {u \in Nat : \A n \in T : n <= u}
<1>1. U \subseteq Nat /\ U # {}
  OBVIOUS
<1>2. PICK u \in U : \A v \in U : ~(<<v, u>> \in OpToRel(<, Nat))
  BY <1>1, NatLessThanWellFounded, WFMin, Zenon
<1>3. \A v \in U : u <= v
  <2> SUFFICES ASSUME NEW v \in U, v < u PROVE FALSE
    OBVIOUS
  <2>1. <<v, u>> \in Nat \X Nat /\ <<v, u>>[1] < <<v, u>>[2]
    OBVIOUS
  <2>. QED BY <1>2, <2>1 DEF OpToRel
<1>4. u \in T
  <2>1. SUFFICES ASSUME u \notin T PROVE FALSE
    OBVIOUS
  <2>2. \A n \in T : n < u
    BY <2>1
  <2>3. u # 0
    <3>1. PICK n \in T : TRUE
      OBVIOUS
    <3>. QED BY <2>2, <3>1
  <2>4. u - 1 \in Nat /\ \A n \in T : n <= u - 1
    BY <2>2, <2>3
  <2>. QED BY <1>3, <2>4
<1>5. \E x \in T : \A n \in T : x >= n
  BY <1>4
<1>6. \A x \in T : (\A n \in T : x >= n) => \A n \in T : n <= x
  OBVIOUS
<1>. QED BY <1>5, <1>6 DEF Max

\* The ceiling is a positive number that no target exceeds, whoever sets it.
LEMMA CeilingBounds ==
    /\ Ceiling \in Nat \ {0}
    /\ MaxConcurrency <= Ceiling
    /\ \A n \in Targets : AtLeast(1, n) <= Ceiling
    /\ Batch \in Nat /\ Batch <= FetchBatch /\ Batch <= Ceiling
<1> DEFINE T == Targets \cup {MaxConcurrency}
           b == IF MaxConcurrency > MaxInt32 THEN MaxConcurrency ELSE MaxInt32
<1>1. T \subseteq Nat /\ T # {} /\ b \in Nat /\ \A n \in T : n <= b
  BY WorkerConstantsOK DEF LoadAccepts, MaxInt32
<1>2. Max(T) \in T /\ \A n \in T : n <= Max(T)
  BY <1>1, BoundedHasMax, Zenon
<1>3. Ceiling \in Nat /\ \A n \in T : n <= Ceiling
  BY <1>1, <1>2 DEF Ceiling
<1>. QED BY <1>3, WorkerConstantsOK DEF LoadAccepts, AtLeast, AtMost, Batch

------------------------------------------------------------------------------
(* The inductive invariant.                                                  *)

\* The worker as it starts satisfies the inductive invariant: config.Load has
\* clamped the concurrency.
LEMMA InitIInv == Init => IInv
<1> SUFFICES ASSUME Init PROVE IInv
  OBVIOUS
<1> USE WorkerConstantsOK, CeilingBounds DEF Init, LoadAccepts
<1>1. target \in Nat \ {0} /\ target <= Ceiling
  BY DEF Initial, AtLeast, AtMost
<1>2. TypeOK
  <2>1. loop \in LoopStates
    BY DEF LoopStates, Top, Priorities
  <2>2. ready \in [Priorities -> Nat]
    OBVIOUS
  <2>3. paused \in BOOLEAN /\ hb \in BOOLEAN
    BY Zenon
  <2>. QED BY <1>1, <2>1, <2>2, <2>3 DEF TypeOK, Phases
<1>3. InHandBounded
  BY DEF InHandBounded, Top, AtMost
<1>. QED BY <1>1, <1>2, <1>3 DEF IInv, TargetBelowCeiling, FetchFits, LoopEnds,
         HeartbeatEnds, Top, FetchCancelled

\* The pool's loop preserves the inductive invariant.
LEMMA LoopIInv == IInv /\ LoopStep => IInv'
<1> SUFFICES ASSUME IInv, LoopStep PROVE IInv'
  OBVIOUS
<1> USE DEF unchangedByLoop, FetchCancelled, Priorities
<1>1. CASE LoopTop
  <2>1. CASE FetchCancelled
    <3>1. loop' \in LoopStates /\ loop'.at = "wait" /\ loop'.out = 0
      BY <1>1, <2>1 DEF LoopTop, LoopStates, Top
    <3>. QED BY <1>1, <2>1, <3>1 DEF LoopTop, IInv, TypeOK, LoopStates, TargetBelowCeiling,
             InHandBounded, FetchFits, LoopEnds, HeartbeatEnds
  <2>2. CASE ~FetchCancelled
    <3>1. /\ target > active
          /\ loop' = [Top EXCEPT !.at = "pass", !.max = AtMost(FetchBatch, Free)]
      BY <1>1, <2>2 DEF LoopTop, Free, IInv, TypeOK
    <3> DEFINE max == AtMost(FetchBatch, Free)
    <3>2. max \in Nat /\ max >= 1 /\ max <= FetchBatch /\ active + max <= target
      BY <3>1, WorkerConstantsOK DEF LoadAccepts, Free, AtMost, IInv, TypeOK
    <3>3. max <= Batch
      BY <3>2, WorkerConstantsOK, CeilingBounds DEF LoadAccepts, Batch, AtMost, IInv, TypeOK,
          TargetBelowCeiling
    <3> HIDE DEF max
    <3>4. loop' \in LoopStates /\ loop'.at = "pass" /\ loop'.out = 0 /\ loop'.max = max
      <4>1. loop' = [at |-> "pass", p |-> 1, max |-> max, out |-> 0]
        BY <3>1 DEF Top, max
      <4>. QED BY <3>2, <4>1 DEF LoopStates
    <3>5. TypeOK'
      BY <1>1, <3>4 DEF LoopTop, IInv, TypeOK
    <3>6. InHandBounded'
      BY <1>1, <3>4 DEF LoopTop, IInv, TypeOK, LoopStates, InHandBounded, FetchFits
    <3>. QED BY <1>1, <2>2, <3>2, <3>3, <3>4, <3>5, <3>6, CeilingBounds DEF LoopTop, IInv, TypeOK,
             TargetBelowCeiling, FetchFits, LoopEnds, HeartbeatEnds
  <2>. QED BY <2>1, <2>2
<1>2. CASE FetchPass
  <2> DEFINE share == PassShare
  <2>1. /\ loop.p \in Priorities /\ share \in Nat
        /\ share <= ready[loop.p] /\ loop.out + share <= loop.max
    BY <1>2 DEF FetchPass, IInv, TypeOK, LoopStates, FetchFits, PassShare, AtMost
  <2>2. PICK bad \in 0 .. AtMost(1, share) :
           Poison(bad) /\ loop' = AfterPass(loop.out + share - bad)
    BY <1>2 DEF FetchPass
  <2> DEFINE out == loop.out + share - bad
  <2>3. out \in Nat /\ out <= loop.max /\ loop.out <= out
    BY <2>1, <2>2 DEF IInv, TypeOK, LoopStates, AtMost
  <2>4. faults' \in 0 .. MaxFaults
    BY <2>2, WorkerConstantsOK DEF Poison, Fault, IInv, TypeOK
  <2>5. ready' \in [Priorities -> Nat]
    BY <1>2, <2>1 DEF FetchPass, IInv, TypeOK
  <2>6. /\ loop' \in LoopStates
        /\ loop'.max = loop.max /\ loop'.out <= loop.max
        /\ loop'.at \in {"pass", "block", "spawn"}
        /\ loop'.at = "pass" => loop'.out < loop.max
        /\ loop'.at = "block" => loop'.out = 0
    <3> HIDE DEF out
    <3>1. loop.at = "pass" /\ loop \in LoopStates /\ loop.out < loop.max
      BY <1>2 DEF FetchPass, IInv, TypeOK, FetchFits
    <3>2. CASE out >= loop.max \/ (loop.p = 3 /\ out > 0)
      <4>1. loop' = [loop EXCEPT !.at = "spawn", !.p = 1, !.out = out]
        BY <2>2, <3>2 DEF AfterPass, out
      <4>2. loop' = [at |-> "spawn", p |-> 1, max |-> loop.max, out |-> out]
        BY <3>1, <4>1 DEF LoopStates
      <4>. QED BY <2>3, <3>1, <4>2 DEF LoopStates
    <3>3. CASE ~(out >= loop.max \/ (loop.p = 3 /\ out > 0)) /\ loop.p = 3
      <4>1. loop' = [loop EXCEPT !.at = "block", !.p = 1]
        BY <2>2, <3>3 DEF AfterPass, out
      <4>2. loop.out = 0
        BY <2>3, <3>1, <3>3 DEF LoopStates
      <4>3. loop' = [at |-> "block", p |-> 1, max |-> loop.max, out |-> 0]
        BY <3>1, <4>1, <4>2 DEF LoopStates
      <4>. QED BY <2>3, <3>1, <4>3 DEF LoopStates
    <3>4. CASE ~(out >= loop.max \/ (loop.p = 3 /\ out > 0)) /\ loop.p # 3
      <4>1. loop' = [loop EXCEPT !.p = loop.p + 1, !.out = out]
        BY <2>2, <3>4 DEF AfterPass, out
      <4>2. loop.p + 1 \in Priorities
        BY <3>1, <3>4 DEF LoopStates
      <4>3. loop' = [at |-> "pass", p |-> loop.p + 1, max |-> loop.max, out |-> out]
        BY <3>1, <4>1 DEF LoopStates
      <4>. QED BY <2>3, <3>1, <3>4, <4>2, <4>3 DEF LoopStates
    <3>. QED BY <3>2, <3>3, <3>4
  <2>7. TypeOK'
    BY <1>2, <2>4, <2>5, <2>6 DEF FetchPass, IInv, TypeOK
  <2>8. FetchFits' /\ InHandBounded'
    BY <1>2, <2>6, CeilingBounds DEF FetchPass, FetchFits, InHandBounded, Batch, IInv, TypeOK,
        LoopStates
  <2>. QED BY <1>2, <2>6, <2>7, <2>8 DEF FetchPass, IInv, TargetBelowCeiling, LoopEnds,
           HeartbeatEnds
<1>3. CASE FetchBlock
  <2>1. \A p \in Priorities : /\ BlockingShare(p) \in Nat
                              /\ BlockingShare(p) <= ready[p]
                              /\ BlockingShare(p) <= loop.max
    BY <1>3 DEF BlockingShare, AtMost, IInv, TypeOK, LoopStates
  <2>2. BlockingTotal \in Nat /\ BlockingTotal <= 3 * loop.max
    BY <2>1 DEF BlockingTotal, Total, IInv, TypeOK, LoopStates
  <2>3. PICK bad \in 0 .. AtMost(1, BlockingTotal) :
           Poison(bad) /\ loop' = [loop EXCEPT !.at = "spawn", !.out = BlockingTotal - bad]
    BY <1>3 DEF FetchBlock
  <2>4. BlockingTotal - bad \in Nat /\ BlockingTotal - bad <= 3 * loop.max
    BY <2>2, <2>3 DEF AtMost, IInv, TypeOK, LoopStates
  <2>5. faults' \in 0 .. MaxFaults
    BY <2>3, WorkerConstantsOK DEF Poison, Fault, IInv, TypeOK
  <2>6. ready' \in [Priorities -> Nat]
    BY <1>3, <2>1 DEF FetchBlock, IInv, TypeOK
  <2>7. loop' \in LoopStates /\ loop'.at = "spawn" /\ loop'.out <= 3 * loop.max
    BY <2>3, <2>4 DEF LoopStates, IInv, TypeOK
  <2>8. TypeOK'
    BY <1>3, <2>5, <2>6, <2>7 DEF FetchBlock, IInv, TypeOK
  <2>9. InHandBounded'
    <3>1. active' + loop.max <= Ceiling /\ loop.max <= Batch /\ active' \in Nat
      BY <1>3 DEF FetchBlock, FetchFits, IInv, TypeOK
    <3>2. active' + loop'.out <= Ceiling + 2 * Batch
      BY <2>7, <3>1, CeilingBounds DEF LoopStates, IInv, TypeOK
    <3>. QED BY <3>2 DEF InHandBounded, Batch
  <2>. QED BY <1>3, <2>7, <2>8, <2>9 DEF FetchBlock, IInv, TargetBelowCeiling, FetchFits,
           LoopEnds, HeartbeatEnds
<1>4. CASE FetchFails
  <2>1. ready' \in [Priorities -> Nat]
    BY <1>4 DEF FetchFails, BlockingShare, PassShare, AtMost, FetchFits, IInv, TypeOK,
        LoopStates
  <2>2. loop' \in LoopStates /\ loop' = Top
    BY <1>4 DEF FetchFails, Top, LoopStates
  <2>3. TypeOK'
    BY <1>4, <2>1, <2>2, WorkerConstantsOK DEF FetchFails, Fault, IInv, TypeOK
  <2>4. loop'.at = "top" /\ loop'.out = 0
    BY <2>2 DEF Top
  <2>5. InHandBounded'
    <3>1. active' = active /\ loop.out \in Nat /\ active \in Nat
      BY <1>4 DEF FetchFails, IInv, TypeOK, LoopStates
    <3>. QED BY <2>4, <3>1, CeilingBounds DEF InHandBounded, IInv, Batch
  <2>. QED BY <1>4, <2>3, <2>4, <2>5 DEF FetchFails, IInv, TargetBelowCeiling,
           FetchFits, LoopEnds, HeartbeatEnds
<1>5. CASE Spawn
  <2>1. loop' \in LoopStates /\ loop' = Top
    BY <1>5 DEF Spawn, Top, LoopStates
  <2>. QED BY <1>5, <2>1 DEF Spawn, Top, IInv, TypeOK, LoopStates, TargetBelowCeiling,
           InHandBounded, FetchFits, LoopEnds, HeartbeatEnds
<1>6. CASE PoolReturns
  BY <1>6 DEF PoolReturns, IInv, TypeOK, LoopStates, TargetBelowCeiling, InHandBounded,
      FetchFits, LoopEnds, HeartbeatEnds
<1>. QED BY <1>1, <1>2, <1>3, <1>4, <1>5, <1>6 DEF LoopStep

\* Every step of the worker and of those around it preserves it.
LEMMA StepIInv == IInv /\ [Next]_vars => IInv'
<1> SUFFICES ASSUME IInv, [Next]_vars PROVE IInv'
  OBVIOUS
<1> USE WorkerConstantsOK, CeilingBounds
    DEF IInv, TypeOK, TargetBelowCeiling, InHandBounded, FetchFits, LoopEnds, HeartbeatEnds,
        FetchCancelled, unchangedByRun, unchangedByLoop, poolVars, Phases
<1>1. ASSUME NEW p \in Priorities, Arrive(p) PROVE IInv'
  BY <1>1 DEF Arrive
<1>2. CASE phase # "exited" /\ LoopStep
  BY <1>2, LoopIInv
<1>3. CASE FinishOne
  <2>1. active' \in Nat /\ active' <= active
    BY <1>3 DEF FinishOne
  <2>2. loop \in LoopStates /\ loop' = loop /\ loop.out \in Nat /\ loop.max \in Nat
    BY <1>3 DEF FinishOne, LoopStates
  <2>3. InHandBounded' /\ FetchFits' /\ LoopEnds'
    BY <1>3, <2>1, <2>2 DEF FinishOne, Batch
  <2>. QED BY <1>3, <2>1, <2>2, <2>3 DEF FinishOne
<1>4. ASSUME NEW n \in Targets, Resize(n) PROVE IInv'
  BY <1>4 DEF Resize, SetTarget, AtLeast
<1>5. CASE SetPaused
  BY <1>5 DEF SetPaused
<1>6. CASE Heartbeat
  BY <1>6 DEF Heartbeat, UpsertWorker
<1>7. CASE MarkDeadWorkers
  BY <1>7 DEF MarkDeadWorkers
<1>8. CASE BeginDrain
  BY <1>8 DEF BeginDrain
<1>9. CASE PoolDone
  BY <1>9 DEF PoolDone
<1>10. CASE DrainTimeout
  BY <1>10 DEF DrainTimeout
<1>11. CASE StopHeartbeat
  BY <1>11 DEF StopHeartbeat
<1>12. CASE Exit
  BY <1>12 DEF Exit, Fault, UpsertWorker
<1>13. CASE UNCHANGED vars
  BY <1>13 DEF vars
<1>. QED BY <1>1, <1>2, <1>3, <1>4, <1>5, <1>6, <1>7, <1>8, <1>9, <1>10, <1>11, <1>12, <1>13
         DEF Next, RunStep

\* The inductive invariant holds throughout.
LEMMA Inductive == Spec => []IInv
BY InitIInv, StepIInv, PTL DEF Spec

------------------------------------------------------------------------------
(* Theorems.                                                                 *)

\* Type correctness.  In particular Fetch never asks for a negative count
\* (max - len(out)) and the active counter never drops below zero.
THEOREM TypeCorrect == Spec => []TypeOK
<1>1. IInv => TypeOK
  BY DEF IInv
<1>. QED BY <1>1, Inductive, PTL

\* Backpressure: for every ceiling and batch size the blocking read exceeds the
\* pool's free slots by at most two shares of the batch.
THEOREM Backpressure == Spec => []InHandBounded
<1>1. IInv => InHandBounded
  BY DEF IInv
<1>. QED BY <1>1, Inductive, PTL

\* When the pool reports that it is done, no delivery runs or will run.
THEOREM DrainIsClean == Spec => []CleanDrain
<1>1. IInv => CleanDrain
  BY DEF IInv, CleanDrain, FetchFits, LoopEnds
<1>. QED BY <1>1, Inductive, PTL

\* A worker that has exited does not come back to life in the workers table.
THEOREM NoGhost == Spec => NoGhostWorker
<1>1. ASSUME IInv, [Next]_vars
      PROVE  [phase = "exited" => (state # "active" => state' # "active")]_vars
  <2> SUFFICES ASSUME Next, phase = "exited", state # "active" PROVE state' # "active"
    BY <1>1
  <2>1. ~hb
    BY <1>1 DEF IInv, HeartbeatEnds
  <2>. QED BY <2>1 DEF Next, Arrive, FinishOne, Resize, SetPaused, Heartbeat,
           MarkDeadWorkers, BeginDrain, RunStep, PoolDone, DrainTimeout, StopHeartbeat, Exit
<1>. QED BY <1>1, Inductive, PTL DEF Spec, NoGhostWorker

==============================================================================
