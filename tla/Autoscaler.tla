----------------------------- MODULE Autoscaler ------------------------------
(***************************************************************************)
(* scale.Autoscaler: once an interval it reads the backlog and the pool,   *)
(* decides on a new target, and sets it.  The backlog and the number of    *)
(* active jobs are inputs; whatever is read may be out of date when it is  *)
(* used.  Between the decision and SetTarget others may move the target.   *)
(***************************************************************************)
EXTENDS Naturals

CONSTANTS
    MinConcurrency, MaxConcurrency,
    GrowAt, IdleAfter,   \* scale.Config, with a whole GrowAt
    Backlogs,            \* what Depths may report
    Loads                \* what Pool.Active may report

VARIABLES
    target,  \* Pool.target
    scaler,  \* where the loop is, the target it read, its decision, idleTicks
    lulls    \* ghost: idle observations in a row, up to IdleAfter; one made
             \* below the minimum is no observation

scalerVars == <<scaler, lulls>>

AtLeast(lo, n) == IF n < lo THEN lo ELSE n
AtMost(hi, n) == IF n > hi THEN hi ELSE n

ScalerTypeOK ==
    /\ target \in Nat \ {0}
    /\ scaler \in [at : {"idle", "decided"}, cur : Nat, next : Nat, idleTicks : 0 .. IdleAfter]
    /\ lulls \in 0 .. IdleAfter

ScalerInit ==
    /\ scaler = [at |-> "idle", cur |-> 0, next |-> 0, idleTicks |-> 0]
    /\ lulls = 0

SetTarget(n) == target' = AtLeast(1, n)

\* Variant: a busy spell does not start the idle count again.
DecideNeverResets(ready, active) ==
    IF target < MinConcurrency
    THEN [next |-> MinConcurrency, idleTicks |-> scaler.idleTicks]
    ELSE IF ready >= GrowAt * target
    THEN [next |-> AtMost(MaxConcurrency, target + AtLeast(1, target \div 2)),
          idleTicks |-> 0]
    ELSE IF ready = 0 /\ active < target
    THEN IF scaler.idleTicks + 1 >= IdleAfter
         THEN [next |-> AtLeast(MinConcurrency, target - 1), idleTicks |-> 0]
         ELSE [next |-> target, idleTicks |-> scaler.idleTicks + 1]
    ELSE [next |-> target, idleTicks |-> scaler.idleTicks]

\* Autoscaler.Next: grow by half at a backlog, at least by one; shrink by one
\* after IdleAfter idle observations.
Decide(ready, active) ==
    IF target < MinConcurrency
    THEN [next |-> MinConcurrency, idleTicks |-> scaler.idleTicks]
    ELSE IF ready >= GrowAt * target
    THEN [next |-> AtMost(MaxConcurrency, target + AtLeast(1, target \div 2)),
          idleTicks |-> 0]
    ELSE IF ready = 0 /\ active < target
    THEN IF scaler.idleTicks + 1 >= IdleAfter
         THEN [next |-> AtLeast(MinConcurrency, target - 1), idleTicks |-> 0]
         ELSE [next |-> target, idleTicks |-> scaler.idleTicks + 1]
    ELSE [next |-> target, idleTicks |-> 0]

\* One interval of Run, up to the decision.  If Depths fails the interval is
\* skipped, which is no step at all.
ScaleDecide(ready, active) ==
    /\ scaler.at = "idle"
    /\ LET d == Decide(ready, active) IN
       scaler' = [at |-> "decided", cur |-> target, next |-> d.next,
                  idleTicks |-> d.idleTicks]
    /\ lulls' = IF target < MinConcurrency THEN lulls
                ELSE IF ready = 0 /\ active < target THEN AtMost(IdleAfter, lulls + 1)
                ELSE 0
    /\ UNCHANGED target

\* SetTarget, if the decision differs from the target that was read.
ScaleApply ==
    /\ scaler.at = "decided"
    /\ IF scaler.next # scaler.cur THEN SetTarget(scaler.next) ELSE UNCHANGED target
    /\ scaler' = [scaler EXCEPT !.at = "idle", !.cur = 0, !.next = 0]
    /\ lulls' = IF scaler.next < scaler.cur THEN 0 ELSE lulls

ScalerNext ==
    \/ \E ready \in Backlogs, active \in Loads : ScaleDecide(ready, active)
    \/ ScaleApply

\* "shrink needs IdleAfter consecutive idle observations" (autoscaler.go:12),
\* for a target that is in the scaler's range and that nobody moved between
\* the decision and SetTarget.  An operator's target above MaxConcurrency is
\* cut back at the first backlog.  And an interval that finds the target below
\* MinConcurrency raises it without looking at the load or at idleTicks
\* (autoscaler.go:62), so idle observations before and after it count as
\* consecutive, however busy the pool was in between.
ShrinkIsReluctant ==
    [][/\ scaler.at = "decided" /\ scaler'.at = "idle"
       /\ target = scaler.cur /\ target <= MaxConcurrency
       /\ target' < target
       => lulls >= IdleAfter]_<<target, scaler, lulls>>

==============================================================================
