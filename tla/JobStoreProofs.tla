--------------------------- MODULE JobStoreProofs ----------------------------
(***************************************************************************)
(* Proofs about JobStore, for any set of jobs and runners and any bound on *)
(* max_attempts and on requeues.                                           *)
(*                                                                         *)
(* The inductive invariant is IInv: the type invariant, the budget, the    *)
(* lease, and three facts about the claims in memory that the SQL never    *)
(* states: a claim's epoch never runs ahead of its row's, two claims on    *)
(* one job carry different epochs, and a claim that passes the fence       *)
(* agrees with its row about the attempt number and the budget.            *)
(***************************************************************************)
EXTENDS JobStore, TLAPS

\* A claim is of an existing row and its epoch is one the row has had.
EpochBehind ==
    \A r \in Runners :
        Holds(r) => /\ claim[r].job \in Jobs
                    /\ claim[r].epoch <= row[claim[r].job].epoch
                    /\ row[claim[r].job].status # Absent
                    /\ claim[r].max = row[claim[r].job].max

\* Every claim bumps the epoch, so no two claims of a job share one.
EpochsDiffer ==
    \A r, s \in Runners :
        /\ Holds(r) /\ Holds(s)
        /\ claim[r].job = claim[s].job
        /\ claim[r].epoch = claim[s].epoch
        => r = s

\* A claim the fence lets through is about the row's current attempt.
FenceAgrees ==
    \A r \in Runners : Fence(r) => claim[r].attempt = row[claim[r].job].attempts

IInv ==
    /\ TypeOK
    /\ BudgetRespected
    /\ RunningIsLeased
    /\ EpochBehind
    /\ EpochsDiffer
    /\ FenceAgrees

------------------------------------------------------------------------------

\* The empty table satisfies the inductive invariant.
LEMMA InitIInv == Init => IInv
BY ConstantsOK DEF Init, IInv, TypeOK, BudgetRespected, RunningIsLeased, EpochBehind,
    EpochsDiffer, FenceAgrees, Fence, Holds, NoRow, NoClaim, Rows, Claims, Leases,
    Statuses, Absent, WaitingStatuses

\* A fenced statement is about the job of a claim that is really held.
LEMMA FencedJob ==
    ASSUME IInv, NEW r \in Runners, Fence(r)
    PROVE  claim[r].job \in Jobs
BY DEF IInv, EpochBehind, Fence

\* Every SQL statement preserves the inductive invariant, whoever issues it.
LEMMA StepIInv == IInv /\ [Next]_vars => IInv'
<1> SUFFICES ASSUME IInv, [Next]_vars PROVE IInv'
  OBVIOUS
<1> USE ConstantsOK DEF Statuses, Absent, WaitingStatuses, Leases
<1>1. ASSUME NEW j \in Jobs, NEW max \in 1 .. MaxAttemptsCeiling, CreateJob(j, max)
     PROVE  IInv'
  <2>1. TypeOK'
    BY <1>1 DEF IInv, TypeOK, Rows, Claims, NoClaim,
        Fence, Holds, CreateJob, NoRow
  <2>2. BudgetRespected'
    BY <1>1 DEF IInv, TypeOK, BudgetRespected, Rows, Claims, NoClaim,
        Fence, Holds, CreateJob, NoRow
  <2>3. RunningIsLeased'
    BY <1>1 DEF IInv, TypeOK, RunningIsLeased, Rows, Claims, NoClaim,
        Fence, Holds, CreateJob, NoRow
  <2>4. EpochBehind'
    BY <1>1 DEF IInv, TypeOK, EpochBehind, Rows, Claims, NoClaim,
        Fence, Holds, CreateJob, NoRow
  <2>5. EpochsDiffer'
    BY <1>1 DEF IInv, TypeOK, EpochBehind, EpochsDiffer, Rows, Claims, NoClaim,
        Fence, Holds, CreateJob, NoRow
  <2>6. FenceAgrees'
    BY <1>1 DEF IInv, TypeOK, EpochBehind, EpochsDiffer, FenceAgrees, Rows, Claims, NoClaim,
        Fence, Holds, CreateJob, NoRow
  <2>. QED BY <2>1, <2>2, <2>3, <2>4, <2>5, <2>6 DEF IInv
<1>2. ASSUME NEW j \in Jobs, row[j].status # Absent, SetEnqueued(j)
     PROVE  IInv'
  <2>1. TypeOK'
    <3>1. [row[j] EXCEPT !.enq = TRUE] \in Rows
      BY DEF IInv, TypeOK, Rows
    <3>. QED BY <1>2, <3>1 DEF IInv, TypeOK, SetEnqueued
  <2>2. BudgetRespected'
    BY <1>2 DEF IInv, TypeOK, BudgetRespected, Rows, Claims, NoClaim,
        Fence, Holds, SetEnqueued
  <2>3. RunningIsLeased'
    BY <1>2 DEF IInv, TypeOK, RunningIsLeased, Rows, Claims, NoClaim,
        Fence, Holds, SetEnqueued
  <2>4. EpochBehind'
    BY <1>2 DEF IInv, TypeOK, EpochBehind, Rows, Claims, NoClaim,
        Fence, Holds, SetEnqueued
  <2>5. EpochsDiffer'
    BY <1>2 DEF IInv, TypeOK, EpochBehind, EpochsDiffer, Rows, Claims, NoClaim,
        Fence, Holds, SetEnqueued
  <2>6. FenceAgrees'
    BY <1>2 DEF IInv, TypeOK, EpochBehind, EpochsDiffer, FenceAgrees, Rows, Claims, NoClaim,
        Fence, Holds, SetEnqueued
  <2>. QED BY <2>1, <2>2, <2>3, <2>4, <2>5, <2>6 DEF IInv
<1>3. ASSUME NEW j \in Jobs, LeaseExpires(j)
     PROVE  IInv'
  <2>1. TypeOK'
    BY <1>3 DEF IInv, TypeOK, Rows, Claims, NoClaim,
        Fence, Holds, LeaseExpires
  <2>2. BudgetRespected'
    BY <1>3 DEF IInv, TypeOK, BudgetRespected, Rows, Claims, NoClaim,
        Fence, Holds, LeaseExpires
  <2>3. RunningIsLeased'
    BY <1>3 DEF IInv, TypeOK, RunningIsLeased, Rows, Claims, NoClaim,
        Fence, Holds, LeaseExpires
  <2>4. EpochBehind'
    BY <1>3 DEF IInv, TypeOK, EpochBehind, Rows, Claims, NoClaim,
        Fence, Holds, LeaseExpires
  <2>5. EpochsDiffer'
    BY <1>3 DEF IInv, TypeOK, EpochBehind, EpochsDiffer, Rows, Claims, NoClaim,
        Fence, Holds, LeaseExpires
  <2>6. FenceAgrees'
    BY <1>3 DEF IInv, TypeOK, EpochBehind, EpochsDiffer, FenceAgrees, Rows, Claims, NoClaim,
        Fence, Holds, LeaseExpires
  <2>. QED BY <2>1, <2>2, <2>3, <2>4, <2>5, <2>6 DEF IInv
<1>4. ASSUME NEW j \in Jobs, ReapJob(j)
     PROVE  IInv'
  <2>1. TypeOK'
    BY <1>4 DEF IInv, TypeOK, Rows, Claims, NoClaim,
        Fence, Holds, ReapJob, Reapable, Exhausted
  <2>2. BudgetRespected'
    BY <1>4 DEF IInv, TypeOK, BudgetRespected, Rows, Claims, NoClaim,
        Fence, Holds, ReapJob, Reapable, Exhausted
  <2>3. RunningIsLeased'
    BY <1>4 DEF IInv, TypeOK, RunningIsLeased, Rows, Claims, NoClaim,
        Fence, Holds, ReapJob, Reapable, Exhausted
  <2>4. EpochBehind'
    BY <1>4 DEF IInv, TypeOK, EpochBehind, Rows, Claims, NoClaim,
        Fence, Holds, ReapJob, Reapable, Exhausted
  <2>5. EpochsDiffer'
    BY <1>4 DEF IInv, TypeOK, EpochBehind, EpochsDiffer, Rows, Claims, NoClaim,
        Fence, Holds, ReapJob, Reapable, Exhausted
  <2>6. FenceAgrees'
    BY <1>4 DEF IInv, TypeOK, EpochBehind, EpochsDiffer, FenceAgrees, Rows, Claims, NoClaim,
        Fence, Holds, ReapJob, Reapable, Exhausted
  <2>. QED BY <2>1, <2>2, <2>3, <2>4, <2>5, <2>6 DEF IInv
<1>5. ASSUME NEW j \in Jobs, CancelJob(j)
     PROVE  IInv'
  <2>1. TypeOK'
    BY <1>5 DEF IInv, TypeOK, Rows, Claims, NoClaim,
        Fence, Holds, CancelJob
  <2>2. BudgetRespected'
    BY <1>5 DEF IInv, TypeOK, BudgetRespected, Rows, Claims, NoClaim,
        Fence, Holds, CancelJob
  <2>3. RunningIsLeased'
    BY <1>5 DEF IInv, TypeOK, RunningIsLeased, Rows, Claims, NoClaim,
        Fence, Holds, CancelJob
  <2>4. EpochBehind'
    BY <1>5 DEF IInv, TypeOK, EpochBehind, Rows, Claims, NoClaim,
        Fence, Holds, CancelJob
  <2>5. EpochsDiffer'
    BY <1>5 DEF IInv, TypeOK, EpochBehind, EpochsDiffer, Rows, Claims, NoClaim,
        Fence, Holds, CancelJob
  <2>6. FenceAgrees'
    BY <1>5 DEF IInv, TypeOK, EpochBehind, EpochsDiffer, FenceAgrees, Rows, Claims, NoClaim,
        Fence, Holds, CancelJob
  <2>. QED BY <2>1, <2>2, <2>3, <2>4, <2>5, <2>6 DEF IInv
<1>6. ASSUME NEW j \in Jobs, RequeueDeadLetter(j)
     PROVE  IInv'
  <2>1. TypeOK'
    BY <1>6 DEF IInv, TypeOK, Rows, Claims, NoClaim,
        Fence, Holds, RequeueDeadLetter
  <2>2. BudgetRespected'
    BY <1>6 DEF IInv, TypeOK, BudgetRespected, Rows, Claims, NoClaim,
        Fence, Holds, RequeueDeadLetter
  <2>3. RunningIsLeased'
    BY <1>6 DEF IInv, TypeOK, RunningIsLeased, Rows, Claims, NoClaim,
        Fence, Holds, RequeueDeadLetter
  <2>4. EpochBehind'
    BY <1>6 DEF IInv, TypeOK, EpochBehind, Rows, Claims, NoClaim,
        Fence, Holds, RequeueDeadLetter
  <2>5. EpochsDiffer'
    BY <1>6 DEF IInv, TypeOK, EpochBehind, EpochsDiffer, Rows, Claims, NoClaim,
        Fence, Holds, RequeueDeadLetter
  <2>6. FenceAgrees'
    BY <1>6 DEF IInv, TypeOK, EpochBehind, EpochsDiffer, FenceAgrees, Rows, Claims, NoClaim,
        Fence, Holds, RequeueDeadLetter
  <2>. QED BY <2>1, <2>2, <2>3, <2>4, <2>5, <2>6 DEF IInv
<1>7. ASSUME NEW r \in Runners, NEW j \in Jobs, ClaimJob(r, j)
     PROVE  IInv'
  <2>1. TypeOK'
    BY <1>7 DEF IInv, TypeOK, Rows, Claims, NoClaim,
        Fence, Holds, ClaimJob, Claimable
  <2>2. BudgetRespected'
    BY <1>7 DEF IInv, TypeOK, BudgetRespected, Rows, Claims, NoClaim,
        Fence, Holds, ClaimJob, Claimable
  <2>3. RunningIsLeased'
    BY <1>7 DEF IInv, TypeOK, RunningIsLeased, Rows, Claims, NoClaim,
        Fence, Holds, ClaimJob, Claimable
  <2>4. EpochBehind'
    BY <1>7 DEF IInv, TypeOK, EpochBehind, Rows, Claims, NoClaim,
        Fence, Holds, ClaimJob, Claimable
  <2>5. EpochsDiffer'
    BY <1>7 DEF IInv, TypeOK, EpochBehind, EpochsDiffer, Rows, Claims, NoClaim,
        Fence, Holds, ClaimJob, Claimable
  <2>6. FenceAgrees'
    BY <1>7 DEF IInv, TypeOK, EpochBehind, EpochsDiffer, FenceAgrees, Rows, Claims, NoClaim,
        Fence, Holds, ClaimJob, Claimable
  <2>. QED BY <2>1, <2>2, <2>3, <2>4, <2>5, <2>6 DEF IInv
<1>8. ASSUME NEW r \in Runners, ExtendLease(r)
     PROVE  IInv'
  <2>1. TypeOK'
    BY <1>8, FencedJob DEF IInv, TypeOK, Rows, Claims, NoClaim,
        Fence, Holds, ExtendLease
  <2>2. BudgetRespected'
    BY <1>8 DEF IInv, TypeOK, BudgetRespected, FenceAgrees, EpochBehind, Rows, Claims, NoClaim,
        Fence, Holds, ExtendLease
  <2>3. RunningIsLeased'
    BY <1>8 DEF IInv, TypeOK, RunningIsLeased, EpochBehind, Rows, Claims, NoClaim,
        Fence, Holds, ExtendLease
  <2>4. EpochBehind'
    BY <1>8 DEF IInv, TypeOK, EpochBehind, Rows, Claims, NoClaim,
        Fence, Holds, ExtendLease
  <2>5. EpochsDiffer'
    BY <1>8 DEF IInv, TypeOK, EpochBehind, EpochsDiffer, Rows, Claims, NoClaim,
        Fence, Holds, ExtendLease
  <2>6. FenceAgrees'
    BY <1>8 DEF IInv, TypeOK, EpochBehind, EpochsDiffer, FenceAgrees, Rows, Claims, NoClaim,
        Fence, Holds, ExtendLease
  <2>. QED BY <2>1, <2>2, <2>3, <2>4, <2>5, <2>6 DEF IInv
<1>9. ASSUME NEW r \in Runners, NEW to \in {"COMPLETED", "FAILED", "CANCELLED"},
            FencedWrite(r, to)
     PROVE  IInv'
  <2>1. TypeOK'
    BY <1>9, FencedJob DEF IInv, TypeOK, Rows, Claims, NoClaim,
        Fence, Holds, FencedWrite
  <2>2. BudgetRespected'
    BY <1>9 DEF IInv, TypeOK, BudgetRespected, FenceAgrees, EpochBehind, Rows, Claims, NoClaim,
        Fence, Holds, FencedWrite
  <2>3. RunningIsLeased'
    BY <1>9 DEF IInv, TypeOK, RunningIsLeased, EpochBehind, Rows, Claims, NoClaim,
        Fence, Holds, FencedWrite
  <2>4. EpochBehind'
    BY <1>9 DEF IInv, TypeOK, EpochBehind, Rows, Claims, NoClaim,
        Fence, Holds, FencedWrite
  <2>5. EpochsDiffer'
    BY <1>9 DEF IInv, TypeOK, EpochBehind, EpochsDiffer, Rows, Claims, NoClaim,
        Fence, Holds, FencedWrite
  <2>6. FenceAgrees'
    BY <1>9 DEF IInv, TypeOK, EpochBehind, EpochsDiffer, FenceAgrees, Rows, Claims, NoClaim,
        Fence, Holds, FencedWrite
  <2>. QED BY <2>1, <2>2, <2>3, <2>4, <2>5, <2>6 DEF IInv
<1>10. ASSUME NEW r \in Runners, DeadLetterJob(r)
     PROVE  IInv'
  <2>1. TypeOK'
    BY <1>10, FencedJob DEF IInv, TypeOK, Rows, Claims, NoClaim,
        Fence, Holds, DeadLetterJob, FencedWrite
  <2>2. BudgetRespected'
    BY <1>10 DEF IInv, TypeOK, BudgetRespected, FenceAgrees, EpochBehind, Rows, Claims, NoClaim,
        Fence, Holds, DeadLetterJob, FencedWrite
  <2>3. RunningIsLeased'
    BY <1>10 DEF IInv, TypeOK, RunningIsLeased, EpochBehind, Rows, Claims, NoClaim,
        Fence, Holds, DeadLetterJob, FencedWrite
  <2>4. EpochBehind'
    BY <1>10 DEF IInv, TypeOK, EpochBehind, Rows, Claims, NoClaim,
        Fence, Holds, DeadLetterJob, FencedWrite
  <2>5. EpochsDiffer'
    BY <1>10 DEF IInv, TypeOK, EpochBehind, EpochsDiffer, Rows, Claims, NoClaim,
        Fence, Holds, DeadLetterJob, FencedWrite
  <2>6. FenceAgrees'
    BY <1>10 DEF IInv, TypeOK, EpochBehind, EpochsDiffer, FenceAgrees, Rows, Claims, NoClaim,
        Fence, Holds, DeadLetterJob, FencedWrite
  <2>. QED BY <2>1, <2>2, <2>3, <2>4, <2>5, <2>6 DEF IInv
<1>11. ASSUME NEW r \in Runners, ScheduleRetry(r)
     PROVE  IInv'
  <2>1. TypeOK'
    BY <1>11, FencedJob DEF IInv, TypeOK, Rows, Claims, NoClaim,
        Fence, Holds, ScheduleRetry, FencedWrite
  <2>2. BudgetRespected'
    BY <1>11 DEF IInv, TypeOK, BudgetRespected, FenceAgrees, EpochBehind, Rows, Claims, NoClaim,
        Fence, Holds, ScheduleRetry, FencedWrite
  <2>3. RunningIsLeased'
    BY <1>11 DEF IInv, TypeOK, RunningIsLeased, EpochBehind, Rows, Claims, NoClaim,
        Fence, Holds, ScheduleRetry, FencedWrite
  <2>4. EpochBehind'
    BY <1>11 DEF IInv, TypeOK, EpochBehind, Rows, Claims, NoClaim,
        Fence, Holds, ScheduleRetry, FencedWrite
  <2>5. EpochsDiffer'
    BY <1>11 DEF IInv, TypeOK, EpochBehind, EpochsDiffer, Rows, Claims, NoClaim,
        Fence, Holds, ScheduleRetry, FencedWrite
  <2>6. FenceAgrees'
    BY <1>11 DEF IInv, TypeOK, EpochBehind, EpochsDiffer, FenceAgrees, Rows, Claims, NoClaim,
        Fence, Holds, ScheduleRetry, FencedWrite
  <2>. QED BY <2>1, <2>2, <2>3, <2>4, <2>5, <2>6 DEF IInv
<1>12. ASSUME NEW r \in Runners, DropClaim(r)
     PROVE  IInv'
  <2>1. TypeOK'
    BY <1>12 DEF IInv, TypeOK, Rows, Claims, NoClaim,
        Fence, Holds, DropClaim
  <2>2. BudgetRespected'
    BY <1>12 DEF IInv, TypeOK, BudgetRespected, Rows, Claims, NoClaim,
        Fence, Holds, DropClaim
  <2>3. RunningIsLeased'
    BY <1>12 DEF IInv, TypeOK, RunningIsLeased, Rows, Claims, NoClaim,
        Fence, Holds, DropClaim
  <2>4. EpochBehind'
    BY <1>12 DEF IInv, TypeOK, EpochBehind, Rows, Claims, NoClaim,
        Fence, Holds, DropClaim
  <2>5. EpochsDiffer'
    BY <1>12 DEF IInv, TypeOK, EpochBehind, EpochsDiffer, Rows, Claims, NoClaim,
        Fence, Holds, DropClaim
  <2>6. FenceAgrees'
    BY <1>12 DEF IInv, TypeOK, EpochBehind, EpochsDiffer, FenceAgrees, Rows, Claims, NoClaim,
        Fence, Holds, DropClaim
  <2>. QED BY <2>1, <2>2, <2>3, <2>4, <2>5, <2>6 DEF IInv
<1>13. ASSUME NEW js \in SUBSET Jobs, MarkPromoted(js)
     PROVE  IInv'
  <2>1. TypeOK'
    BY <1>13 DEF IInv, TypeOK, Rows, Claims, NoClaim,
        Fence, Holds, MarkPromoted
  <2>2. BudgetRespected'
    BY <1>13 DEF IInv, TypeOK, BudgetRespected, Rows, Claims, NoClaim,
        Fence, Holds, MarkPromoted
  <2>3. RunningIsLeased'
    BY <1>13 DEF IInv, TypeOK, RunningIsLeased, Rows, Claims, NoClaim,
        Fence, Holds, MarkPromoted
  <2>4. EpochBehind'
    BY <1>13 DEF IInv, TypeOK, EpochBehind, Rows, Claims, NoClaim,
        Fence, Holds, MarkPromoted
  <2>5. EpochsDiffer'
    BY <1>13 DEF IInv, TypeOK, EpochBehind, EpochsDiffer, Rows, Claims, NoClaim,
        Fence, Holds, MarkPromoted
  <2>6. FenceAgrees'
    BY <1>13 DEF IInv, TypeOK, EpochBehind, EpochsDiffer, FenceAgrees, Rows, Claims, NoClaim,
        Fence, Holds, MarkPromoted
  <2>. QED BY <2>1, <2>2, <2>3, <2>4, <2>5, <2>6 DEF IInv
<1>14. CASE UNCHANGED vars
  BY <1>14 DEF IInv, TypeOK, BudgetRespected, RunningIsLeased, EpochBehind,
      EpochsDiffer, FenceAgrees, Fence, Holds, vars
<1>15. ASSUME NEW j \in Jobs, Statement(j) PROVE IInv'
  BY <1>1, <1>2, <1>3, <1>4, <1>5, <1>6, <1>15 DEF Statement
<1>16. ASSUME NEW r \in Runners, HolderStatement(r) PROVE IInv'
  BY <1>7, <1>8, <1>9, <1>10, <1>11, <1>12, <1>16
     DEF HolderStatement, CompleteJob, FailJob, CancelRunning
<1>. QED BY <1>13, <1>14, <1>15, <1>16 DEF Next

\* The inductive invariant holds in every reachable state.
THEOREM Inductive == Spec => []IInv
<1>. QED BY InitIInv, StepIInv, PTL DEF Spec

\* Type correctness of the table and of the claims in memory.
THEOREM TypeCorrect == Spec => []TypeOK
<1>1. IInv => TypeOK
  BY DEF IInv
<1>. QED BY Inductive, <1>1, PTL

\* At most one runner's claim ever passes the fence of a job's outcome
\* statements, for any number of runners and stale deliveries.
THEOREM OutcomesExclusive == Spec => []ClaimsExclusive
<1>1. IInv => ClaimsExclusive
  BY DEF IInv, EpochsDiffer, ClaimsExclusive, Fence
<1>. QED BY Inductive, <1>1, PTL

\* The retry budget holds for every max_attempts and any number of requeues.
THEOREM BudgetHolds == Spec => []BudgetRespected
<1>1. IInv => BudgetRespected
  BY DEF IInv
<1>. QED BY Inductive, <1>1, PTL

\* Every RUNNING row has a lease to expire, so the reaper can find it.
THEOREM RunningAlwaysLeased == Spec => []RunningIsLeased
<1>1. IInv => RunningIsLeased
  BY DEF IInv
<1>. QED BY Inductive, <1>1, PTL

\* No statement lowers an existing row's epoch, and one that makes a row RUNNING raises it.
LEMMA EpochGuardsRunning ==
    ASSUME IInv, Next, NEW j \in Jobs, row[j].status # Absent
    PROVE  \/ row'[j].epoch > row[j].epoch
           \/ /\ row'[j].epoch = row[j].epoch
              /\ row'[j].status = "RUNNING" => row[j].status = "RUNNING"
<1> USE DEF IInv, TypeOK, Rows
<1>1. CASE \E i \in Jobs : Statement(i)
  <2>1. PICK i \in Jobs : Statement(i)
    BY <1>1
  <2>2. CASE \E max \in 1 .. MaxAttemptsCeiling : CreateJob(i, max)
    BY <2>2 DEF CreateJob
  <2>3. CASE SetEnqueued(i) \/ LeaseExpires(i)
    BY <2>3 DEF SetEnqueued, LeaseExpires
  <2>4. CASE ReapJob(i)
    BY <2>4 DEF ReapJob
  <2>5. CASE CancelJob(i) \/ RequeueDeadLetter(i)
    BY <2>5 DEF CancelJob, RequeueDeadLetter
  <2>. QED BY <2>1, <2>2, <2>3, <2>4, <2>5 DEF Statement
<1>2. CASE \E r \in Runners : HolderStatement(r)
  <2>1. PICK r \in Runners : HolderStatement(r)
    BY <1>2
  <2>2. CASE \E i \in Jobs : ClaimJob(r, i)
    BY <2>2 DEF ClaimJob
  <2>3. CASE ExtendLease(r)
    BY <2>3 DEF ExtendLease
  <2>4. CASE \E to \in Statuses \ {"RUNNING"} : FencedWrite(r, to)
    BY <2>4 DEF FencedWrite
  <2>5. CASE DropClaim(r)
    BY <2>5 DEF DropClaim
  <2>. QED BY <2>1, <2>2, <2>3, <2>4, <2>5 DEF HolderStatement, CompleteJob, FailJob,
        CancelRunning, DeadLetterJob, ScheduleRetry, Statuses
<1>3. CASE \E js \in SUBSET Jobs : MarkPromoted(js)
  BY <1>3 DEF MarkPromoted
<1>. QED BY <1>1, <1>2, <1>3 DEF Next

\* A held claim that fails the fence fails it after any statement too.
LEMMA StaleStaysStale ==
    ASSUME IInv, Next, NEW r \in Runners, Holds(r), ~Fence(r), claim'[r] = claim[r]
    PROVE  ~Fence(r)'
<1> DEFINE j == claim[r].job
<1>1. /\ j \in Jobs /\ row[j].status # Absent
      /\ claim[r].epoch <= row[j].epoch /\ row[j].epoch \in Nat
  BY DEF IInv, EpochBehind, TypeOK, Rows
<1>2. \/ row'[j].epoch > row[j].epoch
      \/ /\ row'[j].epoch = row[j].epoch
         /\ row'[j].status = "RUNNING" => row[j].status = "RUNNING"
  BY <1>1, EpochGuardsRunning DEF IInv
<1>. QED BY <1>1, <1>2 DEF Fence, Holds, IInv, TypeOK, Claims, Rows

\* A held claim that has failed the fence never passes it again.
THEOREM ZombiesStayFenced == Spec => FencedForever
<1>1. IInv /\ [Next]_vars =>
        [\A r \in Runners :
           Holds(r) /\ ~Fence(r) /\ claim'[r] = claim[r] => ~Fence(r)']_vars
  BY StaleStaysStale DEF vars
<1>. QED BY Inductive, <1>1, PTL DEF Spec, FencedForever

\* Every statement moves every row along an edge of statemachine.go's table
\* (or not at all): the step half of the refinement.
LEMMA StatementMoves ==
    ASSUME IInv, Next
    PROVE  \A j \in Jobs : Lifecycle!Moves(row[j].status, row'[j].status)
<1> TAKE j \in Jobs
<1> USE DEF Lifecycle!Moves, CanTransition, Transitions, Lifecycle!CanTransition,
            Lifecycle!Transitions, Lifecycle!Absent, Absent
<1> USE DEF IInv, TypeOK, Rows
<1>1. CASE \E i \in Jobs : Statement(i)
  <2>1. PICK i \in Jobs : Statement(i)
    BY <1>1
  <2>2. CASE \E max \in 1 .. MaxAttemptsCeiling : CreateJob(i, max)
    BY <2>2 DEF CreateJob, NoRow
  <2>3. CASE SetEnqueued(i) \/ LeaseExpires(i)
    BY <2>3 DEF SetEnqueued, LeaseExpires
  <2>4. CASE ReapJob(i)
    BY <2>4 DEF ReapJob, Reapable
  <2>5. CASE CancelJob(i) \/ RequeueDeadLetter(i)
    BY <2>5 DEF CancelJob, RequeueDeadLetter, WaitingStatuses
  <2>. QED BY <2>1, <2>2, <2>3, <2>4, <2>5 DEF Statement
<1>2. CASE \E r \in Runners : HolderStatement(r)
  <2>1. PICK r \in Runners : HolderStatement(r)
    BY <1>2
  <2>2. CASE \E i \in Jobs : ClaimJob(r, i)
    BY <2>2 DEF ClaimJob, Claimable, WaitingStatuses
  <2>3. CASE ExtendLease(r)
    BY <2>3 DEF ExtendLease
  <2>4. CASE \E to \in Statuses \ {"RUNNING", "PENDING"} : FencedWrite(r, to)
    BY <2>4, FencedJob DEF FencedWrite, Fence, Statuses
  <2>5. CASE DropClaim(r)
    BY <2>5 DEF DropClaim
  <2>. QED BY <2>1, <2>2, <2>3, <2>4, <2>5 DEF HolderStatement, CompleteJob, FailJob,
        CancelRunning, DeadLetterJob, ScheduleRetry, Statuses
<1>3. CASE \E js \in SUBSET Jobs : MarkPromoted(js)
  BY <1>3 DEF MarkPromoted
<1>. QED BY <1>1, <1>2, <1>3 DEF Next

\* The jobs table implements the status machine: no interleaving of the
\* conditional UPDATEs takes a job along an edge statemachine.go does not name.
THEOREM ImplementsLifecycle == Spec => LifecycleSpec
<1>1. Init => Lifecycle!Init
  BY DEF Init, NoRow, Lifecycle!Init, Lifecycle!Absent, Absent
<1>2. IInv /\ [Next]_vars => [Lifecycle!Next]_([j \in Jobs |-> row[j].status])
  <2>1. ASSUME IInv, Next PROVE Lifecycle!Next
    BY <2>1, StatementMoves DEF Lifecycle!Next
  <2>. QED BY <2>1 DEF vars
<1>. QED BY Inductive, <1>1, <1>2, PTL DEF Spec, LifecycleSpec, Lifecycle!Spec

==============================================================================
