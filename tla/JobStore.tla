------------------------------ MODULE JobStore -------------------------------
(***************************************************************************)
(* The `jobs` table and the conditional UPDATEs of internal/store/store.go *)
(* that are the only writers of it, together with the claims that runners  *)
(* hold in memory.  Every action is one SQL statement, atomic in Postgres; *)
(* its guard is the statement's WHERE clause.  Who issues a statement,     *)
(* when, and what travels through Redis in between is the subject of       *)
(* module Dispatch; here any caller may issue any statement at any time,   *)
(* which is what at-least-once delivery, zombies and split-brain leaders   *)
(* amount to.                                                              *)
(*                                                                         *)
(* Time is asynchronous: a lease is live until LeaseExpires says that      *)
(* lease_expires_at has passed, which may happen at any moment.            *)
(***************************************************************************)
EXTENDS JobStatus, Naturals

CONSTANTS
    Jobs,                \* job ids
    Runners,             \* worker slots, each running one delivery at a time
    NoJob,               \* the job of a claim that is not held
    MaxAttemptsCeiling,  \* the largest max_attempts a submission may ask for
    EpochBound           \* bound: a row is requeued only below this epoch

ASSUME ConstantsOK ==
    /\ NoJob \notin Jobs
    /\ MaxAttemptsCeiling \in Nat \ {0}
    /\ EpochBound \in Nat

VARIABLES
    row,    \* row[j]: the columns of job j that a WHERE clause reads
    claim   \* claim[r]: the store.Claim runner r holds in memory

vars == <<row, claim>>

Leases == {"none", "live", "expired"}   \* lease_expires_at: NULL, ahead, passed

Rows ==
    [status   : Statuses \cup {Absent},
     epoch    : Nat,                    \* lease_epoch, the fencing token
     attempts : Nat,                    \* attempt_count
     max      : 1 .. MaxAttemptsCeiling,
     lease    : Leases,
     enq      : BOOLEAN]                \* enqueued_stream_id IS NOT NULL

NoRow == [status |-> Absent, epoch |-> 0, attempts |-> 0, max |-> 1,
          lease |-> "none", enq |-> FALSE]

Claims == [job : Jobs \cup {NoJob}, epoch : Nat, attempt : Nat, max : Nat]

NoClaim == [job |-> NoJob, epoch |-> 0, attempt |-> 0, max |-> 0]

TypeOK ==
    /\ row \in [Jobs -> Rows]
    /\ claim \in [Runners -> Claims]

Init ==
    /\ row = [j \in Jobs |-> NoRow]
    /\ claim = [r \in Runners |-> NoClaim]

Holds(r) == claim[r] # NoClaim

\* The WHERE clause of every statement a claim holder issues: the row still
\* carries the claim's epoch and is RUNNING.
Fence(r) ==
    /\ Holds(r)
    /\ row[claim[r].job].epoch = claim[r].epoch
    /\ row[claim[r].job].status = "RUNNING"

Claimable(j) == row[j].status \in WaitingStatuses

\* WHERE status = 'RUNNING' AND lease_expires_at < now() - grace.
Reapable(j) == row[j].status = "RUNNING" /\ row[j].lease = "expired"

\* Variant: the off-by-one of `attempt_count > max_attempts`.
ExhaustedOffByOne(j) == row[j].attempts > row[j].max

Exhausted(j) == row[j].attempts >= row[j].max

------------------------------------------------------------------------------
(* Submission and its Redis receipt.                                         *)

\* Variant: a submission's zero max_attempts is not replaced by the default.
CreateJobNoDefault(j, max) ==
    /\ row[j].status = Absent
    /\ row' = [row EXCEPT ![j] = [NoRow EXCEPT !.status = "PENDING", !.max = max - 1]]
    /\ UNCHANGED claim

\* Variant: the row is inserted as if the XADD had already happened.
CreateJobPresumesReceipt(j, max) ==
    /\ row[j].status = Absent
    /\ row' = [row EXCEPT ![j] = [NoRow EXCEPT !.status = "PENDING", !.max = max,
                                               !.enq = TRUE]]
    /\ UNCHANGED claim

CreateJob(j, max) ==
    /\ row[j].status = Absent
    /\ row' = [row EXCEPT ![j] = [NoRow EXCEPT !.status = "PENDING", !.max = max]]
    /\ UNCHANGED claim

\* WHERE enqueued_stream_id IS NULL: a second receipt changes nothing.
SetEnqueued(j) ==
    /\ row' = [row EXCEPT ![j].enq = TRUE]
    /\ UNCHANGED claim

------------------------------------------------------------------------------
(* The claim and the statements fenced by it.                                *)

\* Variant: the claim does not take a new epoch.
ClaimJobSameEpoch(r, j) ==
    /\ ~Holds(r)
    /\ Claimable(j)
    /\ row' = [row EXCEPT ![j].status = "RUNNING",
                          ![j].lease = "live",
                          ![j].attempts = row[j].attempts + 1]
    /\ claim' = [claim EXCEPT ![r] = [job     |-> j,
                                      epoch   |-> row[j].epoch,
                                      attempt |-> row[j].attempts + 1,
                                      max     |-> row[j].max]]

ClaimJob(r, j) ==
    /\ ~Holds(r)
    /\ Claimable(j)
    /\ row' = [row EXCEPT ![j].status = "RUNNING",
                          ![j].epoch = row[j].epoch + 1,
                          ![j].lease = "live",
                          ![j].attempts = row[j].attempts + 1]
    /\ claim' = [claim EXCEPT ![r] = [job     |-> j,
                                      epoch   |-> row[j].epoch + 1,
                                      attempt |-> row[j].attempts + 1,
                                      max     |-> row[j].max]]

ExtendLease(r) ==
    /\ Fence(r)
    /\ row' = [row EXCEPT ![claim[r].job].lease = "live"]
    /\ UNCHANGED claim

\* Variant: the outcome leaves lease_expires_at in place.
FencedWriteKeepsLease(r, to) ==
    /\ Fence(r)
    /\ row' = [row EXCEPT ![claim[r].job].status = to]
    /\ UNCHANGED claim

\* The common shape of the five outcome statements.
FencedWrite(r, to) ==
    /\ Fence(r)
    /\ row' = [row EXCEPT ![claim[r].job].status = to,
                          ![claim[r].job].lease = "none"]
    /\ UNCHANGED claim

CompleteJob(r)   == FencedWrite(r, "COMPLETED")
FailJob(r)       == FencedWrite(r, "FAILED")
CancelRunning(r) == FencedWrite(r, "CANCELLED")

\* finish() picks between these two by the coordinates of its claim.
DeadLetterJob(r) == claim[r].attempt >= claim[r].max /\ FencedWrite(r, "DEAD_LETTER")
ScheduleRetry(r) == claim[r].attempt <  claim[r].max /\ FencedWrite(r, "RETRYING")

\* A runner forgets its claim: it is done with the delivery, or it died.
DropClaim(r) ==
    /\ Holds(r)
    /\ claim' = [claim EXCEPT ![r] = NoClaim]
    /\ UNCHANGED row

------------------------------------------------------------------------------
(* Recovery, cancellation, requeue, and the passing of time.                 *)

LeaseExpires(j) ==
    /\ row[j].lease = "live"
    /\ row' = [row EXCEPT ![j].lease = "expired"]
    /\ UNCHANGED claim

ReapJob(j) ==
    /\ Reapable(j)
    /\ row' = [row EXCEPT ![j].epoch = row[j].epoch + 1,
                          ![j].status = IF Exhausted(j) THEN "DEAD_LETTER"
                                                        ELSE "RETRYING",
                          ![j].lease = "none"]
    /\ UNCHANGED claim

\* WHERE id = ANY(js) AND status = 'RETRYING'.
MarkPromoted(js) ==
    /\ row' = [j \in Jobs |-> IF j \in js /\ row[j].status = "RETRYING"
                              THEN [row[j] EXCEPT !.status = "PENDING"]
                              ELSE row[j]]
    /\ UNCHANGED claim

\* Variant: the cancel trusts the status its caller loaded.
CancelJobUnchecked(j) ==
    /\ row[j].status # Absent
    /\ row' = [row EXCEPT ![j].status = "CANCELLED",
                          ![j].epoch = row[j].epoch + 1]
    /\ UNCHANGED claim

CancelJob(j) ==
    /\ row[j].status \in WaitingStatuses
    /\ row' = [row EXCEPT ![j].status = "CANCELLED",
                          ![j].epoch = row[j].epoch + 1]
    /\ UNCHANGED claim

\* Variant: the fresh run starts again from epoch 0.
RequeueFromScratch(j) ==
    /\ row[j].status = "DEAD_LETTER"
    /\ row[j].epoch < EpochBound
    /\ row' = [row EXCEPT ![j].status = "PENDING",
                          ![j].attempts = 0,
                          ![j].epoch = 0,
                          ![j].enq = FALSE]
    /\ UNCHANGED claim

RequeueDeadLetter(j) ==
    /\ row[j].status = "DEAD_LETTER"
    /\ row[j].epoch < EpochBound
    /\ row' = [row EXCEPT ![j].status = "PENDING",
                          ![j].attempts = 0,
                          ![j].epoch = row[j].epoch + 1,
                          ![j].enq = FALSE]
    /\ UNCHANGED claim

------------------------------------------------------------------------------

Statement(j) ==
    \/ \E max \in 1 .. MaxAttemptsCeiling : CreateJob(j, max)
    \/ row[j].status # Absent /\ SetEnqueued(j)
    \/ LeaseExpires(j)
    \/ ReapJob(j)
    \/ CancelJob(j)
    \/ RequeueDeadLetter(j)

HolderStatement(r) ==
    \/ \E j \in Jobs : ClaimJob(r, j)
    \/ ExtendLease(r)
    \/ CompleteJob(r)
    \/ FailJob(r)
    \/ CancelRunning(r)
    \/ DeadLetterJob(r)
    \/ ScheduleRetry(r)
    \/ DropClaim(r)

Next ==
    \/ \E j \in Jobs : Statement(j)
    \/ \E r \in Runners : HolderStatement(r)
    \/ \E js \in SUBSET Jobs : MarkPromoted(js)

Spec == Init /\ [][Next]_vars

------------------------------------------------------------------------------
(* Properties.                                                               *)

\* Mutual exclusion of outcomes.  However many deliveries of a job are in
\* flight and however stale the runners behind them, at most one runner's
\* claim passes the WHERE clause of the outcome statements (store.go, "ok=false
\* is the fence doing its job").
ClaimsExclusive ==
    \A r, s \in Runners :
        Fence(r) /\ Fence(s) /\ claim[r].job = claim[s].job => r = s

\* The retry budget, across workers, reapers and requeues.  A waiting row can
\* afford the attempt a claim would start, no row ever starts more attempts
\* than max_attempts, and a job is only dead-lettered with its budget spent.
\* finish() decides by the attempt number in its claim, ReapJob by the row's
\* own column, so this needs the two to agree whenever the fence lets a write
\* through.
BudgetRespected ==
    \A j \in Jobs :
        /\ row[j].attempts <= row[j].max
        /\ row[j].status \in WaitingStatuses => row[j].attempts < row[j].max
        /\ row[j].status = "DEAD_LETTER" => row[j].attempts = row[j].max

\* A row is leased exactly while it is RUNNING.  ListExpiredRunning and
\* ReapJob compare lease_expires_at with now(), and SQL's comparison with NULL
\* is never true, so a RUNNING row without a lease could never be recovered.
RunningIsLeased ==
    \A j \in Jobs : row[j].status = "RUNNING" <=> row[j].lease # "none"

\* A zombie stays a zombie: once a held claim has failed the fence (its job
\* was reaped, finished, cancelled or requeued), no later statement, requeue
\* included, makes it pass again.
FencedForever ==
    [][\A r \in Runners :
          Holds(r) /\ ~Fence(r) /\ claim'[r] = claim[r] => ~Fence(r)']_vars

\* Refinement: the statements move every row along the edges of the table in
\* statemachine.go, in particular COMPLETED, FAILED and CANCELLED are final.
Lifecycle == INSTANCE JobLifecycle WITH status <- [j \in Jobs |-> row[j].status]

LifecycleSpec == Lifecycle!Spec

==============================================================================
