--------------------------- MODULE DispatchProofs ----------------------------
(***************************************************************************)
(* Proofs about Dispatch, for any number of jobs, runners, leaders, calls  *)
(* and envelopes, any mix of faults, and workers that renew in time or do  *)
(* not.  What JobStoreProofs proves of the jobs table is used here through *)
(* the instance Table, once every step of the processes is shown to be a   *)
(* statement of JobStore or to leave the table alone.                      *)
(*                                                                         *)
(* The inductive invariant IInv is JobStore's own, together with one       *)
(* thing that each holder of a job id knows (the job's row has been        *)
(* written: Redis and the processes only learn of jobs from Postgres) and  *)
(* with what a runner's place in its loop says about its claim.  The first *)
(* is needed because SetEnqueued, ReapJob and MarkPromoted are statements  *)
(* about a row that exists; the second is what "durable record FIRST, ack  *)
(* SECOND" rests on.                                                       *)
(***************************************************************************)
EXTENDS Dispatch, TLAPS

Table == INSTANCE JobStoreProofs

\* Jobs whose row has been inserted.  Rows are never deleted.
Existing == {j \in Jobs : row[j].status # Store!Absent}

\* Every envelope in Redis is of a job that Postgres knows.
EntriesOK ==
    /\ entry \in [Entries -> [place : Places, job : Jobs \cup {NoJob}]]
    /\ \A e \in Entries : entry[e].place # "free" => entry[e].job \in Existing

\* So is every delivery a runner works on.
RunnersOK ==
    /\ runner \in [Runners -> [at : {"idle", "claim", "run", "handoff", "ack"},
                               d : Deliveries,
                               cause : {"none", "lost", "cancel"}]]
    /\ \A r \in Runners : runner[r].at # "idle" => runner[r].d.job \in Existing

\* Heads of a leader's duties, and its steps on one delivery.
Heads == {"promoted", "reap", "sweep", "orphan", "stuck"}

PerDelivery == {"handoff", "classify", "reenqueue", "ack", "sweepHandoff",
                "orphanMark", "stuckMark"}

\* A leader's state is well formed when the jobs it is about to touch are
\* among those that exist.
LeaderFits(x, jobs) ==
    /\ x \in [at : {"idle"} \cup Heads \cup PerDelivery,
              todo : SUBSET Deliveries, cur : Deliveries]
    /\ \A d \in x.todo : d.job \in jobs
    /\ x.at \in PerDelivery => x.cur.job \in jobs

LeadersOK ==
    /\ leader = [l \in Leaders |-> leader[l]]
    /\ \A l \in Leaders : LeaderFits(leader[l], Existing)

CallsOK ==
    /\ call \in [Calls -> [at : {"idle", "submitted", "requeued", "receipt",
                                 "cancelWaiting", "raiseFlag"},
                           job : Jobs \cup {NoJob}]]
    /\ \A c \in Calls : call[c].at # "idle" => call[c].job \in Existing

\* A runner that has not claimed holds no claim (so that the claim statement
\* is free to issue one), and one on its way to ack has nothing left to record.
HandsOff ==
    \A r \in Runners :
        /\ runner[r].at \in {"idle", "claim"} => ~Store!Holds(r)
        /\ runner[r].at \in {"handoff", "ack"} => ~Store!Fence(r)

IInv ==
    /\ Table!IInv
    /\ EntriesOK /\ RunnersOK /\ LeadersOK /\ CallsOK /\ HandsOff
    /\ flag \in [Jobs -> BOOLEAN]
    /\ faults \in 0 .. MaxFaults

------------------------------------------------------------------------------
(* The table.                                                                *)

\* Store and Table are the same statements.
LEMMA SameTable == (Store!Next <=> Table!Next) /\ (Store!TypeOK <=> Table!TypeOK)
<1>1. ASSUME NEW j \in Jobs PROVE Store!Statement(j) <=> Table!Statement(j)
  BY DEF Store!Statement, Table!Statement, Store!CreateJob, Table!CreateJob,
      Store!SetEnqueued, Table!SetEnqueued, Store!LeaseExpires, Table!LeaseExpires,
      Store!ReapJob, Table!ReapJob, Store!Reapable, Table!Reapable, Store!Exhausted,
      Table!Exhausted, Store!CancelJob, Table!CancelJob, Store!RequeueDeadLetter,
      Table!RequeueDeadLetter, Store!NoRow, Table!NoRow, Store!Absent, Table!Absent,
      Store!WaitingStatuses, Table!WaitingStatuses
<1>2. ASSUME NEW r \in Runners PROVE Store!HolderStatement(r) <=> Table!HolderStatement(r)
  BY DEF Store!HolderStatement, Table!HolderStatement, Store!ClaimJob, Table!ClaimJob,
      Store!Claimable, Table!Claimable, Store!ExtendLease, Table!ExtendLease,
      Store!CompleteJob, Table!CompleteJob, Store!FailJob, Table!FailJob,
      Store!CancelRunning, Table!CancelRunning, Store!DeadLetterJob, Table!DeadLetterJob,
      Store!ScheduleRetry, Table!ScheduleRetry, Store!DropClaim, Table!DropClaim,
      Store!FencedWrite, Table!FencedWrite, Store!Fence, Table!Fence, Store!Holds,
      Table!Holds, Store!NoClaim, Table!NoClaim, Store!WaitingStatuses,
      Table!WaitingStatuses
<1>3. ASSUME NEW js \in SUBSET Jobs PROVE Store!MarkPromoted(js) <=> Table!MarkPromoted(js)
  BY DEF Store!MarkPromoted, Table!MarkPromoted
<1>4. Store!Next <=> Table!Next
  BY <1>1, <1>2, <1>3 DEF Store!Next, Table!Next
<1>5. Store!TypeOK <=> Table!TypeOK
  BY DEF Store!TypeOK, Table!TypeOK, Store!Rows, Table!Rows, Store!Claims, Table!Claims,
      Store!Statuses, Table!Statuses, Store!Absent, Table!Absent, Store!Leases, Table!Leases
<1>. QED BY <1>4, <1>5

\* What a statement keeps: JobStore's invariant, and every row.
LEMMA TableStep ==
    ASSUME Table!IInv, [Store!Next]_storeVars
    PROVE  Table!IInv' /\ Existing \subseteq Existing'
<1>1. [Table!Next]_Table!vars
  BY SameTable DEF storeVars, Table!vars
<1>2. Table!IInv'
  BY <1>1, Table!StepIInv, DispatchConstantsOK
<1>3. ASSUME NEW j \in Existing PROVE j \in Existing'
  <2>1. CASE UNCHANGED storeVars
    BY <2>1, <1>3 DEF Existing, storeVars
  <2>2. CASE Table!Next
    <3>1. Table!Lifecycle!Moves(row[j].status, row'[j].status)
      BY <2>2, Table!StatementMoves, DispatchConstantsOK DEF Existing
    <3>. QED BY <3>1 DEF Existing, Store!Absent, Table!Lifecycle!Moves,
          Table!Lifecycle!CanTransition, Table!Lifecycle!Transitions, Table!Lifecycle!Absent
  <2>. QED BY <1>1, <2>1, <2>2 DEF storeVars, Table!vars
<1>. QED BY <1>2, <1>3

\* A claim the fence rejects, or that nobody holds, is rejected after any
\* statement that leaves it as it is.
LEMMA StaleClaim ==
    ASSUME Table!IInv, [Store!Next]_storeVars, NEW r \in Runners,
           ~Store!Fence(r), claim'[r] = claim[r]
    PROVE  ~Store!Fence(r)'
<1> USE DEF Store!Fence, Store!Holds, Store!NoClaim
<1>1. CASE UNCHANGED storeVars
  BY <1>1 DEF storeVars
<1>2. CASE claim[r] = Store!NoClaim
  BY <1>2
<1>3. CASE Store!Next /\ claim[r] # Store!NoClaim
  <2>1. Table!Holds(r) /\ ~Table!Fence(r)
    BY <1>3 DEF Table!Fence, Table!Holds, Table!NoClaim
  <2>2. ~Table!Fence(r)'
    BY <1>3, <2>1, SameTable, Table!StaleStaysStale, DispatchConstantsOK
  <2>. QED BY <2>2 DEF Table!Fence, Table!Holds, Table!NoClaim
<1>. QED BY <1>1, <1>2, <1>3 DEF storeVars

------------------------------------------------------------------------------
(* Every step is a statement of JobStore, or leaves the table alone.         *)

RunnerNext(r) ==
    \/ \E e \in Entries : Fetch(r, e)
    \/ Claim(r) \/ ExtendLease(r) \/ SeeCancelFlag(r)
    \/ Finish(r) \/ Handoff(r) \/ Ack(r) \/ RunnerCrash(r)

LeaderNext(l) ==
    \/ PromoteDue(l) \/ MarkPromoted(l)
    \/ ReapAbandoned(l) \/ ReapOne(l) \/ ReapHandoff(l)
    \/ Classify(l) \/ Reenqueue(l) \/ ReapAck(l)
    \/ ListExpiredRunning(l) \/ SweepOne(l) \/ SweepHandoff(l)
    \/ ListUnenqueued(l) \/ ListStuckRetrying(l) \/ RepairEnqueue(l)
    \/ OrphanMark(l) \/ StuckMark(l) \/ LeaderCrash(l)

CallNext(c) ==
    \/ Submit(c) \/ Requeue(c) \/ CallEnqueue(c) \/ CallEnqueueFails(c)
    \/ CallReceipt(c) \/ CancelLoad(c) \/ CancelWaiting(c) \/ RaiseFlag(c)
    \/ CallCrash(c)

\* A step is one process's, or the clock's.
LEMMA NextByProcess ==
    Next <=> \/ \E r \in Runners : RunnerNext(r)
             \/ \E l \in Leaders : LeaderNext(l)
             \/ \E c \in Calls : CallNext(c)
             \/ \E j \in Jobs : LeaseExpires(j)
BY DEF Next, RunnerNext, LeaderNext, CallNext

\* A runner that forgets its delivery drops its claim, if it holds one.
LEMMA LeavingIsStatement ==
    ASSUME Table!IInv, NEW r \in Runners, RunnerLeaves(r)
    PROVE  [Store!HolderStatement(r)]_storeVars
<1>1. CASE Store!Holds(r)
  BY <1>1 DEF RunnerLeaves, Store!HolderStatement, Store!DropClaim
<1>2. CASE ~Store!Holds(r)
  <2>1. claim \in [Runners -> Table!Claims]
    BY DEF Table!IInv, Table!TypeOK
  <2>2. claim' = claim
    BY <1>2, <2>1 DEF RunnerLeaves, Store!Holds
  <2>. QED BY <2>2 DEF RunnerLeaves, storeVars
<1>. QED BY <1>1, <1>2

\* What a runner does to the table, it does by the statements of a claim holder.
LEMMA RunnerIsStatement ==
    ASSUME IInv, NEW r \in Runners, RunnerNext(r)
    PROVE  [Store!HolderStatement(r)]_storeVars
<1>1. CASE \E e \in Entries : Fetch(r, e)
  BY <1>1 DEF Fetch
<1>2. CASE Claim(r)
  <2>1. runner[r].d.job \in Jobs
    BY <1>2 DEF IInv, RunnersOK, Existing, Claim
  <2>2. Store!ClaimJob(r, runner[r].d.job) => Store!HolderStatement(r)
    BY <2>1 DEF Store!HolderStatement
  <2>. QED BY <1>2, <2>2, LeavingIsStatement DEF Claim, IInv
<1>3. CASE ExtendLease(r)
  BY <1>3 DEF ExtendLease, Store!HolderStatement
<1>4. CASE SeeCancelFlag(r)
  BY <1>4 DEF SeeCancelFlag
<1>5. CASE Finish(r)
  <2>1. Outcome(r) => Store!HolderStatement(r)
    BY DEF Outcome, Store!HolderStatement
  <2>. QED BY <1>5, <2>1, LeavingIsStatement DEF Finish, IInv
<1>6. CASE Handoff(r)
  BY <1>6 DEF Handoff
<1>7. CASE Ack(r) \/ RunnerCrash(r)
  BY <1>7, LeavingIsStatement DEF Ack, RunnerCrash, IInv
<1>. QED BY <1>1, <1>2, <1>3, <1>4, <1>5, <1>6, <1>7 DEF RunnerNext

\* A leader reaps, marks and promotes rows, and knows none that do not exist.
LEMMA LeaderIsStatement ==
    ASSUME IInv, NEW l \in Leaders, LeaderNext(l)
    PROVE  [Store!Next]_storeVars /\ claim' = claim
<1>1. ASSUME NEW d \in leader[l].todo PROVE d.job \in Jobs
  BY DEF IInv, LeadersOK, LeaderFits, Existing
<1>2. CASE \/ PromoteDue(l) \/ ReapAbandoned(l) \/ ListExpiredRunning(l)
           \/ ListUnenqueued(l) \/ ListStuckRetrying(l)
           \/ ReapHandoff(l) \/ Classify(l) \/ Reenqueue(l) \/ ReapAck(l)
           \/ SweepHandoff(l) \/ RepairEnqueue(l) \/ LeaderCrash(l)
  BY <1>2 DEF PromoteDue, ReapAbandoned, ListExpiredRunning, ListUnenqueued,
      ListStuckRetrying, ReapHandoff, Classify, Reenqueue, ReapAck, SweepHandoff,
      RepairEnqueue, LeaderCrash, storeVars
<1>3. CASE MarkPromoted(l)
  <2>1. {d.job : d \in leader[l].todo} \in SUBSET Jobs
    BY <1>1
  <2>. QED BY <1>3, <2>1 DEF MarkPromoted, Store!Next, Store!MarkPromoted, storeVars
<1>4. CASE ReapOne(l) \/ SweepOne(l)
  <2>1. \/ \E d \in leader[l].todo : Store!ReapJob(d.job)
        \/ UNCHANGED storeVars
    BY <1>4 DEF ReapOne, SweepOne
  <2>. QED BY <1>1, <2>1 DEF Store!Next, Store!Statement, Store!ReapJob, storeVars
<1>5. CASE OrphanMark(l)
  <2>1. leader[l].cur.job \in Jobs /\ row[leader[l].cur.job].status # Store!Absent
    BY <1>5 DEF OrphanMark, IInv, LeadersOK, LeaderFits, PerDelivery, Existing
  <2>. QED BY <1>5, <2>1 DEF OrphanMark, Store!Next, Store!Statement, Store!SetEnqueued,
        storeVars
<1>6. CASE StuckMark(l)
  <2>1. {leader[l].cur.job} \in SUBSET Jobs
    BY <1>6 DEF StuckMark, IInv, LeadersOK, LeaderFits, PerDelivery, Existing
  <2>. QED BY <1>6, <2>1 DEF StuckMark, Store!Next, Store!MarkPromoted, storeVars
<1>. QED BY <1>2, <1>3, <1>4, <1>5, <1>6 DEF LeaderNext

\* Likewise an HTTP request.
LEMMA CallIsStatement ==
    ASSUME IInv, NEW c \in Calls, CallNext(c)
    PROVE  [Store!Next]_storeVars /\ claim' = claim
<1>1. call[c].at # "idle" =>
        call[c].job \in Jobs /\ row[call[c].job].status # Store!Absent
  BY DEF IInv, CallsOK, Existing
<1>2. CASE Submit(c) \/ Requeue(c)
  BY <1>2 DEF Submit, Requeue, Store!Next, Store!Statement, Store!CreateJob,
      Store!RequeueDeadLetter
<1>3. CASE CallReceipt(c)
  BY <1>1, <1>3 DEF CallReceipt, Store!Next, Store!Statement, Store!SetEnqueued, storeVars
<1>4. CASE CancelWaiting(c)
  BY <1>1, <1>4 DEF CancelWaiting, Store!Next, Store!Statement, Store!CancelJob, storeVars
<1>5. CASE \/ CallEnqueue(c) \/ CallEnqueueFails(c) \/ CancelLoad(c)
           \/ RaiseFlag(c) \/ CallCrash(c)
  BY <1>5 DEF CallEnqueue, CallEnqueueFails, CancelLoad, RaiseFlag, CallCrash, storeVars
<1>. QED BY <1>2, <1>3, <1>4, <1>5 DEF CallNext

\* The step half of the refinement.
LEMMA NextIsStatement == IInv /\ [Next]_vars => [Store!Next]_storeVars
<1>1. ASSUME NEW j \in Jobs, LeaseExpires(j) PROVE Store!Next
  BY <1>1 DEF LeaseExpires, Store!Next, Store!Statement
<1>2. ASSUME NEW r \in Runners, Store!HolderStatement(r) PROVE Store!Next
  BY <1>2 DEF Store!Next
<1>. QED BY <1>1, <1>2, NextByProcess, RunnerIsStatement, LeaderIsStatement,
      CallIsStatement DEF vars, storeVars

------------------------------------------------------------------------------
(* Everybody's jobs exist.  A state holds on to its jobs when the table grows, *)
(* and an operation brings in jobs that are in the table already.             *)

\* XADD and ZADD.
LEMMA EnqueueFits ==
    ASSUME EntriesOK, Existing \subseteq Existing',
           NEW j \in Existing, NEW place \in Places, Enqueue(j, place)
    PROVE  EntriesOK'
<1>1. [place |-> place, job |-> j] \in [place : Places, job : Jobs \cup {NoJob}]
  BY DEF Existing
<1>. QED BY <1>1 DEF EntriesOK, Enqueue

\* XACK and XDEL.
LEMMA RemoveFits ==
    ASSUME EntriesOK, Existing \subseteq Existing', NEW e, Remove(e)
    PROVE  EntriesOK'
BY DEF EntriesOK, Remove, Free, Places

\* An envelope that moves from one place to another keeps its job.
LEMMA EntriesKept ==
    ASSUME EntriesOK, Existing \subseteq Existing', entry' = entry
    PROVE  EntriesOK'
BY DEF EntriesOK

\* A runner brings in the job of its delivery when it fetches one.
LEMMA RunnerStepFits ==
    ASSUME IInv, Existing \subseteq Existing', NEW r \in Runners, RunnerNext(r)
    PROVE  EntriesOK' /\ RunnersOK'
<1> USE DEF IInv
<1> DEFINE Rec == [at : {"idle", "claim", "run", "handoff", "ack"}, d : Deliveries,
                   cause : {"none", "lost", "cancel"}]
<1>0. EntriesOK /\ RunnersOK
  OBVIOUS
<1>1. ASSUME NEW x, runner' = [runner EXCEPT ![r] = x], x \in Rec,
             x.at # "idle" => x.d.job \in Existing
      PROVE  RunnersOK'
  BY <1>0, <1>1 DEF RunnersOK
<1>2. ASSUME NEW at \in {"claim", "run", "handoff", "ack"}, RunnerGoes(r, at),
             runner[r].at # "idle"
      PROVE  RunnersOK'
  <2> DEFINE x == [at |-> at, d |-> runner[r].d, cause |-> runner[r].cause]
  <2>0. [runner[r] EXCEPT !.at = at] = x
    BY <1>0 DEF RunnersOK
  <2>1. runner' = [runner EXCEPT ![r] = x]
    BY <1>2, <2>0 DEF RunnerGoes
  <2>2. x \in Rec /\ x.d.job \in Existing
    BY <1>0, <1>2 DEF RunnersOK
  <2>. HIDE DEF x
  <2>. QED BY <1>1, <2>1, <2>2
<1>3. ASSUME NEW cause \in {"lost", "cancel"}, runner[r].at = "run",
             runner' = [runner EXCEPT ![r].cause = cause]
      PROVE  RunnersOK'
  <2> DEFINE x == [at |-> runner[r].at, d |-> runner[r].d, cause |-> cause]
  <2>0. [runner[r] EXCEPT !.cause = cause] = x
    BY <1>0 DEF RunnersOK
  <2>1. runner' = [runner EXCEPT ![r] = x]
    BY <1>3, <2>0
  <2>2. x \in Rec /\ x.d.job \in Existing
    BY <1>0, <1>3 DEF RunnersOK
  <2>. HIDE DEF x
  <2>. QED BY <1>1, <2>1, <2>2
<1>4. ASSUME RunnerLeaves(r) PROVE RunnersOK'
  <2>1. IdleRunner \in Rec /\ IdleRunner.at = "idle"
    BY DEF IdleRunner, NoDelivery, Deliveries
  <2>. QED BY <1>1, <1>4, <2>1 DEF RunnerLeaves
<1>5. CASE \E e \in Entries : Fetch(r, e)
  <2>1. PICK e \in Entries : Fetch(r, e)
    BY <1>5
  <2> DEFINE x == [at |-> "claim", d |-> Delivery(e), cause |-> "none"]
  <2>2. entry[e].job \in Existing
    BY <1>0, <2>1 DEF Fetch, EntriesOK
  <2>3. x \in Rec /\ x.d.job \in Existing
    BY <1>0, <2>2 DEF Delivery, Deliveries, RunnersOK, Existing
  <2>4. runner' = [runner EXCEPT ![r] = x]
    BY <2>1 DEF Fetch
  <2>5. RunnersOK'
    <3>. HIDE DEF x
    <3>. QED BY <1>1, <2>3, <2>4
  <2>6. entry' = [entry EXCEPT ![e] = [place |-> "pel", job |-> entry[e].job]]
    <3>1. [entry[e] EXCEPT !.place = "pel"] = [place |-> "pel", job |-> entry[e].job]
      BY <1>0 DEF EntriesOK
    <3>. QED BY <2>1, <3>1 DEF Fetch
  <2>7. EntriesOK'
    BY <1>0, <2>2, <2>6 DEF EntriesOK, Places, Existing
  <2>. QED BY <2>5, <2>7
<1>6. CASE Claim(r)
  BY <1>0, <1>2, <1>4, <1>6, EntriesKept DEF Claim
<1>7. CASE ExtendLease(r) \/ SeeCancelFlag(r)
  <2>1. CASE runner' = runner
    BY <1>0, <1>7, <2>1, EntriesKept DEF RunnersOK, ExtendLease, SeeCancelFlag
  <2>. QED BY <1>0, <1>3, <1>7, <2>1, EntriesKept DEF ExtendLease, SeeCancelFlag
<1>8. CASE Finish(r)
  BY <1>0, <1>2, <1>4, <1>8, EntriesKept DEF Finish
<1>9. CASE Handoff(r)
  <2>1. runner[r].d.job \in Existing
    BY <1>0, <1>9 DEF Handoff, RunnersOK
  <2>2. EntriesOK'
    BY <1>0, <1>9, <2>1, EnqueueFits, EntriesKept DEF Handoff, ScheduleRetry, Places
  <2>. QED BY <1>2, <1>9, <2>2 DEF Handoff
<1>10. CASE Ack(r) \/ RunnerCrash(r)
  BY <1>0, <1>4, <1>10, RemoveFits, EntriesKept DEF Ack, RunnerCrash
<1>. QED BY <1>5, <1>6, <1>7, <1>8, <1>9, <1>10 DEF RunnerNext

\* A leader that moves to a fitting state.
LEMMA LeaderMoves ==
    ASSUME LeadersOK, Existing \subseteq Existing', NEW l \in Leaders, NEW x,
           leader' = [leader EXCEPT ![l] = x], LeaderFits(x, Existing)
    PROVE  LeadersOK'
BY DEF LeadersOK, LeaderFits

\* The moves of a duty's loop: to the next step on the same delivery, to the
\* first step on a delivery of the batch, past it, and back to the head.
LEMMA LoopFits ==
    ASSUME LeadersOK, Existing \subseteq Existing', NEW l \in Leaders,
           \/ \E at \in PerDelivery : LeaderGoes(l, at) /\ leader[l].at \in PerDelivery
           \/ \E d \in leader[l].todo, at \in PerDelivery : Take(l, d, at)
           \/ \E d \in leader[l].todo : Skip(l, d) /\ leader[l].at \in Heads
           \/ \E head \in Heads : Continue(l, head)
           \/ leader' = [leader EXCEPT ![l] = IdleLeader]
    PROVE  LeadersOK'
<1> DEFINE y == leader[l]
<1>0. LeaderFits(y, Existing)
  BY DEF LeadersOK
<1>1. LeaderFits(IdleLeader, Existing)
  BY DEF LeaderFits, IdleLeader, NoDelivery, Deliveries, PerDelivery
<1>2. ASSUME NEW at \in PerDelivery, LeaderGoes(l, at), y.at \in PerDelivery
      PROVE  LeadersOK'
  <2>1. [y EXCEPT !.at = at] = [at |-> at, todo |-> y.todo, cur |-> y.cur]
    BY <1>0 DEF LeaderFits
  <2>2. LeaderFits([at |-> at, todo |-> y.todo, cur |-> y.cur], Existing)
    BY <1>0, <1>2 DEF LeaderFits
  <2>. QED BY <1>2, <2>1, <2>2, LeaderMoves DEF LeaderGoes
<1>3. ASSUME NEW d \in y.todo, NEW at \in PerDelivery, Take(l, d, at)
      PROVE  LeadersOK'
  <2>1. LeaderFits([at |-> at, todo |-> y.todo \ {d}, cur |-> d], Existing)
    BY <1>0 DEF LeaderFits
  <2>. QED BY <1>3, <2>1, LeaderMoves DEF Take
<1>4. ASSUME NEW d \in y.todo, Skip(l, d), y.at \in Heads
      PROVE  LeadersOK'
  <2>0. ASSUME NEW z
        PROVE  [y EXCEPT !.todo = z] = [at |-> y.at, todo |-> z, cur |-> y.cur]
    BY <1>0 DEF LeaderFits
  <2>1. [y EXCEPT !.todo = y.todo \ {d}]
          = [at |-> y.at, todo |-> y.todo \ {d}, cur |-> y.cur]
    BY <2>0
  <2>2. LeaderFits([at |-> y.at, todo |-> y.todo \ {d}, cur |-> y.cur], Existing)
    BY <1>0, <1>4 DEF LeaderFits, Heads, PerDelivery
  <2>. QED BY <1>1, <1>4, <2>1, <2>2, LeaderMoves DEF Skip
<1>5. ASSUME NEW head \in Heads, Continue(l, head)
      PROVE  LeadersOK'
  <2>1. LeaderFits([at |-> head, todo |-> y.todo, cur |-> NoDelivery], Existing)
    BY <1>0 DEF LeaderFits, Heads, PerDelivery, NoDelivery, Deliveries
  <2>. QED BY <1>1, <1>5, <2>1, LeaderMoves DEF Continue
<1>. QED BY <1>1, <1>2, <1>3, <1>4, <1>5, LeaderMoves

\* A duty starts with a batch of jobs that exist.
LEMMA StartFits ==
    ASSUME LeadersOK, Existing \subseteq Existing', NEW l \in Leaders,
           NEW head \in Heads, NEW batch \in SUBSET Deliveries,
           \A d \in batch : d.job \in Existing, StartDuty(l, head, batch)
    PROVE  LeadersOK'
<1>1. LeaderFits([at |-> head, todo |-> batch, cur |-> NoDelivery], Existing)
  BY DEF LeaderFits, Heads, PerDelivery, NoDelivery, Deliveries
<1>. QED BY <1>1, LeaderMoves DEF StartDuty

\* A sweep's batch lists jobs of the table.
LEMMA ListedFits ==
    ASSUME NEW js \in SUBSET Existing
    PROVE  Listed(js) \subseteq Deliveries /\ \A d \in Listed(js) : d.job \in Existing
BY DEF Listed, Deliveries, Existing

\* What a leader takes up, it read from Redis or from the table.
LEMMA LeaderStepFits ==
    ASSUME IInv, Existing \subseteq Existing', NEW l \in Leaders, LeaderNext(l)
    PROVE  EntriesOK' /\ LeadersOK'
<1>0. EntriesOK /\ LeadersOK
  BY DEF IInv
<1>1. \A d \in leader[l].todo : d.job \in Existing
  BY <1>0 DEF LeadersOK, LeaderFits
<1>2. leader[l].at \in PerDelivery => leader[l].cur.job \in Existing
  BY <1>0 DEF LeadersOK, LeaderFits
<1>3. \A e \in Entries : entry[e].place # "free" => entry[e].job \in Existing
  BY <1>0 DEF EntriesOK
<1>4. CASE PromoteDue(l)
  <2>1. PICK due \in SUBSET At("delayed") :
          /\ StartDuty(l, "promoted", Listed({entry[e].job : e \in due}))
          /\ entry' = [e \in Entries |-> IF e \in due THEN [entry[e] EXCEPT !.place = "ready"]
                                         ELSE entry[e]]
    BY <1>4 DEF PromoteDue
  <2>2. {entry[e].job : e \in due} \in SUBSET Existing
    BY <1>3 DEF At
  <2>3. LeadersOK'
    BY <1>0, <2>1, <2>2, ListedFits, StartFits DEF Heads
  <2>4. ASSUME NEW e \in Entries
        PROVE  [entry[e] EXCEPT !.place = "ready"] = [place |-> "ready", job |-> entry[e].job]
    BY <1>0 DEF EntriesOK
  <2>5. EntriesOK'
    BY <1>0, <2>1, <2>4 DEF EntriesOK, Places, At
  <2>. QED BY <2>3, <2>5
<1>5. CASE ReapAbandoned(l)
  <2>1. PICK idle \in SUBSET Abandoned : StartDuty(l, "reap", {Delivery(e) : e \in idle})
    BY <1>5 DEF ReapAbandoned
  <2>2. ASSUME NEW e \in idle PROVE Delivery(e) \in Deliveries /\ Delivery(e).job \in Existing
    BY <1>3 DEF Abandoned, At, Delivery, Deliveries, Existing
  <2>3. LeadersOK'
    BY <1>0, <2>1, <2>2, StartFits DEF Heads
  <2>. QED BY <1>0, <1>5, <2>3, EntriesKept DEF ReapAbandoned
<1>6. CASE ListExpiredRunning(l) \/ ListUnenqueued(l) \/ ListStuckRetrying(l)
  <2>1. /\ {j \in Jobs : Store!Reapable(j)} \in SUBSET Existing
        /\ Unenqueued \in SUBSET Existing
        /\ {j \in Jobs : row[j].status = "RETRYING"} \in SUBSET Existing
    BY DEF Store!Reapable, Unenqueued, Existing, Store!Absent
  <2>2. LeadersOK'
    BY <1>0, <1>6, <2>1, ListedFits, StartFits
       DEF ListExpiredRunning, ListUnenqueued, ListStuckRetrying, Heads
  <2>. QED BY <1>0, <1>6, <2>2, EntriesKept
       DEF ListExpiredRunning, ListUnenqueued, ListStuckRetrying
<1>7. CASE ReapOne(l) \/ SweepOne(l)
  <2>1. LeadersOK'
    BY <1>0, <1>7, LoopFits DEF ReapOne, SweepOne, PerDelivery, Heads
  <2>. QED BY <1>0, <1>7, <2>1, EntriesKept DEF ReapOne, SweepOne
<1>8. CASE ReapHandoff(l) \/ SweepHandoff(l)
  <2>1. LeadersOK'
    BY <1>0, <1>8, LoopFits DEF ReapHandoff, SweepHandoff, PerDelivery, Heads
  <2>2. EntriesOK'
    BY <1>0, <1>2, <1>8, EnqueueFits, EntriesKept
       DEF ReapHandoff, SweepHandoff, ScheduleRetry, PerDelivery, Places
  <2>. QED BY <2>1, <2>2
<1>9. CASE Classify(l)
  BY <1>0, <1>9, LoopFits, EntriesKept DEF Classify, PerDelivery, Heads
<1>10. CASE Reenqueue(l)
  <2>1. LeadersOK'
    BY <1>0, <1>10, LoopFits DEF Reenqueue, PerDelivery, Heads
  <2>2. EntriesOK'
    BY <1>0, <1>2, <1>10, EnqueueFits, EntriesKept DEF Reenqueue, PerDelivery, Places
  <2>. QED BY <2>1, <2>2
<1>11. CASE ReapAck(l)
  BY <1>0, <1>11, LoopFits, RemoveFits, EntriesKept DEF ReapAck, Heads
<1>12. CASE RepairEnqueue(l)
  <2>1. LeadersOK'
    BY <1>0, <1>12, LoopFits DEF RepairEnqueue, PerDelivery, Heads
  <2>2. EntriesOK'
    BY <1>0, <1>1, <1>12, EnqueueFits, EntriesKept DEF RepairEnqueue, Places
  <2>. QED BY <2>1, <2>2
<1>13. CASE MarkPromoted(l) \/ OrphanMark(l) \/ StuckMark(l) \/ LeaderCrash(l)
  BY <1>0, <1>13, LoopFits, EntriesKept
     DEF MarkPromoted, OrphanMark, StuckMark, LeaderCrash, Heads
<1>. QED BY <1>4, <1>5, <1>6, <1>7, <1>8, <1>9, <1>10, <1>11, <1>12, <1>13 DEF LeaderNext

\* A request names a job it has just inserted or found.
LEMMA CallStepFits ==
    ASSUME IInv, Existing \subseteq Existing', NEW c \in Calls, CallNext(c)
    PROVE  EntriesOK' /\ CallsOK'
<1>0. EntriesOK /\ CallsOK /\ Table!TypeOK
  BY DEF IInv, Table!IInv
<1>1. call[c].at # "idle" => call[c].job \in Existing
  BY <1>0 DEF CallsOK
<1>2. ASSUME CallEnds(c) PROVE CallsOK'
  BY <1>0, <1>2 DEF CallEnds, CallsOK, IdleCall
<1>3. ASSUME NEW at \in {"submitted", "requeued", "receipt", "cancelWaiting", "raiseFlag"},
             NEW j \in Jobs, CallGoes(c, at, j), j \in Existing'
      PROVE  CallsOK'
  BY <1>0, <1>3 DEF CallGoes, CallsOK
<1>4. CASE Submit(c)
  <2>1. PICK j \in Jobs, max \in 1 .. MaxAttemptsCeiling :
          Store!CreateJob(j, max) /\ CallGoes(c, "submitted", j)
    BY <1>4 DEF Submit
  <2>2. row'[j].status = "PENDING"
    BY <1>0, <2>1 DEF Store!CreateJob, Table!TypeOK, Store!NoRow
  <2>3. j \in Existing'
    BY <2>2 DEF Existing, Store!Absent
  <2>. QED BY <1>0, <1>3, <1>4, <2>1, <2>3, EntriesKept DEF Submit
<1>5. CASE Requeue(c)
  <2>1. PICK j \in Jobs : Store!RequeueDeadLetter(j) /\ CallGoes(c, "requeued", j)
    BY <1>5 DEF Requeue
  <2>2. j \in Existing
    BY <2>1 DEF Store!RequeueDeadLetter, Existing, Store!Absent
  <2>. QED BY <1>0, <1>3, <1>5, <2>1, <2>2, EntriesKept DEF Requeue
<1>6. CASE CancelLoad(c)
  <2>1. PICK j \in Jobs :
          \/ row[j].status \in Store!WaitingStatuses /\ CallGoes(c, "cancelWaiting", j)
          \/ row[j].status = "RUNNING" /\ CallGoes(c, "raiseFlag", j)
    BY <1>6 DEF CancelLoad
  <2>2. j \in Existing
    BY <2>1 DEF Store!WaitingStatuses, Existing, Store!Absent
  <2>. QED BY <1>0, <1>3, <1>6, <2>1, <2>2, EntriesKept DEF CancelLoad
<1>7. CASE CallEnqueue(c)
  <2>1. call[c].job \in Existing /\ call[c].job \in Jobs
    BY <1>1, <1>7 DEF CallEnqueue, Existing
  <2>2. EntriesOK'
    BY <1>0, <1>7, <2>1, EnqueueFits DEF CallEnqueue, Places
  <2>. QED BY <1>3, <1>7, <2>1, <2>2 DEF CallEnqueue
<1>8. CASE CancelWaiting(c)
  <2>1. call[c].job \in Existing /\ call[c].job \in Jobs
    BY <1>1, <1>8 DEF CancelWaiting, Existing
  <2>. QED BY <1>0, <1>2, <1>3, <1>8, <2>1, EntriesKept DEF CancelWaiting
<1>9. CASE CallEnqueueFails(c) \/ CallReceipt(c) \/ RaiseFlag(c) \/ CallCrash(c)
  BY <1>0, <1>2, <1>9, EntriesKept DEF CallEnqueueFails, CallReceipt, RaiseFlag, CallCrash
<1>. QED BY <1>4, <1>5, <1>6, <1>7, <1>8, <1>9 DEF CallNext

\* What each kind of process leaves alone.
LEMMA OthersApart ==
    /\ \A r \in Runners : RunnerNext(r) => UNCHANGED <<flag, leader, call>>
    /\ \A l \in Leaders : LeaderNext(l) => UNCHANGED <<flag, runner, call>>
    /\ \A c \in Calls : CallNext(c) => UNCHANGED <<runner, leader>>
<1>1. ASSUME NEW r \in Runners, RunnerNext(r) PROVE UNCHANGED <<flag, leader, call>>
  BY <1>1 DEF RunnerNext, Fetch, Claim, ExtendLease, SeeCancelFlag, Finish, Handoff, Ack,
      RunnerCrash
<1>2. ASSUME NEW l \in Leaders, LeaderNext(l) PROVE UNCHANGED <<flag, runner, call>>
  BY <1>2 DEF LeaderNext, PromoteDue, MarkPromoted, ReapAbandoned, ReapOne, ReapHandoff,
      Classify, Reenqueue, ReapAck, ListExpiredRunning, SweepOne, SweepHandoff,
      ListUnenqueued, ListStuckRetrying, RepairEnqueue, OrphanMark, StuckMark, LeaderCrash
<1>3. ASSUME NEW c \in Calls, CallNext(c) PROVE UNCHANGED <<runner, leader>>
  BY <1>3 DEF CallNext, Submit, Requeue, CallEnqueue, CallEnqueueFails, CallReceipt,
      CancelLoad, CancelWaiting, RaiseFlag, CallCrash
<1>. QED BY <1>1, <1>2, <1>3

\* Faults are counted one by one.
LEMMA FaultsStep ==
    ASSUME IInv, Next
    PROVE  faults' = faults \/ (faults < MaxFaults /\ faults' = faults + 1)
<1>1. faults' = faults \/ \E kind \in FaultKinds : Fault(kind)
  <2>1. \A r \in Runners : RunnerNext(r) =>
          faults' = faults \/ \E kind \in FaultKinds : Fault(kind)
    BY DEF RunnerNext, Fetch, Claim, ExtendLease, SeeCancelFlag, Finish, Handoff, Ack,
        RunnerCrash, Fault
  <2>2. \A l \in Leaders : LeaderNext(l) =>
          faults' = faults \/ \E kind \in FaultKinds : Fault(kind)
    BY DEF LeaderNext, PromoteDue, MarkPromoted, ReapAbandoned, ReapOne, ReapHandoff,
        Classify, Reenqueue, ReapAck, ListExpiredRunning, SweepOne, SweepHandoff,
        ListUnenqueued, ListStuckRetrying, RepairEnqueue, OrphanMark, StuckMark,
        LeaderCrash, Fault
  <2>3. \A c \in Calls : CallNext(c) =>
          faults' = faults \/ \E kind \in FaultKinds : Fault(kind)
    BY DEF CallNext, Submit, Requeue, CallEnqueue, CallEnqueueFails, CallReceipt,
        CancelLoad, CancelWaiting, RaiseFlag, CallCrash, Fault
  <2>. QED BY <2>1, <2>2, <2>3, NextByProcess DEF LeaseExpires
<1>. QED BY <1>1 DEF Fault

\* The cancel flags and the fault counter.
LEMMA FlagsAndFaults ==
    ASSUME IInv, Next
    PROVE  flag' \in [Jobs -> BOOLEAN] /\ faults' \in 0 .. MaxFaults
<1>1. faults' \in 0 .. MaxFaults
  BY FaultsStep, DispatchConstantsOK DEF IInv
<1>2. flag' = flag \/ \E j \in Jobs \cup {NoJob} : RequestCancel(j)
  <2>1. ASSUME NEW c \in Calls, CallNext(c)
        PROVE  flag' = flag \/ RequestCancel(call[c].job)
    BY <2>1 DEF CallNext, Submit, Requeue, CallEnqueue, CallEnqueueFails, CallReceipt,
        CancelLoad, CancelWaiting, RaiseFlag, CallCrash
  <2>2. \A c \in Calls : call[c].job \in Jobs \cup {NoJob}
    BY DEF IInv, CallsOK
  <2>. QED BY <2>1, <2>2, OthersApart, NextByProcess DEF LeaseExpires
<1>3. flag' \in [Jobs -> BOOLEAN]
  BY <1>2 DEF IInv, RequestCancel
<1>. QED BY <1>1, <1>3

\* One runner's step is no other's.
LEMMA OneRunnerMoves ==
    ASSUME IInv, NEW r \in Runners, RunnerNext(r), NEW s \in Runners, s # r
    PROVE  runner'[s] = runner[s] /\ claim'[s] = claim[s]
<1>1. claim \in [Runners -> Table!Claims] /\ runner = [q \in Runners |-> runner[q]]
  BY DEF IInv, Table!IInv, Table!TypeOK, RunnersOK
<1>2. runner'[s] = runner[s]
  BY <1>1 DEF RunnerNext, Fetch, Claim, ExtendLease, SeeCancelFlag, Finish, Handoff, Ack,
      RunnerCrash, RunnerGoes, RunnerLeaves
<1>3. [Store!HolderStatement(r)]_storeVars
  BY RunnerIsStatement
<1>4. claim'[s] = claim[s]
  BY <1>1, <1>3 DEF Store!HolderStatement, Store!ClaimJob, Store!ExtendLease,
      Store!CompleteJob, Store!FailJob, Store!CancelRunning, Store!DeadLetterJob,
      Store!ScheduleRetry, Store!FencedWrite, Store!DropClaim, storeVars
<1>. QED BY <1>2, <1>4

\* A runner's place in its loop keeps saying what it says about its claim: it
\* gets past "run" only by a record or by failing the fence, and what others
\* do to the table never makes a rejected claim pass again.
LEMMA HandsOffStep ==
    ASSUME IInv, Next
    PROVE  HandsOff'
<1>1. Table!IInv /\ [Store!Next]_storeVars
  BY NextIsStatement DEF IInv
<1>2. ASSUME NEW r \in Runners, runner'[r] = runner[r], claim'[r] = claim[r]
      PROVE  /\ runner'[r].at \in {"idle", "claim"} => ~Store!Holds(r)'
             /\ runner'[r].at \in {"handoff", "ack"} => ~Store!Fence(r)'
  BY <1>1, <1>2, StaleClaim DEF IInv, HandsOff, Store!Holds, Store!NoClaim
<1>3. CASE \E r \in Runners : RunnerNext(r)
  <2>1. PICK r \in Runners : RunnerNext(r)
    BY <1>3
  <2>2. claim \in [Runners -> Table!Claims] /\ runner = [s \in Runners |-> runner[s]]
    BY DEF IInv, Table!IInv, Table!TypeOK, RunnersOK
  <2>3. ASSUME NEW s \in Runners, s # r
        PROVE  runner'[s] = runner[s] /\ claim'[s] = claim[s]
    BY <2>1, <2>3, OneRunnerMoves
  <2>4. /\ runner'[r].at \in {"idle", "claim"} => ~Store!Holds(r)'
        /\ runner'[r].at \in {"handoff", "ack"} => ~Store!Fence(r)'
    <3>0. /\ runner[r].at \in {"idle", "claim"} => ~Store!Holds(r)
          /\ runner[r].at \in {"handoff", "ack"} => ~Store!Fence(r)
      BY DEF IInv, HandsOff
    <3>1. ASSUME RunnerLeaves(r) PROVE runner'[r].at = "idle" /\ ~Store!Holds(r)'
      BY <2>2, <3>1 DEF RunnerLeaves, IdleRunner, Store!Holds, Store!NoClaim
    <3>2. ASSUME NEW at, RunnerGoes(r, at) PROVE runner'[r].at = at
      BY <2>2, <3>2 DEF RunnerGoes, IInv, RunnersOK
    <3>3. ASSUME UNCHANGED storeVars
          PROVE  (Store!Holds(r)' <=> Store!Holds(r)) /\ (Store!Fence(r)' <=> Store!Fence(r))
      BY <3>3 DEF storeVars, Store!Holds, Store!Fence, Store!NoClaim
    <3>4. CASE \E e \in Entries : Fetch(r, e)
      BY <2>2, <3>0, <3>3, <3>4 DEF Fetch
    <3>5. CASE Claim(r)
      BY <3>0, <3>1, <3>2, <3>3, <3>5 DEF Claim, Store!Fence
    <3>6. CASE ExtendLease(r)
      BY <2>2, <3>6 DEF ExtendLease, IInv, RunnersOK
    <3>7. CASE SeeCancelFlag(r)
      BY <2>2, <3>7 DEF SeeCancelFlag, IInv, RunnersOK
    <3>8. CASE Finish(r)
      <4>1. ASSUME Outcome(r) PROVE ~Store!Fence(r)'
        <5>1. PICK to \in {"COMPLETED", "FAILED", "CANCELLED", "DEAD_LETTER", "RETRYING"} :
                Store!FencedWrite(r, to)
          BY <4>1 DEF Outcome, Store!CompleteJob, Store!CancelRunning, Store!FailJob,
              Store!DeadLetterJob, Store!ScheduleRetry
        <5>2. claim[r].job \in Jobs
          BY <5>1 DEF Store!FencedWrite, Store!Fence, Store!Holds, Store!NoClaim, IInv,
              Table!IInv, Table!EpochBehind, Table!Holds, Table!NoClaim
        <5>3. row'[claim[r].job].status = to
          BY <5>1, <5>2 DEF Store!FencedWrite, IInv, Table!IInv, Table!TypeOK, Table!Rows
        <5>. QED BY <5>1, <5>3 DEF Store!FencedWrite, Store!Fence
      <4>2. \/ \E at \in {"handoff", "ack"} : Outcome(r) /\ RunnerGoes(r, at)
            \/ ~Store!Fence(r) /\ RunnerGoes(r, "ack") /\ UNCHANGED storeVars
            \/ RunnerLeaves(r)
        BY <3>8 DEF Finish
      <4>. QED BY <3>1, <3>2, <3>3, <4>1, <4>2
    <3>9. CASE Handoff(r)
      BY <3>0, <3>2, <3>3, <3>9 DEF Handoff
    <3>10. CASE Ack(r) \/ RunnerCrash(r)
      BY <3>1, <3>10 DEF Ack, RunnerCrash
    <3>. QED BY <2>1, <3>4, <3>5, <3>6, <3>7, <3>8, <3>9, <3>10 DEF RunnerNext
  <2>. QED BY <1>2, <2>3, <2>4 DEF HandsOff
<1>4. CASE UNCHANGED <<runner, claim>>
  BY <1>2, <1>4 DEF HandsOff
<1>5. \A j \in Jobs : LeaseExpires(j) => UNCHANGED <<runner, claim>>
  BY DEF LeaseExpires, Store!LeaseExpires
<1>. QED BY <1>3, <1>4, <1>5, NextByProcess, OthersApart, LeaderIsStatement, CallIsStatement

------------------------------------------------------------------------------
(* The invariant and what it gives.                                          *)

\* The empty system satisfies the inductive invariant.
LEMMA InitIInv == Init => IInv
<1> SUFFICES ASSUME Init PROVE IInv
  OBVIOUS
<1>1. Table!IInv
  BY Table!InitIInv, DispatchConstantsOK DEF Init, Store!Init, Table!Init, Store!NoRow,
      Table!NoRow, Store!NoClaim, Table!NoClaim, Store!Absent, Table!Absent
<1>2. EntriesOK /\ RunnersOK /\ CallsOK
  BY DEF Init, EntriesOK, RunnersOK, CallsOK, Free, Places, IdleRunner, IdleCall,
      NoDelivery, Deliveries
<1>3. LeadersOK
  BY DEF Init, LeadersOK, LeaderFits, IdleLeader, NoDelivery, Deliveries, PerDelivery
<1>4. HandsOff
  BY DEF Init, HandsOff, IdleRunner, Store!Init, Store!Holds, Store!NoClaim
<1>. QED BY <1>1, <1>2, <1>3, <1>4, DispatchConstantsOK DEF Init, IInv

\* Every round trip of every process, failed ones and deaths included,
\* preserves the inductive invariant.
LEMMA StepIInv == IInv /\ [Next]_vars => IInv'
<1> SUFFICES ASSUME IInv, [Next]_vars PROVE IInv'
  OBVIOUS
<1>1. Table!IInv' /\ Existing \subseteq Existing'
  BY NextIsStatement, TableStep DEF IInv
<1>2. ASSUME runner' = runner PROVE RunnersOK'
  BY <1>1, <1>2 DEF IInv, RunnersOK
<1>3. ASSUME leader' = leader PROVE LeadersOK'
  BY <1>1, <1>3 DEF IInv, LeadersOK, LeaderFits
<1>4. ASSUME call' = call PROVE CallsOK'
  BY <1>1, <1>4 DEF IInv, CallsOK
<1>5. CASE UNCHANGED vars
  <2>1. HandsOff'
    BY <1>5 DEF IInv, HandsOff, vars, Store!Holds, Store!Fence, Store!NoClaim
  <2>. QED BY <1>1, <1>2, <1>3, <1>4, <1>5, <2>1, EntriesKept DEF IInv, vars
<1>6. CASE Next
  <2>1. EntriesOK' /\ RunnersOK' /\ LeadersOK' /\ CallsOK'
    <3>1. CASE \E r \in Runners : RunnerNext(r)
      BY <1>1, <1>3, <1>4, <3>1, RunnerStepFits, OthersApart
    <3>2. CASE \E l \in Leaders : LeaderNext(l)
      BY <1>1, <1>2, <1>4, <3>2, LeaderStepFits, OthersApart
    <3>3. CASE \E c \in Calls : CallNext(c)
      BY <1>1, <1>2, <1>3, <3>3, CallStepFits, OthersApart
    <3>4. CASE \E j \in Jobs : LeaseExpires(j)
      BY <1>1, <1>2, <1>3, <1>4, <3>4, EntriesKept DEF LeaseExpires, IInv
    <3>. QED BY <1>6, <3>1, <3>2, <3>3, <3>4, NextByProcess
  <2>. QED BY <1>1, <1>6, <2>1, HandsOffStep, FlagsAndFaults DEF IInv
<1>. QED BY <1>5, <1>6

\* The inductive invariant holds in every reachable state.
THEOREM Inductive == Spec => []IInv
<1>. QED BY InitIInv, StepIInv, PTL DEF Spec

\* Type correctness of the table, of Redis and of every process, whatever
\* fails and in whatever order.
THEOREM TypeCorrect == Spec => []TypeOK
<1>1. IInv => TypeOK
  <2>1. IInv => leader \in [Leaders -> [at : {"idle"} \cup Heads \cup PerDelivery,
                                        todo : SUBSET Deliveries, cur : Deliveries]]
    BY DEF IInv, LeadersOK, LeaderFits
  <2>2. IInv => Store!TypeOK
    BY SameTable DEF IInv, Table!IInv
  <2>. QED BY <2>1, <2>2
       DEF IInv, TypeOK, EntriesOK, RunnersOK, CallsOK, Heads, PerDelivery
<1>. QED BY Inductive, <1>1, PTL

\* "Durable record FIRST, ack SECOND": no runner gives up its delivery while
\* its claim could still record an outcome.
THEOREM AckAfterRecord == Spec => []RecordBeforeAck
<1>1. IInv => RecordBeforeAck
  BY DEF IInv, HandsOff, RecordBeforeAck
<1>. QED BY Inductive, <1>1, PTL

\* Runners, leaders and requests, in any number and with any faults, are one
\* implementation of JobStore: every state they reach is one of JobStore's.
THEOREM ImplementsStore == Spec => StoreSpec
<1>1. Init => Store!Init
  BY DEF Init
<1>. QED BY Inductive, <1>1, NextIsStatement, PTL DEF Spec, StoreSpec, Store!Spec,
      storeVars, Store!vars

\* So JobStore's results hold of the running system: one outcome per claim of
\* a job, the retry budget, and a lease to expire on every RUNNING row.
THEOREM StoreResultsHold ==
    Spec => [](Store!ClaimsExclusive /\ Store!BudgetRespected /\ Store!RunningIsLeased)
<1>1. Table!IInv => Store!ClaimsExclusive
  BY DEF Table!IInv, Table!EpochsDiffer, Table!Holds, Table!NoClaim, Store!ClaimsExclusive,
      Store!Fence, Store!Holds, Store!NoClaim
<1>2. Table!IInv => Store!BudgetRespected /\ Store!RunningIsLeased
  BY DEF Table!IInv, Table!BudgetRespected, Table!RunningIsLeased, Table!WaitingStatuses,
      Store!BudgetRespected, Store!RunningIsLeased, Store!WaitingStatuses
<1>3. IInv => Store!ClaimsExclusive /\ Store!BudgetRespected /\ Store!RunningIsLeased
  BY <1>1, <1>2 DEF IInv
<1>. QED BY Inductive, <1>3, PTL

\* And over time: every step of every process leaves each job where it is or
\* moves it along an edge of statemachine.go, and a worker whose claim has
\* been superseded never records an outcome with it, however long it survives.
THEOREM StoreHistoryHolds == Spec => Store!LifecycleSpec /\ Store!FencedForever
<1>1. Init => Store!Lifecycle!Init
  BY DEF Init, Store!Init, Store!NoRow, Store!Lifecycle!Init, Store!Lifecycle!Absent, Store!Absent
<1>2. IInv /\ [Next]_vars => [Store!Lifecycle!Next]_([j \in Jobs |-> row[j].status])
  <2>1. ASSUME IInv, Store!Next PROVE Store!Lifecycle!Next
    <3>1. \A j \in Jobs : Table!Lifecycle!Moves(row[j].status, row'[j].status)
      BY <2>1, SameTable, Table!StatementMoves, DispatchConstantsOK DEF IInv
    <3>. QED BY <3>1 DEF Store!Lifecycle!Next, Store!Lifecycle!Moves,
          Store!Lifecycle!CanTransition, Store!Lifecycle!Transitions, Store!Lifecycle!Absent,
          Table!Lifecycle!Moves, Table!Lifecycle!CanTransition, Table!Lifecycle!Transitions,
          Table!Lifecycle!Absent
  <2>. QED BY <2>1, NextIsStatement DEF storeVars
<1>3. IInv /\ [Next]_vars =>
        [\A r \in Runners :
           Store!Holds(r) /\ ~Store!Fence(r) /\ claim'[r] = claim[r] => ~Store!Fence(r)']_storeVars
  BY NextIsStatement, StaleClaim DEF IInv
<1>. QED BY Inductive, <1>1, <1>2, <1>3, PTL DEF Spec, Store!LifecycleSpec, Store!Lifecycle!Spec,
      Store!FencedForever, storeVars, Store!vars

==============================================================================
