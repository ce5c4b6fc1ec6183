------------------------------ MODULE Recorder -------------------------------
(***************************************************************************)
(* How the outcome of an attempt becomes durable (internal/store/batch.go).*)
(* A runner that finished its handler calls a Recorder and acks Redis only *)
(* when the call returns without an error.  The batched runners belong to  *)
(* one worker process and share its Batcher: their calls travel through a  *)
(* channel to a loop that writes a whole batch in one transaction, retries *)
(* a failed transaction once, and is stopped when the worker drains.  The  *)
(* others use the SyncRecorder: one fenced statement, then a best-effort   *)
(* attempt row.                                                            *)
(*                                                                         *)
(* The jobs table and the claims are JobStore's; its other writers are the *)
(* environment here.  A transaction is atomic, and its commit may succeed  *)
(* while the confirmation is lost.                                         *)
(***************************************************************************)
EXTENDS Naturals, Sequences, SequencesExt

CONSTANTS
    Jobs, Runners, NoJob, MaxAttemptsCeiling, EpochBound,   \* see JobStore
    Deployments, \* which runners may share a process with batch writes on
    Reported,    \* bound: the kinds of outcome that handlers lead to
    MaxSize,     \* BatchMaxSize
    MaxFaults    \* bound: failed statements, transactions and processes

ASSUME RecorderConstantsOK ==
    /\ NoJob \notin Jobs
    /\ MaxAttemptsCeiling \in Nat \ {0} /\ EpochBound \in Nat
    /\ Deployments \subseteq SUBSET Runners
    /\ MaxSize \in Nat \ {0}
    /\ MaxFaults \in Nat

VARIABLES
    batched,     \* the runners of the process with BatchWrites, fixed at start
    row, claim,  \* as in JobStore
    history,     \* history[j][n]: the job_attempts row of attempt n of job j
    doomed,      \* attempts reaped by a recovery leader and not yet recorded
    call,        \* call[r]: the Recorder call of runner r
    in,          \* the channel b.in
    pending,     \* the ops the loop holds
    loop,        \* where the loop is; "flush2" and "final2" are second tries
    stopped,     \* b.stop is closed
    faults,
    accepted,    \* ghost: the ops whose write the fence let through
    requeued     \* ghost: the jobs requeued from the dead letters

Store == INSTANCE JobStore

processVars == <<call, in, pending, loop, stopped>>
vars == <<batched, row, claim, history, doomed, processVars, faults, accepted, requeued>>

------------------------------------------------------------------------------
(* State.                                                                    *)

\* Variant: a status that the rest of the platform does not know.
StatusOfUnknown == [complete |-> "DONE", fail |-> "FAILED", retry |-> "RETRYING",
                    dead |-> "DEAD_LETTER", cancel |-> "CANCELLED"]

\* opKind, and the status each kind of op writes.
StatusOf == [complete |-> "COMPLETED", fail |-> "FAILED", retry |-> "RETRYING",
             dead |-> "DEAD_LETTER", cancel |-> "CANCELLED"]

Kinds == DOMAIN StatusOf

\* An op: the outcome and the coordinates of the claim it is fenced by.  No
\* two claims share job and epoch, so an op also names its done channel.
Ops == [kind : Kinds, job : Jobs, epoch : Nat, attempt : Nat]

NoOp == [kind |-> "none", job |-> NoJob, epoch |-> 0, attempt |-> 0]

\* "told": the call has returned, with `applied` or with an error.
IdleCall == [at |-> "idle", op |-> NoOp, applied |-> FALSE, err |-> FALSE]

Told(op, applied, err) == [at |-> "told", op |-> op, applied |-> applied, err |-> err]

\* The primary key (job_id, attempt) and ON CONFLICT DO NOTHING: the first
\* story told of an attempt is kept.
NoStory == [kind |-> "none", epoch |-> 0]

RecordAttempt(op) ==
    IF history[op.job][op.attempt] = NoStory
    THEN [history EXCEPT ![op.job][op.attempt] = [kind |-> op.kind, epoch |-> op.epoch]]
    ELSE history

TypeOK ==
    /\ Store!TypeOK
    /\ batched \in Deployments
    /\ history \in [Jobs -> [1 .. MaxAttemptsCeiling ->
                                [kind : Kinds \cup {"none", "leaseExpired"}, epoch : Nat]]]
    /\ doomed \subseteq [kind : {"leaseExpired"}, job : Jobs, epoch : Nat, attempt : Nat]
    /\ call \in [Runners -> [at : {"idle", "submit", "wait", "record", "told"},
                             op : Ops \cup {NoOp}, applied : BOOLEAN, err : BOOLEAN]]
    /\ in \in Seq(Ops) /\ Len(in) <= 2 * MaxSize
    /\ pending \in Seq(Ops)
    /\ loop \in {"select", "flush", "flush2", "drain", "final", "final2", "done"}
    /\ stopped \in BOOLEAN
    /\ faults \in 0 .. MaxFaults
    /\ accepted \subseteq Ops
    /\ requeued \subseteq Jobs

\* NewBatcher and Start, in a process whose slots are all idle.
NewBatcher ==
    /\ in = <<>>
    /\ pending = <<>>
    /\ loop = "select"
    /\ stopped = FALSE

Init ==
    /\ Store!Init
    /\ batched \in Deployments
    /\ history = [j \in Jobs |-> [n \in 1 .. MaxAttemptsCeiling |-> NoStory]]
    /\ doomed = {}
    /\ call = [r \in Runners |-> IdleCall]
    /\ NewBatcher
    /\ faults = 0
    /\ accepted = {}
    /\ requeued = {}

Fault == faults < MaxFaults /\ faults' = faults + 1

------------------------------------------------------------------------------
(* The runner's side of a call.                                              *)

\* finish(): what the outcome and the claim's coordinates allow to be recorded.
Outcomes(r) ==
    {"complete", "fail", "cancel"} \cup
        (IF claim[r].attempt >= claim[r].max THEN {"dead"} ELSE {"retry"})

\* The handler returned and finish() calls the Recorder.
Finish(r, kind) ==
    /\ Store!Holds(r)
    /\ call[r].at = "idle"
    /\ call' = [call EXCEPT ![r] =
                   [at |-> "submit",
                    op |-> [kind |-> kind, job |-> claim[r].job,
                            epoch |-> claim[r].epoch, attempt |-> claim[r].attempt],
                    applied |-> FALSE, err |-> FALSE]]
    /\ UNCHANGED <<row, claim, history, doomed, in, pending, loop, stopped, faults,
                   accepted, requeued>>

\* The call has returned: finish() acks or leaves the delivery, and the slot is
\* free again.
Return(r) ==
    /\ call[r].at = "told"
    /\ call' = [call EXCEPT ![r] = IdleCall]
    /\ Store!DropClaim(r)
    /\ UNCHANGED <<history, doomed, in, pending, loop, stopped, faults, accepted, requeued>>

\* A heartbeat found the claim lost and the handler failed on it: only the
\* attempt row is written, at best, and the reaper has the rest.
LeaseLost(r) ==
    /\ Store!Holds(r) /\ ~Store!Fence(r)
    /\ call[r].at = "idle"
    /\ \/ history' = RecordAttempt([kind |-> "leaseExpired", job |-> claim[r].job,
                                    epoch |-> claim[r].epoch, attempt |-> claim[r].attempt])
       \/ UNCHANGED history
    /\ Store!DropClaim(r)
    /\ UNCHANGED <<doomed, processVars, faults, accepted, requeued>>

\* submit: the select takes any ready case, so an op may enter the channel
\* although stop is closed already.
Submit(r) ==
    /\ r \in batched
    /\ call[r].at = "submit"
    /\ \/ /\ Len(in) < 2 * MaxSize
          /\ in' = Append(in, call[r].op)
          /\ call' = [call EXCEPT ![r].at = "wait"]
       \/ /\ stopped
          /\ call' = [call EXCEPT ![r] = Told(call[r].op, FALSE, TRUE)]
          /\ UNCHANGED in
    /\ UNCHANGED <<row, claim, history, doomed, pending, loop, stopped, faults,
                   accepted, requeued>>

\* recCtx expires while the caller waits for the channel or for the receipt.
GiveUp(r) ==
    /\ r \in batched
    /\ call[r].at \in {"submit", "wait"}
    /\ call' = [call EXCEPT ![r] = Told(call[r].op, FALSE, TRUE)]
    /\ UNCHANGED <<row, claim, history, doomed, in, pending, loop, stopped, faults,
                   accepted, requeued>>

------------------------------------------------------------------------------
(* SyncRecorder.                                                             *)

\* The fenced statement of the op's kind, in a transaction of its own.
SyncWrite(r) ==
    /\ r \notin batched
    /\ call[r].at = "submit"
    /\ LET op == call[r].op IN
       \/ /\ Store!FencedWrite(r, StatusOf[op.kind])
          /\ accepted' = accepted \cup {op}
          /\ \/ /\ call' = [call EXCEPT ![r] = [at |-> "record", op |-> op,
                                               applied |-> TRUE, err |-> FALSE]]
                /\ UNCHANGED faults
             \/ /\ Fault         \* committed, and the confirmation was lost
                /\ call' = [call EXCEPT ![r] = Told(op, FALSE, TRUE)]
       \/ /\ ~Store!Fence(r)
          /\ call' = [call EXCEPT ![r] = [at |-> "record", op |-> op,
                                         applied |-> FALSE, err |-> FALSE]]
          /\ UNCHANGED <<row, claim, faults, accepted>>
       \/ /\ Fault
          /\ call' = [call EXCEPT ![r] = Told(op, FALSE, TRUE)]
          /\ UNCHANGED <<row, claim, accepted>>
    /\ UNCHANGED <<history, doomed, in, pending, loop, stopped, requeued>>

\* record: a failed attempt INSERT is logged and forgotten.
SyncRecord(r) ==
    /\ call[r].at = "record"
    /\ \/ history' = RecordAttempt(call[r].op) /\ UNCHANGED faults
       \/ Fault /\ UNCHANGED history
    /\ call' = [call EXCEPT ![r].at = "told"]
    /\ UNCHANGED <<row, claim, doomed, in, pending, loop, stopped, accepted, requeued>>

------------------------------------------------------------------------------
(* The loop.                                                                 *)

Flushing == loop \in {"flush", "flush2", "final", "final2"}

Receive ==
    /\ loop = "select"
    /\ in # <<>>
    /\ in' = Tail(in)
    /\ pending' = Append(pending, Head(in))
    /\ loop' = IF Len(pending) + 1 >= MaxSize THEN "flush" ELSE "select"
    /\ UNCHANGED <<row, claim, history, doomed, call, stopped, faults, accepted, requeued>>

Tick ==
    /\ loop = "select"
    /\ pending # <<>>
    /\ loop' = "flush"
    /\ UNCHANGED <<row, claim, history, doomed, call, in, pending, stopped, faults,
                   accepted, requeued>>

\* Variant: on stop the loop flushes what it holds and leaves the channel.
DrainNothing ==
    /\ loop = "select" /\ stopped
    /\ loop' = IF pending = <<>> THEN "done" ELSE "final"
    /\ UNCHANGED <<row, claim, history, doomed, call, in, pending, stopped, faults,
                   accepted, requeued>>

\* The stop case: take what is in the channel until it is found empty, then
\* flush a last time.
Drain ==
    /\ \/ loop = "select" /\ stopped
       \/ loop = "drain"
    /\ IF in # <<>>
       THEN /\ pending' = Append(pending, Head(in))
            /\ in' = Tail(in)
            /\ loop' = "drain"
       ELSE /\ loop' = IF pending = <<>> THEN "done" ELSE "final"
            /\ UNCHANGED <<in, pending>>
    /\ UNCHANGED <<row, claim, history, doomed, call, stopped, faults, accepted, requeued>>

\* Variant: the statements forget AND status = 'RUNNING'.
MatchedAnyStatus(ops) == {op \in ToSet(ops) : row[op.job].epoch = op.epoch}

\* The ops of the batch that the WHERE clauses match.  A row carries one epoch,
\* so no two ops of one job match, and the order of the statements in the
\* transaction does not matter.
Matched(ops) ==
    {op \in ToSet(ops) : row[op.job].epoch = op.epoch /\ row[op.job].status = "RUNNING"}

\* Variant: only the jobs' ids are looked up, whatever kind the op is.
AppliedById(op, ops) == \E o \in Matched(ops) : o.job = op.job

\* What an op is told.  Completions are one UPDATE whose RETURNING names job
\* ids, the other kinds each have a row count of their own.
Applied(op, ops) ==
    IF op.kind = "complete"
    THEN \E o \in Matched(ops) : o.kind = "complete" /\ o.job = op.job
    ELSE op \in Matched(ops)

\* The status UPDATEs of the transaction.
WriteRows(ops) ==
    row' = [j \in Jobs |->
              LET hits == {op \in Matched(ops) : op.job = j} IN
              IF hits = {} THEN row[j]
              ELSE [row[j] EXCEPT !.status = StatusOf[(CHOOSE op \in hits : TRUE).kind],
                                  !.lease = "none"]]

\* The one INSERT of all attempt rows, those of refused ops included.
WriteHistory(ops) ==
    history' = [j \in Jobs |-> [n \in 1 .. MaxAttemptsCeiling |->
                  LET told == {i \in DOMAIN ops : ops[i].job = j /\ ops[i].attempt = n} IN
                  IF history[j][n] # NoStory \/ told = {} THEN history[j][n]
                  ELSE [kind |-> ops[Min(told)].kind, epoch |-> ops[Min(told)].epoch]]]

\* Variant: the attempt rows follow in a transaction of their own.
WriteBatchLosesHistory(ops) ==
    /\ WriteRows(ops)
    /\ UNCHANGED history
    /\ accepted' = accepted \cup Matched(ops)
    /\ UNCHANGED claim

\* The transaction's effect, when it commits.
WriteBatch(ops) ==
    /\ WriteRows(ops)
    /\ WriteHistory(ops)
    /\ accepted' = accepted \cup Matched(ops)
    /\ UNCHANGED claim

\* Every op's done channel gets its result.  A caller that gave up does not
\* look any more.
Resolve(result) ==
    call' = [r \in Runners |-> IF call[r].at = "wait" /\ call[r].op \in DOMAIN result
                               THEN result[call[r].op] ELSE call[r]]

AfterFlush == IF loop \in {"final", "final2"} THEN "done" ELSE "select"

\* Variant: pending is not emptied after a flush.
FlushKeepsPending ==
    /\ Flushing
    /\ WriteBatch(pending)
    /\ Resolve([op \in ToSet(pending) |-> Told(op, Applied(op, pending), FALSE)])
    /\ loop' = AfterFlush
    /\ UNCHANGED <<pending, doomed, in, stopped, faults, requeued>>

\* flushOnce that succeeds.
FlushOnce ==
    /\ Flushing
    /\ WriteBatch(pending)
    /\ Resolve([op \in ToSet(pending) |-> Told(op, Applied(op, pending), FALSE)])
    /\ pending' = <<>>
    /\ loop' = AfterFlush
    /\ UNCHANGED <<doomed, in, stopped, faults, requeued>>

\* Variant: the ops of a batch that failed twice are told "fenced", no error.
FlushFailsSilently ==
    /\ Flushing
    /\ Fault
    /\ \/ WriteBatch(pending)
       \/ UNCHANGED <<row, claim, history, accepted>>
    /\ Resolve([op \in ToSet(pending) |-> Told(op, FALSE, FALSE)])
    /\ pending' = <<>>
    /\ loop' = AfterFlush
    /\ UNCHANGED <<doomed, in, stopped, requeued>>

\* flushOnce that returns an error: rolled back, or committed with the
\* confirmation lost.  The first time the batch is tried again; the second
\* time every op is told the error.
FlushFails ==
    /\ Flushing
    /\ Fault
    /\ \/ WriteBatch(pending)
       \/ UNCHANGED <<row, claim, history, accepted>>
    /\ IF loop \in {"flush", "final"}
       THEN /\ loop' = IF loop = "flush" THEN "flush2" ELSE "final2"
            /\ UNCHANGED <<call, pending>>
       ELSE /\ Resolve([op \in ToSet(pending) |-> Told(op, FALSE, TRUE)])
            /\ pending' = <<>>
            /\ loop' = AfterFlush
    /\ UNCHANGED <<doomed, in, stopped, requeued>>

------------------------------------------------------------------------------
(* The worker process around the Batcher.                                    *)

\* Batcher.Stop, called by a drain that finished or gave up on its jobs.
Stop ==
    /\ ~stopped
    /\ stopped' = TRUE
    /\ UNCHANGED <<row, claim, history, doomed, call, in, pending, loop, faults,
                   accepted, requeued>>

\* The process ends, after Stop returned or by a crash, and a fresh one starts
\* with nothing in memory.
Restart ==
    /\ \/ loop = "done" /\ UNCHANGED faults
       \/ loop # "done" /\ Fault
    /\ call' = [r \in Runners |-> IF r \in batched THEN IdleCall ELSE call[r]]
    /\ claim' = [r \in Runners |-> IF r \in batched THEN Store!NoClaim ELSE claim[r]]
    /\ in' = <<>>
    /\ pending' = <<>>
    /\ loop' = "select"
    /\ stopped' = FALSE
    /\ UNCHANGED <<row, history, doomed, accepted, requeued>>

------------------------------------------------------------------------------
(* The other writers of the two tables.                                      *)

\* A runner takes a delivery it is free for.
Claim(r, j) ==
    /\ call[r].at = "idle"
    /\ Store!ClaimJob(r, j)
    /\ UNCHANGED <<history, doomed, processVars, faults, accepted, requeued>>

\* A recovery leader reaps the job; the doomed attempt is recorded afterwards.
ReapJob(j) ==
    /\ Store!ReapJob(j)
    /\ doomed' = doomed \cup {[kind |-> "leaseExpired", job |-> j,
                               epoch |-> row[j].epoch, attempt |-> row[j].attempts]}
    /\ UNCHANGED <<history, processVars, faults, accepted, requeued>>

\* recordAttempt, unless the leader dies or the statement fails.
RecordDoomed(op) ==
    /\ doomed' = doomed \ {op}
    /\ \/ history' = RecordAttempt(op)
       \/ UNCHANGED history
    /\ UNCHANGED <<row, claim, processVars, faults, accepted, requeued>>

Requeue(j) ==
    /\ Store!RequeueDeadLetter(j)
    /\ requeued' = requeued \cup {j}
    /\ UNCHANGED <<history, doomed, processVars, faults, accepted>>

\* The heartbeat stops before the outcome is recorded.
OtherStatement(j) ==
    /\ \/ \E max \in 1 .. MaxAttemptsCeiling : Store!CreateJob(j, max)
       \/ row[j].status # Store!Absent /\ Store!SetEnqueued(j)
       \/ \E r \in Runners : claim[r].job = j /\ call[r].at = "idle" /\ Store!ExtendLease(r)
       \/ Store!LeaseExpires(j)
       \/ Store!MarkPromoted({j})
       \/ Store!CancelJob(j)
    /\ UNCHANGED <<history, doomed, processVars, faults, accepted, requeued>>

------------------------------------------------------------------------------

LoopStep == Receive \/ Tick \/ Drain \/ FlushOnce \/ FlushFails

Step ==
    \/ \E r \in Runners :
          \/ \E j \in Jobs : Claim(r, j)
          \/ \E kind \in Outcomes(r) \cap Reported : Finish(r, kind)
          \/ Submit(r) \/ GiveUp(r) \/ Return(r) \/ LeaseLost(r)
          \/ SyncWrite(r) \/ SyncRecord(r)
    \/ LoopStep \/ Stop \/ Restart
    \/ \E j \in Jobs : ReapJob(j) \/ Requeue(j) \/ OtherStatement(j)
    \/ \E op \in doomed : RecordDoomed(op)

Next == Step /\ UNCHANGED batched

\* The loop's goroutine is scheduled; nothing else is relied on.
Fairness == WF_vars(LoopStep /\ UNCHANGED batched)

Spec == Init /\ [][Next]_vars /\ Fairness

------------------------------------------------------------------------------
(* Properties.                                                               *)

\* The contract of Recorder: "when the call returns without error the record is
\* durable" (batch.go:30).  The runner acks on it, so a claim whose call
\* returned without an error must not be running any more, whichever commit
\* took it there and whatever was lost on the way back.
AnswerIsDurable ==
    \A r \in Runners : call[r].at = "told" /\ ~call[r].err => ~Store!Fence(r)

\* What `applied` can be trusted for.  Two completions of one job, of a zombie
\* and of the next owner, may share a batch, and the RETURNING ids do not tell
\* them apart; but the job then was completed, by one of the two.
AppliedIsTrue ==
    \A r \in Runners : call[r].at \in {"record", "told"} /\ call[r].applied =>
        \E op \in accepted : op.job = call[r].op.job /\ op.kind = call[r].op.kind

\* job_attempts agrees with jobs.  Outcomes of the Batcher and their attempt
\* rows share a transaction, so the row of an accepted outcome tells that
\* outcome, against late zombies and reapers writing the same table, until a
\* requeue starts the attempt numbers again.  The SyncRecorder promises less:
\* its attempt row may be missing or, if the write reported an error, untold.
HistoryTellsOutcome ==
    \A op \in accepted :
        \/ op.job \in requeued
        \/ history[op.job][op.attempt] = [kind |-> op.kind, epoch |-> op.epoch]
        \/ batched # Runners /\ history[op.job][op.attempt] = NoStory

\* "resolved exactly once per op" (batch.go:127): no op is in the channel or in
\* a batch twice, and none whose caller has its answer from the loop.  A second
\* send to a done channel would block the loop for good.
Unresolved ==
    LET queue == in \o pending IN
    /\ IsInjective(queue)
    /\ \A r \in Runners, i \in DOMAIN queue :
          call[r].op = queue[i] => call[r].at = "wait" \/ (call[r].at = "told" /\ call[r].err)

\* "The op is already queued and WILL be flushed" (batch.go:225), as far as it
\* goes: an op in the channel before the stopping loop has found the channel
\* empty does not stay there.
QueuedIsFlushed ==
    \A r \in Runners :
        (/\ call[r].at = "wait"
         /\ call[r].op \in ToSet(in \o pending)
         /\ loop \in {"select", "flush", "flush2", "drain"})
        ~> (call[r].at # "wait")

\* Batches move every row along the edges of statemachine.go, like the single
\* statements they stand for.
LifecycleSpec == Store!LifecycleSpec

==============================================================================
