--------------------------------- MODULE Api ----------------------------------
(***************************************************************************)
(* An API replica as cmd/calligraphy-api assembles it: it boots through    *)
(* Migrate, then serves Submission and contends in Leadership, runs the    *)
(* orphan sweep while it believes it leads, and shuts down on SIGTERM or   *)
(* dies.  The replicas share Postgres (schema, jobs) and Redis (the leader *)
(* key, the envelopes).                                                    *)
(***************************************************************************)
EXTENDS Integers, SequencesExt

CONSTANTS
    Replicas, Nobody, Files,                              \* see Migrate
    Requests, NoJob, KeyOf, NoKey, AsksAttempts,
    DefaultMaxAttempts, MaxAttemptsCeiling,               \* see Submission
    MaxFaults    \* bound: crashes, failures, stalls and shutdowns

ASSUME ApiConstantsOK ==
    /\ Nobody \notin Replicas
    /\ NoJob \notin Requests
    /\ Files \in Seq(Range(Files))
    /\ \A i, j \in 1 .. Len(Files) : Files[i] = Files[j] => i = j
    /\ DOMAIN KeyOf = Requests
    /\ AsksAttempts \in [Requests -> Int]
    /\ MaxAttemptsCeiling \in Nat /\ DefaultMaxAttempts \in 1 .. MaxAttemptsCeiling
    /\ MaxFaults \in Nat

VARIABLES
    phase, lock, schema, versions, tx,   \* Migrate
    key, isLeader,                       \* Leadership
    request, job, handed, repair,        \* Submission
    faults

M == INSTANCE Migrate
L == INSTANCE Leadership
S == INSTANCE Submission

migrateVars == <<phase, lock, schema, versions, tx>>
leaderVars == <<key, isLeader>>
submissionVars == <<request, job, handed, repair>>
vars == <<migrateVars, leaderVars, submissionVars, faults>>

TypeOK ==
    /\ M!MigrateTypeOK
    /\ L!LeaderTypeOK
    /\ S!SubmissionTypeOK
    /\ faults \in 0 .. MaxFaults

Init ==
    /\ M!MigrateInit
    /\ L!LeaderInit
    /\ S!SubmissionInit
    /\ faults = 0

Fault == faults < MaxFaults /\ faults' = faults + 1

------------------------------------------------------------------------------
(* What a replica does.                                                      *)

\* A process is started, or started again.
Start(r) ==
    /\ M!Begin(r)
    /\ UNCHANGED <<leaderVars, submissionVars, faults>>

Boot(r) ==
    /\ M!MigrateStep(r)
    /\ UNCHANGED <<leaderVars, submissionVars, faults>>

\* leader.Run's ticks.  Duties run in the same goroutine: no renewal and no
\* takeover in the middle of one.
Contend(r) ==
    /\ phase[r] = "serving" /\ repair[r] = NoJob
    /\ L!AcquireLeader(r) \/ L!RenewLeader(r)
    /\ UNCHANGED <<migrateVars, submissionVars, faults>>

\* The duty that concerns submissions, on every replica that believes it leads.
Sweep(r) ==
    /\ phase[r] = "serving" /\ isLeader[r]
    /\ \/ \E q \in Requests : S!RepairUnenqueued(r, q)
       \/ S!RepairMark(r)
    /\ UNCHANGED <<migrateVars, leaderVars, faults>>

Receive(q, r) ==
    /\ phase[r] = "serving"
    /\ S!Receive(q, r)
    /\ UNCHANGED <<migrateVars, leaderVars, faults>>

\* Requests in progress go on while the replica shuts down.
Handle(q) ==
    /\ S!HandlerStep(q)
    /\ UNCHANGED <<migrateVars, leaderVars, faults>>

\* SIGTERM cancels the context: the listener closes, the loop of leader.Run
\* is to release.  A sweep fails at its next statement.
Shutdown(r) ==
    /\ phase[r] = "serving"
    /\ Fault
    /\ phase' = [phase EXCEPT ![r] = "stopping"]
    /\ repair' = [repair EXCEPT ![r] = NoJob]
    /\ UNCHANGED <<lock, schema, versions, tx, leaderVars, request, job, handed>>

Release(r) ==
    /\ phase[r] = "stopping" /\ isLeader[r]
    /\ L!ReleaseLeader(r)
    /\ UNCHANGED <<migrateVars, submissionVars, faults>>

\* run() returns after leaderDone, when httpSrv.Shutdown has given up on the
\* requests that are still in progress and GracefulStop has seen the workers'
\* control streams end.  Nothing here ends those: a process that hangs on them
\* is killed by its supervisor, to the same effect.
Exit(r) ==
    /\ phase[r] = "stopping" /\ ~isLeader[r]
    /\ phase' = [phase EXCEPT ![r] = "down"]
    /\ S!Abandon(r)
    /\ UNCHANGED <<lock, schema, versions, tx, leaderVars, faults>>

------------------------------------------------------------------------------
(* What goes wrong.                                                          *)

BootFails(r) ==
    /\ M!Fail(r)
    /\ Fault
    /\ UNCHANGED <<leaderVars, submissionVars>>

Crash(r) ==
    /\ phase[r] \in {"serving", "stopping"}
    /\ Fault
    /\ phase' = [phase EXCEPT ![r] = "down"]
    /\ L!LeaveKey(r)
    /\ S!Abandon(r)
    /\ UNCHANGED <<lock, schema, versions, tx>>

RequestFails(q) ==
    /\ Fault
    /\ S!CreateFails(q) \/ S!EnqueueFails(q) \/ S!SetEnqueuedFails(q)
    /\ UNCHANGED <<migrateVars, leaderVars>>

ElectionFails(r) ==
    /\ Fault
    /\ \/ phase[r] = "serving" /\ repair[r] = NoJob /\ (L!AcquireUnheard(r) \/ L!RenewFails(r))
       \/ phase[r] = "stopping" /\ isLeader[r] /\ L!LeaveKey(r)
    /\ UNCHANGED <<migrateVars, submissionVars>>

\* The mark fails: the next sweep enqueues the job once more.
SweepFails(r) ==
    /\ repair[r] # NoJob
    /\ Fault
    /\ repair' = [repair EXCEPT ![r] = NoJob]
    /\ UNCHANGED <<migrateVars, leaderVars, request, job, handed>>

KeyExpires ==
    /\ L!Expire
    /\ UNCHANGED <<migrateVars, submissionVars, faults>>

LeaderStalls ==
    /\ Fault
    /\ L!ExpireUnderLeader
    /\ UNCHANGED <<migrateVars, submissionVars>>

------------------------------------------------------------------------------

ReplicaStep(r) ==
    Start(r) \/ Boot(r) \/ Sweep(r) \/ Release(r) \/ Exit(r)

Next ==
    \/ \E r \in Replicas :
          \/ ReplicaStep(r) \/ Contend(r) \/ Shutdown(r)
          \/ BootFails(r) \/ Crash(r) \/ ElectionFails(r) \/ SweepFails(r)
    \/ \E q \in Requests : Handle(q) \/ RequestFails(q) \/ \E r \in Replicas : Receive(q, r)
    \/ KeyExpires
    \/ LeaderStalls

\* Processes are stopped and restarted by their supervisor, a waiting lock
\* request is served in turn, tickers fire, and Redis expires keys.
Fairness ==
    /\ \A r \in Replicas : WF_vars(ReplicaStep(r)) /\ WF_vars(Contend(r))
    /\ WF_vars(KeyExpires)

Spec == Init /\ [][Next]_vars /\ Fairness

------------------------------------------------------------------------------
(* Properties.                                                               *)

\* Racing and dying boots execute each migration once and in order (Migrate).
MigratedOnce == M!MigratedOnce

\* No replica serves, and none leads, on a schema older than its code (Migrate).
SchemaIsReady == M!SchemaIsReady

\* Submissions that race, are retried or are cut short make one job per
\* idempotency key, and all get that job as their answer (Submission).
OneJobPerKey == S!OneJobPerKey

\* enqueued_at is set only for jobs that are in Redis, by handlers and sweeps of
\* several replicas at once (Submission).
ReceiptIsTrue == S!ReceiptIsTrue

\* "unconditional DEL would release a successor's lock after a long GC pause"
\* (queue.go:557): the key of a replica that leads goes by its own hand or by
\* running out, never by a renewal or a release of another, however late.
OnlyOwnerReleases ==
    [][\A r \in Replicas :
          key = r /\ isLeader[r] /\ key' # r => ~isLeader'[r] \/ faults' # faults]_vars

\* Two replicas may lead at once, after a stall; the deposed one finds out.
SplitBrainHeals ==
    <>[](\A r, s \in Replicas : isLeader[r] /\ isLeader[s] => r = s)

\* "If Redis is down RIGHT NOW the job is still accepted: it is durable in
\* Postgres and the orphan sweep will enqueue it" (server.go:268): every row
\* reaches Redis, through crashes of the replica that took the request and of
\* the leader, lost replies, a key left behind and a change of leader.
AcceptedIsEnqueued ==
    \A q \in Requests : job[q].exists ~> q \in handed

===============================================================================
