------------------------------ MODULE Submission ------------------------------
(***************************************************************************)
(* POST /jobs: validation and defaults (job.New), the idempotent insert    *)
(* (store.CreateJob), and the handoff to Redis with its receipt, one step  *)
(* per round trip; and the orphan sweep that repairs a handoff that did    *)
(* not happen.  A client that retries is a further request with the same   *)
(* key: it may do so while the first is still at work.                     *)
(*                                                                         *)
(* A job is named after the request whose uuid it carries.  Jobs stay      *)
(* PENDING here; what becomes of them is Dispatch.                         *)
(***************************************************************************)
EXTENDS Naturals

CONSTANTS
    Replicas, Nobody,
    Requests,
    NoJob,
    KeyOf,               \* KeyOf[q]: (type, idempotencyKey) of the request
    NoKey,               \* no idempotency key: NULL in the row
    AsksAttempts,        \* AsksAttempts[q]: options.maxAttempts, 0 if unset
    DefaultMaxAttempts, MaxAttemptsCeiling

VARIABLES
    request,   \* request[q]: where its handler is, on which replica, its answer
    job,       \* job[q]: the row with q's uuid
    handed,    \* the jobs whose envelope was put on a stream or in the delayed set
    repair     \* repair[r]: the job r's orphan sweep enqueued and is to mark

submissionVars == <<request, job, handed, repair>>

NoRow == [exists |-> FALSE, maxAttempts |-> 0, enqueued |-> FALSE]

Unsent == [at |-> "unsent", on |-> Nobody, answer |-> NoJob]

\* "refused": 4xx or 503.  "cut": the process died under the request.
RequestStates == {"unsent", "create", "lookup", "enqueue", "receipt", "answered", "refused", "cut"}

Handlers ==
    [at : RequestStates, on : Replicas \cup {Nobody}, answer : Requests \cup {NoJob}]

Rows == [exists : BOOLEAN, maxAttempts : 0 .. MaxAttemptsCeiling, enqueued : BOOLEAN]

SubmissionTypeOK ==
    /\ request \in [Requests -> Handlers]
    /\ \A q \in Requests : request[q].at \in {"create", "lookup", "enqueue", "receipt"}
                           <=> request[q].on # Nobody
    /\ job \in [Requests -> Rows]
    /\ \A q \in Requests : job[q].exists => job[q].maxAttempts >= 1
    /\ handed \subseteq Requests
    /\ repair \in [Replicas -> Requests \cup {NoJob}]

SubmissionInit ==
    /\ request = [q \in Requests |-> Unsent]
    /\ job = [q \in Requests |-> NoRow]
    /\ handed = {}
    /\ repair = [r \in Replicas |-> NoJob]

MoveTo(q, s) == request' = [request EXCEPT ![q].at = s]

\* The response is written and the handler returns.
Answer(q, j) == request' = [request EXCEPT ![q] = [at |-> "answered", on |-> Nobody, answer |-> j]]
Refuse(q) == request' = [request EXCEPT ![q] = [at |-> "refused", on |-> Nobody, answer |-> NoJob]]

\* job.New: the default where the client asks for nothing.
MaxAttempts(q) ==
    IF AsksAttempts[q] = 0 THEN DefaultMaxAttempts ELSE AsksAttempts[q]

\* Variant: no upper limit on the attempts a client may ask for.
ValidUnlimited(q) == MaxAttempts(q) >= 1

\* job.New's range check stands for every check of handleSubmit and job.New:
\* a request that fails one is answered 4xx and leaves no trace.
Valid(q) == MaxAttempts(q) \in 1 .. MaxAttemptsCeiling

\* handleSubmit up to the insert.
Receive(q, r) ==
    /\ request[q].at = "unsent"
    /\ IF Valid(q)
       THEN request' = [request EXCEPT ![q].at = "create", ![q].on = r]
       ELSE Refuse(q)
    /\ UNCHANGED <<job, handed, repair>>

\* The rows that the partial unique index on (type, idempotency_key) sets
\* against a new row of this request.
Conflicting(q) == {j \in Requests : job[j].exists /\ KeyOf[j] = KeyOf[q] /\ KeyOf[q] # NoKey}

InsertRow(q) ==
    job' = [job EXCEPT ![q] = [exists |-> TRUE, maxAttempts |-> MaxAttempts(q), enqueued |-> FALSE]]

\* INSERT ... ON CONFLICT DO NOTHING RETURNING id.
CreateJob(q) ==
    /\ request[q].at = "create"
    /\ IF Conflicting(q) = {}
       THEN InsertRow(q) /\ MoveTo(q, "enqueue")
       ELSE MoveTo(q, "lookup") /\ UNCHANGED job
    /\ UNCHANGED <<handed, repair>>

\* The insert or the lookup fails, or only its reply is lost: 503.
CreateFails(q) ==
    /\ request[q].at \in {"create", "lookup"}
    /\ Refuse(q)
    /\ \/ UNCHANGED job
       \/ request[q].at = "create" /\ Conflicting(q) = {} /\ InsertRow(q)
    /\ UNCHANGED <<handed, repair>>

\* Variant: a replay is answered with the job it carried.
AnswerReplayWithOwn(q) ==
    /\ request[q].at = "lookup"
    /\ Answer(q, q)
    /\ UNCHANGED <<job, handed, repair>>

\* The conflict's SELECT: a replay is answered with the original, and hands
\* nothing to Redis, whether or not the original has been handed over.
AnswerReplay(q) ==
    /\ request[q].at = "lookup"
    /\ \E j \in Conflicting(q) : Answer(q, j)
    /\ UNCHANGED <<job, handed, repair>>

Enqueue(q) ==
    /\ request[q].at = "enqueue"
    /\ handed' = handed \cup {q}
    /\ MoveTo(q, "receipt")
    /\ UNCHANGED <<job, repair>>

\* Variant: the receipt is written although the enqueue failed.
EnqueueFailsUnnoticed(q) ==
    /\ request[q].at = "enqueue"
    /\ MoveTo(q, "receipt")
    /\ UNCHANGED <<job, handed, repair>>

\* Redis is down: the job is accepted all the same.
EnqueueFails(q) ==
    /\ request[q].at = "enqueue"
    /\ Answer(q, q)
    /\ UNCHANGED <<job, handed, repair>>

\* SetEnqueued, then 201; if the statement fails, 201 without the receipt.
SetEnqueued(q) ==
    /\ request[q].at = "receipt"
    /\ job' = [job EXCEPT ![q].enqueued = TRUE]
    /\ Answer(q, q)
    /\ UNCHANGED <<handed, repair>>

SetEnqueuedFails(q) ==
    /\ request[q].at = "receipt"
    /\ Answer(q, q)
    /\ UNCHANGED <<job, handed, repair>>

\* repairUnenqueued on replica r, for one row of its list.
RepairUnenqueued(r, q) ==
    /\ repair[r] = NoJob
    /\ job[q].exists /\ ~job[q].enqueued
    /\ handed' = handed \cup {q}
    /\ repair' = [repair EXCEPT ![r] = q]
    /\ UNCHANGED <<request, job>>

RepairMark(r) ==
    /\ repair[r] # NoJob
    /\ job' = [job EXCEPT ![repair[r]].enqueued = TRUE]
    /\ repair' = [repair EXCEPT ![r] = NoJob]
    /\ UNCHANGED <<request, handed>>

\* The replica is gone, and with it what its handlers and its sweep had in hand.
Abandon(r) ==
    /\ request' = [q \in Requests |->
                     IF request[q].on = r
                     THEN [at |-> "cut", on |-> Nobody, answer |-> NoJob] ELSE request[q]]
    /\ repair' = [repair EXCEPT ![r] = NoJob]
    /\ UNCHANGED <<job, handed>>

HandlerStep(q) == CreateJob(q) \/ AnswerReplay(q) \/ Enqueue(q) \/ SetEnqueued(q)

\* "a submitter that timed out and retried cannot create duplicate work"
\* (store.go:87): one key has one row, and every request with the key that is
\* answered at all is answered with that row, in whichever order handlers,
\* retries and crashes come.
OneJobPerKey ==
    /\ \A q \in Requests : request[q].at = "answered" => job[request[q].answer].exists
    /\ \A p, q \in Requests :
         KeyOf[p] = KeyOf[q] /\ KeyOf[p] # NoKey =>
            /\ job[p].exists /\ job[q].exists => p = q
            /\ request[p].at = "answered" /\ request[q].at = "answered"
               => request[p].answer = request[q].answer

\* "Until this lands, the job is a candidate for the orphan sweep"
\* (store.go:120), and afterwards no longer: a receipt is only ever written for
\* a job that is in Redis, or that job is lost.
ReceiptIsTrue == \A q \in Requests : job[q].enqueued => q \in handed

===============================================================================
