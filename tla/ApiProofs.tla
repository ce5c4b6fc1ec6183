------------------------------ MODULE ApiProofs -------------------------------
(***************************************************************************)
(* Proofs about Api, for any replicas, any list of migrations, any         *)
(* requests and keys and any number of faults.                             *)
(*                                                                         *)
(* The inductive invariant has a part for each of the three modules Api    *)
(* composes.  Migrations: the advisory lock is held from the read to the   *)
(* commit, so what an open transaction read is what is recorded, and what  *)
(* it ran continues the list where the schema ends.  Submissions: the      *)
(* unique index, and where in a handler or a sweep a row is known to exist *)
(* or its envelope to be in Redis.  The election needs its types only.     *)
(***************************************************************************)
EXTENDS Api, TLAPS

\* What has taken effect is an initial part of the list, and is recorded.
SchemaIsInitial ==
    /\ Len(schema) <= Len(Files)
    /\ \A i \in 1 .. Len(schema) : schema[i] = Files[i]
    /\ versions = {Files[i] : i \in 1 .. Len(schema)}

\* An open transaction continues the list; nobody else has done anything yet.
TxContinues ==
    \A r \in Replicas :
        /\ phase[r] = "applying" =>
              /\ tx[r].applied = versions
              /\ Len(schema) + Len(tx[r].ran) <= Len(Files)
              /\ \A i \in 1 .. Len(tx[r].ran) : tx[r].ran[i] = Files[Len(schema) + i]
        /\ phase[r] # "applying" => tx[r] = M!NoTx

LockIsHeld ==
    \A r \in Replicas : phase[r] \in {"reading", "applying"} <=> lock = r

MigrateInv ==
    /\ M!MigrateTypeOK
    /\ SchemaIsInitial
    /\ TxContinues
    /\ LockIsHeld
    /\ SchemaIsReady

\* What a handler knows of its own row.
HandlerKnows ==
    \A q \in Requests :
        /\ request[q].at = "create" => S!Valid(q)
        /\ request[q].at \in {"enqueue", "receipt"} => job[q].exists
        /\ request[q].at = "receipt" => q \in handed
        /\ request[q].at = "answered" =>
              /\ request[q].answer \in Requests
              /\ job[request[q].answer].exists
              /\ KeyOf[request[q].answer] = KeyOf[q]
              /\ KeyOf[q] = NoKey => request[q].answer = q

\* The partial unique index on (type, idempotency_key).
IndexIsUnique ==
    \A p, q \in Requests :
        job[p].exists /\ job[q].exists /\ KeyOf[p] = KeyOf[q] /\ KeyOf[p] # NoKey => p = q

\* What a sweep is to mark is in Redis.
SweepKnows ==
    \A r \in Replicas : repair[r] # NoJob => job[repair[r]].exists /\ repair[r] \in handed

SubmissionInv ==
    /\ S!SubmissionTypeOK
    /\ HandlerKnows
    /\ IndexIsUnique
    /\ SweepKnows
    /\ ReceiptIsTrue

IInv ==
    /\ MigrateInv
    /\ L!LeaderTypeOK
    /\ SubmissionInv
    /\ faults \in 0 .. MaxFaults

------------------------------------------------------------------------------
(* Migrations.                                                               *)

\* A prefix, element by element.
LEMMA PrefixByIndex ==
    ASSUME NEW A, NEW s \in Seq(A), NEW t \in Seq(A), Len(s) <= Len(t),
           \A i \in 1 .. Len(s) : s[i] = t[i]
    PROVE  IsPrefix(s, t)
BY DEF IsPrefix

\* Where an open transaction stands, the missing files are the rest of the list.
LEMMA MissingIsRest ==
    ASSUME MigrateInv, NEW r \in Replicas, phase[r] = "applying"
    PROVE  M!Missing(r) = Len(schema) + Len(tx[r].ran) + 1 .. Len(Files)
<1> DEFINE n == Len(schema)
           ran == tx[r].ran
           m == Len(ran)
<1>1. /\ n \in Nat /\ m \in Nat /\ n + m <= Len(Files) /\ Len(Files) \in Nat
      /\ ran \in Seq(Range(Files)) /\ DOMAIN ran = 1 .. m
      /\ tx[r].applied = {Files[i] : i \in 1 .. n}
      /\ \A i \in 1 .. m : ran[i] = Files[n + i]
  BY ApiConstantsOK DEF MigrateInv, M!MigrateTypeOK, SchemaIsInitial, TxContinues, Range,
      M!Range
<1> HIDE DEF n, m, ran
<1>2. Range(ran) = {Files[n + i] : i \in 1 .. m}
  BY <1>1 DEF Range
<1>3. \A i \in 1 .. Len(Files) : Files[i] \in tx[r].applied \cup Range(ran) <=> i <= n + m
  <2> SUFFICES ASSUME NEW i \in 1 .. Len(Files)
               PROVE  Files[i] \in tx[r].applied \cup Range(ran) <=> i <= n + m
    OBVIOUS
  <2>1. CASE i <= n
    BY <1>1, <2>1
  <2>2. CASE i > n /\ i <= n + m
    <3>1. i - n \in 1 .. m /\ n + (i - n) = i
      BY <1>1, <2>2
    <3>. QED BY <1>2, <2>2, <3>1
  <2>3. CASE i > n + m
    <3>1. Files[i] \notin tx[r].applied
      BY <1>1, <2>3, ApiConstantsOK
    <3>2. Files[i] \notin Range(ran)
      BY <1>1, <1>2, <2>3, ApiConstantsOK
    <3>. QED BY <1>1, <2>3, <3>1, <3>2
  <2>. QED BY <1>1, <2>1, <2>2, <2>3
<1>4. M!Missing(r) = {i \in 1 .. Len(Files) : Files[i] \notin tx[r].applied \cup Range(ran)}
  BY DEF M!Missing, ran, Range, M!Range
<1>5. M!Missing(r) = n + m + 1 .. Len(Files)
  BY <1>1, <1>3, <1>4
<1>. QED BY <1>5 DEF n, m, ran

\* Every step of store.Migrate preserves the migration part.
LEMMA MigrateStepInv ==
    ASSUME MigrateInv, NEW r \in Replicas, M!Begin(r) \/ M!MigrateStep(r) \/ M!Fail(r)
    PROVE  MigrateInv'
<1> USE ApiConstantsOK DEF M!Enter, M!migrateVars
<1>0. /\ phase \in [Replicas -> M!Phases] /\ lock \in Replicas \cup {Nobody}
      /\ schema \in Seq(Range(Files)) /\ versions \subseteq Range(Files)
      /\ tx \in [Replicas -> [applied : SUBSET Range(Files), ran : Seq(Range(Files))]]
      /\ M!NoTx \in [applied : SUBSET Range(Files), ran : Seq(Range(Files))]
      /\ Len(schema) \in Nat /\ Len(Files) \in Nat
  BY DEF MigrateInv, M!MigrateTypeOK, M!NoTx, Range, M!Range
<1>1. CASE M!Begin(r)
  <2>1. M!MigrateTypeOK'
    BY <1>0, <1>1 DEF M!Begin, MigrateInv, M!MigrateTypeOK, M!Phases
  <2>2. SchemaIsInitial' /\ TxContinues'
    BY <1>0, <1>1 DEF M!Begin, MigrateInv, SchemaIsInitial, TxContinues
  <2>3. LockIsHeld'
    BY <1>0, <1>1 DEF M!Begin, MigrateInv, LockIsHeld
  <2>4. SchemaIsReady'
    BY <1>0, <1>1 DEF M!Begin, MigrateInv, SchemaIsReady, M!SchemaIsReady
  <2>. QED BY <2>1, <2>2, <2>3, <2>4 DEF MigrateInv
<1>2. CASE M!TakeLock(r)
  <2>1. M!MigrateTypeOK'
    BY <1>0, <1>2 DEF M!TakeLock, MigrateInv, M!MigrateTypeOK, M!Phases
  <2>2. SchemaIsInitial' /\ TxContinues' /\ LockIsHeld' /\ SchemaIsReady'
    BY <1>0, <1>2 DEF M!TakeLock, MigrateInv, SchemaIsInitial, TxContinues, LockIsHeld,
        SchemaIsReady, M!SchemaIsReady
  <2>. QED BY <2>1, <2>2 DEF MigrateInv
<1>3. CASE M!ReadApplied(r)
  <2>1. tx' = [tx EXCEPT ![r] = [applied |-> versions, ran |-> <<>>]]
    <3>1. tx[r] = [applied |-> {}, ran |-> <<>>]
      BY <1>0, <1>3 DEF M!ReadApplied, MigrateInv, TxContinues, M!NoTx
    <3>2. [tx[r] EXCEPT !.applied = versions] = [applied |-> versions, ran |-> <<>>]
      BY <3>1
    <3>. QED BY <1>0, <1>3, <3>2 DEF M!ReadApplied
  <2>2. M!MigrateTypeOK'
    <3>1. [applied |-> versions, ran |-> <<>>] \in
             [applied : SUBSET Range(Files), ran : Seq(Range(Files))]
      BY <1>0
    <3>2. tx' \in [Replicas -> [applied : SUBSET Range(Files), ran : Seq(Range(Files))]]
      BY <1>0, <2>1, <3>1
    <3>. QED BY <1>0, <1>3, <3>2 DEF M!ReadApplied, M!MigrateTypeOK, M!Phases, Range, M!Range
  <2>3. TxContinues'
    BY <1>0, <1>3, <2>1 DEF M!ReadApplied, MigrateInv, SchemaIsInitial, TxContinues
  <2>4. SchemaIsInitial' /\ LockIsHeld' /\ SchemaIsReady'
    BY <1>0, <1>3 DEF M!ReadApplied, MigrateInv, SchemaIsInitial, LockIsHeld,
        SchemaIsReady, M!SchemaIsReady
  <2>. QED BY <2>2, <2>3, <2>4 DEF MigrateInv
<1>4. CASE M!ApplyNext(r)
  <2> DEFINE n == Len(schema)
             m == Len(tx[r].ran)
  <2>1. phase[r] = "applying" /\ UNCHANGED <<phase, lock, schema, versions>>
    BY <1>4 DEF M!ApplyNext
  <2>2. PICK i \in M!Missing(r) :
           /\ \A k \in M!Missing(r) : i <= k
           /\ tx' = [tx EXCEPT ![r].ran = Append(tx[r].ran, Files[i])]
    BY <1>4 DEF M!ApplyNext
  <2>3. /\ tx[r].ran \in Seq(Range(Files)) /\ m \in Nat /\ n + m <= Len(Files)
        /\ \A k \in 1 .. m : tx[r].ran[k] = Files[n + k]
        /\ tx[r].applied = versions
    BY <1>0, <2>1 DEF MigrateInv, TxContinues
  <2>4. i = n + m + 1 /\ i <= Len(Files) /\ Files[i] \in Range(Files)
    <3>1. M!Missing(r) = n + m + 1 .. Len(Files)
      BY <2>1, MissingIsRest
    <3>2. i \in n + m + 1 .. Len(Files) /\ n + m + 1 \in n + m + 1 .. Len(Files)
      BY <1>0, <2>2, <2>3, <3>1
    <3>3. i <= n + m + 1
      BY <2>2, <3>1, <3>2
    <3>4. i = n + m + 1 /\ i \in 1 .. Len(Files)
      BY <1>0, <2>3, <3>2, <3>3
    <3>. QED BY <3>4 DEF Range
  <2> DEFINE ran == Append(tx[r].ran, Files[i])
  <2>5. /\ ran \in Seq(Range(Files)) /\ Len(ran) = m + 1
        /\ \A k \in 1 .. Len(ran) : ran[k] = Files[n + k]
    BY <1>0, <2>3, <2>4
  <2> HIDE DEF n, m, ran
  <2>6. tx' = [tx EXCEPT ![r] = [applied |-> versions, ran |-> ran]]
    <3>1. [tx[r] EXCEPT !.ran = ran] = [applied |-> versions, ran |-> ran]
      BY <1>0, <2>3
    <3>. QED BY <1>0, <2>2, <3>1 DEF ran
  <2>7. M!MigrateTypeOK'
    BY <1>0, <2>1, <2>5, <2>6 DEF MigrateInv, M!MigrateTypeOK, Range, M!Range
  <2>8. TxContinues'
    BY <1>0, <2>1, <2>3, <2>4, <2>5, <2>6 DEF MigrateInv, TxContinues, n, m
  <2>9. SchemaIsInitial' /\ LockIsHeld' /\ SchemaIsReady'
    BY <2>1 DEF MigrateInv, SchemaIsInitial, LockIsHeld, SchemaIsReady, M!SchemaIsReady
  <2>. QED BY <2>7, <2>8, <2>9 DEF MigrateInv
<1>5. CASE M!Commit(r)
  <2> DEFINE n == Len(schema)
             m == Len(tx[r].ran)
  <2>1. /\ phase[r] = "applying" /\ M!Missing(r) = {} /\ lock = r
        /\ schema' = schema \o tx[r].ran
        /\ versions' = versions \cup Range(tx[r].ran)
        /\ tx' = [tx EXCEPT ![r] = M!NoTx]
        /\ lock' = Nobody
        /\ phase' = [phase EXCEPT ![r] = "serving"]
    BY <1>5 DEF M!Commit, MigrateInv, LockIsHeld, Range, M!Range
  <2>2. /\ tx[r].ran \in Seq(Range(Files)) /\ m \in Nat /\ n + m <= Len(Files)
        /\ \A k \in 1 .. m : tx[r].ran[k] = Files[n + k]
        /\ \A k \in 1 .. n : schema[k] = Files[k]
        /\ versions = {Files[k] : k \in 1 .. n}
    BY <1>0, <2>1 DEF MigrateInv, TxContinues, SchemaIsInitial
  <2>3. n + m = Len(Files)
    <3>1. n + m + 1 .. Len(Files) = {}
      BY <2>1, MissingIsRest
    <3>2. n + m + 1 \notin n + m + 1 .. Len(Files)
      BY <3>1
    <3>. QED BY <1>0, <2>2, <3>2
  <2>4. /\ schema' \in Seq(Range(Files)) /\ Len(schema') = Len(Files)
        /\ \A k \in 1 .. Len(Files) : schema'[k] = Files[k]
    BY <1>0, <2>1, <2>2, <2>3
  <2>5. schema' = Files
    BY <1>0, <2>4
  <2>6. versions' = {Files[k] : k \in 1 .. Len(Files)}
    <3>1. Range(tx[r].ran) = {Files[n + k] : k \in 1 .. m}
      <4> DEFINE ran == tx[r].ran
      <4>1. DOMAIN ran = 1 .. m /\ \A k \in 1 .. m : ran[k] = Files[n + k]
        BY <2>2
      <4> HIDE DEF n, m, ran
      <4>2. Range(ran) = {Files[n + k] : k \in 1 .. m}
        BY <4>1 DEF Range
      <4>. QED BY <4>2 DEF ran
    <3>2. \A k \in 1 .. Len(Files) : k <= n \/ (k - n \in 1 .. m /\ n + (k - n) = k)
      BY <1>0, <2>2, <2>3
    <3>3. \A k \in 1 .. m : n + k \in 1 .. Len(Files)
      BY <1>0, <2>2, <2>3
    <3>4. \A k \in 1 .. n : k \in 1 .. Len(Files)
      BY <1>0, <2>2
    <3> HIDE DEF n, m
    <3>. QED BY <1>0, <2>1, <2>2, <3>1, <3>2, <3>3, <3>4
  <2>7. M!MigrateTypeOK'
    <3>1. versions' \subseteq Range(Files)
      BY <1>0, <2>6 DEF Range
    <3>2. tx' \in [Replicas -> [applied : SUBSET Range(Files), ran : Seq(Range(Files))]]
      BY <1>0, <2>1
    <3>3. phase' \in [Replicas -> M!Phases]
      BY <1>0, <2>1 DEF M!Phases
    <3>. QED BY <2>1, <2>4, <3>1, <3>2, <3>3 DEF M!MigrateTypeOK, Range, M!Range
  <2>8. SchemaIsInitial'
    BY <1>0, <2>5, <2>6 DEF SchemaIsInitial
  <2>9. LockIsHeld'
    BY <1>0, <2>1 DEF MigrateInv, LockIsHeld
  <2>10. TxContinues'
    BY <1>0, <2>1 DEF MigrateInv, TxContinues, LockIsHeld
  <2>11. SchemaIsReady'
    BY <2>5 DEF SchemaIsReady, M!SchemaIsReady
  <2>. QED BY <2>7, <2>8, <2>9, <2>10, <2>11 DEF MigrateInv
<1>6. CASE M!Fail(r)
  <2>1. /\ phase[r] \in {"waiting", "reading", "applying"}
        /\ tx' = [tx EXCEPT ![r] = M!NoTx]
        /\ lock' = IF lock = r THEN Nobody ELSE lock
        /\ phase' = [phase EXCEPT ![r] = "down"]
        /\ UNCHANGED <<schema, versions>>
    BY <1>6 DEF M!Fail, M!Migrating
  <2>2. M!MigrateTypeOK'
    BY <1>0, <2>1 DEF M!MigrateTypeOK, M!Phases, Range, M!Range
  <2>3. LockIsHeld'
    BY <1>0, <2>1 DEF MigrateInv, LockIsHeld
  <2>4. TxContinues' /\ SchemaIsInitial' /\ SchemaIsReady'
    BY <1>0, <2>1 DEF MigrateInv, TxContinues, SchemaIsInitial, SchemaIsReady,
        M!SchemaIsReady
  <2>. QED BY <2>2, <2>3, <2>4 DEF MigrateInv
<1>. QED BY <1>1, <1>2, <1>3, <1>4, <1>5, <1>6 DEF M!MigrateStep

------------------------------------------------------------------------------
(* Submissions.                                                              *)

Working == {"create", "lookup", "enqueue", "receipt"}

\* What a handler must make sure of when it leaves request q at h, its row at w
\* and the handed-over jobs at hs.
HandlerMayLeave(q, h, w, hs) ==
    /\ h.at \in Working <=> h.on # Nobody
    /\ h.at = "create" => S!Valid(q)
    /\ h.at \in {"enqueue", "receipt"} => w.exists
    /\ h.at = "receipt" => q \in hs
    /\ h.at = "answered" => \/ h.answer = q /\ w.exists
                            \/ h.answer \in S!Conflicting(q)
    /\ w = job[q] \/ (w.exists /\ ~w.enqueued /\ w.maxAttempts >= 1 /\ S!Conflicting(q) = {})
                   \/ (w = [job[q] EXCEPT !.enqueued = TRUE] /\ q \in hs)
    /\ hs = handed \/ hs = handed \cup {q}

\* Whatever a handler does within those limits preserves the submission part.
LEMMA HandlerEffect ==
    ASSUME SubmissionInv, NEW q \in Requests, NEW h \in S!Handlers, NEW w \in S!Rows,
           request' = [request EXCEPT ![q] = h],
           job' = [job EXCEPT ![q] = w],
           HandlerMayLeave(q, h, w, handed'),
           UNCHANGED repair
    PROVE  SubmissionInv'
<1> USE DEF HandlerMayLeave, Working
<1>0. /\ request \in [Requests -> S!Handlers] /\ job \in [Requests -> S!Rows]
      /\ handed \subseteq Requests /\ repair \in [Replicas -> Requests \cup {NoJob}]
      /\ \A p \in Requests : request[p].at \in Working <=> request[p].on # Nobody
      /\ \A p \in Requests : job[p].exists => job[p].maxAttempts >= 1
  BY DEF SubmissionInv, S!SubmissionTypeOK
<1>1. /\ handed \subseteq handed' /\ handed' \subseteq Requests
      /\ job[q].exists => w.exists
      /\ w.exists => w.maxAttempts >= 1
      /\ w.enqueued => q \in handed' 
      /\ w.exists => job[q].exists \/ S!Conflicting(q) = {}
  BY <1>0 DEF S!Rows, SubmissionInv, ReceiptIsTrue, S!ReceiptIsTrue
<1>2. \A p \in Requests : /\ request'[p] = IF p = q THEN h ELSE request[p]
                          /\ job'[p] = IF p = q THEN w ELSE job[p]
                          /\ job[p].exists => job'[p].exists
  BY <1>0, <1>1
<1>3. S!SubmissionTypeOK'
  <2>1. request' \in [Requests -> S!Handlers] /\ job' \in [Requests -> S!Rows]
    BY <1>0
  <2>2. \A p \in Requests : request'[p].at \in Working <=> request'[p].on # Nobody
    BY <1>0, <1>2
  <2>3. \A p \in Requests : job'[p].exists => job'[p].maxAttempts >= 1
    BY <1>0, <1>1, <1>2
  <2>. QED BY <1>0, <1>1, <2>1, <2>2, <2>3 DEF S!SubmissionTypeOK
<1>4. HandlerKnows'
  <2> SUFFICES ASSUME NEW p \in Requests
               PROVE  /\ request'[p].at = "create" => S!Valid(p)
                      /\ request'[p].at \in {"enqueue", "receipt"} => job'[p].exists
                      /\ request'[p].at = "receipt" => p \in handed'
                      /\ request'[p].at = "answered" =>
                            /\ request'[p].answer \in Requests
                            /\ job'[request'[p].answer].exists
                            /\ KeyOf[request'[p].answer] = KeyOf[p]
                            /\ KeyOf[p] = NoKey => request'[p].answer = p
    BY DEF HandlerKnows, S!Valid, S!MaxAttempts
  <2>1. CASE p # q
    BY <1>1, <1>2, <2>1 DEF SubmissionInv, HandlerKnows
  <2>2. CASE p = q
    BY <1>1, <1>2, <2>2 DEF S!Conflicting
  <2>. QED BY <2>1, <2>2
<1>5. IndexIsUnique'
  BY <1>0, <1>1, <1>2 DEF SubmissionInv, IndexIsUnique, S!Conflicting
<1>6. SweepKnows'
  BY <1>0, <1>1, <1>2 DEF SubmissionInv, SweepKnows
<1>7. ReceiptIsTrue'
  BY <1>1, <1>2 DEF SubmissionInv, ReceiptIsTrue, S!ReceiptIsTrue
<1>. QED BY <1>3, <1>4, <1>5, <1>6, <1>7 DEF SubmissionInv

\* A step of a handler on request q.
HandlerMoves(q) ==
    \/ S!HandlerStep(q) \/ S!CreateFails(q) \/ S!EnqueueFails(q) \/ S!SetEnqueuedFails(q)
    \/ \E r \in Replicas : S!Receive(q, r)

\* Every step of handleSubmit stays within them.
LEMMA HandlerStepInv ==
    ASSUME SubmissionInv, NEW q \in Requests, HandlerMoves(q)
    PROVE  SubmissionInv'
<1> USE ApiConstantsOK DEF HandlerMayLeave, Working
<1>0. /\ request \in [Requests -> S!Handlers] /\ job \in [Requests -> S!Rows]
      /\ request[q] \in S!Handlers /\ job[q] \in S!Rows
      /\ request[q].at \in Working <=> request[q].on # Nobody
      /\ job = [job EXCEPT ![q] = job[q]]
  BY DEF SubmissionInv, S!SubmissionTypeOK
<1> DEFINE move(s) == [at |-> s, on |-> request[q].on, answer |-> request[q].answer]
           end(s, a) == [at |-> s, on |-> Nobody, answer |-> a]
           new == [exists |-> TRUE, maxAttempts |-> S!MaxAttempts(q), enqueued |-> FALSE]
<1>1. /\ move("lookup") \in S!Handlers /\ move("enqueue") \in S!Handlers
      /\ move("receipt") \in S!Handlers
      /\ end("refused", NoJob) \in S!Handlers
      /\ \A j \in Requests : end("answered", j) \in S!Handlers
  BY <1>0 DEF S!Handlers, S!RequestStates
<1>2. \A s : S!MoveTo(q, s) => request' = [request EXCEPT ![q] = move(s)]
  BY <1>0 DEF S!MoveTo, S!Handlers
<1>3. request[q].at = "create" => S!Valid(q) /\ new \in S!Rows /\ new.maxAttempts >= 1
  BY <1>0 DEF SubmissionInv, HandlerKnows, S!Valid, S!Rows
<1>4. ASSUME NEW r \in Replicas, S!Receive(q, r) PROVE SubmissionInv'
  <2>1. CASE S!Valid(q)
    <3> DEFINE h == [at |-> "create", on |-> r, answer |-> request[q].answer]
    <3>1. h \in S!Handlers /\ request' = [request EXCEPT ![q] = h]
      BY <1>0, <1>4, <2>1 DEF S!Receive, S!Handlers, S!RequestStates
    <3>2. HandlerMayLeave(q, h, job[q], handed')
      BY <1>4, <2>1 DEF S!Receive
    <3> HIDE DEF h
    <3>. QED BY <1>0, <1>4, <3>1, <3>2, HandlerEffect DEF S!Receive
  <2>2. CASE ~S!Valid(q)
    <3>1. request' = [request EXCEPT ![q] = end("refused", NoJob)]
      BY <1>4, <2>2 DEF S!Receive, S!Refuse
    <3>2. HandlerMayLeave(q, end("refused", NoJob), job[q], handed')
      BY <1>4 DEF S!Receive
    <3>. QED BY <1>0, <1>1, <1>4, <3>1, <3>2, HandlerEffect DEF S!Receive
  <2>. QED BY <2>1, <2>2
<1>5. ASSUME S!CreateJob(q) PROVE SubmissionInv'
  <2>1. CASE S!Conflicting(q) = {}
    <3>1. /\ request' = [request EXCEPT ![q] = move("enqueue")]
          /\ job' = [job EXCEPT ![q] = new]
      BY <1>2, <1>5, <2>1 DEF S!CreateJob, S!InsertRow
    <3>2. HandlerMayLeave(q, move("enqueue"), new, handed')
      BY <1>0, <1>3, <1>5, <2>1 DEF S!CreateJob
    <3>3. new \in S!Rows
      BY <1>3, <1>5 DEF S!CreateJob
    <3> HIDE DEF new, move
    <3>. QED BY <1>1, <1>5, <3>1, <3>2, <3>3, HandlerEffect DEF S!CreateJob
  <2>2. CASE S!Conflicting(q) # {}
    <3>1. request' = [request EXCEPT ![q] = move("lookup")] /\ job' = job
      BY <1>2, <1>5, <2>2 DEF S!CreateJob
    <3>2. HandlerMayLeave(q, move("lookup"), job[q], handed')
      BY <1>0, <1>5 DEF S!CreateJob
    <3> HIDE DEF move
    <3>. QED BY <1>0, <1>1, <1>5, <3>1, <3>2, HandlerEffect DEF S!CreateJob
  <2>. QED BY <2>1, <2>2
<1>6. ASSUME S!CreateFails(q) PROVE SubmissionInv'
  <2>1. request' = [request EXCEPT ![q] = end("refused", NoJob)]
    BY <1>6 DEF S!CreateFails, S!Refuse
  <2>2. CASE job' = job
    <3>1. HandlerMayLeave(q, end("refused", NoJob), job[q], handed')
      BY <1>6 DEF S!CreateFails
    <3> HIDE DEF end
    <3>. QED BY <1>0, <1>1, <1>6, <2>1, <2>2, <3>1, HandlerEffect DEF S!CreateFails
  <2>3. CASE request[q].at = "create" /\ S!Conflicting(q) = {} /\ S!InsertRow(q)
    <3>1. HandlerMayLeave(q, end("refused", NoJob), new, handed')
      BY <1>3, <1>6, <2>3 DEF S!CreateFails
    <3>2. job' = [job EXCEPT ![q] = new] /\ new \in S!Rows
      BY <1>3, <2>3 DEF S!InsertRow
    <3> HIDE DEF end, new
    <3>. QED BY <1>1, <1>6, <2>1, <3>1, <3>2, HandlerEffect DEF S!CreateFails
  <2>. QED BY <1>6, <2>2, <2>3 DEF S!CreateFails
<1>7. ASSUME S!AnswerReplay(q) PROVE SubmissionInv'
  <2>1. PICK j \in S!Conflicting(q) : S!Answer(q, j)
    BY <1>7 DEF S!AnswerReplay
  <2>2. request' = [request EXCEPT ![q] = end("answered", j)] /\ j \in Requests
    BY <2>1 DEF S!Answer, S!Conflicting
  <2>3. HandlerMayLeave(q, end("answered", j), job[q], handed')
    BY <1>7, <2>1 DEF S!AnswerReplay
  <2> HIDE DEF end
  <2>. QED BY <1>0, <1>1, <1>7, <2>2, <2>3, HandlerEffect DEF S!AnswerReplay
<1>8. ASSUME S!Enqueue(q) PROVE SubmissionInv'
  <2>1. request' = [request EXCEPT ![q] = move("receipt")]
    BY <1>2, <1>8 DEF S!Enqueue
  <2>2. job[q].exists
    BY <1>8 DEF S!Enqueue, SubmissionInv, HandlerKnows
  <2>3. HandlerMayLeave(q, move("receipt"), job[q], handed')
    BY <1>0, <1>8, <2>2 DEF S!Enqueue
  <2> HIDE DEF move
  <2>. QED BY <1>0, <1>1, <1>8, <2>1, <2>3, HandlerEffect DEF S!Enqueue
<1>9. ASSUME S!EnqueueFails(q) \/ S!SetEnqueuedFails(q) PROVE SubmissionInv'
  <2>1. request' = [request EXCEPT ![q] = end("answered", q)]
    BY <1>9 DEF S!EnqueueFails, S!SetEnqueuedFails, S!Answer
  <2>2. job[q].exists
    BY <1>9 DEF S!EnqueueFails, S!SetEnqueuedFails, SubmissionInv, HandlerKnows
  <2>3. HandlerMayLeave(q, end("answered", q), job[q], handed')
    BY <1>9, <2>2 DEF S!EnqueueFails, S!SetEnqueuedFails
  <2>4. job' = job /\ repair' = repair
    BY <1>9 DEF S!EnqueueFails, S!SetEnqueuedFails
  <2> HIDE DEF end
  <2>. QED BY <1>0, <1>1, <2>1, <2>3, <2>4, HandlerEffect
<1>10. ASSUME S!SetEnqueued(q) PROVE SubmissionInv'
  <2> DEFINE w == [job[q] EXCEPT !.enqueued = TRUE]
  <2>1. request' = [request EXCEPT ![q] = end("answered", q)] /\ job' = [job EXCEPT ![q] = w]
    BY <1>10 DEF S!SetEnqueued, S!Answer
  <2>2. job[q].exists /\ q \in handed'
    BY <1>10 DEF S!SetEnqueued, SubmissionInv, HandlerKnows
  <2>3. w \in S!Rows /\ w.exists
    BY <1>0, <2>2 DEF S!Rows
  <2>4. HandlerMayLeave(q, end("answered", q), w, handed')
    BY <1>10, <2>2, <2>3 DEF S!SetEnqueued
  <2> HIDE DEF end, w
  <2>. QED BY <1>1, <1>10, <2>1, <2>3, <2>4, HandlerEffect DEF S!SetEnqueued
<1>. QED BY <1>4, <1>5, <1>6, <1>7, <1>8, <1>9, <1>10 DEF HandlerMoves, S!HandlerStep

\* A step of the orphan sweep on replica r, or its end.
SweepMoves(r) ==
    \/ \E q \in Requests : S!RepairUnenqueued(r, q)
    \/ S!RepairMark(r)
    \/ repair' = [repair EXCEPT ![r] = NoJob] /\ UNCHANGED <<request, job, handed>>
    \/ S!Abandon(r)

\* The orphan sweep, and the death of a replica, preserve the submission part.
LEMMA SweepStepInv ==
    ASSUME SubmissionInv, NEW r \in Replicas, SweepMoves(r)
    PROVE  SubmissionInv'
<1> USE ApiConstantsOK
<1>1. ASSUME NEW q \in Requests, S!RepairUnenqueued(r, q) PROVE SubmissionInv'
  BY <1>1 DEF S!RepairUnenqueued, SubmissionInv, S!SubmissionTypeOK, HandlerKnows,
      IndexIsUnique, SweepKnows, ReceiptIsTrue, S!ReceiptIsTrue, S!Valid, S!MaxAttempts
<1>2. ASSUME S!RepairMark(r) PROVE SubmissionInv'
  <2>1. PICK q \in Requests : q = repair[r]
    BY <1>2 DEF S!RepairMark, SubmissionInv, S!SubmissionTypeOK
  <2>2. /\ job' = [job EXCEPT ![q] = [job[q] EXCEPT !.enqueued = TRUE]]
        /\ repair' = [repair EXCEPT ![r] = NoJob]
        /\ UNCHANGED <<request, handed>>
        /\ q \in handed
    BY <1>2, <2>1 DEF S!RepairMark, SubmissionInv, SweepKnows
  <2> DEFINE w == [job[q] EXCEPT !.enqueued = TRUE]
  <2>3. w \in S!Rows /\ w.exists = job[q].exists /\ w.maxAttempts = job[q].maxAttempts
    BY DEF SubmissionInv, S!SubmissionTypeOK, S!Rows
  <2> HIDE DEF w
  <2>4. \A p \in Requests : /\ job'[p].exists = job[p].exists
                            /\ job'[p].maxAttempts = job[p].maxAttempts
                            /\ job'[p].enqueued => job[p].enqueued \/ p = q
    BY <2>2, <2>3 DEF SubmissionInv, S!SubmissionTypeOK, w
  <2>5. S!SubmissionTypeOK'
    <3>1. job' \in [Requests -> S!Rows]
      BY <2>2, <2>3 DEF SubmissionInv, S!SubmissionTypeOK, w
    <3>. QED BY <2>2, <2>4, <3>1 DEF SubmissionInv, S!SubmissionTypeOK
  <2>6. HandlerKnows'
    BY <2>2, <2>4 DEF SubmissionInv, HandlerKnows, S!Valid, S!MaxAttempts
  <2>7. IndexIsUnique'
    BY <2>4 DEF SubmissionInv, IndexIsUnique
  <2>8. SweepKnows'
    BY <2>2, <2>4 DEF SubmissionInv, S!SubmissionTypeOK, SweepKnows
  <2>9. ReceiptIsTrue'
    BY <2>2, <2>4 DEF SubmissionInv, ReceiptIsTrue, S!ReceiptIsTrue
  <2>. QED BY <2>5, <2>6, <2>7, <2>8, <2>9 DEF SubmissionInv
<1>3. ASSUME repair' = [repair EXCEPT ![r] = NoJob], UNCHANGED <<request, job, handed>>
      PROVE  SubmissionInv'
  BY <1>3 DEF SubmissionInv, S!SubmissionTypeOK, HandlerKnows, IndexIsUnique, SweepKnows,
      ReceiptIsTrue, S!ReceiptIsTrue, S!Valid, S!MaxAttempts
<1>4. ASSUME S!Abandon(r) PROVE SubmissionInv'
  <2>1. S!SubmissionTypeOK'
    BY <1>4 DEF S!Abandon, SubmissionInv, S!SubmissionTypeOK, S!Handlers, S!RequestStates
  <2>2. HandlerKnows'
    BY <1>4 DEF S!Abandon, SubmissionInv, S!SubmissionTypeOK, HandlerKnows, S!Valid,
        S!MaxAttempts
  <2>3. IndexIsUnique' /\ SweepKnows' /\ ReceiptIsTrue'
    BY <1>4 DEF S!Abandon, SubmissionInv, S!SubmissionTypeOK, IndexIsUnique, SweepKnows,
        ReceiptIsTrue, S!ReceiptIsTrue
  <2>. QED BY <2>1, <2>2, <2>3 DEF SubmissionInv
<1>. QED BY <1>1, <1>2, <1>3, <1>4 DEF SweepMoves

------------------------------------------------------------------------------
(* The composition.                                                          *)

\* Replicas that have not started satisfy the inductive invariant.
LEMMA InitIInv == Init => IInv
<1> SUFFICES ASSUME Init PROVE IInv
  OBVIOUS
<1> USE ApiConstantsOK DEF Init
<1>1. MigrateInv
  <2>1. M!MigrateTypeOK
    BY DEF M!MigrateInit, M!MigrateTypeOK, M!Phases, M!NoTx
  <2>. QED BY <2>1 DEF M!MigrateInit, MigrateInv, SchemaIsInitial, TxContinues, LockIsHeld,
           SchemaIsReady, M!SchemaIsReady
<1>2. L!LeaderTypeOK
  BY DEF L!LeaderInit, L!LeaderTypeOK
<1>3. SubmissionInv
  <2>1. S!Unsent \in S!Handlers /\ S!NoRow \in S!Rows
    BY DEF S!Unsent, S!Handlers, S!RequestStates, S!NoRow, S!Rows
  <2>2. S!SubmissionTypeOK
    BY <2>1 DEF S!SubmissionInit, S!SubmissionTypeOK, S!Unsent, S!NoRow
  <2>. QED BY <2>2 DEF S!SubmissionInit, S!Unsent, S!NoRow, SubmissionInv, HandlerKnows,
           IndexIsUnique, SweepKnows, ReceiptIsTrue, S!ReceiptIsTrue
<1>. QED BY <1>1, <1>2, <1>3 DEF IInv

\* A replica that stops or dies gives up nothing of the migrations.
LEMMA PhaseStepInv ==
    ASSUME MigrateInv, NEW r \in Replicas, phase[r] \in {"serving", "stopping"},
           phase' = [phase EXCEPT ![r] = "stopping"] \/ phase' = [phase EXCEPT ![r] = "down"],
           UNCHANGED <<lock, schema, versions, tx>>
    PROVE  MigrateInv'
<1>1. M!MigrateTypeOK'
  BY DEF MigrateInv, M!MigrateTypeOK, M!Phases
<1>2. SchemaIsInitial' /\ TxContinues'
  BY DEF MigrateInv, M!MigrateTypeOK, SchemaIsInitial, TxContinues
<1>3. LockIsHeld'
  BY DEF MigrateInv, M!MigrateTypeOK, LockIsHeld
<1>4. SchemaIsReady'
  BY DEF MigrateInv, M!MigrateTypeOK, SchemaIsReady, M!SchemaIsReady
<1>. QED BY <1>1, <1>2, <1>3, <1>4 DEF MigrateInv

\* Steps that leave a part alone.
LEMMA PartsApart ==
    /\ MigrateInv /\ UNCHANGED migrateVars => MigrateInv'
    /\ L!LeaderTypeOK /\ UNCHANGED leaderVars => L!LeaderTypeOK'
    /\ SubmissionInv /\ UNCHANGED submissionVars => SubmissionInv'
<1>1. MigrateInv /\ UNCHANGED migrateVars => MigrateInv'
  BY DEF migrateVars, MigrateInv, M!MigrateTypeOK, SchemaIsInitial, TxContinues, LockIsHeld,
      SchemaIsReady, M!SchemaIsReady
<1>2. L!LeaderTypeOK /\ UNCHANGED leaderVars => L!LeaderTypeOK'
  BY DEF leaderVars, L!LeaderTypeOK
<1>3. SubmissionInv /\ UNCHANGED submissionVars => SubmissionInv'
  BY DEF submissionVars, SubmissionInv, S!SubmissionTypeOK, HandlerKnows, IndexIsUnique,
      SweepKnows, ReceiptIsTrue, S!ReceiptIsTrue, S!Valid, S!MaxAttempts
<1>. QED BY <1>1, <1>2, <1>3

\* Every step of a replica, of a request and of what goes wrong preserves the
\* inductive invariant.
LEMMA StepIInv == IInv /\ [Next]_vars => IInv'
<1> SUFFICES ASSUME IInv, [Next]_vars PROVE IInv'
  OBVIOUS
<1> USE ApiConstantsOK, PartsApart
<1>0. MigrateInv /\ L!LeaderTypeOK /\ SubmissionInv /\ faults \in 0 .. MaxFaults
  BY DEF IInv
<1>1. faults' = faults \/ Fault => faults' \in 0 .. MaxFaults
  BY <1>0 DEF Fault
<1>2. ASSUME NEW r \in Replicas,
             L!AcquireLeader(r) \/ L!RenewLeader(r) \/ L!ReleaseLeader(r) \/ L!LeaveKey(r)
                \/ L!AcquireUnheard(r) \/ L!RenewFails(r)
      PROVE  L!LeaderTypeOK'
  BY <1>0, <1>2 DEF L!LeaderTypeOK, L!AcquireLeader, L!RenewLeader, L!ReleaseLeader,
      L!LeaveKey, L!AcquireUnheard, L!RenewFails, L!StepDown
<1>3. ASSUME NEW r \in Replicas, Start(r) \/ Boot(r) \/ BootFails(r) PROVE IInv'
  <2>1. MigrateInv'
    BY <1>0, <1>3, MigrateStepInv DEF Start, Boot, BootFails
  <2>. QED BY <1>0, <1>1, <1>3, <2>1 DEF Start, Boot, BootFails, IInv
<1>4. ASSUME NEW r \in Replicas, Contend(r) \/ Release(r) \/ ElectionFails(r) PROVE IInv'
  <2>1. L!LeaderTypeOK'
    BY <1>2, <1>4 DEF Contend, Release, ElectionFails
  <2>. QED BY <1>0, <1>1, <1>4, <2>1 DEF Contend, Release, ElectionFails, IInv
<1>5. ASSUME NEW r \in Replicas, Sweep(r) \/ SweepFails(r) PROVE IInv'
  <2>1. SubmissionInv'
    BY <1>0, <1>5, SweepStepInv DEF Sweep, SweepFails, SweepMoves
  <2>. QED BY <1>0, <1>1, <1>5, <2>1 DEF Sweep, SweepFails, IInv
<1>6. ASSUME NEW q \in Requests, Handle(q) \/ RequestFails(q) \/ \E r \in Replicas : Receive(q, r)
      PROVE  IInv'
  <2>1. SubmissionInv'
    BY <1>0, <1>6, HandlerStepInv DEF Handle, RequestFails, Receive, HandlerMoves
  <2>. QED BY <1>0, <1>1, <1>6, <2>1 DEF Handle, RequestFails, Receive, IInv
<1>7. ASSUME NEW r \in Replicas, Shutdown(r) PROVE IInv'
  <2>1. MigrateInv'
    BY <1>0, <1>7, PhaseStepInv DEF Shutdown
  <2>2. SubmissionInv'
    BY <1>0, <1>7, SweepStepInv DEF Shutdown, SweepMoves
  <2>. QED BY <1>0, <1>1, <1>7, <2>1, <2>2 DEF Shutdown, IInv
<1>8. ASSUME NEW r \in Replicas, Exit(r) PROVE IInv'
  <2>1. MigrateInv'
    BY <1>0, <1>8, PhaseStepInv DEF Exit
  <2>2. SubmissionInv'
    BY <1>0, <1>8, SweepStepInv DEF Exit, SweepMoves
  <2>. QED BY <1>0, <1>1, <1>8, <2>1, <2>2 DEF Exit, IInv
<1>9. ASSUME NEW r \in Replicas, Crash(r) PROVE IInv'
  <2>1. MigrateInv'
    BY <1>0, <1>9, PhaseStepInv DEF Crash
  <2>2. SubmissionInv'
    BY <1>0, <1>9, SweepStepInv DEF Crash, SweepMoves
  <2>3. L!LeaderTypeOK'
    BY <1>2, <1>9 DEF Crash
  <2>. QED BY <1>1, <1>9, <2>1, <2>2, <2>3 DEF Crash, IInv
<1>10. CASE KeyExpires \/ LeaderStalls
  <2>1. L!LeaderTypeOK'
    BY <1>0, <1>10 DEF KeyExpires, LeaderStalls, L!Expire, L!ExpireUnderLeader,
        L!LeaderTypeOK
  <2>. QED BY <1>0, <1>1, <1>10, <2>1 DEF KeyExpires, LeaderStalls, IInv
<1>11. CASE UNCHANGED vars
  BY <1>0, <1>1, <1>11 DEF vars, IInv
<1>. QED BY <1>3, <1>4, <1>5, <1>6, <1>7, <1>8, <1>9, <1>10, <1>11 DEF Next, ReplicaStep

\* The inductive invariant holds throughout.
LEMMA Inductive == Spec => []IInv
BY InitIInv, StepIInv, PTL DEF Spec

------------------------------------------------------------------------------
(* Theorems.                                                                 *)

\* Type correctness of the three parts together.
THEOREM TypeCorrect == Spec => []TypeOK
<1>1. IInv => TypeOK
  BY DEF IInv, TypeOK, MigrateInv, SubmissionInv
<1>. QED BY <1>1, Inductive, PTL

\* Any number of processes that boot at once, fail and boot again execute each
\* migration of any list once and in order.
THEOREM MigrationsRunOnce == Spec => []MigratedOnce
<1>1. IInv => MigratedOnce
  <2> SUFFICES ASSUME IInv PROVE MigratedOnce
    OBVIOUS
  <2>0. /\ schema \in Seq(Range(Files)) /\ Files \in Seq(Range(Files))
        /\ Len(schema) \in Nat /\ Len(schema) <= Len(Files)
        /\ \A i \in 1 .. Len(schema) : schema[i] = Files[i]
        /\ versions = {Files[i] : i \in 1 .. Len(schema)}
    BY ApiConstantsOK DEF IInv, MigrateInv, M!MigrateTypeOK, SchemaIsInitial, Range, M!Range
  <2>1. IsPrefix(schema, Files)
    BY <2>0, PrefixByIndex
  <2>2. versions = Range(schema)
    <3>1. DOMAIN schema = 1 .. Len(schema)
      BY <2>0
    <3>. QED BY <2>0, <3>1 DEF Range
  <2>3. ASSUME NEW r \in Replicas PROVE IsPrefix(schema \o tx[r].ran, Files)
    <3> DEFINE ran == tx[r].ran
               s == schema \o ran
    <3>1. /\ ran \in Seq(Range(Files)) /\ Len(schema) + Len(ran) <= Len(Files)
          /\ \A i \in 1 .. Len(ran) : ran[i] = Files[Len(schema) + i]
      <4>1. ran \in Seq(Range(Files))
        BY DEF IInv, MigrateInv, M!MigrateTypeOK, Range, M!Range
      <4>2. CASE phase[r] = "applying"
        BY <4>1, <4>2 DEF IInv, MigrateInv, TxContinues
      <4>3. CASE phase[r] # "applying"
        <5>1. ran = <<>>
          BY <4>3 DEF IInv, MigrateInv, TxContinues, M!NoTx
        <5>. QED BY <2>0, <4>1, <5>1
      <4>. QED BY <4>2, <4>3
    <3> HIDE DEF ran
    <3>2. /\ s \in Seq(Range(Files)) /\ Len(s) = Len(schema) + Len(ran)
          /\ \A i \in 1 .. Len(s) : s[i] = Files[i]
      BY <2>0, <3>1
    <3> HIDE DEF s
    <3>3. IsPrefix(s, Files)
      BY <2>0, <3>1, <3>2, PrefixByIndex
    <3>. QED BY <3>3 DEF s, ran
  <2>. QED BY <2>1, <2>2, <2>3 DEF MigratedOnce, M!MigratedOnce, IsPrefix, M!IsPrefix, Range,
           M!Range
<1>. QED BY <1>1, Inductive, PTL

\* No replica serves or leads on a schema older than its code.
THEOREM ServesOnFullSchema == Spec => []SchemaIsReady
<1>1. IInv => SchemaIsReady
  BY DEF IInv, MigrateInv
<1>. QED BY <1>1, Inductive, PTL

\* Idempotent submission: one key is one job, for any number of requests,
\* retries and keys, and every answer names it.
THEOREM Idempotent == Spec => []OneJobPerKey
<1>1. IInv => OneJobPerKey
  BY DEF IInv, SubmissionInv, HandlerKnows, IndexIsUnique, OneJobPerKey, S!OneJobPerKey
<1>. QED BY <1>1, Inductive, PTL

\* A receipt is only ever written for a job that is in Redis.
THEOREM ReceiptsAreTrue == Spec => []ReceiptIsTrue
<1>1. IInv => ReceiptIsTrue
  BY DEF IInv, SubmissionInv
<1>. QED BY <1>1, Inductive, PTL

\* A leader's key is never taken from it by another replica.
THEOREM OwnersRelease == Spec => OnlyOwnerReleases
<1> DEFINE A == \A r \in Replicas :
                   key = r /\ isLeader[r] /\ key' # r => ~isLeader'[r] \/ faults' # faults
<1>1. IInv /\ [Next]_vars => [A]_vars
  <2> SUFFICES ASSUME IInv, Next, NEW r \in Replicas, key = r, isLeader[r], key' # r,
                      faults' = faults
               PROVE  ~isLeader'[r]
    OBVIOUS
  <2>0. key # Nobody /\ isLeader \in [Replicas -> BOOLEAN] /\ faults \in Nat
    BY ApiConstantsOK DEF IInv, L!LeaderTypeOK
  <2>1. ~Fault
    BY <2>0 DEF Fault
  <2>2. (\E s \in Replicas : Contend(s) \/ Release(s)) \/ KeyExpires
    BY <2>1 DEF Next, ReplicaStep, Start, Boot, Sweep, Exit, Shutdown, BootFails, Crash,
        ElectionFails, SweepFails, Handle, RequestFails, Receive, LeaderStalls, leaderVars
  <2>3. \E s \in Replicas : Release(s)
    BY <2>0, <2>2 DEF Contend, KeyExpires, L!AcquireLeader, L!RenewLeader, L!Expire
  <2>. QED BY <2>0, <2>3 DEF Release, L!ReleaseLeader, L!StepDown
<1>. QED BY <1>1, Inductive, PTL DEF Spec, OnlyOwnerReleases

\* Who leads holds the key.
LeadersHoldKey == \A r \in Replicas : isLeader[r] => key = r

\* Two replicas lead at once only after one of them has stalled for the key's
\* whole time to live.  As long as that does not happen there is one leader at
\* most, through lost replies of SET NX, failed renewals and releases, crashes
\* that leave the key behind, restarts under the same ID, and expiries.  This is
\* what leaves two leaders of Dispatch to a stall alone.
THEOREM SplitBrainTakesAStall ==
    Spec /\ [][~LeaderStalls]_vars => [](\A r, s \in Replicas : isLeader[r] /\ isLeader[s] => r = s)
<1> DEFINE One == \A r, s \in Replicas : isLeader[r] /\ isLeader[s] => r = s
<1>1. Init => LeadersHoldKey
  BY DEF Init, L!LeaderInit, LeadersHoldKey
<1>2. IInv /\ LeadersHoldKey /\ [Next]_vars /\ [~LeaderStalls]_vars => LeadersHoldKey'
  <2> SUFFICES ASSUME IInv, LeadersHoldKey, [Next]_vars, [~LeaderStalls]_vars
               PROVE  LeadersHoldKey'
    OBVIOUS
  <2>0. Nobody \notin Replicas /\ isLeader \in [Replicas -> BOOLEAN]
    BY ApiConstantsOK DEF IInv, L!LeaderTypeOK
  <2>1. CASE UNCHANGED leaderVars
    BY <2>1 DEF leaderVars, LeadersHoldKey
  <2>2. ASSUME NEW r \in Replicas,
               \/ L!AcquireLeader(r) \/ L!AcquireUnheard(r)
               \/ L!RenewLeader(r) \/ L!RenewFails(r)
               \/ L!ReleaseLeader(r) \/ L!LeaveKey(r)
        PROVE  LeadersHoldKey'
    BY <2>0, <2>2 DEF LeadersHoldKey, L!AcquireLeader, L!AcquireUnheard, L!RenewLeader,
        L!RenewFails, L!ReleaseLeader, L!LeaveKey, L!StepDown, L!leaderVars
  <2>3. CASE L!Expire
    BY <2>0, <2>3 DEF LeadersHoldKey, L!Expire
  <2>4. CASE Next /\ ~LeaderStalls
    BY <2>1, <2>2, <2>3, <2>4 DEF Next, ReplicaStep, Start, Boot, Sweep, Release, Exit, Contend,
        Shutdown, BootFails, Crash, ElectionFails, SweepFails, Handle, RequestFails, Receive,
        KeyExpires, leaderVars
  <2>. QED BY <2>1, <2>4 DEF vars
<1>3. LeadersHoldKey => One
  BY DEF LeadersHoldKey
<1>. QED BY <1>1, <1>2, <1>3, Inductive, PTL DEF Spec

===============================================================================
