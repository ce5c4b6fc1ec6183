--------------------------- MODULE RecorderProofs ----------------------------
(***************************************************************************)
(* Proofs about Recorder, for any number of jobs and runners, any mix of   *)
(* processes with and without a Batcher, any batch size and any faults.    *)
(*                                                                         *)
(* The difficulty is that an op outlives its caller: a runner that gave up *)
(* drops its claim while its op is still in the channel, and the loop      *)
(* later writes rows for claims nobody holds.  A batch is therefore no     *)
(* sequence of JobStore's statements, and JobStore's invariant has to be   *)
(* shown of it again.  What carries the argument is that an op, a claim, a *)
(* reaped attempt and an accepted outcome are all witnesses of one event,  *)
(* a claim of the job, which gave them their epoch and attempt number:     *)
(* WitnessesOK says that the row never falls behind its witnesses, and     *)
(* that until a requeue the attempt number names the claim as well as the  *)
(* epoch does, which is what makes (job_id, attempt) a sound primary key.  *)
(***************************************************************************)
EXTENDS Recorder, TLAPS, WellFoundedInduction

Table == INSTANCE JobStoreProofs

\* Ops that the loop still has to answer.
Queued == ToSet(in) \cup ToSet(pending)

Busy(r) == call[r].at # "idle"

Called == {call[r].op : r \in {s \in Runners : Busy(s)}}

Held == {claim[r] : r \in {s \in Runners : Store!Holds(s)}}

\* Everything that carries the coordinates of a claim.
Witnesses == Held \cup Called \cup Queued \cup accepted \cup doomed

\* The claim x stems from is the current one of its row, and running.
Open(x) == row[x.job].epoch = x.epoch /\ row[x.job].status = "RUNNING"

\* The row is where x left it or further on.
Fits(x) ==
    /\ x.job \in Jobs /\ x.epoch \in Nat
    /\ x.attempt \in 1 .. row[x.job].max
    /\ row[x.job].status # Store!Absent
    /\ x.epoch <= row[x.job].epoch
    /\ Open(x) => x.attempt = row[x.job].attempts
    /\ x.job \notin requeued =>
          /\ x.attempt <= row[x.job].attempts
          /\ x.attempt = row[x.job].attempts /\ row[x.job].status = "RUNNING" => Open(x)

\* Two witnesses of a job are of the same claim or differ in both coordinates.
Agree(x, y) ==
    x.job = y.job =>
        /\ x.epoch = y.epoch => x.attempt = y.attempt
        /\ x.attempt = y.attempt /\ x.job \notin requeued => x.epoch = y.epoch

WitnessesOK ==
    /\ \A x \in Witnesses : Fits(x)
    /\ \A x, y \in Witnesses : Agree(x, y)

\* A claim yields one op at most, ever.
OneOpPerClaim ==
    /\ \A o, p \in Called \cup Queued \cup accepted :
          o.job = p.job /\ o.epoch = p.epoch => o = p
    /\ \A r \in Runners : Store!Holds(r) /\ ~Busy(r) =>
          \A o \in Queued \cup accepted :
              ~(o.job = claim[r].job /\ o.epoch = claim[r].epoch)

\* finish() chose the op by its claim's coordinates, and max_attempts is fixed.
KindFits(op) ==
    /\ op.kind = "dead" => op.attempt >= row[op.job].max
    /\ op.kind = "retry" => op.attempt < row[op.job].max

OpsFit == \A op \in Called \cup Queued : op \in Ops /\ KindFits(op)

\* A call in progress is about the claim its runner holds.
CallsMatch ==
    \A r \in Runners :
        /\ ~Busy(r) => call[r] = IdleCall
        /\ Busy(r) => /\ Store!Holds(r)
                      /\ call[r].op.job = claim[r].job
                      /\ call[r].op.epoch = claim[r].epoch
                      /\ call[r].op.attempt = claim[r].attempt

\* The caller has not handed its op to the loop, or has its answer.
Settled(r) == call[r].at \in {"idle", "submit", "record"} \/ (call[r].at = "told" /\ ~call[r].err)

\* No op is queued twice, and none of a caller that is settled.
QueuedOnce ==
    /\ IsInjective(in) /\ IsInjective(pending)
    /\ ToSet(in) \cap ToSet(pending) = {}
    /\ \A r \in Runners : Settled(r) => call[r].op \notin Queued

\* Outcomes that were written, reported or reaped are over.
Closed ==
    /\ \A r \in Runners : call[r].at = "record" \/ (call[r].at = "told" /\ ~call[r].err)
                            => ~Store!Fence(r)
    /\ \A op \in accepted : ~Open(op)
    /\ \A x \in doomed : x.epoch < row[x.job].epoch

\* A reaped attempt has no accepted outcome (until a requeue counts anew).
ReapedIsNotAccepted ==
    \A x \in doomed, op \in accepted :
        x.job = op.job /\ x.job \notin requeued => x.attempt # op.attempt

\* Nothing is told of an attempt before it is over.
NothingToldEarly ==
    \A j \in Jobs \ requeued, n \in 1 .. MaxAttemptsCeiling :
        \/ n > row[j].attempts
        \/ n = row[j].attempts /\ row[j].status = "RUNNING"
        => history[j][n] = NoStory

\* A row that does not exist is blank, and one that runs has started.
RowsSane ==
    \A j \in Jobs :
        /\ row[j].status = Store!Absent => row[j] = Store!NoRow
        /\ row[j].status = "RUNNING" => row[j].attempts >= 1

IInv ==
    /\ TypeOK /\ Table!IInv
    /\ RowsSane /\ WitnessesOK /\ OneOpPerClaim /\ OpsFit /\ CallsMatch
    /\ QueuedOnce /\ Closed /\ ReapedIsNotAccepted /\ NothingToldEarly
    /\ AppliedIsTrue /\ HistoryTellsOutcome

------------------------------------------------------------------------------
(* Quiet steps: all but a claim and the beginning of a call.                 *)

\* No attempt of job j begins.
Kept(j) ==
    /\ row'[j].epoch >= row[j].epoch
    /\ row'[j].attempts = row[j].attempts \/ j \in requeued'
    /\ row'[j].status = "RUNNING" => /\ row[j].status = "RUNNING"
                                     /\ row'[j].epoch = row[j].epoch
                                     /\ row'[j].attempts = row[j].attempts
    /\ row[j].status # Store!Absent => /\ row'[j].max = row[j].max
                                       /\ row'[j].status # Store!Absent
    /\ row'[j].status = Store!Absent => row'[j] = row[j]

\* The claim x stems from does not run after the step.
Over(x) == row'[x.job].epoch # x.epoch \/ row'[x.job].status # "RUNNING"

\* What a runner without a call may tell of an attempt that it lost.
LostAttempt(r) == [kind |-> "leaseExpired", job |-> claim[r].job,
                   epoch |-> claim[r].epoch, attempt |-> claim[r].attempt]

Lost == {LostAttempt(r) : r \in {s \in Runners : Store!Holds(s) /\ ~Busy(s)}}

\* The rows, the claims and the calls.
QuietRows == requeued \subseteq requeued' /\ \A j \in Jobs : Kept(j)

QuietCalls ==
    \A r \in Runners :
        /\ \/ claim'[r] = claim[r]
           \/ claim'[r] = Store!NoClaim /\ call'[r] = IdleCall
        /\ \/ call'[r] = IdleCall /\ (Busy(r) => claim'[r] = Store!NoClaim)
           \/ Busy(r) /\ call'[r].at # "idle" /\ call'[r].op = call[r].op

\* Ops move on, from a caller to the queue and from there to the table, and
\* what is accepted was open and is closed by the step.
QuietOps ==
    /\ Queued' \subseteq Queued \cup Called
    /\ accepted \subseteq accepted'
    /\ \A op \in accepted' \ accepted :
          /\ op \in Queued \cup Called
          /\ Open(op) /\ Over(op)
          /\ batched # Runners \/ history'[op.job][op.attempt] # NoStory

\* What a reaper records of is the attempt it has just ended.
QuietDoomed ==
    \/ doomed' \subseteq doomed
    \/ /\ accepted' = accepted
       /\ \A x \in doomed' \ doomed :
             /\ x.job \in Jobs /\ Open(x) /\ x.attempt = row[x.job].attempts
             /\ x.epoch < row'[x.job].epoch

\* The first story of an attempt is told by someone whose claim is over.
QuietHistory ==
    \A j \in Jobs, n \in 1 .. MaxAttemptsCeiling :
        \/ history'[j][n] = history[j][n]
        \/ /\ history[j][n] = NoStory
           /\ \E x \in Called \cup Queued \cup doomed \cup Lost :
                 /\ x.job = j /\ x.attempt = n /\ Over(x)
                 /\ history'[j][n] = [kind |-> x.kind, epoch |-> x.epoch]

\* The answers.
Answered(c) == c.at = "record" \/ (c.at = "told" /\ ~c.err)

QuietAnswers ==
    \A r \in Runners :
        /\ Answered(call'[r]) => Answered(call[r]) \/ Over(call[r].op)
        /\ call'[r].at \in {"record", "told"} /\ call'[r].applied =>
              \/ call[r].at \in {"record", "told"} /\ call[r].applied
              \/ \E op \in accepted' : op.job = call[r].op.job /\ op.kind = call[r].op.kind

Quiet ==
    /\ QuietRows /\ QuietCalls /\ QuietOps /\ QuietDoomed /\ QuietHistory /\ QuietAnswers
    /\ batched' = batched

\* No new holders and callers.
LEMMA QuietSets ==
    ASSUME IInv, Quiet
    PROVE  /\ Held' \subseteq Held /\ Called' \subseteq Called
           /\ Witnesses' \subseteq Witnesses \cup doomed'
<1>1. Held' \subseteq Held
  BY DEF Quiet, QuietCalls, Held, Store!Holds, Store!NoClaim
<1>2. Called' \subseteq Called
  BY DEF Quiet, QuietCalls, Called, Busy, IdleCall
<1>. QED BY <1>1, <1>2 DEF Quiet, QuietOps, Witnesses

\* The rows stay sane and move on past every witness.
LEMMA QuietFits ==
    ASSUME IInv, TypeOK', Quiet
    PROVE  RowsSane' /\ \A x : Fits(x) => Fits(x)' /\ (~Open(x) => Over(x))
<1>1. \A j \in Jobs : row[j] \in Store!Rows /\ row'[j] \in Store!Rows
  BY DEF IInv, TypeOK, Store!TypeOK
<1>2. RowsSane'
  BY DEF IInv, RowsSane, Quiet, QuietRows, Kept, Store!Absent, Store!NoRow
<1>3. ASSUME NEW x, Fits(x) PROVE Fits(x)' /\ (~Open(x) => Over(x))
  <2>1. x.job \in Jobs /\ x.epoch \in Nat /\ row[x.job].status # Store!Absent
    BY <1>3 DEF Fits
  <2>2. Kept(x.job) /\ row[x.job] \in Store!Rows /\ row'[x.job] \in Store!Rows
    BY <1>1, <2>1 DEF Quiet, QuietRows
  <2>3. ~Open(x) => Over(x)
    BY <2>2 DEF Kept, Open, Over
  <2>4. Fits(x)'
    BY <1>3, <2>1, <2>2 DEF Fits, Open, Kept, Quiet, QuietRows, Store!Rows
  <2>. QED BY <2>3, <2>4
<1>. QED BY <1>2, <1>3

\* The witnesses keep agreeing with their rows and with each other.
LEMMA QuietWitnesses ==
    ASSUME IInv, TypeOK', Quiet
    PROVE  WitnessesOK'
<1>1. /\ \A x \in Witnesses : Fits(x)
      /\ \A x, y \in Witnesses : Agree(x, y)
  BY DEF IInv, WitnessesOK
<1>2. requeued \subseteq requeued'
  BY DEF Quiet, QuietRows
<1>3. \A x \in Witnesses : Fits(x)'
  BY <1>1, QuietFits
<1>4. \A x, y : Agree(x, y) => Agree(x, y)'
  BY <1>2 DEF Agree
<1>5. CASE doomed' \subseteq doomed
  <2>1. Witnesses' \subseteq Witnesses
    BY <1>5, QuietSets DEF Witnesses
  <2>. QED BY <1>1, <1>3, <1>4, <2>1 DEF WitnessesOK
<1>6. CASE ~(doomed' \subseteq doomed)
  <2> DEFINE New == doomed' \ doomed
  <2>1. \A x \in New : /\ x.job \in Jobs /\ Open(x) /\ x.attempt = row[x.job].attempts
                        /\ x.epoch < row'[x.job].epoch
    BY <1>6 DEF Quiet, QuietDoomed
  <2>2. Witnesses' \subseteq Witnesses \cup New
    BY QuietSets DEF Witnesses
  <2>3. \A x \in New : Fits(x)
    <3> SUFFICES ASSUME NEW x \in New PROVE Fits(x)
      OBVIOUS
    <3>1. /\ row[x.job] \in Store!Rows /\ row[x.job].attempts >= 1
          /\ row[x.job].attempts <= row[x.job].max
      BY <2>1 DEF IInv, TypeOK, Store!TypeOK, RowsSane, Open, Table!IInv, Table!BudgetRespected
    <3>. QED BY <2>1, <3>1 DEF Fits, Open, Store!Rows, Store!Absent
  <2>4. \A x \in New, y \in Witnesses \cup New : Agree(x, y) /\ Agree(y, x)
    <3> SUFFICES ASSUME NEW x \in New, NEW y \in Witnesses \cup New, x.job = y.job
                 PROVE  /\ x.epoch = y.epoch => x.attempt = y.attempt
                        /\ x.attempt = y.attempt /\ x.job \notin requeued => x.epoch = y.epoch
      BY DEF Agree
    <3>1. Fits(y) /\ Open(x) /\ x.attempt = row[x.job].attempts
      BY <1>1, <2>1, <2>3
    <3>. QED BY <3>1 DEF Fits, Open
  <2>5. \A x \in New : Fits(x)'
    BY <2>3, QuietFits
  <2>. HIDE DEF New
  <2>6. \A x, y \in Witnesses' : Agree(x, y)'
    BY <1>1, <1>4, <2>2, <2>4
  <2>. QED BY <1>3, <2>2, <2>5, <2>6 DEF WitnessesOK
<1>. QED BY <1>5, <1>6

\* Claims still have one op at most, which fits them and their call.
LEMMA QuietOneOp ==
    ASSUME IInv, TypeOK', Quiet
    PROVE  OneOpPerClaim' /\ OpsFit' /\ CallsMatch'
<1>1. /\ Called' \subseteq Called
      /\ Queued' \subseteq Queued \cup Called
      /\ accepted' \subseteq accepted \cup Queued \cup Called
  BY QuietSets DEF Quiet, QuietOps
<1>2. \A o, p \in Called \cup Queued \cup accepted :
        o.job = p.job /\ o.epoch = p.epoch => o = p
  BY DEF IInv, OneOpPerClaim
<1>3. ASSUME NEW r \in Runners, Store!Holds(r)', ~Busy(r)',
             NEW o \in Queued' \cup accepted',
             o.job = claim'[r].job, o.epoch = claim'[r].epoch
      PROVE  FALSE
  <2>1. claim'[r] = claim[r] /\ Store!Holds(r) /\ ~Busy(r)
    BY <1>3 DEF Quiet, QuietCalls, Busy, Store!Holds, Store!NoClaim
  <2>2. CASE o \in Queued \cup accepted
    BY <1>3, <2>1, <2>2 DEF IInv, OneOpPerClaim
  <2>3. CASE o \in Called
    <3>1. PICK s \in Runners : Busy(s) /\ o = call[s].op
      BY <2>3 DEF Called
    <3>2. Store!Holds(s) /\ claim[s].job = claim[r].job /\ claim[s].epoch = claim[r].epoch
      BY <1>3, <2>1, <3>1 DEF IInv, CallsMatch
    <3>3. s = r
      BY <2>1, <3>2 DEF IInv, Table!IInv, Table!EpochsDiffer, Table!Holds, Store!Holds,
          Table!NoClaim, Store!NoClaim
    <3>. QED BY <2>1, <3>1, <3>3
  <2>. QED BY <1>1, <1>3, <2>2, <2>3
<1>4. OneOpPerClaim'
  BY <1>1, <1>2, <1>3 DEF OneOpPerClaim
<1>5. OpsFit'
  <2> SUFFICES ASSUME NEW op \in Called' \cup Queued' PROVE op \in Ops /\ KindFits(op)'
    BY DEF OpsFit
  <2>1. op \in Ops /\ KindFits(op) /\ Fits(op)
    BY <1>1 DEF IInv, OpsFit, WitnessesOK, Witnesses
  <2>2. row'[op.job].max = row[op.job].max
    BY <2>1 DEF Fits, Quiet, QuietRows, Kept
  <2>. QED BY <2>1, <2>2 DEF KindFits
<1>6. CallsMatch'
  <2> SUFFICES ASSUME NEW r \in Runners
               PROVE  /\ ~Busy(r)' => call'[r] = IdleCall
                      /\ Busy(r)' => /\ Store!Holds(r)'
                                     /\ call'[r].op.job = claim'[r].job
                                     /\ call'[r].op.epoch = claim'[r].epoch
                                     /\ call'[r].op.attempt = claim'[r].attempt
    BY DEF CallsMatch
  <2>1. CASE call'[r] = IdleCall
    BY <2>1 DEF Busy, IdleCall
  <2>2. CASE call'[r] # IdleCall
    <3>1. Busy(r) /\ Busy(r)' /\ call'[r].op = call[r].op /\ claim'[r] = claim[r]
      BY <2>2 DEF Quiet, QuietCalls, Busy
    <3>. QED BY <3>1 DEF IInv, CallsMatch, Store!Holds, Store!NoClaim
  <2>. QED BY <2>1, <2>2
<1>. QED BY <1>4, <1>5, <1>6

\* What is over stays over, and answers stay true.
LEMMA QuietClosed ==
    ASSUME IInv, TypeOK', Quiet
    PROVE  Closed' /\ ReapedIsNotAccepted' /\ AppliedIsTrue'
<1>1. \A x \in Witnesses : Fits(x) /\ (~Open(x) => Over(x))
  BY QuietFits DEF IInv, WitnessesOK
<1>2. ASSUME NEW r \in Runners, Answered(call'[r]) PROVE ~Store!Fence(r)'
  <2>1. Busy(r) /\ claim'[r] = claim[r] /\ Busy(r)' /\ call'[r].op = call[r].op
    BY <1>2 DEF Quiet, QuietCalls, Answered, IdleCall, Busy
  <2>2. PICK o \in Witnesses : o = call[r].op /\ o = call'[r].op
    BY <2>1 DEF Witnesses, Called
  <2>3. o.job = claim[r].job /\ o.epoch = claim[r].epoch /\ Store!Holds(r)
    BY <2>1, <2>2 DEF IInv, CallsMatch
  <2>4. CASE Answered(call[r])
    <3>1. ~Open(o)
      BY <2>3, <2>4 DEF IInv, Closed, Answered, Open, Store!Fence
    <3>2. Over(o)
      BY <1>1, <3>1
    <3>. QED BY <2>1, <2>3, <3>2 DEF Store!Fence, Over
  <2>5. CASE ~Answered(call[r])
    <3>1. Over(o)
      BY <1>2, <2>2, <2>5 DEF Quiet, QuietAnswers
    <3>. QED BY <2>1, <2>3, <3>1 DEF Store!Fence, Over
  <2>. QED BY <2>4, <2>5
<1>3. ASSUME NEW op \in accepted' PROVE ~Open(op)'
  <2>1. Over(op)
    BY <1>1, <1>3 DEF IInv, Closed, Quiet, QuietOps, Witnesses
  <2>. QED BY <2>1 DEF Over, Open
<1>4. ASSUME NEW x \in doomed' PROVE x.epoch < row'[x.job].epoch
  <2>1. CASE x \notin doomed
    BY <1>4, <2>1 DEF Quiet, QuietDoomed
  <2>2. CASE x \in doomed
    <3>1. Fits(x) /\ x.epoch < row[x.job].epoch
      BY <1>1, <2>2 DEF Witnesses, IInv, Closed
    <3>2. Kept(x.job) /\ row[x.job] \in Store!Rows /\ row'[x.job] \in Store!Rows
      BY <3>1 DEF Fits, Quiet, QuietRows, IInv, TypeOK, Store!TypeOK
    <3>. QED BY <3>1, <3>2 DEF Fits, Kept, Store!Rows
  <2>. QED BY <2>1, <2>2
<1>5. Closed'
  BY <1>2, <1>3, <1>4 DEF Closed, Answered
<1>6. ASSUME NEW x \in doomed', NEW op \in accepted', x.job = op.job, x.job \notin requeued',
             x.attempt = op.attempt
      PROVE  FALSE
  <2>0. x.job \notin requeued
    BY <1>6 DEF Quiet, QuietRows
  <2>1. CASE x \in doomed /\ op \in accepted
    BY <1>6, <2>0, <2>1 DEF IInv, ReapedIsNotAccepted
  <2>2. CASE x \in doomed /\ op \notin accepted
    <3>1. Open(op) /\ op \in Queued \cup Called
      BY <1>6, <2>2 DEF Quiet, QuietOps
    <3>2. x.epoch = op.epoch
      BY <1>6, <2>0, <2>2, <3>1 DEF IInv, WitnessesOK, Witnesses, Agree
    <3>3. x.epoch < row[x.job].epoch /\ Fits(x)
      BY <1>1, <2>2 DEF IInv, Closed, Witnesses
    <3>4. row[x.job].epoch \in Nat
      BY <3>3 DEF Fits, IInv, TypeOK, Store!TypeOK, Store!Rows
    <3>. QED BY <1>6, <3>1, <3>2, <3>3, <3>4 DEF Open, Fits
  <2>3. CASE x \notin doomed
    <3>1. /\ op \in accepted /\ Open(x) /\ x.attempt = row[x.job].attempts
      BY <1>6, <2>3 DEF Quiet, QuietDoomed
    <3>2. Fits(op) /\ ~Open(op)
      BY <1>1, <3>1 DEF IInv, Closed, Witnesses
    <3>. QED BY <1>6, <2>0, <3>1, <3>2 DEF Fits, Open
  <2>. QED BY <2>1, <2>2, <2>3
<1>7. ReapedIsNotAccepted'
  BY <1>6 DEF ReapedIsNotAccepted
<1>8. AppliedIsTrue'
  <2> SUFFICES ASSUME NEW r \in Runners, call'[r].at \in {"record", "told"}, call'[r].applied
               PROVE  \E op \in accepted' : op.job = call'[r].op.job /\ op.kind = call'[r].op.kind
    BY DEF AppliedIsTrue
  <2>1. call'[r].op = call[r].op
    BY DEF Quiet, QuietCalls, IdleCall
  <2>. QED BY <2>1 DEF Quiet, QuietAnswers, QuietOps, IInv, AppliedIsTrue
<1>. QED BY <1>5, <1>7, <1>8

\* Who else could tell a story of an accepted attempt: nobody.
LEMMA TellersAgree ==
    ASSUME IInv, NEW op \in Called \cup Queued \cup accepted,
           op \in accepted \/ Open(op),
           NEW x \in Called \cup Queued \cup doomed \cup Lost,
           x.job = op.job, x.attempt = op.attempt, op.job \notin requeued
    PROVE  x = op
<1>1. ASSUME x \in Called \cup Queued PROVE x = op
  <2>1. x.epoch = op.epoch
    BY <1>1 DEF IInv, WitnessesOK, Witnesses, Agree
  <2>. QED BY <1>1, <2>1 DEF IInv, OneOpPerClaim
<1>2. ASSUME x \in doomed PROVE FALSE
  <2>1. op \notin accepted
    BY <1>2 DEF IInv, ReapedIsNotAccepted
  <2>2. x.epoch = op.epoch
    BY <1>2 DEF IInv, WitnessesOK, Witnesses, Agree
  <2>3. x.epoch < row[x.job].epoch /\ Fits(x)
    BY <1>2 DEF IInv, Closed, WitnessesOK, Witnesses
  <2>4. row[x.job].epoch \in Nat
    BY <2>3 DEF Fits, IInv, TypeOK, Store!TypeOK, Store!Rows
  <2>. QED BY <2>1, <2>2, <2>3, <2>4 DEF Open, Fits
<1>3. ASSUME x \in Lost PROVE FALSE
  <2>1. PICK r \in Runners : Store!Holds(r) /\ ~Busy(r) /\ x = LostAttempt(r)
    BY <1>3 DEF Lost
  <2>2. claim[r] \in Witnesses /\ claim[r].job = op.job /\ claim[r].attempt = op.attempt
    BY <2>1 DEF Witnesses, Held, LostAttempt
  <2>3. claim[r].epoch = op.epoch
    BY <2>2 DEF IInv, WitnessesOK, Witnesses, Agree
  <2>4. op \in Called
    BY <2>1, <2>2, <2>3 DEF IInv, OneOpPerClaim
  <2>5. PICK s \in Runners : Busy(s) /\ op = call[s].op
    BY <2>4 DEF Called
  <2>6. Store!Holds(s) /\ claim[s].job = claim[r].job /\ claim[s].epoch = claim[r].epoch
    BY <2>2, <2>3, <2>5 DEF IInv, CallsMatch
  <2>7. s = r
    BY <2>1, <2>6 DEF IInv, Table!IInv, Table!EpochsDiffer, Table!Holds, Store!Holds,
        Table!NoClaim, Store!NoClaim
  <2>. QED BY <2>1, <2>5, <2>7
<1>. QED BY <1>1, <1>2, <1>3

\* So the history goes on telling the accepted outcomes.
LEMMA QuietHistories ==
    ASSUME IInv, TypeOK', Quiet
    PROVE  NothingToldEarly' /\ HistoryTellsOutcome'
<1>0. requeued \subseteq requeued' /\ batched' = batched
  BY DEF Quiet, QuietRows
<1>1. ASSUME NEW x \in Called \cup Queued \cup doomed \cup Lost
      PROVE  Fits(x) /\ Fits(x)'
  <2>1. CASE x \in Lost
    <3>1. PICK r \in Runners : Store!Holds(r) /\ x = LostAttempt(r)
      BY <2>1 DEF Lost
    <3>2. Fits(claim[r])
      BY <3>1 DEF IInv, WitnessesOK, Witnesses, Held
    <3>3. Fits(x)
      BY <3>1, <3>2 DEF Fits, Open, LostAttempt
    <3>. QED BY <3>3, QuietFits
  <2>2. CASE x \in Witnesses
    BY <2>2, QuietFits DEF IInv, WitnessesOK
  <2>. QED BY <2>1, <2>2 DEF Witnesses
<1>2. NothingToldEarly'
  <2> SUFFICES ASSUME NEW j \in Jobs \ requeued', NEW n \in 1 .. MaxAttemptsCeiling,
                      \/ n > row'[j].attempts
                      \/ n = row'[j].attempts /\ row'[j].status = "RUNNING"
               PROVE  history'[j][n] = NoStory
    BY DEF NothingToldEarly, NoStory
  <2>1. CASE history'[j][n] = history[j][n]
    <3>1. /\ j \notin requeued /\ row'[j].attempts = row[j].attempts
          /\ row'[j].status = "RUNNING" => row[j].status = "RUNNING"
      BY <1>0 DEF Quiet, QuietRows, Kept
    <3>. QED BY <2>1, <3>1 DEF IInv, NothingToldEarly
  <2>2. CASE history'[j][n] # history[j][n]
    <3>0. QuietHistory /\ j \in Jobs
      BY DEF Quiet
    <3>1. PICK x \in Called \cup Queued \cup doomed \cup Lost :
            /\ x.job = j /\ x.attempt = n /\ Over(x)
            /\ history'[j][n] = [kind |-> x.kind, epoch |-> x.epoch]
      BY <2>2, <3>0 DEF QuietHistory
    <3>2. Fits(x)'
      BY <1>1
    <3>3. row'[j].attempts \in Nat /\ n \in Nat
      BY DEF TypeOK, Store!TypeOK, Store!Rows
    <3>. QED BY <3>1, <3>2, <3>3 DEF Fits, Open, Over
  <2>. QED BY <2>1, <2>2
<1>3. HistoryTellsOutcome'
  <2> SUFFICES ASSUME NEW op \in accepted', op.job \notin requeued'
               PROVE  \/ history'[op.job][op.attempt] = [kind |-> op.kind, epoch |-> op.epoch]
                      \/ batched # Runners /\ history'[op.job][op.attempt] = NoStory
    BY <1>0 DEF HistoryTellsOutcome, NoStory
  <2> DEFINE j == op.job
             n == op.attempt
  <2>1. op \in Called \cup Queued \cup accepted /\ (op \in accepted \/ Open(op))
    BY DEF Quiet, QuietOps
  <2>2. j \in Jobs /\ n \in 1 .. MaxAttemptsCeiling /\ j \notin requeued
    <3>1. Fits(op)
      BY <2>1 DEF IInv, WitnessesOK, Witnesses
    <3>2. row[j].max \in 1 .. MaxAttemptsCeiling
      BY <3>1 DEF Fits, IInv, TypeOK, Store!TypeOK, Store!Rows
    <3>. QED BY <1>0, <3>1, <3>2, RecorderConstantsOK DEF Fits
  <2>3. CASE history'[j][n] # history[j][n]
    <3>1. PICK x \in Called \cup Queued \cup doomed \cup Lost :
            /\ x.job = j /\ x.attempt = n
            /\ history'[j][n] = [kind |-> x.kind, epoch |-> x.epoch]
      BY <2>2, <2>3 DEF Quiet, QuietHistory
    <3>2. x = op
      BY <2>1, <2>2, <3>1, TellersAgree
    <3>. QED BY <3>1, <3>2
  <2>4. CASE history'[j][n] = history[j][n] /\ op \in accepted
    BY <2>2, <2>4 DEF IInv, HistoryTellsOutcome
  <2>5. CASE history'[j][n] = history[j][n] /\ op \notin accepted
    <3>1. Open(op) /\ (batched # Runners \/ history'[j][n] # NoStory)
      BY <2>5 DEF Quiet, QuietOps
    <3>2. n = row[j].attempts /\ row[j].status = "RUNNING"
      BY <2>1, <3>1 DEF IInv, WitnessesOK, Witnesses, Fits, Open
    <3>3. history[j][n] = NoStory
      BY <2>2, <3>2 DEF IInv, NothingToldEarly
    <3>. QED BY <2>5, <3>1, <3>3
  <2>. QED BY <2>3, <2>4, <2>5
<1>. QED BY <1>2, <1>3

------------------------------------------------------------------------------
(* The steps are quiet.                                                      *)

\* A channel that takes one more op.
LEMMA AppendOp ==
    ASSUME NEW S, NEW s \in Seq(S), NEW e \in S
    PROVE  /\ ToSet(Append(s, e)) = ToSet(s) \cup {e}
           /\ IsInjective(s) /\ e \notin ToSet(s) => IsInjective(Append(s, e))
<1> DEFINE t == Append(s, e)
<1>1. /\ Len(s) \in Nat /\ DOMAIN s = 1 .. Len(s) /\ DOMAIN t = 1 .. Len(s) + 1
      /\ t[Len(s) + 1] = e /\ \A i \in 1 .. Len(s) : t[i] = s[i]
  OBVIOUS
<1>2. 1 .. Len(s) + 1 = 1 .. Len(s) \cup {Len(s) + 1}
  BY <1>1
<1> HIDE DEF t
<1>3. ToSet(t) = ToSet(s) \cup {e}
  BY <1>1, <1>2 DEF ToSet
<1>4. ASSUME IsInjective(s), e \notin ToSet(s) PROVE IsInjective(t)
  BY <1>1, <1>2, <1>4 DEF ToSet, IsInjective
<1>. QED BY <1>3, <1>4 DEF t

\* A channel that gives one up.
LEMMA TakeOp ==
    ASSUME NEW S, NEW s \in Seq(S), s # <<>>
    PROVE  /\ Head(s) \in S /\ Tail(s) \in Seq(S)
           /\ ToSet(s) = ToSet(Tail(s)) \cup {Head(s)}
           /\ IsInjective(s) => IsInjective(Tail(s)) /\ Head(s) \notin ToSet(Tail(s))
<1>1. Head(s) \in S /\ Tail(s) \in Seq(S) /\ Head(s) = s[1] /\ Len(s) \in Nat \ {0}
  OBVIOUS
<1>2. DOMAIN Tail(s) = 1 .. Len(s) - 1 /\ \A i \in 1 .. Len(s) - 1 : Tail(s)[i] = s[i + 1]
  OBVIOUS
<1>3. ToSet(s) = ToSet(Tail(s)) \cup {Head(s)}
  <2>1. \A i \in 1 .. Len(s) : i = 1 \/ (i - 1 \in 1 .. Len(s) - 1 /\ (i - 1) + 1 = i)
    BY <1>1
  <2>2. \A i \in 1 .. Len(s) - 1 : i + 1 \in 1 .. Len(s)
    BY <1>1
  <2>3. DOMAIN s = 1 .. Len(s) /\ 1 \in 1 .. Len(s)
    BY <1>1
  <2>4. ASSUME NEW i \in 1 .. Len(s) PROVE s[i] \in ToSet(Tail(s)) \cup {Head(s)}
    <3>1. CASE i = 1
      BY <1>1, <3>1
    <3>2. CASE i # 1
      <4>1. i - 1 \in DOMAIN Tail(s) /\ Tail(s)[i - 1] = s[i]
        BY <1>2, <2>1, <3>2
      <4>. QED BY <4>1 DEF ToSet
    <3>. QED BY <3>1, <3>2
  <2>5. ASSUME NEW i \in 1 .. Len(s) - 1 PROVE Tail(s)[i] \in ToSet(s)
    BY <1>2, <2>2, <2>3 DEF ToSet
  <2>6. Head(s) \in ToSet(s)
    BY <1>1, <2>3 DEF ToSet
  <2>. QED BY <1>2, <2>3, <2>4, <2>5, <2>6 DEF ToSet
<1>4. ASSUME IsInjective(s) PROVE IsInjective(Tail(s)) /\ Head(s) \notin ToSet(Tail(s))
  <2>1. \A i, k \in 1 .. Len(s) : s[i] = s[k] => i = k
    BY <1>4 DEF IsInjective
  <2>2. \A i \in 1 .. Len(s) - 1 : i + 1 \in 1 .. Len(s) /\ i + 1 # 1 /\ 1 \in 1 .. Len(s)
    BY <1>1
  <2>3. \A i, k \in 1 .. Len(s) - 1 : i + 1 = k + 1 => i = k
    OBVIOUS
  <2>4. IsInjective(Tail(s))
    BY <1>2, <2>1, <2>2, <2>3 DEF IsInjective
  <2>5. Head(s) \notin ToSet(Tail(s))
    BY <1>1, <1>2, <2>1, <2>2 DEF ToSet
  <2>. QED BY <2>4, <2>5
<1>. QED BY <1>1, <1>3, <1>4

\* And an empty one.
LEMMA NoOps == ToSet(<<>>) = {} /\ IsInjective(<<>>)
BY DEF ToSet, IsInjective

\* Rows, calls, claims and history that a step leaves alone are quiet.
LEMMA Untouched ==
    ASSUME IInv
    PROVE  /\ row' = row /\ requeued' = requeued => QuietRows
           /\ call' = call /\ claim' = claim => QuietCalls
           /\ call' = call => QuietAnswers
           /\ history' = history => QuietHistory
           /\ doomed' \subseteq doomed => QuietDoomed
           /\ accepted' = accepted /\ in' = in /\ pending' = pending => QuietOps
<1>1. ASSUME row' = row, requeued' = requeued PROVE QuietRows
  <2>1. \A j \in Jobs : row[j].epoch \in Nat
    BY DEF IInv, TypeOK, Store!TypeOK, Store!Rows
  <2>. QED BY <1>1, <2>1 DEF QuietRows, Kept
<1>2. ASSUME call' = call, claim' = claim PROVE QuietCalls
  BY <1>2 DEF QuietCalls, IInv, CallsMatch, Busy
<1>3. ASSUME call' = call PROVE QuietAnswers
  BY <1>3 DEF QuietAnswers
<1>4. ASSUME history' = history PROVE QuietHistory
  BY <1>4 DEF QuietHistory
<1>5. ASSUME doomed' \subseteq doomed PROVE QuietDoomed
  BY <1>5 DEF QuietDoomed
<1>6. ASSUME accepted' = accepted, in' = in, pending' = pending PROVE QuietOps
  BY <1>6 DEF QuietOps, Queued
<1>. QED BY <1>1, <1>2, <1>3, <1>4, <1>5, <1>6

\* A call that moves from one place to another, or ends.
LEMMA CallMoves ==
    ASSUME IInv, NEW r \in Runners, NEW c, call' = [call EXCEPT ![r] = c],
           \/ Busy(r) /\ c.at # "idle" /\ c.op = call[r].op /\ claim' = claim
           \/ c = IdleCall /\ claim' = [claim EXCEPT ![r] = Store!NoClaim]
    PROVE  QuietCalls
<1>1. call = [s \in Runners |-> call[s]] /\ claim = [s \in Runners |-> claim[s]]
  BY DEF IInv, TypeOK, Store!TypeOK
<1>2. \A s \in Runners : ~Busy(s) => call[s] = IdleCall
  BY DEF IInv, CallsMatch
<1>. QED BY <1>1, <1>2 DEF QuietCalls, Busy

\* One attempt row, of an attempt that is over.
LEMMA TellsAttempt ==
    ASSUME IInv, NEW x \in Called \cup Queued \cup doomed \cup Lost, Over(x),
           history' = RecordAttempt(x)
    PROVE  QuietHistory
<1>1. history \in [Jobs -> [1 .. MaxAttemptsCeiling ->
                        [kind : Kinds \cup {"none", "leaseExpired"}, epoch : Nat]]]
  BY DEF IInv, TypeOK
<1>2. SUFFICES ASSUME NEW j \in Jobs, NEW n \in 1 .. MaxAttemptsCeiling
               PROVE  \/ history'[j][n] = history[j][n]
                      \/ /\ history[j][n] = NoStory /\ x.job = j /\ x.attempt = n
                         /\ history'[j][n] = [kind |-> x.kind, epoch |-> x.epoch]
  BY DEF QuietHistory
<1>3. CASE history[x.job][x.attempt] = NoStory
  BY <1>1, <1>3 DEF RecordAttempt
<1>. QED BY <1>3 DEF RecordAttempt

\* One call's answer.
LEMMA AnswerMoves ==
    ASSUME IInv, NEW r \in Runners, NEW c, call' = [call EXCEPT ![r] = c],
           Answered(c) => Answered(call[r]) \/ Over(call[r].op),
           c.at \in {"record", "told"} /\ c.applied =>
              \/ call[r].at \in {"record", "told"} /\ call[r].applied
              \/ \E op \in accepted' : op.job = call[r].op.job /\ op.kind = call[r].op.kind
    PROVE  QuietAnswers
<1>1. call = [s \in Runners |-> call[s]]
  BY DEF IInv, TypeOK
<1>. QED BY <1>1 DEF QuietAnswers

\* The runner's side of a call.
LEMMA CallerIsQuiet ==
    ASSUME IInv, NEW r \in Runners, Submit(r) \/ GiveUp(r) \/ Return(r), batched' = batched
    PROVE  Quiet
<1>0. call[r] \in [at : {"idle", "submit", "wait", "record", "told"},
                   op : Ops \cup {NoOp}, applied : BOOLEAN, err : BOOLEAN]
  BY DEF IInv, TypeOK
<1>1. UNCHANGED <<row, history, doomed, accepted, requeued>>
  BY DEF Submit, GiveUp, Return, Store!DropClaim
<1>2. QuietRows /\ QuietHistory /\ QuietDoomed
  BY <1>1, Untouched
<1>3. ASSUME call' = [call EXCEPT ![r] = Told(call[r].op, FALSE, TRUE)], Busy(r), claim' = claim
      PROVE  QuietCalls /\ QuietAnswers
  BY <1>3, CallMoves, AnswerMoves DEF Told, Answered
<1>4. CASE /\ Submit(r) /\ in' = Append(in, call[r].op)
           /\ call' = [call EXCEPT ![r].at = "wait"]
  <2> DEFINE c == [at |-> "wait", op |-> call[r].op, applied |-> call[r].applied,
                   err |-> call[r].err]
  <2>1. [call[r] EXCEPT !.at = "wait"] = c
    BY <1>0
  <2>2. Busy(r) /\ claim' = claim /\ pending' = pending
    BY <1>4 DEF Submit, Busy
  <2>3. call[r].op \in Called /\ call[r].op \in Ops /\ in \in Seq(Ops)
    BY <2>2 DEF Called, IInv, OpsFit, TypeOK
  <2>4. call' = [call EXCEPT ![r] = c]
    BY <1>4, <2>1
  <2>5. QuietCalls /\ QuietAnswers
    BY <2>2, <2>4, CallMoves, AnswerMoves DEF Answered
  <2>6. QuietOps
    BY <1>1, <1>4, <2>2, <2>3, AppendOp DEF QuietOps, Queued
  <2>. QED BY <1>2, <2>5, <2>6 DEF Quiet
<1>5. CASE /\ Submit(r) \/ GiveUp(r)
           /\ call' = [call EXCEPT ![r] = Told(call[r].op, FALSE, TRUE)] /\ UNCHANGED in
  <2>1. Busy(r) /\ claim' = claim /\ UNCHANGED <<in, pending>>
    BY <1>5 DEF GiveUp, Submit, Busy
  <2>2. QuietOps
    BY <1>1, <2>1, Untouched
  <2>. QED BY <1>2, <1>3, <1>5, <2>1, <2>2 DEF Quiet
<1>6. CASE Return(r)
  <2>1. /\ call' = [call EXCEPT ![r] = IdleCall] /\ claim' = [claim EXCEPT ![r] = Store!NoClaim]
        /\ UNCHANGED <<in, pending>>
    BY <1>6 DEF Return, Store!DropClaim
  <2>2. QuietCalls /\ QuietAnswers
    BY <2>1, CallMoves, AnswerMoves DEF IdleCall, Answered
  <2>3. QuietOps
    BY <1>1, <2>1, Untouched
  <2>. QED BY <1>2, <2>2, <2>3 DEF Quiet
<1>. QED BY <1>4, <1>5, <1>6 DEF Submit, GiveUp

\* The loop between two flushes, Stop, and the end of a process.
LEMMA LoopIsQuiet ==
    ASSUME IInv, Receive \/ Tick \/ Drain \/ Stop \/ Restart, batched' = batched
    PROVE  Quiet
<1>0. in \in Seq(Ops) /\ pending \in Seq(Ops)
  BY DEF IInv, TypeOK
<1>1. UNCHANGED <<row, history, doomed, accepted, requeued>>
  BY DEF Receive, Tick, Drain, Stop, Restart
<1>2. QuietRows /\ QuietHistory /\ QuietDoomed
  BY <1>1, Untouched
<1>3. CASE Receive \/ Tick \/ Drain \/ Stop
  <2>1. call' = call /\ claim' = claim
    BY <1>3 DEF Receive, Tick, Drain, Stop
  <2>2. QuietCalls /\ QuietAnswers
    BY <2>1, Untouched
  <2>3. \/ UNCHANGED <<in, pending>>
        \/ in # <<>> /\ in' = Tail(in) /\ pending' = Append(pending, Head(in))
    BY <1>3 DEF Receive, Tick, Drain, Stop
  <2>4. Queued' \subseteq Queued
    <3>1. CASE UNCHANGED <<in, pending>>
      BY <3>1 DEF Queued
    <3>2. CASE in # <<>> /\ in' = Tail(in) /\ pending' = Append(pending, Head(in))
      <4>1. Head(in) \in Ops /\ ToSet(in) = ToSet(Tail(in)) \cup {Head(in)}
        BY <1>0, <3>2, TakeOp
      <4>2. ToSet(Append(pending, Head(in))) = ToSet(pending) \cup {Head(in)}
        BY <1>0, <4>1, AppendOp
      <4>. QED BY <3>2, <4>1, <4>2 DEF Queued
    <3>. QED BY <2>3, <3>1, <3>2
  <2>5. QuietOps
    BY <1>1, <2>4 DEF QuietOps
  <2>. QED BY <1>2, <2>2, <2>5 DEF Quiet
<1>4. CASE Restart
  <2>1. QuietCalls /\ QuietAnswers
    BY <1>4 DEF Restart, QuietCalls, QuietAnswers, Answered, IdleCall, IInv, CallsMatch, Busy
  <2>2. QuietOps
    BY <1>1, <1>4, NoOps DEF Restart, QuietOps, Queued
  <2>. QED BY <1>2, <2>1, <2>2 DEF Quiet
<1>. QED BY <1>3, <1>4

\* Attempt rows written on their own: by a runner that lost its lease, after a
\* synchronous outcome, and by a reaper.
LEMMA TellersAreQuiet ==
    ASSUME IInv, \/ \E r \in Runners : LeaseLost(r) \/ SyncRecord(r)
                 \/ \E op \in doomed : RecordDoomed(op),
           batched' = batched
    PROVE  Quiet
<1>1. UNCHANGED <<row, accepted, requeued, in, pending>> /\ doomed' \subseteq doomed
  BY DEF LeaseLost, SyncRecord, RecordDoomed, Store!DropClaim, processVars
<1>2. QuietRows /\ QuietOps /\ QuietDoomed
  BY <1>1, Untouched
<1>3. ASSUME NEW r \in Runners, LeaseLost(r) PROVE Quiet
  <2>1. /\ Store!Holds(r) /\ ~Store!Fence(r) /\ ~Busy(r) /\ call' = call
        /\ claim' = [claim EXCEPT ![r] = Store!NoClaim]
    BY <1>3 DEF LeaseLost, Busy, Store!DropClaim, processVars
  <2>2. LostAttempt(r) \in Lost /\ Over(LostAttempt(r))
    BY <1>1, <2>1 DEF Lost, Over, LostAttempt, Store!Fence
  <2>3. QuietHistory
    BY <1>3, <2>2, TellsAttempt, Untouched DEF LeaseLost, LostAttempt
  <2>4. claim = [s \in Runners |-> claim[s]] /\ \A s \in Runners : ~Busy(s) => call[s] = IdleCall
    BY DEF IInv, TypeOK, Store!TypeOK, CallsMatch
  <2>5. QuietCalls /\ QuietAnswers
    BY <2>1, <2>4, Untouched DEF QuietCalls, Busy
  <2>. QED BY <1>2, <2>3, <2>5 DEF Quiet
<1>4. ASSUME NEW r \in Runners, SyncRecord(r) PROVE Quiet
  <2> DEFINE c == [at |-> "told", op |-> call[r].op, applied |-> call[r].applied,
                   err |-> call[r].err]
  <2>1. call[r].at = "record" /\ Busy(r) /\ claim' = claim
    BY <1>4 DEF SyncRecord, Busy
  <2>2. call' = [call EXCEPT ![r] = c]
    <3>1. [call[r] EXCEPT !.at = "told"] = c
      BY DEF IInv, TypeOK
    <3>. QED BY <1>4, <3>1 DEF SyncRecord
  <2>3. QuietCalls /\ QuietAnswers
    BY <2>1, <2>2, CallMoves, AnswerMoves DEF Answered
  <2>4. call[r].op \in Called /\ Over(call[r].op)
    BY <1>1, <2>1 DEF Called, Over, IInv, Closed, CallsMatch, Store!Fence
  <2>5. QuietHistory
    BY <1>4, <2>4, TellsAttempt, Untouched DEF SyncRecord
  <2>. QED BY <1>2, <2>3, <2>5 DEF Quiet
<1>5. ASSUME NEW op \in doomed, RecordDoomed(op) PROVE Quiet
  <2>1. call' = call /\ claim' = claim
    BY <1>5 DEF RecordDoomed, processVars
  <2>2. Over(op)
    <3>1. op.epoch < row[op.job].epoch /\ op.epoch \in Nat /\ op.job \in Jobs
      BY DEF IInv, Closed, WitnessesOK, Witnesses, Fits
    <3>2. row[op.job].epoch \in Nat
      BY <3>1 DEF IInv, TypeOK, Store!TypeOK, Store!Rows
    <3>. QED BY <1>1, <3>1, <3>2 DEF Over
  <2>3. QuietHistory
    BY <1>5, <2>2, TellsAttempt, Untouched DEF RecordDoomed
  <2>. QED BY <1>2, <2>1, <2>3, Untouched DEF Quiet
<1>. QED BY <1>3, <1>4, <1>5

\* Statements of other processes: creation, receipts, heartbeats, expiry,
\* promotion, cancels, reaping, requeues.
LEMMA OthersAreQuiet ==
    ASSUME IInv, NEW i \in Jobs, ReapJob(i) \/ Requeue(i) \/ OtherStatement(i),
           batched' = batched
    PROVE  Quiet
<1>0. \A j \in Jobs : /\ row[j] \in Store!Rows
                      /\ row[j].status = Store!Absent => row[j] = Store!NoRow
  BY DEF IInv, TypeOK, Store!TypeOK, RowsSane
<1>1. row = [j \in Jobs |-> row[j]]
  BY DEF IInv, TypeOK, Store!TypeOK
<1>2. UNCHANGED <<claim, history, call, in, pending, accepted>>
  BY DEF ReapJob, Requeue, OtherStatement, Store!ReapJob, Store!RequeueDeadLetter,
      Store!CreateJob, Store!SetEnqueued, Store!ExtendLease, Store!LeaseExpires,
      Store!MarkPromoted, Store!CancelJob, processVars
<1>3. QuietCalls /\ QuietAnswers /\ QuietHistory /\ QuietOps
  BY <1>2, Untouched
<1>4. CASE ReapJob(i)
  <2>1. QuietRows
    BY <1>0, <1>1, <1>4 DEF ReapJob, Store!ReapJob, Store!Reapable, QuietRows, Kept, Store!Rows,
        Store!Absent
  <2>2. QuietDoomed
    <3>1. /\ row[i].status = "RUNNING" /\ row[i].epoch \in Nat
          /\ row'[i].epoch = row[i].epoch + 1
      BY <1>0, <1>1, <1>4 DEF ReapJob, Store!ReapJob, Store!Reapable, Store!Rows
    <3>2. \A x \in doomed' \ doomed :
            x.job = i /\ x.epoch = row[i].epoch /\ x.attempt = row[i].attempts
      BY <1>4 DEF ReapJob
    <3>. QED BY <1>2, <3>1, <3>2 DEF QuietDoomed, Open
  <2>. QED BY <1>3, <2>1, <2>2 DEF Quiet
<1>5. CASE Requeue(i)
  <2>1. QuietRows
    BY <1>0, <1>1, <1>5 DEF Requeue, Store!RequeueDeadLetter, QuietRows, Kept, Store!Rows,
        Store!Absent
  <2>. QED BY <1>3, <1>5, <2>1, Untouched DEF Quiet, Requeue
<1>6. CASE OtherStatement(i)
  <2>1. ASSUME NEW max \in 1 .. MaxAttemptsCeiling, Store!CreateJob(i, max), requeued' = requeued
        PROVE  QuietRows
    BY <1>0, <1>1, <2>1 DEF Store!CreateJob, QuietRows, Kept, Store!Rows, Store!Absent, Store!NoRow
  <2>2. ASSUME Store!LeaseExpires(i), requeued' = requeued PROVE QuietRows
    BY <1>0, <1>1, <2>2 DEF Store!LeaseExpires, QuietRows, Kept, Store!Rows, Store!Absent,
        Store!NoRow
  <2>3. ASSUME Store!MarkPromoted({i}), requeued' = requeued PROVE QuietRows
    BY <1>0, <1>1, <2>3 DEF Store!MarkPromoted, QuietRows, Kept, Store!Rows, Store!Absent
  <2>4. ASSUME row[i].status # Store!Absent, Store!SetEnqueued(i), requeued' = requeued
        PROVE  QuietRows
    BY <1>0, <1>1, <2>4 DEF Store!SetEnqueued, QuietRows, Kept, Store!Rows, Store!Absent
  <2>5. ASSUME NEW r \in Runners, claim[r].job = i, Store!ExtendLease(r), requeued' = requeued
        PROVE  QuietRows
    BY <1>0, <1>1, <2>5 DEF Store!ExtendLease, Store!Fence, QuietRows, Kept, Store!Rows,
        Store!Absent
  <2>6. ASSUME Store!CancelJob(i), requeued' = requeued PROVE QuietRows
    BY <1>0, <1>1, <2>6 DEF Store!CancelJob, Store!WaitingStatuses, QuietRows, Kept, Store!Rows,
        Store!Absent
  <2>7. QuietRows /\ doomed' = doomed
    BY <1>6, <2>1, <2>2, <2>3, <2>4, <2>5, <2>6 DEF OtherStatement
  <2>. QED BY <1>3, <2>7, Untouched DEF Quiet
<1>. QED BY <1>4, <1>5, <1>6

\* The outcome of a synchronous recorder.
LEMMA SyncWriteIsQuiet ==
    ASSUME IInv, NEW r \in Runners, SyncWrite(r), batched' = batched
    PROVE  Quiet
<1> DEFINE op == call[r].op
<1>1. /\ Busy(r) /\ op \in Called /\ batched # Runners
      /\ UNCHANGED <<history, doomed, in, pending, requeued, claim>>
  BY DEF SyncWrite, Busy, Called, Store!FencedWrite
<1>2. /\ Store!Holds(r) /\ op.job = claim[r].job /\ op.epoch = claim[r].epoch
      /\ op \in Ops /\ op.job \in Jobs
  BY <1>1 DEF IInv, CallsMatch, OpsFit, Ops
<1>3. QuietHistory /\ QuietDoomed
  BY <1>1, Untouched
<1>4. \A k \in Kinds : StatusOf[k] \in Store!Statuses \ {"RUNNING"}
  BY DEF Kinds, StatusOf, Store!Statuses
<1>5. CASE /\ Store!FencedWrite(r, StatusOf[op.kind]) /\ accepted' = accepted \cup {op}
           /\ \/ call' = [call EXCEPT ![r] = [at |-> "record", op |-> op,
                                              applied |-> TRUE, err |-> FALSE]]
              \/ call' = [call EXCEPT ![r] = Told(op, FALSE, TRUE)]
  <2>1. StatusOf[op.kind] \in Store!Statuses /\ StatusOf[op.kind] # "RUNNING"
    BY <1>2, <1>4 DEF Ops
  <2>2. \A j \in Jobs : row[j] \in Store!Rows
    BY DEF IInv, TypeOK, Store!TypeOK
  <2>3. row' = [row EXCEPT ![op.job].status = StatusOf[op.kind], ![op.job].lease = "none"]
    BY <1>2, <1>5 DEF Store!FencedWrite
  <2>4. row = [j \in Jobs |-> row[j]]
    BY DEF IInv, TypeOK, Store!TypeOK
  <2>5. Open(op) /\ Over(op)
    BY <1>2, <1>5, <2>1, <2>2, <2>3, <2>4 DEF Store!FencedWrite, Store!Fence, Open, Over, Store!Rows
  <2>6. QuietRows
    <3>1. \A j \in Jobs : j # op.job => row'[j] = row[j]
      BY <2>3, <2>4
    <3>2. /\ row'[op.job].epoch = row[op.job].epoch
          /\ row'[op.job].attempts = row[op.job].attempts
          /\ row'[op.job].max = row[op.job].max
          /\ row'[op.job].status = StatusOf[op.kind]
      BY <1>2, <2>2, <2>3, <2>4 DEF Store!Rows
    <3>3. \A j \in Jobs : row[j].epoch \in Nat
      BY <2>2 DEF Store!Rows
    <3>. QED BY <1>1, <2>1, <3>1, <3>2, <3>3
         DEF QuietRows, Kept, Store!Statuses, Store!Absent
  <2>7. QuietOps
    BY <1>1, <1>5, <2>5 DEF QuietOps, Queued
  <2>8. QuietCalls /\ QuietAnswers
    BY <1>1, <1>5, <2>5, CallMoves, AnswerMoves DEF Told, Answered
  <2>. QED BY <1>3, <2>6, <2>7, <2>8 DEF Quiet
<1>6. CASE /\ UNCHANGED <<row, claim, accepted>>
           /\ \/ /\ ~Store!Fence(r)
                 /\ call' = [call EXCEPT ![r] = [at |-> "record", op |-> op,
                                                applied |-> FALSE, err |-> FALSE]]
              \/ call' = [call EXCEPT ![r] = Told(op, FALSE, TRUE)]
  <2>1. QuietRows /\ QuietOps
    BY <1>1, <1>6, Untouched
  <2>2. ~Store!Fence(r) => Over(op)
    BY <1>2, <1>6 DEF Store!Fence, Over
  <2>3. QuietCalls /\ QuietAnswers
    BY <1>1, <1>6, <2>2, CallMoves, AnswerMoves DEF Told, Answered
  <2>. QED BY <1>3, <2>1, <2>3 DEF Quiet
<1>. QED BY <1>5, <1>6 DEF SyncWrite

\* A nonempty set of positions has a first one.
LEMMA FirstPosition ==
    ASSUME NEW T, T \subseteq Nat, T # {}
    PROVE  Min(T) \in T
<1>1. PICK u \in T : \A v \in T : ~(<<v, u>> \in OpToRel(<, Nat))
  BY NatLessThanWellFounded, WFMin, Zenon
<1>2. \A v \in T : u <= v
  <2> SUFFICES ASSUME NEW v \in T, v < u PROVE FALSE
    OBVIOUS
  <2>1. <<v, u>> \in Nat \X Nat /\ <<v, u>>[1] < <<v, u>>[2]
    OBVIOUS
  <2>. QED BY <1>1, <2>1 DEF OpToRel
<1>. QED BY <1>2 DEF Min

\* The ops in the loop's hands are queued, so the invariant knows them.
LEMMA PendingOp ==
    ASSUME IInv, NEW op \in ToSet(pending)
    PROVE  /\ op \in Queued /\ op \in Ops /\ Fits(op) /\ KindFits(op)
           /\ row[op.job] \in Store!Rows
           /\ op.job \in Jobs /\ op.attempt \in 1 .. MaxAttemptsCeiling
           /\ StatusOf[op.kind] \in Store!Statuses \ {"RUNNING"}
<1>1. op \in Queued /\ op \in Ops /\ Fits(op) /\ KindFits(op)
  BY DEF Queued, IInv, OpsFit, WitnessesOK, Witnesses
<1>2. op.job \in Jobs /\ op.attempt \in 1 .. row[op.job].max /\ op.kind \in Kinds
  BY <1>1 DEF Fits, Ops
<1>3. row[op.job] \in Store!Rows /\ row[op.job].max \in 1 .. MaxAttemptsCeiling
  BY <1>2 DEF IInv, TypeOK, Store!TypeOK, Store!Rows
<1>4. op.attempt \in 1 .. MaxAttemptsCeiling
  BY <1>2, <1>3, RecorderConstantsOK
<1>5. StatusOf[op.kind] \in Store!Statuses \ {"RUNNING"}
  BY <1>2 DEF Kinds, StatusOf, Store!Statuses
<1>. QED BY <1>1, <1>2, <1>3, <1>4, <1>5

\* A batch changes the rows its ops match, and only their status and lease.
LEMMA BatchRow ==
    ASSUME IInv, WriteRows(pending), NEW j \in Jobs
    PROVE  /\ row[j] \in Store!Rows /\ row'[j] \in Store!Rows
           /\ \/ row'[j] = row[j] /\ \A op \in Matched(pending) : op.job # j
              \/ \E op \in Matched(pending) :
                   /\ op.job = j
                   /\ row'[j].status = StatusOf[op.kind] /\ row'[j].lease = "none"
                   /\ row'[j].epoch = row[j].epoch /\ row'[j].attempts = row[j].attempts
                   /\ row'[j].max = row[j].max
<1> DEFINE hits == {op \in Matched(pending) : op.job = j}
           o == CHOOSE op \in hits : TRUE
<1>0. row[j] \in Store!Rows
  BY DEF IInv, TypeOK, Store!TypeOK
<1>1. row'[j] = IF hits = {} THEN row[j]
                ELSE [row[j] EXCEPT !.status = StatusOf[o.kind], !.lease = "none"]
  BY DEF WriteRows
<1>2. CASE hits = {}
  BY <1>0, <1>1, <1>2
<1>3. CASE hits # {}
  <2>1. o \in hits
    BY <1>3
  <2>2. o \in Matched(pending) /\ o.job = j /\ StatusOf[o.kind] \in Store!Statuses
    BY <2>1, PendingOp DEF Matched
  <2> HIDE DEF hits, o
  <2>3. row'[j] = [row[j] EXCEPT !.status = StatusOf[o.kind], !.lease = "none"]
    BY <1>1, <1>3
  <2>4. /\ row'[j].status = StatusOf[o.kind] /\ row'[j].lease = "none"
        /\ row'[j].epoch = row[j].epoch /\ row'[j].attempts = row[j].attempts
        /\ row'[j].max = row[j].max
    BY <1>0, <2>3 DEF Store!Rows
  <2>5. row'[j] \in Store!Rows
    BY <1>0, <2>2, <2>3 DEF Store!Rows, Store!Leases
  <2>. QED BY <1>0, <2>2, <2>4, <2>5
<1>. QED BY <1>2, <1>3

\* A batch ends the attempt of each of its ops, or finds it ended.
LEMMA BatchEnds ==
    ASSUME IInv, WriteRows(pending), NEW op \in ToSet(pending)
    PROVE  Over(op)
<1>1. op.job \in Jobs
  BY PendingOp
<1>2. CASE row'[op.job] = row[op.job] /\ \A o \in Matched(pending) : o.job # op.job
  <2>1. op \notin Matched(pending)
    BY <1>2
  <2>. QED BY <1>2, <2>1 DEF Matched, Over
<1>3. CASE \E o \in Matched(pending) : row'[op.job].status = StatusOf[o.kind]
  BY <1>3, PendingOp DEF Matched, Over
<1>. QED BY <1>1, <1>2, <1>3, BatchRow

\* Of an attempt without a story, a batch tells that of its first op about it.
LEMMA BatchTells ==
    ASSUME IInv, WriteBatch(pending)
    PROVE  /\ QuietHistory
           /\ \A op \in ToSet(pending) : history'[op.job][op.attempt] # NoStory
<1>1. pending \in Seq(Ops) /\ \A i \in DOMAIN pending : i \in Nat /\ pending[i] \in ToSet(pending)
  BY DEF IInv, TypeOK, ToSet
<1>2. ASSUME NEW j \in Jobs, NEW n \in 1 .. MaxAttemptsCeiling
      PROVE  \/ /\ history'[j][n] = history[j][n]
                /\ \/ history[j][n] # NoStory
                   \/ \A o \in ToSet(pending) : o.job # j \/ o.attempt # n
             \/ /\ history[j][n] = NoStory
                /\ \E x \in ToSet(pending) :
                      /\ x.job = j /\ x.attempt = n
                      /\ history'[j][n] = [kind |-> x.kind, epoch |-> x.epoch]
  <2> DEFINE told == {i \in DOMAIN pending : pending[i].job = j /\ pending[i].attempt = n}
  <2>1. history'[j][n] = IF history[j][n] # NoStory \/ told = {} THEN history[j][n]
                         ELSE [kind |-> pending[Min(told)].kind, epoch |-> pending[Min(told)].epoch]
    BY DEF WriteBatch, WriteHistory
  <2>2. CASE history[j][n] # NoStory
    BY <2>1, <2>2
  <2>3. CASE told = {}
    <3>1. \A op \in ToSet(pending) : op.job # j \/ op.attempt # n
      BY <2>3 DEF ToSet
    <3>. QED BY <2>1, <2>3, <3>1
  <2>4. CASE history[j][n] = NoStory /\ told # {}
    <3>1. Min(told) \in told
      BY <1>1, <2>4, FirstPosition
    <3>. QED BY <1>1, <2>1, <2>4, <3>1
  <2>. QED BY <2>2, <2>3, <2>4
<1>3. QuietHistory
  <2> SUFFICES ASSUME NEW j \in Jobs, NEW n \in 1 .. MaxAttemptsCeiling,
                      history'[j][n] # history[j][n]
               PROVE  /\ history[j][n] = NoStory
                      /\ \E x \in Called \cup Queued \cup doomed \cup Lost :
                            /\ x.job = j /\ x.attempt = n /\ Over(x)
                            /\ history'[j][n] = [kind |-> x.kind, epoch |-> x.epoch]
    BY DEF QuietHistory
  <2>. QED BY <1>2, PendingOp, BatchEnds DEF WriteBatch
<1>4. ASSUME NEW op \in ToSet(pending) PROVE history'[op.job][op.attempt] # NoStory
  <2>1. op.job \in Jobs /\ op.attempt \in 1 .. MaxAttemptsCeiling
    BY PendingOp
  <2>2. \A x \in ToSet(pending) : x.kind # "none"
    BY PendingOp DEF Ops, Kinds, StatusOf
  <2>3. PICK j \in Jobs, n \in 1 .. MaxAttemptsCeiling : j = op.job /\ n = op.attempt
    BY <2>1
  <2>4. CASE /\ history'[j][n] = history[j][n]
             /\ \/ history[j][n] # NoStory
                \/ \A o \in ToSet(pending) : o.job # j \/ o.attempt # n
    BY <2>3, <2>4
  <2>5. CASE \E x \in ToSet(pending) :
               history'[j][n] = [kind |-> x.kind, epoch |-> x.epoch]
    BY <2>2, <2>3, <2>5 DEF NoStory
  <2>. QED BY <1>2, <2>4, <2>5
<1>. QED BY <1>3, <1>4

\* A committed batch is quiet, whatever its callers are told.
LEMMA BatchIsQuiet ==
    ASSUME IInv, WriteBatch(pending), UNCHANGED <<in, requeued>>,
           pending' = pending \/ pending' = <<>>
    PROVE  QuietRows /\ QuietHistory /\ QuietOps
<1>1. QuietRows
  <2> SUFFICES ASSUME NEW j \in Jobs PROVE Kept(j)
    BY DEF QuietRows
  <2>1. WriteRows(pending)
    BY DEF WriteBatch
  <2>2. CASE row'[j] = row[j]
    BY <2>1, <2>2, BatchRow DEF Kept, Store!Rows
  <2>3. ASSUME NEW op \in Matched(pending), op.job = j, row'[j].status = StatusOf[op.kind],
               row'[j].epoch = row[j].epoch, row'[j].attempts = row[j].attempts,
               row'[j].max = row[j].max
        PROVE  Kept(j)
    <3>1. StatusOf[op.kind] \in Store!Statuses \ {"RUNNING"}
      BY PendingOp DEF Matched
    <3>. QED BY <2>1, <2>3, <3>1, BatchRow DEF Kept, Store!Statuses, Store!Absent, Store!Rows
  <2>. QED BY <2>1, <2>2, <2>3, BatchRow
<1>2. QuietHistory
  BY BatchTells
<1>3. QuietOps
  <2>1. Queued' \subseteq Queued
    BY NoOps DEF Queued
  <2>2. accepted' = accepted \cup Matched(pending)
    BY DEF WriteBatch
  <2>3. ASSUME NEW op \in Matched(pending)
        PROVE  op \in Queued /\ Open(op) /\ Over(op) /\ history'[op.job][op.attempt] # NoStory
    <3>1. op \in ToSet(pending)
      BY DEF Matched
    <3>. QED BY <3>1, PendingOp, BatchEnds, BatchTells DEF Matched, Open, WriteBatch
  <2>. QED BY <2>1, <2>2, <2>3 DEF QuietOps
<1>. QED BY <1>1, <1>2, <1>3

\* The loop answers the callers that still wait for an op of the batch.
LEMMA ResolveIsQuiet ==
    ASSUME IInv, claim' = claim, NEW result, DOMAIN result = ToSet(pending), Resolve(result),
           \A op \in ToSet(pending) :
              /\ result[op].at = "told" /\ result[op].op = op
              /\ Answered(result[op]) => Over(op)
              /\ result[op].applied =>
                    \E o \in accepted' : o.job = op.job /\ o.kind = op.kind
    PROVE  QuietCalls /\ QuietAnswers
<1> SUFFICES ASSUME NEW r \in Runners
             PROVE  /\ \/ call'[r] = IdleCall /\ ~Busy(r)
                       \/ Busy(r) /\ call'[r].at # "idle" /\ call'[r].op = call[r].op
                    /\ Answered(call'[r]) => Answered(call[r]) \/ Over(call[r].op)
                    /\ call'[r].at \in {"record", "told"} /\ call'[r].applied =>
                         \/ call[r].at \in {"record", "told"} /\ call[r].applied
                         \/ \E op \in accepted' :
                               op.job = call[r].op.job /\ op.kind = call[r].op.kind
  BY DEF QuietCalls, QuietAnswers
<1>1. ~Busy(r) => call[r] = IdleCall
  BY DEF IInv, CallsMatch
<1>2. CASE call[r].at = "wait" /\ call[r].op \in ToSet(pending)
  <2>1. call'[r] = result[call[r].op]
    BY <1>2 DEF Resolve
  <2>. QED BY <1>2, <2>1 DEF Busy
<1>3. CASE ~(call[r].at = "wait" /\ call[r].op \in ToSet(pending))
  <2>1. call'[r] = call[r]
    BY <1>3 DEF Resolve
  <2>. QED BY <1>1, <2>1 DEF Busy
<1>. QED BY <1>2, <1>3

\* Both outcomes of flushOnce.
LEMMA FlushIsQuiet ==
    ASSUME IInv, FlushOnce \/ FlushFails, batched' = batched
    PROVE  Quiet
<1>1. UNCHANGED <<doomed, in, requeued, claim>>
  BY DEF FlushOnce, FlushFails, WriteBatch
<1>2. QuietDoomed
  BY <1>1, Untouched
<1>3. CASE FlushOnce
  <2> DEFINE result == [op \in ToSet(pending) |-> Told(op, Applied(op, pending), FALSE)]
  <2>1. WriteBatch(pending) /\ pending' = <<>> /\ Resolve(result)
    BY <1>3 DEF FlushOnce
  <2>2. QuietRows /\ QuietHistory /\ QuietOps
    BY <1>1, <2>1, BatchIsQuiet
  <2>3. accepted' = accepted \cup Matched(pending) /\ \A op \in ToSet(pending) : Over(op)
    BY <2>1, BatchEnds DEF WriteBatch
  <2>4. ASSUME NEW op \in ToSet(pending), Applied(op, pending)
        PROVE  \E o \in accepted' : o.job = op.job /\ o.kind = op.kind
    BY <2>3, <2>4 DEF Applied
  <2>5. \A op \in ToSet(pending) :
          /\ result[op].at = "told" /\ result[op].op = op
          /\ result[op].applied => Applied(op, pending)
    BY DEF Told
  <2> HIDE DEF result
  <2>6. DOMAIN result = ToSet(pending)
    BY DEF result
  <2>7. QuietCalls /\ QuietAnswers
    BY <1>1, <2>1, <2>3, <2>4, <2>5, <2>6, ResolveIsQuiet
  <2>. QED BY <1>2, <2>2, <2>7 DEF Quiet
<1>4. CASE FlushFails
  <2>1. pending' = pending \/ pending' = <<>>
    BY <1>4 DEF FlushFails
  <2>2. QuietRows /\ QuietHistory /\ QuietOps
    <3>1. CASE WriteBatch(pending)
      BY <1>1, <2>1, <3>1, BatchIsQuiet
    <3>2. CASE UNCHANGED <<row, claim, history, accepted>>
      <4>1. QuietRows /\ QuietHistory
        BY <1>1, <3>2, Untouched
      <4>2. Queued' \subseteq Queued /\ accepted' = accepted
        BY <1>1, <2>1, <3>2, NoOps DEF Queued
      <4>. QED BY <4>1, <4>2 DEF QuietOps
    <3>. QED BY <1>4, <3>1, <3>2 DEF FlushFails
  <2>3. QuietCalls /\ QuietAnswers
    <3>1. CASE call' = call
      BY <1>1, <3>1, Untouched
    <3>2. CASE Resolve([op \in ToSet(pending) |-> Told(op, FALSE, TRUE)])
      <4> DEFINE result == [op \in ToSet(pending) |-> Told(op, FALSE, TRUE)]
      <4>1. \A op \in ToSet(pending) :
              /\ result[op].at = "told" /\ result[op].op = op
              /\ ~result[op].applied /\ ~Answered(result[op])
        BY DEF Told, Answered
      <4>2. DOMAIN result = ToSet(pending) /\ Resolve(result)
        BY <3>2
      <4> HIDE DEF result
      <4>. QED BY <1>1, <4>1, <4>2, ResolveIsQuiet
    <3>. QED BY <1>4, <3>1, <3>2 DEF FlushFails
  <2>. QED BY <1>2, <2>2, <2>3 DEF Quiet
<1>. QED BY <1>3, <1>4

------------------------------------------------------------------------------
(* The jobs table.                                                           *)

\* JobStore's facts hold of its copy inside JobStoreProofs.
LEMMA SameTable ==
    /\ Store!Next <=> Table!Next
    /\ Store!TypeOK <=> Table!TypeOK
<1>1. ASSUME NEW j \in Jobs PROVE Store!Statement(j) <=> Table!Statement(j)
  BY DEF Store!Statement, Table!Statement, Store!CreateJob, Table!CreateJob,
      Store!SetEnqueued, Table!SetEnqueued, Store!LeaseExpires, Table!LeaseExpires,
      Store!ReapJob, Table!ReapJob, Store!Reapable, Table!Reapable, Store!Exhausted,
      Table!Exhausted, Store!CancelJob, Table!CancelJob, Store!RequeueDeadLetter,
      Table!RequeueDeadLetter, Store!NoRow, Table!NoRow, Store!Absent, Table!Absent,
      Store!WaitingStatuses, Table!WaitingStatuses
<1>2. ASSUME NEW r \in Runners PROVE Store!HolderStatement(r) <=> Table!HolderStatement(r)
  BY DEF Store!HolderStatement, Table!HolderStatement, Store!ClaimJob, Table!ClaimJob,
      Store!Claimable, Table!Claimable, Store!ExtendLease, Table!ExtendLease,
      Store!CompleteJob, Table!CompleteJob, Store!FailJob, Table!FailJob,
      Store!CancelRunning, Table!CancelRunning, Store!DeadLetterJob, Table!DeadLetterJob,
      Store!ScheduleRetry, Table!ScheduleRetry, Store!DropClaim, Table!DropClaim,
      Store!FencedWrite, Table!FencedWrite, Store!Fence, Table!Fence, Store!Holds,
      Table!Holds, Store!NoClaim, Table!NoClaim, Store!WaitingStatuses,
      Table!WaitingStatuses
<1>3. ASSUME NEW js \in SUBSET Jobs PROVE Store!MarkPromoted(js) <=> Table!MarkPromoted(js)
  BY DEF Store!MarkPromoted, Table!MarkPromoted
<1>4. Store!Next <=> Table!Next
  BY <1>1, <1>2, <1>3 DEF Store!Next, Table!Next
<1>5. Store!TypeOK <=> Table!TypeOK
  BY DEF Store!TypeOK, Table!TypeOK, Store!Rows, Table!Rows, Store!Claims, Table!Claims,
      Store!Statuses, Table!Statuses, Store!Absent, Table!Absent, Store!Leases, Table!Leases
<1>. QED BY <1>4, <1>5

\* The single statements, and the steps that leave the table alone.
Single ==
    \/ \E r \in Runners :
          \/ \E j \in Jobs : Claim(r, j)
          \/ \E kind \in Outcomes(r) \cap Reported : Finish(r, kind)
          \/ Submit(r) \/ GiveUp(r) \/ Return(r) \/ LeaseLost(r)
          \/ SyncWrite(r) \/ SyncRecord(r)
    \/ Receive \/ Tick \/ Drain \/ Stop
    \/ \E j \in Jobs : ReapJob(j) \/ Requeue(j) \/ OtherStatement(j)
    \/ \E op \in doomed : RecordDoomed(op)

\* An outcome that the fence lets through is one of JobStore's five.
LEMMA SyncWriteIsStatement ==
    ASSUME IInv, NEW r \in Runners, SyncWrite(r)
    PROVE  Store!Next \/ UNCHANGED <<row, claim>>
<1> DEFINE op == call[r].op
<1>1. CASE UNCHANGED <<row, claim>>
  BY <1>1
<1>2. CASE Store!FencedWrite(r, StatusOf[op.kind])
  <2>1. op \in Ops /\ KindFits(op) /\ op.attempt = claim[r].attempt /\ op.job = claim[r].job
    BY DEF SyncWrite, Busy, IInv, OpsFit, CallsMatch, Called
  <2>2. claim[r].max = row[op.job].max
    BY <1>2, <2>1 DEF IInv, Table!IInv, Table!EpochBehind, Table!Holds, Table!NoClaim,
        Store!FencedWrite, Store!Fence, Store!Holds, Store!NoClaim
  <2>3. Store!HolderStatement(r)
    BY <1>2, <2>1, <2>2 DEF Store!HolderStatement, Store!CompleteJob, Store!FailJob,
        Store!CancelRunning, Store!DeadLetterJob, Store!ScheduleRetry, Ops, Kinds, StatusOf,
        KindFits
  <2>. QED BY <2>3 DEF Store!Next
<1>. QED BY <1>1, <1>2 DEF SyncWrite

\* All of them are steps of JobStore, or leave the table alone.
LEMMA SingleIsStatement ==
    ASSUME IInv, Single
    PROVE  Store!Next \/ UNCHANGED <<row, claim>>
<1>1. ASSUME NEW r \in Runners, NEW j \in Jobs, Claim(r, j) PROVE Store!Next
  BY <1>1 DEF Claim, Store!Next, Store!HolderStatement
<1>2. ASSUME NEW r \in Runners, Return(r) \/ LeaseLost(r) PROVE Store!Next
  BY <1>2 DEF Return, LeaseLost, Store!Next, Store!HolderStatement
<1>3. ASSUME NEW j \in Jobs, ReapJob(j) \/ Requeue(j) PROVE Store!Next
  BY <1>3 DEF ReapJob, Requeue, Store!Next, Store!Statement
<1>4. ASSUME NEW j \in Jobs, OtherStatement(j) PROVE Store!Next
  <2>1. {j} \in SUBSET Jobs
    OBVIOUS
  <2>. QED BY <1>4, <2>1 DEF OtherStatement, Store!Next, Store!Statement, Store!HolderStatement
<1>5. ASSUME \/ \E r \in Runners :
                   \/ \E kind \in Outcomes(r) \cap Reported : Finish(r, kind)
                   \/ Submit(r) \/ GiveUp(r) \/ SyncRecord(r)
             \/ Receive \/ Tick \/ Drain \/ Stop
             \/ \E op \in doomed : RecordDoomed(op)
      PROVE  UNCHANGED <<row, claim>>
  BY <1>5 DEF Finish, Submit, GiveUp, SyncRecord, Receive, Tick, Drain, Stop, RecordDoomed
<1>. QED BY <1>1, <1>2, <1>3, <1>4, <1>5, SyncWriteIsStatement DEF Single

\* A batch respects the budget and the leases as its ops would one by one: the
\* kind was chosen by the attempt number that the row still has.
LEMMA BatchKeepsTable ==
    ASSUME IInv, WriteBatch(pending)
    PROVE  Table!IInv'
<1> USE DEF Table!Statuses, Table!Absent, Table!WaitingStatuses
<1>0. Table!IInv /\ claim' = claim /\ WriteRows(pending) /\ row \in [Jobs -> Store!Rows]
  BY DEF IInv, WriteBatch, TypeOK, Store!TypeOK
<1>1. ASSUME NEW j \in Jobs
      PROVE  /\ row'[j].epoch = row[j].epoch /\ row'[j].max = row[j].max
             /\ row'[j].attempts = row[j].attempts
             /\ row'[j] = row[j] \/ (row'[j].status \notin {"RUNNING", Table!Absent})
             /\ row'[j].attempts <= row'[j].max
             /\ row'[j].status \in Table!WaitingStatuses => row'[j].attempts < row'[j].max
             /\ row'[j].status = "DEAD_LETTER" => row'[j].attempts = row'[j].max
             /\ row'[j].status = "RUNNING" <=> row'[j].lease # "none"
  <2>1. /\ row[j].attempts <= row[j].max
        /\ row[j].status \in Table!WaitingStatuses => row[j].attempts < row[j].max
        /\ row[j].status = "DEAD_LETTER" => row[j].attempts = row[j].max
        /\ row[j].status = "RUNNING" <=> row[j].lease # "none"
        /\ row[j].attempts \in Nat /\ row[j].max \in Nat
    BY <1>0 DEF Table!IInv, Table!BudgetRespected, Table!RunningIsLeased, Store!Rows
  <2>2. CASE row'[j] = row[j]
    BY <2>1, <2>2
  <2>3. ASSUME NEW op \in Matched(pending), op.job = j, row'[j].lease = "none",
               row'[j].status = StatusOf[op.kind], row'[j].epoch = row[j].epoch,
               row'[j].attempts = row[j].attempts, row'[j].max = row[j].max
        PROVE  /\ row'[j].status \notin {"RUNNING", Table!Absent}
               /\ row'[j].status \in Table!WaitingStatuses => row'[j].attempts < row'[j].max
               /\ row'[j].status = "DEAD_LETTER" => row'[j].attempts = row'[j].max
    <3>1. op \in ToSet(pending) /\ Open(op)
      BY DEF Matched, Open
    <3>2. op.kind \in Kinds /\ op.attempt = row[j].attempts /\ KindFits(op)
      BY <2>3, <3>1, PendingOp DEF Fits, Ops
    <3>. QED BY <2>1, <2>3, <3>2 DEF KindFits, Kinds, StatusOf
  <2>. QED BY <1>0, <2>1, <2>2, <2>3, BatchRow
<1>2. Table!TypeOK'
  <2>1. row' = [j \in Jobs |-> row'[j]]
    BY <1>0 DEF WriteRows
  <2>2. \A j \in Jobs : row'[j] \in Store!Rows
    BY <1>0, BatchRow
  <2>3. row' \in [Jobs -> Table!Rows]
    BY <2>1, <2>2 DEF Store!Rows, Table!Rows, Store!Statuses, Store!Absent, Store!Leases,
        Table!Leases
  <2>. QED BY <1>0, <2>3 DEF Table!IInv, Table!TypeOK
<1>3. Table!BudgetRespected' /\ Table!RunningIsLeased'
  BY <1>1 DEF Table!BudgetRespected, Table!RunningIsLeased
<1>4. Table!EpochBehind'
  BY <1>0, <1>1 DEF Table!IInv, Table!EpochBehind, Table!Holds
<1>5. Table!EpochsDiffer'
  BY <1>0 DEF Table!IInv, Table!EpochsDiffer, Table!Holds
<1>6. Table!FenceAgrees'
  BY <1>0, <1>1 DEF Table!IInv, Table!FenceAgrees, Table!EpochBehind, Table!Fence, Table!Holds
<1>. QED BY <1>2, <1>3, <1>4, <1>5, <1>6 DEF Table!IInv

\* JobStore's inductive invariant survives batches and the end of a process.
LEMMA StepTable ==
    ASSUME IInv, Step
    PROVE  Table!IInv'
<1>0. Table!IInv
  BY DEF IInv
<1>1. CASE Store!Next \/ UNCHANGED <<row, claim>>
  BY <1>0, <1>1, SameTable, Table!StepIInv, RecorderConstantsOK DEF Table!vars
<1>2. CASE Restart
  <2>1. /\ row' = row
        /\ \A r \in Runners : claim'[r] = claim[r] \/ claim'[r] = Table!NoClaim
    BY <1>2 DEF Restart, Store!NoClaim, Table!NoClaim
  <2>2. claim' \in [Runners -> Table!Claims]
    BY <1>0, <1>2 DEF Restart, Store!NoClaim, Table!Claims, Table!IInv, Table!TypeOK
  <2>. QED BY <1>0, <2>1, <2>2 DEF Table!IInv, Table!TypeOK, Table!BudgetRespected,
       Table!RunningIsLeased, Table!EpochBehind, Table!EpochsDiffer, Table!FenceAgrees,
       Table!Fence, Table!Holds
<1>3. CASE FlushOnce
  BY <1>3, BatchKeepsTable DEF FlushOnce
<1>4. CASE FlushFails
  BY <1>1, <1>4, BatchKeepsTable DEF FlushFails
<1>5. CASE Single
  BY <1>1, <1>5, SingleIsStatement
<1>. QED BY <1>2, <1>3, <1>4, <1>5 DEF Step, LoopStep, Single

------------------------------------------------------------------------------
(* The queue.                                                                *)

\* No queue holds the op of an idle call.
LEMMA NoOpIsNotQueued ==
    ASSUME IInv
    PROVE  IdleCall.op \notin Queued
<1>1. \A op \in Queued : op.job \in Jobs
  BY DEF IInv, OpsFit, Ops
<1>2. IdleCall.op.job \notin Jobs
  BY RecorderConstantsOK DEF IdleCall, NoOp
<1>. QED BY <1>1, <1>2

\* Queues that only shrink, under callers that are answered only from them.
LEMMA QueueShrinks ==
    ASSUME IInv, Queued' \subseteq Queued,
           IsInjective(in'), IsInjective(pending'), ToSet(in') \cap ToSet(pending') = {},
           \A r \in Runners :
              \/ call'[r] = IdleCall
              \/ /\ call'[r].op = call[r].op
                 /\ Settled(r)' => Settled(r) \/ call[r].op \notin Queued'
    PROVE  QueuedOnce'
<1> SUFFICES ASSUME NEW r \in Runners, Settled(r)' PROVE call'[r].op \notin Queued'
  BY DEF QueuedOnce
<1>1. CASE call'[r] = IdleCall
  BY <1>1, NoOpIsNotQueued
<1>2. CASE call'[r] # IdleCall
  BY <1>2 DEF IInv, QueuedOnce
<1>. QED BY <1>1, <1>2

\* The queues are left alone.
LEMMA QueueKept ==
    ASSUME IInv, UNCHANGED <<in, pending>>,
           \A r \in Runners :
              \/ call'[r] = IdleCall
              \/ call'[r].op = call[r].op /\ (Settled(r)' => Settled(r))
    PROVE  QueuedOnce'
<1>1. Queued' = Queued
  BY DEF Queued
<1>. QED BY <1>1, QueueShrinks DEF IInv, QueuedOnce

\* An op enters the channel when it is nowhere else.
LEMMA SubmitQueues ==
    ASSUME IInv, NEW r \in Runners, Submit(r)
    PROVE  QueuedOnce'
<1> DEFINE op == call[r].op
<1>1. call = [s \in Runners |-> call[s]] /\ call[r].at = "submit" /\ pending' = pending
  BY DEF IInv, TypeOK, Submit
<1>2. CASE /\ in' = Append(in, op) /\ call' = [call EXCEPT ![r].at = "wait"]
  <2>1. op \in Ops /\ in \in Seq(Ops)
    BY <1>1 DEF IInv, OpsFit, Called, Busy, TypeOK
  <2>2. op \notin Queued
    BY <1>1 DEF IInv, QueuedOnce, Settled
  <2>3. /\ Queued' = Queued \cup {op} /\ IsInjective(in') /\ IsInjective(pending')
        /\ ToSet(in') \cap ToSet(pending') = {}
    BY <1>1, <1>2, <2>1, <2>2, AppendOp DEF IInv, QueuedOnce, Queued
  <2>4. ASSUME NEW s \in Runners, Settled(s)', call'[s].op \in Queued' PROVE FALSE
    <3>1. s # r
      BY <1>1, <1>2, <2>4 DEF Settled
    <3>2. call'[s] = call[s] /\ Settled(s) /\ call[s].op = op
      BY <1>1, <1>2, <2>3, <2>4, <3>1 DEF Settled, IInv, QueuedOnce
    <3>3. Busy(s) /\ Busy(r)
      <4>1. IdleCall.op.job \notin Jobs /\ op.job \in Jobs
        BY <2>1, RecorderConstantsOK DEF IdleCall, NoOp, Ops
      <4>. QED BY <1>1, <3>2, <4>1 DEF Busy, IInv, CallsMatch
    <3>. QED BY <3>1, <3>2, <3>3 DEF IInv, CallsMatch, Table!IInv, Table!EpochsDiffer,
         Table!Holds, Store!Holds, Table!NoClaim, Store!NoClaim
  <2>. QED BY <2>3, <2>4 DEF QueuedOnce
<1>3. CASE call' = [call EXCEPT ![r] = Told(op, FALSE, TRUE)] /\ UNCHANGED in
  <2>1. \A s \in Runners : call'[s].op = call[s].op /\ (Settled(s)' => Settled(s))
    BY <1>1, <1>3 DEF Told, Settled
  <2>. QED BY <1>1, <1>3, <2>1, QueueKept
<1>. QED BY <1>2, <1>3 DEF Submit

\* The loop takes the head of the channel.
LEMMA ReceiveQueues ==
    ASSUME IInv, call' = call,
           in # <<>>, in' = Tail(in), pending' = Append(pending, Head(in))
    PROVE  QueuedOnce'
<1>1. in \in Seq(Ops) /\ pending \in Seq(Ops)
  BY DEF IInv, TypeOK
<1>2. /\ Head(in) \in Ops /\ ToSet(in) = ToSet(Tail(in)) \cup {Head(in)}
      /\ IsInjective(Tail(in)) /\ Head(in) \notin ToSet(Tail(in))
  BY <1>1, TakeOp DEF IInv, QueuedOnce
<1>3. Head(in) \notin ToSet(pending)
  BY <1>2 DEF IInv, QueuedOnce
<1>4. /\ ToSet(pending') = ToSet(pending) \cup {Head(in)} /\ IsInjective(pending')
  BY <1>1, <1>2, <1>3, AppendOp DEF IInv, QueuedOnce
<1>5. Queued' = Queued /\ ToSet(in') \cap ToSet(pending') = {}
  BY <1>2, <1>3, <1>4 DEF IInv, QueuedOnce, Queued
<1>6. \A r \in Runners : call'[r].op = call[r].op /\ (Settled(r)' => Settled(r))
  BY DEF Settled
<1>. QED BY <1>2, <1>4, <1>5, <1>6, QueueShrinks

\* A flush answers every op it takes out.
LEMMA FlushQueues ==
    ASSUME IInv, FlushOnce \/ FlushFails
    PROVE  QueuedOnce'
<1>1. in' = in
  BY DEF FlushOnce, FlushFails
<1>2. CASE call' = call /\ pending' = pending
  BY <1>1, <1>2, QueueKept DEF Settled
<1>3. ASSUME NEW result, DOMAIN result = ToSet(pending), Resolve(result), pending' = <<>>,
             \A op \in ToSet(pending) : result[op].op = op
      PROVE  QueuedOnce'
  <2>1. Queued' = ToSet(in)
    BY <1>1, <1>3, NoOps DEF Queued
  <2>2. ASSUME NEW r \in Runners
        PROVE  /\ call'[r].op = call[r].op
               /\ Settled(r)' => Settled(r) \/ call[r].op \notin Queued'
    <3>1. CASE call[r].at = "wait" /\ call[r].op \in ToSet(pending)
      BY <1>3, <2>1, <3>1 DEF Resolve, IInv, QueuedOnce
    <3>2. CASE ~(call[r].at = "wait" /\ call[r].op \in ToSet(pending))
      BY <1>3, <3>2 DEF Resolve, Settled
    <3>. QED BY <3>1, <3>2
  <2>3. IsInjective(in') /\ IsInjective(pending') /\ ToSet(in') \cap ToSet(pending') = {}
    BY <1>1, <1>3, NoOps DEF IInv, QueuedOnce
  <2>. QED BY <2>1, <2>2, <2>3, QueueShrinks DEF Queued
<1>4. CASE FlushOnce
  <2> DEFINE result == [op \in ToSet(pending) |-> Told(op, Applied(op, pending), FALSE)]
  <2>1. \A op \in ToSet(pending) : result[op].op = op
    BY DEF Told
  <2>2. DOMAIN result = ToSet(pending) /\ Resolve(result) /\ pending' = <<>>
    BY <1>4 DEF FlushOnce
  <2> HIDE DEF result
  <2>. QED BY <1>3, <2>1, <2>2
<1>5. CASE Resolve([op \in ToSet(pending) |-> Told(op, FALSE, TRUE)]) /\ pending' = <<>>
  <2> DEFINE result == [op \in ToSet(pending) |-> Told(op, FALSE, TRUE)]
  <2>1. \A op \in ToSet(pending) : result[op].op = op
    BY DEF Told
  <2>2. DOMAIN result = ToSet(pending) /\ Resolve(result)
    BY <1>5
  <2> HIDE DEF result
  <2>. QED BY <1>3, <1>5, <2>1, <2>2
<1>. QED BY <1>2, <1>4, <1>5 DEF FlushFails

\* Every step keeps the queue free of repetitions and of settled calls.
LEMMA StepQueue ==
    ASSUME IInv, Step
    PROVE  QueuedOnce'
<1>0. /\ call = [s \in Runners |-> call[s]]
      /\ \A s \in Runners : ~Busy(s) => call[s] = IdleCall
  BY DEF IInv, TypeOK, CallsMatch
<1>1. ASSUME NEW r \in Runners,
             \/ GiveUp(r) \/ Return(r) \/ LeaseLost(r) \/ SyncWrite(r) \/ SyncRecord(r)
             \/ \E j \in Jobs : Claim(r, j)
      PROVE  QueuedOnce'
  <2>1. UNCHANGED <<in, pending>>
    BY <1>1 DEF GiveUp, Return, LeaseLost, SyncWrite, SyncRecord, Claim, processVars
  <2>2. \/ call' = call \/ call' = [call EXCEPT ![r] = IdleCall]
        \/ call' = [call EXCEPT ![r] = Told(call[r].op, FALSE, TRUE)]
        \/ /\ call[r].at = "submit"
           /\ \/ call' = [call EXCEPT ![r] = [at |-> "record", op |-> call[r].op,
                                              applied |-> TRUE, err |-> FALSE]]
              \/ call' = [call EXCEPT ![r] = [at |-> "record", op |-> call[r].op,
                                              applied |-> FALSE, err |-> FALSE]]
        \/ call[r].at = "record" /\ call' = [call EXCEPT ![r].at = "told"]
    BY <1>1 DEF GiveUp, Return, LeaseLost, SyncWrite, SyncRecord, Claim, processVars
  <2>3. ASSUME NEW s \in Runners
        PROVE  \/ call'[s] = IdleCall
               \/ call'[s].op = call[s].op /\ (Settled(s)' => Settled(s))
    <3>1. CASE call'[s] = call[s]
      BY <3>1 DEF Settled
    <3>2. CASE s = r /\ call[r].at = "record" /\ call' = [call EXCEPT ![r].at = "told"]
      <4>1. call[r].op = [call[r] EXCEPT !.at = "told"].op
        BY DEF IInv, TypeOK
      <4>. QED BY <1>0, <3>2, <4>1 DEF Settled
    <3>. QED BY <1>0, <2>2, <3>1, <3>2 DEF Settled, Told
  <2>. QED BY <2>1, <2>3, QueueKept
<1>2. ASSUME NEW r \in Runners, NEW kind \in Outcomes(r) \cap Reported, Finish(r, kind)
      PROVE  QueuedOnce'
  <2> DEFINE op == [kind |-> kind, job |-> claim[r].job, epoch |-> claim[r].epoch,
                    attempt |-> claim[r].attempt]
  <2>1. /\ UNCHANGED <<in, pending>> /\ Store!Holds(r) /\ ~Busy(r)
        /\ \A s \in Runners : s # r => call'[s] = call[s]
        /\ call'[r].op = op
    BY <1>0, <1>2 DEF Finish, Busy
  <2>2. op \notin Queued
    BY <2>1 DEF IInv, OneOpPerClaim
  <2>3. Queued' = Queued
    BY <2>1 DEF Queued
  <2>4. \A s \in Runners : Settled(s)' => call'[s].op \notin Queued
    BY <2>1, <2>2 DEF IInv, QueuedOnce, Settled
  <2>. QED BY <2>1, <2>3, <2>4 DEF IInv, QueuedOnce
<1>3. CASE Receive \/ Tick \/ Drain \/ Stop
  <2>1. /\ call' = call
        /\ \/ UNCHANGED <<in, pending>>
           \/ in # <<>> /\ in' = Tail(in) /\ pending' = Append(pending, Head(in))
    BY <1>3 DEF Receive, Tick, Drain, Stop
  <2>2. CASE UNCHANGED <<in, pending>>
    BY <2>1, <2>2, QueueKept DEF Settled
  <2>. QED BY <2>1, <2>2, ReceiveQueues
<1>4. CASE Restart
  <2>1. in' = <<>> /\ pending' = <<>> /\ Queued' = {}
    BY <1>4, NoOps DEF Restart, Queued
  <2>. QED BY <2>1, NoOps DEF QueuedOnce
<1>5. ASSUME \/ \E j \in Jobs : ReapJob(j) \/ Requeue(j) \/ OtherStatement(j)
             \/ \E op \in doomed : RecordDoomed(op)
      PROVE  QueuedOnce'
  <2>1. UNCHANGED <<call, in, pending>>
    BY <1>5 DEF ReapJob, Requeue, OtherStatement, RecordDoomed, processVars
  <2>. QED BY <2>1, QueueKept DEF Settled
<1>. QED BY <1>1, <1>2, <1>3, <1>4, <1>5, SubmitQueues, FlushQueues DEF Step, LoopStep

------------------------------------------------------------------------------
(* Types.                                                                    *)

Histories == [Jobs -> [1 .. MaxAttemptsCeiling ->
                [kind : Kinds \cup {"none", "leaseExpired"}, epoch : Nat]]]

Calls == [at : {"idle", "submit", "wait", "record", "told"},
          op : Ops \cup {NoOp}, applied : BOOLEAN, err : BOOLEAN]

\* The attempt of a witness has its line in job_attempts.
LEMMA FitsHistory ==
    ASSUME IInv, NEW x, Fits(x)
    PROVE  x.job \in Jobs /\ x.epoch \in Nat /\ x.attempt \in 1 .. MaxAttemptsCeiling
<1>1. x.job \in Jobs /\ x.epoch \in Nat /\ x.attempt \in 1 .. row[x.job].max
  BY DEF Fits
<1>2. row[x.job].max \in 1 .. MaxAttemptsCeiling
  BY <1>1 DEF IInv, TypeOK, Store!TypeOK, Store!Rows
<1>. QED BY <1>1, <1>2, RecorderConstantsOK

\* An attempt row of a witness keeps job_attempts well formed.
LEMMA RecordAttemptTyped ==
    ASSUME IInv, NEW x, Fits(x), x.kind \in Kinds \cup {"leaseExpired"}
    PROVE  RecordAttempt(x) \in Histories
<1>1. x.job \in Jobs /\ x.epoch \in Nat /\ x.attempt \in 1 .. MaxAttemptsCeiling
  BY FitsHistory
<1>2. history \in Histories
  BY DEF IInv, TypeOK, Histories
<1>3. [kind |-> x.kind, epoch |-> x.epoch] \in
        [kind : Kinds \cup {"none", "leaseExpired"}, epoch : Nat]
  BY <1>1
<1>4. [history EXCEPT ![x.job][x.attempt] = [kind |-> x.kind, epoch |-> x.epoch]] \in Histories
  BY <1>1, <1>2, <1>3 DEF Histories
<1>. QED BY <1>2, <1>4 DEF RecordAttempt

\* So does every step, a batch's INSERT of many rows included.
LEMMA HistoryTyped ==
    ASSUME IInv, Step
    PROVE  history' \in Histories
<1>0. history \in Histories
  BY DEF IInv, TypeOK, Histories
<1>1. ASSUME NEW r \in Runners, LeaseLost(r) PROVE history' \in Histories
  <2>1. Fits(claim[r])
    BY <1>1 DEF LeaseLost, IInv, WitnessesOK, Witnesses, Held
  <2>2. Fits(LostAttempt(r))
    BY <2>1 DEF Fits, Open, LostAttempt
  <2>3. LostAttempt(r).kind = "leaseExpired"
    BY DEF LostAttempt
  <2>. QED BY <1>0, <1>1, <2>2, <2>3, RecordAttemptTyped DEF LeaseLost, LostAttempt
<1>2. ASSUME NEW r \in Runners, SyncRecord(r) PROVE history' \in Histories
  <2>1. Fits(call[r].op) /\ call[r].op.kind \in Kinds
    BY <1>2 DEF SyncRecord, IInv, WitnessesOK, Witnesses, Called, Busy, OpsFit, Ops
  <2>. QED BY <1>0, <1>2, <2>1, RecordAttemptTyped DEF SyncRecord
<1>3. ASSUME NEW op \in doomed, RecordDoomed(op) PROVE history' \in Histories
  <2>1. Fits(op) /\ op.kind = "leaseExpired"
    BY DEF IInv, WitnessesOK, Witnesses, TypeOK
  <2>. QED BY <1>0, <1>3, <2>1, RecordAttemptTyped DEF RecordDoomed
<1>4. ASSUME WriteBatch(pending) PROVE history' \in Histories
  <2>1. \A j \in Jobs, n \in 1 .. MaxAttemptsCeiling :
          history'[j][n] \in [kind : Kinds \cup {"none", "leaseExpired"}, epoch : Nat]
    <3> SUFFICES ASSUME NEW j \in Jobs, NEW n \in 1 .. MaxAttemptsCeiling
                 PROVE  history'[j][n] \in [kind : Kinds \cup {"none", "leaseExpired"}, epoch : Nat]
      OBVIOUS
    <3> DEFINE told == {i \in DOMAIN pending : pending[i].job = j /\ pending[i].attempt = n}
    <3>1. history'[j][n] = IF history[j][n] # NoStory \/ told = {} THEN history[j][n]
                           ELSE [kind |-> pending[Min(told)].kind,
                                 epoch |-> pending[Min(told)].epoch]
      BY <1>4 DEF WriteBatch, WriteHistory
    <3>2. CASE history[j][n] # NoStory \/ told = {}
      BY <1>0, <3>1, <3>2 DEF Histories
    <3>3. CASE history[j][n] = NoStory /\ told # {}
      <4>1. pending \in Seq(Ops) /\ told \subseteq Nat
        BY DEF IInv, TypeOK
      <4>2. Min(told) \in DOMAIN pending
        BY <3>3, <4>1, FirstPosition
      <4>3. pending[Min(told)] \in Ops
        BY <4>1, <4>2
      <4>. QED BY <3>1, <3>3, <4>3 DEF Ops
    <3>. QED BY <3>2, <3>3
  <2>2. history' = [j \in Jobs |-> [n \in 1 .. MaxAttemptsCeiling |-> history'[j][n]]]
    BY <1>4 DEF WriteBatch, WriteHistory
  <2>. QED BY <2>1, <2>2 DEF Histories
<1>5. CASE history' = history
  BY <1>0, <1>5
<1>. QED BY <1>1, <1>2, <1>3, <1>4, <1>5 DEF Step, LoopStep, Claim, Finish, Submit, GiveUp,
     Return, SyncWrite, Receive, Tick, Drain, FlushOnce, FlushFails, Stop, Restart, ReapJob,
     Requeue, OtherStatement

\* The callers' side is well formed after every step.
LEMMA CallTyped ==
    ASSUME IInv, Step
    PROVE  call' \in [Runners -> Calls]
<1>0. call \in [Runners -> Calls] /\ IdleCall \in Calls
  BY DEF IInv, TypeOK, Calls, IdleCall
<1>1. \A r \in Runners, app \in BOOLEAN, err \in BOOLEAN, op \in Ops \cup {NoOp} :
        Told(op, app, err) \in Calls
  BY DEF Calls, Told
<1>2. ASSUME NEW r \in Runners, NEW kind \in Outcomes(r) \cap Reported, Finish(r, kind)
      PROVE  call' \in [Runners -> Calls]
  <2>1. kind \in Kinds
    BY DEF Outcomes, Kinds, StatusOf
  <2>2. claim[r].job \in Jobs /\ claim[r].epoch \in Nat /\ claim[r].attempt \in Nat
    BY <1>2 DEF Finish, IInv, TypeOK, Store!TypeOK, Store!Claims, Table!IInv, Table!EpochBehind,
        Table!Holds, Store!Holds, Table!NoClaim, Store!NoClaim
  <2>. QED BY <1>0, <1>2, <2>1, <2>2 DEF Finish, Calls, Ops
<1>3. ASSUME NEW r \in Runners,
             Submit(r) \/ GiveUp(r) \/ Return(r) \/ SyncWrite(r) \/ SyncRecord(r)
      PROVE  call' \in [Runners -> Calls]
  <2> DEFINE op == call[r].op
  <2>1. /\ op \in Ops \cup {NoOp}
        /\ [call[r] EXCEPT !.at = "wait"] \in Calls /\ [call[r] EXCEPT !.at = "told"] \in Calls
    BY <1>0 DEF Calls
  <2>2. /\ [at |-> "record", op |-> op, applied |-> TRUE, err |-> FALSE] \in Calls
        /\ [at |-> "record", op |-> op, applied |-> FALSE, err |-> FALSE] \in Calls
        /\ Told(op, FALSE, TRUE) \in Calls
    BY <1>1, <2>1 DEF Calls
  <2>. HIDE DEF op
  <2>3. \E c \in Calls : call' = [call EXCEPT ![r] = c]
    BY <1>0, <1>3, <2>1, <2>2 DEF Submit, GiveUp, Return, SyncWrite, SyncRecord, op
  <2>. QED BY <1>0, <2>3
<1>4. CASE Restart
  BY <1>0, <1>4 DEF Restart
<1>5. CASE Resolve([op \in ToSet(pending) |-> Told(op, FALSE, TRUE)])
  <2>1. \A op \in ToSet(pending) : Told(op, FALSE, TRUE) \in Calls
    BY PendingOp DEF Told, Calls
  <2>. QED BY <1>0, <1>5, <2>1 DEF Resolve
<1>6. CASE FlushOnce
  <2>1. \A op \in ToSet(pending) : Told(op, Applied(op, pending), FALSE) \in Calls
    <3> SUFFICES ASSUME NEW op \in ToSet(pending)
                 PROVE  Told(op, Applied(op, pending), FALSE) \in Calls
      OBVIOUS
    <3>1. Applied(op, pending) \in BOOLEAN
      <4>1. CASE op.kind = "complete"
        <5>1. Applied(op, pending) =
                \E o \in Matched(pending) : o.kind = "complete" /\ o.job = op.job
          BY <4>1 DEF Applied
        <5>. QED BY <5>1, Zenon
      <4>2. CASE op.kind # "complete"
        <5>1. CASE op \in Matched(pending)
          BY <4>2, <5>1 DEF Applied
        <5>2. CASE op \notin Matched(pending)
          BY <4>2, <5>2 DEF Applied
        <5>. QED BY <5>1, <5>2
      <4>. QED BY <4>1, <4>2
    <3>2. op \in Ops
      BY PendingOp
    <3>. QED BY <1>0, <1>1, <3>1, <3>2 DEF Told, Calls
  <2>. QED BY <1>0, <1>6, <2>1 DEF Resolve, FlushOnce
<1>7. CASE call' = call
  BY <1>0, <1>7
<1>. QED BY <1>2, <1>3, <1>4, <1>5, <1>6, <1>7 DEF Step, LoopStep, Claim, LeaseLost, Receive,
     Tick, Drain, FlushFails, Stop, ReapJob, RecordDoomed, Requeue, OtherStatement, processVars

\* The channel keeps within its capacity, and both queues hold ops only.
LEMMA QueuesTyped ==
    ASSUME IInv, Step
    PROVE  /\ in' \in Seq(Ops) /\ Len(in') <= 2 * MaxSize
           /\ pending' \in Seq(Ops)
<1>0. in \in Seq(Ops) /\ Len(in) <= 2 * MaxSize /\ pending \in Seq(Ops) /\ MaxSize \in Nat
  BY RecorderConstantsOK DEF IInv, TypeOK
<1>1. ASSUME NEW r \in Runners, Submit(r)
      PROVE  in' \in Seq(Ops) /\ Len(in') <= 2 * MaxSize /\ pending' \in Seq(Ops)
  <2>1. call[r].op \in Ops
    BY <1>1 DEF Submit, IInv, OpsFit, Called, Busy
  <2>2. CASE Len(in) < 2 * MaxSize /\ in' = Append(in, call[r].op)
    <3>1. Len(in') = Len(in) + 1 /\ in' \in Seq(Ops) /\ Len(in) \in Nat
      BY <1>0, <2>1, <2>2
    <3>. QED BY <1>0, <1>1, <2>2, <3>1 DEF Submit
  <2>. QED BY <1>0, <1>1, <2>2 DEF Submit
<1>2. CASE in # <<>> /\ in' = Tail(in) /\ pending' = Append(pending, Head(in))
  <2>1. Head(in) \in Ops /\ Tail(in) \in Seq(Ops) /\ Len(Tail(in)) <= Len(in) /\ Len(in) \in Nat
    BY <1>0, <1>2
  <2>. QED BY <1>0, <1>2, <2>1
<1>3. CASE in' = in /\ pending' = pending
  BY <1>0, <1>3
<1>4. CASE in' = in /\ pending' = <<>>
  BY <1>0, <1>4
<1>5. CASE in' = <<>> /\ pending' = <<>>
  BY <1>0, <1>5
<1>. QED BY <1>1, <1>2, <1>3, <1>4, <1>5 DEF Step, LoopStep, Claim, Finish, GiveUp, Return,
     LeaseLost, SyncWrite, SyncRecord, Receive, Tick, Drain, FlushOnce, FlushFails, Stop, Restart,
     ReapJob, RecordDoomed, Requeue, OtherStatement, processVars

\* The loop is at one of its places, and faults are counted within their bound.
LEMMA LoopTyped ==
    ASSUME IInv, Step
    PROVE  /\ loop' \in {"select", "flush", "flush2", "drain", "final", "final2", "done"}
           /\ stopped' \in BOOLEAN
           /\ faults' \in 0 .. MaxFaults
<1>0. /\ loop \in {"select", "flush", "flush2", "drain", "final", "final2", "done"}
      /\ stopped \in BOOLEAN /\ faults \in 0 .. MaxFaults /\ MaxFaults \in Nat
  BY RecorderConstantsOK DEF IInv, TypeOK
<1>1. loop' \in {"select", "flush", "flush2", "drain", "final", "final2", "done"}
  BY <1>0 DEF Step, LoopStep, Claim, Finish, Submit, GiveUp, Return, LeaseLost, SyncWrite,
     SyncRecord, Receive, Tick, Drain, FlushOnce, FlushFails, AfterFlush, Stop, Restart, ReapJob,
     RecordDoomed, Requeue, OtherStatement, processVars
<1>2. stopped' = stopped \/ stopped' = TRUE \/ stopped' = FALSE
  BY DEF Step, LoopStep, Claim, Finish, Submit, GiveUp, Return, LeaseLost, SyncWrite,
     SyncRecord, Receive, Tick, Drain, FlushOnce, FlushFails, Stop, Restart, ReapJob,
     RecordDoomed, Requeue, OtherStatement, processVars
<1>3. stopped' \in BOOLEAN
  BY <1>0, <1>2, Zenon
<1>4. faults' = faults \/ Fault
  BY DEF Step, LoopStep, Claim, Finish, Submit, GiveUp, Return, LeaseLost, SyncWrite,
     SyncRecord, Receive, Tick, Drain, FlushOnce, FlushFails, Stop, Restart, ReapJob,
     RecordDoomed, Requeue, OtherStatement, processVars
<1>5. faults' \in 0 .. MaxFaults
  BY <1>0, <1>4 DEF Fault
<1>. QED BY <1>1, <1>3, <1>5

\* Reaped attempts and accepted outcomes keep their form.
LEMMA GhostsTyped ==
    ASSUME IInv, Step
    PROVE  /\ doomed' \subseteq [kind : {"leaseExpired"}, job : Jobs, epoch : Nat, attempt : Nat]
           /\ accepted' \subseteq Ops
           /\ requeued' \subseteq Jobs
<1>0. /\ doomed \subseteq [kind : {"leaseExpired"}, job : Jobs, epoch : Nat, attempt : Nat]
      /\ accepted \subseteq Ops /\ requeued \subseteq Jobs
  BY DEF IInv, TypeOK
<1>1. \/ doomed' \subseteq doomed
      \/ \E j \in Jobs : doomed' = doomed \cup {[kind |-> "leaseExpired", job |-> j,
                                         epoch |-> row[j].epoch, attempt |-> row[j].attempts]}
  BY DEF Step, LoopStep, Claim, Finish, Submit, GiveUp, Return, LeaseLost, SyncWrite,
     SyncRecord, Receive, Tick, Drain, FlushOnce, FlushFails, Stop, Restart, ReapJob,
     RecordDoomed, Requeue, OtherStatement
<1>2. \A j \in Jobs : row[j].epoch \in Nat /\ row[j].attempts \in Nat
  BY DEF IInv, TypeOK, Store!TypeOK, Store!Rows
<1>3. doomed' \subseteq [kind : {"leaseExpired"}, job : Jobs, epoch : Nat, attempt : Nat]
  BY <1>0, <1>1, <1>2
<1>4. \/ accepted' = accepted \/ accepted' = accepted \cup Matched(pending)
      \/ \E r \in Runners : SyncWrite(r) /\ accepted' = accepted \cup {call[r].op}
  BY DEF Step, LoopStep, Claim, Finish, Submit, GiveUp, Return, LeaseLost, SyncWrite,
     SyncRecord, Receive, Tick, Drain, FlushOnce, FlushFails, WriteBatch, Stop, Restart, ReapJob,
     RecordDoomed, Requeue, OtherStatement
<1>5. \A r \in Runners : SyncWrite(r) => call[r].op \in Ops
  BY DEF SyncWrite, IInv, OpsFit, Called, Busy
<1>6. Matched(pending) \subseteq Ops
  BY PendingOp DEF Matched
<1>7. accepted' \subseteq Ops
  BY <1>0, <1>4, <1>5, <1>6
<1>8. requeued' \subseteq Jobs
  BY <1>0 DEF Step, LoopStep, Claim, Finish, Submit, GiveUp, Return, LeaseLost, SyncWrite,
     SyncRecord, Receive, Tick, Drain, FlushOnce, FlushFails, Stop, Restart, ReapJob,
     RecordDoomed, Requeue, OtherStatement
<1>. QED BY <1>3, <1>7, <1>8

\* Types are preserved.
LEMMA StepTypes ==
    ASSUME IInv, Step, batched' = batched
    PROVE  TypeOK'
<1>1. Store!TypeOK'
  <2>1. Table!TypeOK'
    BY StepTable DEF Table!IInv
  <2>. QED BY <2>1 DEF Store!TypeOK, Table!TypeOK, Store!Rows, Table!Rows, Store!Claims,
       Table!Claims, Store!Statuses, Table!Statuses, Store!Absent, Table!Absent, Store!Leases,
       Table!Leases
<1>2. history' \in Histories /\ call' \in [Runners -> Calls]
  BY HistoryTyped, CallTyped
<1>3. batched' \in Deployments
  BY DEF IInv, TypeOK
<1>. QED BY <1>1, <1>2, <1>3, QueuesTyped, LoopTyped, GhostsTyped DEF TypeOK, Histories, Calls

------------------------------------------------------------------------------
(* The two steps that are not quiet.                                         *)

\* What IInv says beyond types, table and queue.
Outcome ==
    /\ RowsSane /\ WitnessesOK /\ OneOpPerClaim /\ OpsFit /\ CallsMatch /\ Closed
    /\ ReapedIsNotAccepted /\ NothingToldEarly /\ AppliedIsTrue /\ HistoryTellsOutcome

\* Two runners do not hold the same claim.
LEMMA OneHolder ==
    ASSUME IInv, NEW r \in Runners, NEW s \in Runners, Store!Holds(r), Store!Holds(s),
           claim[r].job = claim[s].job, claim[r].epoch = claim[s].epoch
    PROVE  r = s
BY DEF IInv, Table!IInv, Table!EpochsDiffer, Table!Holds, Store!Holds, Table!NoClaim,
    Store!NoClaim

\* A call begins: its op is a copy of the claim's coordinates, and the first.
LEMMA FinishKeeps ==
    ASSUME IInv, NEW r \in Runners, NEW kind \in Outcomes(r) \cap Reported, Finish(r, kind),
           batched' = batched
    PROVE  Outcome'
<1> DEFINE op == [kind |-> kind, job |-> claim[r].job, epoch |-> claim[r].epoch,
                  attempt |-> claim[r].attempt]
           c == [at |-> "submit", op |-> op, applied |-> FALSE, err |-> FALSE]
<1>0. call = [s \in Runners |-> call[s]]
  BY DEF IInv, TypeOK
<1>1. /\ UNCHANGED <<row, claim, history, doomed, in, pending, accepted, requeued>>
      /\ Store!Holds(r) /\ ~Busy(r) /\ call'[r] = c
      /\ \A s \in Runners : s # r => call'[s] = call[s]
  BY <1>0 DEF Finish, Busy
<1>2. /\ op.job = claim[r].job /\ op.epoch = claim[r].epoch /\ op.attempt = claim[r].attempt
      /\ op.kind = kind /\ c.at = "submit" /\ c.op = op /\ ~c.applied
  OBVIOUS
<1> HIDE DEF op, c
<1>3. Called' \subseteq Called \cup {op} /\ Held' = Held /\ Queued' = Queued
  BY <1>1, <1>2 DEF Called, Held, Queued, Busy, Store!Holds
<1>4. claim[r] \in Held /\ Fits(claim[r])
  BY <1>1 DEF Held, IInv, WitnessesOK, Witnesses
<1>5. WitnessesOK'
  <2>1. Witnesses' \subseteq Witnesses \cup {op}
    BY <1>1, <1>3 DEF Witnesses
  <2>2. \A x \in Witnesses : Fits(x) /\ Agree(claim[r], x) /\ Agree(x, claim[r])
    BY <1>4 DEF IInv, WitnessesOK, Witnesses
  <2>3. Fits(op) /\ \A x \in Witnesses : Agree(op, x) /\ Agree(x, op)
    BY <1>2, <1>4, <2>2 DEF Fits, Open, Agree
  <2>4. \A x : Fits(x) => Fits(x)'
    BY <1>1 DEF Fits, Open
  <2>5. \A x, y : Agree(x, y) => Agree(x, y)'
    BY <1>1 DEF Agree
  <2>6. \A x, y \in Witnesses : Agree(x, y)
    BY DEF IInv, WitnessesOK
  <2>7. Agree(op, op)
    BY DEF Agree
  <2>8. \A x, y \in Witnesses \cup {op} : Agree(x, y)
    BY <2>3, <2>6, <2>7
  <2>. QED BY <2>1, <2>2, <2>3, <2>4, <2>5, <2>8 DEF WitnessesOK
<1>6. OneOpPerClaim'
  <2>1. ASSUME NEW o \in Called \cup Queued \cup accepted, o.job = op.job, o.epoch = op.epoch
        PROVE  FALSE
    <3>1. CASE o \in Queued \cup accepted
      BY <1>1, <1>2, <2>1, <3>1 DEF IInv, OneOpPerClaim
    <3>2. CASE o \in Called
      <4>1. PICK s \in Runners : Busy(s) /\ o = call[s].op
        BY <3>2 DEF Called
      <4>2. Store!Holds(s) /\ claim[s].job = claim[r].job /\ claim[s].epoch = claim[r].epoch
        BY <1>2, <2>1, <4>1 DEF IInv, CallsMatch
      <4>. QED BY <1>1, <4>1, <4>2, OneHolder
    <3>. QED BY <2>1, <3>1, <3>2
  <2>2. \A o, p \in Called \cup Queued \cup accepted : o.job = p.job /\ o.epoch = p.epoch => o = p
    BY DEF IInv, OneOpPerClaim
  <2>3. \A o, p \in Called' \cup Queued' \cup accepted' :
          o.job = p.job /\ o.epoch = p.epoch => o = p
    BY <1>1, <1>3, <2>1, <2>2
  <2>4. \A s \in Runners : Store!Holds(s)' /\ ~Busy(s)' => Store!Holds(s) /\ ~Busy(s)
    BY <1>1, <1>2 DEF Store!Holds, Busy
  <2>. QED BY <1>1, <1>3, <2>3, <2>4 DEF IInv, OneOpPerClaim
<1>7. OpsFit'
  <2>1. op \in Ops
    <3>1. kind \in Kinds
      BY DEF Outcomes, Kinds, StatusOf
    <3>2. claim[r].job \in Jobs /\ claim[r].epoch \in Nat /\ claim[r].attempt \in Nat
      BY <1>4 DEF Fits, IInv, TypeOK, Store!TypeOK, Store!Claims
    <3>. QED BY <3>1, <3>2 DEF op, Ops
  <2>2. claim[r].max = row[claim[r].job].max
    BY <1>1 DEF IInv, Table!IInv, Table!EpochBehind, Table!Holds, Store!Holds, Table!NoClaim,
        Store!NoClaim
  <2>3. claim[r].max \in Nat /\ claim[r].attempt \in Nat
    BY DEF IInv, TypeOK, Store!TypeOK, Store!Claims
  <2>4. KindFits(op)
    BY <1>2, <2>2, <2>3 DEF KindFits, Outcomes
  <2>. QED BY <1>1, <1>3, <2>1, <2>4 DEF IInv, OpsFit, KindFits
<1>8. CallsMatch'
  BY <1>1, <1>2 DEF IInv, CallsMatch, Busy, Store!Holds
<1>9. Closed' /\ AppliedIsTrue'
  BY <1>1, <1>2 DEF IInv, Closed, AppliedIsTrue, Open, Store!Fence, Store!Holds
<1>10. RowsSane' /\ ReapedIsNotAccepted' /\ NothingToldEarly' /\ HistoryTellsOutcome'
  BY <1>1 DEF IInv, RowsSane, ReapedIsNotAccepted, NothingToldEarly, HistoryTellsOutcome
<1>. QED BY <1>5, <1>6, <1>7, <1>8, <1>9, <1>10 DEF Outcome

\* A claim: its epoch is ahead of every witness of the job, and so is its
\* attempt number unless the job was requeued.
LEMMA ClaimKeeps ==
    ASSUME IInv, NEW r \in Runners, NEW j \in Jobs, Claim(r, j), batched' = batched
    PROVE  Outcome'
<1>0. /\ row \in [Jobs -> Store!Rows] /\ claim = [s \in Runners |-> claim[s]]
      /\ row[j].epoch \in Nat /\ row[j].attempts \in Nat /\ row[j].max \in Nat
  BY DEF IInv, TypeOK, Store!TypeOK, Store!Rows
<1>1. PICK c : c = [job |-> j, epoch |-> row[j].epoch + 1,
                    attempt |-> row[j].attempts + 1, max |-> row[j].max]
  OBVIOUS
<1>2. /\ UNCHANGED <<history, doomed, call, in, pending, accepted, requeued>>
      /\ ~Store!Holds(r) /\ ~Busy(r) /\ row[j].status \in Store!WaitingStatuses
      /\ claim'[r] = c
      /\ \A s \in Runners : s # r => claim'[s] = claim[s]
  BY <1>0, <1>1 DEF Claim, Store!ClaimJob, Store!Claimable, Busy, processVars
<1>3. /\ \A i \in Jobs : i # j => row'[i] = row[i]
      /\ row'[j].status = "RUNNING" /\ row'[j].epoch = row[j].epoch + 1
      /\ row'[j].attempts = row[j].attempts + 1 /\ row'[j].max = row[j].max
  BY <1>0 DEF Claim, Store!ClaimJob, Store!Rows
<1>4. Held' \subseteq Held \cup {c} /\ Called' = Called /\ Queued' = Queued
  BY <1>2 DEF Held, Called, Queued, Busy, Store!Holds, Store!NoClaim
<1>5. /\ \A x \in Witnesses : Fits(x)
      /\ \A x, y \in Witnesses : Agree(x, y)
      /\ Witnesses' \subseteq Witnesses \cup {c}
  BY <1>2, <1>4 DEF IInv, WitnessesOK, Witnesses
<1>6. ASSUME NEW x \in Witnesses PROVE Fits(x)' /\ (x.job = j => x.epoch < row'[j].epoch)
  <2>1. /\ x.job \in Jobs /\ x.epoch \in Nat /\ x.attempt \in 1 .. row[x.job].max
        /\ x.epoch <= row[x.job].epoch
        /\ row[x.job].status # Store!Absent
        /\ x.job \notin requeued => x.attempt <= row[x.job].attempts
    BY <1>5 DEF Fits
  <2>2. CASE x.job # j
    BY <1>2, <1>3, <1>5, <2>1, <2>2 DEF Fits, Open
  <2>3. CASE x.job = j
    BY <1>0, <1>2, <1>3, <2>1, <2>3 DEF Fits, Open, Store!Absent
  <2>. QED BY <2>2, <2>3
<1>7. WitnessesOK'
  <2>1. row[j].attempts < row[j].max
    BY <1>2 DEF IInv, Table!IInv, Table!BudgetRespected, Store!WaitingStatuses,
        Table!WaitingStatuses
  <2>2. Fits(c)'
    BY <1>0, <1>3, <1>1, <2>1 DEF Fits, Open, Store!Absent
  <2>3. ASSUME NEW x \in Witnesses, x.job = j
        PROVE  x.epoch # c.epoch /\ (j \notin requeued => x.attempt # c.attempt)
    <3>1. /\ x.epoch \in Nat /\ x.epoch <= row[j].epoch /\ x.attempt \in Nat
          /\ j \notin requeued => x.attempt <= row[j].attempts
      BY <1>0, <1>5, <2>3 DEF Fits
    <3>. QED BY <1>0, <1>1, <3>1
  <2>4. \A x \in Witnesses : Agree(x, c)' /\ Agree(c, x)'
    BY <1>2, <1>1, <2>3 DEF Agree
  <2>5. Agree(c, c)' /\ \A x, y \in Witnesses : Agree(x, y)'
    BY <1>2, <1>5 DEF Agree
  <2>. QED BY <1>5, <1>6, <2>2, <2>4, <2>5 DEF WitnessesOK
<1>8. OneOpPerClaim'
  <2>1. ASSUME NEW s \in Runners, Store!Holds(s)', ~Busy(s)', NEW o \in Queued \cup accepted,
               o.job = claim'[s].job, o.epoch = claim'[s].epoch
        PROVE  FALSE
    <3>1. CASE s = r
      <4>1. o \in Witnesses
        BY DEF Witnesses
      <4>2. o.job = j /\ o.epoch = row[j].epoch + 1 /\ o.epoch <= row[j].epoch
        BY <1>2, <1>1, <1>5, <2>1, <3>1, <4>1 DEF Fits
      <4>. QED BY <1>0, <4>2
    <3>2. CASE s # r
      BY <1>2, <2>1, <3>2 DEF IInv, OneOpPerClaim, Store!Holds, Busy
    <3>. QED BY <3>1, <3>2
  <2>. QED BY <1>2, <1>4, <2>1 DEF IInv, OneOpPerClaim
<1>9. OpsFit'
  <2>1. \A op \in Called \cup Queued : op.job \in Jobs
    BY DEF IInv, OpsFit, Ops
  <2>2. \A i \in Jobs : row'[i].max = row[i].max
    BY <1>3
  <2>. QED BY <1>4, <2>1, <2>2 DEF IInv, OpsFit, KindFits
<1>10. CallsMatch'
  BY <1>2 DEF IInv, CallsMatch, Busy, Store!Holds, Store!NoClaim
<1>11. \A x \in Witnesses : ~Open(x) => ~Open(x)'
  BY <1>0, <1>3, <1>5, <1>6 DEF Open, Fits
<1>12. Closed'
  <2>1. ASSUME NEW s \in Runners, Answered(call'[s]) PROVE ~Store!Fence(s)'
    <3>1. Busy(s) /\ s # r /\ claim'[s] = claim[s]
      BY <1>2, <2>1 DEF Answered, Busy
    <3>2. ~Store!Fence(s) /\ Store!Holds(s)
      BY <1>2, <2>1, <3>1 DEF IInv, Closed, CallsMatch, Answered
    <3>3. claim[s] \in Witnesses /\ ~Open(claim[s])
      BY <3>2 DEF Witnesses, Held, Open, Store!Fence
    <3>4. PICK x \in Witnesses : x = claim[s] /\ ~Open(x)'
      BY <1>11, <3>3
    <3>. QED BY <3>1, <3>4 DEF Open, Store!Fence
  <2>2. \A op \in accepted : ~Open(op)'
    BY <1>11 DEF IInv, Closed, Witnesses
  <2>3. ASSUME NEW x \in doomed PROVE x.epoch < row'[x.job].epoch
    <3>1. x \in Witnesses /\ x.epoch < row[x.job].epoch /\ x.job \in Jobs
      BY <1>5 DEF IInv, Closed, Witnesses, Fits
    <3>. QED BY <1>3, <1>6, <3>1
  <2>. QED BY <1>2, <2>1, <2>2, <2>3 DEF Closed, Answered
<1>13. RowsSane' /\ NothingToldEarly'
  <2>1. RowsSane'
    BY <1>0, <1>3 DEF IInv, RowsSane, Store!Absent
  <2>2. NothingToldEarly'
    BY <1>0, <1>2, <1>3 DEF IInv, NothingToldEarly
  <2>. QED BY <2>1, <2>2
<1>14. ReapedIsNotAccepted' /\ AppliedIsTrue' /\ HistoryTellsOutcome'
  BY <1>2 DEF IInv, ReapedIsNotAccepted, AppliedIsTrue, HistoryTellsOutcome
<1>. QED BY <1>7, <1>8, <1>9, <1>10, <1>12, <1>13, <1>14 DEF Outcome

------------------------------------------------------------------------------
(* The inductive invariant.                                                  *)

\* Empty tables, idle callers and a fresh Batcher satisfy the invariant.
LEMMA InitIInv == Init => IInv
<1> SUFFICES ASSUME Init PROVE IInv
  OBVIOUS
<1>1. Table!IInv
  <2>1. Table!Init
    BY DEF Init, Store!Init, Table!Init, Store!NoRow, Table!NoRow, Store!NoClaim, Table!NoClaim,
        Store!Absent, Table!Absent
  <2>. QED BY <2>1, Table!InitIInv, RecorderConstantsOK
<1>2. /\ in = <<>> /\ pending = <<>> /\ Queued = {}
      /\ accepted = {} /\ doomed = {} /\ requeued = {}
      /\ \A r \in Runners : call[r] = IdleCall /\ claim[r] = Store!NoClaim
      /\ \A j \in Jobs : row[j] = Store!NoRow
  BY NoOps DEF Init, NewBatcher, Store!Init, Queued
<1>3. Called = {} /\ Held = {} /\ Witnesses = {}
  BY <1>2 DEF Called, Held, Witnesses, Busy, IdleCall, Store!Holds
<1>4. TypeOK
  <2>1. Store!TypeOK
    BY <1>1, SameTable DEF Table!IInv
  <2>2. /\ history \in Histories /\ call \in [Runners -> Calls]
        /\ loop = "select" /\ stopped = FALSE /\ faults = 0 /\ batched \in Deployments
    BY DEF Init, NewBatcher, Histories, NoStory, Calls, IdleCall
  <2>3. in \in Seq(Ops) /\ Len(in) <= 2 * MaxSize /\ pending \in Seq(Ops) /\ 0 \in 0 .. MaxFaults
    BY <1>2, RecorderConstantsOK
  <2>. QED BY <1>2, <2>1, <2>2, <2>3 DEF TypeOK, Histories, Calls
<1>5. RowsSane /\ CallsMatch
  <2>1. RowsSane
    BY <1>2 DEF RowsSane, Store!NoRow, Store!Absent
  <2>2. CallsMatch
    <3>1. \A r \in Runners : ~Busy(r)
      BY <1>2 DEF Busy, IdleCall
    <3>. QED BY <1>2, <3>1 DEF CallsMatch
  <2>. QED BY <2>1, <2>2
<1>6. WitnessesOK /\ OneOpPerClaim /\ OpsFit /\ ReapedIsNotAccepted /\ HistoryTellsOutcome
  BY <1>2, <1>3 DEF WitnessesOK, OneOpPerClaim, OpsFit, ReapedIsNotAccepted, HistoryTellsOutcome,
      Store!Holds
<1>7. QueuedOnce
  BY <1>2, NoOps DEF QueuedOnce
<1>8. Closed /\ AppliedIsTrue
  BY <1>2 DEF Closed, AppliedIsTrue, IdleCall
<1>9. NothingToldEarly
  BY DEF Init, NothingToldEarly
<1>. QED BY <1>1, <1>4, <1>5, <1>6, <1>7, <1>8, <1>9 DEF IInv

\* All but Finish and Claim are quiet.
LEMMA StepOutcome ==
    ASSUME IInv, Step, batched' = batched
    PROVE  Outcome'
<1>1. TypeOK'
  BY StepTypes
<1>2. ASSUME Quiet PROVE Outcome'
  BY <1>1, <1>2, QuietFits, QuietWitnesses, QuietOneOp, QuietClosed, QuietHistories DEF Outcome
<1>3. ASSUME NEW r \in Runners,
             Submit(r) \/ GiveUp(r) \/ Return(r) \/ LeaseLost(r) \/ SyncWrite(r) \/ SyncRecord(r)
      PROVE  Quiet
  BY <1>3, CallerIsQuiet, TellersAreQuiet, SyncWriteIsQuiet
<1>4. CASE LoopStep \/ Stop \/ Restart
  BY <1>2, <1>4, LoopIsQuiet, FlushIsQuiet DEF LoopStep
<1>5. ASSUME \/ \E j \in Jobs : ReapJob(j) \/ Requeue(j) \/ OtherStatement(j)
             \/ \E op \in doomed : RecordDoomed(op)
      PROVE  Quiet
  BY <1>5, OthersAreQuiet, TellersAreQuiet
<1>. QED BY <1>2, <1>3, <1>4, <1>5, FinishKeeps, ClaimKeeps DEF Step

\* Every step preserves the invariant.
LEMMA StepIInv == IInv /\ [Next]_vars => IInv'
<1> SUFFICES ASSUME IInv, [Next]_vars PROVE IInv'
  OBVIOUS
<1>1. CASE Next
  BY <1>1, StepTypes, StepTable, StepQueue, StepOutcome DEF Next, IInv, Outcome
<1>2. CASE UNCHANGED vars
  <2>1. /\ UNCHANGED <<batched, row, claim, history, doomed, call, in, pending, loop, stopped>>
        /\ UNCHANGED <<faults, accepted, requeued>>
    BY <1>2 DEF vars, processVars
  <2>2. Quiet
    BY <2>1, Untouched DEF Quiet
  <2>3. TypeOK'
    BY <2>1 DEF IInv, TypeOK, Store!TypeOK
  <2>4. Table!IInv'
    BY <2>1, Table!StepIInv, RecorderConstantsOK DEF IInv, Table!vars
  <2>5. QueuedOnce'
    BY <2>1, QueueKept DEF Settled
  <2>. QED BY <2>2, <2>3, <2>4, <2>5, QuietFits, QuietWitnesses, QuietOneOp, QuietClosed,
       QuietHistories DEF IInv
<1>. QED BY <1>1, <1>2

\* The inductive invariant holds of every reachable state.
THEOREM Inductive == Spec => []IInv
<1>. QED BY InitIInv, StepIInv, PTL DEF Spec

------------------------------------------------------------------------------
(* The results.                                                              *)

\* Type correctness of both tables, the calls, the channel and the loop.
THEOREM TypeCorrect == Spec => []TypeOK
<1>1. IInv => TypeOK
  BY DEF IInv
<1>. QED BY Inductive, <1>1, PTL

\* "When the call returns without error the record is durable" (batch.go:30):
\* the claim of such a call does not run any more, whichever recorder the
\* runner uses, however the ops are batched and whatever commits were lost.
THEOREM Durable == Spec => []AnswerIsDurable
<1>1. IInv => AnswerIsDurable
  BY DEF IInv, Closed, AnswerIsDurable
<1>. QED BY Inductive, <1>1, PTL

\* A caller that hears `applied` is right about the job's outcome.
THEOREM AppliedHolds == Spec => []AppliedIsTrue
<1>1. IInv => AppliedIsTrue
  BY DEF IInv
<1>. QED BY Inductive, <1>1, PTL

\* job_attempts agrees with jobs, against zombies, reapers and late batches.
THEOREM HistoryAgrees == Spec => []HistoryTellsOutcome
<1>1. IInv => HistoryTellsOutcome
  BY DEF IInv
<1>. QED BY Inductive, <1>1, PTL

\* Two queues without repetitions and without a common op make one queue.
LEMMA Concatenated ==
    ASSUME NEW S, NEW s \in Seq(S), NEW t \in Seq(S),
           IsInjective(s), IsInjective(t), ToSet(s) \cap ToSet(t) = {}
    PROVE  /\ IsInjective(s \o t)
           /\ \A i \in DOMAIN (s \o t) : (s \o t)[i] \in ToSet(s) \cup ToSet(t)
<1> DEFINE u == s \o t
<1>1. /\ Len(s) \in Nat /\ Len(t) \in Nat /\ DOMAIN u = 1 .. Len(s) + Len(t)
      /\ DOMAIN s = 1 .. Len(s) /\ DOMAIN t = 1 .. Len(t)
      /\ \A i \in DOMAIN u : u[i] = IF i <= Len(s) THEN s[i] ELSE t[i - Len(s)]
  OBVIOUS
<1> HIDE DEF u
<1>2. ASSUME NEW i \in DOMAIN u
      PROVE  \/ i \in DOMAIN s /\ u[i] = s[i]
             \/ i - Len(s) \in DOMAIN t /\ u[i] = t[i - Len(s)]
  BY <1>1
<1>3. ASSUME NEW i \in DOMAIN u, NEW k \in DOMAIN u, u[i] = u[k] PROVE i = k
  <2>1. \A a \in DOMAIN s, b \in DOMAIN t : s[a] # t[b]
    BY DEF ToSet
  <2>2. \A a, b \in DOMAIN s : s[a] = s[b] => a = b
    BY DEF IsInjective
  <2>3. \A a, b \in DOMAIN t : t[a] = t[b] => a = b
    BY DEF IsInjective
  <2>4. i \in Nat /\ k \in Nat
    BY <1>1
  <2>. QED BY <1>1, <1>2, <1>3, <2>1, <2>2, <2>3, <2>4
<1>4. \A i \in DOMAIN u : u[i] \in ToSet(s) \cup ToSet(t)
  BY <1>2 DEF ToSet
<1>. QED BY <1>3, <1>4 DEF IsInjective, u

\* "Resolved exactly once per op" (batch.go:127).
THEOREM ResolvedOnce == Spec => []Unresolved
<1>1. ASSUME IInv PROVE Unresolved
  <2>1. in \in Seq(Ops) /\ pending \in Seq(Ops)
    BY <1>1 DEF IInv, TypeOK
  <2>2. /\ IsInjective(in \o pending)
        /\ \A i \in DOMAIN (in \o pending) : (in \o pending)[i] \in Queued
    BY <1>1, <2>1, Concatenated DEF IInv, QueuedOnce, Queued
  <2>3. ASSUME NEW r \in Runners, call[r].op \in Queued
        PROVE  call[r].at = "wait" \/ (call[r].at = "told" /\ call[r].err)
    <3>1. ~Settled(r) /\ call[r].at \in {"idle", "submit", "wait", "record", "told"}
      BY <1>1, <2>3 DEF IInv, QueuedOnce, TypeOK
    <3>. QED BY <3>1 DEF Settled
  <2>. QED BY <2>2, <2>3 DEF Unresolved
<1>. QED BY Inductive, <1>1, PTL

\* Batches of any size move every row along an edge of statemachine.go.
THEOREM ImplementsLifecycle == Spec => LifecycleSpec
<1> USE DEF Store!Lifecycle!Moves, Store!Lifecycle!CanTransition, Store!Lifecycle!Transitions,
            Store!Lifecycle!Absent
<1>1. Init => Store!Lifecycle!Init
  BY DEF Init, Store!Init, Store!NoRow, Store!Lifecycle!Init, Store!Absent
<1>2. ASSUME IInv, Next PROVE Store!Lifecycle!Next
  <2>1. CASE Store!Next
    <3>1. Table!IInv /\ Table!Next
      BY <1>2, <2>1, SameTable DEF IInv
    <3>2. \A j \in Jobs : Table!Lifecycle!Moves(row[j].status, row'[j].status)
      BY <3>1, Table!StatementMoves, RecorderConstantsOK
    <3>. QED BY <3>2 DEF Store!Lifecycle!Next, Table!Lifecycle!Moves,
         Table!Lifecycle!CanTransition, Table!Lifecycle!Transitions, Table!Lifecycle!Absent
  <2>2. CASE row' = row
    BY <2>2 DEF Store!Lifecycle!Next
  <2>3. CASE WriteBatch(pending)
    <3>1. ASSUME NEW j \in Jobs PROVE Store!Lifecycle!Moves(row[j].status, row'[j].status)
      <4>1. ASSUME NEW op \in Matched(pending), op.job = j, row'[j].status = StatusOf[op.kind]
            PROVE  Store!Lifecycle!Moves(row[j].status, row'[j].status)
        <5>1. row[j].status = "RUNNING" /\ op.kind \in Kinds
          BY <1>2, <4>1, PendingOp DEF Matched, Ops
        <5>. QED BY <4>1, <5>1 DEF Kinds, StatusOf
      <4>. QED BY <1>2, <2>3, <4>1, BatchRow DEF WriteBatch
    <3>. QED BY <3>1 DEF Store!Lifecycle!Next
  <2>4. CASE Single
    BY <1>2, <2>1, <2>2, <2>4, SingleIsStatement
  <2>. QED BY <1>2, <2>2, <2>3, <2>4 DEF Next, Step, LoopStep, Single, FlushOnce, FlushFails,
       Restart
<1>3. IInv /\ [Next]_vars => [Store!Lifecycle!Next]_([j \in Jobs |-> row[j].status])
  BY <1>2 DEF vars
<1>. QED BY Inductive, <1>1, <1>3, PTL
     DEF Spec, LifecycleSpec, Store!LifecycleSpec, Store!Lifecycle!Spec

\* Although a batch is no statement of JobStore's (it writes several rows at
\* once, and an operation may be written long after it was decided), JobStore's
\* results survive it: one outcome per claim, the retry budget, and a lease to
\* expire on every RUNNING row.
THEOREM StoreResultsHold ==
    Spec => [](Store!ClaimsExclusive /\ Store!BudgetRespected /\ Store!RunningIsLeased)
<1>1. Table!IInv => Store!ClaimsExclusive
  BY DEF Table!IInv, Table!EpochsDiffer, Table!Holds, Table!NoClaim, Store!ClaimsExclusive,
      Store!Fence, Store!Holds, Store!NoClaim
<1>2. Table!IInv => Store!BudgetRespected /\ Store!RunningIsLeased
  BY DEF Table!IInv, Table!BudgetRespected, Table!RunningIsLeased, Table!WaitingStatuses,
      Store!BudgetRespected, Store!RunningIsLeased, Store!WaitingStatuses
<1>3. IInv => Store!ClaimsExclusive /\ Store!BudgetRespected /\ Store!RunningIsLeased
  BY <1>1, <1>2 DEF IInv
<1>. QED BY Inductive, <1>3, PTL

\* A worker whose claim has been superseded records nothing with it, whether
\* the outcome statement is its own or part of a batch flushed much later.
THEOREM ZombiesStayFenced == Spec => Store!FencedForever
<1> USE DEF Store!Fence, Store!Holds, Store!NoClaim
<1>1. ASSUME IInv, Next, NEW r \in Runners, Store!Holds(r), ~Store!Fence(r),
             claim'[r] = claim[r]
      PROVE  ~Store!Fence(r)'
  <2>1. CASE Store!Next
    <3>1. Table!IInv /\ Table!Next
      BY <1>1, <2>1, SameTable DEF IInv
    <3>2. Table!Holds(r) /\ ~Table!Fence(r)
      BY <1>1 DEF Table!Fence, Table!Holds, Table!NoClaim
    <3>3. ~Table!Fence(r)'
      BY <1>1, <3>1, <3>2, Table!StaleStaysStale, RecorderConstantsOK
    <3>. QED BY <3>3 DEF Table!Fence, Table!Holds, Table!NoClaim
  <2>2. CASE row' = row
    BY <1>1, <2>2
  <2>3. CASE WriteBatch(pending)
    <3>. DEFINE j == claim[r].job
    <3>1. j \in Jobs
      BY <1>1 DEF IInv, Table!IInv, Table!EpochBehind, Table!Holds, Table!NoClaim
    <3>2. \/ row'[j] = row[j]
          \/ \E op \in Matched(pending) : row'[j].status = StatusOf[op.kind]
      BY <1>1, <2>3, <3>1, BatchRow DEF WriteBatch
    <3>3. \A op \in Matched(pending) : StatusOf[op.kind] # "RUNNING"
      <4>1. \A op \in Matched(pending) : op.kind \in Kinds
        BY <1>1, PendingOp DEF Matched, Ops
      <4>. QED BY <4>1 DEF Kinds, StatusOf
    <3>. QED BY <1>1, <3>2, <3>3
  <2>4. CASE Single
    BY <1>1, <2>1, <2>2, <2>4, SingleIsStatement
  <2>. QED BY <1>1, <2>2, <2>3, <2>4 DEF Next, Step, LoopStep, Single, FlushOnce, FlushFails,
       Restart
<1>2. IInv /\ [Next]_vars =>
        [\A r \in Runners :
           Store!Holds(r) /\ ~Store!Fence(r) /\ claim'[r] = claim[r] => ~Store!Fence(r)']_Store!vars
  BY <1>1 DEF vars, Store!vars
<1>. QED BY Inductive, <1>2, PTL DEF Spec, Store!FencedForever

==============================================================================
