--------------------------- MODULE StrandedProofs ----------------------------
(***************************************************************************)
(* When no job is stranded.  NoStrandedJob does not hold of Dispatch in    *)
(* general; here are two conditions under which it does, for any number of *)
(* jobs, runners, requests and envelopes.                                  *)
(*                                                                         *)
(* Nothing has gone wrong yet.  The invariant Carried is about every job   *)
(* that waits, not only those with a receipt: an envelope of it is in the  *)
(* delayed set or on a stream, or a runner was given one and is about to   *)
(* claim, or the process that made it wait is about to post one.  A fetch  *)
(* is the only way off the wire, and a claim ends the wait or finds it     *)
(* ended.                                                                  *)
(*                                                                         *)
(* Processes die and statements fail (CrashesOnly), but no Redis command   *)
(* fails and no batch is committed unconfirmed.  Then jobs do drop off     *)
(* the wire, but only while a sweep of the database would find them.  The  *)
(* invariant Backed is about the others, OnlyByDelivery: rows with a       *)
(* receipt, written or on its way, and rows that a leader is about to flip *)
(* to PENDING.  Each has an envelope, and one that nobody is about to ack. *)
(* That nobody is takes two more parts: a runner's entry is its own until  *)
(* it acks (Owned), and a runner that executes a job still owns its row    *)
(* (StillFenced), so that whoever else meets the job finds it RUNNING.     *)
(*                                                                         *)
(* Both rest on Base: DispatchProofs' IInv, that a runner's claim is of    *)
(* the job it was handed, and that a token somebody remembers is not given *)
(* to another envelope.                                                    *)
(***************************************************************************)
EXTENDS DispatchProofs, WellFoundedInduction

\* Some process remembers delivery d.
Remembers(d) ==
    \/ \E r \in Runners : runner[r].d = d
    \/ \E l \in Leaders : d \in leader[l].todo \cup {leader[l].cur}

\* A runner works on the job of the claim it holds.
ClaimsMatch ==
    \A r \in Runners : Store!Holds(r) => claim[r].job = runner[r].d.job

\* An entry that somebody remembers was delivered, and is in the pending
\* entries list with that job until it is gone for good.
TokensHeld ==
    \A d \in Deliveries :
        Remembers(d) /\ d.entry \in Entries =>
            entry[d.entry] \in {Free, [place |-> "pel", job |-> d.job]}

Base == IInv /\ ClaimsMatch /\ TokensHeld

------------------------------------------------------------------------------
(* Redis.                                                                    *)

\* A nonempty set of tokens has a lowest one, so XADD and ZADD find it.
LEMMA MinIsMember ==
    ASSUME NEW S \in SUBSET Nat, S # {}
    PROVE  Min(S) \in S
<1> DEFINE R == {ss \in Nat \X Nat : ss[1] < ss[2]}
<1>1. IsWellFoundedOn(R, Nat)
  BY NatLessThanWellFounded DEF OpToRel
<1>2. \A x, y \in Nat : x < y => <<x, y>> \in R
  OBVIOUS
<1>. HIDE DEF R
<1>3. PICK x \in S : \A y \in S : ~ (<<y, x>> \in R)
  BY <1>1, WFMin
<1>4. ASSUME NEW y \in S PROVE x <= y
  <2>1. ~ (y < x)
    BY <1>2, <1>3
  <2>. QED BY <2>1
<1>. QED BY <1>4 DEF Min

\* A new envelope of job j, on a token that is free and forgotten.
Adds(j, place) ==
    \E e \in Entries :
        /\ entry[e].place = "free"
        /\ entry' = [entry EXCEPT ![e] = [place |-> place, job |-> j]]
        /\ entry'[e] = [place |-> place, job |-> j]
        /\ \A r \in Runners : runner[r].d.entry # e
        /\ \A l \in Leaders : \A d \in leader[l].todo \cup {leader[l].cur} : d.entry # e

\* That is what XADD and ZADD do.
LEMMA EnqueueAdds ==
    ASSUME EntriesOK, NEW j, NEW place, Enqueue(j, place)
    PROVE  Adds(j, place)
<1>1. Fresh \in SUBSET Nat /\ Fresh # {}
  BY DispatchConstantsOK DEF Fresh, Enqueue
<1>2. Min(Fresh) \in Fresh
  BY <1>1, MinIsMember
<1>. QED BY <1>2 DEF Enqueue, Fresh, EntriesOK, Adds

------------------------------------------------------------------------------
(* What a leader's step does to its own state.                               *)

\* The loop of a duty, fieldwise.
LEMMA LoopFields ==
    ASSUME LeadersOK, NEW l \in Leaders
    PROVE  /\ \A at : LeaderGoes(l, at) =>
                  leader'[l] = [at |-> at, todo |-> leader[l].todo, cur |-> leader[l].cur]
           /\ \A d, at : Take(l, d, at) =>
                  leader'[l] = [at |-> at, todo |-> leader[l].todo \ {d}, cur |-> d]
           /\ \A head : Continue(l, head) =>
                  /\ leader'[l].at \in {"idle", head}
                  /\ leader'[l].todo = leader[l].todo
                  /\ leader'[l].cur = NoDelivery
           /\ \A d : Skip(l, d) =>
                  /\ leader'[l].at \in {"idle", leader[l].at}
                  /\ leader'[l].todo = leader[l].todo \ {d}
                  /\ leader'[l].cur \in {NoDelivery, leader[l].cur}
           /\ \A head, batch : StartDuty(l, head, batch) =>
                  leader'[l] = [at |-> head, todo |-> batch, cur |-> NoDelivery]
<1> DEFINE y == leader[l]
<1>1. y \in [at : {"idle"} \cup Heads \cup PerDelivery, todo : SUBSET Deliveries,
             cur : Deliveries]
  BY DEF LeadersOK, LeaderFits
<1>2. ASSUME NEW x, leader' = [leader EXCEPT ![l] = x] PROVE leader'[l] = x
  BY <1>2 DEF LeadersOK
<1>3. ASSUME NEW at, LeaderGoes(l, at)
      PROVE  leader'[l] = [at |-> at, todo |-> y.todo, cur |-> y.cur]
  <2>1. [y EXCEPT !.at = at] = [at |-> at, todo |-> y.todo, cur |-> y.cur]
    BY <1>1
  <2>. QED BY <1>2, <1>3, <2>1 DEF LeaderGoes
<1>4. ASSUME NEW d, NEW at, Take(l, d, at)
      PROVE  leader'[l] = [at |-> at, todo |-> y.todo \ {d}, cur |-> d]
  BY <1>2, <1>4 DEF Take
<1>5. ASSUME NEW head, Continue(l, head)
      PROVE  leader'[l].at \in {"idle", head} /\ leader'[l].todo = y.todo
             /\ leader'[l].cur = NoDelivery
  <2>1. leader'[l] = IF y.todo = {} THEN IdleLeader
                     ELSE [at |-> head, todo |-> y.todo, cur |-> NoDelivery]
    BY <1>2, <1>5 DEF Continue
  <2>. QED BY <2>1 DEF IdleLeader
<1>6. ASSUME NEW d, Skip(l, d)
      PROVE  leader'[l].at \in {"idle", y.at} /\ leader'[l].todo = y.todo \ {d}
             /\ leader'[l].cur \in {NoDelivery, y.cur}
  <2>1. leader'[l] = IF y.todo = {d} THEN IdleLeader
                     ELSE [y EXCEPT !.todo = y.todo \ {d}]
    BY <1>2, <1>6 DEF Skip
  <2>2. [y EXCEPT !.todo = y.todo \ {d}]
          = [at |-> y.at, todo |-> y.todo \ {d}, cur |-> y.cur]
    <3>. ASSUME NEW z PROVE [y EXCEPT !.todo = z] = [at |-> y.at, todo |-> z, cur |-> y.cur]
      BY <1>1
    <3>. QED OBVIOUS
  <2>. QED BY <2>1, <2>2 DEF IdleLeader
<1>7. ASSUME NEW head, NEW batch, StartDuty(l, head, batch)
      PROVE  leader'[l] = [at |-> head, todo |-> batch, cur |-> NoDelivery]
  BY <1>2, <1>7 DEF StartDuty
<1>. QED BY <1>3, <1>4, <1>5, <1>6, <1>7

\* One leader's step is no other's.
LEMMA OneLeaderMoves ==
    ASSUME LeadersOK, NEW l \in Leaders, LeaderNext(l), NEW m \in Leaders, m # l
    PROVE  leader'[m] = leader[m]
<1>1. \E x : leader' = [leader EXCEPT ![l] = x]
  BY DEF LeaderNext, PromoteDue, MarkPromoted, ReapAbandoned, ReapOne, ReapHandoff,
      Classify, Reenqueue, ReapAck, ListExpiredRunning, SweepOne, SweepHandoff,
      ListUnenqueued, ListStuckRetrying, RepairEnqueue, OrphanMark, StuckMark, LeaderCrash,
      LeaderGoes, Take, Continue, Skip, StartDuty
<1>. QED BY <1>1 DEF LeadersOK

\* A leader remembers what it remembered, and entries it has just taken over
\* from the pending entries list; a database sweep lists rows, not entries.
LEMMA LeaderRemembers ==
    ASSUME IInv, NEW l \in Leaders, LeaderNext(l),
           NEW d, d \in leader'[l].todo \cup {leader'[l].cur}
    PROVE  \/ d \in leader[l].todo \cup {leader[l].cur}
           \/ d.entry \notin Entries
           \/ d.entry \in Abandoned /\ entry' = entry /\ d = Delivery(d.entry)
<1>0. LeadersOK
  BY DEF IInv
<1>1. NoDelivery.entry \notin Entries
  BY DispatchConstantsOK DEF NoDelivery
<1>2. ASSUME NEW js, NEW head, StartDuty(l, head, Listed(js))
      PROVE  d.entry \notin Entries
  <2>0. leader'[l] = [at |-> head, todo |-> Listed(js), cur |-> NoDelivery]
    BY <1>0, <1>2, LoopFields
  <2>1. d \in Listed(js) \cup {NoDelivery}
    BY <2>0
  <2>. QED BY <1>1, <2>1, DispatchConstantsOK DEF Listed
<1>3. CASE leader' = [leader EXCEPT ![l] = IdleLeader]
  <2>1. leader'[l] = IdleLeader
    BY <1>0, <1>3 DEF LeadersOK
  <2>. QED BY <1>1, <2>1 DEF IdleLeader
<1>4. CASE PromoteDue(l) \/ ListExpiredRunning(l) \/ ListUnenqueued(l) \/ ListStuckRetrying(l)
  BY <1>2, <1>4 DEF PromoteDue, ListExpiredRunning, ListUnenqueued, ListStuckRetrying
<1>5. CASE ReapAbandoned(l)
  <2>1. PICK idle \in SUBSET Abandoned : StartDuty(l, "reap", {Delivery(e) : e \in idle})
    BY <1>5 DEF ReapAbandoned
  <2> DEFINE batch == {Delivery(e) : e \in idle}
  <2>2. \A x \in batch : x.entry \in Abandoned /\ x = Delivery(x.entry)
    BY DEF Delivery
  <2>3. StartDuty(l, "reap", batch)
    BY <2>1
  <2>. HIDE DEF batch
  <2>4. leader'[l] = [at |-> "reap", todo |-> batch, cur |-> NoDelivery]
    BY <1>0, <2>3, LoopFields
  <2>5. d \in batch \cup {NoDelivery}
    BY <2>4
  <2>. QED BY <1>1, <1>5, <2>2, <2>5 DEF ReapAbandoned
<1>6. ASSUME NEW at, LeaderGoes(l, at)
      PROVE  d \in leader[l].todo \cup {leader[l].cur}
  <2>1. leader'[l] = [at |-> at, todo |-> leader[l].todo, cur |-> leader[l].cur]
    BY <1>0, <1>6, LoopFields
  <2>. QED BY <2>1
<1>7. ASSUME NEW x, NEW at, x \in leader[l].todo, Take(l, x, at)
      PROVE  d \in leader[l].todo \cup {leader[l].cur}
  <2>1. leader'[l] = [at |-> at, todo |-> leader[l].todo \ {x}, cur |-> x]
    BY <1>0, <1>7, LoopFields
  <2>. QED BY <1>7, <2>1
<1>8. ASSUME NEW x, Skip(l, x)
      PROVE  d \in leader[l].todo \cup {leader[l].cur, NoDelivery}
  <2>1. /\ leader'[l].todo = leader[l].todo \ {x}
        /\ leader'[l].cur \in {NoDelivery, leader[l].cur}
    BY <1>0, <1>8, LoopFields
  <2>. QED BY <2>1
<1>9. ASSUME NEW head, Continue(l, head)
      PROVE  d \in leader[l].todo \cup {leader[l].cur, NoDelivery}
  <2>1. leader'[l].todo = leader[l].todo /\ leader'[l].cur = NoDelivery
    BY <1>0, <1>9, LoopFields
  <2>. QED BY <2>1
<1>10. CASE ReapHandoff(l) \/ Classify(l) \/ Reenqueue(l) \/ ReapAck(l) \/ SweepHandoff(l)
            \/ OrphanMark(l) \/ StuckMark(l)
  <2>1. (\E at : LeaderGoes(l, at)) \/ (\E head : Continue(l, head))
    BY <1>10 DEF ReapHandoff, Classify, Reenqueue, ReapAck, SweepHandoff, OrphanMark, StuckMark
  <2>. QED BY <1>1, <1>6, <1>9, <2>1
<1>11. CASE ReapOne(l) \/ SweepOne(l) \/ RepairEnqueue(l)
  <2>1. \E x \in leader[l].todo : (\E at : Take(l, x, at)) \/ Skip(l, x)
    BY <1>11 DEF ReapOne, SweepOne, RepairEnqueue
  <2>. QED BY <1>1, <1>7, <1>8, <2>1
<1>. QED BY <1>3, <1>4, <1>5, <1>10, <1>11 DEF LeaderNext, MarkPromoted, LeaderCrash

------------------------------------------------------------------------------
(* What a runner's step does to its own state.                               *)

\* A runner keeps its delivery until it forgets it or fetches another.
LEMMA RunnerFields ==
    ASSUME RunnersOK, NEW r \in Runners
    PROVE  /\ \A at : RunnerGoes(r, at) => runner'[r].at = at /\ runner'[r].d = runner[r].d
           /\ RunnerLeaves(r) => runner'[r] = IdleRunner
           /\ RunnerNext(r) => \/ runner'[r].d = runner[r].d
                               \/ RunnerLeaves(r)
                               \/ \E e \in Entries : Fetch(r, e)
<1>1. ASSUME NEW at, RunnerGoes(r, at) PROVE runner'[r].at = at /\ runner'[r].d = runner[r].d
  BY <1>1 DEF RunnerGoes, RunnersOK
<1>2. ASSUME RunnerLeaves(r) PROVE runner'[r] = IdleRunner
  BY <1>2 DEF RunnerLeaves, RunnersOK
<1>3. ASSUME ExtendLease(r) \/ SeeCancelFlag(r) PROVE runner'[r].d = runner[r].d
  BY <1>3 DEF ExtendLease, SeeCancelFlag, RunnersOK
<1>4. ASSUME Claim(r) \/ Finish(r) \/ Handoff(r) \/ Ack(r) \/ RunnerCrash(r)
      PROVE  (\E at : RunnerGoes(r, at)) \/ RunnerLeaves(r)
  BY <1>4 DEF Claim, Finish, Handoff, Ack, RunnerCrash
<1>. QED BY <1>1, <1>2, <1>3, <1>4 DEF RunnerNext

\* Fetch: from the stream to the pending entries list, and to the runner.
LEMMA FetchFields ==
    ASSUME IInv, NEW r \in Runners, NEW e \in Entries, Fetch(r, e)
    PROVE  /\ entry'[e] = [place |-> "pel", job |-> entry[e].job]
           /\ \A x \in Entries : x # e => entry'[x] = entry[x]
           /\ runner'[r] = [at |-> "claim", d |-> Delivery(e), cause |-> "none"]
<1>1. [entry[e] EXCEPT !.place = "pel"] = [place |-> "pel", job |-> entry[e].job]
  BY DEF IInv, EntriesOK
<1>. QED BY <1>1 DEF IInv, EntriesOK, RunnersOK, Fetch

\* promote: from the delayed set to the streams.
LEMMA PromoteFields ==
    ASSUME IInv, NEW l \in Leaders, PromoteDue(l)
    PROVE  \E due \in SUBSET At("delayed") :
              /\ StartDuty(l, "promoted", Listed({entry[e].job : e \in due}))
              /\ \A x \in Entries :
                    entry'[x] = IF x \in due THEN [place |-> "ready", job |-> entry[x].job]
                                             ELSE entry[x]
<1>1. PICK due \in SUBSET At("delayed") :
        /\ StartDuty(l, "promoted", Listed({entry[e].job : e \in due}))
        /\ entry' = [e \in Entries |-> IF e \in due THEN [entry[e] EXCEPT !.place = "ready"]
                                       ELSE entry[e]]
  BY DEF PromoteDue
<1>2. ASSUME NEW x \in Entries
      PROVE  [entry[x] EXCEPT !.place = "ready"] = [place |-> "ready", job |-> entry[x].job]
  BY DEF IInv, EntriesOK
<1>. QED BY <1>1, <1>2

------------------------------------------------------------------------------
(* What is remembered, and for whom.                                         *)

\* The ways a step touches Redis.
EntriesStep ==
    \/ entry' = entry
    \/ \E j \in Jobs, place \in {"delayed", "ready"} : Adds(j, place)
    \/ \E r \in Runners : runner[r].at = "ack" /\ Ack(r) /\ Remove(runner[r].d.entry)
    \/ \E l \in Leaders : leader[l].at = "ack" /\ ReapAck(l) /\ Remove(leader[l].cur.entry)
    \/ \E r \in Runners, e \in Entries : Fetch(r, e)
    \/ \E l \in Leaders : PromoteDue(l)

\* There are no others.
LEMMA NextOnEntries ==
    ASSUME IInv, Next
    PROVE  EntriesStep
<1>0. EntriesOK
  BY DEF IInv
<1>1. ASSUME NEW r \in Runners, RunnerNext(r) PROVE EntriesStep
  <2>1. runner[r].at = "handoff" => runner[r].d.job \in Jobs
    BY DEF IInv, RunnersOK, Existing
  <2>. QED BY <1>0, <1>1, <2>1, EnqueueAdds DEF RunnerNext, EntriesStep, Claim, ExtendLease,
        SeeCancelFlag, Finish, Handoff, Ack, RunnerCrash, ScheduleRetry
<1>2. ASSUME NEW l \in Leaders, LeaderNext(l) PROVE EntriesStep
  <2>1. leader[l].at \in PerDelivery => leader[l].cur.job \in Jobs
    BY DEF IInv, LeadersOK, LeaderFits, Existing
  <2>2. \A d \in leader[l].todo : d.job \in Jobs
    BY DEF IInv, LeadersOK, LeaderFits, Existing
  <2>3. CASE ReapHandoff(l) \/ SweepHandoff(l) \/ Reenqueue(l)
    BY <1>0, <2>1, <2>3, EnqueueAdds DEF EntriesStep, ReapHandoff, SweepHandoff, Reenqueue,
        ScheduleRetry, PerDelivery
  <2>4. CASE RepairEnqueue(l)
    BY <1>0, <2>2, <2>4, EnqueueAdds DEF EntriesStep, RepairEnqueue
  <2>5. CASE PromoteDue(l) \/ ReapAck(l)
    BY <2>5 DEF EntriesStep, ReapAck
  <2>6. CASE \/ MarkPromoted(l) \/ ReapAbandoned(l) \/ ReapOne(l) \/ Classify(l)
             \/ ListExpiredRunning(l) \/ SweepOne(l) \/ ListUnenqueued(l)
             \/ ListStuckRetrying(l) \/ OrphanMark(l) \/ StuckMark(l) \/ LeaderCrash(l)
    BY <2>6 DEF EntriesStep, MarkPromoted, ReapAbandoned, ReapOne, Classify,
        ListExpiredRunning, SweepOne, ListUnenqueued, ListStuckRetrying, OrphanMark,
        StuckMark, LeaderCrash
  <2>. QED BY <1>2, <2>3, <2>4, <2>5, <2>6 DEF LeaderNext
<1>3. ASSUME NEW c \in Calls, CallNext(c) PROVE EntriesStep
  <2>1. call[c].at # "idle" => call[c].job \in Jobs
    BY DEF IInv, CallsOK, Existing
  <2>. QED BY <1>0, <1>3, <2>1, EnqueueAdds DEF CallNext, EntriesStep, Submit, Requeue,
        CallEnqueue, CallEnqueueFails, CallReceipt, CancelLoad, CancelWaiting, RaiseFlag,
        CallCrash
<1>. QED BY <1>1, <1>2, <1>3, NextByProcess DEF EntriesStep, LeaseExpires

\* A remembered entry stays as it is until it is acked.
LEMMA TokenKept ==
    ASSUME Base, Next, NEW d \in Deliveries, Remembers(d), d.entry \in Entries
    PROVE  entry'[d.entry] \in {entry[d.entry], Free}
<1>0. entry = [e \in Entries |-> entry[e]]
      /\ entry[d.entry] \in {Free, [place |-> "pel", job |-> d.job]}
  BY DEF Base, IInv, EntriesOK, TokensHeld
<1>1. EntriesStep
  BY NextOnEntries DEF Base
<1>2. CASE \E j \in Jobs, place \in {"delayed", "ready"} : Adds(j, place)
  BY <1>0, <1>2 DEF Adds, Remembers
<1>3. CASE \E e : Remove(e)
  BY <1>0, <1>3 DEF Remove
<1>4. CASE \E r \in Runners, e \in Entries : Fetch(r, e)
  <2>1. PICK r \in Runners, e \in Entries : Fetch(r, e)
    BY <1>4
  <2>2. e # d.entry
    BY <1>0, <2>1 DEF Fetch, Free
  <2>. QED BY <2>1, <2>2, FetchFields DEF Base
<1>5. CASE \E l \in Leaders : PromoteDue(l)
  <2>1. PICK due \in SUBSET At("delayed") : \A x \in Entries :
            entry'[x] = IF x \in due THEN [place |-> "ready", job |-> entry[x].job]
                                     ELSE entry[x]
    BY <1>5, PromoteFields DEF Base
  <2>2. entry[d.entry].place # "delayed"
    BY <1>0 DEF Free
  <2>3. d.entry \notin due
    BY <2>2 DEF At
  <2>. QED BY <2>1, <2>3
<1>. QED BY <1>1, <1>2, <1>3, <1>4, <1>5 DEF EntriesStep

\* What a process newly remembers has just been delivered to it.
LEMMA NewlyRemembered ==
    ASSUME Base, Next, NEW d, Remembers(d)', d.entry \in Entries
    PROVE  \/ Remembers(d)
           \/ entry'[d.entry] = [place |-> "pel", job |-> d.job]
<1>0. IInv /\ LeadersOK /\ RunnersOK
  BY DEF Base, IInv
<1>1. NoDelivery.entry \notin Entries
  BY DispatchConstantsOK DEF NoDelivery
<1>2. ASSUME runner' = runner, leader' = leader PROVE Remembers(d)
  BY <1>2 DEF Remembers
<1>3. CASE \E r \in Runners : RunnerNext(r)
  <2>1. PICK r \in Runners : RunnerNext(r)
    BY <1>3
  <2>2. leader' = leader /\ \A s \in Runners : s # r => runner'[s] = runner[s]
    BY <1>0, <2>1, OthersApart, OneRunnerMoves
  <2>3. CASE runner'[r].d = runner[r].d
    BY <2>2, <2>3 DEF Remembers
  <2>4. CASE RunnerLeaves(r)
    <3>1. runner'[r] = IdleRunner
      BY <1>0, <2>4, RunnerFields
    <3>2. runner'[r].d # d
      BY <1>1, <3>1 DEF IdleRunner
    <3>. QED BY <2>2, <3>2 DEF Remembers
  <2>5. CASE \E e \in Entries : Fetch(r, e)
    <3>1. PICK e \in Entries : Fetch(r, e)
      BY <2>5
    <3>0. /\ entry'[e] = [place |-> "pel", job |-> entry[e].job]
          /\ runner'[r] = [at |-> "claim", d |-> Delivery(e), cause |-> "none"]
      BY <1>0, <3>1, FetchFields
    <3>2. entry'[e] = [place |-> "pel", job |-> entry[e].job] /\ runner'[r].d = Delivery(e)
      BY <3>0
    <3>3. CASE d = Delivery(e)
      BY <3>2, <3>3 DEF Delivery
    <3>4. CASE d # Delivery(e)
      BY <2>2, <3>2, <3>4 DEF Remembers
    <3>. QED BY <3>3, <3>4
  <2>. QED BY <1>0, <2>1, <2>3, <2>4, <2>5, RunnerFields
<1>4. CASE \E l \in Leaders : LeaderNext(l)
  <2>1. PICK l \in Leaders : LeaderNext(l)
    BY <1>4
  <2>2. runner' = runner /\ \A m \in Leaders : m # l => leader'[m] = leader[m]
    BY <1>0, <2>1, OthersApart, OneLeaderMoves
  <2>3. CASE d \in leader'[l].todo \cup {leader'[l].cur}
    <3>1. CASE d.entry \in Abandoned /\ entry' = entry /\ d = Delivery(d.entry)
      <4>1. entry[d.entry].place = "pel" /\ entry[d.entry].job = d.job
        BY <3>1 DEF Abandoned, At, Delivery
      <4>2. entry[d.entry] = [place |-> "pel", job |-> d.job]
        BY <4>1 DEF Base, IInv, EntriesOK
      <4>. QED BY <3>1, <4>2
    <3>. QED BY <1>0, <2>1, <2>3, <3>1, LeaderRemembers DEF Remembers
  <2>. QED BY <2>2, <2>3 DEF Remembers
<1>5. CASE \E c \in Calls : CallNext(c)
  BY <1>2, <1>5, OthersApart
<1>. QED BY <1>2, <1>3, <1>4, <1>5, NextByProcess DEF LeaseExpires

\* A claim is for the job of the delivery that led to it.
LEMMA ClaimsMatchStep ==
    ASSUME Base, Next
    PROVE  ClaimsMatch'
<1>0. IInv /\ RunnersOK /\ claim \in [Runners -> Table!Claims]
  BY DEF Base, IInv, Table!IInv, Table!TypeOK
<1>1. ASSUME NEW r \in Runners, runner'[r].d = runner[r].d, claim'[r] = claim[r], Store!Holds(r)'
      PROVE  claim'[r].job = runner'[r].d.job
  BY <1>1 DEF Base, ClaimsMatch, Store!Holds, Store!NoClaim
<1>2. CASE \E r \in Runners : RunnerNext(r)
  <2>1. PICK r \in Runners : RunnerNext(r)
    BY <1>2
  <2>2. ASSUME Store!Holds(r)' PROVE claim'[r].job = runner'[r].d.job
    <3>1. CASE RunnerLeaves(r)
      BY <1>0, <2>2, <3>1 DEF RunnerLeaves, Store!Holds
    <3>2. CASE \E e \in Entries : Fetch(r, e)
      BY <2>2, <3>2 DEF Fetch, storeVars, Base, IInv, HandsOff, Store!Holds, Store!NoClaim
    <3>3. CASE claim'[r] # claim[r] /\ ~RunnerLeaves(r)
      <4>1. Store!ClaimJob(r, runner[r].d.job) /\ RunnerGoes(r, "run")
        BY <2>1, <3>3 DEF RunnerNext, Fetch, Claim, ExtendLease, SeeCancelFlag, Finish,
            Handoff, Ack, RunnerCrash, storeVars, Outcome, Store!ExtendLease,
            Store!CompleteJob, Store!FailJob, Store!CancelRunning, Store!DeadLetterJob,
            Store!ScheduleRetry, Store!FencedWrite
      <4>2. runner'[r].d = runner[r].d
        BY <1>0, <4>1, RunnerFields
      <4>. QED BY <1>0, <4>1, <4>2 DEF Store!ClaimJob
    <3>4. CASE claim'[r] = claim[r] /\ runner'[r].d = runner[r].d
      BY <1>1, <2>2, <3>4
    <3>. QED BY <1>0, <2>1, <3>1, <3>2, <3>3, <3>4, RunnerFields
  <2>3. ASSUME NEW s \in Runners, s # r, Store!Holds(s)' PROVE claim'[s].job = runner'[s].d.job
    BY <1>0, <1>1, <2>1, <2>3, OneRunnerMoves
  <2>. QED BY <2>2, <2>3 DEF ClaimsMatch
<1>3. CASE UNCHANGED <<runner, claim>>
  BY <1>1, <1>3 DEF ClaimsMatch
<1>. QED BY <1>0, <1>2, <1>3, NextByProcess, OthersApart, LeaderIsStatement, CallIsStatement
     DEF LeaseExpires, Store!LeaseExpires

\* The part of the invariants that needs no assumption about what fails.
LEMMA BaseStep == Base /\ [Next]_vars => Base'
<1> SUFFICES ASSUME Base, [Next]_vars PROVE Base'
  OBVIOUS
<1>1. IInv'
  BY StepIInv DEF Base
<1>2. CASE UNCHANGED vars
  <2>1. ClaimsMatch'
    BY <1>2 DEF vars, Base, ClaimsMatch, Store!Holds, Store!NoClaim
  <2>2. TokensHeld'
    BY <1>2 DEF vars, Base, TokensHeld, Remembers
  <2>. QED BY <1>1, <2>1, <2>2 DEF Base
<1>3. CASE Next
  <2>1. ASSUME NEW d \in Deliveries, Remembers(d)', d.entry \in Entries
        PROVE  entry'[d.entry] \in {Free, [place |-> "pel", job |-> d.job]}
    <3>1. CASE Remembers(d)
      <4>1. entry[d.entry] \in {Free, [place |-> "pel", job |-> d.job]}
        BY <2>1, <3>1 DEF Base, TokensHeld
      <4>. QED BY <1>3, <2>1, <3>1, <4>1, TokenKept
    <3>. QED BY <1>3, <2>1, <3>1, NewlyRemembered
  <2>2. TokensHeld'
    BY <2>1 DEF TokensHeld
  <2>. QED BY <1>1, <1>3, <2>2, ClaimsMatchStep DEF Base
<1>. QED BY <1>2, <1>3

\* It holds of the empty system.
LEMMA InitBase == Init => Base
<1> SUFFICES ASSUME Init PROVE Base
  OBVIOUS
<1>1. IInv
  BY InitIInv
<1>2. ClaimsMatch
  BY DEF Init, ClaimsMatch, Store!Init, Store!Holds, Store!NoClaim
<1>3. TokensHeld
  BY DEF Init, TokensHeld
<1>. QED BY <1>1, <1>2, <1>3 DEF Base

------------------------------------------------------------------------------
(* Without a fault.                                                          *)

\* An envelope of j waits on a stream or in the delayed set.
Posted(j) == \E e \in Entries : entry[e].place \in {"delayed", "ready"} /\ entry[e].job = j

\* A runner is about to claim j or to post its next attempt.
RunnerHas(j) ==
    \E r \in Runners : runner[r].at \in {"claim", "handoff"} /\ runner[r].d.job = j

\* A request is about to post j for the first time.
CallHas(j) ==
    \E c \in Calls : call[c].at \in {"submitted", "requeued"} /\ call[c].job = j

\* A leader is about to post j again, having reaped it.
LeaderHas(j) ==
    \E l \in Leaders : leader[l].at \in {"handoff", "sweepHandoff"} /\ leader[l].cur.job = j

OnItsWay(j) == Posted(j) \/ RunnerHas(j) \/ CallHas(j) \/ LeaderHas(j)

\* Every job that waits for an attempt is on its way to a runner.
Carried == \A j \in Jobs : row[j].status \in Store!WaitingStatuses => OnItsWay(j)

\* Envelopes that nobody has been given are taken by a fetch and by nothing else.
LEMMA PostedStep ==
    ASSUME Base, Next, NEW j \in Jobs, Posted(j)
    PROVE  Posted(j)' \/ RunnerHas(j)'
<1>0. IInv /\ EntriesOK
  BY DEF Base, IInv
<1>1. PICK e \in Entries : entry[e].place \in {"delayed", "ready"} /\ entry[e].job = j
  BY DEF Posted
<1>2. ASSUME entry'[e] = entry[e] PROVE Posted(j)'
  BY <1>1, <1>2 DEF Posted
<1>3. EntriesStep
  BY <1>0, NextOnEntries
<1>4. CASE \E k \in Jobs, place \in {"delayed", "ready"} : Adds(k, place)
  BY <1>0, <1>1, <1>2, <1>4 DEF Adds, EntriesOK
<1>5. ASSUME NEW d \in Deliveries, Remembers(d), Remove(d.entry) PROVE Posted(j)'
  <2>0. d.entry \in Entries => entry[d.entry] \in {Free, [place |-> "pel", job |-> d.job]}
    BY <1>5 DEF Base, TokensHeld
  <2>1. d.entry # e
    BY <1>1, <2>0 DEF Free
  <2>. QED BY <1>0, <1>2, <1>5, <2>1 DEF Remove, EntriesOK
<1>6. CASE \E r \in Runners : Remove(runner[r].d.entry)
  BY <1>0, <1>5, <1>6 DEF Remembers, IInv, RunnersOK
<1>7. CASE \E l \in Leaders : Remove(leader[l].cur.entry)
  BY <1>0, <1>5, <1>7 DEF Remembers, IInv, LeadersOK, LeaderFits
<1>8. CASE \E r \in Runners, x \in Entries : Fetch(r, x)
  <2>1. PICK r \in Runners, x \in Entries : Fetch(r, x)
    BY <1>8
  <2>2. /\ \A y \in Entries : y # x => entry'[y] = entry[y]
        /\ runner'[r] = [at |-> "claim", d |-> Delivery(x), cause |-> "none"]
    BY <1>0, <2>1, FetchFields
  <2>3. CASE x # e
    BY <1>2, <2>2, <2>3
  <2>4. CASE x = e
    BY <1>1, <2>2, <2>4 DEF RunnerHas, Delivery
  <2>. QED BY <2>3, <2>4
<1>9. CASE \E l \in Leaders : PromoteDue(l)
  <2>1. \E due \in SUBSET At("delayed") : \A x \in Entries :
            entry'[x] = IF x \in due THEN [place |-> "ready", job |-> entry[x].job]
                                     ELSE entry[x]
    BY <1>0, <1>9, PromoteFields
  <2>2. entry'[e] \in {entry[e], [place |-> "ready", job |-> entry[e].job]}
    BY <2>1
  <2>. QED BY <1>1, <1>2, <2>2 DEF Posted
<1>. QED BY <1>3, <1>4, <1>6, <1>7, <1>8, <1>9 DEF EntriesStep, Posted

\* What XADD and ZADD achieve.
LEMMA AddsPosts ==
    ASSUME NEW j, NEW place \in {"delayed", "ready"}, Adds(j, place)
    PROVE  Posted(j)'
BY DEF Adds, Posted

\* A runner that does not fail leaves its job claimed or finished, or posts it.
LEMMA RunnerCarries ==
    ASSUME Base, Carried, NEW r \in Runners, RunnerNext(r), faults' = 0
    PROVE  Carried'
<1>0. IInv /\ EntriesOK /\ RunnersOK /\ Table!TypeOK
  BY DEF Base, IInv, Table!IInv
<1>1. Next /\ UNCHANGED <<leader, call>>
  BY NextByProcess, OthersApart
<1>2. ~ \E kind : Fault(kind)
  BY DEF Base, IInv, Fault
<1>3. SUFFICES ASSUME NEW j \in Jobs, row'[j].status \in Store!WaitingStatuses
               PROVE  OnItsWay(j)'
  BY DEF Carried
<1>4. ASSUME OnItsWay(j),
             runner[r].at \in {"claim", "handoff"} /\ runner[r].d.job = j =>
                 \/ Posted(j)'
                 \/ runner'[r].at \in {"claim", "handoff"} /\ runner'[r].d.job = j
      PROVE  OnItsWay(j)'
  <2>1. \A s \in Runners : s # r => runner'[s] = runner[s]
    BY <1>0, OneRunnerMoves
  <2>2. RunnerHas(j) => Posted(j)' \/ RunnerHas(j)'
    BY <1>4, <2>1 DEF RunnerHas
  <2>3. (CallHas(j) => CallHas(j)') /\ (LeaderHas(j) => LeaderHas(j)')
    BY <1>1 DEF CallHas, LeaderHas
  <2>. QED BY <1>1, <1>4, <2>2, <2>3, PostedStep DEF OnItsWay
<1>5. ASSUME row'[j].status = row[j].status PROVE OnItsWay(j)
  BY <1>3, <1>5 DEF Carried
<1>6. CASE (\E e \in Entries : Fetch(r, e)) \/ ExtendLease(r) \/ SeeCancelFlag(r)
  <2>1. runner[r].at \notin {"claim", "handoff"}
    BY <1>6 DEF Fetch, ExtendLease, SeeCancelFlag
  <2>2. row'[j].status = row[j].status
    BY <1>0, <1>6 DEF Fetch, ExtendLease, SeeCancelFlag, storeVars, Store!ExtendLease,
        Table!TypeOK, Table!Rows
  <2>. QED BY <1>4, <1>5, <2>1, <2>2
<1>7. CASE Claim(r)
  <2>1. CASE Store!ClaimJob(r, runner[r].d.job)
    <3>1. runner[r].d.job \in Jobs
      BY <1>0, <1>7 DEF Claim, RunnersOK, Existing
    <3>2. row'[runner[r].d.job].status = "RUNNING"
      BY <1>0, <2>1, <3>1 DEF Store!ClaimJob, Table!TypeOK, Table!Rows
    <3>3. j # runner[r].d.job
      BY <1>3, <3>2 DEF Store!WaitingStatuses
    <3>4. row'[j] = row[j]
      BY <1>0, <2>1, <3>3 DEF Store!ClaimJob, Table!TypeOK
    <3>. QED BY <1>4, <1>5, <3>3, <3>4
  <2>2. CASE ~Store!Claimable(runner[r].d.job) /\ UNCHANGED storeVars
    <3>1. j # runner[r].d.job
      BY <1>3, <2>2 DEF Store!Claimable, storeVars
    <3>. QED BY <1>4, <1>5, <2>2, <3>1 DEF storeVars
  <2>. QED BY <1>2, <1>7, <2>1, <2>2 DEF Claim
<1>8. CASE Finish(r)
  <2>1. runner[r].at = "run"
    BY <1>8 DEF Finish
  <2>2. CASE UNCHANGED row
    BY <1>4, <1>5, <2>1, <2>2
  <2>3. CASE Outcome(r) /\ RunnerGoes(r, IF row'[claim[r].job].status = "RETRYING"
                                         THEN "handoff" ELSE "ack")
    <3>1. PICK to \in {"COMPLETED", "FAILED", "CANCELLED", "DEAD_LETTER", "RETRYING"} :
            Store!FencedWrite(r, to)
      BY <2>3 DEF Outcome, Store!CompleteJob, Store!CancelRunning, Store!FailJob,
          Store!DeadLetterJob, Store!ScheduleRetry
    <3>2. claim[r].job = runner[r].d.job
      BY <3>1 DEF Base, ClaimsMatch, Store!FencedWrite, Store!Fence
    <3>3. CASE j # runner[r].d.job
      <4>1. row'[j] = row[j]
        BY <1>0, <3>1, <3>2, <3>3 DEF Store!FencedWrite, Table!TypeOK
      <4>. QED BY <1>4, <1>5, <3>3, <4>1
    <3>4. CASE j = runner[r].d.job
      <4>1. row'[j].status = to
        BY <1>0, <3>1, <3>2, <3>4 DEF Store!FencedWrite, Table!TypeOK, Table!Rows
      <4>2. RunnerGoes(r, "handoff")
        BY <1>3, <2>3, <3>2, <3>4, <4>1 DEF Store!WaitingStatuses
      <4>3. runner'[r].at = "handoff" /\ runner'[r].d = runner[r].d
        BY <1>0, <4>2, RunnerFields
      <4>. QED BY <3>4, <4>3 DEF OnItsWay, RunnerHas
    <3>. QED BY <3>3, <3>4
  <2>. QED BY <1>2, <1>8, <2>2, <2>3 DEF Finish, RunnerLeaves, storeVars
<1>9. CASE Handoff(r)
  <2>1. row' = row
    BY <1>9 DEF Handoff, storeVars
  <2>2. ASSUME runner[r].d.job = j PROVE Posted(j)'
    <3>1. Enqueue(j, "delayed")
      BY <1>2, <1>9, <2>2 DEF Handoff, ScheduleRetry
    <3>. QED BY <1>0, <3>1, EnqueueAdds, AddsPosts
  <2>. QED BY <1>4, <1>5, <2>1, <2>2
<1>10. CASE Ack(r) \/ RunnerCrash(r)
  <2>1. runner[r].at = "ack" /\ row' = row
    BY <1>2, <1>10 DEF Ack, RunnerCrash, RunnerLeaves
  <2>. QED BY <1>4, <1>5, <2>1
<1>. QED BY <1>6, <1>7, <1>8, <1>9, <1>10 DEF RunnerNext

\* The UPDATE of a promotion makes no job wait that did not.
LEMMA MarkedWereWaiting ==
    ASSUME NEW js, Store!MarkPromoted(js), NEW j \in Jobs,
           row'[j].status \in Store!WaitingStatuses
    PROVE  row[j].status \in Store!WaitingStatuses
BY DEF Store!MarkPromoted, Store!WaitingStatuses

\* ReapJob touches one row.
LEMMA ReapRow ==
    ASSUME Table!TypeOK, NEW j \in Jobs, Store!ReapJob(j)
    PROVE  /\ row'[j].status = IF Store!Exhausted(j) THEN "DEAD_LETTER" ELSE "RETRYING"
           /\ row[j].status = "RUNNING" /\ row[j].lease = "expired"
           /\ \A k \in Jobs : k # j => row'[k] = row[k]
BY DEF Store!ReapJob, Store!Reapable, Table!TypeOK, Table!Rows

\* A leader that does not fail posts what it has reaped.
LEMMA LeaderCarries ==
    ASSUME Base, Carried, NEW l \in Leaders, LeaderNext(l), faults' = 0
    PROVE  Carried'
<1>0. IInv /\ EntriesOK /\ LeadersOK /\ Table!TypeOK
  BY DEF Base, IInv, Table!IInv
<1>1. Next /\ UNCHANGED <<runner, call>>
  BY NextByProcess, OthersApart
<1>2. ~ \E kind : Fault(kind)
  BY DEF Base, IInv, Fault
<1>3. SUFFICES ASSUME NEW j \in Jobs, row'[j].status \in Store!WaitingStatuses
               PROVE  OnItsWay(j)'
  BY DEF Carried
<1>4. ASSUME row[j].status \in Store!WaitingStatuses,
             leader[l].at \in {"handoff", "sweepHandoff"} /\ leader[l].cur.job = j => Posted(j)'
      PROVE  OnItsWay(j)'
  <2>1. \A m \in Leaders : m # l => leader'[m] = leader[m]
    BY <1>0, OneLeaderMoves
  <2>2. LeaderHas(j) => Posted(j)' \/ LeaderHas(j)'
    BY <1>4, <2>1 DEF LeaderHas
  <2>3. (CallHas(j) => CallHas(j)') /\ (RunnerHas(j) => RunnerHas(j)')
    BY <1>1 DEF CallHas, RunnerHas
  <2>. QED BY <1>1, <1>4, <2>2, <2>3, PostedStep DEF OnItsWay, Carried
<1>5. CASE \/ PromoteDue(l) \/ ReapAbandoned(l) \/ Classify(l) \/ Reenqueue(l) \/ ReapAck(l)
           \/ ListExpiredRunning(l) \/ ListUnenqueued(l) \/ ListStuckRetrying(l)
           \/ RepairEnqueue(l)
  <2>1. row' = row /\ leader[l].at \notin {"handoff", "sweepHandoff"}
    BY <1>5 DEF PromoteDue, ReapAbandoned, Classify, Reenqueue, ReapAck, ListExpiredRunning,
        ListUnenqueued, ListStuckRetrying, RepairEnqueue, StartDuty, storeVars
  <2>. QED BY <1>3, <1>4, <2>1
<1>6. CASE MarkPromoted(l) \/ StuckMark(l)
  <2>1. /\ \E js : Store!MarkPromoted(js)
        /\ leader[l].at \notin {"handoff", "sweepHandoff"}
    BY <1>2, <1>6 DEF MarkPromoted, StuckMark
  <2>. QED BY <1>3, <1>4, <2>1, MarkedWereWaiting
<1>7. CASE OrphanMark(l)
  <2>1. row'[j].status = row[j].status
    BY <1>0, <1>2, <1>7 DEF OrphanMark, Store!SetEnqueued, Table!TypeOK, Table!Rows
  <2>. QED BY <1>3, <1>4, <1>7, <2>1 DEF OrphanMark
<1>8. CASE ReapHandoff(l) \/ SweepHandoff(l)
  <2>1. row' = row
    BY <1>8 DEF ReapHandoff, SweepHandoff, storeVars
  <2>2. ASSUME leader[l].cur.job = j PROVE Posted(j)'
    <3>1. Enqueue(j, "delayed")
      BY <1>2, <1>8, <2>2 DEF ReapHandoff, SweepHandoff, ScheduleRetry
    <3>. QED BY <1>0, <3>1, EnqueueAdds, AddsPosts
  <2>. QED BY <1>3, <1>4, <2>1, <2>2
<1>9. CASE ReapOne(l) \/ SweepOne(l)
  <2>0. leader[l].at \notin {"handoff", "sweepHandoff"}
    BY <1>9 DEF ReapOne, SweepOne
  <2>1. CASE UNCHANGED storeVars
    BY <1>3, <1>4, <2>0, <2>1 DEF storeVars
  <2>2. ASSUME NEW d \in leader[l].todo, NEW at \in {"handoff", "sweepHandoff"},
               Store!ReapJob(d.job),
               ~Store!Exhausted(d.job) => Take(l, d, at)
        PROVE  OnItsWay(j)'
    <3>1. d.job \in Jobs
      BY <1>0 DEF LeadersOK, LeaderFits, Existing
    <3>2. CASE j # d.job
      BY <1>0, <1>3, <1>4, <2>0, <2>2, <3>1, <3>2, ReapRow
    <3>3. CASE j = d.job
      <4>1. Take(l, d, at)
        BY <1>0, <1>3, <2>2, <3>1, <3>3, ReapRow DEF Store!WaitingStatuses
      <4>2. leader'[l] = [at |-> at, todo |-> leader[l].todo \ {d}, cur |-> d]
        BY <1>0, <4>1, LoopFields
      <4>3. leader'[l].at = at /\ leader'[l].cur = d
        BY <4>2
      <4>. QED BY <3>3, <4>3 DEF OnItsWay, LeaderHas
    <3>. QED BY <3>2, <3>3
  <2>. QED BY <1>2, <1>9, <2>1, <2>2 DEF ReapOne, SweepOne
<1>10. CASE LeaderCrash(l)
  BY <1>2, <1>10 DEF LeaderCrash
<1>. QED BY <1>5, <1>6, <1>7, <1>8, <1>9, <1>10 DEF LeaderNext

\* A request that does not fail posts what it has inserted.
LEMMA CallCarries ==
    ASSUME Base, Carried, NEW c \in Calls, CallNext(c), faults' = 0
    PROVE  Carried'
<1>0. IInv /\ EntriesOK /\ CallsOK /\ Table!TypeOK
  BY DEF Base, IInv, Table!IInv
<1>1. Next /\ UNCHANGED <<runner, leader>>
  BY NextByProcess, OthersApart
<1>2. ~ \E kind : Fault(kind)
  BY DEF Base, IInv, Fault
<1>3. SUFFICES ASSUME NEW j \in Jobs, row'[j].status \in Store!WaitingStatuses
               PROVE  OnItsWay(j)'
  BY DEF Carried
<1>4. ASSUME row[j].status \in Store!WaitingStatuses,
             call[c].at \in {"submitted", "requeued"} /\ call[c].job = j => Posted(j)'
      PROVE  OnItsWay(j)'
  <2>1. \A b \in Calls : b # c => call'[b] = call[b]
    BY <1>0 DEF CallNext, Submit, Requeue, CallEnqueue, CallEnqueueFails, CallReceipt,
        CancelLoad, CancelWaiting, RaiseFlag, CallCrash, CallGoes, CallEnds, CallsOK
  <2>2. CallHas(j) => Posted(j)' \/ CallHas(j)'
    BY <1>4, <2>1 DEF CallHas
  <2>3. (LeaderHas(j) => LeaderHas(j)') /\ (RunnerHas(j) => RunnerHas(j)')
    BY <1>1 DEF LeaderHas, RunnerHas
  <2>. QED BY <1>1, <1>4, <2>2, <2>3, PostedStep DEF OnItsWay, Carried
<1>5. ASSUME NEW at \in {"submitted", "requeued"}, CallGoes(c, at, j) PROVE OnItsWay(j)'
  BY <1>0, <1>5 DEF CallGoes, CallsOK, OnItsWay, CallHas
<1>6. CASE Submit(c)
  <2>1. PICK k \in Jobs, max \in 1 .. MaxAttemptsCeiling :
          Store!CreateJob(k, max) /\ CallGoes(c, "submitted", k)
    BY <1>6 DEF Submit
  <2>2. CASE k = j
    BY <1>5, <2>1, <2>2
  <2>3. CASE k # j
    <3>1. row'[j] = row[j]
      BY <1>0, <2>1, <2>3 DEF Store!CreateJob, Table!TypeOK
    <3>. QED BY <1>3, <1>4, <1>6, <3>1 DEF Submit
  <2>. QED BY <2>2, <2>3
<1>7. CASE Requeue(c)
  <2>1. PICK k \in Jobs : Store!RequeueDeadLetter(k) /\ CallGoes(c, "requeued", k)
    BY <1>7 DEF Requeue
  <2>2. CASE k = j
    BY <1>5, <2>1, <2>2
  <2>3. CASE k # j
    <3>1. row'[j] = row[j]
      BY <1>0, <2>1, <2>3 DEF Store!RequeueDeadLetter, Table!TypeOK
    <3>. QED BY <1>3, <1>4, <1>7, <3>1 DEF Requeue
  <2>. QED BY <2>2, <2>3
<1>8. CASE CallEnqueue(c)
  <2>1. ASSUME call[c].job = j PROVE Posted(j)'
    <3>1. \E place \in {"delayed", "ready"} : Enqueue(j, place)
      BY <1>8, <2>1 DEF CallEnqueue
    <3>. QED BY <1>0, <3>1, EnqueueAdds, AddsPosts
  <2>. QED BY <1>3, <1>4, <1>8, <2>1 DEF CallEnqueue, storeVars
<1>9. CASE CallReceipt(c)
  <2>1. row'[j].status = row[j].status
    BY <1>0, <1>2, <1>9 DEF CallReceipt, Store!SetEnqueued, Table!TypeOK, Table!Rows
  <2>. QED BY <1>3, <1>4, <1>9, <2>1 DEF CallReceipt
<1>10. CASE CancelWaiting(c)
  <2>1. row'[j] = row[j] \/ row'[j].status = "CANCELLED"
    BY <1>0, <1>10 DEF CancelWaiting, Store!CancelJob, Table!TypeOK, Table!Rows, storeVars
  <2>. QED BY <1>3, <1>4, <1>10, <2>1 DEF CancelWaiting, Store!WaitingStatuses
<1>11. CASE CancelLoad(c) \/ RaiseFlag(c)
  BY <1>3, <1>4, <1>11 DEF CancelLoad, RaiseFlag, storeVars
<1>12. CASE CallEnqueueFails(c) \/ CallCrash(c)
  BY <1>2, <1>12 DEF CallEnqueueFails, CallCrash
<1>. QED BY <1>6, <1>7, <1>8, <1>9, <1>10, <1>11, <1>12 DEF CallNext

\* Until something goes wrong, every waiting job is on its way.
UntilFault == Base /\ (faults = 0 => Carried)

\* Every step preserves that.
LEMMA UntilFaultStep == UntilFault /\ [Next]_vars => UntilFault'
<1> SUFFICES ASSUME UntilFault, [Next]_vars PROVE UntilFault'
  OBVIOUS
<1>1. Base'
  BY BaseStep DEF UntilFault
<1>2. SUFFICES ASSUME faults' = 0 PROVE Carried'
  BY <1>1 DEF UntilFault
<1>3. CASE UNCHANGED vars
  BY <1>2, <1>3 DEF vars, UntilFault, Carried, OnItsWay, Posted, RunnerHas, CallHas, LeaderHas
<1>4. CASE Next
  <2>1. faults = 0
    <3>1. faults' = faults \/ faults' = faults + 1
      BY <1>4, FaultsStep DEF UntilFault, Base
    <3>. QED BY <1>2, <3>1 DEF UntilFault, Base, IInv
  <2>2. Base /\ Carried
    BY <2>1 DEF UntilFault
  <2>3. ASSUME NEW k \in Jobs, LeaseExpires(k) PROVE Carried'
    <3>1. \A j \in Jobs : row'[j].status = row[j].status
      BY <2>2, <2>3 DEF LeaseExpires, Store!LeaseExpires, Base, IInv, Table!IInv,
          Table!TypeOK, Table!Rows
    <3>. QED BY <2>2, <2>3, <3>1 DEF LeaseExpires, Carried, OnItsWay, Posted, RunnerHas,
          CallHas, LeaderHas
  <2>. QED BY <1>2, <1>4, <2>2, <2>3, RunnerCarries, LeaderCarries, CallCarries, NextByProcess
<1>. QED BY <1>3, <1>4

\* It takes a fault to strand a job.  Requests, workers and any number of
\* leaders may overlap in any order, workers may stall past their leases, and
\* dead letters may be requeued and jobs cancelled at any moment: until a
\* process dies, or a statement or a command fails, a PENDING job with a
\* receipt is on the wire or in the hands of somebody who will put it there.
THEOREM StrandingTakesAFault == Spec => []SafeUntilFault
<1>1. Init => UntilFault
  <2>1. Init => Carried
    BY DEF Init, Carried, Store!Init, Store!NoRow, Store!Absent, Store!WaitingStatuses
  <2>. QED BY <2>1, InitBase DEF UntilFault
<1>2. UntilFault => SafeUntilFault
  <2> SUFFICES ASSUME UntilFault, faults = 0, NEW j \in Jobs, row[j].status = "PENDING"
               PROVE  InHand(j) \/ \E e \in Entries : entry[e].job = j
    BY DEF SafeUntilFault, NoStrandedJob
  <2>1. OnItsWay(j)
    BY DEF UntilFault, Carried, Store!WaitingStatuses
  <2>. QED BY <2>1 DEF OnItsWay, Posted, RunnerHas, CallHas, LeaderHas, InHand
<1>. QED BY <1>1, <1>2, UntilFaultStep, PTL DEF Spec

------------------------------------------------------------------------------
(* Crashes.                                                                  *)

\* One leader at a time; live workers renew in time; Redis takes every command
\* sent to it, and the Batcher hears of every commit; dead letters are left
\* alone.  Processes may die at any moment and any other statement may fail.
CrashesOnly ==
    /\ Prompt
    /\ \A l, m \in Leaders : l = m
    /\ FaultKinds \subseteq {"crash", "store"}
    /\ EpochBound = 0

\* A runner's entry is in the pending entries list, and nobody else's.
Owned ==
    \A r \in Runners : runner[r].at # "idle" =>
        /\ runner[r].d.entry \in Entries
        /\ entry[runner[r].d.entry] = [place |-> "pel", job |-> runner[r].d.job]
        /\ \A s \in Runners : runner[s].d.entry = runner[r].d.entry => s = r
        /\ \A l \in Leaders : \A d \in leader[l].todo \cup {leader[l].cur} :
              d.entry # runner[r].d.entry

\* A runner that executes a job still owns it.
StillFenced ==
    \A r \in Runners : runner[r].at = "run" =>
        Store!Fence(r) /\ row[claim[r].job].lease = "live"

\* Somebody is about to ack entry e.
Doomed(e) ==
    \/ \E r \in Runners : runner[r].at = "ack" /\ runner[r].d.entry = e
    \/ \E l \in Leaders : leader[l].at = "ack" /\ leader[l].cur.entry = e

\* An envelope of j that nobody is about to ack.
Kept(j) ==
    \E e \in Entries : entry[e].place # "free" /\ entry[e].job = j /\ ~Doomed(e)

\* The row of j has its receipt, or is about to get it.
Receipted(j) ==
    \/ row[j].enq
    \/ \E c \in Calls : call[c].at = "receipt" /\ call[c].job = j
    \/ \E l \in Leaders : leader[l].at = "orphanMark" /\ leader[l].cur.job = j

\* A leader is about to flip the row of j from RETRYING to PENDING.
Flipping(j) ==
    \E l \in Leaders :
        \/ leader[l].at = "promoted" /\ \E d \in leader[l].todo : d.job = j
        \/ leader[l].at = "stuckMark" /\ leader[l].cur.job = j

\* No sweep of the database will find j, now or once the leader's statement is done.
OnlyByDelivery(j) ==
    \/ row[j].status = "PENDING" /\ Receipted(j)
    \/ row[j].status = "RETRYING" /\ Flipping(j)

Backed == \A j \in Jobs : OnlyByDelivery(j) => Kept(j)

CrashInv == Base /\ Owned /\ StillFenced /\ Backed

\* Nobody takes a live worker's entry, and a worker takes only what is on a
\* stream.
LEMMA OwnedStep ==
    ASSUME Prompt, Base, Owned, Next
    PROVE  Owned'
<1>0. IInv /\ EntriesOK /\ RunnersOK /\ LeadersOK
  BY DEF Base, IInv
<1>1. CASE \E r \in Runners : RunnerNext(r)
  <2>1. PICK r \in Runners : RunnerNext(r)
    BY <1>1
  <2>2. leader' = leader /\ \A s \in Runners : s # r => runner'[s] = runner[s]
    BY <1>0, <2>1, OthersApart, OneRunnerMoves
  <2>3. CASE \E e \in Entries : Fetch(r, e)
    <3>1. PICK e \in Entries : Fetch(r, e)
      BY <2>3
    <3>2. /\ entry'[e] = [place |-> "pel", job |-> entry[e].job]
          /\ \A x \in Entries : x # e => entry'[x] = entry[x]
          /\ runner'[r] = [at |-> "claim", d |-> Delivery(e), cause |-> "none"]
      BY <1>0, <3>1, FetchFields
    <3>3. runner'[r].d.entry = e /\ runner'[r].d.job = entry[e].job
      BY <3>2 DEF Delivery
    <3>4. entry[e].place = "ready"
      BY <3>1 DEF Fetch
    <3>5. ASSUME NEW d \in Deliveries, Remembers(d) PROVE d.entry # e
      <4>1. d.entry \in Entries => entry[d.entry] \in {Free, [place |-> "pel", job |-> d.job]}
        BY <3>5 DEF Base, TokensHeld
      <4>. QED BY <3>4, <4>1 DEF Free
    <3>6. \A s \in Runners : runner[s].d.entry # e
      BY <1>0, <3>5 DEF Remembers, RunnersOK
    <3>7. \A l \in Leaders : \A d \in leader[l].todo \cup {leader[l].cur} : d.entry # e
      BY <1>0, <3>5 DEF Remembers, LeadersOK, LeaderFits
    <3>. QED BY <2>2, <3>2, <3>3, <3>6, <3>7 DEF Owned
  <2>4. CASE Ack(r) /\ Remove(runner[r].d.entry)
    <3>1. runner'[r] = IdleRunner /\ runner[r].at = "ack"
      BY <1>0, <2>4, RunnerFields DEF Ack
    <3>2. \A s \in Runners : s # r /\ runner[s].at # "idle" =>
            entry'[runner[s].d.entry] = entry[runner[s].d.entry]
      BY <1>0, <2>4, <3>1 DEF Owned, Remove, EntriesOK
    <3>3. \A s \in Runners : s # r /\ runner[s].at # "idle" =>
            runner'[r].d.entry # runner[s].d.entry
      <4>1. runner'[r].d.entry = NoEntry
        BY <3>1 DEF IdleRunner, NoDelivery
      <4>. QED BY <4>1, DispatchConstantsOK DEF Owned
    <3>. QED BY <2>2, <3>1, <3>2, <3>3 DEF Owned, IdleRunner
  <2>5. CASE /\ runner'[r].d = runner[r].d \/ RunnerLeaves(r)
             /\ runner'[r].at # "idle" => runner[r].at # "idle"
             /\ entry' = entry \/ \E j \in Jobs, place \in {"delayed", "ready"} : Adds(j, place)
    <3>1. \A s \in Runners : runner[s].at # "idle" =>
            entry'[runner[s].d.entry] = entry[runner[s].d.entry]
      BY <1>0, <2>5 DEF Owned, Adds, EntriesOK
    <3>2. CASE RunnerLeaves(r)
      <4>1. runner'[r] = IdleRunner
        BY <1>0, <3>2, RunnerFields
      <4>2. \A s \in Runners : s # r /\ runner[s].at # "idle" =>
              runner'[r].d.entry # runner[s].d.entry
        <5>1. runner'[r].d.entry = NoEntry
          BY <4>1 DEF IdleRunner, NoDelivery
        <5>. QED BY <5>1, DispatchConstantsOK DEF Owned
      <4>. QED BY <2>2, <3>1, <4>1, <4>2 DEF Owned, IdleRunner
    <3>3. CASE runner'[r].d = runner[r].d
      BY <2>2, <2>5, <3>1, <3>3 DEF Owned
    <3>. QED BY <2>5, <3>2, <3>3
  <2>6. runner[r].at = "idle" => \E e \in Entries : Fetch(r, e)
    BY <2>1 DEF RunnerNext, Claim, ExtendLease, SeeCancelFlag, Finish, Handoff, Ack,
        RunnerCrash
  <2>7. \/ entry' = entry
        \/ \E j \in Jobs, place \in {"delayed", "ready"} : Adds(j, place)
        \/ Ack(r) /\ Remove(runner[r].d.entry)
        \/ \E e \in Entries : Fetch(r, e)
    <3>1. runner[r].at = "handoff" => runner[r].d.job \in Jobs
      BY <1>0 DEF RunnersOK, Existing
    <3>. QED BY <1>0, <2>1, <3>1, EnqueueAdds DEF RunnerNext, Claim, ExtendLease,
          SeeCancelFlag, Finish, Handoff, Ack, RunnerCrash, ScheduleRetry
  <2>. QED BY <1>0, <2>1, <2>3, <2>4, <2>5, <2>6, <2>7, RunnerFields
<1>2. CASE \E l \in Leaders : LeaderNext(l)
  <2>1. PICK l \in Leaders : LeaderNext(l)
    BY <1>2
  <2>2. runner' = runner /\ \A m \in Leaders : m # l => leader'[m] = leader[m]
    BY <1>0, <2>1, OthersApart, OneLeaderMoves
  <2>3. ASSUME NEW r \in Runners, runner[r].at # "idle"
        PROVE  entry'[runner[r].d.entry] = entry[runner[r].d.entry]
    <3>1. /\ runner[r].d.entry \in Entries
          /\ entry[runner[r].d.entry] = [place |-> "pel", job |-> runner[r].d.job]
      BY <2>3 DEF Owned
    <3>2. EntriesStep
      BY <1>0, <1>2, NextOnEntries, NextByProcess
    <3>3. CASE \E j \in Jobs, place \in {"delayed", "ready"} : Adds(j, place)
      BY <1>0, <3>1, <3>3 DEF Adds, EntriesOK
    <3>4. CASE \E m \in Leaders : Remove(leader[m].cur.entry)
      <4>1. PICK m \in Leaders : Remove(leader[m].cur.entry)
        BY <3>4
      <4>2. leader[m].cur.entry # runner[r].d.entry
        BY <2>3 DEF Owned
      <4>. QED BY <1>0, <3>1, <4>1, <4>2 DEF Remove, EntriesOK
    <3>5. CASE \E m \in Leaders : PromoteDue(m)
      <4>1. PICK due \in SUBSET At("delayed") : \A x \in Entries :
                entry'[x] = IF x \in due THEN [place |-> "ready", job |-> entry[x].job]
                                         ELSE entry[x]
        BY <1>0, <3>5, PromoteFields
      <4>2. runner[r].d.entry \notin due
        BY <3>1 DEF At
      <4>. QED BY <3>1, <4>1, <4>2
    <3>6. ~ \E s \in Runners : Ack(s) \/ \E e \in Entries : Fetch(s, e)
      <4>1. \A s \in Runners : Ack(s) => runner' # runner
        <5>1. \A s \in Runners : Ack(s) => runner'[s].at = "idle" /\ runner[s].at = "ack"
          BY <1>0, RunnerFields DEF Ack, IdleRunner
        <5>. QED BY <5>1
      <4>2. \A s \in Runners, e \in Entries : Fetch(s, e) => runner' # runner
        <5>1. ASSUME NEW s \in Runners, NEW e \in Entries, Fetch(s, e)
              PROVE  runner'[s].at = "claim" /\ runner[s].at = "idle"
          <6>1. runner'[s] = [at |-> "claim", d |-> Delivery(e), cause |-> "none"]
            BY <1>0, <5>1, FetchFields
          <6>. QED BY <5>1, <6>1 DEF Fetch
        <5>. QED BY <5>1
      <4>. QED BY <2>2, <4>1, <4>2
    <3>. QED BY <3>2, <3>3, <3>4, <3>5, <3>6 DEF EntriesStep
  <2>4. ASSUME NEW r \in Runners, runner[r].at # "idle",
               NEW d \in leader'[l].todo \cup {leader'[l].cur}
        PROVE  d.entry # runner[r].d.entry
    <3>1. CASE d \in leader[l].todo \cup {leader[l].cur}
      BY <2>4, <3>1 DEF Owned
    <3>2. CASE d.entry \notin Entries
      BY <2>4, <3>2 DEF Owned
    <3>3. CASE d.entry \in Abandoned
      BY <3>3 DEF Abandoned
    <3>. QED BY <1>0, <2>1, <2>4, <3>1, <3>2, <3>3, LeaderRemembers
  <2>. QED BY <2>2, <2>3, <2>4 DEF Owned
<1>3. CASE \E c \in Calls : CallNext(c)
  <2>1. UNCHANGED <<runner, leader>>
    BY <1>3, OthersApart
  <2>2. entry' = entry \/ \E j \in Jobs, place \in {"delayed", "ready"} : Adds(j, place)
    <3>1. PICK c \in Calls : CallNext(c)
      BY <1>3
    <3>2. call[c].at # "idle" => call[c].job \in Jobs
      BY <1>0 DEF IInv, CallsOK, Existing
    <3>. QED BY <1>0, <3>1, <3>2, EnqueueAdds DEF CallNext, Submit, Requeue, CallEnqueue,
          CallEnqueueFails, CallReceipt, CancelLoad, CancelWaiting, RaiseFlag, CallCrash
  <2>3. \A s \in Runners : runner[s].at # "idle" =>
          entry'[runner[s].d.entry] = entry[runner[s].d.entry]
    BY <1>0, <2>2 DEF Owned, Adds, EntriesOK
  <2>. QED BY <2>1, <2>3 DEF Owned
<1>. QED BY <1>1, <1>2, <1>3, NextByProcess DEF LeaseExpires, Owned

\* A statement that is not the clock's, nor a claim holder's, leaves a live
\* RUNNING row to its holder.
LEMMA RunningRowKept ==
    ASSUME Table!TypeOK, NEW j \in Jobs, row[j].status = "RUNNING", row[j].lease = "live",
           \/ \E k \in Jobs : \/ \E max : Store!CreateJob(k, max)
                              \/ Store!SetEnqueued(k) \/ Store!ReapJob(k)
                              \/ Store!CancelJob(k) \/ Store!RequeueDeadLetter(k)
           \/ \E js : Store!MarkPromoted(js)
    PROVE  /\ row'[j].status = "RUNNING" /\ row'[j].lease = "live"
           /\ row'[j].epoch = row[j].epoch
<1>1. ASSUME NEW k \in Jobs, NEW max, Store!CreateJob(k, max) PROVE row'[j] = row[j]
  BY <1>1 DEF Store!CreateJob, Store!Absent, Table!TypeOK
<1>2. ASSUME NEW k \in Jobs, Store!ReapJob(k) PROVE row'[j] = row[j]
  BY <1>2, ReapRow
<1>3. ASSUME NEW k \in Jobs, Store!CancelJob(k) \/ Store!RequeueDeadLetter(k)
      PROVE  row'[j] = row[j]
  BY <1>3 DEF Store!CancelJob, Store!RequeueDeadLetter, Store!WaitingStatuses, Table!TypeOK
<1>4. ASSUME NEW js, Store!MarkPromoted(js) PROVE row'[j] = row[j]
  BY <1>4 DEF Store!MarkPromoted
<1>5. ASSUME NEW k \in Jobs, Store!SetEnqueued(k)
      PROVE  /\ row'[j].status = row[j].status /\ row'[j].lease = row[j].lease
             /\ row'[j].epoch = row[j].epoch
  BY <1>5 DEF Store!SetEnqueued, Table!TypeOK, Table!Rows
<1>. QED BY <1>1, <1>2, <1>3, <1>4, <1>5

\* A job's row passes the fence of one claim, so a runner's statements are about
\* its own job only.
LEMMA OthersFence ==
    ASSUME Base, NEW r \in Runners, NEW s \in Runners, r # s,
           Store!Fence(r), Store!Fence(s)
    PROVE  claim[r].job # claim[s].job
BY DEF Base, IInv, Table!IInv, Table!EpochsDiffer, Table!Holds, Table!NoClaim, Store!Fence,
    Store!Holds, Store!NoClaim

\* While workers renew in time, no lease of theirs runs out and nothing is
\* taken from them.
LEMMA StillFencedStep ==
    ASSUME Prompt, Base, StillFenced, Next
    PROVE  StillFenced'
<1>0. IInv /\ RunnersOK /\ LeadersOK /\ CallsOK /\ Table!IInv /\ Table!TypeOK
  BY DEF Base, IInv, Table!IInv
<1>1. ASSUME NEW r \in Runners, Store!Fence(r) PROVE claim[r].job \in Jobs
  BY <1>0, <1>1 DEF Store!Fence, Store!Holds, Store!NoClaim, Table!IInv, Table!EpochBehind,
      Table!Holds, Table!NoClaim
<1>2. ASSUME NEW r \in Runners, Store!Fence(r), claim'[r] = claim[r],
             row'[claim[r].job].status = "RUNNING", row'[claim[r].job].lease = "live",
             row'[claim[r].job].epoch = row[claim[r].job].epoch
      PROVE  Store!Fence(r)' /\ row'[claim'[r].job].lease = "live"
  BY <1>2 DEF Store!Fence, Store!Holds, Store!NoClaim
<1>3. ASSUME NEW r \in Runners, runner[r].at = "run"
      PROVE  /\ Store!Fence(r) /\ claim[r].job \in Jobs
             /\ row[claim[r].job].status = "RUNNING" /\ row[claim[r].job].lease = "live"
  BY <1>1, <1>3 DEF StillFenced, Store!Fence
<1>5. ASSUME UNCHANGED <<runner, claim>>,
             \/ UNCHANGED storeVars
             \/ \E k \in Jobs : \/ \E max : Store!CreateJob(k, max)
                                \/ Store!SetEnqueued(k) \/ Store!ReapJob(k)
                                \/ Store!CancelJob(k) \/ Store!RequeueDeadLetter(k)
             \/ \E js : Store!MarkPromoted(js)
      PROVE  StillFenced'
  <2>1. ASSUME NEW r \in Runners, runner[r].at = "run"
        PROVE  Store!Fence(r)' /\ row'[claim'[r].job].lease = "live"
    <3>. DEFINE j == claim[r].job
    <3>1. /\ Store!Fence(r) /\ j \in Jobs
          /\ row[j].status = "RUNNING" /\ row[j].lease = "live"
      BY <1>3, <2>1
    <3>. HIDE DEF j
    <3>2. /\ row'[j].status = "RUNNING" /\ row'[j].lease = "live"
          /\ row'[j].epoch = row[j].epoch
      BY <1>0, <1>5, <3>1, RunningRowKept DEF storeVars
    <3>. QED BY <1>2, <1>5, <3>1, <3>2 DEF j
  <2>. QED BY <1>5, <2>1 DEF StillFenced
<1>6. CASE \E l \in Leaders : LeaderNext(l)
  <2>1. PICK l \in Leaders : LeaderNext(l)
    BY <1>6
  <2>2. UNCHANGED <<runner, claim>>
    BY <1>0, <2>1, OthersApart, LeaderIsStatement
  <2>3. \A d \in leader[l].todo : d.job \in Jobs
    BY <1>0 DEF LeadersOK, LeaderFits, Existing
  <2>4. leader[l].at \in PerDelivery => leader[l].cur.job \in Jobs
    BY <1>0 DEF LeadersOK, LeaderFits, Existing
  <2>5. \/ UNCHANGED storeVars
        \/ \E k \in Jobs : Store!SetEnqueued(k) \/ Store!ReapJob(k)
        \/ \E js : Store!MarkPromoted(js)
    BY <2>1, <2>3, <2>4 DEF LeaderNext, PromoteDue, MarkPromoted, ReapAbandoned, ReapOne,
        ReapHandoff, Classify, Reenqueue, ReapAck, ListExpiredRunning, SweepOne,
        SweepHandoff, ListUnenqueued, ListStuckRetrying, RepairEnqueue, OrphanMark,
        StuckMark, LeaderCrash, PerDelivery
  <2>. QED BY <1>5, <2>2, <2>5
<1>7. CASE \E c \in Calls : CallNext(c)
  <2>1. PICK c \in Calls : CallNext(c)
    BY <1>7
  <2>2. UNCHANGED <<runner, claim>>
    BY <1>0, <2>1, OthersApart, CallIsStatement
  <2>3. call[c].at # "idle" => call[c].job \in Jobs
    BY <1>0 DEF CallsOK, Existing
  <2>4. \/ UNCHANGED storeVars
        \/ \E k \in Jobs : \/ \E max : Store!CreateJob(k, max)
                           \/ Store!SetEnqueued(k) \/ Store!CancelJob(k)
                           \/ Store!RequeueDeadLetter(k)
    BY <2>1, <2>3 DEF CallNext, Submit, Requeue, CallEnqueue, CallEnqueueFails, CallReceipt,
        CancelLoad, CancelWaiting, RaiseFlag, CallCrash
  <2>. QED BY <1>5, <2>2, <2>4
<1>8. CASE \E k \in Jobs : LeaseExpires(k)
  <2>1. PICK k \in Jobs : LeaseExpires(k)
    BY <1>8
  <2>2. \A r \in Runners : Store!Fence(r) => claim[r].job # k
    BY <2>1 DEF LeaseExpires
  <2>3. UNCHANGED <<runner, claim>> /\ \A j \in Jobs : j # k => row'[j] = row[j]
    BY <1>0, <2>1 DEF LeaseExpires, Store!LeaseExpires, Table!TypeOK
  <2>4. ASSUME NEW r \in Runners, runner[r].at = "run"
        PROVE  Store!Fence(r)' /\ row'[claim'[r].job].lease = "live"
    BY <1>2, <1>3, <2>2, <2>3, <2>4
  <2>. QED BY <2>3, <2>4 DEF StillFenced
<1>9. CASE \E r \in Runners : RunnerNext(r)
  <2>1. PICK r \in Runners : RunnerNext(r)
    BY <1>9
  <2>2. ASSUME NEW s \in Runners, s # r, runner'[s].at = "run"
        PROVE  Store!Fence(s)' /\ row'[claim'[s].job].lease = "live"
    <3>. DEFINE j == claim[s].job
    <3>1. runner'[s] = runner[s] /\ claim'[s] = claim[s]
      BY <1>0, <2>1, <2>2, OneRunnerMoves
    <3>2. /\ Store!Fence(s) /\ j \in Jobs
          /\ row[j].status = "RUNNING" /\ row[j].lease = "live"
      BY <1>3, <2>2, <3>1
    <3>3. Store!Fence(r) => claim[r].job # j
      BY <2>2, <3>2, OthersFence
    <3>. HIDE DEF j
    <3>4. row'[j] = row[j]
      <4>1. [Store!HolderStatement(r)]_storeVars
        BY <1>0, <2>1, RunnerIsStatement
      <4>2. ASSUME NEW k \in Jobs, Store!ClaimJob(r, k) PROVE row'[j] = row[j]
        BY <1>0, <3>2, <4>2 DEF Store!ClaimJob, Store!Claimable, Store!WaitingStatuses,
            Table!TypeOK
      <4>3. ASSUME Store!ExtendLease(r) \/ \E to : Store!FencedWrite(r, to)
            PROVE  row'[j] = row[j]
        BY <1>0, <3>2, <3>3, <4>3 DEF Store!ExtendLease, Store!FencedWrite, Table!TypeOK
      <4>. QED BY <4>1, <4>2, <4>3 DEF Store!HolderStatement, Store!CompleteJob,
            Store!FailJob, Store!CancelRunning, Store!DeadLetterJob, Store!ScheduleRetry,
            Store!DropClaim, storeVars
    <3>. QED BY <1>2, <3>1, <3>2, <3>4 DEF j
  <2>3. ASSUME runner'[r].at = "run"
        PROVE  Store!Fence(r)' /\ row'[claim'[r].job].lease = "live"
    <3>1. ASSUME NEW at, RunnerGoes(r, at) PROVE at = "run"
      BY <1>0, <2>3, <3>1, RunnerFields
    <3>2. ~RunnerLeaves(r)
      BY <1>0, <2>3, RunnerFields DEF IdleRunner
    <3>3. ~ \E e \in Entries : Fetch(r, e)
      <4>1. ASSUME NEW e \in Entries, Fetch(r, e) PROVE FALSE
        <5>1. runner'[r] = [at |-> "claim", d |-> Delivery(e), cause |-> "none"]
          BY <1>0, <4>1, FetchFields
        <5>. QED BY <2>3, <5>1
      <4>. QED BY <4>1
    <3>4. CASE Store!ClaimJob(r, runner[r].d.job) /\ runner[r].at = "claim"
      <4>. DEFINE j == runner[r].d.job
      <4>1. j \in Jobs
        BY <1>0, <3>4 DEF RunnersOK, Existing
      <4>2. Store!ClaimJob(r, j)
        BY <3>4
      <4>. HIDE DEF j
      <4>3. row'[j].status = "RUNNING" /\ row'[j].lease = "live"
            /\ row'[j].epoch = row[j].epoch + 1
        BY <1>0, <4>1, <4>2 DEF Store!ClaimJob, Table!TypeOK, Table!Rows
      <4>4. claim'[r].job = j /\ claim'[r].epoch = row[j].epoch + 1
        BY <1>0, <4>2 DEF Store!ClaimJob, Table!TypeOK
      <4>5. claim'[r] # Store!NoClaim
        BY <4>1, <4>4, DispatchConstantsOK DEF Store!NoClaim
      <4>. QED BY <4>3, <4>4, <4>5 DEF Store!Fence, Store!Holds, Store!NoClaim
    <3>5. CASE ExtendLease(r)
      <4>. DEFINE j == claim[r].job
      <4>1. runner[r].at = "run" /\ claim' = claim
        BY <3>5 DEF ExtendLease, Store!ExtendLease, storeVars
      <4>2. Store!Fence(r) /\ j \in Jobs /\ row[j].status = "RUNNING" /\ row[j].lease = "live"
        BY <1>3, <4>1
      <4>3. row' = row \/ row' = [row EXCEPT ![j].lease = "live"]
        BY <3>5 DEF ExtendLease, Store!ExtendLease, storeVars
      <4>. HIDE DEF j
      <4>4. /\ row'[j].status = "RUNNING" /\ row'[j].lease = "live"
            /\ row'[j].epoch = row[j].epoch
        BY <1>0, <4>2, <4>3 DEF Table!TypeOK, Table!Rows
      <4>. QED BY <1>2, <4>1, <4>2, <4>4 DEF j
    <3>6. CASE SeeCancelFlag(r)
      BY <1>2, <1>3, <3>6 DEF SeeCancelFlag, storeVars
    <3>. QED BY <2>1, <3>1, <3>2, <3>3, <3>4, <3>5, <3>6 DEF RunnerNext, Claim, Finish,
          Handoff, Ack, RunnerCrash
  <2>. QED BY <2>2, <2>3 DEF StillFenced
<1>. QED BY <1>6, <1>7, <1>8, <1>9, NextByProcess

\* An envelope that nobody is about to ack outlives the step.
LEMMA EnvelopeStays ==
    ASSUME Base, Next, NEW e \in Entries, entry[e].place # "free", ~Doomed(e)
    PROVE  entry'[e].place # "free" /\ entry'[e].job = entry[e].job
<1>0. IInv /\ EntriesOK
  BY DEF Base, IInv
<1>1. EntriesStep
  BY <1>0, NextOnEntries
<1>2. CASE \E k \in Jobs, place \in {"delayed", "ready"} : Adds(k, place)
  BY <1>0, <1>2 DEF Adds, EntriesOK
<1>3. CASE \/ \E r \in Runners : runner[r].at = "ack" /\ Remove(runner[r].d.entry)
           \/ \E l \in Leaders : leader[l].at = "ack" /\ Remove(leader[l].cur.entry)
  <2>1. \E x : x # e /\ Remove(x)
    BY <1>3 DEF Doomed
  <2>. QED BY <1>0, <2>1 DEF Remove, EntriesOK
<1>4. CASE \E r \in Runners, x \in Entries : Fetch(r, x)
  <2>1. PICK r \in Runners, x \in Entries : Fetch(r, x)
    BY <1>4
  <2>2. /\ entry'[x] = [place |-> "pel", job |-> entry[x].job]
        /\ \A y \in Entries : y # x => entry'[y] = entry[y]
    BY <1>0, <2>1, FetchFields
  <2>. QED BY <2>2
<1>5. CASE \E l \in Leaders : PromoteDue(l)
  <2>1. \E due : \A x \in Entries :
            entry'[x] = IF x \in due THEN [place |-> "ready", job |-> entry[x].job]
                                     ELSE entry[x]
    BY <1>0, <1>5, PromoteFields
  <2>2. entry'[e] \in {entry[e], [place |-> "ready", job |-> entry[e].job]}
    BY <2>1
  <2>. QED BY <2>2
<1>. QED BY <1>1, <1>2, <1>3, <1>4, <1>5 DEF EntriesStep

\* So j keeps its envelope unless the step dooms one of j's.
LEMMA KeptStays ==
    ASSUME Base, Next, NEW j \in Jobs, Kept(j),
           \A e \in Entries : Doomed(e)' => \/ Doomed(e)
                                            \/ entry[e].place = "free"
                                            \/ entry[e].job # j
    PROVE  Kept(j)'
<1>1. PICK e \in Entries : entry[e].place # "free" /\ entry[e].job = j /\ ~Doomed(e)
  BY DEF Kept
<1>2. entry'[e].place # "free" /\ entry'[e].job = j
  BY <1>1, EnvelopeStays
<1>3. ~Doomed(e)'
  BY <1>1
<1>. QED BY <1>2, <1>3 DEF Kept

\* A new envelope is nobody's to ack.
LEMMA AddsKept ==
    ASSUME Base, NEW j, NEW place \in {"delayed", "ready"}, Adds(j, place),
           \A r \in Runners : runner'[r].d \in {runner[r].d, NoDelivery},
           \A l \in Leaders : leader'[l].at = "ack" =>
               leader'[l].cur \in leader[l].todo \cup {leader[l].cur}
    PROVE  Kept(j)'
<1>1. PICK e \in Entries :
        /\ entry'[e] = [place |-> place, job |-> j]
        /\ \A r \in Runners : runner[r].d.entry # e
        /\ \A l \in Leaders : \A d \in leader[l].todo \cup {leader[l].cur} : d.entry # e
  BY DEF Adds
<1>2. NoDelivery.entry # e
  BY DispatchConstantsOK DEF NoDelivery
<1>3. ~Doomed(e)'
  BY <1>1, <1>2 DEF Doomed
<1>4. entry'[e].place # "free" /\ entry'[e].job = j
  BY <1>1
<1>. QED BY <1>3, <1>4 DEF Kept

\* A runner acks its entry when its job is settled, or claimed by another, or
\* on the wire again.
LEMMA RunnerBacks ==
    ASSUME CrashesOnly, CrashInv, NEW r \in Runners, RunnerNext(r)
    PROVE  Backed'
<1>0. Base /\ IInv /\ EntriesOK /\ RunnersOK /\ Table!TypeOK /\ Owned
  BY DEF CrashInv, Base, IInv, Table!IInv
<1>1. Next /\ UNCHANGED <<leader, call>>
  BY NextByProcess, OthersApart
<1>2. \A s \in Runners : s # r => runner'[s] = runner[s]
  BY <1>0, OneRunnerMoves
<1>3. SUFFICES ASSUME NEW j \in Jobs, OnlyByDelivery(j)' PROVE Kept(j)'
  BY DEF Backed
<1>4. ASSUME row'[j].status = row[j].status, row'[j].enq = row[j].enq
      PROVE  Kept(j)
  <2>1. OnlyByDelivery(j)
    BY <1>1, <1>3, <1>4 DEF OnlyByDelivery, Receipted, Flipping
  <2>. QED BY <2>1 DEF CrashInv, Backed
<1>5. ASSUME Kept(j), runner'[r].at # "ack" PROVE Kept(j)'
  <2>1. \A e \in Entries : Doomed(e)' => Doomed(e)
    BY <1>1, <1>2, <1>5 DEF Doomed
  <2>. QED BY <1>0, <1>1, <1>5, <2>1, KeptStays
<1>6. ASSUME Kept(j), runner'[r].d = runner[r].d, runner[r].at # "idle", runner[r].d.job # j
      PROVE  Kept(j)'
  <2>0. entry[runner[r].d.entry] = [place |-> "pel", job |-> runner[r].d.job]
    BY <1>0, <1>6 DEF Owned
  <2>1. entry[runner[r].d.entry].job # j
    BY <1>6, <2>0
  <2>2. \A e \in Entries : Doomed(e)' => Doomed(e) \/ entry[e].job # j
    BY <1>1, <1>2, <1>6, <2>1 DEF Doomed
  <2>. QED BY <1>0, <1>1, <1>6, <2>2, KeptStays
<1>7. CASE (\E e \in Entries : Fetch(r, e)) \/ ExtendLease(r) \/ SeeCancelFlag(r)
  <2>1. row'[j].status = row[j].status /\ row'[j].enq = row[j].enq
    BY <1>0, <1>7 DEF Fetch, ExtendLease, SeeCancelFlag, storeVars, Store!ExtendLease,
        Table!TypeOK, Table!Rows
  <2>2. runner'[r].at # "ack"
    <3>1. ASSUME NEW e \in Entries, Fetch(r, e) PROVE runner'[r].at # "ack"
      <4>1. runner'[r] = [at |-> "claim", d |-> Delivery(e), cause |-> "none"]
        BY <1>0, <3>1, FetchFields
      <4>. QED BY <4>1
    <3>2. ASSUME ExtendLease(r) \/ SeeCancelFlag(r) PROVE runner'[r].at = "run"
      BY <1>0, <3>2 DEF ExtendLease, SeeCancelFlag, RunnersOK
    <3>. QED BY <1>7, <3>1, <3>2
  <2>. QED BY <1>4, <1>5, <2>1, <2>2
<1>8. CASE RunnerLeaves(r)
  <2>0. runner'[r] = IdleRunner
    BY <1>0, <1>8, RunnerFields
  <2>1. runner'[r].at # "ack" /\ row' = row
    BY <1>8, <2>0 DEF RunnerLeaves, IdleRunner
  <2>. QED BY <1>4, <1>5, <2>1
<1>9. CASE Claim(r) /\ ~RunnerLeaves(r)
  <2>1. runner[r].d.job \in Jobs /\ runner[r].at # "idle"
    BY <1>0, <1>9 DEF Claim, RunnersOK, Existing
  <2>2. CASE Store!ClaimJob(r, runner[r].d.job) /\ RunnerGoes(r, "run")
    <3>1. row'[runner[r].d.job].status = "RUNNING"
      BY <1>0, <2>1, <2>2 DEF Store!ClaimJob, Table!TypeOK, Table!Rows
    <3>2. j # runner[r].d.job
      BY <1>3, <3>1 DEF OnlyByDelivery
    <3>3. row'[j] = row[j]
      BY <1>0, <2>2, <3>2 DEF Store!ClaimJob, Table!TypeOK
    <3>4. runner'[r].at = "run"
      BY <1>0, <2>2, RunnerFields
    <3>. QED BY <1>4, <1>5, <3>3, <3>4
  <2>3. CASE ~Store!Claimable(runner[r].d.job) /\ RunnerGoes(r, "ack") /\ UNCHANGED storeVars
    <3>1. j # runner[r].d.job
      BY <1>3, <2>3 DEF OnlyByDelivery, Store!Claimable, Store!WaitingStatuses, storeVars
    <3>2. runner'[r].d = runner[r].d
      BY <1>0, <2>3, RunnerFields
    <3>. QED BY <1>4, <1>6, <2>1, <2>3, <3>1, <3>2 DEF storeVars
  <2>. QED BY <1>9, <2>2, <2>3 DEF Claim
<1>10. CASE Finish(r) /\ ~RunnerLeaves(r)
  <2>1. Store!Fence(r) /\ runner[r].at = "run"
    BY <1>10 DEF Finish, CrashInv, StillFenced
  <2>2. /\ Outcome(r)
        /\ RunnerGoes(r, IF row'[claim[r].job].status = "RETRYING" THEN "handoff" ELSE "ack")
    BY <1>10, <2>1 DEF Finish, CrashesOnly, Fault
  <2>3. PICK to \in {"COMPLETED", "FAILED", "CANCELLED", "DEAD_LETTER", "RETRYING"} :
          Store!FencedWrite(r, to)
    BY <2>2 DEF Outcome, Store!CompleteJob, Store!CancelRunning, Store!FailJob,
        Store!DeadLetterJob, Store!ScheduleRetry
  <2>4. claim[r].job = runner[r].d.job
    BY <1>0, <2>1 DEF Base, ClaimsMatch, Store!Fence
  <2>5. runner'[r].d = runner[r].d
    BY <1>0, <2>2, RunnerFields
  <2>6. CASE j # runner[r].d.job
    <3>1. row'[j] = row[j]
      BY <1>0, <2>3, <2>4, <2>6 DEF Store!FencedWrite, Table!TypeOK
    <3>. QED BY <1>4, <1>6, <2>1, <2>5, <2>6, <3>1
  <2>7. CASE j = runner[r].d.job
    <3>1. row'[j].status = to
      BY <1>0, <2>3, <2>4, <2>7 DEF Store!FencedWrite, Table!TypeOK, Table!Rows
    <3>2. row'[j].status = "RETRYING"
      BY <1>3, <3>1 DEF OnlyByDelivery
    <3>3. runner'[r].at = "handoff"
      BY <1>0, <2>2, <2>4, <2>7, <3>2, RunnerFields
    <3>4. PICK e : e = runner[r].d.entry
      OBVIOUS
    <3>5. /\ e \in Entries /\ entry' = entry
          /\ entry[e] = [place |-> "pel", job |-> j]
      BY <1>0, <1>10, <2>1, <2>7, <3>4 DEF Owned, Finish
    <3>6. ~Doomed(e)
      BY <1>0, <2>1, <3>4 DEF Doomed, Owned
    <3>7. ~Doomed(e)'
      BY <1>1, <1>2, <3>3, <3>6 DEF Doomed
    <3>. QED BY <3>5, <3>7 DEF Kept
  <2>. QED BY <2>6, <2>7
<1>11. CASE Handoff(r)
  <2>1. row' = row /\ RunnerGoes(r, "ack") /\ runner[r].at # "idle"
    BY <1>11 DEF Handoff, storeVars
  <2>2. runner'[r].d = runner[r].d
    BY <1>0, <2>1, RunnerFields
  <2>3. CASE runner[r].d.job # j
    BY <1>4, <1>6, <2>1, <2>2, <2>3
  <2>4. CASE runner[r].d.job = j
    <3>1. Enqueue(j, "delayed")
      BY <1>11, <2>4 DEF Handoff, ScheduleRetry, CrashesOnly, Fault
    <3>2. Adds(j, "delayed")
      BY <1>0, <3>1, EnqueueAdds
    <3>. QED BY <1>0, <1>1, <1>2, <2>2, <3>2, AddsKept
  <2>. QED BY <2>3, <2>4
<1>. QED BY <1>7, <1>8, <1>9, <1>10, <1>11 DEF RunnerNext, Ack, RunnerCrash

\* The one leader acks an entry when its job is not PENDING, which only the
\* leader itself could change, or when the job is on the wire again.
LEMMA LeaderBacks ==
    ASSUME CrashesOnly, CrashInv, NEW l \in Leaders, LeaderNext(l)
    PROVE  Backed'
<1>0. Base /\ IInv /\ EntriesOK /\ RunnersOK /\ LeadersOK /\ Table!TypeOK /\ Owned
  BY DEF CrashInv, Base, IInv, Table!IInv
<1>1. Next /\ UNCHANGED <<runner, call>> /\ \A m \in Leaders : m = l
  BY NextByProcess, OthersApart DEF CrashesOnly
<1>2. \A d \in leader[l].todo : d.job \in Jobs
  BY <1>0 DEF LeadersOK, LeaderFits, Existing
<1>3. SUFFICES ASSUME NEW j \in Jobs, OnlyByDelivery(j)' PROVE Kept(j)'
  BY DEF Backed
<1>4. ASSUME OnlyByDelivery(j),
             leader'[l].at = "ack" =>
                 /\ leader'[l].cur \in leader[l].todo \cup {leader[l].cur}
                 /\ leader'[l].cur.job # j
      PROVE  Kept(j)'
  <2>1. Kept(j)
    BY <1>4 DEF CrashInv, Backed
  <2>2. ASSUME leader'[l].at = "ack", NEW e \in Entries, e = leader'[l].cur.entry
        PROVE  entry[e].place = "free" \/ entry[e].job # j
    <3>1. PICK d : d = leader'[l].cur
      OBVIOUS
    <3>2. d \in leader[l].todo \cup {leader[l].cur} /\ d.job # j /\ d.entry = e
      BY <1>4, <2>2, <3>1
    <3>3. d \in Deliveries /\ Remembers(d)
      BY <1>0, <3>2 DEF Remembers, LeadersOK, LeaderFits
    <3>4. entry[e] \in {Free, [place |-> "pel", job |-> d.job]}
      BY <1>0, <3>2, <3>3 DEF Base, TokensHeld
    <3>. QED BY <3>2, <3>4 DEF Free
  <2>3. \A e \in Entries : Doomed(e)' => \/ Doomed(e)
                                         \/ entry[e].place = "free"
                                         \/ entry[e].job # j
    BY <1>1, <2>2 DEF Doomed
  <2>. QED BY <1>0, <1>1, <2>1, <2>3, KeptStays
<1>5. ASSUME NEW place \in {"delayed", "ready"}, Enqueue(j, place),
             leader'[l].at = "ack" => leader'[l].cur \in leader[l].todo \cup {leader[l].cur}
      PROVE  Kept(j)'
  <2>1. Adds(j, place)
    BY <1>0, <1>5, EnqueueAdds
  <2>. QED BY <1>0, <1>1, <1>5, <2>1, AddsKept
<1>6. ASSUME row' = row,
             leader'[l].at \in {"orphanMark", "stuckMark"} => leader'[l].cur.job # j,
             leader'[l].at # "promoted"
      PROVE  OnlyByDelivery(j)
  BY <1>1, <1>3, <1>6 DEF OnlyByDelivery, Receipted, Flipping
<1>7. CASE PromoteDue(l)
  <2>1. PICK due \in SUBSET At("delayed") :
            /\ StartDuty(l, "promoted", Listed({entry[e].job : e \in due}))
            /\ \A x \in Entries :
                  entry'[x] = IF x \in due THEN [place |-> "ready", job |-> entry[x].job]
                                           ELSE entry[x]
    BY <1>0, <1>7, PromoteFields
  <2>. DEFINE batch == Listed({entry[e].job : e \in due})
  <2>2. \A d \in batch : \E e \in due : d.job = entry[e].job
    BY DEF Listed
  <2>3. StartDuty(l, "promoted", batch)
    BY <2>1
  <2>. HIDE DEF batch
  <2>4. leader'[l] = [at |-> "promoted", todo |-> batch, cur |-> NoDelivery]
    BY <1>0, <2>3, LoopFields
  <2>5. leader'[l].at = "promoted" /\ leader'[l].todo = batch /\ row' = row
    BY <1>7, <2>4 DEF PromoteDue, storeVars
  <2>6. CASE \E d \in batch : d.job = j
    <3>1. PICK e \in due : entry[e].job = j
      BY <2>2, <2>6
    <3>2. e \in Entries /\ entry[e].place = "delayed"
      BY <3>1 DEF At
    <3>3. entry'[e] = [place |-> "ready", job |-> j]
      BY <2>1, <3>1, <3>2
    <3>4. \A r \in Runners : runner[r].at = "ack" => runner[r].d.entry # e
      <4>1. ASSUME NEW r \in Runners, runner[r].at = "ack", runner[r].d.entry = e PROVE FALSE
        <5>1. entry[e] = [place |-> "pel", job |-> runner[r].d.job]
          BY <1>0, <4>1 DEF Owned
        <5>. QED BY <3>2, <5>1
      <4>. QED BY <4>1
    <3>5. ~Doomed(e)'
      BY <1>1, <2>5, <3>4 DEF Doomed
    <3>. QED BY <3>2, <3>3, <3>5 DEF Kept
  <2>7. CASE ~ \E d \in batch : d.job = j
    <3>1. OnlyByDelivery(j)
      BY <1>1, <1>3, <2>5, <2>7 DEF OnlyByDelivery, Receipted, Flipping
    <3>. QED BY <1>4, <2>5, <3>1
  <2>. QED BY <2>6, <2>7
<1>8. CASE MarkPromoted(l)
  <2>1. leader'[l] = IdleLeader
    BY <1>0, <1>8 DEF MarkPromoted, LeadersOK
  <2>2. leader'[l].at = "idle"
    BY <2>1 DEF IdleLeader
  <2>3. row'[j].status = "PENDING" /\ Receipted(j)'
    BY <1>1, <1>3, <2>2 DEF OnlyByDelivery, Flipping
  <2>4. \/ row'[j] = row[j]
        \/ (\E d \in leader[l].todo : d.job = j) /\ row[j].status = "RETRYING"
    BY <1>8 DEF MarkPromoted, Store!MarkPromoted, storeVars
  <2>5. OnlyByDelivery(j)
    BY <1>1, <1>8, <2>2, <2>3, <2>4 DEF OnlyByDelivery, Receipted, Flipping, MarkPromoted
  <2>. QED BY <1>4, <2>2, <2>5
<1>9. CASE StuckMark(l)
  <2>1. leader'[l].at \in {"idle", "stuck"}
    BY <1>0, <1>9, LoopFields DEF StuckMark
  <2>2. row'[j].status = "PENDING" /\ Receipted(j)'
    BY <1>1, <1>3, <2>1 DEF OnlyByDelivery, Flipping
  <2>3. row'[j] = row[j] \/ (leader[l].cur.job = j /\ row[j].status = "RETRYING")
    BY <1>9 DEF StuckMark, Store!MarkPromoted, storeVars
  <2>4. OnlyByDelivery(j)
    BY <1>1, <1>9, <2>1, <2>2, <2>3 DEF OnlyByDelivery, Receipted, Flipping, StuckMark
  <2>. QED BY <1>4, <2>1, <2>4
<1>10. CASE OrphanMark(l)
  <2>1. leader'[l].at \in {"idle", "orphan"}
    BY <1>0, <1>10, LoopFields DEF OrphanMark
  <2>2. row'[j].status = row[j].status /\ (row'[j].enq => row[j].enq \/ leader[l].cur.job = j)
    BY <1>0, <1>10 DEF OrphanMark, Store!SetEnqueued, storeVars, Table!TypeOK, Table!Rows
  <2>3. OnlyByDelivery(j)
    BY <1>1, <1>3, <1>10, <2>1, <2>2 DEF OnlyByDelivery, Receipted, Flipping, OrphanMark
  <2>. QED BY <1>4, <2>1, <2>3
<1>11. CASE \/ ReapAbandoned(l) \/ ListExpiredRunning(l) \/ ListUnenqueued(l)
            \/ ListStuckRetrying(l)
  <2>1. row' = row
    BY <1>11 DEF ReapAbandoned, ListExpiredRunning, ListUnenqueued, ListStuckRetrying,
        storeVars
  <2>2. PICK head \in {"reap", "sweep", "orphan", "stuck"} : \E batch : StartDuty(l, head, batch)
    BY <1>11 DEF ReapAbandoned, ListExpiredRunning, ListUnenqueued, ListStuckRetrying
  <2>3. PICK batch : StartDuty(l, head, batch)
    BY <2>2
  <2>4. leader'[l] = [at |-> head, todo |-> batch, cur |-> NoDelivery]
    BY <1>0, <2>3, LoopFields
  <2>5. leader'[l].at = head
    BY <2>4
  <2>. QED BY <1>4, <1>6, <2>1, <2>2, <2>5
<1>12. ASSUME NEW d \in leader[l].todo, NEW at, Take(l, d, at)
       PROVE  leader'[l].at = at /\ leader'[l].cur = d
  <2>1. leader'[l] = [at |-> at, todo |-> leader[l].todo \ {d}, cur |-> d]
    BY <1>0, <1>12, LoopFields
  <2>. QED BY <2>1
<1>13. ASSUME NEW at, LeaderGoes(l, at)
       PROVE  leader'[l].at = at /\ leader'[l].cur = leader[l].cur
  <2>1. leader'[l] = [at |-> at, todo |-> leader[l].todo, cur |-> leader[l].cur]
    BY <1>0, <1>13, LoopFields
  <2>. QED BY <2>1
<1>14. CASE ReapOne(l) \/ SweepOne(l)
  <2>1. PICK d \in leader[l].todo :
          /\ Store!ReapJob(d.job) \/ UNCHANGED storeVars
          /\ \/ \E at \in {"handoff", "classify", "sweepHandoff"} : Take(l, d, at)
             \/ Take(l, d, "ack") /\ Store!ReapJob(d.job)
             \/ Skip(l, d)
    BY <1>14 DEF ReapOne, SweepOne
  <2>2. leader'[l].at \in {"idle", "reap", "sweep", "handoff", "classify", "sweepHandoff", "ack"}
    <3>1. Skip(l, d) => leader'[l].at \in {"idle", "reap", "sweep"}
      BY <1>0, <1>14, LoopFields DEF ReapOne, SweepOne
    <3>. QED BY <1>12, <2>1, <3>1
  <2>3. row'[j].status = "PENDING" /\ Receipted(j)'
    BY <1>1, <1>3, <2>2 DEF OnlyByDelivery, Flipping
  <2>4. row'[j] = row[j] /\ (Store!ReapJob(d.job) => d.job # j)
    <3>1. Store!ReapJob(d.job) => row'[d.job].status # "PENDING"
      BY <1>0, <1>2, ReapRow
    <3>. QED BY <1>0, <1>2, <2>1, <2>3, <3>1, ReapRow DEF storeVars
  <2>5. OnlyByDelivery(j)
    BY <1>1, <2>2, <2>3, <2>4 DEF OnlyByDelivery, Receipted
  <2>6. leader'[l].at = "ack" => leader'[l].cur = d /\ d.job # j
    <3>1. Skip(l, d) => leader'[l].at # "ack"
      BY <1>0, <1>14, LoopFields DEF ReapOne, SweepOne
    <3>. QED BY <1>12, <2>1, <2>4, <3>1
  <2>. QED BY <1>4, <2>5, <2>6
<1>15. CASE ReapHandoff(l)
  <2>1. row' = row /\ LeaderGoes(l, "ack") /\ Enqueue(leader[l].cur.job, "delayed")
    BY <1>15 DEF ReapHandoff, storeVars, ScheduleRetry, CrashesOnly, Fault
  <2>2. leader'[l].at = "ack" /\ leader'[l].cur = leader[l].cur
    BY <1>13, <2>1
  <2>3. CASE leader[l].cur.job = j
    BY <1>5, <2>1, <2>2, <2>3
  <2>4. CASE leader[l].cur.job # j
    BY <1>4, <1>6, <2>1, <2>2, <2>4
  <2>. QED BY <2>3, <2>4
<1>16. CASE Classify(l)
  <2>1. row' = row
    BY <1>16 DEF Classify, storeVars
  <2>2. CASE \E head : head = "reap" /\ Continue(l, head)
    <3>1. leader'[l].at \in {"idle", "reap"}
      BY <1>0, <2>2, LoopFields
    <3>. QED BY <1>4, <1>6, <2>1, <3>1
  <2>3. CASE LeaderGoes(l, "reenqueue")
    <3>1. leader'[l].at = "reenqueue"
      BY <1>13, <2>3
    <3>. QED BY <1>4, <1>6, <2>1, <3>1
  <2>4. CASE LeaderGoes(l, "ack") /\ row[leader[l].cur.job].status # "PENDING"
    <3>1. leader'[l].at = "ack" /\ leader'[l].cur = leader[l].cur
      BY <1>13, <2>4
    <3>2. row'[j].status = "PENDING"
      BY <1>1, <1>3, <3>1 DEF OnlyByDelivery, Flipping
    <3>. QED BY <1>4, <1>6, <2>1, <2>4, <3>1, <3>2
  <2>. QED BY <1>16, <2>2, <2>3, <2>4 DEF Classify
<1>17. CASE Reenqueue(l)
  <2>1. row' = row /\ LeaderGoes(l, "ack") /\ Enqueue(leader[l].cur.job, "ready")
    BY <1>17 DEF Reenqueue, storeVars, CrashesOnly, Fault
  <2>2. leader'[l].at = "ack" /\ leader'[l].cur = leader[l].cur
    BY <1>13, <2>1
  <2>3. CASE leader[l].cur.job = j
    BY <1>5, <2>1, <2>2, <2>3
  <2>4. CASE leader[l].cur.job # j
    BY <1>4, <1>6, <2>1, <2>2, <2>4
  <2>. QED BY <2>3, <2>4
<1>18. CASE ReapAck(l) \/ SweepHandoff(l)
  <2>1. leader'[l].at \in {"idle", "reap", "sweep"} /\ row' = row
    BY <1>0, <1>18, LoopFields DEF ReapAck, SweepHandoff, storeVars
  <2>. QED BY <1>4, <1>6, <2>1
<1>19. CASE RepairEnqueue(l)
  <2>1. PICK d \in leader[l].todo :
          /\ Enqueue(d.job, "ready")
          /\ Take(l, d, IF leader[l].at = "orphan" THEN "orphanMark" ELSE "stuckMark")
    BY <1>19 DEF RepairEnqueue, CrashesOnly, Fault
  <2>2. leader'[l].at \in {"orphanMark", "stuckMark"} /\ leader'[l].cur = d
    BY <1>12, <2>1
  <2>3. row' = row
    BY <1>19 DEF RepairEnqueue, storeVars
  <2>4. CASE d.job = j
    BY <1>5, <2>1, <2>2, <2>4
  <2>5. CASE d.job # j
    BY <1>4, <1>6, <2>2, <2>3, <2>5
  <2>. QED BY <2>4, <2>5
<1>20. CASE LeaderCrash(l)
  <2>1. leader'[l] = IdleLeader /\ row' = row
    BY <1>0, <1>20 DEF LeaderCrash, LeadersOK, storeVars
  <2>2. leader'[l].at = "idle"
    BY <2>1 DEF IdleLeader
  <2>. QED BY <1>4, <1>6, <2>1, <2>2
<1>. QED BY <1>7, <1>8, <1>9, <1>10, <1>11, <1>14, <1>15, <1>16, <1>17, <1>18, <1>19, <1>20
     DEF LeaderNext

\* A request asks for the receipt of what it has put on the wire, and the row
\* it inserts has none.
LEMMA CallBacks ==
    ASSUME CrashesOnly, CrashInv, NEW c \in Calls, CallNext(c)
    PROVE  Backed'
<1>0. Base /\ IInv /\ EntriesOK /\ LeadersOK /\ CallsOK /\ Table!TypeOK
  BY DEF CrashInv, Base, IInv, Table!IInv
<1>1. Next /\ UNCHANGED <<runner, leader>>
  BY NextByProcess, OthersApart
<1>2. \A b \in Calls : b # c => call'[b] = call[b]
  BY <1>0 DEF CallNext, Submit, Requeue, CallEnqueue, CallEnqueueFails, CallReceipt,
      CancelLoad, CancelWaiting, RaiseFlag, CallCrash, CallGoes, CallEnds, CallsOK
<1>3. SUFFICES ASSUME NEW j \in Jobs, OnlyByDelivery(j)' PROVE Kept(j)'
  BY DEF Backed
<1>4. ASSUME OnlyByDelivery(j) PROVE Kept(j)'
  <2>1. Kept(j)
    BY <1>4 DEF CrashInv, Backed
  <2>2. \A e \in Entries : Doomed(e)' => Doomed(e)
    BY <1>1 DEF Doomed
  <2>. QED BY <1>0, <1>1, <2>1, <2>2, KeptStays
<1>5. ASSUME row'[j].status = row[j].status, row'[j].enq = row[j].enq,
             call'[c].at = "receipt" => call'[c].job # j
      PROVE  OnlyByDelivery(j)
  BY <1>1, <1>2, <1>3, <1>5 DEF OnlyByDelivery, Receipted, Flipping
<1>6. ASSUME CallEnds(c) PROVE call'[c].at = "idle"
  BY <1>0, <1>6 DEF CallEnds, CallsOK, IdleCall
<1>7. ASSUME NEW at, NEW k, CallGoes(c, at, k) PROVE call'[c].at = at /\ call'[c].job = k
  BY <1>0, <1>7 DEF CallGoes, CallsOK
<1>8. CASE Submit(c)
  <2>1. PICK k \in Jobs, max \in 1 .. MaxAttemptsCeiling :
          Store!CreateJob(k, max) /\ CallGoes(c, "submitted", k)
    BY <1>8 DEF Submit
  <2>2. call'[c].at = "submitted"
    BY <1>7, <2>1
  <2>3. CASE k # j
    <3>1. row'[j] = row[j]
      BY <1>0, <2>1, <2>3 DEF Store!CreateJob, Table!TypeOK
    <3>. QED BY <1>4, <1>5, <2>2, <3>1
  <2>4. CASE k = j
    <3>1. row'[j].status = "PENDING" /\ row'[j].enq = FALSE
      BY <1>0, <2>1, <2>4 DEF Store!CreateJob, Store!NoRow, Table!TypeOK
    <3>2. j \notin Existing
      BY <2>1, <2>4 DEF Store!CreateJob, Existing
    <3>3. ~ \E b \in Calls : call'[b].at = "receipt" /\ call'[b].job = j
      BY <1>0, <1>2, <2>2, <3>2 DEF CallsOK
    <3>4. ~ \E l \in Leaders : leader'[l].at = "orphanMark" /\ leader'[l].cur.job = j
      BY <1>0, <1>1, <3>2 DEF LeadersOK, LeaderFits, PerDelivery
    <3>. QED BY <1>3, <3>1, <3>3, <3>4 DEF OnlyByDelivery, Receipted
  <2>. QED BY <2>3, <2>4
<1>9. CASE Requeue(c)
  <2>1. PICK k \in Jobs : Store!RequeueDeadLetter(k)
    BY <1>9 DEF Requeue
  <2>2. row[k].epoch \in Nat /\ row[k].epoch < 0
    BY <1>0, <2>1 DEF Store!RequeueDeadLetter, CrashesOnly, Table!TypeOK, Table!Rows
  <2>. QED BY <2>2
<1>10. CASE CallEnqueue(c)
  <2>1. row' = row /\ CallGoes(c, "receipt", call[c].job)
    BY <1>10 DEF CallEnqueue, storeVars
  <2>2. call'[c].job = call[c].job
    BY <1>7, <2>1
  <2>3. CASE call[c].job # j
    BY <1>4, <1>5, <2>1, <2>2, <2>3
  <2>4. CASE call[c].job = j
    <3>1. PICK place \in {"delayed", "ready"} : Enqueue(j, place)
      BY <1>10, <2>4 DEF CallEnqueue
    <3>2. Adds(j, place)
      BY <1>0, <3>1, EnqueueAdds
    <3>. QED BY <1>0, <1>1, <3>2, AddsKept
  <2>. QED BY <2>3, <2>4
<1>11. CASE CallReceipt(c)
  <2>1. call'[c].at = "idle" /\ call[c].at = "receipt"
    BY <1>6, <1>11 DEF CallReceipt
  <2>2. row'[j].status = row[j].status /\ (row'[j].enq => row[j].enq \/ call[c].job = j)
    BY <1>0, <1>11 DEF CallReceipt, Store!SetEnqueued, storeVars, Table!TypeOK, Table!Rows
  <2>3. OnlyByDelivery(j)
    BY <1>1, <1>2, <1>3, <2>1, <2>2 DEF OnlyByDelivery, Receipted, Flipping
  <2>. QED BY <1>4, <2>3
<1>12. CASE CancelWaiting(c)
  <2>1. call'[c].at \in {"idle", "raiseFlag"}
    BY <1>6, <1>7, <1>12 DEF CancelWaiting
  <2>2. row'[j] = row[j] \/ row'[j].status = "CANCELLED"
    BY <1>0, <1>12 DEF CancelWaiting, Store!CancelJob, storeVars, Table!TypeOK, Table!Rows
  <2>3. row'[j] = row[j]
    BY <1>3, <2>2 DEF OnlyByDelivery
  <2>. QED BY <1>4, <1>5, <2>1, <2>3
<1>13. CASE CancelLoad(c) \/ CallEnqueueFails(c) \/ RaiseFlag(c) \/ CallCrash(c)
  <2>1. row' = row /\ call'[c].at # "receipt"
    <3>1. row' = row
      BY <1>13 DEF CancelLoad, CallEnqueueFails, RaiseFlag, CallCrash, storeVars
    <3>2. \/ CallEnds(c)
          \/ \E at \in {"cancelWaiting", "raiseFlag"}, k \in Jobs : CallGoes(c, at, k)
      BY <1>13 DEF CancelLoad, CallEnqueueFails, RaiseFlag, CallCrash
    <3>. QED BY <1>6, <1>7, <3>1, <3>2
  <2>. QED BY <1>4, <1>5, <2>1
<1>. QED BY <1>8, <1>9, <1>10, <1>11, <1>12, <1>13 DEF CallNext

\* Every step preserves the invariant, a death in any window included.
LEMMA CrashInvStep == CrashesOnly /\ CrashInv /\ [Next]_vars => CrashInv'
<1> SUFFICES ASSUME CrashesOnly, CrashInv, [Next]_vars PROVE CrashInv'
  OBVIOUS
<1>1. Base'
  BY BaseStep DEF CrashInv
<1>2. CASE UNCHANGED vars
  <2>1. Owned'
    BY <1>2 DEF CrashInv, Owned, vars
  <2>2. StillFenced'
    BY <1>2 DEF CrashInv, StillFenced, vars, Store!Fence, Store!Holds, Store!NoClaim
  <2>3. Backed'
    BY <1>2 DEF CrashInv, Backed, vars, OnlyByDelivery, Receipted, Flipping, Kept, Doomed
  <2>. QED BY <1>1, <2>1, <2>2, <2>3 DEF CrashInv
<1>3. CASE Next
  <2>1. Owned' /\ StillFenced'
    BY <1>3, OwnedStep, StillFencedStep DEF CrashInv, CrashesOnly
  <2>2. ASSUME NEW k \in Jobs, LeaseExpires(k) PROVE Backed'
    <3>1. \A j \in Jobs : row'[j].status = row[j].status /\ row'[j].enq = row[j].enq
      BY <2>2 DEF LeaseExpires, Store!LeaseExpires, CrashInv, Base, IInv, Table!IInv,
          Table!TypeOK, Table!Rows
    <3>. QED BY <2>2, <3>1 DEF LeaseExpires, CrashInv, Backed, OnlyByDelivery, Receipted,
          Flipping, Kept, Doomed
  <2>. QED BY <1>1, <1>3, <2>1, <2>2, RunnerBacks, LeaderBacks, CallBacks, NextByProcess
       DEF CrashInv
<1>. QED BY <1>2, <1>3

\* It holds of the empty system.
LEMMA InitCrashInv == Init => CrashInv
<1>1. Init => Owned /\ StillFenced
  BY DEF Init, Owned, StillFenced, IdleRunner
<1>2. Init => Backed
  BY DEF Init, Backed, OnlyByDelivery, Store!Init, Store!NoRow, Store!Absent
<1>. QED BY <1>1, <1>2, InitBase DEF CrashInv

\* A job is executed by one worker at a time.
OneExecution ==
    \A r, s \in Runners :
        runner[r].at = "run" /\ runner[s].at = "run" /\ runner[r].d.job = runner[s].d.job => r = s

\* While live workers renew their leases in time, no two of them execute the
\* same job at the same moment, whatever else happens: duplicate envelopes,
\* two leaders, failing commands and statements, crashes, requeues, cancels.
\* Only a worker that stalls past its lease can overlap with its successor,
\* and ClaimsExclusive says what then becomes of its outcome.
THEOREM PromptWorkersExclusive == Prompt => (Spec => []OneExecution)
<1> SUFFICES ASSUME Prompt PROVE Spec => []OneExecution
  OBVIOUS
<1>. DEFINE Inv == Base /\ StillFenced
<1>1. Inv => OneExecution
  <2> SUFFICES ASSUME Inv, NEW r \in Runners, NEW s \in Runners, r # s,
                      runner[r].at = "run", runner[s].at = "run"
               PROVE  runner[r].d.job # runner[s].d.job
    BY DEF OneExecution
  <2>1. Store!Fence(r) /\ Store!Fence(s)
    BY DEF StillFenced
  <2>2. claim[r].job # claim[s].job
    BY <2>1, OthersFence
  <2>. QED BY <2>1, <2>2 DEF Base, ClaimsMatch, Store!Fence
<1>2. Inv /\ [Next]_vars => Inv'
  <2> SUFFICES ASSUME Inv, [Next]_vars PROVE Inv'
    OBVIOUS
  <2>1. Base'
    BY BaseStep
  <2>2. CASE UNCHANGED vars
    BY <2>1, <2>2 DEF StillFenced, vars, Store!Fence, Store!Holds, Store!NoClaim
  <2>3. CASE Next
    BY <2>1, <2>3, StillFencedStep
  <2>. QED BY <2>2, <2>3
<1>3. Init => Inv
  BY InitCrashInv DEF CrashInv
<1>. QED BY <1>1, <1>2, <1>3, PTL DEF Spec

\* No crash strands a job.  With one leader, workers that renew in time while
\* they live, a Redis that takes its commands, no batch that is committed and
\* not confirmed (which makes finish() skip the ZADD of a retry and ack) and no
\* requeues, processes may die in every window between Postgres and Redis, any
\* number of times, and any statement may fail, before its effect or after: a
\* PENDING job with a receipt always has an envelope in Redis that nobody is
\* about to ack.
THEOREM CrashesStrandNothing == CrashesOnly => (Spec => []NoStrandedJob)
<1> SUFFICES ASSUME CrashesOnly PROVE Spec => []NoStrandedJob
  OBVIOUS
<1>1. CrashInv => NoStrandedJob
  <2> SUFFICES ASSUME CrashInv, NEW j \in Jobs, row[j].status = "PENDING", row[j].enq
               PROVE  \E e \in Entries : entry[e].job = j
    BY DEF NoStrandedJob
  <2>1. Kept(j)
    BY DEF CrashInv, Backed, OnlyByDelivery, Receipted
  <2>. QED BY <2>1 DEF Kept
<1>2. CrashInv /\ [Next]_vars => CrashInv'
  BY CrashInvStep
<1>. QED BY <1>1, <1>2, InitCrashInv, PTL DEF Spec

==============================================================================
