------------------------------- MODULE Control -------------------------------
(***************************************************************************)
(* The control plane: the hub inside the API (control/server.go), one      *)
(* worker's client that keeps a stream to it (control/client.go), the      *)
(* operator's commands (the control endpoints of api/server.go), and the   *)
(* two hands on the pool's target, the operator's and the autoscaler's.    *)
(*                                                                         *)
(* A session stands for one stream.  The network may cut it, the two ends  *)
(* notice independently, and the client may be back with a new one before  *)
(* the hub has noticed the loss of the old.  Stats and acks change nothing *)
(* that a decision reads and are left out; Pause and Resume travel like    *)
(* SetConcurrency and set the flag of Worker's SetPaused.  Workers share   *)
(* no state in the hub, so one is enough.                                  *)
(***************************************************************************)
EXTENDS Integers, Sequences

CONSTANTS
    MinConcurrency, MaxConcurrency, GrowAt, IdleAfter, Backlogs, Loads,
                 \* see Autoscaler
    Sessions,    \* bound: tokens for the streams that exist at a time
    NoSession,
    Concurrency, \* the target the worker starts with
    Targets,     \* the concurrencies an operator may ask for, Go ints
    Int32Half,   \* 2^31; a bound that is within TLC's reach in the runs
    CmdCap,      \* capacity of a session's command channel
    WireCap,     \* bound: commands on a stream, sent and not received
    MaxFaults    \* bound: cut streams and API restarts

ASSUME ControlConstantsOK ==
    /\ MinConcurrency \in Nat \ {0}
    /\ MaxConcurrency \in Nat /\ MinConcurrency <= MaxConcurrency
    /\ GrowAt \in Nat \ {0} /\ IdleAfter \in Nat \ {0}
    /\ Backlogs \subseteq Nat /\ Loads \subseteq Nat
    /\ NoSession \notin Sessions
    /\ Concurrency \in MinConcurrency .. MaxConcurrency
    /\ Targets \subseteq Int /\ Int32Half \in Nat \ {0}
    /\ CmdCap \in Nat \ {0} /\ WireCap \in Nat \ {0}
    /\ MaxFaults \in Nat

VARIABLES
    target, scaler, lulls,   \* as in Autoscaler
    drained,           \* OnDrain was called: the run context is cancelled
    registered,        \* Hub.sessions[worker]
    session,           \* session[s]: the handler of stream s and its channels
    client,            \* the session the client is on, or NoSession
    sending,           \* Hub.send between its lookup and its push
    faults

Scaler == INSTANCE Autoscaler

hubVars == <<registered, session, sending>>
vars == <<target, scaler, lulls, drained, hubVars, client, faults>>

------------------------------------------------------------------------------
(* State.                                                                    *)

\* Go's conversion int32(n): the low 32 bits, as a signed number.
Int32(n) == ((n + Int32Half) % (2 * Int32Half)) - Int32Half

\* Hub.Drain and Hub.SetConcurrency, which refuses a target below 1 and then
\* narrows it, so that what the worker is sent may be below 1 after all.
Commands ==
    [cmd : {"drain"}, n : {0}] \cup
    [cmd : {"setConcurrency"}, n : {Int32(n) : n \in {t \in Targets : t >= 1}}]

NoCommand == [cmd |-> "none", n |-> 0]

\* `at`: "hello", the hello is on its way; "open", WorkerStream serves; "ending",
\* it has left its select; "closed", it has returned.  `up`: the stream works.
\* cmds and done are the session's channels, wire what was sent on the stream.
SessionStates ==
    [at : {"free", "hello", "open", "ending", "closed"}, up : BOOLEAN, done : BOOLEAN,
     cmds : Seq(Commands), wire : Seq(Commands)]

FreeSession == [at |-> "free", up |-> FALSE, done |-> FALSE, cmds |-> <<>>, wire |-> <<>>]

TypeOK ==
    /\ Scaler!ScalerTypeOK
    /\ drained \in BOOLEAN
    /\ registered \in Sessions \cup {NoSession}
    /\ session \in [Sessions -> SessionStates]
    /\ \A s \in Sessions : Len(session[s].cmds) <= CmdCap
    /\ client \in Sessions \cup {NoSession}
    /\ sending \in [to : Sessions \cup {NoSession}, cmd : Commands \cup {NoCommand}]
    /\ faults \in 0 .. MaxFaults

NotSending == [to |-> NoSession, cmd |-> NoCommand]

Init ==
    /\ target = Concurrency
    /\ Scaler!ScalerInit
    /\ drained = FALSE
    /\ registered = NoSession
    /\ session = [s \in Sessions |-> FreeSession]
    /\ client = NoSession
    /\ sending = NotSending
    /\ faults = 0

Fault == faults < MaxFaults /\ faults' = faults + 1

poolVars == <<target, scaler, lulls, drained>>

------------------------------------------------------------------------------
(* The worker's client.                                                      *)

\* connectOnce up to the hello.  After a lost stream Run waits and tries again,
\* until the run context is cancelled.
Connect(s) ==
    /\ client = NoSession
    /\ ~drained
    /\ session[s].at = "free" /\ sending.to # s
    /\ client' = s
    /\ session' = [session EXCEPT ![s] = [FreeSession EXCEPT !.at = "hello", !.up = TRUE]]
    /\ UNCHANGED <<poolVars, registered, sending, faults>>

\* Recv fails, or the run context is cancelled: connectOnce closes the
\* connection and returns.
Disconnect ==
    /\ client # NoSession
    /\ ~session[client].up \/ drained
    /\ session' = [session EXCEPT ![client].up = FALSE, ![client].wire = <<>>]
    /\ client' = NoSession
    /\ UNCHANGED <<poolVars, registered, sending, faults>>

\* Variant: a drain command is acked, and OnDrain is not called.
DispatchIgnoresDrain ==
    /\ client # NoSession
    /\ session[client].wire # <<>>
    /\ ~drained
    /\ LET c == Head(session[client].wire) IN
       IF c.cmd = "setConcurrency" THEN Scaler!SetTarget(c.n) ELSE UNCHANGED target
    /\ session' = [session EXCEPT ![client].wire = Tail(session[client].wire)]
    /\ UNCHANGED <<scaler, lulls, drained, registered, client, sending, faults>>

\* Recv and dispatch.
Dispatch ==
    /\ client # NoSession
    /\ session[client].wire # <<>>
    /\ ~drained
    /\ LET c == Head(session[client].wire) IN
       /\ drained' = (c.cmd = "drain")
       /\ IF c.cmd = "setConcurrency" THEN Scaler!SetTarget(c.n) ELSE UNCHANGED target
    /\ session' = [session EXCEPT ![client].wire = Tail(session[client].wire)]
    /\ UNCHANGED <<scaler, lulls, registered, client, sending, faults>>

------------------------------------------------------------------------------
(* The hub.                                                                  *)

\* WorkerStream has the hello: register, which severs the session it replaces.
Register(s) ==
    /\ session[s].at = "hello"
    /\ session' = [t \in Sessions |->
                     IF t = s THEN [session[t] EXCEPT !.at = "open"]
                     ELSE IF t = registered THEN [session[t] EXCEPT !.done = TRUE]
                     ELSE session[t]]
    /\ registered' = s
    /\ UNCHANGED <<poolVars, client, sending, faults>>

\* The hello never arrives: Recv returns an error and so does WorkerStream.
HelloLost(s) ==
    /\ session[s].at = "hello"
    /\ ~session[s].up
    /\ session' = [session EXCEPT ![s].at = "closed"]
    /\ UNCHANGED <<poolVars, registered, client, sending, faults>>

\* The sender goroutine.  Its select may still take a command of a session that
\* is done; a Send on a broken stream fails and ends the session.
SendCommand(s) ==
    /\ session[s].at \in {"open", "ending"}
    /\ session[s].cmds # <<>>
    /\ Len(session[s].wire) < WireCap
    /\ session' = [session EXCEPT ![s].cmds = Tail(session[s].cmds),
                                  ![s].wire = IF session[s].up
                                              THEN Append(session[s].wire, Head(session[s].cmds))
                                              ELSE <<>>]
    /\ UNCHANGED <<poolVars, registered, client, sending, faults>>

\* Variant: WorkerStream does not watch sess.done.
EndSessionNotEvicted(s) ==
    /\ session[s].at = "open"
    /\ ~session[s].up
    /\ session' = [session EXCEPT ![s].at = "ending"]
    /\ UNCHANGED <<poolVars, registered, client, sending, faults>>

\* WorkerStream leaves its select: the stream is broken, or it was evicted.
EndSession(s) ==
    /\ session[s].at = "open"
    /\ ~session[s].up \/ session[s].done
    /\ session' = [session EXCEPT ![s].at = "ending"]
    /\ UNCHANGED <<poolVars, registered, client, sending, faults>>

\* Variant: the worker's entry is removed whoever holds it.
UnregisterAny(s) ==
    /\ session[s].at = "ending"
    /\ session' = [session EXCEPT ![s].at = "closed", ![s].done = TRUE, ![s].up = FALSE,
                                  ![s].cmds = <<>>]
    /\ registered' = NoSession
    /\ UNCHANGED <<poolVars, client, sending, faults>>

\* Variant: the entry stays until another session replaces it.
UnregisterNothing(s) ==
    /\ session[s].at = "ending"
    /\ session' = [session EXCEPT ![s].at = "closed", ![s].done = TRUE, ![s].up = FALSE,
                                  ![s].cmds = <<>>]
    /\ UNCHANGED <<poolVars, registered, client, sending, faults>>

\* The deferred unregister, and the end of the stream.
Unregister(s) ==
    /\ session[s].at = "ending"
    /\ session' = [session EXCEPT ![s].at = "closed", ![s].done = TRUE, ![s].up = FALSE,
                                  ![s].cmds = <<>>]
    /\ registered' = IF registered = s THEN NoSession ELSE registered
    /\ UNCHANGED <<poolVars, client, sending, faults>>

\* A closed session that neither end remembers.
Forget(s) ==
    /\ session[s].at = "closed" /\ client # s /\ sending.to # s
    /\ session' = [session EXCEPT ![s] = FreeSession]
    /\ UNCHANGED <<poolVars, registered, client, sending, faults>>

------------------------------------------------------------------------------
(* The operator: the control endpoints and Hub.send.                         *)

\* The lookup, under the lock.  Without a session the request fails.
Lookup(c) ==
    /\ sending = NotSending
    /\ registered # NoSession
    /\ sending' = [to |-> registered, cmd |-> c]
    /\ UNCHANGED <<poolVars, registered, session, client, faults>>

\* Variant: the command channel takes any number.
PushUnbounded ==
    /\ sending # NotSending
    /\ session' = [session EXCEPT ![sending.to].cmds =
                        Append(session[sending.to].cmds, sending.cmd)]
    /\ sending' = NotSending
    /\ UNCHANGED <<poolVars, registered, client, faults>>

\* The push, after the lock was released: the session may be gone by now.  A
\* full channel refuses the command.
Push ==
    /\ sending # NotSending
    /\ IF Len(session[sending.to].cmds) < CmdCap /\ session[sending.to].at # "closed"
       THEN session' = [session EXCEPT ![sending.to].cmds =
                            Append(session[sending.to].cmds, sending.cmd)]
       ELSE UNCHANGED session
    /\ sending' = NotSending
    /\ UNCHANGED <<poolVars, registered, client, faults>>

------------------------------------------------------------------------------
(* What goes wrong.                                                          *)

\* The network drops the stream; what is on it is lost.
CutStream(s) ==
    /\ session[s].up
    /\ Fault
    /\ session' = [session EXCEPT ![s].up = FALSE, ![s].wire = <<>>]
    /\ UNCHANGED <<poolVars, registered, client, sending>>

\* The API process ends and another starts with an empty hub.
ApiRestart ==
    /\ Fault
    /\ registered' = NoSession
    /\ session' = [s \in Sessions |-> IF session[s].at = "free" THEN FreeSession
                                      ELSE [FreeSession EXCEPT !.at = "closed"]]
    /\ sending' = NotSending
    /\ UNCHANGED <<poolVars, client>>

------------------------------------------------------------------------------

Scale ==
    /\ ~drained
    /\ Scaler!ScalerNext
    /\ UNCHANGED <<drained, hubVars, client, faults>>

HubStep(s) ==
    Register(s) \/ HelloLost(s) \/ SendCommand(s) \/ EndSession(s) \/ Unregister(s) \/ Forget(s)

ClientStep == Disconnect \/ Dispatch \/ \E s \in Sessions : Connect(s)

Next ==
    \/ ClientStep \/ Push \/ Scale \/ ApiRestart
    \/ \E s \in Sessions : HubStep(s) \/ CutStream(s)
    \/ \E c \in Commands : Lookup(c)

\* The goroutines of both ends are scheduled, and the client's backoff ends.
Fairness ==
    /\ WF_vars(ClientStep)
    /\ \A s \in Sessions : WF_vars(HubStep(s))

Spec == Init /\ [][Next]_vars /\ Fairness

------------------------------------------------------------------------------
(* Properties.                                                               *)

\* The hub never offers a session whose handler has returned or that was told
\* to end: a command sent there would be acknowledged to the operator and
\* reach nobody.
RegisteredIsLive ==
    registered # NoSession =>
        session[registered].at \in {"open", "ending"} /\ ~session[registered].done

\* "Only remove OUR session -- a replacement may already be registered"
\* (server.go:185): a session that serves and was not told to end is the one
\* the hub knows, however the teardown of its predecessors is interleaved.
ServingIsRegistered ==
    \A s \in Sessions : session[s].at = "open" /\ ~session[s].done => registered = s

\* The reconnect loop does its job: once the streams hold, the worker ends up
\* connected and known to the hub, unless it drains.  In particular a client
\* whose session was evicted, even by a late hello of its own, learns of it.
EventuallyConnected ==
    <>[](\/ drained
         \/ client # NoSession /\ registered = client /\ session[client].at = "open")

\* A drain command that a serving session has taken is carried out, or the
\* stream is lost on the way.
DrainIsCarriedOut ==
    \A s \in Sessions :
        (/\ session[s].at = "open" /\ client = s
         /\ \E i \in DOMAIN session[s].cmds : session[s].cmds[i].cmd = "drain")
        ~> (drained \/ client # s)

\* The autoscaler shrinks a pool only after IdleAfter idle observations in a row
\* (Autoscaler says of which decisions), with the operator's commands moving the
\* same target between its reads and its writes.
ShrinkIsReluctant == Scaler!ShrinkIsReluctant

==============================================================================
