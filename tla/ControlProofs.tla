---------------------------- MODULE ControlProofs ----------------------------
(***************************************************************************)
(* Proofs about Control, for any number of sessions, any capacities, any   *)
(* targets and any number of cut streams and restarts of the API.          *)
(*                                                                         *)
(* The two facts about the hub need each other: a hello that registers     *)
(* severs the session it replaces, so the one it replaces must be the only *)
(* one that still serves.  HelloIsFresh adds that nobody severs a session  *)
(* before it has registered.  The autoscaler's part is apart: idleTicks    *)
(* never exceeds the idle observations in a row.                           *)
(***************************************************************************)
EXTENDS Control, TLAPS

\* register severs only what was registered.
HelloIsFresh == \A s \in Sessions : session[s].at = "hello" => ~session[s].done

\* Hub.send between lookup and push holds a session, and nothing else does.
SendHasSession == sending # NotSending => sending \in [to : Sessions, cmd : Commands]

\* idleTicks counts idle observations in a row, and a decision to shrink a pool
\* in range has spent all of them.
IdleIsCounted ==
    /\ scaler.idleTicks <= lulls
    /\ scaler.at = "decided" /\ scaler.next < scaler.cur =>
          /\ scaler.idleTicks = 0
          /\ scaler.cur <= MaxConcurrency => lulls >= IdleAfter

HubInv ==
    /\ RegisteredIsLive
    /\ ServingIsRegistered
    /\ HelloIsFresh
    /\ SendHasSession

IInv == TypeOK /\ HubInv /\ IdleIsCounted

------------------------------------------------------------------------------
(* The inductive invariant.                                                  *)

\* Whatever the narrowing of a target yields, it is a number.
LEMMA CommandsNumbered == \A c \in Commands : c.n \in Int
<1>1. ASSUME NEW n \in Int PROVE Int32(n) \in Int
  <2>1. /\ n + Int32Half \in Int /\ 2 * Int32Half \in Nat /\ 2 * Int32Half > 0
        /\ Int32Half \in Int
    BY ControlConstantsOK
  <2>2. \A a \in Int, b \in Nat : b > 0 => a % b \in Int
    OBVIOUS
  <2>3. (n + Int32Half) % (2 * Int32Half) \in Int
    BY <2>1, <2>2
  <2>. QED BY <2>1, <2>3 DEF Int32
<1>2. \A t \in Targets : Int32(t) \in Int
  BY <1>1, ControlConstantsOK
<1>. QED BY <1>2 DEF Commands

\* Both ends as they start satisfy the inductive invariant.
LEMMA InitIInv == Init => IInv
<1> SUFFICES ASSUME Init PROVE IInv
  OBVIOUS
<1> USE ControlConstantsOK DEF Init, Scaler!ScalerInit
<1>1. Scaler!ScalerTypeOK
  BY DEF Scaler!ScalerTypeOK
<1>2. TypeOK
  <2>1. FreeSession \in SessionStates /\ FreeSession.cmds = <<>>
    BY DEF FreeSession, SessionStates
  <2>2. /\ session \in [Sessions -> SessionStates]
        /\ \A s \in Sessions : Len(session[s].cmds) <= CmdCap
    BY <2>1
  <2>3. sending \in [to : Sessions \cup {NoSession}, cmd : Commands \cup {NoCommand}]
    BY DEF NotSending
  <2>4. drained \in BOOLEAN
    BY Zenon
  <2>. QED BY <1>1, <2>2, <2>3, <2>4 DEF TypeOK
<1>. QED BY <1>2 DEF IInv, HubInv, RegisteredIsLive, ServingIsRegistered, HelloIsFresh,
         SendHasSession, IdleIsCounted, FreeSession

\* One interval of the autoscaler preserves the scaler's part.
LEMMA ScaleIInv == IInv /\ Scale => IInv'
<1> SUFFICES ASSUME IInv, Scale PROVE IInv'
  OBVIOUS
<1> USE ControlConstantsOK
<1>1. ASSUME NEW ready \in Backlogs, NEW active \in Loads, Scaler!ScaleDecide(ready, active)
      PROVE  Scaler!ScalerTypeOK' /\ IdleIsCounted'
  <2> DEFINE d == Scaler!Decide(ready, active)
  <2>1. /\ target \in Nat \ {0} /\ scaler.idleTicks \in 0 .. IdleAfter
        /\ lulls \in 0 .. IdleAfter /\ scaler.idleTicks <= lulls
        /\ ready \in Nat /\ active \in Nat
    BY DEF IInv, TypeOK, Scaler!ScalerTypeOK, IdleIsCounted
  <2>2. /\ scaler' = [at |-> "decided", cur |-> target, next |-> d.next,
                      idleTicks |-> d.idleTicks]
        /\ target' = target
        /\ lulls' = IF target < MinConcurrency THEN lulls
                    ELSE IF ready = 0 /\ active < target THEN Scaler!AtMost(IdleAfter, lulls + 1)
                    ELSE 0
    BY <1>1 DEF Scaler!ScaleDecide
  <2> HIDE DEF d
  <2>3. /\ d.next \in Nat /\ d.idleTicks \in 0 .. IdleAfter /\ lulls' \in 0 .. IdleAfter
        /\ d.idleTicks <= lulls'
        /\ d.next < target => /\ d.idleTicks = 0
                              /\ target <= MaxConcurrency => lulls' >= IdleAfter
    <3>1. CASE target < MinConcurrency
      <4>1. d = [next |-> MinConcurrency, idleTicks |-> scaler.idleTicks]
        BY <3>1 DEF d, Scaler!Decide
      <4>. QED BY <2>1, <2>2, <3>1, <4>1
    <3>2. CASE ~(target < MinConcurrency) /\ ready >= GrowAt * target
      <4>1. d = [next |-> Scaler!AtMost(MaxConcurrency, target + Scaler!AtLeast(1, target \div 2)),
                 idleTicks |-> 0]
        BY <3>2 DEF d, Scaler!Decide
      <4> DEFINE more == Scaler!AtLeast(1, target \div 2)
      <4>2. more \in Nat /\ more >= 1
        BY <2>1 DEF Scaler!AtLeast
      <4> HIDE DEF more
      <4>3. /\ d.idleTicks = 0 /\ d.next \in Nat
            /\ d.next < target => target > MaxConcurrency
        BY <2>1, <4>1, <4>2 DEF Scaler!AtMost, more
      <4>4. lulls' \in 0 .. IdleAfter
        BY <2>1, <2>2 DEF Scaler!AtMost
      <4>. QED BY <2>1, <4>3, <4>4
    <3>3. CASE /\ ~(target < MinConcurrency) /\ ~(ready >= GrowAt * target)
               /\ ready = 0 /\ active < target
      <4>1. lulls' = IF lulls + 1 > IdleAfter THEN IdleAfter ELSE lulls + 1
        BY <2>2, <3>3 DEF Scaler!AtMost
      <4>2. CASE scaler.idleTicks + 1 >= IdleAfter
        <5>1. d = [next |-> Scaler!AtLeast(MinConcurrency, target - 1), idleTicks |-> 0]
          BY <3>3, <4>2 DEF d, Scaler!Decide
        <5>. QED BY <2>1, <4>1, <4>2, <5>1 DEF Scaler!AtLeast
      <4>3. CASE ~(scaler.idleTicks + 1 >= IdleAfter)
        <5>1. d = [next |-> target, idleTicks |-> scaler.idleTicks + 1]
          BY <3>3, <4>3 DEF d, Scaler!Decide
        <5>. QED BY <2>1, <4>1, <4>3, <5>1
      <4>. QED BY <4>2, <4>3
    <3>4. CASE /\ ~(target < MinConcurrency) /\ ~(ready >= GrowAt * target)
               /\ ~(ready = 0 /\ active < target)
      <4>1. d = [next |-> target, idleTicks |-> 0]
        BY <3>4 DEF d, Scaler!Decide
      <4>. QED BY <2>1, <2>2, <3>4, <4>1
    <3>. QED BY <3>1, <3>2, <3>3, <3>4
  <2>4. Scaler!ScalerTypeOK'
    BY <2>1, <2>2, <2>3 DEF Scaler!ScalerTypeOK
  <2>5. IdleIsCounted'
    BY <2>2, <2>3 DEF IdleIsCounted
  <2>. QED BY <2>4, <2>5
<1>2. ASSUME Scaler!ScaleApply PROVE Scaler!ScalerTypeOK' /\ IdleIsCounted'
  <2>1. /\ scaler' = [scaler EXCEPT !.at = "idle", !.cur = 0, !.next = 0]
        /\ lulls' = IF scaler.next < scaler.cur THEN 0 ELSE lulls
        /\ target' \in Nat \ {0}
    BY <1>2 DEF Scaler!ScaleApply, Scaler!SetTarget, Scaler!AtLeast, IInv, TypeOK,
        Scaler!ScalerTypeOK
  <2>2. Scaler!ScalerTypeOK'
    <3>1. scaler' = [at |-> "idle", cur |-> 0, next |-> 0, idleTicks |-> scaler.idleTicks]
      BY <2>1 DEF Scaler!ScalerTypeOK, IInv, TypeOK
    <3>. QED BY <2>1, <3>1 DEF Scaler!ScalerTypeOK, IInv, TypeOK
  <2>3. IdleIsCounted'
    BY <1>2, <2>1 DEF Scaler!ScaleApply, Scaler!ScalerTypeOK, IInv, TypeOK, IdleIsCounted
  <2>. QED BY <2>2, <2>3
<1>3. Scaler!ScalerTypeOK' /\ IdleIsCounted'
  BY <1>1, <1>2 DEF Scale, Scaler!ScalerNext
<1>4. UNCHANGED <<drained, registered, session, sending, client, faults>>
  BY DEF Scale, hubVars
<1>5. TypeOK' /\ HubInv'
  BY <1>3, <1>4 DEF IInv, TypeOK, HubInv, RegisteredIsLive, ServingIsRegistered,
      HelloIsFresh, SendHasSession
<1>. QED BY <1>3, <1>5 DEF IInv

\* The scaler's part depends on nothing the hub and the client change.
LEMMA ScalerApart ==
    ASSUME IInv, UNCHANGED <<scaler, lulls>>, target' \in Nat \ {0}
    PROVE  Scaler!ScalerTypeOK' /\ IdleIsCounted'
BY DEF IInv, TypeOK, Scaler!ScalerTypeOK, IdleIsCounted

\* What a step must establish when the scaler does not move.
LEMMA HubStepSuffices ==
    ASSUME IInv, UNCHANGED <<scaler, lulls>>, target' \in Nat \ {0}, drained' \in BOOLEAN,
           registered' \in Sessions \cup {NoSession}, client' \in Sessions \cup {NoSession},
           session' \in [Sessions -> SessionStates],
           \A s \in Sessions : Len(session'[s].cmds) <= CmdCap,
           \/ sending' = sending \/ sending' = NotSending
           \/ sending' \in [to : Sessions, cmd : Commands],
           faults' \in 0 .. MaxFaults,
           RegisteredIsLive', ServingIsRegistered', HelloIsFresh'
    PROVE  IInv'
<1>1. Scaler!ScalerTypeOK' /\ IdleIsCounted'
  BY ScalerApart
<1>2. sending' \in [to : Sessions \cup {NoSession}, cmd : Commands \cup {NoCommand}]
  BY DEF IInv, TypeOK, NotSending
<1>3. SendHasSession'
  BY DEF IInv, HubInv, SendHasSession
<1>4. TypeOK'
  BY <1>1, <1>2 DEF TypeOK
<1>. QED BY <1>1, <1>3, <1>4 DEF IInv, HubInv

\* Every step of the client, of the hub, of the operator and of the network
\* preserves the inductive invariant.
LEMMA StepIInv == IInv /\ [Next]_vars => IInv'
<1> SUFFICES ASSUME IInv, [Next]_vars PROVE IInv'
  OBVIOUS
<1> USE ControlConstantsOK DEF poolVars
<1>0. /\ target \in Nat \ {0} /\ drained \in BOOLEAN
      /\ registered \in Sessions \cup {NoSession} /\ client \in Sessions \cup {NoSession}
      /\ session \in [Sessions -> SessionStates] /\ faults \in 0 .. MaxFaults
      /\ \A s \in Sessions : Len(session[s].cmds) <= CmdCap
      /\ FreeSession \in SessionStates /\ FreeSession.cmds = <<>>
  BY DEF IInv, TypeOK, Scaler!ScalerTypeOK, FreeSession, SessionStates
<1>1. ASSUME NEW s \in Sessions, Connect(s) PROVE IInv'
  <2>1. session' = [session EXCEPT ![s] = [FreeSession EXCEPT !.at = "hello", !.up = TRUE]]
    BY <1>1 DEF Connect
  <2>2. session' \in [Sessions -> SessionStates] /\ session'[s].cmds = <<>>
    BY <1>0, <2>1 DEF FreeSession, SessionStates
  <2>3. \A t \in Sessions : Len(session'[t].cmds) <= CmdCap
    BY <1>0, <2>1, <2>2
  <2>4. RegisteredIsLive' /\ ServingIsRegistered' /\ HelloIsFresh'
    BY <1>0, <1>1, <2>1 DEF Connect, IInv, HubInv, RegisteredIsLive, ServingIsRegistered,
        HelloIsFresh, FreeSession
  <2>. QED BY <1>0, <1>1, <2>2, <2>3, <2>4, HubStepSuffices DEF Connect
<1>2. ASSUME Disconnect PROVE IInv'
  <2>1. /\ client \in Sessions
        /\ session' = [session EXCEPT ![client].up = FALSE, ![client].wire = <<>>]
    BY <1>0, <1>2 DEF Disconnect
  <2>2. session' \in [Sessions -> SessionStates]
    BY <1>0, <2>1 DEF SessionStates
  <2>3. \A t \in Sessions : /\ session'[t].cmds = session[t].cmds
                            /\ session'[t].at = session[t].at
                            /\ session'[t].done = session[t].done
    BY <1>0, <2>1 DEF SessionStates
  <2>4. RegisteredIsLive' /\ ServingIsRegistered' /\ HelloIsFresh'
    BY <1>0, <1>2, <2>3 DEF Disconnect, IInv, HubInv, RegisteredIsLive, ServingIsRegistered,
        HelloIsFresh
  <2>. QED BY <1>0, <1>2, <2>2, <2>3, <2>4, HubStepSuffices DEF Disconnect
<1>3. ASSUME Dispatch PROVE IInv'
  <2>1. /\ client \in Sessions /\ session[client].wire # <<>>
        /\ session' = [session EXCEPT ![client].wire = Tail(session[client].wire)]
    BY <1>0, <1>3 DEF Dispatch
  <2>2. /\ session[client].wire \in Seq(Commands)
        /\ Tail(session[client].wire) \in Seq(Commands)
        /\ Head(session[client].wire) \in Commands
    BY <1>0, <2>1 DEF SessionStates
  <2>3. session' \in [Sessions -> SessionStates]
    BY <1>0, <2>1, <2>2 DEF SessionStates
  <2>4. \A t \in Sessions : /\ session'[t].cmds = session[t].cmds
                            /\ session'[t].at = session[t].at
                            /\ session'[t].done = session[t].done
    BY <1>0, <2>1 DEF SessionStates
  <2>5. target' \in Nat \ {0} /\ drained' \in BOOLEAN
    <3>1. Head(session[client].wire).n \in Int
      BY <2>2, CommandsNumbered
    <3>. QED BY <1>0, <1>3, <3>1 DEF Dispatch, Scaler!SetTarget, Scaler!AtLeast
  <2>6. RegisteredIsLive' /\ ServingIsRegistered' /\ HelloIsFresh'
    BY <1>0, <1>3, <2>4 DEF Dispatch, IInv, HubInv, RegisteredIsLive, ServingIsRegistered,
        HelloIsFresh
  <2>. QED BY <1>0, <1>3, <2>3, <2>4, <2>5, <2>6, HubStepSuffices DEF Dispatch
<1>4. ASSUME NEW s \in Sessions, Register(s) PROVE IInv'
  <2>1. /\ session[s].at = "hello" /\ registered' = s /\ s # registered
        /\ session' = [t \in Sessions |->
                          IF t = s THEN [session[t] EXCEPT !.at = "open"]
                          ELSE IF t = registered THEN [session[t] EXCEPT !.done = TRUE]
                          ELSE session[t]]
    BY <1>4 DEF Register, IInv, HubInv, RegisteredIsLive
  <2>2. session' \in [Sessions -> SessionStates]
    BY <1>0, <2>1 DEF SessionStates
  <2>3. \A t \in Sessions : /\ session'[t].cmds = session[t].cmds
                            /\ session'[t].at = IF t = s THEN "open" ELSE session[t].at
                            /\ session'[t].done = (session[t].done \/ t = registered)
    BY <1>0, <2>1 DEF SessionStates
  <2>4. RegisteredIsLive' /\ ServingIsRegistered' /\ HelloIsFresh'
    <3>1. RegisteredIsLive'
      BY <1>0, <2>1, <2>3 DEF IInv, HubInv, RegisteredIsLive, HelloIsFresh
    <3>2. ServingIsRegistered'
      BY <1>0, <2>1, <2>3 DEF IInv, HubInv, ServingIsRegistered
    <3>3. HelloIsFresh'
      BY <1>0, <2>1, <2>3 DEF IInv, HubInv, RegisteredIsLive, HelloIsFresh
    <3>. QED BY <3>1, <3>2, <3>3
  <2>. QED BY <1>0, <1>4, <2>2, <2>3, <2>4, HubStepSuffices DEF Register
<1>5. ASSUME NEW s \in Sessions, HelloLost(s) PROVE IInv'
  <2>1. session[s].at = "hello" /\ session' = [session EXCEPT ![s].at = "closed"]
    BY <1>5 DEF HelloLost
  <2>2. session' \in [Sessions -> SessionStates]
    BY <1>0, <2>1 DEF SessionStates
  <2>3. \A t \in Sessions : /\ session'[t].cmds = session[t].cmds
                            /\ session'[t].at = IF t = s THEN "closed" ELSE session[t].at
                            /\ session'[t].done = session[t].done
    BY <1>0, <2>1 DEF SessionStates
  <2>4. RegisteredIsLive' /\ ServingIsRegistered' /\ HelloIsFresh'
    BY <1>0, <1>5, <2>1, <2>3 DEF HelloLost, IInv, HubInv, RegisteredIsLive,
        ServingIsRegistered, HelloIsFresh
  <2>. QED BY <1>0, <1>5, <2>2, <2>3, <2>4, HubStepSuffices DEF HelloLost
<1>6. ASSUME NEW s \in Sessions, SendCommand(s) PROVE IInv'
  <2> DEFINE wire == IF session[s].up THEN Append(session[s].wire, Head(session[s].cmds))
                     ELSE <<>>
  <2>1. /\ session[s].cmds # <<>>
        /\ session' = [session EXCEPT ![s].cmds = Tail(session[s].cmds), ![s].wire = wire]
    BY <1>6 DEF SendCommand
  <2>2. /\ Tail(session[s].cmds) \in Seq(Commands)
        /\ Len(Tail(session[s].cmds)) <= Len(session[s].cmds)
        /\ wire \in Seq(Commands)
    <3>1. session[s].cmds \in Seq(Commands) /\ session[s].wire \in Seq(Commands)
      BY <1>0 DEF SessionStates
    <3>2. Head(session[s].cmds) \in Commands
      BY <2>1, <3>1
    <3>3. wire \in Seq(Commands)
      BY <3>1, <3>2
    <3>4. /\ Tail(session[s].cmds) \in Seq(Commands)
          /\ Len(Tail(session[s].cmds)) <= Len(session[s].cmds)
      BY <2>1, <3>1
    <3>. QED BY <3>3, <3>4
  <2> HIDE DEF wire
  <2>3. session' \in [Sessions -> SessionStates]
    BY <1>0, <2>1, <2>2 DEF SessionStates
  <2>4. \A t \in Sessions :
           /\ session'[t].cmds = IF t = s THEN Tail(session[s].cmds) ELSE session[t].cmds
           /\ session'[t].at = session[t].at
           /\ session'[t].done = session[t].done
    BY <1>0, <2>1 DEF SessionStates
  <2>5. \A t \in Sessions : Len(session'[t].cmds) <= CmdCap
    <3>1. Len(session[s].cmds) \in Nat /\ Len(Tail(session[s].cmds)) \in Nat
      BY <2>2
    <3>2. Len(Tail(session[s].cmds)) <= CmdCap
      BY <1>0, <2>2, <3>1
    <3>. QED BY <1>0, <2>4, <3>2
  <2>6. RegisteredIsLive' /\ ServingIsRegistered' /\ HelloIsFresh'
    BY <1>0, <1>6, <2>4 DEF SendCommand, IInv, HubInv, RegisteredIsLive, ServingIsRegistered,
        HelloIsFresh
  <2>. QED BY <1>0, <1>6, <2>3, <2>5, <2>6, HubStepSuffices DEF SendCommand
<1>7. ASSUME NEW s \in Sessions, EndSession(s) PROVE IInv'
  <2>1. session[s].at = "open" /\ session' = [session EXCEPT ![s].at = "ending"]
    BY <1>7 DEF EndSession
  <2>2. session' \in [Sessions -> SessionStates]
    BY <1>0, <2>1 DEF SessionStates
  <2>3. \A t \in Sessions : /\ session'[t].cmds = session[t].cmds
                            /\ session'[t].at = IF t = s THEN "ending" ELSE session[t].at
                            /\ session'[t].done = session[t].done
    BY <1>0, <2>1 DEF SessionStates
  <2>4. RegisteredIsLive' /\ ServingIsRegistered' /\ HelloIsFresh'
    BY <1>0, <1>7, <2>1, <2>3 DEF EndSession, IInv, HubInv, RegisteredIsLive,
        ServingIsRegistered, HelloIsFresh
  <2>. QED BY <1>0, <1>7, <2>2, <2>3, <2>4, HubStepSuffices DEF EndSession
<1>8. ASSUME NEW s \in Sessions, Unregister(s) PROVE IInv'
  <2>1. /\ session[s].at = "ending"
        /\ registered' = IF registered = s THEN NoSession ELSE registered
        /\ session' = [session EXCEPT ![s].at = "closed", ![s].done = TRUE, ![s].up = FALSE,
                                      ![s].cmds = <<>>]
    BY <1>8 DEF Unregister
  <2>2. session' \in [Sessions -> SessionStates]
    <3>1. session'[s] = [at |-> "closed", up |-> FALSE, done |-> TRUE, cmds |-> <<>>,
                         wire |-> session[s].wire]
      BY <1>0, <2>1 DEF SessionStates
    <3>2. session'[s] \in SessionStates
      BY <1>0, <3>1 DEF SessionStates
    <3>. QED BY <1>0, <2>1, <3>2
  <2>3. \A t \in Sessions : /\ session'[t].cmds = IF t = s THEN <<>> ELSE session[t].cmds
                            /\ session'[t].at = IF t = s THEN "closed" ELSE session[t].at
                            /\ session'[t].done = (session[t].done \/ t = s)
    BY <1>0, <2>1 DEF SessionStates
  <2>4. RegisteredIsLive' /\ ServingIsRegistered' /\ HelloIsFresh'
    BY <1>0, <2>1, <2>3 DEF IInv, HubInv, RegisteredIsLive, ServingIsRegistered, HelloIsFresh
  <2>. QED BY <1>0, <1>8, <2>2, <2>3, <2>4, HubStepSuffices DEF Unregister
<1>9. ASSUME NEW s \in Sessions, Forget(s) PROVE IInv'
  <2>1. session[s].at = "closed" /\ session' = [session EXCEPT ![s] = FreeSession]
    BY <1>9 DEF Forget
  <2>2. session' \in [Sessions -> SessionStates]
    BY <1>0, <2>1
  <2>3. \A t \in Sessions : Len(session'[t].cmds) <= CmdCap
    BY <1>0, <2>1
  <2>4. RegisteredIsLive' /\ ServingIsRegistered' /\ HelloIsFresh'
    BY <1>0, <1>9, <2>1 DEF Forget, IInv, HubInv, RegisteredIsLive, ServingIsRegistered,
        HelloIsFresh, FreeSession
  <2>. QED BY <1>0, <1>9, <2>2, <2>3, <2>4, HubStepSuffices DEF Forget
<1>10. ASSUME NEW c \in Commands, Lookup(c) PROVE IInv'
  <2>1. sending' \in [to : Sessions, cmd : Commands]
    BY <1>0, <1>10 DEF Lookup
  <2>2. RegisteredIsLive' /\ ServingIsRegistered' /\ HelloIsFresh'
    BY <1>10 DEF Lookup, IInv, HubInv, RegisteredIsLive, ServingIsRegistered, HelloIsFresh
  <2>. QED BY <1>0, <1>10, <2>1, <2>2, HubStepSuffices DEF Lookup
<1>11. ASSUME Push PROVE IInv'
  <2>1. sending.to \in Sessions /\ sending.cmd \in Commands
    BY <1>11 DEF Push, IInv, HubInv, SendHasSession
  <2>2. PICK s \in Sessions : s = sending.to
    BY <2>1
  <2>3. CASE UNCHANGED session
    <3>1. RegisteredIsLive' /\ ServingIsRegistered' /\ HelloIsFresh'
      BY <1>11, <2>3 DEF Push, IInv, HubInv, RegisteredIsLive, ServingIsRegistered, HelloIsFresh
    <3>. QED BY <1>0, <1>11, <2>3, <3>1, HubStepSuffices DEF Push
  <2>4. CASE /\ Len(session[s].cmds) < CmdCap
             /\ session' = [session EXCEPT ![s].cmds = Append(session[s].cmds, sending.cmd)]
    <3>1. /\ session[s].cmds \in Seq(Commands)
          /\ Append(session[s].cmds, sending.cmd) \in Seq(Commands)
          /\ Len(Append(session[s].cmds, sending.cmd)) <= CmdCap
      BY <1>0, <2>1, <2>4 DEF SessionStates
    <3>2. session' \in [Sessions -> SessionStates]
      BY <1>0, <2>4, <3>1 DEF SessionStates
    <3>3. \A t \in Sessions :
             /\ session'[t].cmds = IF t = s THEN Append(session[s].cmds, sending.cmd)
                                   ELSE session[t].cmds
             /\ session'[t].at = session[t].at
             /\ session'[t].done = session[t].done
      BY <1>0, <2>4 DEF SessionStates
    <3>4. \A t \in Sessions : Len(session'[t].cmds) <= CmdCap
      BY <1>0, <3>1, <3>3
    <3>5. RegisteredIsLive' /\ ServingIsRegistered' /\ HelloIsFresh'
      BY <1>0, <1>11, <3>3 DEF Push, IInv, HubInv, RegisteredIsLive, ServingIsRegistered,
          HelloIsFresh
    <3>. QED BY <1>0, <1>11, <3>2, <3>4, <3>5, HubStepSuffices DEF Push
  <2>. QED BY <1>11, <2>2, <2>3, <2>4 DEF Push
<1>12. ASSUME NEW s \in Sessions, CutStream(s) PROVE IInv'
  <2>1. session' = [session EXCEPT ![s].up = FALSE, ![s].wire = <<>>]
    BY <1>12 DEF CutStream
  <2>2. session' \in [Sessions -> SessionStates]
    BY <1>0, <2>1 DEF SessionStates
  <2>3. \A t \in Sessions : /\ session'[t].cmds = session[t].cmds
                            /\ session'[t].at = session[t].at
                            /\ session'[t].done = session[t].done
    BY <1>0, <2>1 DEF SessionStates
  <2>4. RegisteredIsLive' /\ ServingIsRegistered' /\ HelloIsFresh'
    BY <1>0, <1>12, <2>3 DEF CutStream, IInv, HubInv, RegisteredIsLive, ServingIsRegistered,
        HelloIsFresh
  <2>5. faults' \in 0 .. MaxFaults
    BY <1>0, <1>12 DEF CutStream, Fault
  <2>. QED BY <1>0, <1>12, <2>2, <2>3, <2>4, <2>5, HubStepSuffices DEF CutStream
<1>13. ASSUME ApiRestart PROVE IInv'
  <2>1. session' = [s \in Sessions |-> IF session[s].at = "free" THEN FreeSession
                                       ELSE [FreeSession EXCEPT !.at = "closed"]]
    BY <1>13 DEF ApiRestart
  <2>2. session' \in [Sessions -> SessionStates] /\ \A t \in Sessions : session'[t].cmds = <<>>
    BY <1>0, <2>1 DEF SessionStates, FreeSession
  <2>3. RegisteredIsLive' /\ ServingIsRegistered' /\ HelloIsFresh'
    BY <1>13, <2>1 DEF ApiRestart, RegisteredIsLive, ServingIsRegistered, HelloIsFresh,
        FreeSession
  <2>4. faults' \in 0 .. MaxFaults
    BY <1>0, <1>13 DEF ApiRestart, Fault
  <2>5. \A t \in Sessions : Len(session'[t].cmds) <= CmdCap
    BY <2>2
  <2>. QED BY <1>0, <1>13, <2>2, <2>3, <2>4, <2>5, HubStepSuffices DEF ApiRestart
<1>14. CASE Scale
  BY <1>14, ScaleIInv
<1>15. ASSUME UNCHANGED vars PROVE IInv'
  <2>1. RegisteredIsLive' /\ ServingIsRegistered' /\ HelloIsFresh'
    BY <1>15 DEF vars, hubVars, IInv, HubInv, RegisteredIsLive, ServingIsRegistered,
        HelloIsFresh
  <2>. QED BY <1>0, <1>15, <2>1, HubStepSuffices DEF vars, hubVars
<1>. QED BY <1>1, <1>2, <1>3, <1>4, <1>5, <1>6, <1>7, <1>8, <1>9, <1>10, <1>11, <1>12, <1>13,
            <1>14, <1>15 DEF Next, ClientStep, HubStep

\* The inductive invariant holds throughout.
LEMMA Inductive == Spec => []IInv
BY InitIInv, StepIInv, PTL DEF Spec

------------------------------------------------------------------------------
(* Theorems.                                                                 *)

\* Type correctness.  In particular a session's command channel never holds
\* more than its capacity, whatever Hub.send races with.
THEOREM TypeCorrect == Spec => []TypeOK
<1>1. IInv => TypeOK
  BY DEF IInv
<1>. QED BY <1>1, Inductive, PTL

\* The hub never offers a session whose handler has returned or was told to end.
THEOREM HubOffersLive == Spec => []RegisteredIsLive
<1>1. IInv => RegisteredIsLive
  BY DEF IInv, HubInv
<1>. QED BY <1>1, Inductive, PTL

\* The hub never forgets a session that serves: a late unregister removes only
\* its own entry.
THEOREM HubKeepsServing == Spec => []ServingIsRegistered
<1>1. IInv => ServingIsRegistered
  BY DEF IInv, HubInv
<1>. QED BY <1>1, Inductive, PTL

\* Scale down reluctantly: for every range, GrowAt and IdleAfter, and with the
\* operator's commands in between.
THEOREM Reluctant == Spec => ShrinkIsReluctant
<1> DEFINE A == /\ scaler.at = "decided" /\ scaler'.at = "idle"
                /\ target = scaler.cur /\ target <= MaxConcurrency
                /\ target' < target
                => lulls >= IdleAfter
<1>1. IInv /\ [Next]_vars => [A]_<<target, scaler, lulls>>
  <2> SUFFICES ASSUME IInv, Next, scaler.at = "decided", scaler'.at = "idle",
                      target = scaler.cur, target <= MaxConcurrency, target' < target
               PROVE  lulls >= IdleAfter
    BY DEF vars
  <2>1. Scale
    BY DEF Next, ClientStep, HubStep, Connect, Disconnect, Dispatch, Push, ApiRestart,
        Register, HelloLost, SendCommand, EndSession, Unregister, Forget, CutStream, Lookup,
        poolVars
  <2>2. Scaler!ScaleApply
    BY <2>1 DEF Scale, Scaler!ScalerNext, Scaler!ScaleDecide
  <2>3. scaler.next < scaler.cur
    BY <2>2 DEF Scaler!ScaleApply, Scaler!SetTarget, Scaler!AtLeast, IInv, TypeOK,
        Scaler!ScalerTypeOK
  <2>. QED BY <2>3 DEF IInv, IdleIsCounted
<1>. QED BY <1>1, Inductive, PTL DEF Spec, ShrinkIsReluctant, Scaler!ShrinkIsReluctant

==============================================================================
