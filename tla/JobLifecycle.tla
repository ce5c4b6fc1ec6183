---------------------------- MODULE JobLifecycle -----------------------------
(***************************************************************************)
(* What the platform promises about one job's status, and nothing else: a  *)
(* job is created PENDING, and from then on its status only ever follows   *)
(* an edge of the table in internal/job/statemachine.go.  The code keeps   *)
(* the table beside the store without consulting it on the write path, so  *)
(* that the conditional UPDATEs respect it is something to be shown:       *)
(* JobStore implements this specification.                                 *)
(***************************************************************************)
EXTENDS JobStatus

CONSTANT Jobs

VARIABLE status

TypeOK == status \in [Jobs -> Statuses \cup {Absent}]

Init == status = [j \in Jobs |-> Absent]

\* One job's status between two consecutive states.  A statement may change
\* several rows at once (a batch), each along an edge of its own.
Moves(from, to) ==
    \/ to = from
    \/ from = Absent /\ to = "PENDING"
    \/ CanTransition(from, to)

Next ==
    /\ DOMAIN status' = Jobs
    /\ \A j \in Jobs : Moves(status[j], status'[j])

Spec == Init /\ [][Next]_status

==============================================================================
