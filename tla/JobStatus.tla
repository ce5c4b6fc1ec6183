------------------------------ MODULE JobStatus ------------------------------
(***************************************************************************)
(* The status vocabulary and the table of legal status changes that every  *)
(* component of Calligraphy shares: internal/job/job.go and                *)
(* internal/job/statemachine.go.                                           *)
(***************************************************************************)

\* A job with no row yet.  Not a status of the code: it stands for a primary
\* key that no INSERT has used.
Absent == "NONE"

Statuses == {"PENDING", "RUNNING", "COMPLETED", "FAILED",
             "RETRYING", "DEAD_LETTER", "CANCELLED"}

\* The statuses that Status.Terminal answers true for.  DEAD_LETTER is one of
\* them although an operator may requeue it.
TerminalStatuses == {"COMPLETED", "FAILED", "DEAD_LETTER", "CANCELLED"}

\* The statuses a delivery may be claimed from (and an API cancel may hit).
WaitingStatuses == {"PENDING", "RETRYING"}

\* The allow-list `transitions`, as a set of edges.
Transitions ==
    {<<"PENDING",  "RUNNING">>,  <<"PENDING",  "CANCELLED">>,
     <<"RUNNING",  "COMPLETED">>, <<"RUNNING", "RETRYING">>,
     <<"RUNNING",  "FAILED">>,   <<"RUNNING",  "DEAD_LETTER">>,
     <<"RUNNING",  "CANCELLED">>,
     <<"RETRYING", "PENDING">>,  <<"RETRYING", "RUNNING">>,
     <<"RETRYING", "CANCELLED">>,
     <<"DEAD_LETTER", "PENDING">>}

CanTransition(from, to) == <<from, to>> \in Transitions

==============================================================================
