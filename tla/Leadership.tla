------------------------------ MODULE Leadership ------------------------------
(***************************************************************************)
(* The election of the recovery leader: a Redis key with a time to live    *)
(* (queue.go) and the loop of recovery.Leader.Run that takes, renews and   *)
(* releases it.  What a replica believes (isLeader) and what Redis holds   *)
(* (key) part whenever a replica stalls or a reply is lost.                *)
(***************************************************************************)
CONSTANTS Replicas, Nobody

VARIABLES
    key,       \* the value of leaderKey("recovery"), Nobody if there is none
    isLeader   \* isLeader[r]: the local of Run

leaderVars == <<key, isLeader>>

LeaderTypeOK ==
    /\ key \in Replicas \cup {Nobody}
    /\ isLeader \in [Replicas -> BOOLEAN]

LeaderInit ==
    /\ key = Nobody
    /\ isLeader = [r \in Replicas |-> FALSE]

StepDown(r) == isLeader' = [isLeader EXCEPT ![r] = FALSE]

\* A tick of a replica that does not lead: SET NX.  The replica's own key, from
\* before it lost faith or restarted under the same ID, refuses it too.
AcquireLeader(r) ==
    /\ ~isLeader[r]
    /\ key = Nobody
    /\ key' = r
    /\ isLeader' = [isLeader EXCEPT ![r] = TRUE]

\* SET NX took effect and the reply was lost: Run tries again at the next tick.
AcquireUnheard(r) ==
    /\ ~isLeader[r]
    /\ key = Nobody
    /\ key' = r
    /\ UNCHANGED isLeader

\* Variant: only an error of the renew script counts, not its answer.
RenewLeaderDeaf(r) ==
    /\ isLeader[r]
    /\ UNCHANGED leaderVars

\* The renew tick of a replica that believes it leads: PEXPIRE if the key is
\* its own, else it steps down.
RenewLeader(r) ==
    /\ isLeader[r]
    /\ isLeader' = [isLeader EXCEPT ![r] = (key = r)]
    /\ UNCHANGED key

\* The renew script returns an error, whether or not it ran.
RenewFails(r) ==
    /\ isLeader[r]
    /\ StepDown(r)
    /\ UNCHANGED key

\* Variant: DEL without the comparison.
ReleaseLeaderAny(r) ==
    /\ key' = IF isLeader[r] THEN Nobody ELSE key
    /\ StepDown(r)

\* The context is cancelled: a replica that believes it leads deletes the key
\* if it is its own, and Run returns.
ReleaseLeader(r) ==
    /\ key' = IF isLeader[r] /\ key = r THEN Nobody ELSE key
    /\ StepDown(r)

\* The release fails, or the process dies: the key stays for its time to live.
LeaveKey(r) ==
    /\ StepDown(r)
    /\ UNCHANGED key

\* Variant: the key is set without a time to live.
ExpireNever ==
    /\ key # Nobody /\ ~isLeader[key]
    /\ UNCHANGED leaderVars

\* The time to live of a key that nobody renews runs out.
Expire ==
    /\ key # Nobody /\ ~isLeader[key]
    /\ key' = Nobody
    /\ UNCHANGED isLeader

\* The holder stalls past the time to live, three missed renewals long.
ExpireUnderLeader ==
    /\ key # Nobody /\ isLeader[key]
    /\ key' = Nobody
    /\ UNCHANGED isLeader

===============================================================================
