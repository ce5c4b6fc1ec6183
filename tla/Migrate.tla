------------------------------- MODULE Migrate --------------------------------
(***************************************************************************)
(* store.Migrate, which every process runs before it does anything else:   *)
(* one transaction that takes an advisory lock, reads which migrations are *)
(* recorded, executes and records the others in order, and commits.  The   *)
(* processes are API replicas and workers alike (worker.New calls it too). *)
(***************************************************************************)
EXTENDS Naturals, SequencesExt

CONSTANTS
    Replicas,
    Nobody,
    Files      \* the embedded migrations, in lexical order

VARIABLES
    phase,     \* phase[r]: how far run() is
    lock,      \* who holds pg_advisory_xact_lock(72631001)
    schema,    \* the migrations whose SQL took effect, in the order it did
    versions,  \* the rows of schema_migrations
    tx         \* tx[r]: what r read, and what it executed and has not committed

migrateVars == <<lock, schema, versions, tx>>

Phases == {"down", "waiting", "reading", "applying", "serving", "stopping"}

\* The phases of a process whose transaction is open.
Migrating == {"waiting", "reading", "applying"}

NoTx == [applied |-> {}, ran |-> <<>>]

MigrateTypeOK ==
    /\ phase \in [Replicas -> Phases]
    /\ lock \in Replicas \cup {Nobody}
    /\ schema \in Seq(Range(Files))
    /\ versions \subseteq Range(Files)
    /\ tx \in [Replicas -> [applied : SUBSET Range(Files), ran : Seq(Range(Files))]]

MigrateInit ==
    /\ phase = [r \in Replicas |-> "down"]
    /\ lock = Nobody
    /\ schema = <<>>
    /\ versions = {}
    /\ tx = [r \in Replicas |-> NoTx]

Enter(r, p) == phase' = [phase EXCEPT ![r] = p]

\* The process starts: it has a connection and a transaction.
Begin(r) ==
    /\ phase[r] = "down"
    /\ Enter(r, "waiting")
    /\ UNCHANGED migrateVars

\* Variant: the advisory lock is not taken.
TakeNoLock(r) ==
    /\ phase[r] = "waiting"
    /\ Enter(r, "reading")
    /\ UNCHANGED migrateVars

TakeLock(r) ==
    /\ phase[r] = "waiting"
    /\ lock = Nobody
    /\ lock' = r
    /\ Enter(r, "reading")
    /\ UNCHANGED <<schema, versions, tx>>

\* SELECT version FROM schema_migrations, created on the way if it is missing.
ReadApplied(r) ==
    /\ phase[r] = "reading"
    /\ tx' = [tx EXCEPT ![r].applied = versions]
    /\ Enter(r, "applying")
    /\ UNCHANGED <<lock, schema, versions>>

\* The files that are neither recorded nor done by this transaction.
Missing(r) ==
    {i \in 1 .. Len(Files) : Files[i] \notin tx[r].applied \cup Range(tx[r].ran)}

\* The next of them in the list: its SQL and its row.
ApplyNext(r) ==
    /\ phase[r] = "applying"
    /\ \E i \in Missing(r) :
          /\ \A k \in Missing(r) : i <= k
          /\ tx' = [tx EXCEPT ![r].ran = Append(tx[r].ran, Files[i])]
    /\ UNCHANGED <<phase, lock, schema, versions>>

\* Commit, which ends the transaction-scoped lock.  The rest of run()'s setup
\* changes nothing that is shared (EnsureGroup is idempotent).
Commit(r) ==
    /\ phase[r] = "applying"
    /\ Missing(r) = {}
    /\ schema' = schema \o tx[r].ran
    /\ versions' = versions \cup Range(tx[r].ran)
    /\ tx' = [tx EXCEPT ![r] = NoTx]
    /\ lock' = IF lock = r THEN Nobody ELSE lock
    /\ Enter(r, "serving")

\* Variant: run() goes on after an error from Migrate.
FailIgnored(r) ==
    /\ phase[r] \in Migrating
    /\ tx' = [tx EXCEPT ![r] = NoTx]
    /\ lock' = IF lock = r THEN Nobody ELSE lock
    /\ Enter(r, "serving")
    /\ UNCHANGED <<schema, versions>>

\* A statement fails or the process dies: the transaction is rolled back, by
\* the deferred Rollback or by Postgres, and the process is gone.
Fail(r) ==
    /\ phase[r] \in Migrating
    /\ tx' = [tx EXCEPT ![r] = NoTx]
    /\ lock' = IF lock = r THEN Nobody ELSE lock
    /\ Enter(r, "down")
    /\ UNCHANGED <<schema, versions>>

MigrateStep(r) == TakeLock(r) \/ ReadApplied(r) \/ ApplyNext(r) \/ Commit(r)

\* "apply these files once, in order, under a lock" (migrate.go:17), with boots
\* racing and dying anywhere: the SQL that took effect is an initial part of
\* the list, recorded as such, and an open transaction only extends it; its
\* INSERT into schema_migrations never meets a row that is already there.
MigratedOnce ==
    /\ IsPrefix(schema, Files)
    /\ versions = Range(schema)
    /\ \A r \in Replicas : IsPrefix(schema \o tx[r].ran, Files)

\* No process serves, leads or works before the schema it was built for is
\* there, whoever created it.
SchemaIsReady ==
    \A r \in Replicas : phase[r] \in {"serving", "stopping"} => schema = Files

===============================================================================
