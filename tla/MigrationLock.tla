---------------------------- MODULE MigrationLock ----------------------------
(***************************************************************************)
(* The lock around schema migrations at boot, and the boots that take it:  *)
(* provision() of the SQLite adapter, with a lock file, and connect() of   *)
(* the PostgreSQL and MariaDB adapters, with an advisory lock of a pooled  *)
(* connection.  The lock is only ever tried: an instance that does not get *)
(* it goes on without the migration.                                       *)
(***************************************************************************)
EXTENDS Naturals, FiniteSets

CONSTANTS
    Procs,          \* server instances
    NoProc,         \* the lock is free
    MaxMigCrashes,  \* bound: crashes of instances
    MaxFailures,    \* bound: migrations and warm-ups that throw
    MaxLockErrors   \* bound: attempts to lock that throw

ASSUME NoProcAssumption == NoProc \notin Procs
ASSUME MigBoundsAssumption ==
    MaxMigCrashes \in Nat /\ MaxFailures \in Nat /\ MaxLockErrors \in Nat

VARIABLES
    lockKind,   \* "file" or "advisory"
    migStage,      \* where an instance stands in provision()
    lock,       \* who wrote the file, or whose connection has the lock
    schema,     \* the schema is migrated
    migCrashes, failures, lockErrors

migVars == <<lockKind, migStage, lock, schema, migCrashes, failures,
             lockErrors>>

Stages == {"down", "idle", "locking", "migrating", "releasing", "failing",
           "warming", "up"}

MigInit ==
    /\ lockKind \in {"file", "advisory"}
    /\ migStage = [p \in Procs |-> "idle"]
    /\ lock = NoProc
    /\ schema = FALSE
    /\ migCrashes = 0 /\ failures = 0 /\ lockErrors = 0

MigGoto(p, s) == migStage' = [migStage EXCEPT ![p] = s]

-----------------------------------------------------------------------------
\* provision(): one promise, which every caller of the instance awaits.
Provision(p) ==
    /\ migStage[p] = "idle"
    /\ MigGoto(p, "locking")
    /\ UNCHANGED <<lockKind, lock, schema, migCrashes, failures,
                   lockErrors>>

\* Defect: the attempt does not look at the lock.
GrantedAlways(p) == {TRUE}

\* The file does not exist; the advisory lock is free, or the pool hands out
\* the very connection that has it.
Granted(p) ==
    {lock = NoProc} \cup {g \in {TRUE} : lockKind = "advisory" /\ lock = p}

\* The lock is taken, or somebody holds it and the migration is skipped.
TryLock(p) ==
    /\ migStage[p] = "locking"
    /\ \E granted \in Granted(p) :
        /\ lock' = IF granted THEN p ELSE lock
        /\ MigGoto(p, IF granted THEN "migrating" ELSE "warming")
    /\ UNCHANGED <<lockKind, schema, migCrashes, failures, lockErrors>>

\* Any other error of the attempt counts as acquired.
LockError(p) ==
    /\ migStage[p] = "locking"
    /\ lockErrors < MaxLockErrors
    /\ lockErrors' = lockErrors + 1
    /\ MigGoto(p, "migrating")
    /\ UNCHANGED <<lockKind, lock, schema, migCrashes, failures>>

Migrate(p) ==
    /\ migStage[p] = "migrating"
    /\ schema' = TRUE
    /\ MigGoto(p, "releasing")
    /\ UNCHANGED <<lockKind, lock, migCrashes, failures, lockErrors>>

\* bootstrapSystemSchema answers with an error.
MigrationFails(p) ==
    /\ migStage[p] = "migrating"
    /\ failures < MaxFailures
    /\ failures' = failures + 1
    /\ MigGoto(p, "failing")
    /\ UNCHANGED <<lockKind, lock, schema, migCrashes, lockErrors>>

\* What releaseLock leaves: the file is removed whoever wrote it, the advisory
\* lock only if the pool hands out the connection that took it.
AfterRelease(p) ==
    IF lockKind = "file" THEN {NoProc}
                         ELSE {lock, IF lock = p THEN NoProc ELSE lock}

\* connect() hears of a failed migration and fails, to be tried again;
\* provision() does not look.
Release(p) ==
    /\ migStage[p] \in {"releasing", "failing"}
    /\ lock' \in AfterRelease(p)
    /\ MigGoto(p, IF migStage[p] = "failing" /\ lockKind = "advisory" THEN "idle"
                                                                ELSE "warming")
    /\ UNCHANGED <<lockKind, schema, migCrashes, failures, lockErrors>>

\* _warmTableRegistry, and _provisioned is set, migrated or not.
Warm(p) ==
    /\ migStage[p] = "warming"
    /\ MigGoto(p, "up")
    /\ UNCHANGED <<lockKind, lock, schema, migCrashes, failures,
                   lockErrors>>

\* The promise is dropped: the next ensure* call provisions again.
WarmFails(p) ==
    /\ migStage[p] = "warming"
    /\ lockKind = "file"
    /\ failures < MaxFailures
    /\ failures' = failures + 1
    /\ MigGoto(p, "idle")
    /\ UNCHANGED <<lockKind, lock, schema, migCrashes, lockErrors>>

\* Defect: the advisory lock survives its owner.
OrphanedNot(p) == lock

\* The owner's connections, and the advisory lock with them, are gone.
Orphaned(p) == IF lockKind = "advisory" /\ lock = p THEN NoProc ELSE lock

MigCrash(p) ==
    /\ migStage[p] # "down"
    /\ migCrashes < MaxMigCrashes
    /\ migCrashes' = migCrashes + 1
    /\ lock' = Orphaned(p)
    /\ MigGoto(p, "down")
    /\ UNCHANGED <<lockKind, schema, failures, lockErrors>>

Restart(p) ==
    /\ migStage[p] = "down"
    /\ MigGoto(p, "idle")
    /\ UNCHANGED <<lockKind, lock, schema, migCrashes, failures,
                   lockErrors>>

MigBoot(p) ==
    \/ Provision(p) \/ TryLock(p) \/ Migrate(p) \/ Release(p) \/ Warm(p)
    \/ Restart(p)

Disturb(p) == LockError(p) \/ MigrationFails(p) \/ WarmFails(p) \/ MigCrash(p)

MigNext == \E p \in Procs : MigBoot(p) \/ Disturb(p)

\* An instance that boots goes on booting; one that died is started again.
MigFairness == \A p \in Procs : WF_migVars(MigBoot(p))

MigSpec == MigInit /\ [][MigNext]_migVars /\ MigFairness

-----------------------------------------------------------------------------
\* Types of the lock, the instances and the schema.
MigTypeOK ==
    /\ lockKind \in {"file", "advisory"}
    /\ migStage \in [Procs -> Stages]
    /\ lock \in Procs \cup {NoProc}
    /\ schema \in BOOLEAN
    /\ migCrashes \in 0 .. MaxMigCrashes
    /\ failures \in 0 .. MaxFailures
    /\ lockErrors \in 0 .. MaxLockErrors

Migrators == {p \in Procs : migStage[p] = "migrating"}

\* "Ensures only one process runs migrations", while no attempt to lock
\* throws: crashed owners, files that are removed whoever wrote them and
\* connections that come and go never let a second one in.  And an instance
\* that skipped the migration gave way to one: as long as nothing crashed or
\* failed, that one has migrated or is still at it.
OneMigrator ==
    /\ lockErrors = 0 => \A p, q \in Migrators : p = q
    /\ migCrashes = 0 /\ failures = 0 =>
           \A p \in Procs : migStage[p] \in {"warming", "up"} =>
               schema \/ Migrators # {}

\* The schema is migrated in the end, whatever crashes, where the lock dies
\* with its owner; a lock file that outlives a crash keeps every later boot out.
SchemaArrives ==
    <>(schema \/ failures > 0 \/ (lockKind = "file" /\ migCrashes > 0))

==============================================================================
