------------------------------ MODULE MCServer ------------------------------
(***************************************************************************)
(* A server from its boot to its work: the migration lock that its         *)
(* instances boot through; then, over SQLite, the first requests; or the   *)
(* lifecycle of one instance's connection, and the scheduler that starts   *)
(* when the database is ready.  Each part begins where the one before it   *)
(* has come through undisturbed: what disturbs a boot changes nothing that *)
(* a request reads, and no loss or boot changes the scheduler's timers.    *)
(***************************************************************************)
EXTENDS DatabaseLifecycle, SchedulerLoop, SqliteTransactions, MigrationLock

Migrated ==
    /\ lockKind = "file"
    /\ \A p \in Procs : migStage[p] = "up"
    /\ migCrashes = 0 /\ failures = 0 /\ lockErrors = 0

NoRequestYet == \A r \in Requests : pc[r] = "idle"

NoCallYet == booted = 0 /\ reinits = 0

Serving ==
    /\ bootPhase = "READY" /\ booted = 1
    /\ waiting = {}
    /\ drops = 0 /\ dbFailures = 0 /\ reinits = 0

ServerNext ==
    \/ /\ NoRequestYet /\ NoCallYet
       /\ MigNext
       /\ UNCHANGED <<txVars, dbVars, loopVars>>
    \/ /\ Migrated /\ NoCallYet
       /\ TxNext
       /\ UNCHANGED <<migVars, dbVars, loopVars>>
    \/ /\ Migrated /\ NoRequestYet /\ driver = "bun" /\ ~started
       /\ DbNext
       /\ UNCHANGED <<migVars, txVars, loopVars>>
    \/ /\ Serving
       /\ LoopNext
       /\ UNCHANGED <<migVars, txVars, dbVars>>

ServerInit == TxInit /\ MigInit /\ DbInit /\ LoopInit

ServerSpec ==
    /\ ServerInit
    /\ [][ServerNext]_<<txVars, migVars, dbVars, loopVars>>
    /\ TxFairness /\ MigFairness /\ DbFairness /\ LoopFairness

\* Types of the four parts.
ServerTypeOK == TxTypeOK /\ MigTypeOK /\ DbTypeOK /\ LoopTypeOK
=============================================================================
