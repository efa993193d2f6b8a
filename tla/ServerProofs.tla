---------------------------- MODULE ServerProofs ----------------------------
(***************************************************************************)
(* Proofs about MCServer and its parts, for any instances, requests, boots *)
(* and jobs and any number of crashes, losses and failures.  MigrationLock, *)
(* SchedulerLoop and DatabaseLifecycle each have an inductive invariant;   *)
(* with that of SqliteTransactions they are the invariant of the server,   *)
(* whose steps move one part and leave the others alone.                   *)
(***************************************************************************)
EXTENDS MCServer, SqliteTransactionsProofs

-----------------------------------------------------------------------------
(* The migration lock.  That one instance migrates rests on who has the    *)
(* lock; that nobody skips the migration for nothing rests on what a taken *)
(* lock says about the schema.                                             *)

AtWork == {"migrating", "releasing", "failing"}

\* While every attempt to lock is answered, who migrates has the lock.
MigratorHasLock ==
    lockErrors = 0 => \A p \in Procs : migStage[p] \in AtWork => lock = p

\* While nothing crashes or fails, a lock is taken for a migration that is
\* under way or done, and nobody is up without one.
LockMeansSchema ==
    migCrashes = 0 /\ failures = 0 =>
        /\ lock # NoProc => schema \/ Migrators # {}
        /\ \A p \in Procs : migStage[p] \in {"warming", "up"} => schema \/ Migrators # {}
        /\ \A p \in Procs : migStage[p] = "releasing" => schema
        /\ \A p \in Procs : migStage[p] # "failing"

MigInv == MigTypeOK /\ MigratorHasLock /\ LockMeansSchema

USE NoProcAssumption, MigBoundsAssumption
USE DEF AtWork, Stages

-----------------------------------------------------------------------------
\* At first the lock is free and nobody has begun.
LEMMA MigInitInv == MigInit => MigInv
<1> SUFFICES ASSUME MigInit PROVE MigInv
  OBVIOUS
<1>1. 0 \in 0 .. MaxMigCrashes /\ 0 \in 0 .. MaxFailures /\ 0 \in 0 .. MaxLockErrors
  OBVIOUS
<1>2. MigTypeOK
  BY <1>1 DEF MigInit, MigTypeOK
<1>3. MigratorHasLock /\ LockMeansSchema
  BY DEF MigInit, MigratorHasLock, LockMeansSchema
<1> QED
  BY <1>2, <1>3 DEF MigInv

\* An instance that arrives, warms up or is started again changes neither the
\* lock nor the schema.
LEMMA StageInv ==
  ASSUME MigInv, NEW p \in Procs, Provision(p) \/ Warm(p) \/ WarmFails(p) \/ Restart(p)
  PROVE  MigInv'
<1> USE DEF Provision, Warm, WarmFails, Restart, MigGoto, MigInv
<1>1. MigTypeOK'
  BY DEF MigTypeOK
<1>2. MigratorHasLock'
  BY DEF MigratorHasLock, MigTypeOK
<1>3. Migrators' = Migrators
  BY DEF Migrators, MigTypeOK
<1>4. LockMeansSchema'
  BY <1>3 DEF LockMeansSchema, MigTypeOK
<1> QED
  BY <1>1, <1>2, <1>4

\* Who gets the lock migrates; who does not gives way to a migration.
LEMMA TryLockInv ==
  ASSUME MigInv, NEW p \in Procs, TryLock(p) \/ LockError(p)
  PROVE  MigInv'
<1> USE DEF TryLock, LockError, Granted, MigGoto, MigInv
<1>1. MigTypeOK'
  <2>1. CASE TryLock(p)
    BY <2>1 DEF MigTypeOK
  <2>2. CASE LockError(p)
    <3>1. lockErrors' \in 0 .. MaxLockErrors
      BY <2>2 DEF MigTypeOK
    <3> QED
      BY <2>2, <3>1 DEF MigTypeOK
  <2> QED
    BY <2>1, <2>2
<1>2. MigratorHasLock'
  <2>1. CASE TryLock(p)
    <3>1. PICK granted \in Granted(p) :
              /\ lock' = IF granted THEN p ELSE lock
              /\ migStage' = [migStage EXCEPT ![p] = IF granted THEN "migrating" ELSE "warming"]
      BY <2>1
    <3>2. CASE granted
      <4>1. lock = NoProc \/ lock = p
        BY <3>2
      <4> QED
        BY <2>1, <3>1, <3>2, <4>1 DEF MigratorHasLock, MigTypeOK
    <3>3. CASE ~granted
      BY <2>1, <3>1, <3>3 DEF MigratorHasLock, MigTypeOK
    <3> QED
      BY <3>2, <3>3
  <2>2. CASE LockError(p)
    BY <2>2 DEF MigratorHasLock, MigTypeOK
  <2> QED
    BY <2>1, <2>2
<1>3. Migrators \subseteq Migrators' /\ (migStage'[p] = "migrating" => Migrators' # {})
  BY DEF Migrators, MigTypeOK
<1>4. LockMeansSchema'
  BY <1>3 DEF LockMeansSchema, MigTypeOK
<1> QED
  BY <1>1, <1>2, <1>4

\* A migration ends with the schema, or fails.
LEMMA MigrateInv ==
  ASSUME MigInv, NEW p \in Procs, Migrate(p) \/ MigrationFails(p)
  PROVE  MigInv'
<1> USE DEF Migrate, MigrationFails, MigGoto, MigInv
<1>1. MigTypeOK'
  <2>1. failures' \in 0 .. MaxFailures
    BY DEF MigTypeOK
  <2>2. migStage' \in [Procs -> Stages]
    BY DEF MigTypeOK
  <2>3. schema' \in BOOLEAN
    BY DEF MigTypeOK
  <2> QED
    BY <2>1, <2>2, <2>3 DEF MigTypeOK
<1>2. MigratorHasLock'
  BY DEF MigratorHasLock, MigTypeOK
<1>3. LockMeansSchema'
  BY DEF LockMeansSchema, MigTypeOK
<1> QED
  BY <1>1, <1>2, <1>3

\* A release frees the lock of nobody who migrates.
LEMMA ReleaseInv ==
  ASSUME MigInv, NEW p \in Procs, Release(p)
  PROVE  MigInv'
<1> USE DEF Release, AfterRelease, MigGoto, MigInv
<1>1. MigTypeOK'
  BY DEF MigTypeOK
<1>2. MigratorHasLock'
  BY DEF MigratorHasLock, MigTypeOK
<1>3. Migrators' = Migrators
  BY DEF Migrators, MigTypeOK
<1>4. LockMeansSchema'
  BY <1>3 DEF LockMeansSchema, MigTypeOK
<1> QED
  BY <1>1, <1>2, <1>4

\* An instance that dies takes the advisory lock with it, if it is its own.
LEMMA MigCrashInv ==
  ASSUME MigInv, NEW p \in Procs, MigCrash(p)
  PROVE  MigInv'
<1> USE DEF MigCrash, Orphaned, MigGoto, MigInv
<1>1. MigTypeOK'
  BY DEF MigTypeOK
<1>2. MigratorHasLock'
  BY DEF MigratorHasLock, MigTypeOK
<1>3. LockMeansSchema'
  BY DEF LockMeansSchema, MigTypeOK
<1> QED
  BY <1>1, <1>2, <1>3

\* Every step preserves the invariant.
LEMMA MigNextInv == MigInv /\ [MigNext]_migVars => MigInv'
<1> SUFFICES ASSUME MigInv, [MigNext]_migVars PROVE MigInv'
  OBVIOUS
<1>1. ASSUME NEW p \in Procs, MigBoot(p) \/ Disturb(p) PROVE MigInv'
  BY <1>1, StageInv, TryLockInv, MigrateInv, ReleaseInv, MigCrashInv DEF MigBoot, Disturb
<1>2. CASE UNCHANGED migVars
  BY <1>2 DEF migVars, MigInv, MigTypeOK, MigratorHasLock, LockMeansSchema, Migrators
<1> QED
  BY <1>1, <1>2 DEF MigNext

\* Instances and lock keep the invariant in every reachable state.
LEMMA MigSafe == MigSpec => []MigInv
<1> QED
  BY MigInitInv, MigNextInv, PTL DEF MigSpec

\* The variables of the lock and the instances keep their shape.
THEOREM MigTypeCorrect == MigSpec => []MigTypeOK
<1>1. MigInv => MigTypeOK
  BY DEF MigInv
<1> QED
  BY <1>1, MigSafe, PTL

\* acquireLock: while no attempt to lock throws one instance migrates at a time, and
\* while nothing crashes or fails who gave way gave way to a migration.
THEOREM OneMigratorAlways == MigSpec => []OneMigrator
<1>1. MigInv => OneMigrator
  BY DEF MigInv, MigratorHasLock, LockMeansSchema, OneMigrator, Migrators
<1> QED
  BY <1>1, MigSafe, PTL

-----------------------------------------------------------------------------
(* The scheduler's loop.  Loops are only counted right because pollTimer   *)
(* is null exactly while the scheduler is stopped, and because a timer     *)
(* that pollTimer still names after it has fired belongs to a poll that    *)
(* has not ended.                                                          *)

\* What pollTimer says about the scheduler and its polls.
TimerTells ==
    /\ isRunning <=> pollTimer # "null"
    /\ pollTimer = "fired" => polls > 0
    /\ isRunning => started
    /\ ~started => strays = 0 /\ polls = 0

LoopInv == LoopTypeOK /\ TimerTells /\ LoopsAccounted

-----------------------------------------------------------------------------
\* The first timer starts the first loop.
LEMMA StartInv == LoopInv /\ Start => LoopInv'
BY DEF LoopInv, LoopTypeOK, TimerTells, LoopsAccounted, Loops, Armed, Start

\* A timer that fires hands its loop on to a poll, or ends it.
LEMMA FireInv == LoopInv /\ Fire => LoopInv'
<1> SUFFICES ASSUME LoopInv, Fire PROVE LoopInv'
  OBVIOUS
<1> USE DEF LoopInv, LoopTypeOK, TimerTells, LoopsAccounted, Loops, Armed, Polled
<1>1. CASE pollTimer = "armed" /\ pollTimer' = "fired" /\ UNCHANGED strays
  BY <1>1 DEF Fire
<1>2. CASE strays > 0 /\ strays' = strays - 1 /\ UNCHANGED pollTimer
  BY <1>2 DEF Fire
<1> QED
  BY <1>1, <1>2 DEF Fire

\* A poll that ends arms the next timer, whatever it found.
LEMMA PollEndsInv == LoopInv /\ PollEnds => LoopInv'
<1> SUFFICES ASSUME LoopInv, PollEnds PROVE LoopInv'
  OBVIOUS
<1>1. interval' \in {"fast", "idle"} /\ emptyPolls' \in 0 .. IdleThreshold
  BY DEF LoopInv, LoopTypeOK, PollEnds, IdleThreshold
<1>2. LoopTypeOK'
  BY <1>1 DEF LoopInv, LoopTypeOK, PollEnds, ArmsNext, Armed
<1>3. TimerTells' /\ LoopsAccounted'
  BY DEF LoopInv, LoopTypeOK, TimerTells, LoopsAccounted, Loops, Armed, PollEnds, ArmsNext
<1> QED
  BY <1>2, <1>3 DEF LoopInv

\* A timer that waits is replaced; if it has fired, the poll is under way that
\* makes this a fork.
LEMMA ScheduleInv == LoopInv /\ Schedule => LoopInv'
BY DEF LoopInv, LoopTypeOK, TimerTells, LoopsAccounted, Loops, Armed, Schedule, Replaced

\* Stopping takes away one timer at most.
LEMMA StopInv == LoopInv /\ Stop => LoopInv'
<1> SUFFICES ASSUME LoopInv, Stop PROVE LoopInv'
  OBVIOUS
<1>1. 0 \in 0 .. IdleThreshold
  BY DEF IdleThreshold
<1>2. LoopTypeOK'
  BY <1>1 DEF LoopInv, LoopTypeOK, Stop
<1>3. TimerTells'
  BY DEF LoopInv, TimerTells, Stop
<1>4. LoopsAccounted'
  BY DEF LoopInv, LoopTypeOK, LoopsAccounted, Loops, Armed, Stop
<1> QED
  BY <1>2, <1>3, <1>4 DEF LoopInv

\* At first no loop runs.
LEMMA LoopInitInv == LoopInit => LoopInv
<1> SUFFICES ASSUME LoopInit PROVE LoopInv
  OBVIOUS
<1>1. 0 \in 0 .. IdleThreshold
  BY DEF IdleThreshold
<1>2. LoopTypeOK
  BY <1>1 DEF LoopInit, LoopTypeOK
<1>3. TimerTells
  BY DEF LoopInit, TimerTells
<1>4. LoopsAccounted
  BY DEF LoopInit, LoopsAccounted, Loops, Armed
<1> QED
  BY <1>2, <1>3, <1>4 DEF LoopInv

\* Every step preserves the invariant.
LEMMA LoopNextInv == LoopInv /\ [LoopNext]_loopVars => LoopInv'
<1> SUFFICES ASSUME LoopInv, [LoopNext]_loopVars PROVE LoopInv'
  OBVIOUS
<1>1. CASE UNCHANGED loopVars
  BY <1>1 DEF loopVars, LoopInv, LoopTypeOK, TimerTells, LoopsAccounted, Loops, Armed
<1> QED
  BY <1>1, StartInv, FireInv, PollEndsInv, ScheduleInv, StopInv DEF LoopNext

LEMMA LoopInvariant == LoopSpec => []LoopInv
<1> QED
  BY LoopInitInv, LoopNextInv, PTL DEF LoopSpec

\* startScheduler, scheduleNextPoll, scheduleJob, stopScheduler: while the
\* scheduler runs some loop is alive, and every loop beyond the first goes back
\* to a job that was scheduled during a poll.
THEOREM LoopsStayAccounted == LoopSpec => []LoopsAccounted
<1>1. LoopInv => LoopsAccounted
  BY DEF LoopInv
<1> QED
  BY <1>1, LoopInvariant, PTL

-----------------------------------------------------------------------------
(* The connection and its boots.  That boots never overlap rests on the    *)
(* phase and the promise, which show every caller a boot under way; that a *)
(* loss is attended to, on timers and reconnections that only a loss       *)
(* starts: the one that keeps a loss from arming its timer is its own.     *)

StageNames == Active \cup Ended \cup {"unused"}

\* A boot under way is INITIALIZING and has its promise where callers look, as
\* long as nobody shuts the system down.
BootIsSeen ==
    reinits = 0 =>
        /\ reinit = "none"
        /\ \A b \in Boots : stage[b] \in Active =>
               bootPhase = "INITIALIZING" /\ promise # 0

\* Timers and reconnections are for instances that lost their connection, and
\* only a shutdown sets the other two guards.
Guards ==
    /\ timer \in lost \cup {0} /\ inFlight \in lost \cup {0}
    /\ reinits = 0 => ~shuttingDown /\ \A i \in Boots : ~intentional[i]

DbInv == DbTypeOK /\ BootIsSeen /\ SingleBoot /\ Guards /\ LossIsPending

USE LifecycleAssumption
USE DEF Boots, Active, Ended, StageNames

\* At first nothing has booted.
LEMMA DbInitInv == DbInit => DbInv
<1> SUFFICES ASSUME DbInit PROVE DbInv
  OBVIOUS
<1>1. DbTypeOK
  <2>1. 0 \in 0 .. MaxBoots /\ 0 \in Nat
    OBVIOUS
  <2>2. stage \in [Boots -> StageNames] /\ waitsFor \in [Boots -> 0 .. MaxBoots]
    BY <2>1 DEF DbInit
  <2>3. connected \in [Boots -> BOOLEAN] /\ intentional \in [Boots -> BOOLEAN]
    BY DEF DbInit
  <2> QED
    BY <2>1, <2>2, <2>3 DEF DbInit, DbTypeOK
<1>2. BootIsSeen /\ SingleBoot /\ Guards /\ LossIsPending
  BY DEF DbInit, BootIsSeen, SingleBoot, Guards, LossIsPending
<1> QED
  BY <1>1, <1>2 DEF DbInv

\* Steps of a boot, which leave the connections alone.
LEMMA LossesKept ==
  ASSUME DbInv, UNCHANGED <<links, reinits>>, shuttingDown' => shuttingDown
  PROVE  Guards' /\ LossIsPending'
<1>1. UNCHANGED <<connected, intentional, timer, inFlight, lost, givenUp>>
  BY DEF links
<1>2. Guards'
  <2>1. reinits' = 0 => ~shuttingDown' /\ \A i \in Boots : ~intentional'[i]
    BY <1>1 DEF DbInv, Guards
  <2> QED
    BY <1>1, <2>1 DEF DbInv, Guards
<1>3. LossIsPending'
  BY <1>1 DEF DbInv, LossIsPending
<1> QED
  BY <1>2, <1>3

\* ensureFullInitialization, from outside or within a boot: a boot starts only
\* where none is under way.
LEMMA EnsureInv ==
  ASSUME DbInv, NEW stages \in [Boots -> StageNames], Ensure(stages),
         \A b \in Boots : stages[b] \in Active <=> stage[b] \in Active,
         UNCHANGED <<links, bounds>>,
         waitsFor' \in [Boots -> 0 .. MaxBoots], waiting' \subseteq Boots,
         reinit' \in {reinit, "none"}
  PROVE  DbInv'
<1> DEFINE n == booted + 1
<1>1. booted \in 0 .. MaxBoots /\ (Starts => n \in Boots)
  BY DEF Ensure, DbInv, DbTypeOK
<1>2. stage' = stages \/ (Starts /\ stage' = [stages EXCEPT ![n] = "loading"])
  BY DEF Ensure
<1>3. stage' \in [Boots -> StageNames]
  BY <1>1, <1>2
<1>4. DbTypeOK'
  <2>1. promise' \in 0 .. MaxBoots /\ booted' \in 0 .. MaxBoots
    BY <1>1 DEF Ensure, DbInv, DbTypeOK
  <2>2. /\ bootPhase' \in {"IDLE", "INITIALIZING", "READY", "FAILED"}
        /\ shuttingDown' \in BOOLEAN /\ adapter' = adapter
    BY DEF Ensure, DbInv, DbTypeOK
  <2>3. reinit' \in {"none", "clearing", "booting"}
    BY DEF DbInv, DbTypeOK
  <2> QED
    BY <1>3, <2>1, <2>2, <2>3 DEF DbInv, DbTypeOK, links, bounds
<1>5. BootIsSeen' /\ SingleBoot'
  <2>1. CASE Starts
    <3>1. reinits = 0 => \A b \in Boots : stage[b] \notin Active
      BY <2>1 DEF Starts, Joins, DbInv, BootIsSeen
    <3>2. reinits' = 0 => \A b \in Boots : stage'[b] \in Active => b = n
      BY <1>1, <1>2, <2>1, <3>1 DEF bounds
    <3>3. bootPhase' = "INITIALIZING" /\ promise' # 0
      BY <1>1, <2>1 DEF Ensure
    <3> QED
      BY <3>2, <3>3 DEF BootIsSeen, SingleBoot, DbInv, bounds
  <2>2. CASE ~Starts
    <3>1. \A b \in Boots : stage'[b] \in Active <=> stage[b] \in Active
      BY <1>2, <2>2
    <3>2. UNCHANGED <<bootPhase, promise, reinits>>
      BY <2>2 DEF Ensure, bounds
    <3> QED
      BY <3>1, <3>2 DEF DbInv, BootIsSeen, SingleBoot
  <2> QED
    BY <2>1, <2>2
<1>6. Guards' /\ LossIsPending'
  BY LossesKept DEF Ensure, bounds
<1> QED
  BY <1>4, <1>5, <1>6 DEF DbInv

\* Requests and reinitializeSystem call it.
LEMMA CallInv ==
  ASSUME DbInv, Call \/ BootAgain
  PROVE  DbInv'
<1>1. stage \in [Boots -> StageNames] /\ waitsFor \in [Boots -> 0 .. MaxBoots]
  BY DEF DbInv, DbTypeOK
<1>2. waiting' \subseteq Boots
  <2>1. CASE Starts
    <3>1. booted + 1 \in Boots /\ Awaited = booted + 1
      BY <2>1 DEF Call, BootAgain, Ensure, Awaited, Starts, DbInv, DbTypeOK
    <3> QED
      BY <3>1 DEF Call, BootAgain, DbInv, DbTypeOK
  <2>2. CASE ~Starts
    <3>1. Awaited \in 0 .. MaxBoots
      BY <2>2 DEF Awaited, Starts, DbInv, DbTypeOK
    <3>2. Pending(Awaited) => Awaited \in Boots
      BY <3>1 DEF Pending
    <3> QED
      BY <2>2, <3>2 DEF Call, BootAgain, DbInv, DbTypeOK
  <2> QED
    BY <2>1, <2>2
<1>3. Ensure(stage) /\ UNCHANGED <<links, bounds, waitsFor>> /\ reinit' \in {reinit, "none"}
  BY DEF Call, BootAgain
<1> QED
  BY <1>1, <1>2, <1>3, EnsureInv

\* So does a boot, while it loads the settings.
LEMMA WarmSettingsInv ==
  ASSUME DbInv, NEW b \in Boots, WarmSettings(b)
  PROVE  DbInv'
<1> DEFINE stages == [stage EXCEPT ![b] = "finishing"]
<1>1. stages \in [Boots -> StageNames]
  BY DEF DbInv, DbTypeOK
<1>2. Awaited \in 0 .. MaxBoots
  <2>1. promise \in 0 .. MaxBoots /\ booted \in 0 .. MaxBoots /\ MaxBoots \in Nat
    BY DEF DbInv, DbTypeOK
  <2>2. Starts => booted + 1 \in 0 .. MaxBoots
    BY <2>1 DEF WarmSettings, Ensure
  <2> QED
    BY <2>1, <2>2 DEF Awaited, Starts
<1>3. waitsFor' \in [Boots -> 0 .. MaxBoots]
  BY <1>2 DEF WarmSettings, DbInv, DbTypeOK
<1>4. \A a \in Boots : stages[a] \in Active <=> stage[a] \in Active
  BY DEF WarmSettings, DbInv, DbTypeOK
<1>5. waiting' \subseteq Boots
  BY DEF WarmSettings, DbInv, DbTypeOK
<1> QED
  BY <1>1, <1>3, <1>4, <1>5, EnsureInv DEF WarmSettings

\* The other steps of a boot, and its end.
LEMMA BootInv ==
  ASSUME DbInv, NEW b \in Boots,
         StartServices(b) \/ WarmFromCache(b) \/ Ready(b) \/ BootCrashes(b)
  PROVE  DbInv'
<1>1. PICK s \in StageNames : stage' = [stage EXCEPT ![b] = s]
  BY DEF StartServices, WarmFromCache, Ready, BootCrashes, Goto
<1>2. stage' \in [Boots -> StageNames] /\ waitsFor' \in [Boots -> 0 .. MaxBoots]
  BY <1>1 DEF StartServices, WarmFromCache, Ready, BootCrashes, DbInv, DbTypeOK
<1>3. DbTypeOK'
  <2>1. dbFailures' \in Nat /\ drops' \in Nat /\ reinits' \in Nat
    BY DEF StartServices, WarmFromCache, Ready, BootCrashes, DbInv, DbTypeOK, bounds
  <2>2. /\ bootPhase' \in {"IDLE", "INITIALIZING", "READY", "FAILED"}
        /\ promise' \in 0 .. MaxBoots
    BY DEF StartServices, WarmFromCache, Ready, BootCrashes, DbInv, DbTypeOK, globals
  <2>3. UNCHANGED <<adapter, shuttingDown, booted, links, waiting, reinit>>
    BY DEF StartServices, WarmFromCache, Ready, BootCrashes, globals
  <2> QED
    BY <1>2, <2>1, <2>2, <2>3 DEF DbInv, DbTypeOK, links
<1>4. stage[b] \in Active
  BY DEF StartServices, WarmFromCache, Ready, BootCrashes
<1>5. Guards' /\ LossIsPending'
  BY LossesKept
     DEF StartServices, WarmFromCache, Ready, BootCrashes, globals, bounds
<1>6. CASE StartServices(b) \/ WarmFromCache(b)
  <2>1. \A a \in Boots : stage'[a] \in Active <=> stage[a] \in Active
    BY <1>6 DEF StartServices, WarmFromCache, Goto, DbInv, DbTypeOK
  <2>2. BootIsSeen' /\ SingleBoot'
    BY <1>6, <2>1 DEF StartServices, WarmFromCache, DbInv, BootIsSeen, SingleBoot,
                      globals, bounds
  <2> QED
    BY <1>3, <1>5, <2>2 DEF DbInv
<1>7. CASE Ready(b) \/ BootCrashes(b)
  <2>1. stage'[b] \in Ended /\ \A a \in Boots \ {b} : stage'[a] = stage[a]
    BY <1>7 DEF Ready, BootCrashes, Goto, DbInv, DbTypeOK
  <2>2. UNCHANGED <<reinit, reinits>>
    BY <1>7 DEF Ready, BootCrashes, bounds
  <2>3. BootIsSeen' /\ SingleBoot'
    BY <1>4, <2>1, <2>2 DEF DbInv, BootIsSeen, SingleBoot
  <2> QED
    BY <1>3, <1>5, <2>3 DEF DbInv
<1> QED
  BY <1>6, <1>7

LEMMA ConnectInv ==
  ASSUME DbInv, NEW b \in Boots, Connect(b)
  PROVE  DbInv'
<1>1. DbTypeOK'
  BY DEF Connect, Goto, bounds, DbInv, DbTypeOK
<1>2. /\ stage'[b] = "services" /\ connected'[b]
      /\ \A a \in Boots \ {b} : stage'[a] = stage[a] /\ connected'[a] = connected[a]
  BY DEF Connect, Goto, DbInv, DbTypeOK
<1>3. stage[b] = "loading" /\ UNCHANGED <<bootPhase, promise, reinit, reinits>>
  BY DEF Connect, bounds
<1>4. BootIsSeen' /\ SingleBoot'
  BY <1>2, <1>3 DEF DbInv, BootIsSeen, SingleBoot
<1>5. Guards' /\ LossIsPending'
  BY <1>2, <1>3 DEF Connect, DbInv, Guards, LossIsPending
<1> QED
  BY <1>1, <1>4, <1>5 DEF DbInv

\* Steps that touch neither a boot nor what its callers look at.
LEMMA BootsKept ==
  ASSUME DbInv, UNCHANGED <<stage, bootPhase, promise, reinit, reinits>>
  PROVE  BootIsSeen' /\ SingleBoot'
BY DEF DbInv, BootIsSeen, SingleBoot

\* A loss arms its timer, unless a reconnection runs: that of the only instance
\* that ever lost its connection is its own.
LEMMA DropInv ==
  ASSUME DbInv, NEW i \in Boots, Drop(i)
  PROVE  DbInv'
<1>1. BootIsSeen' /\ SingleBoot'
  BY BootsKept DEF Drop, globals, boots
<1>2. /\ lost' = lost \cup {i} /\ timer' \in {timer, i}
      /\ drops' = drops + 1 /\ connected' \in [Boots -> BOOLEAN]
      /\ UNCHANGED <<globals, boots, intentional, inFlight, givenUp, waiting,
                     reinit, dbFailures, reinits>>
  BY DEF Drop, DbInv, DbTypeOK
<1>3. DbTypeOK'
  BY <1>2 DEF DbInv, DbTypeOK, globals, boots
<1>4. Guards'
  BY <1>2 DEF DbInv, Guards, globals
<1>5. LossIsPending'
  <2> SUFFICES ASSUME reinits' = 0, NEW j \in lost', lost' = {j}
               PROVE  timer' = j \/ inFlight' = j
    BY DEF LossIsPending
  <2>1. j = i /\ reinits = 0
    BY <1>2
  <2>2. CASE Suppressed(i)
    <3>1. inFlight # 0
      BY <2>1, <2>2 DEF Suppressed, DbInv, Guards
    <3> QED
      BY <1>2, <2>1, <3>1 DEF DbInv, Guards
  <2>3. CASE ~Suppressed(i)
    BY <2>1, <2>3 DEF Drop
  <2> QED
    BY <2>2, <2>3
<1> QED
  BY <1>1, <1>3, <1>4, <1>5 DEF DbInv

\* The timer hands its instance to a reconnection, which ends with a connection
\* or is given up.
LEMMA ReconnectInv ==
  ASSUME DbInv, TimerFires \/ Reconnect \/ ReconnectFails
  PROVE  DbInv'
<1>1. BootIsSeen' /\ SingleBoot'
  BY BootsKept DEF TimerFires, Reconnect, ReconnectFails, globals, boots, bounds
<1>2. CASE TimerFires
  <2>1. timer' = 0 /\ inFlight' \in {timer, inFlight} /\ inFlight' # 0
    BY <1>2 DEF TimerFires
  <2>2. DbTypeOK'
    BY <1>2, <2>1 DEF TimerFires, globals, boots, bounds, DbInv, DbTypeOK
  <2>3. Guards' /\ LossIsPending'
    BY <1>2, <2>1 DEF TimerFires, globals, bounds, DbInv, Guards, LossIsPending
  <2> QED
    BY <1>1, <2>2, <2>3 DEF DbInv
<1>3. CASE Reconnect
  <2>1. DbTypeOK'
    BY <1>3 DEF Reconnect, globals, boots, bounds, DbInv, DbTypeOK
  <2>2. Guards' /\ LossIsPending'
    BY <1>3 DEF Reconnect, globals, bounds, DbInv, DbTypeOK, Guards, LossIsPending
  <2> QED
    BY <1>1, <2>1, <2>2 DEF DbInv
<1>4. CASE ReconnectFails
  <2>1. dbFailures' \in Nat /\ givenUp' \subseteq Boots
    BY <1>4 DEF ReconnectFails, DbInv, DbTypeOK
  <2>2. DbTypeOK'
    BY <1>4, <2>1 DEF ReconnectFails, globals, boots, DbInv, DbTypeOK
  <2>3. Guards' /\ LossIsPending'
    BY <1>4 DEF ReconnectFails, globals, DbInv, Guards, LossIsPending
  <2> QED
    BY <1>1, <2>2, <2>3 DEF DbInv
<1> QED
  BY <1>2, <1>3, <1>4

\* A shutdown is counted: nothing is promised after the first.
LEMMA ShutdownInv ==
  ASSUME DbInv, Shutdown \/ Clear
  PROVE  DbInv'
<1>1. CASE Shutdown
  <2>1. reinits' \in Nat /\ reinits' # 0
    BY <1>1 DEF Shutdown, DbInv, DbTypeOK
  <2>2. connected' \in [Boots -> BOOLEAN] /\ intentional' \in [Boots -> BOOLEAN]
    BY <1>1 DEF Shutdown, DbInv, DbTypeOK
  <2>3. DbTypeOK'
    BY <1>1, <2>1, <2>2 DEF Shutdown, boots, DbInv, DbTypeOK
  <2>4. BootIsSeen' /\ SingleBoot' /\ LossIsPending'
    BY <2>1 DEF BootIsSeen, SingleBoot, LossIsPending
  <2>5. Guards'
    BY <1>1, <2>1 DEF Shutdown, DbInv, Guards
  <2> QED
    BY <2>3, <2>4, <2>5 DEF DbInv
<1>2. CASE Clear
  <2>1. DbTypeOK'
    BY <1>2 DEF Clear, boots, links, bounds, DbInv, DbTypeOK
  <2>2. reinits' # 0
    BY <1>2 DEF Clear, bounds, DbInv, BootIsSeen
  <2>3. BootIsSeen' /\ SingleBoot' /\ LossIsPending'
    BY <2>2 DEF BootIsSeen, SingleBoot, LossIsPending
  <2>4. Guards'
    BY <1>2, <2>2 DEF Clear, links, DbInv, Guards
  <2> QED
    BY <2>1, <2>3, <2>4 DEF DbInv
<1> QED
  BY <1>1, <1>2

\* Every step preserves the invariant.
LEMMA DbNextInv == DbInv /\ [DbNext]_dbVars => DbInv'
<1> SUFFICES ASSUME DbInv, [DbNext]_dbVars PROVE DbInv'
  OBVIOUS
<1>1. ASSUME NEW p \in Boots, Return(p) PROVE DbInv'
  <2>1. UNCHANGED <<globals, boots, links, reinit, bounds>> /\ waiting' \subseteq Boots
    BY <1>1 DEF Return, DbInv, DbTypeOK
  <2> QED
    BY <2>1 DEF globals, boots, links, bounds, DbInv, DbTypeOK, BootIsSeen, SingleBoot,
                Guards, LossIsPending
<1>2. CASE UNCHANGED dbVars
  BY <1>2 DEF dbVars, globals, boots, links, bounds, DbInv, DbTypeOK, BootIsSeen,
              SingleBoot, Guards, LossIsPending
<1> QED
  BY <1>1, <1>2, CallInv, WarmSettingsInv, BootInv, ConnectInv, DropInv, ReconnectInv,
     ShutdownInv DEF DbNext, Boot

-----------------------------------------------------------------------------
(* The server.                                                             *)

ServerInv == TxInv /\ MigInv /\ DbInv /\ LoopInv

\* A step of the server is one of a part, or none.
LEMMA ServerSafe == ServerSpec => []ServerInv
<1>1. ServerInit => ServerInv
  BY TxInitInv, MigInitInv, DbInitInv, LoopInitInv DEF ServerInit, ServerInv
<1>2. ServerInv /\ [ServerNext]_<<txVars, migVars, dbVars, loopVars>> => ServerInv'
  <2> SUFFICES ASSUME ServerInv, [ServerNext]_<<txVars, migVars, dbVars, loopVars>>
               PROVE  ServerInv'
    OBVIOUS
  <2>1. /\ [TxNext]_txVars /\ [MigNext]_migVars
        /\ [DbNext]_dbVars /\ [LoopNext]_loopVars
    BY DEF ServerNext
  <2> QED
    BY <2>1, TxNextInv, MigNextInv, DbNextInv, LoopNextInv DEF ServerInv
<1> QED
  BY <1>1, <1>2, PTL DEF ServerSpec

\* The variables of all four parts keep their types.
THEOREM ServerTypeCorrect == ServerSpec => []ServerTypeOK
<1>1. ServerInv => ServerTypeOK
  BY DEF ServerInv, TxInv, MigInv, DbInv, LoopInv, ServerTypeOK
<1> QED
  BY <1>1, ServerSafe, PTL

\* ensureFullInitialization: whatever is lost or fails, boots do not overlap while
\* nobody shuts the system down.
THEOREM BootsNeverOverlap == ServerSpec => []SingleBoot
<1>1. ServerInv => SingleBoot
  BY DEF ServerInv, DbInv
<1> QED
  BY <1>1, ServerSafe, PTL

\* scheduleAdapterReconnection: as long as nobody shuts the system down, the only
\* instance that ever lost its connection has it back, or its timer is armed or its
\* reconnection runs, until every attempt failed.
THEOREM LossesAreAttendedTo == ServerSpec => []LossIsPending
<1>1. ServerInv => LossIsPending
  BY DEF ServerInv, DbInv
<1> QED
  BY <1>1, ServerSafe, PTL

\* The promises of the parts hold in the whole server: transactions are atomic,
\* answered writes durable, one instance migrates, the loops are accounted for.
THEOREM ServerKeepsPromises ==
  ServerSpec => [](AllOrNothing /\ AcknowledgedStays /\ OneMigrator /\ LoopsAccounted)
<1>1. TxInv => AllOrNothing /\ AcknowledgedStays
  BY DEF TxInv
<1>2. MigInv => OneMigrator
  BY DEF MigInv, MigratorHasLock, LockMeansSchema, OneMigrator, Migrators
<1>3. LoopInv => LoopsAccounted
  BY DEF LoopInv
<1>4. ServerInv => AllOrNothing /\ AcknowledgedStays /\ OneMigrator /\ LoopsAccounted
  BY <1>1, <1>2, <1>3 DEF ServerInv
<1> QED
  BY <1>4, ServerSafe, PTL
=============================================================================
