-------------------------- MODULE DatabaseLifecycle --------------------------
(***************************************************************************)
(* Boot, shutdown and self-healing of the database connection.  The        *)
(* adapter, the initialisation promise and the boot phase are globals that *)
(* every boot reads and writes between its awaits.  Each boot loads an     *)
(* adapter instance of its own; boots and instances share their numbers.   *)
(***************************************************************************)
EXTENDS Naturals, FiniteSets

CONSTANTS
    MaxBoots,       \* bound: boots, and so adapter instances
    MaxReinits,     \* bound: calls of reinitializeSystem or shutdownSystem
    MaxTroubles     \* bound: those, connections that are lost, and boots and
                    \* reconnections that fail

ASSUME LifecycleAssumption ==
    MaxBoots \in Nat /\ MaxReinits \in Nat /\ MaxTroubles \in Nat

VARIABLES
    adapter,        \* __DB_ADAPTER_INSTANCE__: an instance, or 0
    promise,        \* __DB_INIT_PROMISE__: the promise of a boot, or 0
    bootPhase,      \* __BOOT_PHASE__
    shuttingDown,   \* __SYSTEM_SHUTTING_DOWN__
    booted,         \* boots started
    stage,          \* where a boot stands
    waitsFor,       \* the promise a boot awaits while it warms the settings
    connected,      \* isConnected() of an instance
    intentional,    \* __intentionalDisconnect__ of an instance
    timer,          \* reconnectTimer: the instance it will reconnect, or 0
    inFlight,       \* reconnectInFlight: the instance, or 0
    waiting,        \* the promises that callers of the boot await
    reinit,         \* where reinitializeSystem or shutdownSystem stands
    lost,           \* history: instances that have lost their connection
    givenUp,        \* history: those for which every attempt failed
    drops, dbFailures, reinits

globals == <<adapter, promise, bootPhase, shuttingDown>>
boots == <<booted, stage, waitsFor>>
links == <<connected, intentional, timer, inFlight, lost, givenUp>>
bounds == <<drops, dbFailures, reinits>>
dbVars == <<globals, boots, links, waiting, reinit, bounds>>

Boots == 1 .. MaxBoots
Troubles == drops + dbFailures + reinits
Active == {"loading", "services", "warming", "finishing"}
Ended == {"done", "crashed"}

DbInit ==
    /\ adapter = 0 /\ promise = 0 /\ bootPhase = "IDLE"
    /\ shuttingDown = FALSE
    /\ booted = 0
    /\ stage = [b \in Boots |-> "unused"]
    /\ waitsFor = [b \in Boots |-> 0]
    /\ connected = [b \in Boots |-> FALSE]
    /\ intentional = [b \in Boots |-> FALSE]
    /\ timer = 0 /\ inFlight = 0
    /\ waiting = {}
    /\ reinit = "none"
    /\ lost = {} /\ givenUp = {}
    /\ drops = 0 /\ dbFailures = 0 /\ reinits = 0

-----------------------------------------------------------------------------
(* ensureFullInitialization                                                *)

\* Defect: the promise is awaited whatever the phase.
FastPathNever == FALSE

\* While a boot is under way and has published its adapter, the adapter is
\* handed out at once.
FastPath == promise # 0 /\ bootPhase = "INITIALIZING" /\ adapter # 0

\* Defect: the phase is not looked at while a boot is under way.
JoinsWhenReady ==
    /\ promise # 0
    /\ bootPhase = "READY" /\ adapter # 0 /\ connected[adapter]

\* The promise is awaited: the boot is still on its way to an adapter, or the
\* system is ready and connected.
Joins ==
    /\ promise # 0
    /\ \/ bootPhase = "INITIALIZING"
       \/ bootPhase = "READY" /\ adapter # 0 /\ connected[adapter]

Starts == ~FastPath /\ ~Joins

\* The promise that the call awaits, 0 for none.
Awaited ==
    CASE FastPath -> 0
      [] Joins -> promise
      [] OTHER -> booted + 1

\* What the call does before its first await, with the stages as given.
Ensure(stages) ==
    /\ Starts => booted < MaxBoots
    /\ shuttingDown' = FALSE
    /\ bootPhase' = IF Starts THEN "INITIALIZING" ELSE bootPhase
    /\ promise' = IF Starts THEN booted + 1 ELSE promise
    /\ booted' = IF Starts THEN booted + 1 ELSE booted
    /\ stage' = IF Starts THEN [stages EXCEPT ![booted + 1] = "loading"]
                          ELSE stages
    /\ UNCHANGED adapter

\* A promise that is settled is no wait.
Pending(p) == p # 0 /\ stage[p] \in Active

\* A request, a hook or startScheduler awaits dbInitPromise, unless it has
\* the answer at once.
Call ==
    /\ Ensure(stage)
    /\ waiting' = IF Starts \/ Pending(Awaited) THEN waiting \cup {Awaited}
                                               ELSE waiting
    /\ UNCHANGED <<waitsFor, links, reinit, bounds>>

Return(p) ==
    /\ p \in waiting
    /\ ~Pending(p)
    /\ waiting' = waiting \ {p}
    /\ UNCHANGED <<globals, boots, links, reinit, bounds>>

-----------------------------------------------------------------------------
(* One boot                                                                *)

Goto(b, s) == stage' = [stage EXCEPT ![b] = s]

\* The adapter is loaded, connected and published.
Connect(b) ==
    /\ stage[b] = "loading"
    /\ connected' = [connected EXCEPT ![b] = TRUE]
    /\ adapter' = b
    /\ Goto(b, "services")
    /\ UNCHANGED <<promise, bootPhase, shuttingDown, booted, waitsFor,
                   intentional, timer, inFlight, lost, givenUp, waiting,
                   reinit, bounds>>

StartServices(b) ==
    /\ stage[b] = "services"
    /\ Goto(b, "warming")
    /\ UNCHANGED <<globals, booted, waitsFor, links, waiting, reinit, bounds>>

\* loadSettingsCache calls ensureFullInitialization in the middle of the boot.
WarmSettings(b) ==
    /\ stage[b] = "warming"
    /\ Ensure([stage EXCEPT ![b] = "finishing"])
    /\ waitsFor' = [waitsFor EXCEPT ![b] = Awaited]
    /\ UNCHANGED <<links, waiting, reinit, bounds>>

\* The settings are still cached from an earlier boot.
WarmFromCache(b) ==
    /\ stage[b] = "warming"
    /\ \E a \in Boots : stage[a] = "done"
    /\ Goto(b, "finishing")
    /\ UNCHANGED <<globals, booted, waitsFor, links, waiting, reinit, bounds>>

\* Whether the settings were loaded or not, the phase is READY.
Ready(b) ==
    /\ stage[b] = "finishing"
    /\ ~Pending(waitsFor[b])
    /\ waitsFor' = [waitsFor EXCEPT ![b] = 0]
    /\ bootPhase' = "READY"
    /\ Goto(b, "done")
    /\ UNCHANGED <<adapter, promise, shuttingDown, booted, links, waiting,
                   reinit, bounds>>

\* The catch of the boot: whichever promise the global holds is dropped.
BootCrashes(b) ==
    /\ stage[b] \in {"loading", "services"}
    /\ Troubles < MaxTroubles
    /\ dbFailures' = dbFailures + 1
    /\ bootPhase' = "FAILED"
    /\ promise' = 0
    /\ Goto(b, "crashed")
    /\ UNCHANGED <<adapter, shuttingDown, booted, waitsFor, links, waiting,
                   reinit, drops, reinits>>

-----------------------------------------------------------------------------
(* Lost connections                                                        *)

\* scheduleAdapterReconnection looks at its guards, and replaces the timer.
Suppressed(i) == inFlight # 0 \/ shuttingDown \/ intentional[i]

\* What the driver of MongoDB answers falls with the connection; the flag of the
\* other adapters falls past the guards.
Drop(i) ==
    /\ connected[i]
    /\ Troubles < MaxTroubles
    /\ drops' = drops + 1
    /\ lost' = lost \cup {i}
    /\ IF Suppressed(i)
       THEN /\ connected' \in {connected, [connected EXCEPT ![i] = FALSE]}
            /\ UNCHANGED timer
       ELSE /\ connected' = [connected EXCEPT ![i] = FALSE]
            /\ timer' = i
    /\ UNCHANGED <<globals, boots, intentional, inFlight, givenUp, waiting,
                   reinit, dbFailures, reinits>>

\* Defect: what is reconnected is the adapter of the moment.
TimerFiresForAdapter ==
    /\ timer # 0
    /\ timer' = 0
    /\ inFlight' = IF inFlight = 0 THEN adapter ELSE inFlight
    /\ UNCHANGED <<globals, boots, connected, intentional, lost, givenUp,
                   waiting, reinit, bounds>>

\* runAdapterReconnection: none of the guards is looked at again.
TimerFires ==
    /\ timer # 0
    /\ timer' = 0
    /\ inFlight' = IF inFlight = 0 THEN timer ELSE inFlight
    /\ UNCHANGED <<globals, boots, connected, intentional, lost, givenUp,
                   waiting, reinit, bounds>>

Reconnect ==
    /\ inFlight # 0
    /\ connected' = [connected EXCEPT ![inFlight] = TRUE]
    /\ inFlight' = 0
    /\ UNCHANGED <<globals, boots, intentional, timer, lost, givenUp, waiting,
                   reinit, bounds>>

\* Every attempt failed: administrators are told and nothing is tried again.
ReconnectFails ==
    /\ inFlight # 0
    /\ Troubles < MaxTroubles
    /\ dbFailures' = dbFailures + 1
    /\ givenUp' = givenUp \cup {inFlight}
    /\ inFlight' = 0
    /\ UNCHANGED <<globals, boots, connected, intentional, timer, lost, waiting,
                   reinit, drops, reinits>>

-----------------------------------------------------------------------------
(* shutdownSystem and reinitializeSystem                                   *)

\* The guard is set and the adapter told that it is meant to disconnect.
Shutdown ==
    /\ reinit = "none"
    /\ reinits < MaxReinits /\ Troubles < MaxTroubles
    /\ reinits' = reinits + 1
    /\ shuttingDown' = TRUE
    /\ intentional' = IF adapter = 0 THEN intentional
                      ELSE [intentional EXCEPT ![adapter] = TRUE]
    /\ connected' = IF adapter = 0 THEN connected
                    ELSE [connected EXCEPT ![adapter] = FALSE]
    /\ reinit' = "clearing"
    /\ UNCHANGED <<adapter, promise, bootPhase, boots, timer, inFlight,
                   lost, givenUp, waiting, drops, dbFailures>>

\* Defect: the phase is left at a value that nobody knows.
ClearStopped ==
    /\ reinit = "clearing"
    /\ adapter' = 0 /\ promise' = 0 /\ bootPhase' = "STOPPED"
    /\ reinit' \in {"booting", "none"}
    /\ UNCHANGED <<shuttingDown, boots, links, waiting, bounds>>

\* After the awaits the globals are cleared, whoever has set them meanwhile.
Clear ==
    /\ reinit = "clearing"
    /\ adapter' = 0 /\ promise' = 0 /\ bootPhase' = "IDLE"
    /\ reinit' \in {"booting", "none"}
    /\ UNCHANGED <<shuttingDown, boots, links, waiting, bounds>>

\* reinitializeSystem goes on with ensureFullInitialization.
BootAgain ==
    /\ reinit = "booting"
    /\ Ensure(stage)
    /\ reinit' = "none"
    /\ UNCHANGED <<waitsFor, links, waiting, bounds>>

-----------------------------------------------------------------------------
Boot(b) ==
    \/ Connect(b) \/ StartServices(b)
    \/ WarmSettings(b) \/ WarmFromCache(b) \/ Ready(b)

DbNext ==
    \/ Call
    \/ \E b \in Boots : Return(b) \/ Boot(b) \/ BootCrashes(b) \/ Drop(b)
    \/ TimerFires \/ Reconnect \/ ReconnectFails
    \/ Shutdown \/ Clear \/ BootAgain

\* Awaited calls are answered and timers fire; nobody is obliged to call.
DbFairness ==
    /\ \A b \in Boots : WF_dbVars(Boot(b)) /\ WF_dbVars(Return(b))
    /\ WF_dbVars(TimerFires)
    /\ WF_dbVars(Reconnect)
    /\ WF_dbVars(Clear \/ BootAgain)

DbSpec == DbInit /\ [][DbNext]_dbVars /\ DbFairness

-----------------------------------------------------------------------------
\* Types of the globals, the boots and the instances.
DbTypeOK ==
    /\ adapter \in 0 .. MaxBoots /\ promise \in 0 .. MaxBoots
    /\ timer \in 0 .. MaxBoots /\ inFlight \in 0 .. MaxBoots
    /\ booted \in 0 .. MaxBoots
    /\ bootPhase \in {"IDLE", "INITIALIZING", "READY", "FAILED"}
    /\ shuttingDown \in BOOLEAN
    /\ stage \in [Boots -> Active \cup Ended \cup {"unused"}]
    /\ waitsFor \in [Boots -> 0 .. MaxBoots]
    /\ connected \in [Boots -> BOOLEAN]
    /\ intentional \in [Boots -> BOOLEAN]
    /\ waiting \subseteq Boots
    /\ reinit \in {"none", "clearing", "booting"}
    /\ lost \subseteq Boots /\ givenUp \subseteq Boots
    /\ drops \in Nat /\ dbFailures \in Nat /\ reinits \in Nat

\* Double-check locking of ensureFullInitialization: as long as nobody shuts
\* the system down, boots never overlap, whatever is lost or fails meanwhile.
SingleBoot ==
    reinits = 0 => \A a, b \in Boots :
        stage[a] \in Active /\ stage[b] \in Active => a = b

\* Self-healing: whatever boots and fails meanwhile, the only instance that ever
\* lost its connection is connected again, or its reconnection is armed or runs,
\* until every attempt has failed; as long as nobody shuts the system down.  A
\* second instance that loses its own meanwhile may take the timer away, or find
\* a reconnection under way and get none.
LossIsPending ==
    reinits = 0 => \A i \in lost :
        \/ connected[i] \/ timer = i \/ inFlight = i
        \/ i \in givenUp
        \/ lost # {i}

\* "Deadlock protection": callers of ensureFullInitialization get their answer,
\* and no boot waits for ever in its own settings load, as long as nobody shuts
\* the system down.
CallersReturn ==
    \A b \in Boots : b \in waiting ~> b \notin waiting \/ reinits > 0
=============================================================================
