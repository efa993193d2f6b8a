------------------------------- MODULE Outbox -------------------------------
(***************************************************************************)
(* The outbox of domain events: the in-memory emit buffer of each server   *)
(* process and its debounced flush into svelty_outbox, and the polling     *)
(* tick that reads pending rows, publishes them, hands them to the webhook *)
(* service and marks them.  An operator that precedes the one it is named  *)
(* after is a broken variant of it, used to show that a property can fail. *)
(***************************************************************************)
EXTENDS Naturals, FiniteSets

CONSTANTS Procs,        \* server processes sharing the table
          Ticks,        \* processBatch calls a process can have in flight
          Events,       \* events that can ever be emitted
          RequeueCap,   \* 4 * OUTBOX_BUFFER_HARD_MAX
          MaxAttempts,  \* OUTBOX_MAX_ATTEMPTS
          FetchLimit,   \* batchSize * 3, how many rows a tick reads
          BatchSize,    \* how many of them it delivers
          MultiTenant,  \* TRUE in MULTI_TENANT mode
          MaxThrows,    \* bound: deliveries and flushes that throw
          MaxFaults,    \* bound: failed database calls and crashes
          MaxDbLosses,  \* bound: times the adapter is torn down and rebuilt
          NoEvent

ASSUME EventsAssumption == NoEvent \notin Events
ASSUME LimitsAssumption ==
  /\ RequeueCap \in Nat \ {0} /\ MaxAttempts \in Nat \ {0}
  /\ FetchLimit \in Nat \ {0} /\ BatchSize \in 1..FetchLimit
  /\ MultiTenant \in BOOLEAN
  /\ MaxThrows \in Nat /\ MaxFaults \in Nat /\ MaxDbLosses \in Nat

VARIABLES emitted,    \* history: events whose emit call returned
          shed,       \* history: events dropped because the buffer was full
          buffer,     \* buffer[p]: emitBuffer
          flight,     \* flight[p]: the batch a running flush has taken from it
          flush,      \* flush[p]: emitFlushInFlight: "none", "running" or "stale"
          timer,      \* timer[p]: emitFlushTimer or emitFlushImmediate is armed
          dbUp,       \* dbUp[p]: getDb() returns an adapter
          row,        \* row[e]: status column, "none" when there is no row
          tries,      \* tries[e]: attempts column
          ready,      \* ready[e]: past the backoff window
          processing, \* processing[p]: isProcessing
          step,       \* step[t]: where a processBatch call stands
          todo,       \* todo[t]: <<event, attempts read>> still to be delivered
          current,    \* current[t]: the pair being delivered
          hooks,      \* hooks[p]: webhook dispatches nobody awaits
          queued,     \* events whose webhook job was created
          published,  \* history: publications of each event
          throws, faults, dbLosses

bufferVars == <<buffer, flight, flush, timer>>
rowVars    == <<row, tries, ready>>
tickVars   == <<processing, step, todo, current>>
hookVars   == <<hooks, queued>>
bounds     == <<throws, faults, dbLosses>>
vars == <<emitted, shed, bufferVars, dbUp, rowVars, tickVars, hookVars, published, bounds>>

Calls      == Procs \X Ticks
CallsOf(p) == {t \in Calls : t[1] = p}

Init ==
  /\ emitted = {} /\ shed = {}
  /\ buffer = [p \in Procs |-> {}]
  /\ flight = [p \in Procs |-> {}]
  /\ flush = [p \in Procs |-> "none"]
  /\ timer = [p \in Procs |-> FALSE]
  /\ dbUp = [p \in Procs |-> TRUE]
  /\ row = [e \in Events |-> "none"]
  /\ tries = [e \in Events |-> 0]
  /\ ready = [e \in Events |-> TRUE]
  /\ processing = [p \in Procs |-> FALSE]
  /\ step = [t \in Calls |-> "idle"]
  /\ todo = [t \in Calls |-> {}]
  /\ current = [t \in Calls |-> <<NoEvent, 0>>]
  /\ hooks = [p \in Procs |-> {}]
  /\ queued = {}
  /\ published = [e \in Events |-> 0]
  /\ throws = 0 /\ faults = 0 /\ dbLosses = 0

-----------------------------------------------------------------------------
(* Emitting and flushing.                                                  *)

\* enqueueBuffered: push, then re-arm the debounce timer or, from HARD_MAX on, the
\* immediate.
Emit(p, e) ==
  /\ e \notin emitted
  /\ emitted' = emitted \cup {e}
  /\ buffer' = [buffer EXCEPT ![p] = @ \cup {e}]
  /\ timer' = [timer EXCEPT ![p] = TRUE]
  /\ UNCHANGED <<shed, flight, flush, dbUp, rowVars, tickVars, hookVars, published, bounds>>

\* emit with a transaction that commits: the row is written with the caller's data.
EmitInTransaction(p, e) ==
  /\ e \notin emitted /\ dbUp[p]
  /\ emitted' = emitted \cup {e}
  /\ row' = [row EXCEPT ![e] = "pending"]
  /\ UNCHANGED <<shed, bufferVars, dbUp, tries, ready, tickVars, hookVars, published, bounds>>

\* flushEmitBuffer when no flush is under way, for the buffer contents S: takes S
\* and disarms the timers.  Without a database it returns before its try block, so
\* that the finally which resets emitFlushInFlight never runs.
TakeBuffer(p, S) ==
  IF S = {}
  THEN /\ flush' = [flush EXCEPT ![p] = "none"]
       /\ flight' = [flight EXCEPT ![p] = {}]
       /\ buffer' = [buffer EXCEPT ![p] = {}]
       /\ UNCHANGED timer
  ELSE /\ flush' = [flush EXCEPT ![p] = IF dbUp[p] THEN "running" ELSE "stale"]
       /\ flight' = [flight EXCEPT ![p] = IF dbUp[p] THEN S ELSE {}]
       /\ buffer' = [buffer EXCEPT ![p] = {}]
       /\ timer' = [timer EXCEPT ![p] = FALSE]

TimerFires(p) ==
  /\ timer[p]
  /\ IF flush[p] = "none" /\ buffer[p] # {}
     THEN TakeBuffer(p, buffer[p])
     ELSE timer' = [timer EXCEPT ![p] = FALSE] /\ UNCHANGED <<buffer, flight, flush>>
  /\ UNCHANGED <<emitted, shed, dbUp, rowVars, tickVars, hookVars, published, bounds>>

\* Every call that awaited the flush goes on; the finally starts the next one.
FlushReturns(p, left) ==
  /\ TakeBuffer(p, left)
  /\ step' = [t \in Calls |-> IF t[1] = p /\ step[t] = "flushing" THEN "fetch" ELSE step[t]]
  /\ UNCHANGED <<emitted, dbUp, tries, ready, processing, todo, current, hookVars,
                 published, dbLosses>>

FlushDone(p) ==
  /\ flush[p] = "running"
  /\ row' = [e \in Events |-> IF e \in flight[p] THEN "pending" ELSE row[e]]
  /\ FlushReturns(p, buffer[p])
  /\ UNCHANGED <<shed, throws, faults>>

\* insertMany answers success: false; the answer is not looked at.
FlushRefused(p) ==
  /\ flush[p] = "running"
  /\ faults < MaxFaults /\ faults' = faults + 1
  /\ FlushReturns(p, buffer[p])
  /\ UNCHANGED <<shed, row, throws>>

\* The flush throws: the batch goes back unless the buffer has grown too long.
Overfull(p) == Cardinality(buffer[p]) >= RequeueCap

RequeuedNothing(p) == buffer[p]

Requeued(p) == IF Overfull(p) THEN buffer[p] ELSE flight[p] \cup buffer[p]

FlushThrows(p) ==
  /\ flush[p] = "running"
  /\ throws < MaxThrows /\ throws' = throws + 1
  /\ FlushReturns(p, Requeued(p))
  /\ shed' = IF Overfull(p) THEN shed \cup flight[p] ELSE shed
  /\ UNCHANGED <<row, faults>>

-----------------------------------------------------------------------------
(* processBatch.                                                           *)

MayTickAgain(p) == dbUp[p]

MayTick(p) == ~processing[p] /\ dbUp[p]

BeginTick(t) ==
  LET p == t[1] IN
  /\ MayTick(p) /\ step[t] = "idle"
  /\ processing' = [processing EXCEPT ![p] = TRUE]
  /\ IF buffer[p] # {} /\ flush[p] = "none"
     THEN TakeBuffer(p, buffer[p])
     ELSE UNCHANGED bufferVars
  /\ step' = [step EXCEPT ![t] = IF buffer[p] # {} /\ flush[p] # "stale"
                                 THEN "flushing" ELSE "fetch"]
  /\ UNCHANGED <<emitted, shed, dbUp, rowVars, todo, current, hookVars, published, bounds>>

PendingFirstTime == {e \in Events : row[e] = "pending" /\ tries[e] = 0}

PendingOrFailed == {e \in Events : row[e] \in {"pending", "failed"}}

Pending == {e \in Events : row[e] = "pending"}

UpTo(n, S) == {T \in SUBSET S : Cardinality(T) = n \/ (T = S /\ Cardinality(S) < n)}

EndTickSticky(t) ==
  /\ step' = [step EXCEPT ![t] = "idle"]
  /\ UNCHANGED processing

EndTick(t) ==
  /\ step' = [step EXCEPT ![t] = "idle"]
  /\ processing' = [processing EXCEPT ![t[1]] = FALSE]

\* Up to FetchLimit pending rows; those past their backoff, up to BatchSize, are
\* delivered.  The query names no tenant, so MULTI_TENANT mode rejects it.
FetchPending(t) ==
  /\ step[t] = "fetch"
  /\ IF MultiTenant \/ Pending = {}
     THEN EndTick(t) /\ UNCHANGED todo
     ELSE \E S \in UpTo(FetchLimit, Pending) : \E T \in UpTo(BatchSize, S \cap {e \in Events : ready[e]}) :
            /\ todo' = [todo EXCEPT ![t] = {<<e, tries[e]>> : e \in T}]
            /\ IF T = {} THEN EndTick(t)
               ELSE step' = [step EXCEPT ![t] = "deliver"] /\ UNCHANGED processing
  /\ UNCHANGED <<emitted, shed, bufferVars, dbUp, rowVars, current, hookVars, published, bounds>>

FetchFailsSticky(t) ==
  /\ step[t] = "fetch"
  /\ faults < MaxFaults /\ faults' = faults + 1
  /\ step' = [step EXCEPT ![t] = "idle"]
  /\ UNCHANGED <<emitted, shed, bufferVars, dbUp, rowVars, todo, current, hookVars, published,
                 processing, throws, dbLosses>>

\* findMany answers success: false: nothing to deliver in this tick.
FetchFails(t) ==
  /\ step[t] = "fetch"
  /\ faults < MaxFaults /\ faults' = faults + 1
  /\ EndTick(t)
  /\ UNCHANGED <<emitted, shed, bufferVars, dbUp, rowVars, todo, current, hookVars, published,
                 throws, dbLosses>>

\* webhookService.trigger: the dispatch is started and not waited for.
Trigger(p, e) == hooks' = [hooks EXCEPT ![p] = @ \cup {e}]

Publish(e) == published' = [published EXCEPT ![e] = @ + 1]

\* pubSub.publish, then the webhooks; one of the two may throw.
Deliver(t) ==
  /\ step[t] = "deliver"
  /\ \E d \in todo[t] :
       /\ todo' = [todo EXCEPT ![t] = @ \ {d}]
       /\ current' = [current EXCEPT ![t] = d]
       /\ Publish(d[1])
       /\ \/ /\ step' = [step EXCEPT ![t] = "delivered"]
             /\ Trigger(t[1], d[1])
             /\ UNCHANGED throws
          \/ /\ step' = [step EXCEPT ![t] = "threw"]
             /\ throws < MaxThrows /\ throws' = throws + 1
             /\ UNCHANGED hooks
  /\ UNCHANGED <<emitted, shed, bufferVars, dbUp, rowVars, processing, queued,
                 faults, dbLosses>>

NextEvent(t) ==
  /\ current' = [current EXCEPT ![t] = <<NoEvent, 0>>]
  /\ IF todo[t] = {} THEN EndTick(t)
     ELSE step' = [step EXCEPT ![t] = "deliver"] /\ UNCHANGED processing
  /\ UNCHANGED <<emitted, shed, bufferVars, dbUp, todo, hookVars, published, throws, dbLosses>>

Stored(e) == row[e] \notin {"none", "purged"}

MarkDelivered(t) ==
  /\ step[t] = "delivered"
  /\ row' = [row EXCEPT ![current[t][1]] = IF Stored(current[t][1]) THEN "delivered" ELSE @]
  /\ NextEvent(t)
  /\ UNCHANGED <<tries, ready, faults>>

SameAttempts(t) == current[t][2]

NewAttempts(t) == current[t][2] + 1

\* attempts is one more than the value the tick read, the fifth failure is final.
MarkFailed(t) ==
  LET e == current[t][1]  n == NewAttempts(t) IN
  /\ step[t] = "threw"
  /\ IF Stored(e)
     THEN /\ row' = [row EXCEPT ![e] = IF n >= MaxAttempts THEN "failed" ELSE "pending"]
          /\ tries' = [tries EXCEPT ![e] = n]
          /\ ready' = [ready EXCEPT ![e] = FALSE]
     ELSE UNCHANGED rowVars
  /\ NextEvent(t)
  /\ UNCHANGED faults

\* The marking update answers success: false; the answer is not looked at.
MarkLost(t) ==
  /\ step[t] \in {"delivered", "threw"}
  /\ faults < MaxFaults /\ faults' = faults + 1
  /\ NextEvent(t)
  /\ UNCHANGED rowVars

BackoffElapses(e) ==
  /\ ~ready[e]
  /\ ready' = [ready EXCEPT ![e] = TRUE]
  /\ UNCHANGED <<emitted, shed, bufferVars, dbUp, row, tries, tickVars, hookVars, published, bounds>>

Cleanup ==
  /\ \E S \in SUBSET {e \in Events : row[e] = "delivered"} :
       S # {} /\ row' = [e \in Events |-> IF e \in S THEN "purged" ELSE row[e]]
  /\ UNCHANGED <<emitted, shed, bufferVars, dbUp, tries, ready, tickVars, hookVars, published, bounds>>

-----------------------------------------------------------------------------
(* Webhook dispatch, database reinitialisation, crashes.                   *)

DispatchHook(p, e) ==
  /\ e \in hooks[p]
  /\ hooks' = [hooks EXCEPT ![p] = @ \ {e}]
  /\ \/ queued' = queued \cup {e} /\ UNCHANGED faults
     \/ faults < MaxFaults /\ faults' = faults + 1 /\ UNCHANGED queued
  /\ UNCHANGED <<emitted, shed, bufferVars, dbUp, rowVars, tickVars, published, throws, dbLosses>>

\* reinitializeSystem drops the adapter, and a while later there is a new one.
LoseDb(p) ==
  /\ dbUp[p] /\ dbLosses < MaxDbLosses
  /\ dbLosses' = dbLosses + 1
  /\ dbUp' = [dbUp EXCEPT ![p] = FALSE]
  /\ UNCHANGED <<emitted, shed, bufferVars, rowVars, tickVars, hookVars, published, throws, faults>>

RegainDb(p) ==
  /\ ~dbUp[p]
  /\ dbUp' = [dbUp EXCEPT ![p] = TRUE]
  /\ UNCHANGED <<emitted, shed, bufferVars, rowVars, tickVars, hookVars, published, bounds>>

\* A crash, and a shutdown too: nothing flushes the buffer.
Crash(p) ==
  /\ faults < MaxFaults /\ faults' = faults + 1
  /\ buffer' = [buffer EXCEPT ![p] = {}]
  /\ flight' = [flight EXCEPT ![p] = {}]
  /\ flush' = [flush EXCEPT ![p] = "none"]
  /\ timer' = [timer EXCEPT ![p] = FALSE]
  /\ dbUp' = [dbUp EXCEPT ![p] = TRUE]
  /\ processing' = [processing EXCEPT ![p] = FALSE]
  /\ step' = [t \in Calls |-> IF t[1] = p THEN "idle" ELSE step[t]]
  /\ todo' = [t \in Calls |-> IF t[1] = p THEN {} ELSE todo[t]]
  /\ current' = [t \in Calls |-> IF t[1] = p THEN <<NoEvent, 0>> ELSE current[t]]
  /\ hooks' = [hooks EXCEPT ![p] = {}]
  /\ UNCHANGED <<emitted, shed, rowVars, queued, published, throws, dbLosses>>

-----------------------------------------------------------------------------

Write   == \E p \in Procs, e \in Events : Emit(p, e) \/ EmitInTransaction(p, e)
Flush   == \E p \in Procs : TimerFires(p) \/ FlushDone(p) \/ FlushRefused(p) \/ FlushThrows(p)
Process == \E t \in Calls : \/ BeginTick(t) \/ FetchPending(t) \/ FetchFails(t) \/ Deliver(t)
                            \/ MarkDelivered(t) \/ MarkFailed(t) \/ MarkLost(t)
Around  == \/ Cleanup
           \/ \E e \in Events : BackoffElapses(e) \/ \E p \in Procs : DispatchHook(p, e)
           \/ \E p \in Procs : LoseDb(p) \/ RegainDb(p) \/ Crash(p)

Next == Write \/ Flush \/ Process \/ Around

Spec == Init /\ [][Next]_vars

(* Timers fire, database calls are answered, the poller ticks for ever, the *)
(* adapter comes back and time passes every backoff window.                 *)
Fairness ==
  /\ \A p \in Procs : /\ WF_vars(TimerFires(p)) /\ WF_vars(FlushDone(p))
                      /\ WF_vars(RegainDb(p))
                      /\ WF_vars(\E t \in CallsOf(p) : BeginTick(t))
  /\ \A t \in Calls : /\ WF_vars(FetchPending(t)) /\ WF_vars(Deliver(t))
                      /\ WF_vars(MarkDelivered(t)) /\ WF_vars(MarkFailed(t))
  /\ \A e \in Events : WF_vars(BackoffElapses(e))

FairSpec == Spec /\ Fairness

-----------------------------------------------------------------------------
(* Properties.                                                             *)

RowStates == {"none", "pending", "delivered", "failed", "purged"}
StepNames == {"idle", "flushing", "fetch", "deliver", "delivered", "threw"}

\* Every variable has its shape, and isProcessing says whether a tick is under way.
TypeOK ==
  /\ emitted \subseteq Events /\ shed \subseteq Events /\ queued \subseteq Events
  /\ buffer \in [Procs -> SUBSET Events] /\ flight \in [Procs -> SUBSET Events]
  /\ hooks \in [Procs -> SUBSET Events]
  /\ flush \in [Procs -> {"none", "running", "stale"}]
  /\ timer \in [Procs -> BOOLEAN] /\ dbUp \in [Procs -> BOOLEAN]
  /\ row \in [Events -> RowStates] /\ tries \in [Events -> Nat]
  /\ ready \in [Events -> BOOLEAN] /\ published \in [Events -> Nat]
  /\ processing \in [Procs -> BOOLEAN] /\ step \in [Calls -> StepNames]
  /\ todo \in [Calls -> SUBSET (Events \X Nat)]
  /\ current \in [Calls -> (Events \cup {NoEvent}) \X Nat]
  /\ \A p \in Procs : processing[p] <=> \E t \in CallsOf(p) : step[t] # "idle"
  /\ throws \in 0..MaxThrows /\ faults \in 0..MaxFaults /\ dbLosses \in 0..MaxDbLosses

\* An emitted event is in a buffer, in a batch being written, or in the table, but
\* for those a throwing flush shed because the buffer was at its cap: domain events
\* are not lost.
NoEventLost ==
  \A e \in emitted : \/ row[e] # "none" \/ e \in shed
                     \/ \E p \in Procs : e \in buffer[p] \cup flight[p]

\* isProcessing keeps the ticks of a process apart: no two calls are delivering
\* or marking at once.
OneTickAtATime ==
  \A t, u \in Calls : t[1] = u[1] /\ step[t] # "idle" /\ step[u] # "idle" => t = u

\* Every publication but the one in progress or the last is accounted for in the
\* attempts column, so that the fifth failure really is the last delivery.
AttemptsCounted == \A e \in Events : published[e] <= tries[e] + 1

\* A delivered or failed event is never taken back to pending, and a failed one
\* never becomes delivered.
SettledIsFinal ==
  [][\A e \in Events : row[e] \in {"delivered", "failed"} =>
       row'[e] \in {row[e], "purged"}]_vars

\* An event that reached the table is delivered or failed for good, whatever crashes,
\* failed calls and database losses come between: at least one delivery.
StoredIsSettled ==
  \A e \in Events : row[e] = "pending" ~> row[e] \in {"delivered", "failed", "purged"}

\* Every emitted event is delivered, or failed after its last attempt, unless it
\* was shed at the buffer's cap.
EmittedIsSettled ==
  \A e \in Events :
    e \in emitted ~> row[e] \in {"delivered", "failed", "purged"} \/ e \in shed

=============================================================================
