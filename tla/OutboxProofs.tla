---------------------------- MODULE OutboxProofs ----------------------------
(***************************************************************************)
(* Proofs about Outbox, for any processes, ticks, events and limits.  The  *)
(* ticks of a process are kept apart under every fault.  That events are   *)
(* not lost is proved where no call of the database is refused, no process *)
(* crashes and no adapter is torn down: each of these does lose events.    *)
(* That settled rows stay is proved for one process, whatever fails: two   *)
(* processes hand out the same event.                                      *)
(***************************************************************************)
EXTENDS Outbox, TLAPS

\* The shapes of TypeOK, and what isProcessing says.
Shapes ==
  /\ emitted \subseteq Events /\ shed \subseteq Events /\ queued \subseteq Events
  /\ buffer \in [Procs -> SUBSET Events] /\ flight \in [Procs -> SUBSET Events]
  /\ hooks \in [Procs -> SUBSET Events]
  /\ flush \in [Procs -> {"none", "running", "stale"}]
  /\ timer \in [Procs -> BOOLEAN] /\ dbUp \in [Procs -> BOOLEAN]
  /\ row \in [Events -> RowStates] /\ tries \in [Events -> Nat]
  /\ ready \in [Events -> BOOLEAN] /\ published \in [Events -> Nat]
  /\ processing \in [Procs -> BOOLEAN] /\ step \in [Calls -> StepNames]
  /\ todo \in [Calls -> SUBSET (Events \X Nat)]
  /\ current \in [Calls -> (Events \cup {NoEvent}) \X Nat]
  /\ throws \in 0..MaxThrows /\ faults \in 0..MaxFaults /\ dbLosses \in 0..MaxDbLosses

BusyTells ==
  \A p \in Procs : processing[p] <=> \E t \in CallsOf(p) : step[t] # "idle"

\* A tick that delivers or marks an event has one.
CurrentIsEvent ==
  \A t \in Calls : step[t] \in {"delivered", "threw"} => current[t] \in Events \X Nat

TickInv == BusyTells /\ OneTickAtATime /\ CurrentIsEvent

OutInv == Shapes /\ TickInv

USE EventsAssumption, LimitsAssumption
USE DEF Calls, CallsOf, RowStates, StepNames

-----------------------------------------------------------------------------
LEMMA TypeIsShapes == TypeOK <=> Shapes /\ BusyTells
BY DEF TypeOK, Shapes, BusyTells

\* At first nothing is under way.
LEMMA InitInv == Init => OutInv
<1> SUFFICES ASSUME Init PROVE OutInv
  OBVIOUS
<1>1. 0 \in 0..MaxThrows /\ 0 \in 0..MaxFaults /\ 0 \in 0..MaxDbLosses
  OBVIOUS
<1>2. Shapes
  BY <1>1 DEF Init, Shapes
<1>3. TickInv
  BY DEF Init, TickInv, BusyTells, OneTickAtATime, CurrentIsEvent
<1> QED
  BY <1>2, <1>3 DEF OutInv

\* Ticks that go on, or wake up from a flush, leave isProcessing right.
LEMMA TicksGoOn ==
  ASSUME OutInv, UNCHANGED processing,
         \A t \in Calls : step'[t] = "idle" <=> step[t] = "idle",
         \A t \in Calls : step'[t] \in {"delivered", "threw"} =>
             current'[t] \in Events \X Nat
  PROVE  TickInv'
BY DEF OutInv, TickInv, BusyTells, OneTickAtATime, CurrentIsEvent

\* A tick that ends was the only one of its process.
LEMMA TickEnds ==
  ASSUME OutInv, NEW t \in Calls, step[t] # "idle", EndTick(t),
         \A u \in Calls \ {t} : current'[u] = current[u]
  PROVE  TickInv'
<1> USE DEF OutInv, Shapes, TickInv, EndTick
<1>1. step' = [step EXCEPT ![t] = "idle"] /\ processing' = [processing EXCEPT ![t[1]] = FALSE]
  OBVIOUS
<1>2. OneTickAtATime'
  BY DEF OneTickAtATime
<1>3. ASSUME NEW p \in Procs
      PROVE  processing'[p] <=> \E u \in CallsOf(p) : step'[u] # "idle"
  <2>1. CASE p = t[1]
    BY <2>1, <1>1 DEF OneTickAtATime
  <2>2. CASE p # t[1]
    BY <2>2, <1>1 DEF BusyTells
  <2> QED
    BY <2>1, <2>2
<1>4. CurrentIsEvent'
  BY DEF CurrentIsEvent
<1> QED
  BY <1>2, <1>3, <1>4 DEF BusyTells

-----------------------------------------------------------------------------
\* Emitting and time leave the ticks alone.
LEMMA WriteInv ==
  ASSUME OutInv, NEW p \in Procs, NEW e \in Events, Emit(p, e) \/ EmitInTransaction(p, e)
  PROVE  OutInv'
<1>1. Shapes'
  <2>1. CASE Emit(p, e)
    BY <2>1 DEF Emit, OutInv, Shapes, rowVars, tickVars, hookVars, bounds
  <2>2. CASE EmitInTransaction(p, e)
    BY <2>2 DEF EmitInTransaction, OutInv, Shapes, bufferVars, tickVars, hookVars, bounds
  <2> QED
    BY <2>1, <2>2
<1>2. TickInv'
  BY TicksGoOn DEF Emit, EmitInTransaction, tickVars, OutInv, TickInv, CurrentIsEvent
<1> QED
  BY <1>1, <1>2 DEF OutInv

\* A flush that starts has its batch; one that finds no database keeps nothing.
LEMMA TakeShapes ==
  ASSUME Shapes, NEW p \in Procs, NEW S \in SUBSET Events, TakeBuffer(p, S)
  PROVE  /\ buffer' \in [Procs -> SUBSET Events] /\ flight' \in [Procs -> SUBSET Events]
         /\ flush' \in [Procs -> {"none", "running", "stale"}]
         /\ timer' \in [Procs -> BOOLEAN]
<1>1. buffer' \in [Procs -> SUBSET Events] /\ timer' \in [Procs -> BOOLEAN]
  BY DEF Shapes, TakeBuffer
<1>2. flight' \in [Procs -> SUBSET Events]
  <2>1. CASE S = {} \/ ~dbUp[p]
    BY <2>1 DEF Shapes, TakeBuffer
  <2>2. CASE S # {} /\ dbUp[p]
    <3>1. flight \in [Procs -> SUBSET Events]
      BY DEF Shapes
    <3>2. flight' = [flight EXCEPT ![p] = S]
      BY <2>2 DEF TakeBuffer
    <3> QED
      BY <3>1, <3>2
  <2> QED
    BY <2>1, <2>2
<1>3. flush' \in [Procs -> {"none", "running", "stale"}]
  <2>1. CASE S = {}
    BY <2>1 DEF Shapes, TakeBuffer
  <2>2. CASE S # {} /\ dbUp[p]
    BY <2>2 DEF Shapes, TakeBuffer
  <2>3. CASE S # {} /\ ~dbUp[p]
    BY <2>3 DEF Shapes, TakeBuffer
  <2> QED
    BY <2>1, <2>2, <2>3
<1> QED
  BY <1>1, <1>2, <1>3

LEMMA TimerFiresInv ==
  ASSUME OutInv, NEW p \in Procs, TimerFires(p)
  PROVE  OutInv'
<1>1. buffer[p] \in SUBSET Events
  BY DEF OutInv, Shapes
<1>2. /\ buffer' \in [Procs -> SUBSET Events] /\ flight' \in [Procs -> SUBSET Events]
      /\ flush' \in [Procs -> {"none", "running", "stale"}]
      /\ timer' \in [Procs -> BOOLEAN]
  <2>1. CASE flush[p] = "none" /\ buffer[p] # {}
    BY <1>1, <2>1, TakeShapes DEF TimerFires, OutInv
  <2>2. CASE ~(flush[p] = "none" /\ buffer[p] # {})
    <3>1. /\ buffer \in [Procs -> SUBSET Events] /\ flight \in [Procs -> SUBSET Events]
          /\ flush \in [Procs -> {"none", "running", "stale"}]
          /\ timer \in [Procs -> BOOLEAN]
      BY DEF OutInv, Shapes
    <3>2. timer' = [timer EXCEPT ![p] = FALSE] /\ UNCHANGED <<buffer, flight, flush>>
      BY <2>2 DEF TimerFires
    <3> QED
      BY <3>1, <3>2
  <2> QED
    BY <2>1, <2>2
<1>3. Shapes'
  BY <1>2 DEF OutInv, Shapes, TimerFires, rowVars, tickVars, hookVars, bounds
<1>4. TickInv'
  BY TicksGoOn DEF TimerFires, tickVars, OutInv, TickInv, CurrentIsEvent
<1> QED
  BY <1>3, <1>4 DEF OutInv

\* A flush that returns wakes the tick that waits for it.
LEMMA FlushInv ==
  ASSUME OutInv, NEW p \in Procs, FlushDone(p) \/ FlushRefused(p) \/ FlushThrows(p)
  PROVE  OutInv'
<1>1. PICK S \in SUBSET Events : FlushReturns(p, S)
  <2>1. Requeued(p) \in SUBSET Events /\ buffer[p] \in SUBSET Events
    BY DEF OutInv, Shapes, Requeued
  <2> QED
    BY <2>1 DEF FlushDone, FlushRefused, FlushThrows
<1>2. /\ buffer' \in [Procs -> SUBSET Events] /\ flight' \in [Procs -> SUBSET Events]
      /\ flush' \in [Procs -> {"none", "running", "stale"}]
      /\ timer' \in [Procs -> BOOLEAN]
  BY <1>1, TakeShapes DEF FlushReturns, OutInv
<1>3. step' \in [Calls -> StepNames]
  BY <1>1 DEF FlushReturns, OutInv, Shapes
<1>4. /\ row' \in [Events -> RowStates] /\ shed' \subseteq Events
      /\ throws' \in 0..MaxThrows /\ faults' \in 0..MaxFaults
  BY DEF FlushDone, FlushRefused, FlushThrows, OutInv, Shapes
<1>5. Shapes'
  BY <1>1, <1>2, <1>3, <1>4 DEF FlushReturns, OutInv, Shapes, hookVars
<1>6. TickInv'
  BY <1>1, TicksGoOn DEF FlushReturns, OutInv, Shapes, TickInv, CurrentIsEvent
<1> QED
  BY <1>5, <1>6 DEF OutInv

-----------------------------------------------------------------------------
\* A tick begins only where none is under way.
LEMMA BeginTickInv ==
  ASSUME OutInv, NEW t \in Calls, BeginTick(t)
  PROVE  OutInv'
<1> DEFINE p == t[1]
<1>1. p \in Procs /\ ~processing[p] /\ buffer[p] \in SUBSET Events
  BY DEF BeginTick, MayTick, OutInv, Shapes
<1>2. /\ buffer' \in [Procs -> SUBSET Events] /\ flight' \in [Procs -> SUBSET Events]
      /\ flush' \in [Procs -> {"none", "running", "stale"}]
      /\ timer' \in [Procs -> BOOLEAN]
  BY <1>1, TakeShapes DEF BeginTick, bufferVars, OutInv, Shapes
<1>3. PICK s \in {"flushing", "fetch"} : step' = [step EXCEPT ![t] = s]
  BY DEF BeginTick
<1>4. processing' = [processing EXCEPT ![p] = TRUE]
  BY DEF BeginTick
<1>5. Shapes'
  <2>1. step' \in [Calls -> StepNames] /\ processing' \in [Procs -> BOOLEAN]
    BY <1>1, <1>3, <1>4 DEF OutInv, Shapes
  <2>2. UNCHANGED <<emitted, shed, dbUp, rowVars, todo, current, hookVars, published, bounds>>
    BY DEF BeginTick
  <2> QED
    BY <1>2, <2>1, <2>2 DEF OutInv, Shapes, rowVars, hookVars, bounds
<1>6. \A u \in CallsOf(p) : step[u] = "idle"
  BY <1>1 DEF OutInv, TickInv, BusyTells
<1>7. OneTickAtATime'
  BY <1>3, <1>6 DEF OneTickAtATime, OutInv, Shapes, TickInv
<1>8. BusyTells'
  <2> SUFFICES ASSUME NEW q \in Procs
               PROVE  processing'[q] <=> \E u \in CallsOf(q) : step'[u] # "idle"
    BY DEF BusyTells
  <2>1. CASE q = p
    BY <2>1, <1>3, <1>4 DEF OutInv, Shapes
  <2>2. CASE q # p
    BY <2>2, <1>3, <1>4 DEF OutInv, Shapes, TickInv, BusyTells
  <2> QED
    BY <2>1, <2>2
<1>9. CurrentIsEvent'
  BY <1>3 DEF BeginTick, CurrentIsEvent, OutInv, Shapes, TickInv
<1> QED
  BY <1>5, <1>7, <1>8, <1>9 DEF OutInv, TickInv

\* The rows of a query, delivered one by one.
LEMMA FetchInv ==
  ASSUME OutInv, NEW t \in Calls, FetchPending(t) \/ FetchFails(t)
  PROVE  OutInv'
<1>0. step[t] = "fetch" /\ UNCHANGED current /\ t[1] \in Procs
  BY DEF FetchPending, FetchFails
<1>1. todo' \in [Calls -> SUBSET (Events \X Nat)]
  <2>1. ASSUME NEW T \in SUBSET Events
        PROVE  {<<e, tries[e]>> : e \in T} \in SUBSET (Events \X Nat)
    BY DEF OutInv, Shapes
  <2>2. ASSUME NEW S \in UpTo(FetchLimit, Pending),
               NEW T \in UpTo(BatchSize, S \cap {e \in Events : ready[e]})
        PROVE  T \in SUBSET Events
    BY DEF UpTo
  <2>3. UNCHANGED todo \/ \E T \in SUBSET Events :
            todo' = [todo EXCEPT ![t] = {<<e, tries[e]>> : e \in T}]
    BY <2>2 DEF FetchPending, FetchFails
  <2>4. ASSUME NEW X \in SUBSET (Events \X Nat), todo' = [todo EXCEPT ![t] = X]
        PROVE  todo' \in [Calls -> SUBSET (Events \X Nat)]
    BY <2>4 DEF OutInv, Shapes
  <2>5. CASE UNCHANGED todo
    BY <2>5 DEF OutInv, Shapes
  <2>6. ASSUME NEW T \in SUBSET Events,
               todo' = [todo EXCEPT ![t] = {<<e, tries[e]>> : e \in T}]
        PROVE  todo' \in [Calls -> SUBSET (Events \X Nat)]
    BY <2>1, <2>4, <2>6
  <2> QED
    BY <2>3, <2>5, <2>6
<1>2. EndTick(t) \/ (step' = [step EXCEPT ![t] = "deliver"] /\ UNCHANGED processing)
  BY DEF FetchPending, FetchFails
<1>3. /\ step' \in [Calls -> StepNames] /\ processing' \in [Procs -> BOOLEAN]
  BY <1>0, <1>2 DEF EndTick, OutInv, Shapes
<1>4. faults' \in 0..MaxFaults
  BY DEF FetchPending, FetchFails, bounds, OutInv, Shapes
<1>5. Shapes'
  BY <1>0, <1>1, <1>3, <1>4
  DEF FetchPending, FetchFails, OutInv, Shapes, bufferVars, rowVars, hookVars, bounds
<1>6. TickInv'
  <2>1. CASE EndTick(t)
    BY <1>0, <2>1, TickEnds
  <2>2. CASE step' = [step EXCEPT ![t] = "deliver"] /\ UNCHANGED processing
    BY <1>0, <2>2, TicksGoOn DEF OutInv, Shapes, TickInv, CurrentIsEvent
  <2> QED
    BY <1>2, <2>1, <2>2
<1> QED
  BY <1>5, <1>6 DEF OutInv

LEMMA DeliverInv ==
  ASSUME OutInv, NEW t \in Calls, Deliver(t)
  PROVE  OutInv'
<1>0. step[t] = "deliver" /\ t[1] \in Procs
  BY DEF Deliver
<1>1. PICK d \in todo[t] : /\ todo' = [todo EXCEPT ![t] = @ \ {d}]
                           /\ current' = [current EXCEPT ![t] = d]
                           /\ published' = [published EXCEPT ![d[1]] = @ + 1]
                           /\ \/ /\ step' = [step EXCEPT ![t] = "delivered"]
                                 /\ hooks' = [hooks EXCEPT ![t[1]] = @ \cup {d[1]}]
                                 /\ UNCHANGED throws
                              \/ /\ step' = [step EXCEPT ![t] = "threw"]
                                 /\ throws < MaxThrows /\ throws' = throws + 1
                                 /\ UNCHANGED hooks
  BY DEF Deliver, Publish, Trigger
<1>2. d \in Events \X Nat /\ d[1] \in Events
  BY DEF OutInv, Shapes
<1>3. /\ todo' \in [Calls -> SUBSET (Events \X Nat)]
      /\ current' \in [Calls -> (Events \cup {NoEvent}) \X Nat]
  BY <1>1, <1>2 DEF OutInv, Shapes
<1>4. published' \in [Events -> Nat] /\ hooks' \in [Procs -> SUBSET Events]
  <2>1. published' \in [Events -> Nat]
    BY <1>1, <1>2 DEF OutInv, Shapes
  <2>2. hooks' = hooks \/ hooks' = [hooks EXCEPT ![t[1]] = @ \cup {d[1]}]
    BY <1>1
  <2>3. hooks' \in [Procs -> SUBSET Events]
    <3>1. hooks \in [Procs -> SUBSET Events]
      BY DEF OutInv, Shapes
    <3>2. hooks[t[1]] \cup {d[1]} \in SUBSET Events
      BY <1>0, <1>2, <3>1
    <3> QED
      BY <1>0, <2>2, <3>1, <3>2
  <2> QED
    BY <2>1, <2>3
<1>5. step' \in [Calls -> StepNames] /\ throws' \in 0..MaxThrows
  BY <1>1 DEF OutInv, Shapes
<1>6. Shapes'
  BY <1>3, <1>4, <1>5 DEF Deliver, OutInv, Shapes, bufferVars, rowVars
<1>7. TickInv'
  BY <1>0, <1>1, <1>2, TicksGoOn DEF Deliver, OutInv, Shapes, TickInv, CurrentIsEvent
<1> QED
  BY <1>6, <1>7 DEF OutInv

\* Marked or not, the event is done with; after the last one the tick ends.
LEMMA MarkInv ==
  ASSUME OutInv, NEW t \in Calls, MarkDelivered(t) \/ MarkFailed(t) \/ MarkLost(t)
  PROVE  OutInv'
<1>0. /\ step[t] \in {"delivered", "threw"} /\ NextEvent(t) /\ t[1] \in Procs
      /\ current[t] \in Events \X Nat
  BY DEF MarkDelivered, MarkFailed, MarkLost, OutInv, TickInv, CurrentIsEvent
<1>1. /\ row' \in [Events -> RowStates] /\ tries' \in [Events -> Nat]
      /\ ready' \in [Events -> BOOLEAN]
  <2>1. CASE MarkDelivered(t)
    BY <2>1 DEF MarkDelivered, OutInv, Shapes
  <2>2. CASE MarkFailed(t)
    <3>1. current[t][1] \in Events /\ NewAttempts(t) \in Nat
      BY <1>0 DEF NewAttempts
    <3>2. CASE Stored(current[t][1])
      <4>1. PICK s \in RowStates, e \in Events, n \in Nat :
                /\ row' = [row EXCEPT ![e] = s]
                /\ tries' = [tries EXCEPT ![e] = n]
                /\ ready' = [ready EXCEPT ![e] = FALSE]
        BY <2>2, <3>1, <3>2 DEF MarkFailed
      <4> QED
        BY <4>1 DEF OutInv, Shapes
    <3>3. CASE ~Stored(current[t][1])
      BY <2>2, <3>3 DEF MarkFailed, OutInv, Shapes, rowVars
    <3> QED
      BY <3>2, <3>3
  <2>3. CASE MarkLost(t)
    BY <2>3 DEF MarkLost, OutInv, Shapes, rowVars
  <2> QED
    BY <2>1, <2>2, <2>3
<1>2. faults' \in 0..MaxFaults
  BY DEF MarkDelivered, MarkFailed, MarkLost, OutInv, Shapes
<1>3. EndTick(t) \/ (step' = [step EXCEPT ![t] = "deliver"] /\ UNCHANGED processing)
  BY <1>0 DEF NextEvent
<1>4. /\ step' \in [Calls -> StepNames] /\ processing' \in [Procs -> BOOLEAN]
  BY <1>0, <1>3 DEF EndTick, OutInv, Shapes
<1>5. current' \in [Calls -> (Events \cup {NoEvent}) \X Nat]
  BY <1>0 DEF NextEvent, OutInv, Shapes
<1>6. Shapes'
  BY <1>0, <1>1, <1>2, <1>4, <1>5 DEF NextEvent, OutInv, Shapes, bufferVars, hookVars
<1>7. \A u \in Calls \ {t} : current'[u] = current[u]
  BY <1>0 DEF NextEvent, OutInv, Shapes
<1>8. TickInv'
  <2>1. CASE EndTick(t)
    BY <1>0, <1>7, <2>1, TickEnds
  <2>2. CASE step' = [step EXCEPT ![t] = "deliver"] /\ UNCHANGED processing
    BY <1>0, <1>7, <2>2, TicksGoOn DEF OutInv, Shapes, TickInv, CurrentIsEvent
  <2> QED
    BY <1>3, <2>1, <2>2
<1> QED
  BY <1>6, <1>8 DEF OutInv

-----------------------------------------------------------------------------
\* Time, cleanup, webhooks and the adapter leave the ticks alone.
LEMMA AroundInv ==
  ASSUME OutInv,
         \/ Cleanup
         \/ \E e \in Events : BackoffElapses(e) \/ \E p \in Procs : DispatchHook(p, e)
         \/ \E p \in Procs : LoseDb(p) \/ RegainDb(p)
  PROVE  OutInv'
<1>1. Shapes'
  <2>1. CASE Cleanup
    BY <2>1 DEF Cleanup, OutInv, Shapes, bufferVars, tickVars, hookVars, bounds
  <2>2. ASSUME NEW e \in Events, BackoffElapses(e) PROVE Shapes'
    BY <2>2 DEF BackoffElapses, OutInv, Shapes, bufferVars, tickVars, hookVars, bounds
  <2>3. ASSUME NEW e \in Events, NEW p \in Procs, DispatchHook(p, e) PROVE Shapes'
    BY <2>3 DEF DispatchHook, OutInv, Shapes, bufferVars, rowVars, tickVars
  <2>4. ASSUME NEW p \in Procs, LoseDb(p) \/ RegainDb(p) PROVE Shapes'
    <3>1. dbUp' \in [Procs -> BOOLEAN] /\ UNCHANGED throws /\ UNCHANGED faults
      BY <2>4 DEF LoseDb, RegainDb, OutInv, Shapes, bounds
    <3>2. dbLosses' \in 0..MaxDbLosses
      BY <2>4 DEF LoseDb, RegainDb, OutInv, Shapes, bounds
    <3> QED
      BY <2>4, <3>1, <3>2
      DEF LoseDb, RegainDb, OutInv, Shapes, bufferVars, rowVars, tickVars, hookVars
  <2> QED
    BY <2>1, <2>2, <2>3, <2>4
<1>2. UNCHANGED tickVars
  BY DEF Cleanup, BackoffElapses, DispatchHook, LoseDb, RegainDb, tickVars
<1>3. TickInv'
  BY <1>2, TicksGoOn DEF tickVars, OutInv, TickInv, CurrentIsEvent
<1> QED
  BY <1>1, <1>3 DEF OutInv

\* A crash ends the ticks of its process and no other.
LEMMA CrashInv ==
  ASSUME OutInv, NEW p \in Procs, Crash(p)
  PROVE  OutInv'
<1> USE DEF OutInv, Shapes, Crash
<1>1. /\ step' \in [Calls -> StepNames] /\ processing' \in [Procs -> BOOLEAN]
      /\ todo' \in [Calls -> SUBSET (Events \X Nat)]
      /\ current' \in [Calls -> (Events \cup {NoEvent}) \X Nat]
  OBVIOUS
<1>2. Shapes'
  BY <1>1 DEF rowVars
<1>3. \A t \in Calls : step'[t] = IF t[1] = p THEN "idle" ELSE step[t]
  OBVIOUS
<1>4. OneTickAtATime' /\ CurrentIsEvent'
  BY <1>3 DEF TickInv, OneTickAtATime, CurrentIsEvent
<1>5. BusyTells'
  BY <1>3 DEF TickInv, BusyTells
<1> QED
  BY <1>2, <1>4, <1>5 DEF TickInv

\* Every step preserves the invariant.
LEMMA NextInv == OutInv /\ [Next]_vars => OutInv'
<1> SUFFICES ASSUME OutInv, [Next]_vars PROVE OutInv'
  OBVIOUS
<1>1. CASE Write
  BY <1>1, WriteInv DEF Write
<1>2. CASE Flush
  BY <1>2, TimerFiresInv, FlushInv DEF Flush
<1>3. CASE Process
  BY <1>3, BeginTickInv, FetchInv, DeliverInv, MarkInv DEF Process
<1>4. CASE Around
  BY <1>4, AroundInv, CrashInv DEF Around
<1>5. CASE UNCHANGED vars
  BY <1>5 DEF vars, bufferVars, rowVars, tickVars, hookVars, bounds, OutInv, Shapes,
              TickInv, BusyTells, OneTickAtATime, CurrentIsEvent
<1> QED
  BY <1>1, <1>2, <1>3, <1>4, <1>5 DEF Next

LEMMA OutSafe == Spec => []OutInv
<1> QED
  BY InitInv, NextInv, PTL DEF Spec

\* The variables of the outbox keep their shape, and isProcessing says whether a tick
\* is under way.
THEOREM OutboxTypeCorrect == Spec => []TypeOK
<1>1. OutInv => TypeOK
  BY TypeIsShapes DEF OutInv, TickInv
<1> QED
  BY <1>1, OutSafe, PTL

\* processBatch: whatever crashes or fails, isProcessing keeps the ticks of a process
\* apart.
THEOREM TicksKeptApart == Spec => []OneTickAtATime
<1>1. OutInv => OneTickAtATime
  BY DEF OutInv, TickInv
<1> QED
  BY <1>1, OutSafe, PTL

-----------------------------------------------------------------------------
(* No event is lost, while calls of the database are answered, processes   *)
(* live and the adapter stays.                                             *)

FaultFree == MaxFaults = 0 /\ MaxDbLosses = 0

\* Without a flush under way nothing is in a batch, and no flush is stale.
FlushTells ==
  \A p \in Procs : /\ dbUp[p] /\ flush[p] # "stale"
                   /\ flush[p] = "none" => flight[p] = {}

LostInv == FlushTells /\ NoEventLost

\* What a flush takes from the buffer it has in its batch.
LEMMA TakeKeeps ==
  ASSUME OutInv, FlushTells, NEW p \in Procs, NEW S \in SUBSET Events, TakeBuffer(p, S)
  PROVE  /\ flight' = [flight EXCEPT ![p] = S] /\ buffer' = [buffer EXCEPT ![p] = {}]
         /\ flush' = [flush EXCEPT ![p] = IF S = {} THEN "none" ELSE "running"]
BY DEF FlushTells, TakeBuffer, OutInv, Shapes

LEMMA EmitKeeps ==
  ASSUME FaultFree, OutInv, LostInv, NEW p \in Procs, NEW e \in Events,
         Emit(p, e) \/ EmitInTransaction(p, e)
  PROVE  LostInv'
<1>1. CASE Emit(p, e)
  BY <1>1 DEF Emit, LostInv, FlushTells, NoEventLost, OutInv, Shapes, rowVars
<1>2. CASE EmitInTransaction(p, e)
  BY <1>2 DEF EmitInTransaction, LostInv, FlushTells, NoEventLost, OutInv, Shapes, bufferVars
<1> QED
  BY <1>1, <1>2

LEMMA TimerKeeps ==
  ASSUME FaultFree, OutInv, LostInv, NEW p \in Procs, TimerFires(p)
  PROVE  LostInv'
<1>1. CASE flush[p] = "none" /\ buffer[p] # {}
  <2>1. buffer[p] \in SUBSET Events /\ flight[p] = {}
    BY <1>1 DEF OutInv, Shapes, LostInv, FlushTells
  <2>2. /\ flight' = [flight EXCEPT ![p] = buffer[p]] /\ buffer' = [buffer EXCEPT ![p] = {}]
        /\ flush' = [flush EXCEPT ![p] = "running"]
    BY <1>1, <2>1, TakeKeeps DEF TimerFires, LostInv
  <2> QED
    BY <2>1, <2>2 DEF TimerFires, LostInv, FlushTells, NoEventLost, OutInv, Shapes, rowVars
<1>2. CASE ~(flush[p] = "none" /\ buffer[p] # {})
  BY <1>2 DEF TimerFires, LostInv, FlushTells, NoEventLost, rowVars
<1> QED
  BY <1>1, <1>2

\* A flush that throws puts its batch back, or sheds it.
LEMMA FlushKeeps ==
  ASSUME FaultFree, OutInv, LostInv, NEW p \in Procs,
         FlushDone(p) \/ FlushRefused(p) \/ FlushThrows(p)
  PROVE  LostInv'
<1>1. ~FlushRefused(p)
  BY DEF FlushRefused, FaultFree, OutInv, Shapes
<1>2. /\ Requeued(p) \in SUBSET Events /\ buffer[p] \in SUBSET Events
      /\ flight[p] \in SUBSET Events
  BY DEF OutInv, Shapes, Requeued
<1>3. CASE FlushDone(p)
  <2>1. /\ flight' = [flight EXCEPT ![p] = buffer[p]] /\ buffer' = [buffer EXCEPT ![p] = {}]
        /\ flush' = [flush EXCEPT ![p] = IF buffer[p] = {} THEN "none" ELSE "running"]
    BY <1>2, <1>3, TakeKeeps DEF FlushDone, FlushReturns, LostInv
  <2>2. FlushTells'
    BY <1>3, <2>1 DEF FlushDone, FlushReturns, LostInv, FlushTells, OutInv, Shapes
  <2>3. NoEventLost'
    BY <1>2, <1>3, <2>1 DEF FlushDone, FlushReturns, LostInv, NoEventLost, OutInv, Shapes
  <2> QED
    BY <2>2, <2>3 DEF LostInv
<1>4. CASE FlushThrows(p)
  <2>1. /\ flight' = [flight EXCEPT ![p] = Requeued(p)]
        /\ buffer' = [buffer EXCEPT ![p] = {}]
        /\ flush' = [flush EXCEPT ![p] = IF Requeued(p) = {} THEN "none" ELSE "running"]
    BY <1>2, <1>4, TakeKeeps DEF FlushThrows, FlushReturns, LostInv
  <2>2. FlushTells'
    BY <1>4, <2>1 DEF FlushThrows, FlushReturns, LostInv, FlushTells, OutInv, Shapes
  <2>3. UNCHANGED <<emitted, row>>
    BY <1>4 DEF FlushThrows, FlushReturns
  <2>4. flight[p] \cup buffer[p] \subseteq Requeued(p) \cup shed' /\ shed \subseteq shed'
    BY <1>4 DEF FlushThrows, Requeued
  <2>5. NoEventLost'
    BY <1>2, <2>1, <2>3, <2>4 DEF LostInv, NoEventLost, OutInv, Shapes
  <2> QED
    BY <2>2, <2>5 DEF LostInv
<1> QED
  BY <1>1, <1>3, <1>4

LEMMA ProcessKeeps ==
  ASSUME FaultFree, OutInv, LostInv, NEW t \in Calls,
         \/ BeginTick(t) \/ FetchPending(t) \/ FetchFails(t) \/ Deliver(t)
         \/ MarkDelivered(t) \/ MarkFailed(t) \/ MarkLost(t)
  PROVE  LostInv'
<1> DEFINE p == t[1]
<1>1. CASE BeginTick(t)
  <2>1. CASE buffer[p] # {} /\ flush[p] = "none"
    <3>1. buffer[p] \in SUBSET Events /\ flight[p] = {} /\ p \in Procs
      BY <2>1 DEF OutInv, Shapes, LostInv, FlushTells
    <3>2. /\ flight' = [flight EXCEPT ![p] = buffer[p]]
          /\ buffer' = [buffer EXCEPT ![p] = {}]
          /\ flush' = [flush EXCEPT ![p] = "running"]
      BY <1>1, <2>1, <3>1, TakeKeeps DEF BeginTick, LostInv
    <3>3. UNCHANGED <<emitted, shed, dbUp, row>>
      BY <1>1 DEF BeginTick, rowVars
    <3>4. FlushTells'
      BY <3>1, <3>2, <3>3 DEF LostInv, FlushTells, OutInv, Shapes
    <3>5. NoEventLost'
      BY <3>1, <3>2, <3>3 DEF LostInv, NoEventLost, OutInv, Shapes
    <3> QED
      BY <3>4, <3>5 DEF LostInv
  <2>2. CASE ~(buffer[p] # {} /\ flush[p] = "none")
    BY <1>1, <2>2 DEF BeginTick, bufferVars, rowVars, LostInv, FlushTells, NoEventLost
  <2> QED
    BY <2>1, <2>2
<1>2. CASE FetchPending(t) \/ FetchFails(t) \/ Deliver(t)
  BY <1>2 DEF FetchPending, FetchFails, Deliver, bufferVars, rowVars, LostInv, FlushTells,
              NoEventLost
<1>3. CASE MarkDelivered(t) \/ MarkFailed(t) \/ MarkLost(t)
  <2>1. UNCHANGED <<emitted, shed, bufferVars, dbUp>>
    BY <1>3 DEF MarkDelivered, MarkFailed, MarkLost, NextEvent
  <2>2. \A e \in Events : row[e] # "none" => row'[e] # "none"
    BY <1>3 DEF MarkDelivered, MarkFailed, MarkLost, rowVars, OutInv, Shapes
  <2>3. emitted \subseteq Events
    BY DEF OutInv, Shapes
  <2> QED
    BY <2>1, <2>2, <2>3 DEF bufferVars, LostInv, FlushTells, NoEventLost
<1> QED
  BY <1>1, <1>2, <1>3

LEMMA AroundKeeps ==
  ASSUME FaultFree, OutInv, LostInv, Around
  PROVE  LostInv'
<1>1. ASSUME NEW p \in Procs, LoseDb(p) \/ Crash(p) PROVE FALSE
  BY <1>1 DEF LoseDb, Crash, FaultFree, OutInv, Shapes
<1>2. CASE Cleanup
  <2>1. \A e \in Events : row[e] # "none" => row'[e] # "none"
    BY <1>2 DEF Cleanup
  <2>2. emitted \subseteq Events
    BY DEF OutInv, Shapes
  <2> QED
    BY <1>2, <2>1, <2>2 DEF Cleanup, bufferVars, LostInv, FlushTells, NoEventLost
<1>3. ASSUME NEW e \in Events, BackoffElapses(e) \/ \E p \in Procs : DispatchHook(p, e)
      PROVE  LostInv'
  BY <1>3 DEF BackoffElapses, DispatchHook, bufferVars, rowVars, LostInv, FlushTells, NoEventLost
<1>4. ASSUME NEW p \in Procs, RegainDb(p) PROVE LostInv'
  BY <1>4 DEF RegainDb, LostInv, FlushTells
<1> QED
  BY <1>1, <1>2, <1>3, <1>4 DEF Around

\* enqueueBuffered, flushEmitBuffer: while calls of the database are answered,
\* processes live and the adapter stays, an emitted event is in a buffer, in a batch
\* that is being written or in the table, unless it was shed at the buffer's cap;
\* however flushes throw, and ticks and timers race for the buffer.
THEOREM EventsAreKept == ASSUME FaultFree PROVE Spec => []NoEventLost
<1>1. Init => LostInv
  BY DEF Init, LostInv, FlushTells, NoEventLost
<1>2. OutInv /\ LostInv /\ [Next]_vars => LostInv'
  <2> SUFFICES ASSUME OutInv, LostInv, [Next]_vars PROVE LostInv'
    OBVIOUS
  <2>1. CASE Write
    BY <2>1, EmitKeeps DEF Write
  <2>2. CASE Flush
    BY <2>2, TimerKeeps, FlushKeeps DEF Flush
  <2>3. CASE Process
    BY <2>3, ProcessKeeps DEF Process
  <2>4. CASE Around
    BY <2>4, AroundKeeps
  <2>5. CASE UNCHANGED vars
    BY <2>5 DEF vars, bufferVars, rowVars, LostInv, FlushTells, NoEventLost
  <2> QED
    BY <2>1, <2>2, <2>3, <2>4, <2>5 DEF Next
<1>3. LostInv => NoEventLost
  BY DEF LostInv
<1> QED
  BY <1>1, <1>2, <1>3, OutSafe, PTL DEF Spec

-----------------------------------------------------------------------------
(* What is settled stays settled, where one process polls the table.       *)

OneProcess == \A p, q \in Procs : p = q

\* What waits in a buffer or a batch was emitted and has no row yet.
Unwritten ==
  /\ \A p \in Procs : /\ buffer[p] \cap flight[p] = {}
                      /\ \A e \in buffer[p] \cup flight[p] : e \in emitted /\ row[e] = "none"
  /\ \A e \in Events : e \notin emitted => row[e] = "none"

\* What a tick has in hand is pending, and it has each event once.
InHand ==
  \A t \in Calls :
    /\ step[t] \in {"idle", "flushing", "fetch"} => todo[t] = {}
    /\ \A d \in todo[t] : row[d[1]] = "pending"
    /\ \A c, d \in todo[t] : c[1] = d[1] => c = d
    /\ step[t] \in {"delivered", "threw"} =>
         row[current[t][1]] = "pending" /\ \A d \in todo[t] : d[1] # current[t][1]

SettleInv == Unwritten /\ InHand

SettledStay == \A e \in Events : row[e] \in {"delivered", "failed"} =>
                                   row'[e] \in {row[e], "purged"}

\* A flush that starts leaves the buffer empty.
LEMMA TakeParts ==
  ASSUME OneProcess, OutInv, NEW p \in Procs, NEW S \in SUBSET Events, TakeBuffer(p, S)
  PROVE  \A q \in Procs : flight'[q] \subseteq S /\ buffer'[q] = {}
BY DEF OneProcess, TakeBuffer, OutInv, Shapes

\* Rows that are written leave what is in hand pending.
LEMMA HandKept ==
  ASSUME InHand, OutInv, UNCHANGED <<todo, current>>,
         \A e \in Events : row[e] = "pending" => row'[e] = "pending",
         \A t \in Calls : step'[t] \in {"idle", "flushing", "fetch"} =>
             step[t] \in {"idle", "flushing", "fetch"},
         \A t \in Calls : step'[t] \in {"delivered", "threw"} => step'[t] = step[t]
  PROVE  InHand'
<1>1. \A t \in Calls : \A d \in todo[t] : d[1] \in Events
  BY DEF OutInv, Shapes
<1>2. \A t \in Calls : step[t] \in {"delivered", "threw"} => current[t][1] \in Events
  BY DEF OutInv, TickInv, CurrentIsEvent
<1> QED
  BY <1>1, <1>2 DEF InHand

LEMMA WriteSettle ==
  ASSUME OneProcess, OutInv, SettleInv, NEW p \in Procs, NEW e \in Events,
         Emit(p, e) \/ EmitInTransaction(p, e)
  PROVE  SettleInv' /\ SettledStay
<1>1. row[e] = "none" /\ \A q \in Procs : e \notin buffer[q] \cup flight[q]
  BY DEF Emit, EmitInTransaction, SettleInv, Unwritten
<1>2. CASE Emit(p, e)
  <2>1. UNCHANGED <<row, flight, todo, current, step>>
    BY <1>2 DEF Emit, rowVars, tickVars
  <2>2. emitted' = emitted \cup {e} /\ buffer' = [buffer EXCEPT ![p] = @ \cup {e}]
    BY <1>2 DEF Emit
  <2>3. Unwritten'
    BY <1>1, <2>1, <2>2 DEF SettleInv, Unwritten, OutInv, Shapes
  <2>4. InHand'
    BY <2>1, HandKept DEF SettleInv
  <2> QED
    BY <2>1, <2>3, <2>4 DEF SettleInv, SettledStay
<1>3. CASE EmitInTransaction(p, e)
  <2>1. UNCHANGED <<buffer, flight, todo, current, step>>
    BY <1>3 DEF EmitInTransaction, bufferVars, tickVars
  <2>2. emitted' = emitted \cup {e} /\ row' = [row EXCEPT ![e] = "pending"]
    BY <1>3 DEF EmitInTransaction
  <2>3. Unwritten'
    BY <1>1, <2>1, <2>2 DEF SettleInv, Unwritten, OutInv, Shapes
  <2>4. InHand'
    BY <2>1, <2>2, HandKept DEF SettleInv, OutInv, Shapes
  <2>5. SettledStay
    BY <1>1, <2>2 DEF SettledStay, OutInv, Shapes
  <2> QED
    BY <2>3, <2>4, <2>5 DEF SettleInv
<1> QED
  BY <1>2, <1>3

\* A timer or a tick that takes the buffer moves events to the batch.
LEMMA TakeSettle ==
  ASSUME OneProcess, OutInv, SettleInv, NEW p \in Procs, TakeBuffer(p, buffer[p]),
         UNCHANGED <<emitted, row>>
  PROVE  Unwritten'
<1>1. buffer[p] \in SUBSET Events
  BY DEF OutInv, Shapes
<1>2. \A q \in Procs : flight'[q] \subseteq buffer[p] /\ buffer'[q] = {}
  BY <1>1, TakeParts
<1> QED
  BY <1>2 DEF SettleInv, Unwritten

LEMMA TimerSettle ==
  ASSUME OneProcess, OutInv, SettleInv, NEW p \in Procs, TimerFires(p)
  PROVE  SettleInv' /\ SettledStay
<1>1. UNCHANGED <<emitted, row, todo, current, step>>
  BY DEF TimerFires, rowVars, tickVars
<1>2. Unwritten'
  <2>1. CASE TakeBuffer(p, buffer[p])
    BY <1>1, <2>1, TakeSettle
  <2>2. CASE UNCHANGED <<buffer, flight>>
    BY <1>1, <2>2 DEF SettleInv, Unwritten
  <2> QED
    BY <2>1, <2>2 DEF TimerFires
<1>3. InHand'
  BY <1>1, HandKept DEF SettleInv
<1> QED
  BY <1>1, <1>2, <1>3 DEF SettleInv, SettledStay

\* Rows come from a batch, whose events had none.
LEMMA FlushSettle ==
  ASSUME OneProcess, OutInv, SettleInv, NEW p \in Procs,
         FlushDone(p) \/ FlushRefused(p) \/ FlushThrows(p)
  PROVE  SettleInv' /\ SettledStay
<1>1. /\ buffer[p] \in SUBSET Events /\ flight[p] \in SUBSET Events
      /\ Requeued(p) \in SUBSET Events /\ Requeued(p) \subseteq buffer[p] \cup flight[p]
  BY DEF OutInv, Shapes, Requeued
<1>2. /\ UNCHANGED <<emitted, todo, current>>
      /\ \A t \in Calls : step'[t] = step[t] \/ (step[t] = "flushing" /\ step'[t] = "fetch")
  BY DEF FlushDone, FlushRefused, FlushThrows, FlushReturns
<1>3. CASE FlushDone(p)
  <2>1. \A q \in Procs : flight'[q] \subseteq buffer[p] /\ buffer'[q] = {}
    BY <1>1, <1>3, TakeParts DEF FlushDone, FlushReturns
  <2>2. \A e \in Events : row'[e] = IF e \in flight[p] THEN "pending" ELSE row[e]
    BY <1>3 DEF FlushDone
  <2>3. Unwritten'
    BY <1>1, <1>2, <2>1, <2>2 DEF SettleInv, Unwritten
  <2>4. InHand'
    BY <1>2, <2>2, HandKept DEF SettleInv
  <2>5. SettledStay
    BY <2>2 DEF SettledStay, SettleInv, Unwritten
  <2> QED
    BY <2>3, <2>4, <2>5 DEF SettleInv
<1>4. CASE FlushRefused(p) \/ FlushThrows(p)
  <2>1. UNCHANGED row
    BY <1>4 DEF FlushRefused, FlushThrows
  <2>2. \A q \in Procs : flight'[q] \subseteq buffer[p] \cup flight[p] /\ buffer'[q] = {}
    BY <1>1, <1>4, TakeParts DEF FlushRefused, FlushThrows, FlushReturns
  <2>3. Unwritten'
    BY <1>2, <2>1, <2>2 DEF SettleInv, Unwritten
  <2>4. InHand'
    BY <1>2, <2>1, HandKept DEF SettleInv
  <2> QED
    BY <2>1, <2>3, <2>4 DEF SettleInv, SettledStay
<1> QED
  BY <1>3, <1>4

LEMMA BeginTickSettle ==
  ASSUME OneProcess, OutInv, SettleInv, NEW t \in Calls, BeginTick(t)
  PROVE  SettleInv' /\ SettledStay
<1>1. UNCHANGED <<emitted, row, todo, current>> /\ t[1] \in Procs
  BY DEF BeginTick, rowVars
<1>2. Unwritten'
  <2>1. CASE TakeBuffer(t[1], buffer[t[1]])
    BY <1>1, <2>1, TakeSettle
  <2>2. CASE UNCHANGED bufferVars
    BY <1>1, <2>2 DEF bufferVars, SettleInv, Unwritten
  <2> QED
    BY <2>1, <2>2 DEF BeginTick
<1>3. InHand'
  <2>1. \A u \in Calls : \/ step'[u] = step[u]
                         \/ step[u] = "idle" /\ step'[u] \in {"flushing", "fetch"}
    BY DEF BeginTick, OutInv, Shapes
  <2> QED
    BY <1>1, <2>1, HandKept DEF SettleInv
<1> QED
  BY <1>1, <1>2, <1>3 DEF SettleInv, SettledStay

\* While a tick is under way no other has anything in hand.
LEMMA OthersEmpty ==
  ASSUME OneProcess, OutInv, SettleInv, NEW t \in Calls, step[t] # "idle",
         NEW u \in Calls \ {t}
  PROVE  step[u] = "idle" /\ todo[u] = {}
<1>1. t[1] = u[1]
  BY DEF OneProcess
<1>2. step[u] = "idle"
  BY <1>1 DEF OutInv, TickInv, OneTickAtATime
<1> QED
  BY <1>2 DEF SettleInv, InHand

LEMMA FetchSettle ==
  ASSUME OneProcess, OutInv, SettleInv, NEW t \in Calls, FetchPending(t) \/ FetchFails(t)
  PROVE  SettleInv' /\ SettledStay
<1>1. UNCHANGED <<emitted, row, buffer, flight, current>> /\ step[t] = "fetch"
  BY DEF FetchPending, FetchFails, bufferVars, rowVars
<1>2. todo[t] = {}
  BY <1>1 DEF SettleInv, InHand
<1>3. CASE UNCHANGED todo /\ EndTick(t)
  <2>1. \A u \in Calls : step'[u] = step[u] \/ (u = t /\ step'[u] = "idle")
    BY <1>3 DEF EndTick, OutInv, Shapes
  <2> QED
    BY <1>1, <1>3, <2>1, HandKept DEF SettleInv, Unwritten, SettledStay
<1>4. ASSUME NEW T \in SUBSET Pending, todo' = [todo EXCEPT ![t] = {<<e, tries[e]>> : e \in T}],
             IF T = {} THEN EndTick(t) ELSE step' = [step EXCEPT ![t] = "deliver"]
      PROVE  SettleInv' /\ SettledStay
  <2>1. todo'[t] = {<<e, tries[e]>> : e \in T}
    BY <1>4 DEF OutInv, Shapes
  <2>2. \A d \in todo'[t] : row'[d[1]] = "pending" /\ d[2] = tries[d[1]] /\ d = <<d[1], d[2]>>
    BY <1>1, <1>4, <2>1 DEF Pending
  <2>3. step'[t] = IF T = {} THEN "idle" ELSE "deliver"
    BY <1>4 DEF EndTick, OutInv, Shapes
  <2>4. ASSUME NEW u \in Calls \ {t}
        PROVE  step'[u] = "idle" /\ todo'[u] = {}
    <3>1. step[u] = "idle" /\ todo[u] = {}
      BY <1>1, OthersEmpty
    <3> QED
      BY <1>4, <3>1 DEF EndTick, OutInv, Shapes
  <2>5. InHand'
    BY <2>1, <2>2, <2>3, <2>4 DEF InHand
  <2> QED
    BY <1>1, <2>5 DEF SettleInv, Unwritten, SettledStay
<1>5. CASE FetchFails(t)
  BY <1>3, <1>5 DEF FetchFails
<1>6. CASE FetchPending(t)
  <2>1. CASE MultiTenant \/ Pending = {}
    BY <1>3, <1>6, <2>1 DEF FetchPending
  <2>2. CASE ~(MultiTenant \/ Pending = {})
    <3>1. PICK S \in UpTo(FetchLimit, Pending) :
               \E T \in UpTo(BatchSize, S \cap {e \in Events : ready[e]}) :
                 /\ todo' = [todo EXCEPT ![t] = {<<e, tries[e]>> : e \in T}]
                 /\ IF T = {} THEN EndTick(t)
                    ELSE step' = [step EXCEPT ![t] = "deliver"] /\ UNCHANGED processing
      BY <1>6, <2>2 DEF FetchPending
    <3>2. PICK T \in UpTo(BatchSize, S \cap {e \in Events : ready[e]}) :
            /\ todo' = [todo EXCEPT ![t] = {<<e, tries[e]>> : e \in T}]
            /\ IF T = {} THEN EndTick(t)
               ELSE step' = [step EXCEPT ![t] = "deliver"] /\ UNCHANGED processing
      BY <3>1
    <3>3. T \in SUBSET Pending
      BY DEF UpTo
    <3> QED
      BY <1>4, <3>2, <3>3
  <2> QED
    BY <2>1, <2>2
<1> QED
  BY <1>5, <1>6

LEMMA DeliverSettle ==
  ASSUME OneProcess, OutInv, SettleInv, NEW t \in Calls, Deliver(t)
  PROVE  SettleInv' /\ SettledStay
<1>1. UNCHANGED <<emitted, row, buffer, flight>> /\ step[t] = "deliver"
  BY DEF Deliver, bufferVars, rowVars
<1>2. PICK d \in todo[t] : /\ todo' = [todo EXCEPT ![t] = @ \ {d}]
                           /\ current' = [current EXCEPT ![t] = d]
  BY DEF Deliver
<1>3. PICK s \in {"delivered", "threw"} : step' = [step EXCEPT ![t] = s]
  BY DEF Deliver
<1>4. /\ todo'[t] = todo[t] \ {d} /\ current'[t] = d /\ step'[t] = s
      /\ \A u \in Calls \ {t} : step'[u] = step[u] /\ todo'[u] = todo[u]
  BY <1>2, <1>3 DEF OutInv, Shapes
<1>5. \A u \in Calls \ {t} : step'[u] = "idle" /\ todo'[u] = {}
  BY <1>1, <1>4, OthersEmpty
<1>6. \A c \in todo'[t] : row'[c[1]] = "pending" /\ c[1] # d[1]
  BY <1>1, <1>2, <1>4 DEF SettleInv, InHand
<1>7. InHand'
  BY <1>1, <1>2, <1>4, <1>5, <1>6 DEF SettleInv, InHand
<1> QED
  BY <1>1, <1>7 DEF SettleInv, Unwritten, SettledStay

LEMMA MarkSettle ==
  ASSUME OneProcess, OutInv, SettleInv, NEW t \in Calls,
         MarkDelivered(t) \/ MarkFailed(t) \/ MarkLost(t)
  PROVE  SettleInv' /\ SettledStay
<1>1. /\ step[t] \in {"delivered", "threw"} /\ NextEvent(t)
      /\ UNCHANGED <<emitted, buffer, flight, todo>>
  BY DEF MarkDelivered, MarkFailed, MarkLost, NextEvent, bufferVars
<1>2. current[t][1] \in Events /\ row[current[t][1]] = "pending"
  BY <1>1 DEF OutInv, TickInv, CurrentIsEvent, SettleInv, InHand
<1>3. /\ \A e \in Events \ {current[t][1]} : row'[e] = row[e]
      /\ row'[current[t][1]] \in {"pending", "delivered", "failed"}
  BY <1>2 DEF MarkDelivered, MarkFailed, MarkLost, rowVars, OutInv, Shapes
<1>4. /\ step'[t] = IF todo[t] = {} THEN "idle" ELSE "deliver"
      /\ \A u \in Calls \ {t} : step'[u] = step[u]
  BY <1>1 DEF NextEvent, EndTick, OutInv, Shapes
<1>5. \A u \in Calls \ {t} : step'[u] = "idle" /\ todo'[u] = {}
  BY <1>1, <1>4, OthersEmpty
<1>6. \A d \in todo[t] : d[1] \in Events /\ row'[d[1]] = "pending"
  BY <1>1, <1>3 DEF SettleInv, InHand, OutInv, Shapes
<1>7. InHand'
  BY <1>1, <1>4, <1>5, <1>6 DEF SettleInv, InHand
<1>8. Unwritten'
  BY <1>1, <1>2, <1>3 DEF SettleInv, Unwritten, OutInv, Shapes
<1> QED
  BY <1>2, <1>3, <1>7, <1>8 DEF SettleInv, SettledStay

LEMMA AroundSettle ==
  ASSUME OneProcess, OutInv, SettleInv, Around
  PROVE  SettleInv' /\ SettledStay
<1>1. CASE Cleanup
  <2>1. /\ \A e \in Events : row'[e] = row[e] \/ (row[e] = "delivered" /\ row'[e] = "purged")
        /\ UNCHANGED <<emitted, buffer, flight, todo, current, step>>
    BY <1>1 DEF Cleanup, bufferVars, tickVars
  <2>2. InHand'
    BY <2>1, HandKept DEF SettleInv
  <2>3. Unwritten'
    BY <2>1 DEF SettleInv, Unwritten, OutInv, Shapes
  <2> QED
    BY <2>1, <2>2, <2>3 DEF SettleInv, SettledStay
<1>2. ASSUME UNCHANGED <<emitted, row, buffer, flight, tickVars>>
      PROVE  SettleInv' /\ SettledStay
  BY <1>2, HandKept DEF tickVars, SettleInv, Unwritten, SettledStay
<1>3. CASE \/ \E e \in Events : BackoffElapses(e) \/ \E p \in Procs : DispatchHook(p, e)
           \/ \E p \in Procs : LoseDb(p) \/ RegainDb(p)
  BY <1>2, <1>3 DEF BackoffElapses, DispatchHook, LoseDb, RegainDb, bufferVars, rowVars
<1>4. ASSUME NEW p \in Procs, Crash(p) PROVE SettleInv' /\ SettledStay
  <2>1. UNCHANGED <<emitted, row>>
    BY <1>4 DEF Crash, rowVars
  <2>2. \A q \in Procs : buffer'[q] = {} /\ flight'[q] = {}
    BY <1>4 DEF OneProcess, Crash, OutInv, Shapes
  <2>3. \A t \in Calls : step'[t] = "idle" /\ todo'[t] = {}
    BY <1>4 DEF OneProcess, Crash
  <2> QED
    BY <2>1, <2>2, <2>3 DEF SettleInv, Unwritten, InHand, SettledStay
<1> QED
  BY <1>1, <1>3, <1>4 DEF Around

\* One step: the events in hand stay sound and no settled row is written.
LEMMA NextSettle ==
  ASSUME OneProcess, OutInv, SettleInv, [Next]_vars
  PROVE  SettleInv' /\ SettledStay
<1>1. CASE Write
  BY <1>1, WriteSettle DEF Write
<1>2. CASE Flush
  BY <1>2, TimerSettle, FlushSettle DEF Flush
<1>3. CASE Process
  BY <1>3, BeginTickSettle, FetchSettle, DeliverSettle, MarkSettle DEF Process
<1>4. CASE Around
  BY <1>4, AroundSettle
<1>5. CASE UNCHANGED vars
  BY <1>5 DEF vars, bufferVars, rowVars, tickVars, SettleInv, Unwritten, InHand, SettledStay
<1> QED
  BY <1>1, <1>2, <1>3, <1>4, <1>5 DEF Next

\* updateEventStatus: where one process polls the table, whatever throws, fails or
\* crashes, a delivered or failed event is never written again, only cleaned up.
THEOREM SettledRowsStay == ASSUME OneProcess PROVE Spec => SettledIsFinal
<1>1. Init => SettleInv
  BY DEF Init, SettleInv, Unwritten, InHand
<1>2. OutInv /\ SettleInv /\ [Next]_vars => SettleInv'
  BY NextSettle
<1>3. OutInv /\ SettleInv /\ [Next]_vars => [SettledStay]_vars
  BY NextSettle
<1>4. Spec => [][SettledStay]_vars
  BY <1>1, <1>2, <1>3, OutSafe, PTL DEF Spec
<1> QED
  BY <1>4 DEF SettledStay, SettledIsFinal
-----------------------------------------------------------------------------
(* Publications are counted, where one process polls the table and nothing *)
(* fails but deliveries: a lost mark publishes twice for one attempt.      *)

BeingMarked(e) ==
  \E t \in Calls : step[t] \in {"delivered", "threw"} /\ current[t][1] = e

\* Attempts are read and written within a tick, so the number in hand is the row's.
ReadIsCurrent ==
  \A t \in Calls :
    /\ \A d \in todo[t] : d[2] = tries[d[1]]
    /\ step[t] \in {"delivered", "threw"} => current[t][2] = tries[current[t][1]]

\* Only the publication being marked, or one that was marked delivered, is not in attempts.
AllButLast ==
  \A e \in Events : row[e] \in {"none", "pending"} /\ ~BeingMarked(e) =>
                      published[e] <= tries[e]

CountInv == AttemptsCounted /\ ReadIsCurrent /\ AllButLast

\* Steps that publish nothing and mark nothing.
LEMMA CountKept ==
  ASSUME OutInv, CountInv, UNCHANGED <<tries, published, todo, current>>,
         \A t \in Calls : step'[t] \in {"delivered", "threw"} <=> step[t] \in {"delivered", "threw"},
         \A e \in Events : row'[e] \in {"none", "pending"} => row[e] \in {"none", "pending"}
  PROVE  CountInv'
<1>1. AttemptsCounted'
  BY DEF CountInv, AttemptsCounted
<1>2. ReadIsCurrent'
  BY DEF CountInv, ReadIsCurrent
<1>3. AllButLast'
  BY DEF CountInv, AllButLast, BeingMarked
<1> QED
  BY <1>1, <1>2, <1>3 DEF CountInv

LEMMA WriteCount ==
  ASSUME OutInv, SettleInv, CountInv, Write
  PROVE  CountInv'
<1>1. PICK p \in Procs, e \in Events : Emit(p, e) \/ EmitInTransaction(p, e)
  BY DEF Write
<1>2. row[e] = "none"
  BY <1>1 DEF Emit, EmitInTransaction, SettleInv, Unwritten
<1>3. \A f \in Events : row'[f] \in {"none", "pending"} => row[f] \in {"none", "pending"}
  BY <1>1, <1>2 DEF Emit, EmitInTransaction, rowVars, OutInv, Shapes
<1> QED
  BY <1>1, <1>3, CountKept DEF Emit, EmitInTransaction, rowVars, tickVars

LEMMA FlushCount ==
  ASSUME OutInv, SettleInv, CountInv, Flush
  PROVE  CountInv'
<1>1. PICK p \in Procs : TimerFires(p) \/ FlushDone(p) \/ FlushRefused(p) \/ FlushThrows(p)
  BY DEF Flush
<1>2. UNCHANGED <<tries, published, todo, current>>
  BY <1>1 DEF TimerFires, FlushDone, FlushRefused, FlushThrows, FlushReturns, rowVars, tickVars
<1>3. \A t \in Calls : step'[t] = step[t] \/ (step[t] = "flushing" /\ step'[t] = "fetch")
  BY <1>1 DEF TimerFires, FlushDone, FlushRefused, FlushThrows, FlushReturns, tickVars
<1>4. \A e \in Events : row'[e] \in {"none", "pending"} => row[e] \in {"none", "pending"}
  <2>1. CASE FlushDone(p)
    BY <2>1 DEF FlushDone, SettleInv, Unwritten
  <2>2. CASE ~FlushDone(p)
    BY <1>1, <2>2 DEF TimerFires, FlushRefused, FlushThrows, rowVars
  <2> QED
    BY <2>1, <2>2
<1> QED
  BY <1>2, <1>3, <1>4, CountKept

LEMMA BeginTickCount ==
  ASSUME OutInv, CountInv, NEW t \in Calls, BeginTick(t)
  PROVE  CountInv'
<1>1. \A u \in Calls : step'[u] = step[u] \/ (step[u] = "idle" /\ step'[u] \in {"flushing", "fetch"})
  BY DEF BeginTick, OutInv, Shapes
<1> QED
  BY <1>1, CountKept DEF BeginTick, rowVars

LEMMA FetchCount ==
  ASSUME OutInv, CountInv, NEW t \in Calls, FetchPending(t) \/ FetchFails(t)
  PROVE  CountInv'
<1>1. UNCHANGED <<row, tries, published, current>> /\ step[t] = "fetch"
  BY DEF FetchPending, FetchFails, rowVars
<1>2. \A u \in Calls : step'[u] = step[u] \/ (u = t /\ step'[u] \in {"idle", "deliver"})
  BY DEF FetchPending, FetchFails, EndTick, OutInv, Shapes
<1>3. \A u \in Calls : \A d \in todo'[u] : d \in todo[u] \/ d[2] = tries[d[1]]
  <2>1. CASE UNCHANGED todo
    BY <2>1
  <2>2. ASSUME NEW T, todo' = [todo EXCEPT ![t] = {<<e, tries[e]>> : e \in T}]
        PROVE  \A u \in Calls : \A d \in todo'[u] : d \in todo[u] \/ d[2] = tries[d[1]]
    BY <2>2 DEF OutInv, Shapes
  <2> QED
    BY <2>1, <2>2 DEF FetchPending, FetchFails
<1>4. ReadIsCurrent'
  BY <1>1, <1>2, <1>3 DEF CountInv, ReadIsCurrent
<1>5. AllButLast' /\ AttemptsCounted'
  BY <1>1, <1>2 DEF CountInv, AllButLast, AttemptsCounted, BeingMarked
<1> QED
  BY <1>4, <1>5 DEF CountInv

\* An event in hand is published when all its earlier publications are counted.
LEMMA DeliverCount ==
  ASSUME OneProcess, OutInv, SettleInv, CountInv, NEW t \in Calls, Deliver(t)
  PROVE  CountInv'
<1>1. UNCHANGED <<row, tries>> /\ step[t] = "deliver"
  BY DEF Deliver, rowVars
<1>2. PICK d \in todo[t] : /\ todo' = [todo EXCEPT ![t] = @ \ {d}]
                           /\ current' = [current EXCEPT ![t] = d]
                           /\ published' = [published EXCEPT ![d[1]] = @ + 1]
  BY DEF Deliver, Publish
<1>3. PICK s \in {"delivered", "threw"} : step' = [step EXCEPT ![t] = s]
  BY DEF Deliver
<1>4. /\ todo'[t] = todo[t] \ {d} /\ current'[t] = d /\ step'[t] = s
      /\ d[1] \in Events
      /\ \A u \in Calls \ {t} : step'[u] = step[u] /\ todo'[u] = todo[u] /\ current'[u] = current[u]
  BY <1>2, <1>3 DEF OutInv, Shapes
<1>5. \A u \in Calls \ {t} : step[u] = "idle" /\ todo[u] = {}
  BY <1>1, OthersEmpty
<1>6. \A e \in Events : ~BeingMarked(e)
  BY <1>1, <1>5 DEF BeingMarked
<1>7. row[d[1]] = "pending" /\ published[d[1]] <= tries[d[1]]
  BY <1>4, <1>6 DEF SettleInv, InHand, CountInv, AllButLast
<1>8. published[d[1]] \in Nat /\ tries[d[1]] \in Nat
  BY <1>4 DEF OutInv, Shapes
<1>9. /\ published'[d[1]] = published[d[1]] + 1
      /\ \A e \in Events \ {d[1]} : published'[e] = published[e]
  BY <1>2, <1>4 DEF OutInv, Shapes
<1>10. AttemptsCounted'
  BY <1>1, <1>7, <1>8, <1>9 DEF CountInv, AttemptsCounted
<1>11. ReadIsCurrent'
  BY <1>1, <1>2, <1>4, <1>5 DEF CountInv, ReadIsCurrent
<1>12. BeingMarked(d[1])'
  BY <1>3, <1>4 DEF BeingMarked
<1>13. AllButLast'
  BY <1>1, <1>6, <1>9, <1>12 DEF CountInv, AllButLast
<1> QED
  BY <1>10, <1>11, <1>13 DEF CountInv

\* A failure counts the publication; a delivered event is not published again.
LEMMA MarkCount ==
  ASSUME OneProcess, OutInv, SettleInv, CountInv, NEW t \in Calls,
         MarkDelivered(t) \/ MarkFailed(t)
  PROVE  CountInv'
<1>1. /\ step[t] \in {"delivered", "threw"} /\ NextEvent(t) /\ UNCHANGED <<todo, published>>
  BY DEF MarkDelivered, MarkFailed, NextEvent
<1> DEFINE c == current[t][1]
<1>2. /\ c \in Events /\ row[c] = "pending" /\ current[t][2] = tries[c]
      /\ \A d \in todo[t] : d[1] # c
  BY <1>1 DEF OutInv, TickInv, CurrentIsEvent, SettleInv, InHand, CountInv, ReadIsCurrent
<1>3. tries[c] \in Nat /\ published[c] \in Nat /\ published[c] <= tries[c] + 1
  BY <1>2 DEF OutInv, Shapes, CountInv, AttemptsCounted
<1>4. \/ row'[c] = "delivered" /\ tries'[c] = tries[c]
      \/ tries'[c] = tries[c] + 1
  <2>1. CASE MarkDelivered(t)
    BY <1>2, <2>1 DEF MarkDelivered, Stored, OutInv, Shapes
  <2>2. CASE MarkFailed(t)
    BY <1>2, <2>2 DEF MarkFailed, NewAttempts, Stored, OutInv, Shapes
  <2> QED
    BY <2>1, <2>2
<1>5. \A e \in Events \ {c} : row'[e] = row[e] /\ tries'[e] = tries[e]
  BY <1>2 DEF MarkDelivered, MarkFailed, rowVars, OutInv, Shapes
<1>6. \A u \in Calls \ {t} : step[u] = "idle" /\ todo[u] = {}
  BY <1>1, OthersEmpty
<1>7. /\ step'[t] \in {"idle", "deliver"}
      /\ \A u \in Calls \ {t} : step'[u] = step[u]
  BY <1>1 DEF NextEvent, EndTick, OutInv, Shapes
<1>8. AttemptsCounted'
  BY <1>1, <1>3, <1>4, <1>5 DEF CountInv, AttemptsCounted
<1>9. ReadIsCurrent'
  <2>1. \A d \in todo[t] : d[1] \in Events
    BY DEF OutInv, Shapes
  <2> QED
    BY <1>1, <1>2, <1>5, <1>6, <1>7, <2>1 DEF CountInv, ReadIsCurrent
<1>10. ASSUME NEW e \in Events \ {c} PROVE ~BeingMarked(e)
  BY <1>6, <1>10 DEF BeingMarked
<1>11. AllButLast'
  BY <1>1, <1>3, <1>4, <1>5, <1>10 DEF CountInv, AllButLast
<1> QED
  BY <1>8, <1>9, <1>11 DEF CountInv

LEMMA AroundCount ==
  ASSUME MaxFaults = 0, OutInv, CountInv, Around
  PROVE  CountInv'
<1>1. \A p \in Procs : ~Crash(p)
  BY DEF Crash, OutInv, Shapes
<1>2. CASE Cleanup
  <2>1. \A e \in Events : row'[e] \in {"none", "pending"} => row[e] \in {"none", "pending"}
    BY <1>2 DEF Cleanup
  <2> QED
    BY <1>2, <2>1, CountKept DEF Cleanup, tickVars
<1>3. CASE ~Cleanup
  BY <1>1, <1>3, CountKept
  DEF Around, BackoffElapses, DispatchHook, LoseDb, RegainDb, rowVars, tickVars
<1> QED
  BY <1>2, <1>3

\* processBatch and updateEventStatus: with one process and a database that answers,
\* every publication but the one in progress or the last is counted in attempts, so
\* that an event is published at most OUTBOX_MAX_ATTEMPTS times.
THEOREM PublicationsCounted ==
  ASSUME OneProcess, MaxFaults = 0
  PROVE  Spec => []AttemptsCounted
<1>1. Init => SettleInv
  BY DEF Init, SettleInv, Unwritten, InHand
<1>2. OutInv /\ SettleInv /\ [Next]_vars => SettleInv'
  BY NextSettle
<1>3. Init => CountInv
  BY DEF Init, CountInv, AttemptsCounted, ReadIsCurrent, AllButLast
<1>4. OutInv /\ SettleInv /\ CountInv /\ [Next]_vars => CountInv'
  <2> SUFFICES ASSUME OutInv, SettleInv, CountInv, [Next]_vars PROVE CountInv'
    OBVIOUS
  <2>1. CASE Write
    BY <2>1, WriteCount
  <2>2. CASE Flush
    BY <2>2, FlushCount
  <2>3. CASE Process
    <3>1. \A t \in Calls : ~MarkLost(t)
      BY DEF MarkLost, OutInv, Shapes
    <3> QED
      BY <2>3, <3>1, BeginTickCount, FetchCount, DeliverCount, MarkCount DEF Process
  <2>4. CASE Around
    BY <2>4, AroundCount
  <2>5. CASE UNCHANGED vars
    BY <2>5, CountKept DEF vars, rowVars, tickVars
  <2> QED
    BY <2>1, <2>2, <2>3, <2>4, <2>5 DEF Next
<1>5. CountInv => AttemptsCounted
  BY DEF CountInv
<1> QED
  BY <1>1, <1>2, <1>3, <1>4, <1>5, OutSafe, PTL DEF Spec
=============================================================================
