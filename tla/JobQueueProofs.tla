--------------------------- MODULE JobQueueProofs ---------------------------
(***************************************************************************)
(* Proofs about JobQueue for any number of processes, slots and rows.      *)
(***************************************************************************)
EXTENDS JobQueue, TLAPS, FiniteSetTheorems

USE DEF managed

\* The in-flight calls of a process can be counted.
LEMMA BusyFinite ==
  ASSUME NEW p \in Procs
  PROVE  IsFiniteSet(Busy(p)) /\ Cardinality(Busy(p)) \in Nat
<1>1. IsFiniteSet({p} \X QueueSlots)
  BY FS_Singleton, FS_Product, SlotsAssumption
<1>2. Busy(p) \subseteq {p} \X QueueSlots
  BY DEF Busy, QueueSeats
<1> QED BY <1>1, <1>2, FS_Subset, FS_CardinalityType

\* What they leave of CONCURRENT_MAX is a number within it.
LEMMA CapacityBounds ==
  ASSUME NEW p \in Procs
  PROVE  Capacity(p) \in 0..ConcurrentMax
BY BusyFinite, NumbersAssumption DEF Capacity

\* getNextReady returns rows of the table.
LEMMA ReadyRows ==
  ASSUME NEW n, NEW S \in GetNextReady(n)
  PROVE  S \in SUBSET Ready /\ Ready \subseteq Jobs
BY DEF GetNextReady, Ready

\* Seating a batch only fills the seats offered, with rows of the batch and the
\* attempts those rows hold.
LEMMA Seating ==
  ASSUME RowsOK, SeatsOK, NEW T \in SUBSET Jobs, NEW free \in SUBSET Seats, Seat(T, free)
  PROVE  /\ SeatsOK'
         /\ \A c \in Seats :
              \/ phase'[c] = phase[c] /\ task'[c] = task[c] /\ snap'[c] = snap[c]
              \/ /\ c \in free /\ phase'[c] = "fetched"
                 /\ task'[c] \in T /\ snap'[c] = attempts[task'[c]]
<1>1. PICK f \in [T -> free] :
        /\ phase' = [c \in Seats |-> IF \E j \in T : f[j] = c THEN "fetched" ELSE phase[c]]
        /\ task' = [c \in Seats |-> IF \E j \in T : f[j] = c
                                    THEN CHOOSE j \in T : f[j] = c ELSE task[c]]
        /\ snap' = [c \in Seats |-> IF \E j \in T : f[j] = c
                                    THEN attempts[CHOOSE j \in T : f[j] = c] ELSE snap[c]]
  BY DEF Seat
<1>2. ASSUME NEW c \in Seats, \E j \in T : f[j] = c
      PROVE  /\ (CHOOSE j \in T : f[j] = c) \in T
             /\ c \in free
  BY <1>2
<1>3. ASSUME NEW c \in Seats
      PROVE  \/ phase'[c] = phase[c] /\ task'[c] = task[c] /\ snap'[c] = snap[c]
             \/ /\ c \in free /\ phase'[c] = "fetched"
                /\ task'[c] \in T /\ snap'[c] = attempts[task'[c]]
  <2>1. CASE \E j \in T : f[j] = c
    BY <1>1, <1>2, <2>1
  <2>2. CASE ~ \E j \in T : f[j] = c
    BY <1>1, <2>2
  <2> QED BY <2>1, <2>2
<1>4. /\ phase' = [c \in Seats |-> phase'[c]]
      /\ task' = [c \in Seats |-> task'[c]]
      /\ snap' = [c \in Seats |-> snap'[c]]
  BY <1>1
<1>5. \A c \in Seats : /\ phase'[c] \in Phases
                       /\ task'[c] \in Jobs \cup {NoJob}
                       /\ snap'[c] \in Nat
                       /\ phase'[c] = "idle" <=> task'[c] = NoJob
  BY <1>3, JobsAssumption DEF RowsOK, SeatsOK, Phases
<1> QED
  BY <1>3, <1>4, <1>5 DEF SeatsOK

\* A seat that is released or moved on stays well formed, and no other seat changes.
LEMMA Moving ==
  ASSUME SeatsOK, NEW c \in Seats, NEW ph \in Phases \ {"idle"},
         phase[c] # "idle", Advance(c, ph)
  PROVE  SeatsOK'
BY DEF SeatsOK, Advance

LEMMA Releasing ==
  ASSUME SeatsOK, NEW c \in Seats, Release(c)
  PROVE  SeatsOK'
BY JobsAssumption DEF SeatsOK, Release, Phases

LEMMA Starting ==
  ASSUME SeatsOK, NEW c \in Seats, phase[c] # "idle", Start(c)
  PROVE  SeatsOK'
<1>1. task[c] \in Jobs
  BY DEF SeatsOK
<1>2. CASE task[c] \in UnhandledJobs
  BY <1>2, Moving DEF Start, Phases, Holding, Settling
<1>3. CASE task[c] \notin UnhandledJobs
  BY <1>1, <1>3, Moving DEF Start, Phases, Holding
<1> QED BY <1>2, <1>3

\* The two conditional writes keep the columns in their domains.
LEMMA Claiming ==
  ASSUME RowsOK, NEW j \in Jobs, NEW n \in Nat, ClaimWrite(j, n)
  PROVE  RowsOK'
BY DEF RowsOK, ClaimWrite, Statuses

LEMMA Outcomes ==
  ASSUME NEW c \in Seats, phase[c] \in Settling
  PROVE  Outcome(c) \in {"pending", "completed", "failed"}
BY DEF Outcome, Settling

LEMMA SettlingRow ==
  ASSUME RowsOK, NEW j \in Jobs, NEW o \in {"pending", "completed", "failed"},
         SettleWrite(j, o)
  PROVE  RowsOK'
BY DEF RowsOK, SettleWrite, Statuses

-----------------------------------------------------------------------------
(* Type correctness: one step per action.                                  *)

LEMMA InitType == Init => TypeOK
BY NumbersAssumption, JobsAssumption
   DEF Init, TypeOK, RowsOK, SeatsOK, Statuses, Phases, Seats

LEMMA NextType == TypeOK /\ [Next]_vars => TypeOK'
<1> SUFFICES ASSUME TypeOK, [Next]_vars
             PROVE  TypeOK'
  OBVIOUS
<1> USE DEF TypeOK
<1>1. ASSUME NEW j \in Jobs, ScheduleJob(j)
      PROVE  TypeOK'
  BY <1>1 DEF ScheduleJob, Insert, RowsOK, SeatsOK, seats, Statuses
<1>2. ASSUME NEW j \in Jobs, BecomeDue(j)
      PROVE  TypeOK'
  BY <1>2 DEF BecomeDue, RowsOK, SeatsOK, seats
<1>3. ASSUME NEW j \in Jobs, NEW p \in Procs, Dispatch(p, j)
      PROVE  TypeOK'
  <2>1. RowsOK'
    BY <1>3 DEF Dispatch, Insert, RowsOK, Statuses
  <2>2. polling' \in [Procs -> 0..ConcurrentMax]
    BY <1>3, CapacityBounds DEF Dispatch, PollLimit
  <2> QED
    BY <1>3, <2>1, <2>2 DEF Dispatch, SeatsOK, seats
<1>4. ASSUME NEW p \in Procs, Poll(p)
      PROVE  TypeOK'
  <2>1. polling' \in [Procs -> 0..ConcurrentMax]
    BY <1>4, CapacityBounds DEF Poll
  <2> QED
    BY <1>4, <2>1 DEF Poll, RowsOK, SeatsOK, rows, seats
<1>5. ASSUME NEW p \in Procs, FetchBatch(p)
      PROVE  TypeOK'
  <2>1. PICK S \in GetNextReady(polling[p]) :
          Seat(S \ SchedulerJobs, Free(p) \cap QueueSeats)
    BY <1>5 DEF FetchBatch
  <2>2. S \ SchedulerJobs \in SUBSET Jobs
    BY ReadyRows
  <2>3. Free(p) \cap QueueSeats \in SUBSET Seats
    BY DEF Free, SeatsOf
  <2>4. SeatsOK'
    BY <2>1, <2>2, <2>3, Seating
  <2>5. polling' \in [Procs -> 0..ConcurrentMax]
    BY <1>5, NumbersAssumption DEF FetchBatch
  <2> QED
    BY <1>5, <2>4, <2>5 DEF FetchBatch, RowsOK, rows
<1>6. ASSUME NEW p \in Procs, SchedulerPoll(p)
      PROVE  TypeOK'
  <2>1. PICK S \in GetNextReady(Cardinality(SchedSlots)) :
          Seat(S \cap SchedulerJobs, Free(p) \cap SchedSeats)
    BY <1>6 DEF SchedulerPoll
  <2>2. S \cap SchedulerJobs \in SUBSET Jobs
    BY ReadyRows
  <2>3. Free(p) \cap SchedSeats \in SUBSET Seats
    BY DEF Free, SeatsOf
  <2>4. SeatsOK'
    BY <2>1, <2>2, <2>3, Seating
  <2> QED
    BY <1>6, <2>4 DEF SchedulerPoll, RowsOK, rows
<1>7. ASSUME NEW c \in Seats, Claim(c)
      PROVE  TypeOK'
  <2>1. task[c] \in Jobs /\ snap[c] \in Nat /\ phase[c] # "idle"
    BY <1>7 DEF Claim, SeatsOK
  <2>2. CASE ClaimAtOnce(c)
    <3>1. RowsOK'
      BY <2>1, <2>2, Claiming DEF ClaimAtOnce
    <3>2. SeatsOK'
      BY <2>1, <2>2, Starting, Releasing DEF ClaimAtOnce
    <3> QED BY <1>7, <3>1, <3>2 DEF Claim
  <2>3. CASE ClaimUpdate(c)
    <3>1. RowsOK'
      BY <2>1, <2>3, Claiming DEF ClaimUpdate
    <3>2. SeatsOK'
      BY <2>1, <2>3, Moving DEF ClaimUpdate, Phases
    <3> QED BY <1>7, <2>3, <3>1, <3>2 DEF Claim, ClaimUpdate
  <2> QED BY <1>7, <2>2, <2>3 DEF Claim
<1>8. ASSUME NEW c \in Seats, ClaimSelect(c)
      PROVE  TypeOK'
  <2>1. SeatsOK'
    BY <1>8, Starting, Releasing DEF ClaimSelect
  <2> QED
    BY <1>8, <2>1 DEF ClaimSelect, RowsOK, rows
<1>9. ASSUME NEW c \in Seats, HandlerReturns(c)
      PROVE  TypeOK'
  <2>1. SeatsOK'
    BY <1>9, Moving DEF HandlerReturns, Phases, Holding, Settling
  <2> QED
    BY <1>9, <2>1 DEF HandlerReturns, RowsOK, rows
<1>10. ASSUME NEW c \in Seats, Settle(c)
       PROVE  TypeOK'
  <2>1. task[c] \in Jobs
    BY <1>10 DEF Settle, Settling, SeatsOK
  <2>2. RowsOK'
    BY <1>10, <2>1, Outcomes, SettlingRow DEF Settle
  <2>3. SeatsOK'
    BY <1>10, Releasing DEF Settle
  <2> QED
    BY <1>10, <2>2, <2>3 DEF Settle
<1>11. ASSUME NEW c \in Seats, ClaimFails(c)
       PROVE  TypeOK'
  <2>1. task[c] \in Jobs /\ snap[c] \in Nat
    BY <1>11 DEF ClaimFails, SeatsOK
  <2>2. RowsOK'
    <3>1. CASE ClaimWrite(task[c], snap[c])
      BY <2>1, <3>1, Claiming
    <3>2. CASE UNCHANGED rows
      BY <3>2 DEF RowsOK, rows
    <3> QED BY <1>11, <3>1, <3>2 DEF ClaimFails
  <2>3. SeatsOK'
    BY <1>11, Releasing DEF ClaimFails
  <2>4. faults' \in 0..MaxFaults
    BY <1>11, NumbersAssumption DEF ClaimFails
  <2> QED
    BY <1>11, <2>2, <2>3, <2>4 DEF ClaimFails
<1>12. ASSUME NEW c \in Seats, SettleFails(c)
       PROVE  TypeOK'
  <2>1. SeatsOK'
    BY <1>12, Releasing DEF SettleFails
  <2>2. faults' \in 0..MaxFaults
    BY <1>12, NumbersAssumption DEF SettleFails
  <2> QED
    BY <1>12, <2>1, <2>2 DEF SettleFails, RowsOK, rows
<1>13. ASSUME NEW p \in Procs, Crash(p)
       PROVE  TypeOK'
  <2>1. SeatsOK'
    BY <1>13, JobsAssumption DEF Crash, SeatsOK, Phases
  <2>2. faults' \in 0..MaxFaults /\ polling' \in [Procs -> 0..ConcurrentMax]
    BY <1>13, NumbersAssumption DEF Crash
  <2> QED
    BY <1>13, <2>1, <2>2 DEF Crash, RowsOK, rows
<1>14. ASSUME NEW op, Admin(op)
       PROVE  SeatsOK' /\ polling' = polling /\ faults' = faults /\ admins' \in 0..MaxAdmin
  BY <1>14, NumbersAssumption DEF Admin, SeatsOK, seats
<1>15. ASSUME NEW j \in Jobs, RetryJob(j) \/ DeleteJob(j)
       PROVE  TypeOK'
  <2>1. RowsOK'
    <3>1. CASE RetryJob(j)
      BY <3>1 DEF RetryJob, RowsOK, Statuses
    <3>2. CASE DeleteJob(j)
      BY <3>2 DEF DeleteJob, RowsOK, Statuses
    <3> QED BY <1>15, <3>1, <3>2
  <2> QED
    BY <1>14, <1>15, <2>1 DEF RetryJob, DeleteJob
<1>16. ASSUME ClearCompleted
       PROVE  TypeOK'
  <2>1. RowsOK'
    BY <1>16 DEF ClearCompleted, RowsOK, Statuses
  <2> QED
    BY <1>14, <1>16, <2>1 DEF ClearCompleted
<1>17. CASE UNCHANGED vars
  BY <1>17 DEF vars, rows, seats, RowsOK, SeatsOK
<1> QED
  BY <1>1, <1>2, <1>3, <1>4, <1>5, <1>6, <1>7, <1>8, <1>9, <1>10, <1>11, <1>12, <1>13,
     <1>15, <1>16, <1>17
     DEF Next, Produce, Fetch, Execute, Fail, Manage

\* In every reachable state, for any number of processes, slots, rows and admin
\* actions and any kind of adapter, the variables have their types.
THEOREM TypeCorrect == Spec => []TypeOK
<1>1. Init => TypeOK
  BY InitType
<1>2. TypeOK /\ [Next]_vars => TypeOK'
  BY NextType
<1> QED
  BY <1>1, <1>2, PTL DEF Spec

-----------------------------------------------------------------------------
(* Exclusive execution.  ExclusiveExecution is not inductive: a claim is   *)
(* only safe because a pending row has no holder, and a row only becomes   *)
(* pending again because its one holder settles it.  CallsSound records    *)
(* both, with the attempt number that ties a holder to its row.  An        *)
(* admin's retry breaks it, so it is excluded.                             *)

LeaseInv == ExclusiveExecution /\ AttemptsBounded /\ CallsSound

\* A row that is not running, and not removed, has no holder.
LEMMA NoHolder ==
  ASSUME CallsSound, NEW j \in Jobs, status[j] \notin {"running", "deleted"},
         NEW c \in Seats
  PROVE  ~Holds(c, j)
BY DEF CallsSound, CallSound, Holds

\* Changes that leave the seats and the held rows alone preserve the invariant.
LEMMA RowsAside ==
  ASSUME LeaseInv, UNCHANGED seats, AttemptsBounded',
         \A c \in Seats : phase[c] # "idle" =>
           /\ status'[task[c]] \in {status[task[c]], "deleted"}
           /\ attempts'[task[c]] = attempts[task[c]]
  PROVE  LeaseInv'
<1>1. ExclusiveExecution'
  BY DEF LeaseInv, ExclusiveExecution, Holds, seats
<1>2. CallsSound'
  BY DEF LeaseInv, CallsSound, CallSound, seats, Holding, Settling
<1> QED BY <1>1, <1>2 DEF LeaseInv

\* The seats a step may change without writing a row: one is vacated, or takes up
\* a pending row with the attempts read from it.
Vacated(c) == phase'[c] = "idle" /\ snap'[c] = 0

Kept(c) == phase'[c] = phase[c] /\ task'[c] = task[c] /\ snap'[c] = snap[c]

TookPending(c) ==
  /\ phase'[c] = "fetched" /\ task'[c] \in Jobs
  /\ status[task'[c]] = "pending" /\ snap'[c] = attempts[task'[c]]

\* So do changes of the seats that take up pending rows or give rows up.
LEMMA SeatsAside ==
  ASSUME LeaseInv, UNCHANGED rows,
         \A c \in Seats : Kept(c) \/ Vacated(c) \/ TookPending(c)
  PROVE  LeaseInv'
<1>1. \A c \in Seats : phase'[c] \in Holding => phase[c] \in Holding /\ task'[c] = task[c]
  BY DEF Kept, Vacated, TookPending, Holding, Settling
<1>2. ExclusiveExecution'
  BY <1>1 DEF LeaseInv, ExclusiveExecution, Holds
<1>3. AttemptsBounded'
  BY DEF LeaseInv, AttemptsBounded, rows
<1>4. ASSUME NEW c \in Seats
      PROVE  CallSound(c)'
  <2>1. CASE Kept(c)
    BY <2>1 DEF Kept, LeaseInv, CallsSound, CallSound, rows
  <2>2. CASE Vacated(c)
    BY <2>2, NumbersAssumption DEF Vacated, CallSound, Holding, Settling
  <2>3. CASE TookPending(c)
    BY <2>3 DEF TookPending, LeaseInv, AttemptsBounded, CallSound, rows, Holding, Settling
  <2> QED BY <2>1, <2>2, <2>3
<1> QED BY <1>2, <1>3, <1>4 DEF LeaseInv, CallsSound

\* Inserting a row: no call can be about it yet.
LEMMA InsertKeepsLeases ==
  ASSUME TypeOK, LeaseInv, NEW j \in Jobs, NEW isDue \in BOOLEAN,
         Insert(j, isDue), UNCHANGED seats
  PROVE  LeaseInv'
<1>1. AttemptsBounded'
  BY NumbersAssumption DEF Insert, LeaseInv, AttemptsBounded, TypeOK, RowsOK
<1>2. \A c \in Seats : phase[c] # "idle" => task[c] # j /\ task[c] \in Jobs
  BY DEF Insert, LeaseInv, CallsSound, CallSound, TypeOK, SeatsOK
<1>3. \A c \in Seats : phase[c] # "idle" =>
        /\ status'[task[c]] \in {status[task[c]], "deleted"}
        /\ attempts'[task[c]] = attempts[task[c]]
  BY <1>2 DEF Insert, TypeOK, RowsOK
<1> QED BY <1>1, <1>3, RowsAside

\* The claim's conditional UPDATE touches only a pending row, which nobody holds.
LEMMA ClaimWriteKeepsOthers ==
  ASSUME TypeOK, LeaseInv, NEW c \in Seats, phase[c] # "idle", ClaimWrite(task[c], snap[c])
  PROVE  /\ AttemptsBounded'
         /\ status'[task[c]] \notin {"absent", "pending"}
         /\ status[task[c]] = "pending" =>
              status'[task[c]] = "running" /\ attempts'[task[c]] = snap[c] + 1
         /\ \A d \in Seats :
              /\ phase[d] # "idle" => status'[task[d]] # "absent"
              /\ phase[d] = "confirm" => Adapter = "sql" /\ status'[task[d]] # "pending"
              /\ phase[d] \in Holding => /\ Adapter # "sql"
                                         /\ status'[task[d]] \in {"running", "deleted"}
                                         /\ attempts'[task[d]] = snap[d] + 1
<1>1. task[c] \in Jobs /\ snap[c] \in Nat /\ snap[c] < MaxAttempts /\ status[task[c]] # "absent"
  BY DEF TypeOK, SeatsOK, LeaseInv, CallsSound, CallSound
<1>2. \A j \in Jobs : /\ status'[j] = IF j = task[c] /\ status[j] = "pending"
                                       THEN "running" ELSE status[j]
                      /\ attempts'[j] = IF j = task[c] /\ status[j] = "pending"
                                         THEN snap[c] + 1 ELSE attempts[j]
  BY DEF ClaimWrite, TypeOK, RowsOK
<1>3. AttemptsBounded'
  BY <1>1, <1>2, NumbersAssumption DEF LeaseInv, AttemptsBounded, TypeOK, RowsOK
<1>4. ASSUME NEW d \in Seats
      PROVE  /\ phase[d] # "idle" => status'[task[d]] # "absent"
             /\ phase[d] = "confirm" => Adapter = "sql" /\ status'[task[d]] # "pending"
             /\ phase[d] \in Holding => /\ Adapter # "sql"
                                        /\ status'[task[d]] \in {"running", "deleted"}
                                        /\ attempts'[task[d]] = snap[d] + 1
  <2>1. CASE phase[d] = "idle"
    BY <2>1 DEF Holding, Settling
  <2>2. CASE phase[d] # "idle"
    <3>1. task[d] \in Jobs
      BY <2>2 DEF TypeOK, SeatsOK
    <3> QED BY <1>2, <2>2, <3>1 DEF LeaseInv, CallsSound, CallSound
  <2> QED BY <2>1, <2>2
<1> QED BY <1>1, <1>2, <1>3, <1>4

\* A claim: the caller becomes the holder only of a row it changed itself.
LEMMA ClaimKeepsLeases ==
  ASSUME TypeOK, LeaseInv, NEW c \in Seats, Claim(c)
  PROVE  LeaseInv'
<1>1. phase[c] = "fetched" /\ task[c] \in Jobs
  BY DEF Claim, TypeOK, SeatsOK
<1>2. ClaimWrite(task[c], snap[c])
  BY DEF Claim, ClaimAtOnce, ClaimUpdate
<1>3. /\ phase \in [Seats -> Phases] /\ task \in [Seats -> Jobs \cup {NoJob}]
      /\ snap \in [Seats -> Nat] /\ MaxAttempts > 0
  BY NumbersAssumption DEF TypeOK, SeatsOK
<1>4. \A d \in Seats \ {c} : phase'[d] = phase[d] /\ task'[d] = task[d] /\ snap'[d] = snap[d]
  BY <1>3 DEF Claim, ClaimAtOnce, ClaimUpdate, Start, Release, Advance
<1>5. \/ phase'[c] = "idle" /\ snap'[c] = 0
      \/ Adapter = "sql" /\ phase'[c] = "confirm" /\ task'[c] = task[c] /\ snap'[c] = snap[c]
      \/ /\ Adapter # "sql" /\ status[task[c]] = "pending"
         /\ phase'[c] \in {"running", "unhandled"} /\ task'[c] = task[c] /\ snap'[c] = snap[c]
  BY <1>3 DEF Claim, ClaimAtOnce, ClaimUpdate, Start, Release, Advance
<1>6. CallsSound'
  <2>1. CallSound(c)'
    BY <1>1, <1>2, <1>3, <1>5, ClaimWriteKeepsOthers
       DEF LeaseInv, CallsSound, CallSound, Holding, Settling
  <2>2. ASSUME NEW d \in Seats \ {c}
        PROVE  CallSound(d)'
    BY <1>1, <1>2, <1>4, <2>2, ClaimWriteKeepsOthers DEF LeaseInv, CallsSound, CallSound
  <2> QED BY <2>1, <2>2 DEF CallsSound
<1>7. ExclusiveExecution'
  <2>1. ASSUME NEW d \in Seats, NEW e \in Seats, NEW j \in Jobs,
               Holds(d, j)', Holds(e, j)', d # e
        PROVE  FALSE
    <3>1. CASE d # c /\ e # c
      BY <1>4, <2>1, <3>1 DEF LeaseInv, ExclusiveExecution, Holds
    <3>2. ASSUME NEW x \in Seats \ {c}, Holds(c, j)', Holds(x, j)'
          PROVE  FALSE
      <4>1. status[j] = "pending"
        BY <1>5, <3>2 DEF Holds, Holding, Settling
      <4>2. Holds(x, j)
        BY <1>4, <3>2 DEF Holds
      <4> QED BY <4>1, <4>2, NoHolder DEF LeaseInv
    <3> QED BY <2>1, <3>1, <3>2
  <2> QED BY <2>1 DEF ExclusiveExecution
<1> QED BY <1>1, <1>2, <1>6, <1>7, ClaimWriteKeepsOthers DEF LeaseInv

\* The SELECT after an SQL claim finds no pending row: it ends in a release.
LEMMA ClaimSelectKeepsLeases ==
  ASSUME TypeOK, LeaseInv, NEW c \in Seats, ClaimSelect(c)
  PROVE  LeaseInv'
<1>1. Release(c) /\ UNCHANGED rows
  BY DEF ClaimSelect, ReplyHasRow, LeaseInv, CallsSound, CallSound
<1>2. \A d \in Seats : Kept(d) \/ Vacated(d)
  BY <1>1 DEF Kept, Vacated, Release, TypeOK, SeatsOK
<1> QED BY <1>1, <1>2, SeatsAside

\* The handler's return leaves the row to the call that ran it.
LEMMA ReturnKeepsLeases ==
  ASSUME TypeOK, LeaseInv, NEW c \in Seats, HandlerReturns(c)
  PROVE  LeaseInv'
<1>1. \A d \in Seats : /\ task'[d] = task[d] /\ snap'[d] = snap[d]
                       /\ phase'[d] = phase[d] \/ {phase'[d], phase[d]} \subseteq Holding
  BY DEF HandlerReturns, Advance, TypeOK, SeatsOK, Holding, Settling
<1>2. UNCHANGED rows
  BY DEF HandlerReturns
<1>3. ExclusiveExecution'
  BY <1>1 DEF LeaseInv, ExclusiveExecution, Holds
<1>4. CallsSound'
  BY <1>1, <1>2 DEF LeaseInv, CallsSound, CallSound, rows, Holding, Settling
<1> QED BY <1>2, <1>3, <1>4 DEF LeaseInv, AttemptsBounded, rows

\* The last write goes by _id alone; it is safe because the caller is the one holder.
LEMMA SettleKeepsLeases ==
  ASSUME TypeOK, LeaseInv, NEW c \in Seats, Settle(c)
  PROVE  LeaseInv'
<1> DEFINE j == task[c]
<1>1. j \in Jobs /\ phase[c] \in Settling /\ Holds(c, j)
  BY DEF Settle, TypeOK, SeatsOK, Settling, Holding, Holds
<1>2. /\ status[j] \in {"running", "deleted"} /\ attempts[j] = snap[c] + 1
      /\ Adapter # "sql" /\ snap[c] < MaxAttempts
  BY <1>1 DEF LeaseInv, CallsSound, CallSound, Holds
<1>3. \A d \in Seats \ {c} : ~Holds(d, j)
  BY <1>1 DEF LeaseInv, ExclusiveExecution
<1>4. \A d \in Seats \ {c} : phase'[d] = phase[d] /\ task'[d] = task[d] /\ snap'[d] = snap[d]
  BY DEF Settle, Release, TypeOK, SeatsOK
<1>5. phase'[c] = "idle" /\ snap'[c] = 0
  BY DEF Settle, Release, TypeOK, SeatsOK
<1>6. /\ attempts' = attempts
      /\ \A i \in Jobs \ {j} : status'[i] = status[i]
      /\ status'[j] = IF status[j] = "deleted" THEN "deleted" ELSE Outcome(c)
  BY <1>1, <1>2 DEF Settle, SettleWrite, Exists, TypeOK, RowsOK
<1>7. Outcome(c) \in {"pending", "completed", "failed"}
  BY <1>1, Outcomes
<1>8. Outcome(c) = "pending" => snap[c] + 1 < MaxAttempts
  <2>1. snap[c] \in Nat /\ MaxAttempts \in Nat
    BY NumbersAssumption DEF TypeOK, SeatsOK
  <2>2. CASE phase[c] = "threw"
    BY <2>1, <2>2 DEF Outcome
  <2>3. CASE phase[c] = "succeeded"
    BY <2>3 DEF Outcome
  <2>4. CASE phase[c] \in {"rejected", "unhandled"}
    BY <2>4 DEF Outcome
  <2> QED BY <1>1, <2>2, <2>3, <2>4 DEF Settling
<1>9. AttemptsBounded'
  BY <1>1, <1>2, <1>6, <1>8 DEF LeaseInv, AttemptsBounded
<1>10. ExclusiveExecution'
  <2>1. \A d \in Seats, i \in Jobs : Holds(d, i)' => Holds(d, i)
    BY <1>4, <1>5 DEF Holds, Holding, Settling
  <2> QED BY <2>1 DEF LeaseInv, ExclusiveExecution
<1>11. CallsSound'
  <2>1. CallSound(c)'
    BY <1>5, NumbersAssumption DEF CallSound, Holding, Settling
  <2>2. ASSUME NEW d \in Seats \ {c}
        PROVE  CallSound(d)'
    <3>1. CASE phase[d] = "idle"
      BY <1>4, <2>2, <3>1 DEF LeaseInv, CallsSound, CallSound, Holding, Settling
    <3>2. CASE phase[d] # "idle" /\ task[d] = j
      BY <1>2, <1>3, <1>4, <1>6, <1>7, <2>2, <3>2
         DEF LeaseInv, CallsSound, CallSound, Holds
    <3>3. CASE phase[d] # "idle" /\ task[d] # j
      <4>1. task[d] \in Jobs \ {j}
        BY <3>3 DEF TypeOK, SeatsOK
      <4> QED BY <1>4, <1>6, <2>2, <4>1 DEF LeaseInv, CallsSound, CallSound
    <3> QED BY <3>1, <3>2, <3>3
  <2> QED BY <2>1, <2>2 DEF CallsSound
<1> QED BY <1>9, <1>10, <1>11 DEF LeaseInv

\* A claim whose answer is an error may have taken effect; the caller gives up.
LEMMA ClaimFailsKeepsLeases ==
  ASSUME TypeOK, LeaseInv, NEW c \in Seats, ClaimFails(c)
  PROVE  LeaseInv'
<1>1. \A d \in Seats \ {c} : Kept(d)
  BY DEF Kept, ClaimFails, Release, TypeOK, SeatsOK
<1>2. Vacated(c)
  BY DEF Vacated, ClaimFails, Release, TypeOK, SeatsOK
<1>3. CASE UNCHANGED rows
  BY <1>1, <1>2, <1>3, SeatsAside
<1>4. CASE phase[c] = "fetched" /\ ClaimWrite(task[c], snap[c])
  <2>1. CallSound(c)'
    BY <1>2, NumbersAssumption DEF Vacated, CallSound, Holding, Settling
  <2>2. ASSUME NEW d \in Seats \ {c}
        PROVE  CallSound(d)'
    BY <1>1, <1>4, <2>2, ClaimWriteKeepsOthers DEF Kept, LeaseInv, CallsSound, CallSound
  <2>3. \A d \in Seats, i \in Jobs : Holds(d, i)' => Holds(d, i)
    BY <1>1, <1>2 DEF Kept, Vacated, Holds, Holding, Settling
  <2>4. ExclusiveExecution'
    BY <2>3 DEF LeaseInv, ExclusiveExecution
  <2>5. AttemptsBounded'
    BY <1>4, ClaimWriteKeepsOthers
  <2> QED BY <2>1, <2>2, <2>4, <2>5 DEF LeaseInv, CallsSound
<1> QED BY <1>3, <1>4 DEF ClaimFails

\* A call that ends without its last write leaves its row to nobody.
LEMMA SettleFailsKeepsLeases ==
  ASSUME TypeOK, LeaseInv, NEW c \in Seats, SettleFails(c)
  PROVE  LeaseInv'
<1>1. \A d \in Seats : Kept(d) \/ Vacated(d)
  BY DEF Kept, Vacated, SettleFails, Release, TypeOK, SeatsOK
<1>2. UNCHANGED rows
  BY DEF SettleFails
<1> QED BY <1>1, <1>2, SeatsAside

LEMMA CrashKeepsLeases ==
  ASSUME TypeOK, LeaseInv, NEW p \in Procs, Crash(p)
  PROVE  LeaseInv'
<1>1. \A d \in Seats : Kept(d) \/ Vacated(d)
  BY DEF Kept, Vacated, Crash
<1>2. UNCHANGED rows
  BY DEF Crash
<1> QED BY <1>1, <1>2, SeatsAside

\* A batch only takes up rows that are pending when they are read, in free seats.
LEMMA FetchTakesPending ==
  ASSUME TypeOK, NEW p \in Procs, FetchBatch(p) \/ SchedulerPoll(p)
  PROVE  /\ UNCHANGED rows
         /\ \A c \in Seats : Kept(c) \/ (phase[c] = "idle" /\ TookPending(c))
<1>1. PICK T \in SUBSET Ready, free \in SUBSET Free(p) : Seat(T, free)
  <2>1. CASE FetchBatch(p)
    <3>1. PICK S \in GetNextReady(polling[p]) :
            Seat(S \ SchedulerJobs, Free(p) \cap QueueSeats)
      BY <2>1 DEF FetchBatch
    <3>2. S \ SchedulerJobs \in SUBSET Ready /\ Free(p) \cap QueueSeats \in SUBSET Free(p)
      BY ReadyRows
    <3> QED BY <3>1, <3>2
  <2>2. CASE SchedulerPoll(p)
    <3>1. PICK S \in GetNextReady(Cardinality(SchedSlots)) :
            Seat(S \cap SchedulerJobs, Free(p) \cap SchedSeats)
      BY <2>2 DEF SchedulerPoll
    <3>2. S \cap SchedulerJobs \in SUBSET Ready /\ Free(p) \cap SchedSeats \in SUBSET Free(p)
      BY ReadyRows
    <3> QED BY <3>1, <3>2
  <2> QED BY <2>1, <2>2
<1>2. T \in SUBSET Jobs /\ \A j \in T : status[j] = "pending"
  BY DEF Ready
<1>3. free \in SUBSET Seats /\ \A c \in free : phase[c] = "idle"
  BY DEF Free, SeatsOf
<1>4. \A c \in Seats : Kept(c) \/ (phase[c] = "idle" /\ TookPending(c))
  BY <1>1, <1>2, <1>3, Seating DEF TypeOK, Kept, TookPending
<1> QED
  BY <1>4 DEF FetchBatch, SchedulerPoll

LEMMA FetchKeepsLeases ==
  ASSUME TypeOK, LeaseInv, NEW p \in Procs, FetchBatch(p) \/ SchedulerPoll(p)
  PROVE  LeaseInv'
BY FetchTakesPending, SeatsAside

\* Removing rows, under the hands of their holders too.
LEMMA RemovalKeepsLeases ==
  ASSUME TypeOK, LeaseInv, ClearCompleted \/ \E j \in Jobs : DeleteJob(j)
  PROVE  LeaseInv'
<1>1. UNCHANGED seats /\ attempts' = attempts
  BY DEF ClearCompleted, DeleteJob, Admin
<1>2. \A i \in Jobs : status'[i] \in {status[i], "deleted"}
  BY DEF ClearCompleted, DeleteJob, TypeOK, RowsOK
<1>3. AttemptsBounded'
  BY <1>1, <1>2 DEF LeaseInv, AttemptsBounded
<1>4. \A c \in Seats : phase[c] # "idle" => task[c] \in Jobs
  BY DEF TypeOK, SeatsOK
<1> QED BY <1>1, <1>2, <1>3, <1>4, RowsAside

LEMMA InitLeases == Init => LeaseInv
BY NumbersAssumption
   DEF Init, LeaseInv, ExclusiveExecution, AttemptsBounded, CallsSound, CallSound,
       Holds, Holding, Settling

LEMMA NextLeases ==
  ASSUME "retry" \notin AdminOps
  PROVE  TypeOK /\ LeaseInv /\ [Next]_vars => LeaseInv'
<1> SUFFICES ASSUME TypeOK, LeaseInv, [Next]_vars
             PROVE  LeaseInv'
  OBVIOUS
<1>1. ASSUME NEW j \in Jobs, ScheduleJob(j)
      PROVE  LeaseInv'
  BY <1>1, InsertKeepsLeases DEF ScheduleJob
<1>2. ASSUME NEW j \in Jobs, NEW p \in Procs, Dispatch(p, j)
      PROVE  LeaseInv'
  BY <1>2, InsertKeepsLeases DEF Dispatch
<1>3. ASSUME UNCHANGED <<status, attempts, seats>>
      PROVE  LeaseInv'
  BY <1>3, RowsAside DEF LeaseInv, AttemptsBounded
<1>4. ASSUME NEW j \in Jobs, BecomeDue(j)
      PROVE  LeaseInv'
  BY <1>3, <1>4 DEF BecomeDue
<1>5. ASSUME NEW p \in Procs, Poll(p)
      PROVE  LeaseInv'
  BY <1>3, <1>5 DEF Poll, rows
<1>6. CASE UNCHANGED vars
  BY <1>3, <1>6 DEF vars, rows, seats
<1>7. \A j \in Jobs : ~RetryJob(j)
  BY DEF RetryJob, Admin
<1> QED
  BY <1>1, <1>2, <1>4, <1>5, <1>6, <1>7, FetchKeepsLeases, ClaimKeepsLeases,
     ClaimSelectKeepsLeases, ReturnKeepsLeases, SettleKeepsLeases, ClaimFailsKeepsLeases,
     SettleFailsKeepsLeases, CrashKeepsLeases, RemovalKeepsLeases
     DEF Next, Produce, Fetch, Execute, Fail, Manage

LEMMA LeasesHold ==
  ASSUME "retry" \notin AdminOps
  PROVE  Spec => [](TypeOK /\ LeaseInv)
<1>1. Init => TypeOK /\ LeaseInv
  BY InitType, InitLeases
<1>2. TypeOK /\ LeaseInv /\ [Next]_vars => (TypeOK /\ LeaseInv)'
  BY NextType, NextLeases
<1> QED
  BY <1>1, <1>2, PTL DEF Spec

\* As long as no admin retries a row, no two calls of any processes execute the
\* same row, with crashes, failed calls and removals at any moment and whichever
\* kind of adapter answers the claims.
THEOREM Exclusive ==
  ASSUME "retry" \notin AdminOps
  PROVE  Spec => []ExclusiveExecution
<1>1. TypeOK /\ LeaseInv => ExclusiveExecution
  BY DEF LeaseInv
<1> QED
  BY <1>1, LeasesHold, PTL

\* Under the same condition the attempt counter never passes maxAttempts, and a
\* pending row always has an attempt left.
THEOREM AttemptsStayBounded ==
  ASSUME "retry" \notin AdminOps
  PROVE  Spec => []AttemptsBounded
<1>1. TypeOK /\ LeaseInv => AttemptsBounded
  BY DEF LeaseInv
<1> QED
  BY <1>1, LeasesHold, PTL

\* Under the same condition completed and failed are final: no late write of a
\* call reopens a row, since its holder is the only one that could write it.
THEOREM TerminalStates ==
  ASSUME "retry" \notin AdminOps
  PROVE  Spec => TerminalIsFinal
<1> DEFINE Final == \A j \in Jobs : status[j] \in {"completed", "failed"} =>
                      status'[j] \in {status[j], "deleted"}
<1>1. TypeOK /\ LeaseInv /\ [Next]_vars => [Final]_vars
  <2> SUFFICES ASSUME TypeOK, LeaseInv, Next
               PROVE  Final
    OBVIOUS
  <2>1. ASSUME NEW j \in Jobs, NEW isDue \in BOOLEAN, Insert(j, isDue)
        PROVE  Final
    BY <2>1 DEF Insert, TypeOK, RowsOK
  <2>2. ASSUME status' = status
        PROVE  Final
    BY <2>2
  <2>3. ASSUME NEW j, NEW n, ClaimWrite(j, n)
        PROVE  Final
    BY <2>3 DEF ClaimWrite, TypeOK, RowsOK
  <2>4. ASSUME NEW c \in Seats, Settle(c)
        PROVE  Final
    <3>1. phase[c] \in Holding
      BY <2>4 DEF Settle, Holding
    <3>2. status[task[c]] \in {"running", "deleted"}
      BY <3>1 DEF LeaseInv, CallsSound, CallSound
    <3>3. \A i \in Jobs : i # task[c] => status'[i] = status[i]
      BY <2>4 DEF Settle, SettleWrite, TypeOK, RowsOK
    <3> QED BY <3>2, <3>3
  <2>5. ASSUME ClearCompleted \/ \E j \in Jobs : DeleteJob(j)
        PROVE  Final
    BY <2>5 DEF ClearCompleted, DeleteJob, TypeOK, RowsOK
  <2>6. ASSUME NEW c \in Seats, ClaimSelect(c) \/ HandlerReturns(c) \/ SettleFails(c)
        PROVE  Final
    BY <2>2, <2>6 DEF ClaimSelect, HandlerReturns, SettleFails, rows
  <2>7. ASSUME NEW c \in Seats, Claim(c) \/ ClaimFails(c)
        PROVE  Final
    <3>1. ClaimWrite(task[c], snap[c]) \/ status' = status
      BY <2>7 DEF Claim, ClaimFails, ClaimAtOnce, ClaimUpdate, rows
    <3> QED BY <3>1, <2>2, <2>3
  <2>8. \A j \in Jobs : ~RetryJob(j)
    BY DEF RetryJob, Admin
  <2>9. ASSUME NEW j \in Jobs, ScheduleJob(j) \/ \E p \in Procs : Dispatch(p, j)
         PROVE  Final
    BY <2>1, <2>9 DEF ScheduleJob, Dispatch
  <2>10. ASSUME NEW j \in Jobs, BecomeDue(j)
         PROVE  Final
    BY <2>2, <2>10 DEF BecomeDue
  <2>11. ASSUME NEW p \in Procs, Poll(p) \/ FetchBatch(p) \/ SchedulerPoll(p) \/ Crash(p)
         PROVE  Final
    BY <2>2, <2>11 DEF Poll, FetchBatch, SchedulerPoll, Crash, rows
  <2> QED
    BY <2>4, <2>5, <2>6, <2>7, <2>8, <2>9, <2>10, <2>11
       DEF Next, Produce, Fetch, Execute, Fail, Manage
<1> QED
  BY <1>1, LeasesHold, PTL DEF Spec, TerminalIsFinal

-----------------------------------------------------------------------------
(* The limit on executeJob calls.  It is not inductive alone: a batch is   *)
(* limited by the room there was when its query was sent, so the room a    *)
(* pending query may fill has to be counted with the calls in flight.      *)

RoomInv == \A p \in Procs : Cardinality(Busy(p)) + polling[p] <= ConcurrentMax

\* A query answers with at most as many rows as it was limited to.
LEMMA ReadyCount ==
  ASSUME NEW n \in Nat, NEW S \in GetNextReady(n)
  PROVE  IsFiniteSet(S) /\ Cardinality(S) <= n
<1>1. IsFiniteSet(S)
  BY ReadyRows, FS_Subset, JobsAssumption
<1>2. Cardinality({}) = 0
  BY FS_EmptySet
<1> QED BY <1>1, <1>2 DEF GetNextReady

\* Seating a batch occupies no more seats than the batch has rows.
LEMMA SeatingCount ==
  ASSUME NEW T, IsFiniteSet(T), NEW free \in SUBSET Seats, Seat(T, free)
  PROVE  \E X \in SUBSET free : /\ IsFiniteSet(X) /\ Cardinality(X) <= Cardinality(T)
                               /\ \A c \in Seats \ X : phase'[c] = phase[c]
<1>1. PICK f \in [T -> free] :
        phase' = [c \in Seats |-> IF \E j \in T : f[j] = c THEN "fetched" ELSE phase[c]]
  BY DEF Seat
<1> DEFINE X == {f[j] : j \in T}
<1>2. f \in Surjection(T, X)
  BY DEF Surjection
<1>3. IsFiniteSet(X) /\ Cardinality(X) <= Cardinality(T)
  BY <1>2, FS_Surjection
<1>4. X \in SUBSET free
  OBVIOUS
<1>5. \A c \in Seats \ X : phase'[c] = phase[c]
  BY <1>1
<1> QED BY <1>3, <1>4, <1>5

\* A step that occupies no further seat of process p, and lets its query ask for
\* no more than there is room for, keeps the limit.
LEMMA RoomKept ==
  ASSUME TypeOK, RoomInv, NEW p \in Procs,
         \A c \in QueueSeats : c[1] = p /\ phase[c] = "idle" => phase'[c] = "idle",
         polling'[p] \in {0, polling[p], PollLimit(p)}
  PROVE  Cardinality(Busy(p)') + polling'[p] <= ConcurrentMax
<1>1. Busy(p)' \in SUBSET Busy(p)
  BY DEF Busy
<1>2. /\ Cardinality(Busy(p)') \in Nat /\ Cardinality(Busy(p)) \in Nat
      /\ Cardinality(Busy(p)') <= Cardinality(Busy(p))
  BY <1>1, BusyFinite, FS_Subset, FS_CardinalityType
<1>3. /\ Cardinality(Busy(p)) + polling[p] <= ConcurrentMax
      /\ polling[p] \in Nat /\ ConcurrentMax \in Nat
  BY NumbersAssumption DEF RoomInv, TypeOK
<1>4. PollLimit(p) \in Nat /\ Cardinality(Busy(p)) + PollLimit(p) <= ConcurrentMax
  BY <1>2, <1>3 DEF PollLimit, Capacity
<1> QED BY <1>2, <1>3, <1>4

\* The batch of a process fits in the room its query was limited to.
LEMMA FetchKeepsRoom ==
  ASSUME TypeOK, RoomInv, NEW p \in Procs, FetchBatch(p)
  PROVE  Cardinality(Busy(p)') + polling'[p] <= ConcurrentMax
<1>1. PICK S \in GetNextReady(polling[p]) :
        Seat(S \ SchedulerJobs, Free(p) \cap QueueSeats)
  BY DEF FetchBatch
<1> DEFINE T == S \ SchedulerJobs
<1>2. polling[p] \in Nat
  BY DEF TypeOK
<1>3. IsFiniteSet(S) /\ Cardinality(S) <= polling[p]
  BY <1>2, ReadyCount
<1>4. IsFiniteSet(T) /\ Cardinality(T) <= Cardinality(S) /\ Cardinality(T) \in Nat
      /\ Cardinality(S) \in Nat
  BY <1>3, FS_Subset, FS_CardinalityType
<1>5. Free(p) \cap QueueSeats \in SUBSET Seats
  BY DEF Free, SeatsOf
<1>6. PICK X \in SUBSET (Free(p) \cap QueueSeats) :
        /\ IsFiniteSet(X) /\ Cardinality(X) <= Cardinality(T)
        /\ \A c \in Seats \ X : phase'[c] = phase[c]
  BY <1>1, <1>4, <1>5, SeatingCount
<1>7. Busy(p)' \in SUBSET (Busy(p) \cup X)
  BY <1>6 DEF Busy, Seats
<1>8. /\ IsFiniteSet(Busy(p) \cup X)
      /\ Cardinality(Busy(p) \cup X) =
           Cardinality(Busy(p)) + Cardinality(X) - Cardinality(Busy(p) \cap X)
  BY <1>6, BusyFinite, FS_Union
<1>9. IsFiniteSet(Busy(p) \cap X)
  BY <1>6, FS_Subset
<1>10. /\ Cardinality(Busy(p)') <= Cardinality(Busy(p) \cup X)
       /\ Cardinality(Busy(p)') \in Nat /\ Cardinality(Busy(p) \cup X) \in Nat
       /\ Cardinality(Busy(p) \cap X) \in Nat /\ Cardinality(X) \in Nat
  BY <1>6, <1>7, <1>8, <1>9, FS_Subset, FS_CardinalityType
<1>11. polling'[p] = 0
  BY DEF FetchBatch, TypeOK
<1>12. Cardinality(Busy(p)) + polling[p] <= ConcurrentMax /\ ConcurrentMax \in Nat
  BY NumbersAssumption DEF RoomInv
<1> QED
  BY <1>2, <1>3, <1>4, <1>6, <1>8, <1>10, <1>11, <1>12, BusyFinite

LEMMA NextRoom == TypeOK /\ RoomInv /\ [Next]_vars => RoomInv'
<1> SUFFICES ASSUME TypeOK, RoomInv, [Next]_vars, NEW p \in Procs
             PROVE  Cardinality(Busy(p)') + polling'[p] <= ConcurrentMax
  BY DEF RoomInv
<1> DEFINE NoNewCall == \A c \in QueueSeats : c[1] = p /\ phase[c] = "idle" => phase'[c] = "idle"
<1>1. ASSUME UNCHANGED <<phase, polling>>
      PROVE  Cardinality(Busy(p)') + polling'[p] <= ConcurrentMax
  BY <1>1, RoomKept
<1>2. ASSUME NEW j \in Jobs, NEW q \in Procs, Dispatch(q, j)
      PROVE  Cardinality(Busy(p)') + polling'[p] <= ConcurrentMax
  <2>1. polling'[p] \in {polling[p], PollLimit(p)}
    BY <1>2 DEF Dispatch, TypeOK
  <2> QED BY <1>2, <2>1, RoomKept DEF Dispatch, seats
<1>3. ASSUME NEW q \in Procs, Poll(q)
      PROVE  Cardinality(Busy(p)') + polling'[p] <= ConcurrentMax
  <2>1. polling'[p] \in {polling[p], PollLimit(p)}
    BY <1>3 DEF Poll, PollLimit, TypeOK
  <2> QED BY <1>3, <2>1, RoomKept DEF Poll, seats
<1>4. ASSUME NEW q \in Procs, FetchBatch(q)
      PROVE  Cardinality(Busy(p)') + polling'[p] <= ConcurrentMax
  <2>1. CASE q = p
    BY <1>4, <2>1, FetchKeepsRoom
  <2>2. CASE q # p
    <3>1. PICK S \in GetNextReady(polling[q]) :
            Seat(S \ SchedulerJobs, Free(q) \cap QueueSeats)
      BY <1>4 DEF FetchBatch
    <3>2. S \ SchedulerJobs \in SUBSET Jobs /\ Free(q) \cap QueueSeats \in SUBSET Seats
      BY ReadyRows DEF Free, SeatsOf
    <3>3. \A c \in Seats : phase'[c] = phase[c] \/ c \in Free(q)
      BY <3>1, <3>2, Seating DEF TypeOK
    <3>4. NoNewCall
      BY <2>2, <3>3 DEF Seats, Free, SeatsOf
    <3>5. polling'[p] = polling[p]
      BY <1>4, <2>2 DEF FetchBatch, TypeOK
    <3> QED BY <3>4, <3>5, RoomKept
  <2> QED BY <2>1, <2>2
<1>5. ASSUME NEW q \in Procs, SchedulerPoll(q)
      PROVE  Cardinality(Busy(p)') + polling'[p] <= ConcurrentMax
  <2>1. PICK S \in GetNextReady(Cardinality(SchedSlots)) :
          Seat(S \cap SchedulerJobs, Free(q) \cap SchedSeats)
    BY <1>5 DEF SchedulerPoll
  <2>2. S \cap SchedulerJobs \in SUBSET Jobs /\ Free(q) \cap SchedSeats \in SUBSET Seats
    BY ReadyRows DEF Free, SeatsOf
  <2>3. \A c \in Seats : phase'[c] = phase[c] \/ c \in SchedSeats
    BY <2>1, <2>2, Seating DEF TypeOK
  <2>4. NoNewCall
    BY <2>3, SlotsAssumption DEF Seats, QueueSeats, SchedSeats
  <2> QED BY <1>5, <2>4, RoomKept DEF SchedulerPoll
<1>6. ASSUME NEW c \in Seats, Claim(c) \/ ClaimSelect(c) \/ HandlerReturns(c) \/ Settle(c)
                                \/ ClaimFails(c) \/ SettleFails(c)
      PROVE  Cardinality(Busy(p)') + polling'[p] <= ConcurrentMax
  <2>1. phase[c] # "idle" /\ polling' = polling
    BY <1>6 DEF Claim, ClaimSelect, HandlerReturns, Settle, ClaimFails, SettleFails, Settling
  <2>2. \A d \in Seats \ {c} : phase'[d] = phase[d]
    BY <1>6 DEF Claim, ClaimAtOnce, ClaimUpdate, ClaimSelect, HandlerReturns, Settle,
                ClaimFails, SettleFails, Start, Advance, Release, TypeOK, SeatsOK
  <2>3. NoNewCall
    BY <2>1, <2>2 DEF Seats
  <2> QED BY <2>1, <2>3, RoomKept
<1>7. ASSUME NEW q \in Procs, Crash(q)
      PROVE  Cardinality(Busy(p)') + polling'[p] <= ConcurrentMax
  <2>1. polling'[p] \in {0, polling[p]}
    BY <1>7 DEF Crash, TypeOK
  <2>2. NoNewCall
    BY <1>7 DEF Crash, Seats
  <2> QED BY <2>1, <2>2, RoomKept
<1>8. ASSUME NEW j \in Jobs, ScheduleJob(j) \/ BecomeDue(j) \/ RetryJob(j) \/ DeleteJob(j)
      PROVE  Cardinality(Busy(p)') + polling'[p] <= ConcurrentMax
  BY <1>1, <1>8 DEF ScheduleJob, BecomeDue, RetryJob, DeleteJob, Admin, seats
<1>9. CASE ClearCompleted
  BY <1>1, <1>9 DEF ClearCompleted, Admin, seats
<1>10. CASE UNCHANGED vars
  BY <1>1, <1>10 DEF vars, rows, seats
<1> QED
  BY <1>2, <1>3, <1>4, <1>5, <1>6, <1>7, <1>8, <1>9, <1>10
     DEF Next, Produce, Fetch, Execute, Fail, Manage

\* No process ever has more executeJob calls in flight than CONCURRENT_MAX, with
\* any interleaving of polls, dispatches and slow handlers, and admin actions too.
THEOREM ConcurrencyBounded == Spec => []ConcurrencyBound
<1>1. Init => TypeOK /\ RoomInv
  <2>1. Init => \A p \in Procs : Busy(p) = {} /\ polling[p] = 0
    BY DEF Init, Busy, Seats
  <2>2. Cardinality({}) = 0
    BY FS_EmptySet
  <2> QED BY <2>1, <2>2, InitType, NumbersAssumption DEF RoomInv
<1>2. TypeOK /\ RoomInv /\ [Next]_vars => (TypeOK /\ RoomInv)'
  BY NextType, NextRoom
<1>3. TypeOK /\ RoomInv => ConcurrencyBound
  BY BusyFinite, NumbersAssumption DEF TypeOK, RoomInv, ConcurrencyBound
<1> QED
  BY <1>1, <1>2, <1>3, PTL DEF Spec

-----------------------------------------------------------------------------
(* The table and its consumers implement JobLease: each step is one of the *)
(* lease's, or none.                                                       *)

\* No row changes its stage and no call takes or gives up a row.
LEMMA LeaseStutters ==
  ASSUME \A j \in Jobs : Stage(j)' = Stage(j),
         \A j \in Jobs : \A c \in Seats : Holds(c, j)' <=> Holds(c, j)
  PROVE  UNCHANGED Lease!vars
<1>1. \A j \in Jobs : Holders(j)' = Holders(j)
  BY DEF Holders
<1> QED
  BY <1>1 DEF Lease!vars

\* A step that keeps the rows' status and in which seats only read rows or leave them.
LEMMA ReadersStutter ==
  ASSUME UNCHANGED status,
         \A c \in Seats : \/ Kept(c)
                          \/ phase[c] \notin Holding /\ phase'[c] \notin Holding
                          \/ /\ phase[c] \in Holding /\ phase'[c] \in Holding
                             /\ task'[c] = task[c]
  PROVE  UNCHANGED Lease!vars
<1>1. \A j \in Jobs : Stage(j)' = Stage(j)
  BY DEF Stage
<1>2. \A j \in Jobs : \A c \in Seats : Holds(c, j)' <=> Holds(c, j)
  BY DEF Holds, Kept
<1> QED
  BY <1>1, <1>2, LeaseStutters

\* An inserted row is submitted.
LEMMA InsertSubmits ==
  ASSUME TypeOK, NEW j \in Jobs, NEW isDue \in BOOLEAN, Insert(j, isDue), UNCHANGED seats
  PROVE  Lease!Next
<1>1. Stage(j) = "none" /\ Stage(j)' = "open"
  BY DEF Insert, Stage, TypeOK, RowsOK
<1>2. \A i \in Jobs \ {j} : Stage(i)' = Stage(i)
  BY DEF Insert, Stage, TypeOK, RowsOK
<1>3. \A i \in Jobs : Holders(i)' = Holders(i)
  BY DEF Holders, Holds, seats
<1>4. Lease!Submit(j)
  BY <1>1, <1>2, <1>3 DEF Lease!Submit
<1> QED
  BY <1>4 DEF Lease!Next

\* What a claim's update does to the stages.
LEMMA ClaimStages ==
  ASSUME TypeOK, NEW j \in Jobs, NEW n \in Nat, ClaimWrite(j, n)
  PROVE  /\ status[j] = "pending" => Stage(j) = "open" /\ Stage(j)' = "leased"
         /\ status[j] # "pending" => UNCHANGED status
         /\ \A i \in Jobs \ {j} : Stage(i)' = Stage(i)
BY DEF ClaimWrite, Stage, TypeOK, RowsOK

\* A claim that takes effect acquires the lease, noticed or not.
LEMMA ClaimAcquires ==
  ASSUME TypeOK, LeaseInv, NEW c \in Seats, Claim(c) \/ ClaimFails(c)
  PROVE  [Lease!Next]_(Lease!vars)
<1>0. /\ phase[c] \in {"fetched", "confirm"} /\ task[c] \in Jobs
      /\ snap[c] \in Nat
  BY DEF Claim, ClaimFails, TypeOK, SeatsOK
<1>1. PICK j \in Jobs : j = task[c]
  BY <1>0
<1>2. \A d \in Seats \ {c} : Kept(d)
  BY DEF Claim, ClaimFails, ClaimAtOnce, ClaimUpdate, Start, Advance, Release, Kept,
         TypeOK, SeatsOK
<1>3. ~\E i \in Jobs : Holds(c, i)
  BY <1>0 DEF Holds, Holding, Settling
<1>4. \A i \in Jobs \ {j} : ~Holds(c, i)'
  BY <1>0, <1>1 DEF Claim, ClaimFails, ClaimAtOnce, ClaimUpdate, Start, Advance, Release, Holds,
              TypeOK, SeatsOK, Holding, Settling
<1>5. \A i \in Jobs \ {j} : Holders(i)' = Holders(i)
  BY <1>2, <1>3, <1>4 DEF Holders, Holds, Kept
<1>6. ClaimWrite(j, snap[c]) \/ UNCHANGED rows
  BY <1>1 DEF Claim, ClaimFails, ClaimAtOnce, ClaimUpdate
<1>7. CASE status[j] = "pending" /\ ClaimWrite(j, snap[c])
  <2>1. /\ Stage(j) = "open" /\ Stage(j)' = "leased"
        /\ \A i \in Jobs \ {j} : Stage(i)' = Stage(i)
    BY <1>0, <1>7, ClaimStages
  <2>2. Holders(j) = {}
    BY <1>7, <1>1, NoHolder DEF LeaseInv, Holders
  <2>3. CASE phase'[c] \in Holding
    <3>1. Holders(j)' = {c}
      <4>1. task'[c] = j
        BY <1>0, <1>1, <2>3 DEF Claim, ClaimFails, ClaimAtOnce, ClaimUpdate, Start, Advance,
              Release, TypeOK, SeatsOK, Holding, Settling
      <4> QED
        BY <1>2, <2>2, <2>3, <4>1 DEF Holders, Holds, Kept
    <3>2. Lease!Acquire(j, c)
      BY <1>5, <2>1, <2>2, <3>1 DEF Lease!Acquire
    <3> QED
      BY <1>1, <3>2 DEF Lease!Next
  <2>4. CASE phase'[c] \notin Holding
    <3>1. Holders(j)' = {}
      BY <1>2, <2>2, <2>4 DEF Holders, Holds, Kept
    <3>2. Lease!AcquireUnnoticed(j)
      BY <1>5, <2>1, <2>2, <3>1 DEF Lease!AcquireUnnoticed
    <3> QED
      BY <1>1, <3>2 DEF Lease!Next
  <2> QED
    BY <2>3, <2>4
<1>8. CASE ~(status[j] = "pending" /\ ClaimWrite(j, snap[c]))
  <2>1. UNCHANGED status
    BY <1>0, <1>6, <1>8, ClaimStages DEF rows
  <2>2. phase'[c] \notin Holding
    BY <1>0, <1>1, <1>8 DEF Claim, ClaimFails, ClaimAtOnce, ClaimUpdate, Start, Advance, Release,
              TypeOK, SeatsOK, Holding, Settling
  <2>3. phase[c] \notin Holding
    BY <1>0 DEF Holding, Settling
  <2> QED
    BY <1>2, <2>1, <2>2, <2>3, ReadersStutter
<1> QED
  BY <1>7, <1>8

\* A settled row's lease ends.
LEMMA SettleEnds ==
  ASSUME TypeOK, LeaseInv, NEW c \in Seats, Settle(c)
  PROVE  Lease!Next
<1>0. phase[c] \in Holding /\ task[c] \in Jobs
  BY DEF Settle, TypeOK, SeatsOK, Holding, Settling
<1>1. PICK j \in Jobs : j = task[c]
  BY <1>0
<1>2. Holders(j) = {c}
  BY <1>0, <1>1 DEF LeaseInv, ExclusiveExecution, Holders, Holds
<1>3. \A d \in Seats \ {c} : Kept(d)
  BY DEF Settle, Release, Kept, TypeOK, SeatsOK
<1>4. phase'[c] = "idle"
  BY DEF Settle, Release, TypeOK, SeatsOK
<1>5. Holders(j)' = {} /\ \A i \in Jobs \ {j} : Holders(i)' = Holders(i)
  BY <1>2, <1>3, <1>4 DEF Holders, Holds, Kept, Holding, Settling
<1>6. status[j] \in {"running", "deleted"}
  BY <1>0, <1>1 DEF LeaseInv, CallsSound, CallSound
<1>7. Outcome(c) \in {"pending", "completed", "failed"}
  BY Outcomes DEF Settle
<1>8. \A i \in Jobs \ {j} : Stage(i)' = Stage(i)
  BY <1>1 DEF Settle, SettleWrite, Stage, TypeOK, RowsOK
<1>9. \/ Stage(j) = "leased" /\ Stage(j)' \in {"open", "closed"}
      \/ Stage(j) = "gone" /\ Stage(j)' = "gone"
  <2>1. CASE status[j] = "running"
    <3>1. status'[j] = Outcome(c)
      BY <1>1, <2>1 DEF Settle, SettleWrite, Exists, TypeOK, RowsOK
    <3> QED
      BY <1>7, <2>1, <3>1 DEF Stage
  <2>2. CASE status[j] = "deleted"
    <3>1. status'[j] = "deleted"
      BY <1>1, <2>2 DEF Settle, SettleWrite, Exists, TypeOK, RowsOK
    <3> QED
      BY <2>2, <3>1 DEF Stage
  <2> QED
    BY <1>6, <2>1, <2>2
<1>10. Lease!End(j, c)
  <2>1. [i \in Jobs |-> Holders(i)'] = [[i \in Jobs |-> Holders(i)] EXCEPT ![j] = {}]
    BY <1>1, <1>5
  <2>2. CASE Stage(j) = "leased"
    <3>1. PICK s \in {"open", "closed"} : Stage(j)' = s
      BY <1>9, <2>2
    <3>2. [i \in Jobs |-> Stage(i)'] = [[i \in Jobs |-> Stage(i)] EXCEPT ![j] = s]
      BY <1>1, <1>8, <3>1
    <3> QED
      BY <1>1, <1>2, <2>1, <2>2, <3>2 DEF Lease!End
  <2>3. CASE Stage(j) = "gone" /\ Stage(j)' = "gone"
    <3>1. [i \in Jobs |-> Stage(i)'] = [i \in Jobs |-> Stage(i)]
      BY <1>8, <2>3
    <3> QED
      BY <1>1, <1>2, <2>1, <2>3, <3>1 DEF Lease!End
  <2> QED
    BY <1>9, <2>2, <2>3
<1> QED
  BY <1>1, <1>10 DEF Lease!Next

\* A call that is lost, alone or with its process, vanishes.
LEMMA LostVanishes ==
  ASSUME TypeOK, UNCHANGED rows, NEW W \in SUBSET Seats,
         \A c \in W : phase'[c] = "idle", \A c \in Seats \ W : Kept(c)
  PROVE  Lease!Next
<1>1. \A j \in Jobs : Stage(j)' = Stage(j)
  BY DEF Stage, rows
<1>2. \A j \in Jobs : Holders(j)' = Holders(j) \ W
  BY DEF Holders, Holds, Kept, Holding, Settling
<1>3. Lease!Vanish(W)
  BY <1>1, <1>2 DEF Lease!Vanish
<1> QED
  BY <1>3 DEF Lease!Next

\* Deleted rows are removed.
LEMMA DeletionRemoves ==
  ASSUME TypeOK, ClearCompleted \/ \E j \in Jobs : DeleteJob(j)
  PROVE  Lease!Next
<1>1. PICK S \in SUBSET Jobs :
        /\ \A j \in S : Exists(j)
        /\ status' = [j \in Jobs |-> IF j \in S THEN "deleted" ELSE status[j]]
  <2>1. CASE ClearCompleted
    <3>1. Cleared \in SUBSET Jobs /\ \A j \in Cleared : Exists(j)
      BY DEF Cleared
    <3> QED
      BY <2>1, <3>1 DEF ClearCompleted
  <2>2. ASSUME NEW j \in Jobs, DeleteJob(j)
        PROVE  \E S \in SUBSET Jobs :
                 /\ \A i \in S : Exists(i)
                 /\ status' = [i \in Jobs |-> IF i \in S THEN "deleted" ELSE status[i]]
    <3>1. status' = [i \in Jobs |-> IF i \in {j} THEN "deleted" ELSE status[i]]
      BY <2>2 DEF DeleteJob, TypeOK, RowsOK
    <3> QED
      BY <2>2, <3>1 DEF DeleteJob
  <2> QED
    BY <2>1, <2>2
<1>2. \A j \in S : Stage(j) # "none" /\ Stage(j)' = "gone"
  BY <1>1 DEF Stage, Exists, TypeOK, RowsOK, Statuses
<1>3. \A j \in Jobs \ S : Stage(j)' = Stage(j)
  BY <1>1 DEF Stage
<1>4. \A j \in Jobs : Holders(j)' = Holders(j)
  BY DEF ClearCompleted, DeleteJob, Admin, seats, Holders, Holds
<1>5. Lease!Remove(S)
  BY <1>2, <1>3, <1>4 DEF Lease!Remove
<1> QED
  BY <1>5 DEF Lease!Next

\* Every step of the queue is a step of the lease, or leaves it as it is.
LEMMA NextIsLease ==
  ASSUME "retry" \notin AdminOps, TypeOK, LeaseInv, [Next]_vars
  PROVE  [Lease!Next]_(Lease!vars)
<1>1. ASSUME UNCHANGED <<status, seats>> PROVE UNCHANGED Lease!vars
  BY <1>1, ReadersStutter DEF seats, Kept
<1>2. ASSUME NEW j \in Jobs,
             ScheduleJob(j) \/ BecomeDue(j) \/ \E p \in Procs : Dispatch(p, j)
      PROVE  [Lease!Next]_(Lease!vars)
  BY <1>1, <1>2, InsertSubmits DEF ScheduleJob, BecomeDue, Dispatch
<1>3. ASSUME NEW p \in Procs, FetchBatch(p) \/ SchedulerPoll(p)
      PROVE  UNCHANGED Lease!vars
  BY <1>3, FetchTakesPending, ReadersStutter DEF rows, TookPending, Holding, Settling
<1>4. ASSUME NEW p \in Procs, Poll(p) PROVE UNCHANGED Lease!vars
  BY <1>1, <1>4 DEF Poll, rows
<1>5. ASSUME NEW c \in Seats, ClaimSelect(c) PROVE UNCHANGED Lease!vars
  <2>1. Release(c) /\ UNCHANGED status /\ phase[c] = "confirm"
    BY <1>5 DEF ClaimSelect, ReplyHasRow, LeaseInv, CallsSound, CallSound, rows
  <2>2. phase[c] \notin Holding /\ phase'[c] \notin Holding
    BY <2>1 DEF Release, TypeOK, SeatsOK, Holding, Settling
  <2>3. \A d \in Seats \ {c} : Kept(d)
    BY <2>1 DEF Release, Kept, TypeOK, SeatsOK
  <2> QED
    BY <2>1, <2>2, <2>3, ReadersStutter
<1>6. ASSUME NEW c \in Seats, HandlerReturns(c) PROVE UNCHANGED Lease!vars
  <2>1. /\ phase[c] \in Holding /\ phase'[c] \in Holding /\ task' = task
        /\ UNCHANGED status
    BY <1>6 DEF HandlerReturns, Advance, rows, TypeOK, SeatsOK, Holding, Settling
  <2>2. \A d \in Seats \ {c} : Kept(d)
    BY <1>6 DEF HandlerReturns, Advance, Kept, TypeOK, SeatsOK
  <2> QED
    BY <2>1, <2>2, ReadersStutter
<1>7. ASSUME NEW c \in Seats, SettleFails(c) PROVE Lease!Next
  <2>1. phase'[c] = "idle" /\ UNCHANGED rows /\ \A d \in Seats \ {c} : Kept(d)
    BY <1>7 DEF SettleFails, Release, Kept, TypeOK, SeatsOK
  <2>2. {c} \in SUBSET Seats /\ \A d \in {c} : phase'[d] = "idle"
    BY <2>1
  <2> QED
    BY <2>1, <2>2, LostVanishes
<1>8. ASSUME NEW p \in Procs, Crash(p) PROVE Lease!Next
  <2>1. /\ \A c \in SeatsOf(p) : phase'[c] = "idle"
        /\ \A c \in Seats \ SeatsOf(p) : Kept(c)
        /\ UNCHANGED rows /\ SeatsOf(p) \in SUBSET Seats
    BY <1>8 DEF Crash, Kept, SeatsOf
  <2> QED
    BY <2>1, LostVanishes
<1>9. \A j \in Jobs : ~RetryJob(j)
  BY DEF RetryJob, Admin
<1>10. CASE UNCHANGED vars
  <2>1. UNCHANGED <<status, seats>>
    BY <1>10 DEF vars, rows, seats
  <2> QED
    BY <1>1, <2>1
<1> QED
  BY <1>2, <1>3, <1>4, <1>5, <1>6, <1>7, <1>8, <1>9, <1>10, ClaimAcquires, SettleEnds,
     DeletionRemoves DEF Next, Produce, Fetch, Execute, Fail, Manage

\* As long as no admin retries a row, the table and its consumers implement exclusive
\* leases: a row is leased to one call, a lease ends by closing the row, by offering
\* it again or by vanishing with its call, and a closed row is never leased again.
THEOREM ImplementsLease ==
  ASSUME "retry" \notin AdminOps
  PROVE  Spec => LeaseSpec
<1>1. Init => Lease!Init
  BY DEF Init, Lease!Init, Stage, Holders, Holds, Holding, Settling
<1>2. TypeOK /\ LeaseInv /\ [Next]_vars => [Lease!Next]_(Lease!vars)
  BY NextIsLease
<1> QED
  BY <1>1, <1>2, LeasesHold, PTL DEF Spec, LeaseSpec, Lease!Spec

-----------------------------------------------------------------------------
(* Running rows have owners, where a claim is one atomic step and nothing  *)
(* fails.  A row only becomes running with its claimer seated, and that    *)
(* seat is left by the write that settles the row.                         *)

Owns(c, j) == task[c] = j /\ phase[c] \in Holding \cup {"confirm"}

OwnerInv == RunningHasOwner /\ \A c \in Seats : phase[c] # "confirm"

\* Steps after which no new row is running and all that worked on one still do.
LEMMA OwnersKept ==
  ASSUME OwnerInv,
         \A j \in Jobs : status'[j] = "running" =>
           /\ status[j] = "running"
           /\ \A c \in Seats : Owns(c, j) => Owns(c, j)',
         \A c \in Seats : phase'[c] # "confirm"
  PROVE  OwnerInv'
BY DEF OwnerInv, RunningHasOwner, Owns

LEMMA ClaimOwned ==
  ASSUME Adapter # "sql", TypeOK, OwnerInv, NEW c \in Seats, Claim(c)
  PROVE  OwnerInv'
<1>0. phase[c] = "fetched" /\ task[c] \in Jobs /\ ClaimAtOnce(c)
  BY DEF Claim, ClaimUpdate, TypeOK, SeatsOK
<1>1. PICK j \in Jobs : j = task[c]
  BY <1>0
<1>2. \A d \in Seats \ {c} : phase'[d] = phase[d] /\ task'[d] = task[d]
  BY <1>0 DEF ClaimAtOnce, Start, Advance, Release, TypeOK, SeatsOK
<1>3. \A i \in Jobs \ {j} : status'[i] = status[i]
  BY <1>0, <1>1 DEF ClaimAtOnce, ClaimWrite, TypeOK, RowsOK
<1>4. \A d \in Seats : phase'[d] # "confirm"
  BY <1>0, <1>2 DEF OwnerInv, ClaimAtOnce, Start, Advance, Release, TypeOK, SeatsOK
<1>5. \A d \in Seats : \A i \in Jobs : Owns(d, i) => d # c /\ Owns(d, i)'
  BY <1>0, <1>2 DEF Owns, Holding, Settling
<1>6. CASE status[j] = "pending"
  <2>1. Owns(c, j)'
    BY <1>0, <1>1, <1>6 DEF ClaimAtOnce, Start, Advance, Owns, TypeOK, SeatsOK,
                            Holding, Settling
  <2> QED
    BY <1>3, <1>4, <1>5, <2>1 DEF OwnerInv, RunningHasOwner, Owns
<1>7. CASE status[j] # "pending"
  <2>1. UNCHANGED status
    BY <1>0, <1>1, <1>7 DEF ClaimAtOnce, ClaimWrite, TypeOK, RowsOK
  <2> QED
    BY <1>4, <1>5, <2>1, OwnersKept
<1> QED
  BY <1>6, <1>7

LEMMA SettleOwned ==
  ASSUME TypeOK, OwnerInv, NEW c \in Seats, Settle(c)
  PROVE  OwnerInv'
<1>1. task[c] \in Jobs /\ phase'[c] = "idle"
  BY DEF Settle, Release, TypeOK, SeatsOK, Settling
<1>2. \A d \in Seats \ {c} : phase'[d] = phase[d] /\ task'[d] = task[d]
  BY DEF Settle, Release, TypeOK, SeatsOK
<1>3. \A i \in Jobs \ {task[c]} : status'[i] = status[i]
  BY DEF Settle, SettleWrite, TypeOK, RowsOK
<1>4. status'[task[c]] # "running"
  <2>1. Outcome(c) \in {"pending", "completed", "failed"}
    BY Outcomes DEF Settle
  <2> QED
    BY <1>1, <2>1 DEF Settle, SettleWrite, Exists, TypeOK, RowsOK
<1>5. \A i \in Jobs : status'[i] = "running" =>
        /\ status[i] = "running"
        /\ \A d \in Seats : Owns(d, i) => Owns(d, i)'
  BY <1>2, <1>3, <1>4 DEF Owns
<1>6. \A d \in Seats : phase'[d] # "confirm"
  BY <1>1, <1>2 DEF OwnerInv
<1> QED
  BY <1>5, <1>6, OwnersKept

LEMMA NextOwned ==
  ASSUME Adapter # "sql", MaxFaults = 0, TypeOK, OwnerInv, [Next]_vars
  PROVE  OwnerInv'
<1>1. ASSUME \A j \in Jobs : status'[j] = "running" => status[j] = "running",
             UNCHANGED seats
      PROVE  OwnerInv'
  BY <1>1, OwnersKept DEF seats, Owns, OwnerInv
<1>2. ASSUME NEW j \in Jobs,
             \/ ScheduleJob(j) \/ BecomeDue(j) \/ RetryJob(j) \/ DeleteJob(j)
             \/ \E p \in Procs : Dispatch(p, j)
      PROVE  OwnerInv'
  BY <1>1, <1>2 DEF ScheduleJob, BecomeDue, RetryJob, DeleteJob, Dispatch, Insert, Admin,
                    TypeOK, RowsOK
<1>3. CASE ClearCompleted
  BY <1>1, <1>3 DEF ClearCompleted, Admin
<1>4. ASSUME NEW p \in Procs, Poll(p) PROVE OwnerInv'
  BY <1>1, <1>4 DEF Poll, rows
<1>5. ASSUME NEW p \in Procs, FetchBatch(p) \/ SchedulerPoll(p) PROVE OwnerInv'
  <2>1. /\ UNCHANGED rows
        /\ \A c \in Seats : Kept(c) \/ (phase[c] = "idle" /\ TookPending(c))
    BY <1>5, FetchTakesPending
  <2>2. \A c \in Seats : \A j \in Jobs : Owns(c, j) => Owns(c, j)'
    BY <2>1 DEF Owns, Kept, Holding, Settling
  <2>3. \A c \in Seats : phase'[c] # "confirm"
    BY <2>1 DEF OwnerInv, Kept, TookPending
  <2> QED
    BY <2>1, <2>2, <2>3, OwnersKept DEF rows
<1>6. ASSUME NEW c \in Seats, HandlerReturns(c) PROVE OwnerInv'
  <2>1. /\ UNCHANGED <<status, task>> /\ phase'[c] \in Holding
        /\ \A d \in Seats \ {c} : phase'[d] = phase[d]
    BY <1>6 DEF HandlerReturns, Advance, rows, TypeOK, SeatsOK, Holding, Settling
  <2>2. \A d \in Seats : \A j \in Jobs : Owns(d, j) => Owns(d, j)'
    BY <2>1 DEF Owns
  <2>3. \A d \in Seats : phase'[d] # "confirm"
    BY <2>1 DEF OwnerInv, Holding, Settling
  <2> QED
    BY <2>1, <2>2, <2>3, OwnersKept
<1>7. \A c \in Seats : ~ClaimSelect(c)
  BY DEF ClaimSelect, OwnerInv
<1>8. ~Fail
  BY DEF Fail, ClaimFails, SettleFails, Crash, TypeOK
<1>9. CASE UNCHANGED vars
  BY <1>1, <1>9 DEF vars, rows, seats
<1> QED
  BY <1>2, <1>3, <1>4, <1>5, <1>6, <1>7, <1>8, <1>9, ClaimOwned, SettleOwned
     DEF Next, Produce, Fetch, Execute, Manage

\* Where the claim is atomic and nothing fails, a row marked running is being worked
\* on, also while admins retry and delete rows: none is left running for nobody.
THEOREM RunningRowsOwned ==
  ASSUME Adapter # "sql", MaxFaults = 0
  PROVE  Spec => []RunningHasOwner
<1>1. Init => OwnerInv
  BY DEF Init, OwnerInv, RunningHasOwner
<1>2. TypeOK /\ OwnerInv /\ [Next]_vars => OwnerInv'
  BY NextOwned
<1>3. OwnerInv => RunningHasOwner
  BY DEF OwnerInv
<1> QED
  BY <1>1, <1>2, <1>3, TypeCorrect, PTL DEF Spec

-----------------------------------------------------------------------------
(* On SQL the SELECT that follows a claim's UPDATE asks for a pending row, *)
(* and the UPDATE has just left none.                                      *)

NoStart ==
  \A c \in Seats :
    /\ phase[c] # "idle" => status[task[c]] # "absent"
    /\ phase[c] \in Holding => task[c] \in reopened
    /\ phase[c] = "confirm" /\ task[c] \notin reopened => status[task[c]] # "pending"

\* Rows are written, but none in use is inserted or, unless an admin retries it,
\* offered again.
LEMMA NoStartRows ==
  ASSUME NoStart, TypeOK, UNCHANGED seats, reopened \subseteq reopened',
         \A j \in Jobs : status[j] # "absent" =>
           /\ status'[j] # "absent"
           /\ status'[j] = "pending" =>
                \/ status[j] = "pending"
                \/ \A c \in Seats : task[c] = j /\ phase[c] = "confirm" => j \in reopened'
  PROVE  NoStart'
<1>1. ASSUME NEW c \in Seats, phase[c] # "idle"
      PROVE  /\ status'[task[c]] # "absent"
             /\ phase[c] \in Holding => task[c] \in reopened'
             /\ phase[c] = "confirm" /\ task[c] \notin reopened' => status'[task[c]] # "pending"
  <2>1. task[c] \in Jobs /\ status[task[c]] # "absent"
    BY <1>1 DEF NoStart, TypeOK, SeatsOK
  <2> QED
    BY <1>1, <2>1 DEF NoStart
<1> QED
  BY <1>1 DEF NoStart, Holding, Settling, seats

\* Seats are taken up, worked in or left, and no row is written.
LEMMA NoStartSeats ==
  ASSUME NoStart, UNCHANGED <<status, reopened>>,
         \A c \in Seats : Kept(c) \/ phase'[c] = "idle" \/ TookPending(c)
  PROVE  NoStart'
BY DEF NoStart, Kept, TookPending, Holding, Settling

LEMMA NoStartClaim ==
  ASSUME Adapter = "sql", TypeOK, NoStart, NEW c \in Seats, Claim(c) \/ ClaimFails(c)
  PROVE  NoStart'
<1>1. /\ phase[c] \in {"fetched", "confirm"} /\ task[c] \in Jobs /\ UNCHANGED reopened
  BY DEF Claim, ClaimFails, TypeOK, SeatsOK
<1>2. ClaimWrite(task[c], snap[c]) \/ UNCHANGED rows
  BY DEF Claim, ClaimFails, ClaimAtOnce, ClaimUpdate
<1>3. \A j \in Jobs : /\ status'[j] = "pending" => status[j] = "pending"
                      /\ status'[j] = "absent" => status[j] = "absent"
  BY <1>1, <1>2 DEF ClaimWrite, rows, TypeOK, RowsOK
<1>4. \A d \in Seats \ {c} : Kept(d)
  BY DEF Claim, ClaimFails, ClaimAtOnce, ClaimUpdate, Start, Advance, Release, Kept,
         TypeOK, SeatsOK
<1>5. \/ phase'[c] = "idle"
      \/ phase'[c] = "confirm" /\ task'[c] = task[c] /\ status'[task[c]] # "pending"
  <2>1. CASE ClaimFails(c)
    BY <2>1 DEF ClaimFails, Release, TypeOK, SeatsOK
  <2>2. CASE Claim(c)
    BY <1>1, <2>2 DEF Claim, ClaimAtOnce, ClaimUpdate, ClaimWrite, Advance, TypeOK, SeatsOK,
                      RowsOK
  <2> QED
    BY <2>1, <2>2
<1>6. ASSUME NEW d \in Seats
      PROVE  /\ phase'[d] # "idle" => status'[task'[d]] # "absent"
             /\ phase'[d] \in Holding => task'[d] \in reopened'
             /\ phase'[d] = "confirm" /\ task'[d] \notin reopened'
                  => status'[task'[d]] # "pending"
  <2>1. CASE d = c
    <3>1. status[task[c]] # "absent"
      BY <1>1, <1>6 DEF NoStart
    <3> QED
      BY <1>1, <1>3, <1>5, <2>1, <3>1 DEF Holding, Settling
  <2>2. CASE d # c
    <3>1. Kept(d) /\ (phase[d] # "idle" => task[d] \in Jobs)
      BY <1>4, <2>2 DEF TypeOK, SeatsOK
    <3> QED
      BY <1>1, <1>3, <3>1 DEF NoStart, Kept, Holding, Settling
  <2> QED
    BY <2>1, <2>2
<1> QED
  BY <1>1, <1>6 DEF NoStart

LEMMA NextNoStart ==
  ASSUME Adapter = "sql", TypeOK, NoStart, [Next]_vars
  PROVE  NoStart'
<1>1. ASSUME UNCHANGED <<status, seats, reopened>> PROVE NoStart'
  BY <1>1 DEF NoStart, seats
<1>2. ASSUME NEW j \in Jobs, ScheduleJob(j) \/ \E p \in Procs : Dispatch(p, j)
      PROVE  NoStart'
  BY <1>2, NoStartRows DEF ScheduleJob, Dispatch, Insert, TypeOK, RowsOK
<1>3. ASSUME NEW j \in Jobs, BecomeDue(j) PROVE NoStart'
  BY <1>1, <1>3 DEF BecomeDue
<1>4. ASSUME NEW p \in Procs, Poll(p) PROVE NoStart'
  BY <1>1, <1>4 DEF Poll, rows
<1>5. ASSUME NEW p \in Procs, FetchBatch(p) \/ SchedulerPoll(p) PROVE NoStart'
  <2>1. UNCHANGED <<status, reopened>>
    BY <1>5 DEF FetchBatch, SchedulerPoll, rows
  <2> QED
    BY <1>5, <2>1, FetchTakesPending, NoStartSeats
<1>6. ASSUME NEW c \in Seats, HandlerReturns(c) PROVE NoStart'
  <2>1. PICK ph \in Settling : Advance(c, ph)
    BY <1>6 DEF HandlerReturns, Settling
  <2>2. phase[c] = "running" /\ UNCHANGED <<status, reopened>>
    BY <1>6 DEF HandlerReturns, rows
  <2> QED
    BY <2>1, <2>2 DEF Advance, NoStart, TypeOK, SeatsOK, Holding, Settling
<1>7. ASSUME NEW c \in Seats, Settle(c) \/ SettleFails(c) PROVE NoStart'
  <2>1. Release(c) /\ UNCHANGED reopened /\ phase[c] \in Holding
    BY <1>7 DEF Settle, SettleFails, Holding
  <2>2. \A d \in Seats : Kept(d) \/ phase'[d] = "idle"
    BY <2>1 DEF Release, Kept, TypeOK, SeatsOK
  <2>3. task[c] \in Jobs /\ task[c] \in reopened
    BY <2>1 DEF NoStart, TypeOK, SeatsOK, Holding, Settling
  <2>4. \A j \in Jobs : /\ j # task[c] => status'[j] = status[j]
                        /\ status[j] # "absent" => status'[j] # "absent"
    BY <1>7 DEF Settle, SettleFails, SettleWrite, Outcome, Exists, Settling, rows, TypeOK, RowsOK
  <2>5. ASSUME NEW d \in Seats, Kept(d), phase[d] # "idle"
        PROVE  /\ status'[task[d]] # "absent"
               /\ phase[d] = "confirm" /\ task[d] \notin reopened => status'[task[d]] # "pending"
    <3>1. task[d] \in Jobs /\ status[task[d]] # "absent"
      BY <2>5 DEF NoStart, TypeOK, SeatsOK
    <3>2. task[d] \notin reopened => task[d] # task[c]
      BY <2>3
    <3> QED
      BY <2>4, <3>1, <3>2 DEF NoStart
  <2> QED
    BY <2>1, <2>2, <2>5 DEF NoStart, Kept, Holding, Settling
<1>8. ASSUME NEW c \in Seats, ClaimSelect(c) PROVE NoStart'
  <2>1. UNCHANGED <<status, reopened>> /\ phase[c] = "confirm"
    BY <1>8 DEF ClaimSelect, rows
  <2>2. CASE ReplyHasRow(c)
    <3>1. task[c] \in reopened
      BY <2>1, <2>2 DEF ReplyHasRow, NoStart
    <3>2. Start(c)
      BY <1>8, <2>2 DEF ClaimSelect
    <3> QED
      BY <2>1, <3>1, <3>2 DEF Start, Advance, NoStart, TypeOK, SeatsOK, Holding, Settling
  <2>3. CASE ~ReplyHasRow(c)
    <3>1. Release(c)
      BY <1>8, <2>3 DEF ClaimSelect
    <3>2. \A d \in Seats : Kept(d) \/ phase'[d] = "idle"
      BY <3>1 DEF Release, Kept, TypeOK, SeatsOK
    <3> QED
      BY <2>1, <3>2, NoStartSeats
  <2> QED
    BY <2>2, <2>3
<1>9. ASSUME NEW p \in Procs, Crash(p) PROVE NoStart'
  <2>1. UNCHANGED <<status, reopened>> /\ \A d \in Seats : Kept(d) \/ phase'[d] = "idle"
    BY <1>9 DEF Crash, rows, Kept
  <2> QED
    BY <2>1, NoStartSeats
<1>10. CASE Manage
  <2>1. UNCHANGED seats
    BY <1>10 DEF Manage, ClearCompleted, RetryJob, DeleteJob, Admin
  <2>2. CASE ClearCompleted \/ \E j \in Jobs : DeleteJob(j)
    BY <2>1, <2>2, NoStartRows DEF ClearCompleted, DeleteJob, Cleared, Exists, TypeOK, RowsOK
  <2>3. ASSUME NEW j \in Jobs, RetryJob(j) PROVE NoStart'
    <3>1. /\ reopened \subseteq reopened'
          /\ \A c \in Seats : task[c] = j /\ phase[c] = "confirm" => j \in reopened'
      BY <2>3 DEF RetryJob
    <3>2. /\ status'[j] = "pending"
          /\ \A i \in Jobs \ {j} : status'[i] = status[i]
      BY <2>3 DEF RetryJob, TypeOK, RowsOK
    <3> QED
      BY <2>1, <3>1, <3>2, NoStartRows
  <2> QED
    BY <1>10, <2>2, <2>3 DEF Manage
<1>11. CASE UNCHANGED vars
  BY <1>1, <1>11 DEF vars, rows
<1> QED
  BY <1>2, <1>3, <1>4, <1>5, <1>6, <1>7, <1>8, <1>9, <1>10, <1>11, NoStartClaim
     DEF Next, Produce, Fetch, Execute, Fail

\* On SQL, however many processes share the table and whatever fails or is deleted,
\* no call ever starts a job but one that an admin retried between the UPDATE and
\* the SELECT of a claim.
THEOREM SqlStartsNothing == Spec => []StartsOnlyAfterRetry
<1>1. CASE Adapter = "sql"
  <2>1. Init => NoStart
    BY DEF Init, NoStart, Holding, Settling
  <2>2. TypeOK /\ NoStart /\ [Next]_vars => NoStart'
    BY <1>1, NextNoStart
  <2>3. TypeOK /\ NoStart => StartsOnlyAfterRetry
    BY DEF TypeOK, NoStart, StartsOnlyAfterRetry
  <2> QED
    BY <2>1, <2>2, <2>3, TypeCorrect, PTL DEF Spec
<1>2. CASE Adapter # "sql"
  <2>1. StartsOnlyAfterRetry
    BY <1>2 DEF StartsOnlyAfterRetry
  <2> QED
    BY <2>1, PTL
<1> QED
  BY <1>1, <1>2
=============================================================================
