------------------------------ MODULE JobQueue ------------------------------
(***************************************************************************)
(* The svelty_jobs table and everything that reads or writes it: the       *)
(* JobQueueService worker and the scheduler of every server process, the   *)
(* producers that insert rows, the queue page's admin actions, and the     *)
(* two families of database adapter whose conditional update the consumers *)
(* use as an atomic claim.                                                 *)
(*                                                                         *)
(* A seat is one in-flight executeJob / executeScheduledJob call: queue    *)
(* seats run concurrently, the scheduler's seats hold the batch its loop   *)
(* works through one by one.  An operator that precedes the one it is named *)
(* after is a broken variant of it, used to show that a property can fail. *)
(***************************************************************************)
EXTENDS Naturals, FiniteSets

CONSTANTS Procs,          \* server processes sharing one database
          Jobs,           \* row ids that can ever be inserted
          QueueSlots,     \* executeJob calls one process can have in flight
          SchedSlots,     \* size of a scheduler batch: getNextReady(10)
          SchedulerJobs,  \* rows whose taskType is "status-transition"
          UnhandledJobs,  \* rows whose taskType has no registered handler
          ConcurrentMax,  \* CONCURRENT_MAX
          MaxAttempts,    \* maxAttempts of every row, 3 in the code
          Adapter,        \* "contract", "sql" or "mongo": see GetNextReady and Claim
          AdminOps,       \* admin actions taken: subset of {"retry", "delete", "clear"}
          MaxAdmin,       \* bound: how many admin actions
          MaxFaults,      \* bound: how many crashes and failed database calls
          NoJob

ASSUME JobsAssumption ==
  /\ IsFiniteSet(Jobs)
  /\ SchedulerJobs \subseteq Jobs
  /\ UnhandledJobs \subseteq Jobs \ SchedulerJobs
  /\ NoJob \notin Jobs

ASSUME NumbersAssumption ==
  /\ ConcurrentMax \in Nat \ {0}
  /\ MaxAttempts \in Nat \ {0}
  /\ MaxAdmin \in Nat
  /\ MaxFaults \in Nat

ASSUME SlotsAssumption ==
  /\ IsFiniteSet(QueueSlots)
  /\ QueueSlots \cap SchedSlots = {}

ASSUME ModesAssumption ==
  /\ Adapter \in {"contract", "sql", "mongo"}
  /\ AdminOps \subseteq {"retry", "delete", "clear"}

VARIABLES status,    \* status[j]: column status; "absent" before insertion
          attempts,  \* attempts[j]: column attempts
          due,       \* due[j]: nextRunAt <= now
          polling,   \* polling[p]: 0, or isProcessing with the limit it asked for
          phase,     \* phase[c]: where the call in seat c stands
          task,      \* task[c]: job._id of that call
          snap,      \* snap[c]: job.attempts as read by getNextReady
          admins,    \* admin actions so far
          reopened,  \* history: rows retried in the middle of a claim of theirs
          faults     \* crashes and failed calls so far

rows  == <<status, attempts, due>>
seats == <<phase, task, snap>>
managed == <<admins, reopened>>
vars  == <<rows, polling, seats, managed, faults>>

Statuses == {"absent", "pending", "running", "completed", "failed", "deleted"}
Settling == {"succeeded", "threw", "rejected", "unhandled"}
Holding  == {"running"} \cup Settling
Phases   == {"idle", "fetched", "confirm"} \cup Holding

QueueSeats == Procs \X QueueSlots
SchedSeats == Procs \X SchedSlots
Seats      == QueueSeats \cup SchedSeats

SeatsOf(p) == {c \in Seats : c[1] = p}
Busy(p)    == {c \in QueueSeats : c[1] = p /\ phase[c] # "idle"}
Free(p)    == {c \in SeatsOf(p) : phase[c] = "idle"}

\* Seat c is executing row j: its claim succeeded and its last write is to come.
Holds(c, j) == phase[c] \in Holding /\ task[c] = j
Holders(j)  == {c \in Seats : Holds(c, j)}

Exists(j)  == status[j] \notin {"absent", "deleted"}
Ready      == {j \in Jobs : status[j] = "pending" /\ due[j]}

\* At most n of the ready rows; all of them when they fit.  On MongoDB nextRunAt
\* is stored as a BSON date (insertOne, no cast) and compared with an ISO string:
\* values of two types never compare, so the query matches nothing.
GetNextReady(n) ==
  IF Adapter = "mongo" THEN {{}}
  ELSE {S \in SUBSET Ready : \/ S = Ready /\ Cardinality(S) <= n
                             \/ Cardinality(S) = n}

Init ==
  /\ status = [j \in Jobs |-> "absent"]
  /\ attempts = [j \in Jobs |-> 0]
  /\ due = [j \in Jobs |-> FALSE]
  /\ polling = [p \in Procs |-> 0]
  /\ phase = [c \in Seats |-> "idle"]
  /\ task = [c \in Seats |-> NoJob]
  /\ snap = [c \in Seats |-> 0]
  /\ admins = 0 /\ reopened = {}
  /\ faults = 0

-----------------------------------------------------------------------------
(* Producers.                                                              *)

CapacityIgnoringRunning(p) == ConcurrentMax

CapacityKeptBack(p) == IF Cardinality(Busy(p)) + 1 >= ConcurrentMax
                       THEN 0 ELSE ConcurrentMax - Cardinality(Busy(p))

Capacity(p) == IF Cardinality(Busy(p)) >= ConcurrentMax
               THEN 0 ELSE ConcurrentMax - Cardinality(Busy(p))

\* processNextBatch up to its await: refused while isProcessing or when full.
PollLimitTwice(p) == polling[p] + Capacity(p)

PollLimit(p) == IF polling[p] # 0 THEN polling[p] ELSE Capacity(p)

Insert(j, isDue) ==
  /\ status[j] = "absent"
  /\ status' = [status EXCEPT ![j] = "pending"]
  /\ attempts' = [attempts EXCEPT ![j] = 0]
  /\ due' = [due EXCEPT ![j] = isDue]

\* dispatch: a row that is due at once, then an immediate processNextBatch.
Dispatch(p, j) ==
  /\ Insert(j, TRUE)
  /\ polling' = [polling EXCEPT ![p] = PollLimit(p)]
  /\ UNCHANGED <<seats, managed, faults>>

\* scheduleJob and POST /api/system-jobs: runAt may be in the future.
ScheduleJob(j) ==
  /\ \E isDue \in BOOLEAN : Insert(j, isDue)
  /\ UNCHANGED <<polling, seats, managed, faults>>

\* Time passes nextRunAt.
BecomeDue(j) ==
  /\ status[j] = "pending" /\ ~due[j]
  /\ due' = [due EXCEPT ![j] = TRUE]
  /\ UNCHANGED <<status, attempts, polling, seats, managed, faults>>

-----------------------------------------------------------------------------
(* Fetching a batch.                                                       *)

Poll(p) ==
  /\ polling[p] = 0 /\ Capacity(p) > 0
  /\ polling' = [polling EXCEPT ![p] = Capacity(p)]
  /\ UNCHANGED <<rows, seats, managed, faults>>

\* Seat the jobs of T, each with the attempts value its row holds now.
Seat(T, free) ==
  \E f \in [T -> free] :
    /\ \A i, j \in T : f[i] = f[j] => i = j
    /\ phase' = [c \in Seats |-> IF \E j \in T : f[j] = c THEN "fetched" ELSE phase[c]]
    /\ task' = [c \in Seats |-> IF \E j \in T : f[j] = c
                                THEN CHOOSE j \in T : f[j] = c ELSE task[c]]
    /\ snap' = [c \in Seats |-> IF \E j \in T : f[j] = c
                                THEN attempts[CHOOSE j \in T : f[j] = c] ELSE snap[c]]

\* The rows arrive: every one but a status-transition gets an unawaited executeJob.
FetchBatch(p) ==
  /\ polling[p] # 0
  /\ polling' = [polling EXCEPT ![p] = 0]
  /\ \E S \in GetNextReady(polling[p]) :
       Seat(S \ SchedulerJobs, Free(p) \cap QueueSeats)
  /\ UNCHANGED <<rows, managed, faults>>

\* pollAndProcess: the loop re-arms only after the batch before has been worked off.
SchedulerPoll(p) ==
  /\ SeatsOf(p) \cap SchedSeats \subseteq Free(p)
  /\ \E S \in GetNextReady(Cardinality(SchedSlots)) :
       /\ S \cap SchedulerJobs # {}
       /\ Seat(S \cap SchedulerJobs, Free(p) \cap SchedSeats)
  /\ UNCHANGED <<rows, polling, managed, faults>>

-----------------------------------------------------------------------------
(* executeJob and executeScheduledJob.                                     *)

\* The scheduler awaits each job of its batch before it claims the next.
MayProceed(c) ==
  c \in SchedSeats =>
    \A d \in SchedSeats \ {c} : d[1] = c[1] => phase[d] \in {"idle", "fetched"}

Release(c) ==
  /\ phase' = [phase EXCEPT ![c] = "idle"]
  /\ task' = [task EXCEPT ![c] = NoJob]
  /\ snap' = [snap EXCEPT ![c] = 0]

Advance(c, ph) ==
  /\ phase' = [phase EXCEPT ![c] = ph]
  /\ UNCHANGED <<task, snap>>

\* The claim was reported successful: the handler is called, if there is one.
Start(c) ==
  Advance(c, IF task[c] \in UnhandledJobs THEN "unhandled" ELSE "running")

ClaimWriteUnfiltered(j, n) ==
  /\ status' = [status EXCEPT ![j] = IF Exists(j) THEN "running" ELSE @]
  /\ attempts' = [attempts EXCEPT ![j] = n + 1]
  /\ UNCHANGED due

\* UPDATE ... SET running, attempts = snapshot + 1 WHERE _id AND status = pending.
ClaimWrite(j, n) ==
  /\ status' = [status EXCEPT ![j] = IF @ = "pending" THEN "running" ELSE @]
  /\ attempts' = [attempts EXCEPT ![j] = IF status[j] = "pending" THEN n + 1 ELSE @]
  /\ UNCHANGED due

ClaimAtOnceBlind(c) ==
  /\ Adapter # "sql"
  /\ ClaimWrite(task[c], snap[c])
  /\ Start(c)

ClaimAtOnceReread(c) ==
  /\ Adapter # "sql"
  /\ ClaimWrite(task[c], snap[c])
  /\ IF status'[task[c]] = "pending" THEN Start(c) ELSE Release(c)

\* One atomic step that answers with the row it changed, or with none: what the
\* consumers expect of every adapter, and what findOneAndUpdate does.
ClaimAtOnce(c) ==
  /\ Adapter # "sql"
  /\ ClaimWrite(task[c], snap[c])
  /\ IF status[task[c]] = "pending" THEN Start(c) ELSE Release(c)

\* SQL: the UPDATE, and then a SELECT of its own under the same conditions.
ClaimUpdate(c) ==
  /\ Adapter = "sql"
  /\ ClaimWrite(task[c], snap[c])
  /\ Advance(c, "confirm")

Claim(c) ==
  /\ phase[c] = "fetched" /\ MayProceed(c)
  /\ ClaimAtOnce(c) \/ ClaimUpdate(c)
  /\ UNCHANGED <<polling, managed, faults>>

ReplyHasAnyRow(c) == Exists(task[c])

ReplyHasRow(c) == status[task[c]] = "pending"

ClaimSelect(c) ==
  /\ phase[c] = "confirm"
  /\ IF ReplyHasRow(c) THEN Start(c) ELSE Release(c)
  /\ UNCHANGED <<rows, polling, managed, faults>>

\* The call answers success: false, whether or not the UPDATE took effect; or the
\* handler's module fails to load before the claim.
ClaimFails(c) ==
  /\ phase[c] \in {"fetched", "confirm"} /\ MayProceed(c)
  /\ faults < MaxFaults
  /\ faults' = faults + 1
  /\ \/ phase[c] = "fetched" /\ ClaimWrite(task[c], snap[c])
     \/ UNCHANGED rows
  /\ Release(c)
  /\ UNCHANGED <<polling, managed>>

\* The handler resolves, throws, or throws PERMANENT_FAILURE (honoured by the queue only).
HandlerReturns(c) ==
  /\ phase[c] = "running"
  /\ \/ Advance(c, "succeeded")
     \/ Advance(c, "threw")
     \/ c \in QueueSeats /\ Advance(c, "rejected")
  /\ UNCHANGED <<rows, polling, managed, faults>>

OutcomeOneMore(c) ==
  CASE phase[c] = "succeeded" -> "completed"
    [] phase[c] \in {"rejected", "unhandled"} -> "failed"
    [] phase[c] = "threw" -> IF snap[c] + 1 > MaxAttempts THEN "failed" ELSE "pending"

Outcome(c) ==
  CASE phase[c] = "succeeded" -> "completed"
    [] phase[c] \in {"rejected", "unhandled"} -> "failed"
    [] phase[c] = "threw" -> IF snap[c] + 1 >= MaxAttempts THEN "failed" ELSE "pending"

\* The last write of a call goes by _id alone; a retry moves nextRunAt into the future.
SettleWrite(j, outcome) ==
  /\ status' = [status EXCEPT ![j] = IF Exists(j) THEN outcome ELSE @]
  /\ due' = [due EXCEPT ![j] = IF Exists(j) /\ outcome = "pending" THEN FALSE ELSE @]
  /\ UNCHANGED attempts

Settle(c) ==
  /\ phase[c] \in Settling
  /\ SettleWrite(task[c], Outcome(c))
  /\ Release(c)
  /\ UNCHANGED <<polling, managed, faults>>

\* The last write answers success: false; nobody looks at the answer.
SettleFails(c) ==
  /\ phase[c] \in Settling
  /\ faults < MaxFaults
  /\ faults' = faults + 1
  /\ Release(c)
  /\ UNCHANGED <<rows, polling, managed>>

-----------------------------------------------------------------------------
(* Crashes and the admin's queue page.                                     *)

\* A process dies and is started again: rows stay, calls in flight do not.
Crash(p) ==
  /\ faults < MaxFaults
  /\ faults' = faults + 1
  /\ polling' = [polling EXCEPT ![p] = 0]
  /\ phase' = [c \in Seats |-> IF c[1] = p THEN "idle" ELSE phase[c]]
  /\ task' = [c \in Seats |-> IF c[1] = p THEN NoJob ELSE task[c]]
  /\ snap' = [c \in Seats |-> IF c[1] = p THEN 0 ELSE snap[c]]
  /\ UNCHANGED <<rows, managed>>

Admin(op) ==
  /\ op \in AdminOps
  /\ admins < MaxAdmin
  /\ admins' = admins + 1
  /\ UNCHANGED <<polling, seats, faults>>

\* retryJob: whatever the row's status is by now.
RetryJob(j) ==
  /\ Admin("retry")
  /\ Exists(j)
  /\ status' = [status EXCEPT ![j] = "pending"]
  /\ attempts' = [attempts EXCEPT ![j] = 0]
  /\ due' = [due EXCEPT ![j] = TRUE]
  /\ reopened' = IF \E c \in Seats : phase[c] = "confirm" /\ task[c] = j
                 THEN reopened \cup {j} ELSE reopened

DeleteJob(j) ==
  /\ Admin("delete")
  /\ Exists(j)
  /\ status' = [status EXCEPT ![j] = "deleted"]
  /\ UNCHANGED <<attempts, due, reopened>>

\* jobs.cleanup(olderThan) with the current time: every row there is.  MongoDB's
\* stores createdAt as a string and compares it with a date: nothing matches.
Cleared == IF Adapter = "mongo" THEN {} ELSE {j \in Jobs : Exists(j)}

ClearCompleted ==
  /\ Admin("clear")
  /\ status' = [j \in Jobs |-> IF j \in Cleared THEN "deleted" ELSE status[j]]
  /\ UNCHANGED <<attempts, due, reopened>>

-----------------------------------------------------------------------------

Produce == \E j \in Jobs : ScheduleJob(j) \/ BecomeDue(j) \/ \E p \in Procs : Dispatch(p, j)
Fetch   == \E p \in Procs : Poll(p) \/ FetchBatch(p) \/ SchedulerPoll(p)
Execute == \E c \in Seats : Claim(c) \/ ClaimSelect(c) \/ HandlerReturns(c) \/ Settle(c)
Fail    == \/ \E c \in Seats : ClaimFails(c) \/ SettleFails(c)
           \/ \E p \in Procs : Crash(p)
Manage  == ClearCompleted \/ \E j \in Jobs : RetryJob(j) \/ DeleteJob(j)

Next == Produce \/ Fetch \/ Execute \/ Fail \/ Manage

Spec == Init /\ [][Next]_vars

(* The timers of both pollers are re-armed for ever, a database call is        *)
(* answered, a handler returns, and time passes every nextRunAt.               *)
Fairness ==
  /\ \A p \in Procs : /\ WF_vars(Poll(p)) /\ WF_vars(FetchBatch(p))
                       /\ WF_vars(SchedulerPoll(p))
  /\ \A c \in Seats : /\ WF_vars(Claim(c)) /\ WF_vars(ClaimSelect(c))
                       /\ WF_vars(HandlerReturns(c)) /\ WF_vars(Settle(c))
  /\ \A j \in Jobs : WF_vars(BecomeDue(j))

FairSpec == Spec /\ Fairness

-----------------------------------------------------------------------------
(* Properties.                                                             *)

RowsOK ==
  /\ status \in [Jobs -> Statuses]
  /\ attempts \in [Jobs -> Nat]
  /\ due \in [Jobs -> BOOLEAN]

SeatsOK ==
  /\ phase \in [Seats -> Phases]
  /\ task \in [Seats -> Jobs \cup {NoJob}]
  /\ snap \in [Seats -> Nat]
  /\ \A c \in Seats : phase[c] = "idle" <=> task[c] = NoJob

\* Every variable has its shape; a seat that is in use names a row.
TypeOK ==
  /\ RowsOK
  /\ SeatsOK
  /\ polling \in [Procs -> 0..ConcurrentMax]
  /\ admins \in 0..MaxAdmin /\ reopened \subseteq Jobs
  /\ faults \in 0..MaxFaults

\* No two calls execute the same row, whatever the processes do: the promise of
\* the conditional claim in both consumers.
ExclusiveExecution ==
  \A c, d \in Seats : \A j \in Jobs : Holds(c, j) /\ Holds(d, j) => c = d

\* A row marked running is being worked on; without crashes or failed calls
\* no row is left running with nobody to finish it.
RunningHasOwner ==
  \A j \in Jobs : status[j] = "running" =>
    \E c \in Seats : task[c] = j /\ phase[c] \in Holding \cup {"confirm"}

\* The attempt counter stays within maxAttempts and a row that may run again
\* has attempts left, although each claim writes it from a stale snapshot.
AttemptsBounded ==
  \A j \in Jobs : /\ attempts[j] <= MaxAttempts
                  /\ status[j] = "pending" => attempts[j] < MaxAttempts

\* A process never has more executeJob calls in flight than CONCURRENT_MAX, even
\* though batches are launched without waiting for the calls before.
ConcurrencyBound == \A p \in Procs : Cardinality(Busy(p)) <= ConcurrentMax

\* Completed and failed are final: a late write of another call never reopens or
\* rewrites a settled row.
TerminalIsFinal ==
  [][\A j \in Jobs : status[j] \in {"completed", "failed"} =>
       status'[j] \in {status[j], "deleted"}]_vars

\* What each in-flight call may rely on: its row was inserted and had attempts left
\* when it was read; once claimed, the row is still the call's own (or was
\* removed) and carries the attempt number this call wrote, until it settles it.
CallSound(c) ==
  /\ snap[c] < MaxAttempts
  /\ phase[c] # "idle" => status[task[c]] # "absent"
  /\ phase[c] = "confirm" => Adapter = "sql" /\ status[task[c]] # "pending"
  /\ phase[c] \in Holding => /\ Adapter # "sql"
                             /\ status[task[c]] \in {"running", "deleted"}
                             /\ attempts[task[c]] = snap[c] + 1

CallsSound == \A c \in Seats : CallSound(c)

\* Every job that is inserted is completed, failed or deleted in the end.
JobsSettle ==
  \A j \in Jobs : status[j] # "absent" ~> status[j] \in {"completed", "failed", "deleted"}

Stage(j) == CASE status[j] = "absent" -> "none"
              [] status[j] = "pending" -> "open"
              [] status[j] = "running" -> "leased"
              [] status[j] \in {"completed", "failed"} -> "closed"
              [] status[j] = "deleted" -> "gone"

Lease == INSTANCE JobLease WITH Workers <- Seats,
                                stage <- [j \in Jobs |-> Stage(j)],
                                lessees <- [j \in Jobs |-> Holders(j)]

\* The table and its consumers implement exclusive leases, also when processes
\* crash, database calls fail and rows are deleted while they are executed.
LeaseSpec == Lease!Spec

\* On SQL the only rows a call ever executes are those an admin retried between
\* the UPDATE and the SELECT of a claim: the claim that the adapter and both
\* consumers call atomic lets nothing else start.
StartsOnlyAfterRetry ==
  Adapter = "sql" => \A c \in Seats : phase[c] \in Holding => task[c] \in reopened

=============================================================================
