---------------------------- MODULE SchedulerLoop ----------------------------
(***************************************************************************)
(* The polling loop of the scheduler: a timer that polls and arms the next *)
(* timer.  A loop is a timer that is armed or a poll that will arm one.    *)
(* pollTimer remembers one timer only, also after that one has fired.      *)
(***************************************************************************)
EXTENDS Integers

CONSTANTS
    MaxSchedules    \* bound: jobs scheduled

ASSUME SchedulesAssumption == MaxSchedules \in Nat

VARIABLES
    isRunning,
    interval,       \* currentInterval: "fast" or "idle"
    emptyPolls,     \* consecutiveEmptyPolls, up to the threshold
    pollTimer,      \* "null", "armed" or "fired"
    strays,         \* armed timers that pollTimer has lost sight of
    polls,          \* polls under way
    started,        \* startScheduler was called
    schedules,      \* jobs scheduled so far
    forks           \* history: those scheduled while a poll was under way

loopVars == <<isRunning, interval, emptyPolls, pollTimer, strays, polls,
              started, schedules, forks>>

IdleThreshold == 3

LoopInit ==
    /\ isRunning = FALSE /\ started = FALSE
    /\ interval = "idle" /\ emptyPolls = 0
    /\ pollTimer = "null" /\ strays = 0 /\ polls = 0
    /\ schedules = 0 /\ forks = 0

Armed == IF pollTimer = "armed" THEN 1 ELSE 0

\* Loops that are alive.
Loops == Armed + strays + polls

-----------------------------------------------------------------------------
\* startScheduler, once the database is ready.
Start ==
    /\ ~started
    /\ started' = TRUE
    /\ isRunning' = TRUE
    /\ pollTimer' = "armed"
    /\ UNCHANGED <<interval, emptyPolls, strays, polls, schedules, forks>>

\* The callback of the timer polls only while the scheduler runs.
Polled == IF isRunning THEN 1 ELSE 0

\* A timer fires; when the scheduler was stopped its loop ends here.
Fire ==
    /\ \/ /\ pollTimer = "armed"
          /\ pollTimer' = "fired"
          /\ UNCHANGED strays
       \/ /\ strays > 0
          /\ strays' = strays - 1
          /\ UNCHANGED pollTimer
    /\ polls' = polls + Polled
    /\ UNCHANGED <<isRunning, interval, emptyPolls, started, schedules, forks>>

\* scheduleNextPoll at the end of a poll.
ArmsNext == isRunning

\* The end of a poll: jobs, none, or an error, and the next timer.  The timer
\* that was armed meanwhile goes on without pollTimer.
PollEnds ==
    /\ polls > 0
    /\ polls' = polls - 1
    /\ \/ /\ emptyPolls' = 0
          /\ interval' = "fast"
       \/ /\ emptyPolls' = IF emptyPolls < IdleThreshold THEN emptyPolls + 1
                                                         ELSE IdleThreshold
          /\ interval' = IF emptyPolls' = IdleThreshold THEN "idle"
                                                        ELSE interval
       \/ UNCHANGED <<emptyPolls, interval>>
    /\ strays' = IF ArmsNext THEN strays + Armed ELSE strays
    /\ pollTimer' = IF ArmsNext THEN "armed" ELSE pollTimer
    /\ UNCHANGED <<isRunning, started, schedules, forks>>

\* Defect: the timer is armed without clearing the one before.
SparedTimers == strays + Armed

\* clearTimeout(pollTimer): a timer that waits is replaced.
Replaced == strays

\* scheduleJob: from the idle interval the timer is armed anew; during a poll
\* pollTimer is the one that fired, so a second loop begins.
Schedule ==
    /\ schedules < MaxSchedules
    /\ schedules' = schedules + 1
    /\ forks' = IF polls > 0 THEN forks + 1 ELSE forks
    /\ IF isRunning /\ interval = "idle"
       THEN /\ interval' = "fast"
            /\ pollTimer' = IF pollTimer = "null" THEN "null" ELSE "armed"
            /\ strays' = Replaced
       ELSE UNCHANGED <<interval, pollTimer, strays>>
    /\ UNCHANGED <<isRunning, emptyPolls, polls, started>>

\* stopScheduler: only the timer that pollTimer knows is cleared.
Stop ==
    /\ isRunning
    /\ isRunning' = FALSE
    /\ pollTimer' = "null"
    /\ interval' = "idle" /\ emptyPolls' = 0
    /\ UNCHANGED <<strays, polls, started, schedules, forks>>

LoopNext == Start \/ Fire \/ PollEnds \/ Schedule \/ Stop

\* Timers fire and polls end.
LoopFairness == WF_loopVars(Fire) /\ WF_loopVars(PollEnds)

LoopSpec == LoopInit /\ [][LoopNext]_loopVars /\ LoopFairness

-----------------------------------------------------------------------------
\* Types of the loop's variables.
LoopTypeOK ==
    /\ isRunning \in BOOLEAN /\ started \in BOOLEAN
    /\ interval \in {"fast", "idle"}
    /\ emptyPolls \in 0 .. IdleThreshold
    /\ pollTimer \in {"null", "armed", "fired"}
    /\ strays \in Nat /\ polls \in Nat /\ schedules \in Nat /\ forks \in Nat

\* While the scheduler runs some loop is alive: neither scheduleJob's clearing
\* of the timer nor a poll that fails ends the last one.  And every loop beyond
\* the first goes back to a call of scheduleJob during a poll: timers that wait
\* are replaced, not added.
LoopsAccounted ==
    /\ isRunning => Loops > 0
    /\ Loops <= 1 + forks
=============================================================================
