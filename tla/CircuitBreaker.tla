--------------------------- MODULE CircuitBreaker ---------------------------
(***************************************************************************)
(* The circuit breaker of DatabaseResilience for one operation name, and   *)
(* the executeWithRetry calls that pass through it.  A call looks at the   *)
(* circuit once, when it starts; its attempts and backoff pauses then go   *)
(* on whatever the circuit has become meanwhile, and its result arrives in *)
(* whatever state that is.  An operator that precedes the one it is named  *)
(* after is a broken variant of it, used to show that a property can fail. *)
(***************************************************************************)
EXTENDS Naturals, FiniteSets

CONSTANTS Calls,               \* executeWithRetry calls that can be in flight
          FailureThreshold,    \* failureThreshold
          HalfOpenMaxRequests, \* halfOpenMaxRequests
          MaxAttempts,         \* maxAttempts of a call
          MaxFailures          \* bound: calls that fail for good (the outage ends)

ASSUME ConfigAssumption ==
  /\ IsFiniteSet(Calls)
  /\ FailureThreshold \in Nat \ {0}
  /\ HalfOpenMaxRequests \in Nat \ {0}
  /\ MaxAttempts \in Nat \ {0}
  /\ MaxFailures \in Nat

VARIABLES circuitState,        \* "CLOSED", "OPEN" or "HALF_OPEN"
          consecutiveFailures,
          halfOpenRequests,
          cooling,             \* now - lastFailureTimestamp < cooldownMs
          phase,               \* phase[c]: "idle", "running" or "waiting" (backoff)
          attempt,             \* attempt[c]
          probing,             \* history: calls admitted since HALF_OPEN was entered
          failed               \* how many calls have failed for good

circuit == <<circuitState, consecutiveFailures, halfOpenRequests, cooling, probing>>
calls   == <<phase, attempt>>
vars    == <<circuit, calls, failed>>

InFlight == {c \in Calls : phase[c] # "idle"}

Init ==
  /\ circuitState = "CLOSED"
  /\ consecutiveFailures = 0
  /\ halfOpenRequests = 0
  /\ cooling = FALSE
  /\ phase = [c \in Calls |-> "idle"]
  /\ attempt = [c \in Calls |-> 0]
  /\ probing = {}
  /\ failed = 0

-----------------------------------------------------------------------------

Launch(c) ==
  /\ phase' = [phase EXCEPT ![c] = "running"]
  /\ attempt' = [attempt EXCEPT ![c] = 1]

\* The call is over, with a result or with an error.
Leave(c) ==
  /\ phase' = [phase EXCEPT ![c] = "idle"]
  /\ attempt' = [attempt EXCEPT ![c] = 0]

\* transitionTo: a state change takes the count of test requests back to zero.
TransitionTo(s) ==
  /\ circuitState' = s
  /\ halfOpenRequests' = 0
  /\ probing' = {}

BeginClosed(c) ==
  /\ phase[c] = "idle" /\ circuitState = "CLOSED"
  /\ Launch(c)
  /\ UNCHANGED <<circuit, failed>>

\* After the cooldown the first call makes the circuit HALF_OPEN and is its probe.
BeginRecovery(c) ==
  /\ phase[c] = "idle" /\ circuitState = "OPEN" /\ ~cooling
  /\ circuitState' = "HALF_OPEN"
  /\ halfOpenRequests' = 1
  /\ probing' = {c}
  /\ Launch(c)
  /\ UNCHANGED <<consecutiveFailures, cooling, failed>>

AdmitsOneMore == halfOpenRequests <= HalfOpenMaxRequests

Admits == halfOpenRequests < HalfOpenMaxRequests

BeginProbe(c) ==
  /\ phase[c] = "idle" /\ circuitState = "HALF_OPEN" /\ Admits
  /\ halfOpenRequests' = halfOpenRequests + 1
  /\ probing' = probing \cup {c}
  /\ Launch(c)
  /\ UNCHANGED <<circuitState, consecutiveFailures, cooling, failed>>

OnSuccessUncounted ==
  /\ TransitionTo("CLOSED")
  /\ UNCHANGED <<consecutiveFailures, cooling>>

\* onSuccess, in any state: a call that was started long before closes the circuit too.
OnSuccess ==
  /\ consecutiveFailures' = 0
  /\ TransitionTo("CLOSED")
  /\ UNCHANGED cooling

OnFailureHalfOpen ==
  /\ consecutiveFailures' = consecutiveFailures + 1
  /\ cooling' = TRUE
  /\ IF circuitState = "CLOSED" /\ consecutiveFailures + 1 >= FailureThreshold
     THEN TransitionTo("OPEN")
     ELSE UNCHANGED <<circuitState, halfOpenRequests, probing>>

\* onFailure: the failure of a probe re-opens, the threshold trips a closed circuit,
\* and every failure starts the cooldown afresh.
OnFailure ==
  /\ consecutiveFailures' = consecutiveFailures + 1
  /\ cooling' = TRUE
  /\ IF \/ circuitState = "HALF_OPEN"
        \/ circuitState = "CLOSED" /\ consecutiveFailures + 1 >= FailureThreshold
     THEN TransitionTo("OPEN")
     ELSE UNCHANGED <<circuitState, halfOpenRequests, probing>>

Succeed(c) ==
  /\ phase[c] = "running"
  /\ OnSuccess
  /\ Leave(c)
  /\ UNCHANGED failed

\* An attempt that is not the last one fails: a pause, then the next attempt.
AttemptFails(c) ==
  /\ phase[c] = "running" /\ attempt[c] < MaxAttempts
  /\ phase' = [phase EXCEPT ![c] = "waiting"]
  /\ UNCHANGED <<circuit, attempt, failed>>

RetrySameAttempt(c) ==
  /\ phase[c] = "waiting"
  /\ phase' = [phase EXCEPT ![c] = "running"]
  /\ UNCHANGED <<circuit, attempt, failed>>

Retry(c) ==
  /\ phase[c] = "waiting"
  /\ phase' = [phase EXCEPT ![c] = "running"]
  /\ attempt' = [attempt EXCEPT ![c] = @ + 1]
  /\ UNCHANGED <<circuit, failed>>

\* The last attempt fails, or any attempt does with a configuration error.
CallFails(c) ==
  /\ phase[c] = "running"
  /\ failed < MaxFailures /\ failed' = failed + 1
  /\ OnFailure
  /\ Leave(c)

\* The clock passes lastFailureTimestamp + cooldownMs.
CooldownOver ==
  /\ cooling
  /\ cooling' = FALSE
  /\ UNCHANGED <<circuitState, consecutiveFailures, halfOpenRequests, probing, calls, failed>>

Begin(c)  == BeginClosed(c) \/ BeginRecovery(c) \/ BeginProbe(c)
Finish(c) == Succeed(c) \/ AttemptFails(c) \/ CallFails(c)

Next == CooldownOver \/ \E c \in Calls : Begin(c) \/ Finish(c) \/ Retry(c)

Spec == Init /\ [][Next]_vars

(* Operations are called again and again, each attempt ends, pauses and the   *)
(* cooldown are timers.                                                        *)
Fairness ==
  /\ WF_vars(CooldownOver)
  /\ WF_vars(\E c \in Calls : Begin(c))
  /\ \A c \in Calls : WF_vars(Finish(c)) /\ WF_vars(Retry(c))

FairSpec == Spec /\ Fairness

-----------------------------------------------------------------------------
(* Properties.                                                             *)

\* Every variable has its shape; calls under way are at one of their attempts.
TypeOK ==
  /\ circuitState \in {"CLOSED", "OPEN", "HALF_OPEN"}
  /\ consecutiveFailures \in Nat
  /\ halfOpenRequests \in 0..HalfOpenMaxRequests
  /\ cooling \in BOOLEAN
  /\ phase \in [Calls -> {"idle", "running", "waiting"}]
  /\ attempt \in [Calls -> 0..MaxAttempts]
  /\ \A c \in Calls : /\ phase[c] = "idle" <=> attempt[c] = 0
                      /\ phase[c] = "waiting" => attempt[c] < MaxAttempts
  /\ probing \subseteq Calls
  /\ failed \in 0..MaxFailures

\* The circuit is closed exactly while the failures since the last success are
\* fewer than the threshold, also when results of calls from earlier states come
\* in late and in any order.
TripsAtThreshold ==
  circuitState = "CLOSED" <=> consecutiveFailures < FailureThreshold

\* A half-open circuit has a probe that is still under way, whose end will decide it,
\* and no more of them than allowed: it is never left refusing every call.
ProbeUnderWay ==
  /\ circuitState # "HALF_OPEN" => probing = {}
  /\ circuitState = "HALF_OPEN" => probing # {}
  /\ probing \subseteq InFlight
  /\ Cardinality(probing) = halfOpenRequests

\* Once the outage is over the circuit closes again and calls get through.
Recovers == circuitState = "OPEN" ~> circuitState = "CLOSED"
=============================================================================
