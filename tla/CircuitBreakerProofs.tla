------------------------ MODULE CircuitBreakerProofs ------------------------
(***************************************************************************)
(* Proofs about CircuitBreaker, for any set of calls, any threshold and    *)
(* any number of test requests and attempts.  The three invariants of the  *)
(* module are inductive together: a call that ends while the circuit is    *)
(* HALF_OPEN always decides it, so the set of probes only grows until it   *)
(* is emptied at once, and outside HALF_OPEN it is empty.                  *)
(***************************************************************************)
EXTENDS CircuitBreaker, FiniteSetTheorems, TLAPS

BreakerInv == TypeOK /\ TripsAtThreshold /\ ProbeUnderWay

USE ConfigAssumption

-----------------------------------------------------------------------------

\* Initially the circuit is closed, with no failures and no calls.
LEMMA InitInv == Init => BreakerInv
<1> SUFFICES ASSUME Init PROVE BreakerInv
  OBVIOUS
<1>1. TypeOK
  <2>1. 0 \in 0..HalfOpenMaxRequests /\ 0 \in 0..MaxAttempts /\ 0 \in 0..MaxFailures
    OBVIOUS
  <2>2. /\ phase \in [Calls -> {"idle", "running", "waiting"}]
        /\ attempt \in [Calls -> 0..MaxAttempts]
        /\ \A c \in Calls : phase[c] = "idle" /\ attempt[c] = 0
    BY <2>1 DEF Init
  <2>3. cooling \in BOOLEAN
    BY DEF Init
  <2> QED
    BY <2>1, <2>2, <2>3 DEF Init, TypeOK
<1>2. TripsAtThreshold
  BY DEF Init, TripsAtThreshold
<1>3. ProbeUnderWay
  BY FS_EmptySet DEF Init, ProbeUnderWay
<1> QED
  BY <1>1, <1>2, <1>3 DEF BreakerInv

\* Probes are a finite set, none of them when the circuit is not half-open.
LEMMA ProbesFinite ==
  ASSUME BreakerInv
  PROVE  /\ IsFiniteSet(probing)
         /\ circuitState # "HALF_OPEN" => halfOpenRequests = 0
<1>1. IsFiniteSet(probing)
  BY FS_Subset DEF BreakerInv, TypeOK
<1>2. circuitState # "HALF_OPEN" => halfOpenRequests = 0
  BY FS_EmptySet DEF BreakerInv, ProbeUnderWay
<1> QED
  BY <1>1, <1>2

\* A new call is admitted by a closed circuit, as the first probe after the
\* cooldown, or as one more probe of a half-open circuit.
LEMMA BeginInv ==
  ASSUME BreakerInv, NEW c \in Calls, Begin(c)
  PROVE  BreakerInv'
<1> USE DEF BreakerInv
<1>1. CASE BeginClosed(c)
  <2>1. TypeOK'
    BY <1>1 DEF BeginClosed, Launch, circuit, TypeOK
  <2>2. TripsAtThreshold'
    BY <1>1 DEF BeginClosed, circuit, TripsAtThreshold
  <2>3. ProbeUnderWay'
    BY <1>1 DEF BeginClosed, Launch, circuit, ProbeUnderWay, InFlight, TypeOK
  <2> QED
    BY <2>1, <2>2, <2>3
<1>2. CASE BeginRecovery(c)
  <2>1. TypeOK'
    BY <1>2 DEF BeginRecovery, Launch, TypeOK
  <2>2. TripsAtThreshold'
    BY <1>2 DEF BeginRecovery, TripsAtThreshold
  <2>3. Cardinality({c}) = 1
    BY FS_Singleton
  <2>4. ProbeUnderWay'
    BY <1>2, <2>3 DEF BeginRecovery, Launch, ProbeUnderWay, InFlight, TypeOK
  <2> QED
    BY <2>1, <2>2, <2>4
<1>3. CASE BeginProbe(c)
  <2>1. c \notin probing
    BY <1>3 DEF BeginProbe, ProbeUnderWay, InFlight
  <2>2. Cardinality(probing \cup {c}) = Cardinality(probing) + 1
    BY <2>1, ProbesFinite, FS_AddElement
  <2>3. TypeOK'
    BY <1>3 DEF BeginProbe, Admits, Launch, TypeOK
  <2>4. TripsAtThreshold'
    BY <1>3 DEF BeginProbe, TripsAtThreshold
  <2>5. ProbeUnderWay'
    BY <1>3, <2>2 DEF BeginProbe, Launch, ProbeUnderWay, InFlight, TypeOK
  <2> QED
    BY <2>3, <2>4, <2>5
<1> QED
  BY <1>1, <1>2, <1>3 DEF Begin

\* A result, whenever it comes: a success closes the circuit, a failure opens it or
\* leaves a circuit alone that is open already or still below the threshold.
LEMMA FinishInv ==
  ASSUME BreakerInv, NEW c \in Calls, Finish(c)
  PROVE  BreakerInv'
<1> USE DEF BreakerInv
<1>0. Cardinality({}) = 0
  BY FS_EmptySet
<1>1. CASE Succeed(c)
  <2>1. TypeOK'
    BY <1>1 DEF Succeed, OnSuccess, TransitionTo, Leave, TypeOK
  <2>2. TripsAtThreshold'
    BY <1>1 DEF Succeed, OnSuccess, TransitionTo, TripsAtThreshold
  <2>3. ProbeUnderWay'
    BY <1>0, <1>1 DEF Succeed, OnSuccess, TransitionTo, ProbeUnderWay
  <2> QED
    BY <2>1, <2>2, <2>3
<1>2. CASE AttemptFails(c)
  <2>1. TypeOK'
    BY <1>2 DEF AttemptFails, circuit, TypeOK
  <2>2. TripsAtThreshold'
    BY <1>2 DEF AttemptFails, circuit, TripsAtThreshold
  <2>3. ProbeUnderWay'
    BY <1>2 DEF AttemptFails, circuit, ProbeUnderWay, InFlight, TypeOK
  <2> QED
    BY <2>1, <2>2, <2>3
<1>3. CASE CallFails(c)
  <2>1. TypeOK'
    BY <1>3 DEF CallFails, OnFailure, TransitionTo, Leave, TypeOK
  <2>2. TripsAtThreshold'
    BY <1>3 DEF CallFails, OnFailure, TransitionTo, TripsAtThreshold, TypeOK
  <2>3. probing' = {} /\ circuitState' # "HALF_OPEN" /\ halfOpenRequests' = 0
    BY <1>3, ProbesFinite DEF CallFails, OnFailure, TransitionTo, ProbeUnderWay, TypeOK
  <2>4. ProbeUnderWay'
    BY <1>0, <2>3 DEF ProbeUnderWay
  <2> QED
    BY <2>1, <2>2, <2>4
<1> QED
  BY <1>1, <1>2, <1>3 DEF Finish

\* The next attempt of a call does not look at the circuit and does not touch it.
LEMMA RetryInv ==
  ASSUME BreakerInv, NEW c \in Calls, Retry(c)
  PROVE  BreakerInv'
<1> USE DEF BreakerInv
<1>1. TypeOK'
  BY DEF Retry, circuit, TypeOK
<1>2. TripsAtThreshold'
  BY DEF Retry, circuit, TripsAtThreshold
<1>3. ProbeUnderWay'
  BY DEF Retry, circuit, ProbeUnderWay, InFlight, TypeOK
<1> QED
  BY <1>1, <1>2, <1>3

\* Every step preserves the three invariants together.
LEMMA NextInv == BreakerInv /\ [Next]_vars => BreakerInv'
<1> SUFFICES ASSUME BreakerInv, [Next]_vars PROVE BreakerInv'
  OBVIOUS
<1>1. CASE CooldownOver
  BY <1>1 DEF CooldownOver, calls, BreakerInv, TypeOK, TripsAtThreshold, ProbeUnderWay, InFlight
<1>2. ASSUME NEW c \in Calls, Begin(c) \/ Finish(c) \/ Retry(c) PROVE BreakerInv'
  BY <1>2, BeginInv, FinishInv, RetryInv
<1>3. CASE UNCHANGED vars
  BY <1>3 DEF vars, circuit, calls, BreakerInv, TypeOK, TripsAtThreshold, ProbeUnderWay, InFlight
<1> QED
  BY <1>1, <1>2, <1>3 DEF Next

\* The breaker and its calls keep their invariants in every reachable state.
LEMMA BreakerSafe == Spec => []BreakerInv
<1> QED
  BY InitInv, NextInv, PTL DEF Spec

\* Every variable keeps its shape, and no more test requests are counted than allowed.
THEOREM BreakerTypeCorrect == Spec => []TypeOK
<1>1. BreakerInv => TypeOK
  BY DEF BreakerInv
<1> QED
  BY <1>1, BreakerSafe, PTL

\* The circuit is closed exactly while the failures since the last success are below
\* the threshold, in whatever order the results of concurrent calls come in.
THEOREM TripsExactly == Spec => []TripsAtThreshold
<1>1. BreakerInv => TripsAtThreshold
  BY DEF BreakerInv
<1> QED
  BY <1>1, BreakerSafe, PTL

\* A half-open circuit always has a probe under way that will decide it.
THEOREM ProbeDecides == Spec => []ProbeUnderWay
<1>1. BreakerInv => ProbeUnderWay
  BY DEF BreakerInv
<1> QED
  BY <1>1, BreakerSafe, PTL
=============================================================================
