------------------------------ MODULE JobLease ------------------------------
(***************************************************************************)
(* What the svelty_jobs table promises its consumers: a row is a unit of   *)
(* work leased to at most one worker at a time, a lease ends by closing    *)
(* the row for good or by returning it for another attempt, and a row that *)
(* is closed is never leased again.  A worker may vanish with its lease,   *)
(* and a row may be removed under a worker's hands.                        *)
(***************************************************************************)

CONSTANTS Jobs, Workers

VARIABLES stage,   \* stage[j]: "none", "open", "leased", "closed" or "gone"
          lessees  \* lessees[j]: the workers that execute row j

vars == <<stage, lessees>>

Stages == {"none", "open", "leased", "closed", "gone"}

Init ==
  /\ stage = [j \in Jobs |-> "none"]
  /\ lessees = [j \in Jobs |-> {}]

Submit(j) ==
  /\ stage[j] = "none"
  /\ stage' = [stage EXCEPT ![j] = "open"]
  /\ UNCHANGED lessees

Acquire(j, w) ==
  /\ stage[j] = "open" /\ lessees[j] = {}
  /\ stage' = [stage EXCEPT ![j] = "leased"]
  /\ lessees' = [lessees EXCEPT ![j] = {w}]

\* The claim took effect and its answer was lost.
AcquireUnnoticed(j) ==
  /\ stage[j] = "open" /\ lessees[j] = {}
  /\ stage' = [stage EXCEPT ![j] = "leased"]
  /\ UNCHANGED lessees

\* The worker that holds the lease ends it; the row is settled unless it is gone.
End(j, w) ==
  /\ lessees[j] = {w}
  /\ \/ stage[j] = "leased" /\ \E s \in {"open", "closed"} : stage' = [stage EXCEPT ![j] = s]
     \/ stage[j] = "gone" /\ UNCHANGED stage
  /\ lessees' = [lessees EXCEPT ![j] = {}]

\* Workers vanish: their rows stay leased, and nobody ever takes them over.
Vanish(W) ==
  /\ lessees' = [j \in Jobs |-> lessees[j] \ W]
  /\ UNCHANGED stage

Remove(S) ==
  /\ stage' = [j \in Jobs |-> IF j \in S /\ stage[j] # "none" THEN "gone" ELSE stage[j]]
  /\ UNCHANGED lessees

Next ==
  \/ \E j \in Jobs : \/ Submit(j) \/ AcquireUnnoticed(j)
                     \/ \E w \in Workers : Acquire(j, w) \/ End(j, w)
  \/ \E W \in SUBSET Workers : Vanish(W)
  \/ \E S \in SUBSET Jobs : Remove(S)

Spec == Init /\ [][Next]_vars
=============================================================================
