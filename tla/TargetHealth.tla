---------------------------- MODULE TargetHealth ----------------------------
(***************************************************************************)
(* The circuit breaker of bacnet_worker.c: what the worker believes about  *)
(* the BACnet target, and the only two ways that belief changes after the  *)
(* worker has started.  BacnetTransactions and BacnetDispatch both extend  *)
(* this module, so that they share one breaker as the code does.           *)
(***************************************************************************)
EXTENDS Naturals

CONSTANTS
    OfflineThreshold,   \* BACNET_OFFLINE_CONSECUTIVE_TIMEOUTS
    TimeoutCap          \* bound: the counter saturates here (a uint32_t in the
                        \* code, compared with the threshold and nothing else)

ASSUME HealthAssumption ==
    /\ OfflineThreshold \in Nat \ {0}
    /\ TimeoutCap \in Nat
    /\ OfflineThreshold <= TimeoutCap

VARIABLES
    s_health_state,         \* bacnet_health_state_t
    s_consecutive_timeouts

healthVars == <<s_health_state, s_consecutive_timeouts>>

HealthStates == {"ONLINE", "DEGRADED", "OFFLINE"}

HealthTypeOK ==
    /\ s_health_state \in HealthStates
    /\ s_consecutive_timeouts \in 0 .. TimeoutCap

HealthInit ==
    /\ s_health_state = "ONLINE"
    /\ s_consecutive_timeouts = 0

\* Mutant: an acknowledgement closes the breaker but leaves the counter.
TargetAnsweredKeepsCount ==
    /\ s_health_state' = "ONLINE"
    /\ UNCHANGED s_consecutive_timeouts

\* The worker accepted an acknowledgement.
TargetAnswered ==
    /\ s_health_state' = "ONLINE"
    /\ s_consecutive_timeouts' = 0

\* Mutant: one timeout more than the threshold opens the breaker.
TargetSilentOffByOne ==
    /\ s_consecutive_timeouts' =
         IF s_consecutive_timeouts < TimeoutCap
           THEN s_consecutive_timeouts + 1 ELSE TimeoutCap
    /\ s_health_state' =
         IF s_consecutive_timeouts' > OfflineThreshold THEN "OFFLINE"
         ELSE IF s_health_state = "ONLINE" THEN "DEGRADED"
         ELSE s_health_state

\* The wait loop ran out with no answer.
TargetSilent ==
    /\ s_consecutive_timeouts' =
         IF s_consecutive_timeouts < TimeoutCap
           THEN s_consecutive_timeouts + 1 ELSE TimeoutCap
    /\ s_health_state' =
         IF s_consecutive_timeouts' >= OfflineThreshold THEN "OFFLINE"
         ELSE IF s_health_state = "ONLINE" THEN "DEGRADED"
         ELSE s_health_state

\* How a transaction with the target may end.  Not every TIMEOUT is counted.
Transaction(result) ==
    \/ result = "OK" /\ TargetAnswered
    \/ result = "TIMEOUT" /\ TargetSilent
    \/ result \in {"TIMEOUT", "ERROR"} /\ UNCHANGED healthVars

\* The worker answers this request without sending anything.
FastFails(op, prio) ==
    /\ s_health_state = "OFFLINE"
    /\ prio # "HIGH"
    /\ op = "READ"

\* Mutant: an open breaker is not probed.
ProbesDegradedOnly == s_health_state = "DEGRADED"

\* The states from which the main loop probes the target.
NeedsProbe == s_health_state \in {"OFFLINE", "DEGRADED"}

\* The health the documentation and the tests attach to a number of
\* consecutive timeouts.
HealthOf(timeouts) ==
    IF timeouts = 0 THEN "ONLINE"
    ELSE IF timeouts < OfflineThreshold THEN "DEGRADED" ELSE "OFFLINE"
=============================================================================
