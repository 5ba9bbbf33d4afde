------------------------- MODULE AtomicTransactions -------------------------
(***************************************************************************)
(* What a transaction of the worker is for those who only wait for its     *)
(* end: it begins, and in one step it ends, with one status, and with the  *)
(* effect on the circuit breaker that goes with that status.  No datagram, *)
(* no invoke ID and no change of the target shows.  BacnetDispatch counts  *)
(* on this when it takes a transaction for one step, and                   *)
(* BacnetTransactions implements it.                                       *)
(***************************************************************************)
EXTENDS TargetHealth

VARIABLES
    at,         \* where the worker is; in a transaction, which one
    status      \* what the last request was answered

atomicVars == <<at, status, healthVars>>

\* The operations a caller may ask for, with the queue each is put on.
Requests == {<<"READ", "NORMAL">>, <<"WRITE", "HIGH">>}

Init ==
    /\ at = "starting"
    /\ status = "TIMEOUT"
    /\ HealthInit

Ready ==
    /\ at = "starting"
    /\ at' = "receive"
    /\ s_health_state' = "ONLINE" /\ s_consecutive_timeouts' = 0
    /\ UNCHANGED status

\* A request that is not refused, or the probe, may be executed now.
MayBegin(op) ==
    \/ /\ at = "receive"
       /\ \E r \in Requests : r[1] = op /\ ~FastFails(r[1], r[2])
    \/ at = "probeCheck" /\ op = "PROBE" /\ NeedsProbe

Begin(op) ==
    /\ MayBegin(op)
    /\ at' = op
    /\ UNCHANGED <<status, healthVars>>

\* Where the loop goes on after a transaction.
After(op) == IF op = "PROBE" THEN "receive" ELSE "probeCheck"

End(op, s) ==
    /\ at = op
    /\ at' = After(op)
    /\ status' = s
    /\ Transaction(s)

\* The stack gave out no invoke ID: the request is never sent.
Unsent(op) ==
    /\ MayBegin(op)
    /\ at' = After(op)
    /\ status' = "TIMEOUT"
    /\ UNCHANGED healthVars

Refuse ==
    /\ at = "receive"
    /\ FastFails("READ", "NORMAL")
    /\ at' = "probeCheck"
    /\ status' = "TARGET_OFFLINE"
    /\ UNCHANGED healthVars

\* Nothing to serve, a discovery, or no probe this time round.
Move(from, to) ==
    /\ at = from /\ at' = to
    /\ UNCHANGED <<status, healthVars>>

Next ==
    \/ Ready \/ Refuse
    \/ \E op \in {"READ", "WRITE", "PROBE"} :
         \/ Begin(op) \/ Unsent(op)
         \/ \E s \in {"OK", "TIMEOUT", "ERROR"} : End(op, s)
    \/ Move("receive", "discovering") \/ Move("discovering", "probeCheck")
    \/ Move("receive", "probeCheck") \/ Move("probeCheck", "receive")

Spec == Init /\ [][Next]_atomicVars
=============================================================================
