--------------------------- MODULE BacnetDispatch ---------------------------
(***************************************************************************)
(* The two queues between the tasks of the bridge and the BACnet worker,   *)
(* and the calls that go through them.  bacnet_worker_dispatch_sync puts a *)
(* request that points into the caller's stack (out_resp) and at a         *)
(* semaphore it has just created (sync_sem) on a queue and waits; the      *)
(* worker serves the requests one at a time, writes through out_resp and   *)
(* gives sync_sem.  The caller may stop waiting first: it deletes the      *)
(* semaphore and returns, and its request stays where it is.               *)
(*                                                                         *)
(* A transaction is one step with an outcome here; what happens inside it  *)
(* is BacnetTransactions.                                                  *)
(***************************************************************************)
EXTENDS Naturals, Sequences, FiniteSets, TargetHealth

CONSTANTS
    Tasks,          \* tasks that call bacnet_worker_dispatch_sync
    Ops,            \* Ops[t]: the operations that task t asks for
    Handles,        \* addresses at which the heap can put a semaphore
    NoHandle, NoRequest,
    Impatient,      \* the tasks whose calls may time out
    HighDepth,      \* BACNET_HIGH_PRIO_QUEUE_DEPTH
    NormalDepth     \* BACNET_NORMAL_PRIO_QUEUE_DEPTH

AllOps == {"READ", "WRITE", "DISCOVERY"}

VARIABLES
    pc,                     \* where the worker task is
    current,                \* the request in its local variable req
    s_high_prio_queue,
    s_normal_prio_queue,
    calls,                  \* the call each task is in
    resp,                   \* the bacnet_response_t in its frame
    sems,                   \* every handle: free, or a semaphore given or not
    probeDue,               \* BACNET_PROBE_INTERVAL_MS since the last probe
    overtaken               \* history: how many NORMAL requests the worker
                            \* took while a call was on the HIGH queue

queues == <<s_high_prio_queue, s_normal_prio_queue>>
vars == <<pc, current, queues, calls, resp, sems, probeDue, overtaken,
          healthVars>>

Statuses == {"OK", "TIMEOUT", "ERROR", "TARGET_OFFLINE"}
PrioOf(op) == IF op = "READ" THEN "NORMAL" ELSE "HIGH"

(***************************************************************************)
(* A request remembers whose call it belongs to; live is history: that     *)
(* call has not returned.  In a response, own is history: it answers the   *)
(* call whose frame it is in.                                              *)
(***************************************************************************)
Requests == [task : Tasks, op : AllOps, sem : Handles, live : BOOLEAN]
Responses == [status : Statuses, own : BOOLEAN]
Blank == [status |-> "OK", own |-> FALSE]   \* bacnet_response_t resp = {0}

Calls == [phase : {"idle", "sending", "waiting"}, op : AllOps,
          sem : Handles \cup {NoHandle}, delayed : BOOLEAN]
NoCall == [phase |-> "idle", op |-> "READ", sem |-> NoHandle,
           delayed |-> FALSE]

ASSUME DispatchAssumption ==
    /\ Ops \in [Tasks -> SUBSET AllOps]
    /\ NoHandle \notin Handles /\ NoRequest \notin Requests
    /\ Impatient \subseteq Tasks
    /\ HighDepth \in Nat \ {0} /\ NormalDepth \in Nat \ {0}

TypeOK ==
    /\ pc \in {"starting", "checkHigh", "waitNormal", "executing",
               "probeCheck", "probing"}
    /\ current \in Requests \cup {NoRequest}
    /\ s_high_prio_queue \in Seq(Requests)
    /\ s_normal_prio_queue \in Seq(Requests)
    /\ Len(s_high_prio_queue) <= HighDepth
    /\ Len(s_normal_prio_queue) <= NormalDepth
    /\ calls \in [Tasks -> Calls]
    /\ resp \in [Tasks -> Responses]
    /\ sems \in [Handles -> {"free", "empty", "given"}]
    /\ probeDue \in BOOLEAN
    /\ overtaken \in [Tasks -> 0 .. 2]
    /\ HealthTypeOK

Init ==
    /\ pc = "starting"
    /\ current = NoRequest
    /\ s_high_prio_queue = <<>>
    /\ s_normal_prio_queue = <<>>
    /\ calls = [t \in Tasks |-> NoCall]
    /\ resp = [t \in Tasks |-> Blank]
    /\ sems = [h \in Handles |-> "free"]
    /\ probeDue = FALSE
    /\ overtaken = [t \in Tasks |-> 0]
    /\ HealthInit

-----------------------------------------------------------------------------
(***************************************************************************)
(* The callers                                                             *)
(***************************************************************************)

\* The worker is busy with a transaction on the network.
WorkerBusy ==
    \/ pc = "probing"
    \/ pc = "executing" /\ ~FastFails(current.op, PrioOf(current.op))

\* s_is_ready holds from the end of the worker's start on; before that a call
\* returns at once, and so it does when there is no memory for a semaphore.
BeginCall(t, op, h) ==
    /\ calls[t].phase = "idle"
    /\ pc # "starting"
    /\ sems[h] = "free"
    /\ sems' = [sems EXCEPT ![h] = "empty"]
    /\ calls' = [calls EXCEPT ![t] =
         [phase |-> "sending", op |-> op, sem |-> h, delayed |-> FALSE]]
    /\ resp' = [resp EXCEPT ![t] = Blank]
    /\ UNCHANGED <<pc, current, queues, probeDue, overtaken, healthVars>>

QueueFor(op) == IF PrioOf(op) = "HIGH" THEN s_high_prio_queue
                                       ELSE s_normal_prio_queue

\* Mutant: a queue takes one request more than its depth.
DepthForPlusOne(op) ==
    IF PrioOf(op) = "HIGH" THEN HighDepth + 1 ELSE NormalDepth + 1

DepthFor(op) == IF PrioOf(op) = "HIGH" THEN HighDepth ELSE NormalDepth
RequestOf(t) == [task |-> t, op |-> calls[t].op, sem |-> calls[t].sem,
                 live |-> TRUE]

\* xQueueSend finds room within its 100 ms.
Enqueue(t) ==
    /\ calls[t].phase = "sending"
    /\ Len(QueueFor(calls[t].op)) < DepthFor(calls[t].op)
    /\ IF PrioOf(calls[t].op) = "HIGH"
         THEN /\ s_high_prio_queue' = Append(s_high_prio_queue, RequestOf(t))
              /\ UNCHANGED s_normal_prio_queue
         ELSE /\ s_normal_prio_queue' = Append(s_normal_prio_queue, RequestOf(t))
              /\ UNCHANGED s_high_prio_queue
    /\ calls' = [calls EXCEPT ![t].phase = "waiting", ![t].delayed = WorkerBusy]
    /\ overtaken' = [overtaken EXCEPT ![t] = 0]
    /\ UNCHANGED <<pc, current, resp, sems, probeDue, healthVars>>

\* Mutant: the caller leaves its semaphore behind.
KeepSemaphore(h) == UNCHANGED sems

\* vSemaphoreDelete
DeleteSemaphore(h) == sems' = [sems EXCEPT ![h] = "free"]

Orphaned(r, t) == IF r.task = t THEN [r EXCEPT !.live = FALSE] ELSE r

\* The caller returns.  A request of its that is still about is an orphan.
LeaveCall(t) ==
    /\ calls' = [calls EXCEPT ![t] = NoCall]
    /\ DeleteSemaphore(calls[t].sem)
    /\ s_high_prio_queue' =
         [i \in DOMAIN s_high_prio_queue |-> Orphaned(s_high_prio_queue[i], t)]
    /\ s_normal_prio_queue' =
         [i \in DOMAIN s_normal_prio_queue
            |-> Orphaned(s_normal_prio_queue[i], t)]
    /\ current' = IF current = NoRequest THEN NoRequest ELSE Orphaned(current, t)
    /\ resp' = [resp EXCEPT ![t] = Blank]
    /\ overtaken' = [overtaken EXCEPT ![t] = 0]
    /\ UNCHANGED <<pc, probeDue, healthVars>>

\* The queue stays full for 100 ms.
CallRefused(t) ==
    /\ calls[t].phase = "sending"
    /\ Len(QueueFor(calls[t].op)) = DepthFor(calls[t].op)
    /\ LeaveCall(t)

\* xSemaphoreTake returns pdTRUE.
CallReturns(t) ==
    /\ calls[t].phase = "waiting"
    /\ sems[calls[t].sem] = "given"
    /\ LeaveCall(t)

\* xSemaphoreTake gives up.  A transaction of the call's own never takes that
\* long (every caller allows at least 200 ms more than the transaction does),
\* so another one must have run meanwhile.
CallTimesOut(t) ==
    /\ t \in Impatient
    /\ calls[t].phase = "waiting"
    /\ sems[calls[t].sem] = "empty"
    /\ calls[t].delayed
    /\ LeaveCall(t)

-----------------------------------------------------------------------------
(***************************************************************************)
(* The worker                                                              *)
(***************************************************************************)

WorkerReady ==
    /\ pc = "starting"
    /\ pc' = "checkHigh"
    /\ s_health_state' = "ONLINE" /\ s_consecutive_timeouts' = 0
    /\ UNCHANGED <<current, queues, calls, resp, sems, probeDue, overtaken>>

\* While the worker serves r everyone else's call is delayed.
DelayOthers(r) ==
    calls' = [t \in Tasks |->
      IF calls[t].phase = "waiting" /\ ~(r.task = t /\ r.live)
        THEN [calls[t] EXCEPT !.delayed = TRUE] ELSE calls[t]]

\* The worker has copied r off its queue; the open breaker answers a read.
Serve(r) ==
    /\ current' = r
    /\ pc' = "executing"
    /\ IF FastFails(r.op, PrioOf(r.op)) THEN UNCHANGED calls ELSE DelayOthers(r)
    /\ UNCHANGED <<resp, sems, probeDue, healthVars>>

ReceiveHigh ==
    /\ pc = "checkHigh"
    /\ s_high_prio_queue # <<>>
    /\ s_high_prio_queue' = Tail(s_high_prio_queue)
    /\ Serve(Head(s_high_prio_queue))
    /\ UNCHANGED <<s_normal_prio_queue, overtaken>>

\* Mutant: the worker looks at the normal queue without looking at the other.
SkipsHigh == pc = "checkHigh"

FindsNoHigh == pc = "checkHigh" /\ s_high_prio_queue = <<>>

CheckHigh ==
    /\ FindsNoHigh
    /\ pc' = "waitNormal"
    /\ UNCHANGED <<current, queues, calls, resp, sems, probeDue, overtaken,
                   healthVars>>

OnHighQueue(t) ==
    \E i \in DOMAIN s_high_prio_queue :
      s_high_prio_queue[i].task = t /\ s_high_prio_queue[i].live

\* The 50 ms wait on the normal queue; the high one is not looked at.
ReceiveNormal ==
    /\ pc = "waitNormal"
    /\ s_normal_prio_queue # <<>>
    /\ s_normal_prio_queue' = Tail(s_normal_prio_queue)
    /\ Serve(Head(s_normal_prio_queue))
    /\ overtaken' = [t \in Tasks |->
         IF OnHighQueue(t) /\ overtaken[t] < 2 THEN overtaken[t] + 1
                                               ELSE overtaken[t]]
    /\ UNCHANGED s_high_prio_queue

ReceiveNothing ==
    /\ pc = "waitNormal"
    /\ s_normal_prio_queue = <<>>
    /\ pc' = "probeCheck"
    /\ UNCHANGED <<current, queues, calls, resp, sems, probeDue, overtaken,
                   healthVars>>

Execute(r, status) ==
    IF FastFails(r.op, PrioOf(r.op))
      THEN status = "TARGET_OFFLINE" /\ UNCHANGED healthVars
    ELSE IF r.op = "DISCOVERY" THEN status = "OK" /\ UNCHANGED healthVars
    ELSE Transaction(status)

\* Mutant: the worker forgets to wake the caller.
GiveNoSemaphore(h) == UNCHANGED sems

\* xSemaphoreGive: the handle of an orphan may be deleted, or may be another
\* call's by now.
GiveSemaphore(h) ==
    sems' = IF sems[h] = "free" THEN sems ELSE [sems EXCEPT ![h] = "given"]

\* Mutant: the worker fills its local response and not the caller's.
WriteLocalResponse(r, status) == UNCHANGED resp

\* What the worker's writes through out_resp do: an orphan's frame is gone, and
\* may or may not be where the task's present call keeps its response.
WriteResponse(r, status) ==
    \/ /\ r.live
       /\ resp' = [resp EXCEPT ![r.task] = [status |-> status, own |-> TRUE]]
    \/ ~r.live /\ UNCHANGED resp
    \/ /\ ~r.live
       /\ calls[r.task].phase # "idle"
       /\ resp' = [resp EXCEPT ![r.task] = [status |-> status, own |-> FALSE]]

CompleteRequest(status) ==
    /\ pc = "executing"
    /\ Execute(current, status)
    /\ WriteResponse(current, status)
    /\ GiveSemaphore(current.sem)
    /\ current' = NoRequest
    /\ pc' = "probeCheck"
    /\ UNCHANGED <<queues, calls, probeDue, overtaken>>

StartProbe ==
    /\ pc = "probeCheck"
    /\ NeedsProbe /\ probeDue
    /\ probeDue' = FALSE
    /\ pc' = "probing"
    /\ calls' = [t \in Tasks |->
         IF calls[t].phase = "waiting" THEN [calls[t] EXCEPT !.delayed = TRUE]
                                       ELSE calls[t]]
    /\ UNCHANGED <<current, queues, resp, sems, overtaken, healthVars>>

EndProbe(status) ==
    /\ pc = "probing"
    /\ Transaction(status)
    /\ pc' = "checkHigh"
    /\ UNCHANGED <<current, queues, calls, resp, sems, probeDue, overtaken>>

SkipProbe ==
    /\ pc = "probeCheck"
    /\ ~(NeedsProbe /\ probeDue)
    /\ pc' = "checkHigh"
    /\ UNCHANGED <<current, queues, calls, resp, sems, probeDue, overtaken,
                   healthVars>>

ProbeIntervalElapses ==
    /\ ~probeDue
    /\ probeDue' = TRUE
    /\ UNCHANGED <<pc, current, queues, calls, resp, sems, overtaken,
                   healthVars>>

-----------------------------------------------------------------------------
Caller(t) ==
    \/ \E op \in Ops[t], h \in Handles : BeginCall(t, op, h)
    \/ Enqueue(t) \/ CallRefused(t) \/ CallReturns(t) \/ CallTimesOut(t)

Worker ==
    \/ WorkerReady
    \/ ReceiveHigh \/ CheckHigh \/ ReceiveNormal \/ ReceiveNothing
    \/ \E status \in Statuses : CompleteRequest(status) \/ EndProbe(status)
    \/ StartProbe \/ SkipProbe

Next == (\E t \in Tasks : Caller(t)) \/ Worker \/ ProbeIntervalElapses

Spec == Init /\ [][Next]_vars

\* The worker's loop has no exit and every transaction ends; a task whose
\* semaphore was given, or whose queue has room, runs.  Nobody has to call.
Fairness ==
    /\ WF_vars(Worker)
    /\ \A t \in Tasks : WF_vars(Enqueue(t) \/ CallRefused(t))
    /\ \A t \in Tasks : WF_vars(CallReturns(t))

FairSpec == Spec /\ Fairness

-----------------------------------------------------------------------------
(***************************************************************************)
(* Properties                                                              *)
(***************************************************************************)

Waiting(t) == calls[t].phase = "waiting"
Answered(t) == Waiting(t) /\ sems[calls[t].sem] = "given"

\* Where task t's present call has its request: queue positions and the worker.
PlacesOf(t) ==
    {<<"high", i>> : i \in {j \in DOMAIN s_high_prio_queue :
       s_high_prio_queue[j].task = t /\ s_high_prio_queue[j].live}}
    \cup
    {<<"normal", i>> : i \in {j \in DOMAIN s_normal_prio_queue :
       s_normal_prio_queue[j].task = t /\ s_normal_prio_queue[j].live}}
    \cup
    (IF current # NoRequest /\ current.task = t /\ current.live
       THEN {<<"worker", 0>>} ELSE {})

\* No call is lost and none is served twice: a caller that has not been woken
\* has exactly one request in the queues or in the worker, naming its own
\* semaphore, however queues fill, calls time out and handles are reused; and a
\* call that was refused has left no request behind.
NoCallIsLost ==
    \A t \in Tasks :
      /\ Waiting(t) /\ ~Answered(t) => Cardinality(PlacesOf(t)) = 1
      /\ ~Waiting(t) => PlacesOf(t) = {}

\* Every semaphore belongs to one call in progress: none leaks on any of the
\* four ways out of bacnet_worker_dispatch_sync, and no two calls share one,
\* although deleted handles are handed out again.
SemaphoresAreAccountedFor ==
    /\ \A h \in Handles :
         sems[h] # "free" <=> \E t \in Tasks : calls[t].sem = h
    /\ \A t, u \in Tasks :
         t # u /\ calls[t].sem = calls[u].sem => calls[t].sem = NoHandle

\* A caller that is woken finds the answer to its own request in its frame.
\* True while no call times out; the run with timeouts says what remains.
CallersGetTheirOwnAnswer == \A t \in Tasks : Answered(t) => resp[t].own

\* A HIGH request waits for at most one NORMAL request that the worker takes
\* after it was queued: the one that ends the worker's 50 ms wait on the normal
\* queue (the high queue is looked at once in a turn, before that wait).
HighOvertakenAtMostOnce == \A t \in Tasks : overtaken[t] <= 1

\* A write or a discovery that was queued is served, however many reads there
\* are and whatever the target does.
HighCallsAreServed ==
    \A t \in Tasks :
      Waiting(t) /\ PrioOf(calls[t].op) = "HIGH" ~> ~Waiting(t)

\* A read that was queued is served once the writers leave the worker alone.
ReadsAreServedInTheEnd ==
    <>[](\A t \in Tasks : calls[t].phase # "idle" => calls[t].op = "READ")
      => \A t \in Tasks : Waiting(t) ~> ~Waiting(t)

\* dispatch_sync is a synchronous call: what it promises is SynchronousCalls.
Abstract == INSTANCE SynchronousCalls WITH
    call <- [t \in Tasks |->
               IF calls[t].phase = "idle" THEN "idle"
               ELSE IF ~Answered(t) THEN "pending"
               ELSE IF resp[t].own THEN "answered" ELSE "misanswered"]

CallsAreSynchronous == Abstract!Spec
=============================================================================
