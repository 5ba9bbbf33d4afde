------------------------- MODULE BacnetDispatch_proofs -------------------------
(***************************************************************************)
(* No call through the worker's queues is lost or served twice, every      *)
(* semaphore has one owner, and a call of high priority is overtaken at    *)
(* most once, for any number of tasks and handles and any depth of the     *)
(* queues, while calls time out and their requests stay behind.  As long   *)
(* as no call times out, dispatch_sync is a synchronous call.              *)
(***************************************************************************)
EXTENDS BacnetDispatch, FiniteSetTheorems, TLAPS

\* The worker has a request in hand exactly while it executes one.
WorkerHolds == pc = "executing" <=> current # NoRequest

\* The positions of the requests of task t's present call in queue q.
Lives(q, t) == {i \in DOMAIN q : q[i].task = t /\ q[i].live}

InWorker(t) == current # NoRequest /\ current.task = t /\ current.live

AtMostOne(S) == \A x, y \in S : x = y

\* A request whose call has not returned names that call's semaphore.
Belongs(r) == r.live => Waiting(r.task) /\ r.sem = calls[r.task].sem

RequestsBelong ==
    /\ \A i \in DOMAIN s_high_prio_queue : Belongs(s_high_prio_queue[i])
    /\ \A i \in DOMAIN s_normal_prio_queue : Belongs(s_normal_prio_queue[i])
    /\ current # NoRequest => Belongs(current)

\* A call has at most one request, and one as long as it has not been woken.
RequestedOnce(t) ==
    /\ AtMostOne(Lives(s_high_prio_queue, t))
    /\ AtMostOne(Lives(s_normal_prio_queue, t))
    /\ Lives(s_high_prio_queue, t) = {} \/ Lives(s_normal_prio_queue, t) = {}
    /\ InWorker(t) => /\ Lives(s_high_prio_queue, t) = {}
                      /\ Lives(s_normal_prio_queue, t) = {}
    /\ Waiting(t) /\ ~Answered(t) =>
         \/ Lives(s_high_prio_queue, t) # {}
         \/ Lives(s_normal_prio_queue, t) # {}
         \/ InWorker(t)

\* A task has a semaphore exactly while it is in a call.
CallersHoldSemaphores ==
    \A t \in Tasks : calls[t].phase = "idle" <=> calls[t].sem = NoHandle

DispatchInv ==
    /\ TypeOK
    /\ WorkerHolds
    /\ CallersHoldSemaphores
    /\ SemaphoresAreAccountedFor
    /\ RequestsBelong
    /\ \A t \in Tasks : RequestedOnce(t)

-----------------------------------------------------------------------------
(***************************************************************************)
(* Queues of requests                                                      *)
(***************************************************************************)

LEMMA LivesOfTail ==
    ASSUME NEW q \in Seq(Requests), q # <<>>, NEW t \in Tasks
    PROVE  /\ Lives(Tail(q), t) = {i \in 1 .. Len(q) - 1 : i + 1 \in Lives(q, t)}
           /\ \A i \in DOMAIN Tail(q) : i + 1 \in DOMAIN q /\ Tail(q)[i] = q[i + 1]
           /\ 1 \in DOMAIN q /\ Head(q) = q[1]
<1>1. /\ Len(q) \in Nat /\ Len(q) >= 1 /\ DOMAIN q = 1 .. Len(q)
      /\ Tail(q) \in Seq(Requests) /\ Len(Tail(q)) = Len(q) - 1
  OBVIOUS
<1>2. DOMAIN Tail(q) = 1 .. Len(q) - 1
  BY <1>1
<1>3. \A i \in 1 .. Len(q) - 1 : i + 1 \in DOMAIN q /\ Tail(q)[i] = q[i + 1]
  BY <1>1
<1>4. Head(q) = q[1] /\ 1 \in DOMAIN q
  BY <1>1
<1> QED BY <1>2, <1>3, <1>4 DEF Lives

\* Taking the head off a queue takes the place of its own call, if it has one.
LEMMA HeadLeaves ==
    ASSUME NEW q \in Seq(Requests), q # <<>>, NEW t \in Tasks,
           AtMostOne(Lives(q, t))
    PROVE  /\ AtMostOne(Lives(Tail(q), t))
           /\ Head(q).task = t /\ Head(q).live => Lives(Tail(q), t) = {}
           /\ ~(Head(q).task = t /\ Head(q).live) /\ Lives(q, t) # {}
                => Lives(Tail(q), t) # {}
           /\ Lives(q, t) = {}
                => Lives(Tail(q), t) = {} /\ ~(Head(q).task = t /\ Head(q).live)
<1>1. /\ Lives(Tail(q), t) = {i \in 1 .. Len(q) - 1 : i + 1 \in Lives(q, t)}
      /\ 1 \in DOMAIN q /\ Head(q) = q[1]
  BY LivesOfTail
<1>2. Len(q) \in Nat /\ DOMAIN q = 1 .. Len(q)
  OBVIOUS
<1>3. 1 \in Lives(q, t) <=> Head(q).task = t /\ Head(q).live
  BY <1>1 DEF Lives
<1>4. AtMostOne(Lives(Tail(q), t))
  <2> SUFFICES ASSUME NEW x \in Lives(Tail(q), t), NEW y \in Lives(Tail(q), t)
               PROVE  x = y
    BY DEF AtMostOne
  <2>1. x \in Nat /\ y \in Nat /\ x + 1 \in Lives(q, t) /\ y + 1 \in Lives(q, t)
    BY <1>1
  <2>2. x + 1 = y + 1
    BY <2>1 DEF AtMostOne
  <2> QED BY <2>1, <2>2
<1>5. ASSUME 1 \in Lives(q, t) PROVE Lives(Tail(q), t) = {}
  <2> SUFFICES ASSUME NEW x \in Lives(Tail(q), t) PROVE FALSE
    OBVIOUS
  <2>1. x \in Nat /\ x >= 1 /\ x + 1 \in Lives(q, t)
    BY <1>1
  <2>2. x + 1 = 1
    BY <1>5, <2>1 DEF AtMostOne
  <2> QED BY <2>1, <2>2
<1>6. ASSUME 1 \notin Lives(q, t), Lives(q, t) # {} PROVE Lives(Tail(q), t) # {}
  <2>1. PICK x \in Lives(q, t) : TRUE
    BY <1>6
  <2>2. x \in 1 .. Len(q) /\ x # 1
    BY <1>2, <1>6, <2>1 DEF Lives
  <2>3. x - 1 \in 1 .. Len(q) - 1 /\ (x - 1) + 1 = x
    BY <1>2, <2>2
  <2> QED BY <1>1, <2>1, <2>3
<1>7. Lives(q, t) = {} => Lives(Tail(q), t) = {}
  BY <1>1
<1> QED BY <1>3, <1>4, <1>5, <1>6, <1>7

LEMMA LivesOfAppend ==
    ASSUME NEW q \in Seq(Requests), NEW r \in Requests, NEW t \in Tasks
    PROVE  /\ r.task # t => Lives(Append(q, r), t) = Lives(q, t)
           /\ r.task = t /\ r.live => Lives(Append(q, r), t) # {}
           /\ r.task = t /\ Lives(q, t) = {} => AtMostOne(Lives(Append(q, r), t))
           /\ \A i \in DOMAIN Append(q, r) :
                \/ i \in DOMAIN q /\ Append(q, r)[i] = q[i]
                \/ Append(q, r)[i] = r
<1> DEFINE n == Len(q) + 1
<1>1. /\ Len(q) \in Nat /\ DOMAIN q = 1 .. Len(q)
      /\ Append(q, r) \in Seq(Requests) /\ Len(Append(q, r)) = n
  OBVIOUS
<1>2. DOMAIN Append(q, r) = 1 .. n
  BY <1>1
<1>3. 1 .. n = (1 .. Len(q)) \cup {n} /\ n \notin 1 .. Len(q)
  BY <1>1
<1>4. Append(q, r)[n] = r /\ \A i \in 1 .. Len(q) : Append(q, r)[i] = q[i]
  BY <1>1
<1> HIDE DEF n
<1>5. Lives(Append(q, r), t) = Lives(q, t) \cup {i \in {n} : r.task = t /\ r.live}
  BY <1>1, <1>2, <1>3, <1>4 DEF Lives
<1>6. \A i \in DOMAIN Append(q, r) :
        \/ i \in DOMAIN q /\ Append(q, r)[i] = q[i]
        \/ Append(q, r)[i] = r
  BY <1>1, <1>2, <1>3, <1>4
<1> QED BY <1>5, <1>6 DEF AtMostOne

\* A call that returns makes orphans of its own requests only.
LEMMA LivesOfOrphaned ==
    ASSUME NEW q \in Seq(Requests), NEW t \in Tasks,
           NEW p, p = [i \in DOMAIN q |-> Orphaned(q[i], t)]
    PROVE  /\ p \in Seq(Requests) /\ Len(p) = Len(q) /\ DOMAIN p = DOMAIN q
           /\ Lives(p, t) = {}
           /\ \A u \in Tasks : u # t => Lives(p, u) = Lives(q, u)
           /\ \A i \in DOMAIN q : p[i] = Orphaned(q[i], t)
<1>1. Len(q) \in Nat /\ DOMAIN q = 1 .. Len(q) /\ \A i \in DOMAIN q : q[i] \in Requests
  OBVIOUS
<1>2. \A i \in DOMAIN q :
        /\ p[i] = Orphaned(q[i], t) /\ p[i] \in Requests
        /\ p[i].task = q[i].task
        /\ q[i].task = t => ~p[i].live
        /\ q[i].task # t => p[i].live = q[i].live
  BY <1>1 DEF Orphaned, Requests
<1>3. DOMAIN p = 1 .. Len(q) /\ p \in [1 .. Len(q) -> Requests]
  BY <1>1, <1>2
<1>4. p \in Seq(Requests) /\ Len(p) = Len(q)
  BY <1>1, <1>3
<1>5. Lives(p, t) = {}
  BY <1>1, <1>2, <1>3 DEF Lives
<1>6. \A u \in Tasks : u # t => Lives(p, u) = Lives(q, u)
  BY <1>1, <1>2, <1>3 DEF Lives
<1> QED BY <1>1, <1>2, <1>3, <1>4, <1>5, <1>6

-----------------------------------------------------------------------------
(***************************************************************************)
(* Types                                                                   *)
(***************************************************************************)

LEMMA HealthStepType ==
    ASSUME HealthTypeOK,
           TargetAnswered \/ TargetSilent \/ UNCHANGED healthVars
    PROVE  HealthTypeOK'
BY HealthAssumption
   DEF HealthTypeOK, HealthStates, TargetAnswered, TargetSilent, healthVars

LEMMA BlankIsResponse == Blank \in Responses
BY DEF Blank, Responses, Statuses

LEMMA NoCallIsCall == NoCall \in Calls
BY DEF NoCall, Calls, AllOps

LEMMA AppendType ==
    ASSUME NEW q \in Seq(Requests), NEW r \in Requests, NEW n \in Nat, Len(q) < n
    PROVE  Append(q, r) \in Seq(Requests) /\ Len(Append(q, r)) <= n
OBVIOUS

LEMMA LeaveCallType ==
    ASSUME TypeOK, WorkerHolds, NEW t \in Tasks, calls[t].phase # "idle",
           CallersHoldSemaphores, LeaveCall(t)
    PROVE  TypeOK' /\ WorkerHolds'
<1>1. s_high_prio_queue' \in Seq(Requests) /\ Len(s_high_prio_queue') = Len(s_high_prio_queue)
  BY LivesOfOrphaned DEF LeaveCall, TypeOK
<1>2. s_normal_prio_queue' \in Seq(Requests) /\ Len(s_normal_prio_queue') = Len(s_normal_prio_queue)
  BY LivesOfOrphaned DEF LeaveCall, TypeOK
<1>3. current' \in Requests \cup {NoRequest} /\ (current' = NoRequest <=> current = NoRequest)
  <2>1. CASE current = NoRequest
    BY <2>1 DEF LeaveCall
  <2>2. CASE current # NoRequest
    <3>1. current \in Requests
      BY <2>2 DEF TypeOK
    <3>2. Orphaned(current, t) \in Requests
      BY <3>1 DEF Orphaned, Requests
    <3> QED BY <2>2, <3>2, DispatchAssumption DEF LeaveCall
  <2> QED BY <2>1, <2>2
<1>4. calls' \in [Tasks -> Calls] /\ resp' \in [Tasks -> Responses]
  BY NoCallIsCall, BlankIsResponse DEF LeaveCall, TypeOK
<1>5. sems' \in [Handles -> {"free", "empty", "given"}]
  BY DEF LeaveCall, DeleteSemaphore, TypeOK
<1>6. overtaken' \in [Tasks -> 0 .. 2]
  BY DEF LeaveCall, TypeOK
<1>7. HealthTypeOK'
  BY HealthStepType DEF LeaveCall, TypeOK
<1>8. UNCHANGED <<pc, probeDue>>
  BY DEF LeaveCall
<1> QED BY <1>1, <1>2, <1>3, <1>4, <1>5, <1>6, <1>7, <1>8 DEF TypeOK, WorkerHolds

LEMMA CallerType ==
    ASSUME TypeOK, WorkerHolds, CallersHoldSemaphores, NEW t \in Tasks, Caller(t)
    PROVE  TypeOK' /\ WorkerHolds'
<1>1. ASSUME NEW op \in Ops[t], NEW h \in Handles, BeginCall(t, op, h)
      PROVE  TypeOK' /\ WorkerHolds'
  <2>1. [phase |-> "sending", op |-> op, sem |-> h, delayed |-> FALSE] \in Calls
    BY DispatchAssumption DEF Calls
  <2>2. calls' \in [Tasks -> Calls] /\ resp' \in [Tasks -> Responses]
    BY <1>1, <2>1, BlankIsResponse DEF BeginCall, TypeOK
  <2>3. sems' \in [Handles -> {"free", "empty", "given"}]
    BY <1>1 DEF BeginCall, TypeOK
  <2>4. HealthTypeOK'
    BY <1>1, HealthStepType DEF BeginCall, TypeOK
  <2> QED BY <1>1, <2>2, <2>3, <2>4 DEF BeginCall, TypeOK, WorkerHolds, queues
<1>2. ASSUME Enqueue(t) PROVE TypeOK' /\ WorkerHolds'
  <2> DEFINE r == RequestOf(t)
  <2>1. calls[t] \in Calls /\ calls[t].sem \in Handles
    BY <1>2 DEF TypeOK, Enqueue, CallersHoldSemaphores, Calls
  <2>2. r \in Requests
    BY <2>1 DEF RequestOf, Requests, Calls
  <2>3. calls' \in [Tasks -> Calls]
    <3>1. WorkerBusy \in BOOLEAN
      BY DEF WorkerBusy
    <3>2. [calls[t] EXCEPT !.phase = "waiting", !.delayed = WorkerBusy] \in Calls
      BY <2>1, <3>1 DEF Calls
    <3> QED BY <1>2, <3>2 DEF Enqueue, TypeOK
  <2>4. /\ s_high_prio_queue' \in Seq(Requests) /\ Len(s_high_prio_queue') <= HighDepth
        /\ s_normal_prio_queue' \in Seq(Requests) /\ Len(s_normal_prio_queue') <= NormalDepth
    <3> HIDE DEF r
    <3>1. CASE PrioOf(calls[t].op) = "HIGH"
      <4>1. /\ Len(s_high_prio_queue) < HighDepth
            /\ s_high_prio_queue' = Append(s_high_prio_queue, r)
            /\ s_normal_prio_queue' = s_normal_prio_queue
        BY <1>2, <3>1 DEF Enqueue, QueueFor, DepthFor, r
      <4> QED BY <2>2, <4>1, AppendType, DispatchAssumption DEF TypeOK
    <3>2. CASE PrioOf(calls[t].op) # "HIGH"
      <4>1. /\ Len(s_normal_prio_queue) < NormalDepth
            /\ s_normal_prio_queue' = Append(s_normal_prio_queue, r)
            /\ s_high_prio_queue' = s_high_prio_queue
        BY <1>2, <3>2 DEF Enqueue, QueueFor, DepthFor, r
      <4> QED BY <2>2, <4>1, AppendType, DispatchAssumption DEF TypeOK
    <3> QED BY <3>1, <3>2
  <2>5. overtaken' \in [Tasks -> 0 .. 2]
    BY <1>2 DEF Enqueue, TypeOK
  <2>6. HealthTypeOK'
    BY <1>2, HealthStepType DEF Enqueue, TypeOK
  <2> QED BY <1>2, <2>3, <2>4, <2>5, <2>6 DEF Enqueue, TypeOK, WorkerHolds
<1>3. ASSUME CallRefused(t) \/ CallReturns(t) \/ CallTimesOut(t)
      PROVE  TypeOK' /\ WorkerHolds'
  BY <1>3, LeaveCallType DEF CallRefused, CallReturns, CallTimesOut
<1> QED BY <1>1, <1>2, <1>3 DEF Caller

\* What the worker may do to a call: say that it is delayed.
SameCall(c, d) == d \in Calls /\ d.phase = c.phase /\ d.op = c.op /\ d.sem = c.sem

LEMMA DelayedCall ==
    ASSUME NEW c \in Calls
    PROVE  SameCall(c, [c EXCEPT !.delayed = TRUE]) /\ SameCall(c, c)
BY DEF SameCall, Calls

LEMMA DelayOthersType ==
    ASSUME TypeOK, NEW r,
           DelayOthers(r) \/ UNCHANGED calls
    PROVE  calls' \in [Tasks -> Calls] /\ \A t \in Tasks : SameCall(calls[t], calls'[t])
<1>1. \A t \in Tasks : calls[t] \in Calls
  BY DEF TypeOK
<1>2. CASE UNCHANGED calls
  BY <1>1, <1>2, DelayedCall DEF TypeOK
<1>3. CASE DelayOthers(r)
  <2>1. \A t \in Tasks : \/ calls'[t] = [calls[t] EXCEPT !.delayed = TRUE]
                         \/ calls'[t] = calls[t]
    BY <1>3 DEF DelayOthers
  <2>2. \A t \in Tasks : SameCall(calls[t], calls'[t])
    BY <1>1, <2>1, DelayedCall
  <2> QED BY <1>3, <2>2 DEF DelayOthers, SameCall
<1> QED BY <1>2, <1>3

LEMMA ServeType ==
    ASSUME TypeOK, NEW r \in Requests, Serve(r)
    PROVE  /\ current' = r /\ pc' = "executing" /\ WorkerHolds'
           /\ calls' \in [Tasks -> Calls]
           /\ \A t \in Tasks : SameCall(calls[t], calls'[t])
           /\ UNCHANGED <<resp, sems, probeDue>>
           /\ HealthTypeOK'
<1>1. DelayOthers(r) \/ UNCHANGED calls
  BY DEF Serve
<1>2. HealthTypeOK'
  BY HealthStepType DEF Serve, TypeOK
<1> QED BY <1>1, <1>2, DelayOthersType, DispatchAssumption DEF Serve, WorkerHolds

LEMMA TransactionType ==
    ASSUME HealthTypeOK, NEW status, Transaction(status)
    PROVE  HealthTypeOK'
BY HealthStepType DEF Transaction

LEMMA ExecuteType ==
    ASSUME HealthTypeOK, NEW r, NEW status, Execute(r, status)
    PROVE  HealthTypeOK'
BY HealthStepType, TransactionType DEF Execute

LEMMA WorkerType ==
    ASSUME TypeOK, WorkerHolds, Worker \/ ProbeIntervalElapses \/ UNCHANGED vars
    PROVE  TypeOK' /\ WorkerHolds'
<1>1. ASSUME \/ CheckHigh \/ ReceiveNothing \/ SkipProbe \/ ProbeIntervalElapses
             \/ UNCHANGED vars
      PROVE  TypeOK' /\ WorkerHolds'
  <2>1. UNCHANGED <<queues, calls, resp, sems, overtaken, healthVars, current>>
    BY <1>1 DEF CheckHigh, ReceiveNothing, SkipProbe, ProbeIntervalElapses, vars
  <2>2. HealthTypeOK'
    BY <2>1, HealthStepType DEF TypeOK
  <2>3. /\ pc' \in {"starting", "checkHigh", "waitNormal", "executing",
                    "probeCheck", "probing"}
        /\ pc' = "executing" <=> pc = "executing"
    BY <1>1 DEF CheckHigh, FindsNoHigh, ReceiveNothing, SkipProbe,
                ProbeIntervalElapses, vars, TypeOK
  <2>4. probeDue' \in BOOLEAN
    BY <1>1 DEF CheckHigh, ReceiveNothing, SkipProbe, ProbeIntervalElapses, vars, TypeOK
  <2> QED BY <2>1, <2>2, <2>3, <2>4 DEF TypeOK, WorkerHolds, queues
<1>2. ASSUME WorkerReady PROVE TypeOK' /\ WorkerHolds'
  <2>1. HealthTypeOK'
    BY <1>2, HealthAssumption DEF WorkerReady, HealthTypeOK, HealthStates
  <2> QED BY <1>2, <2>1 DEF WorkerReady, TypeOK, WorkerHolds, queues
<1>3. ASSUME ReceiveHigh PROVE TypeOK' /\ WorkerHolds'
  <2>1. /\ Head(s_high_prio_queue) \in Requests
        /\ s_high_prio_queue' \in Seq(Requests)
        /\ Len(s_high_prio_queue') <= HighDepth
    BY <1>3, DispatchAssumption DEF ReceiveHigh, TypeOK
  <2> QED BY <1>3, <2>1, ServeType DEF ReceiveHigh, TypeOK
<1>4. ASSUME ReceiveNormal PROVE TypeOK' /\ WorkerHolds'
  <2>1. /\ Head(s_normal_prio_queue) \in Requests
        /\ s_normal_prio_queue' \in Seq(Requests)
        /\ Len(s_normal_prio_queue') <= NormalDepth
    BY <1>4, DispatchAssumption DEF ReceiveNormal, TypeOK
  <2>2. overtaken' \in [Tasks -> 0 .. 2]
    BY <1>4 DEF ReceiveNormal, TypeOK
  <2> QED BY <1>4, <2>1, <2>2, ServeType DEF ReceiveNormal, TypeOK
<1>5. ASSUME NEW status \in Statuses, CompleteRequest(status)
      PROVE  TypeOK' /\ WorkerHolds'
  <2>1. current \in Requests
    BY <1>5 DEF CompleteRequest, WorkerHolds, TypeOK
  <2>2. resp' \in [Tasks -> Responses]
    <3>1. \A own \in BOOLEAN : [status |-> status, own |-> own] \in Responses
      BY DEF Responses
    <3> QED BY <1>5, <3>1 DEF CompleteRequest, WriteResponse, TypeOK
  <2>3. sems' \in [Handles -> {"free", "empty", "given"}]
    BY <1>5 DEF CompleteRequest, GiveSemaphore, TypeOK
  <2>4. HealthTypeOK'
    BY <1>5, ExecuteType DEF CompleteRequest, TypeOK
  <2> QED BY <1>5, <2>2, <2>3, <2>4 DEF CompleteRequest, TypeOK, WorkerHolds, queues
<1>6. ASSUME NEW status \in Statuses, EndProbe(status)
      PROVE  TypeOK' /\ WorkerHolds'
  <2>1. HealthTypeOK'
    BY <1>6, TransactionType DEF EndProbe, TypeOK
  <2> QED BY <1>6, <2>1 DEF EndProbe, TypeOK, WorkerHolds, queues
<1>7. ASSUME StartProbe PROVE TypeOK' /\ WorkerHolds'
  <2>1. \A t \in Tasks : calls[t] \in Calls /\ [calls[t] EXCEPT !.delayed = TRUE] \in Calls
    BY DelayedCall DEF TypeOK, SameCall
  <2>2. calls' \in [Tasks -> Calls]
    BY <1>7, <2>1 DEF StartProbe
  <2>3. HealthTypeOK'
    BY <1>7, HealthStepType DEF StartProbe, TypeOK
  <2> QED BY <1>7, <2>2, <2>3 DEF StartProbe, TypeOK, WorkerHolds, queues
<1> QED BY <1>1, <1>2, <1>3, <1>4, <1>5, <1>6, <1>7 DEF Worker

-----------------------------------------------------------------------------
(***************************************************************************)
(* Semaphores                                                              *)
(***************************************************************************)

\* A call that begins takes a handle nobody has; one that ends gives back its
\* own; the worker only turns an empty semaphore into a given one.
LEMMA CallerSemaphores ==
    ASSUME TypeOK, CallersHoldSemaphores, SemaphoresAreAccountedFor,
           NEW t \in Tasks, Caller(t)
    PROVE  CallersHoldSemaphores' /\ SemaphoresAreAccountedFor'
<1>1. \A u \in Tasks : calls[u] \in Calls
  BY DEF TypeOK
<1>2. ASSUME NEW op \in Ops[t], NEW h \in Handles, BeginCall(t, op, h)
      PROVE  CallersHoldSemaphores' /\ SemaphoresAreAccountedFor'
  <2>1. /\ calls'[t].phase = "sending" /\ calls'[t].sem = h
        /\ \A u \in Tasks : u # t => calls'[u] = calls[u]
    BY <1>2 DEF BeginCall, TypeOK
  <2>2. h # NoHandle /\ \A u \in Tasks : calls[u].sem # h
    BY <1>2, DispatchAssumption DEF BeginCall, SemaphoresAreAccountedFor
  <2>3. \A g \in Handles : sems'[g] = IF g = h THEN "empty" ELSE sems[g]
    BY <1>2 DEF BeginCall, TypeOK
  <2>4. calls[t].sem = NoHandle
    BY <1>2 DEF BeginCall, CallersHoldSemaphores
  <2>5. CallersHoldSemaphores'
    BY <2>1, <2>2 DEF CallersHoldSemaphores
  <2>6. SemaphoresAreAccountedFor'
    <3>1. ASSUME NEW g \in Handles
          PROVE  sems'[g] # "free" <=> \E u \in Tasks : calls'[u].sem = g
      <4>1. CASE g = h
        BY <2>1, <2>3, <4>1
      <4>2. CASE g # h
        <5>1. \A u \in Tasks : calls'[u].sem = g <=> calls[u].sem = g
          BY <2>1, <2>4, <4>2, DispatchAssumption
        <5> QED BY <2>3, <4>2, <5>1 DEF SemaphoresAreAccountedFor
      <4> QED BY <4>1, <4>2
    <3>2. \A u, v \in Tasks : u # v /\ calls'[u].sem = calls'[v].sem
                                => calls'[u].sem = NoHandle
      BY <2>1, <2>2 DEF SemaphoresAreAccountedFor
    <3> QED BY <3>1, <3>2 DEF SemaphoresAreAccountedFor
  <2> QED BY <2>5, <2>6
<1>3. ASSUME Enqueue(t)
      PROVE  CallersHoldSemaphores' /\ SemaphoresAreAccountedFor'
  <2>1. \A u \in Tasks : calls'[u].sem = calls[u].sem
    BY <1>1, <1>3 DEF Enqueue, TypeOK, Calls
  <2>2. \A u \in Tasks : calls'[u].phase = "idle" <=> calls[u].phase = "idle"
    BY <1>1, <1>3 DEF Enqueue, TypeOK, Calls
  <2>3. UNCHANGED sems
    BY <1>3 DEF Enqueue
  <2> QED BY <2>1, <2>2, <2>3 DEF CallersHoldSemaphores, SemaphoresAreAccountedFor
<1>4. ASSUME LeaveCall(t), calls[t].phase # "idle"
      PROVE  CallersHoldSemaphores' /\ SemaphoresAreAccountedFor'
  <2> DEFINE h == calls[t].sem
  <2>1. /\ calls'[t].phase = "idle" /\ calls'[t].sem = NoHandle
        /\ \A u \in Tasks : u # t => calls'[u] = calls[u]
    BY <1>4 DEF LeaveCall, NoCall, TypeOK
  <2>2. h # NoHandle /\ h \in Handles
    BY <1>1, <1>4 DEF CallersHoldSemaphores, Calls
  <2>3. \A g \in Handles : sems'[g] = IF g = h THEN "free" ELSE sems[g]
    BY <1>4 DEF LeaveCall, DeleteSemaphore, TypeOK
  <2>4. \A u \in Tasks : u # t => calls[u].sem # h
    BY <2>2 DEF SemaphoresAreAccountedFor
  <2>5. CallersHoldSemaphores'
    BY <2>1 DEF CallersHoldSemaphores
  <2>6. SemaphoresAreAccountedFor'
    <3>1. ASSUME NEW g \in Handles
          PROVE  sems'[g] # "free" <=> \E u \in Tasks : calls'[u].sem = g
      <4>1. CASE g = h
        BY <2>1, <2>2, <2>3, <2>4, <4>1
      <4>2. CASE g # h
        <5>1. \A u \in Tasks : calls'[u].sem = g <=> calls[u].sem = g
          BY <2>1, <4>2, DispatchAssumption
        <5> QED BY <2>3, <4>2, <5>1 DEF SemaphoresAreAccountedFor
      <4> QED BY <4>1, <4>2
    <3>2. \A u, v \in Tasks : u # v /\ calls'[u].sem = calls'[v].sem
                                => calls'[u].sem = NoHandle
      BY <2>1 DEF SemaphoresAreAccountedFor
    <3> QED BY <3>1, <3>2 DEF SemaphoresAreAccountedFor
  <2> QED BY <2>5, <2>6
<1> QED
  BY <1>2, <1>3, <1>4 DEF Caller, CallRefused, CallReturns, CallTimesOut

LEMMA WorkerSemaphores ==
    ASSUME TypeOK, CallersHoldSemaphores, SemaphoresAreAccountedFor,
           \A t \in Tasks : SameCall(calls[t], calls'[t]),
           UNCHANGED sems \/ GiveSemaphore(current.sem)
    PROVE  CallersHoldSemaphores' /\ SemaphoresAreAccountedFor'
<1>1. \A h \in Handles : sems'[h] = "free" <=> sems[h] = "free"
  <2>1. CASE UNCHANGED sems
    BY <2>1
  <2>2. CASE GiveSemaphore(current.sem)
    BY <2>2 DEF GiveSemaphore, TypeOK
  <2> QED BY <2>1, <2>2
<1>2. \A t \in Tasks : /\ calls'[t].sem = calls[t].sem
                       /\ calls'[t].phase = calls[t].phase
  BY DEF SameCall
<1> QED BY <1>1, <1>2 DEF CallersHoldSemaphores, SemaphoresAreAccountedFor

-----------------------------------------------------------------------------
(***************************************************************************)
(* Requests                                                                *)
(***************************************************************************)

\* The requests, as far as the invariant speaks of them.
LEMMA RequestsAreTyped ==
    ASSUME TypeOK
    PROVE  /\ s_high_prio_queue \in Seq(Requests) /\ s_normal_prio_queue \in Seq(Requests)
           /\ \A i \in DOMAIN s_high_prio_queue : s_high_prio_queue[i] \in Requests
           /\ \A i \in DOMAIN s_normal_prio_queue : s_normal_prio_queue[i] \in Requests
           /\ current # NoRequest => current \in Requests
           /\ \A r \in Requests : r.task \in Tasks
<1>1. \A r \in Requests : r.task \in Tasks
  BY DEF Requests
<1> QED BY <1>1 DEF TypeOK

LEMMA UnchangedRequests ==
    ASSUME DispatchInv, UNCHANGED <<queues, current, sems>>,
           \A t \in Tasks : SameCall(calls[t], calls'[t])
    PROVE  RequestsBelong' /\ \A t \in Tasks : RequestedOnce(t)'
<1> USE DEF queues
<1>1. \A t \in Tasks : /\ calls'[t].sem = calls[t].sem
                       /\ Waiting(t)' = Waiting(t) /\ Answered(t)' = Answered(t)
  BY DEF SameCall, Waiting, Answered
<1>2. \A r \in Requests : Belongs(r) => Belongs(r)'
  BY <1>1, RequestsAreTyped DEF Belongs, DispatchInv
<1>3. RequestsBelong'
  BY <1>2, RequestsAreTyped DEF RequestsBelong, DispatchInv
<1>4. \A t \in Tasks : RequestedOnce(t)'
  BY <1>1 DEF RequestedOnce, DispatchInv, InWorker
<1> QED BY <1>3, <1>4

LEMMA BeginRequests ==
    ASSUME DispatchInv, NEW t \in Tasks, NEW op \in Ops[t], NEW h \in Handles,
           BeginCall(t, op, h)
    PROVE  RequestsBelong' /\ \A u \in Tasks : RequestedOnce(u)'
<1> USE DEF queues
<1>1. /\ ~Waiting(t) /\ ~Waiting(t)'
      /\ UNCHANGED <<queues, current>>
  BY DEF BeginCall, Waiting, DispatchInv, TypeOK
<1>2. \A u \in Tasks : u # t => calls'[u] = calls[u]
  BY DEF BeginCall, DispatchInv, TypeOK
<1>3. \A u \in Tasks : u # t => calls[u].sem # h
  BY DEF BeginCall, DispatchInv, SemaphoresAreAccountedFor
<1>4. \A u \in Tasks : u # t /\ Waiting(u) => calls[u].sem \in Handles
  BY DEF DispatchInv, TypeOK, CallersHoldSemaphores, Calls, Waiting
<1>5. \A g \in Handles : g # h => sems'[g] = sems[g]
  BY DEF BeginCall, DispatchInv, TypeOK
<1>6. \A u \in Tasks : Waiting(u)' = Waiting(u)
  BY <1>1, <1>2 DEF Waiting
<1>7. \A u \in Tasks : Answered(u)' = Answered(u)
  BY <1>1, <1>2, <1>3, <1>4, <1>5, <1>6 DEF Answered
<1>8. \A r \in Requests : Belongs(r) => Belongs(r)'
  BY <1>1, <1>2, <1>6, RequestsAreTyped DEF Belongs, DispatchInv
<1>9. RequestsBelong'
  BY <1>1, <1>8, RequestsAreTyped DEF RequestsBelong, DispatchInv
<1>10. \A u \in Tasks : RequestedOnce(u)'
  BY <1>1, <1>6, <1>7 DEF RequestedOnce, DispatchInv, InWorker
<1> QED BY <1>9, <1>10

\* A call that is not waiting has no request.
LEMMA NoRequestBeforeWaiting ==
    ASSUME DispatchInv, NEW t \in Tasks, ~Waiting(t)
    PROVE  /\ Lives(s_high_prio_queue, t) = {} /\ Lives(s_normal_prio_queue, t) = {}
           /\ ~InWorker(t)
BY DEF DispatchInv, RequestsBelong, Belongs, Lives, InWorker

LEMMA EnqueueRequests ==
    ASSUME DispatchInv, NEW t \in Tasks, Enqueue(t)
    PROVE  RequestsBelong' /\ \A u \in Tasks : RequestedOnce(u)'
<1>1. ~Waiting(t) /\ calls[t] \in Calls /\ calls[t].sem \in Handles
  BY DEF Enqueue, Waiting, DispatchInv, TypeOK, CallersHoldSemaphores, Calls
<1>2. PICK r \in Requests :
        r = RequestOf(t) /\ r.task = t /\ r.live /\ r.sem = calls[t].sem
  <2>1. calls[t].op \in AllOps
    BY <1>1 DEF Calls
  <2>2. RequestOf(t) \in Requests
    BY <1>1, <2>1 DEF RequestOf, Requests
  <2>3. /\ RequestOf(t).task = t /\ RequestOf(t).live
        /\ RequestOf(t).sem = calls[t].sem
    BY DEF RequestOf
  <2> QED BY <2>2, <2>3
<1>3. /\ Waiting(t)' /\ calls'[t].sem = calls[t].sem
      /\ \A u \in Tasks : u # t => calls'[u] = calls[u]
  BY DEF Enqueue, DispatchInv, TypeOK, Waiting, Calls
<1>4. UNCHANGED <<current, sems>>
  BY DEF Enqueue
<1>5. \A q \in Requests : Belongs(q) => Belongs(q)'
  BY <1>1, <1>3, RequestsAreTyped DEF Belongs, Waiting, DispatchInv
<1>6. Belongs(r)'
  BY <1>2, <1>3 DEF Belongs
<1>7. \A u \in Tasks : u # t => /\ Waiting(u)' = Waiting(u)
                                /\ Answered(u)' = Answered(u)
  BY <1>3, <1>4 DEF Waiting, Answered
<1>8. /\ Lives(s_high_prio_queue, t) = {} /\ Lives(s_normal_prio_queue, t) = {}
      /\ ~InWorker(t)
  BY <1>1, NoRequestBeforeWaiting
<1>9. \A u \in Tasks : InWorker(u)' = InWorker(u)
  BY <1>4 DEF InWorker
<1>10. CASE PrioOf(calls[t].op) = "HIGH"
  <2>1. s_high_prio_queue' = Append(s_high_prio_queue, r) /\ UNCHANGED s_normal_prio_queue
    BY <1>2, <1>10 DEF Enqueue
  <2>2. RequestsBelong'
    <3>1. ASSUME NEW i \in DOMAIN s_high_prio_queue'
          PROVE  Belongs(s_high_prio_queue[i])'
      <4>1. PICK x \in Requests : x = s_high_prio_queue'[i] /\ (x = r \/ Belongs(x))
        BY <1>2, <2>1, RequestsAreTyped, LivesOfAppend DEF RequestsBelong, DispatchInv
      <4>2. Belongs(x)'
        BY <1>5, <1>6, <4>1
      <4> QED BY <4>1, <4>2 DEF Belongs
    <3>2. ASSUME NEW i \in DOMAIN s_normal_prio_queue'
          PROVE  Belongs(s_normal_prio_queue[i])'
      BY <1>5, <2>1, RequestsAreTyped DEF RequestsBelong, DispatchInv, Belongs
    <3>3. (current # NoRequest)' => Belongs(current)'
      BY <1>4, <1>5, RequestsAreTyped DEF RequestsBelong, DispatchInv, Belongs
    <3> QED BY <3>1, <3>2, <3>3 DEF RequestsBelong
  <2>3. \A u \in Tasks : u # t => Lives(s_high_prio_queue, u)' = Lives(s_high_prio_queue, u)
    BY <1>2, <2>1, RequestsAreTyped, LivesOfAppend DEF DispatchInv, Lives
  <2>4. Lives(s_high_prio_queue, t)' # {} /\ AtMostOne(Lives(s_high_prio_queue, t))'
    <3>1. Lives(s_high_prio_queue, t)' = Lives(Append(s_high_prio_queue, r), t)
      BY <2>1 DEF Lives
    <3>2. /\ Lives(Append(s_high_prio_queue, r), t) # {}
          /\ AtMostOne(Lives(Append(s_high_prio_queue, r), t))
      BY <1>2, <1>8, RequestsAreTyped, LivesOfAppend DEF DispatchInv
    <3> QED BY <3>1, <3>2 DEF AtMostOne
  <2>5. \A u \in Tasks : Lives(s_normal_prio_queue, u)' = Lives(s_normal_prio_queue, u)
    BY <2>1 DEF Lives
  <2>6. RequestedOnce(t)'
    BY <1>8, <1>9, <2>4, <2>5 DEF RequestedOnce, AtMostOne
  <2>7. \A u \in Tasks : u # t => RequestedOnce(u)'
    BY <1>7, <1>9, <2>3, <2>5 DEF RequestedOnce, DispatchInv, AtMostOne
  <2> QED BY <2>2, <2>6, <2>7
<1>11. CASE PrioOf(calls[t].op) # "HIGH"
  <2>1. s_normal_prio_queue' = Append(s_normal_prio_queue, r) /\ UNCHANGED s_high_prio_queue
    BY <1>2, <1>11 DEF Enqueue
  <2>2. RequestsBelong'
    <3>1. ASSUME NEW i \in DOMAIN s_normal_prio_queue'
          PROVE  Belongs(s_normal_prio_queue[i])'
      <4>1. PICK x \in Requests : x = s_normal_prio_queue'[i] /\ (x = r \/ Belongs(x))
        BY <1>2, <2>1, RequestsAreTyped, LivesOfAppend DEF RequestsBelong, DispatchInv
      <4>2. Belongs(x)'
        BY <1>5, <1>6, <4>1
      <4> QED BY <4>1, <4>2 DEF Belongs
    <3>2. ASSUME NEW i \in DOMAIN s_high_prio_queue'
          PROVE  Belongs(s_high_prio_queue[i])'
      BY <1>5, <2>1, RequestsAreTyped DEF RequestsBelong, DispatchInv, Belongs
    <3>3. (current # NoRequest)' => Belongs(current)'
      BY <1>4, <1>5, RequestsAreTyped DEF RequestsBelong, DispatchInv, Belongs
    <3> QED BY <3>1, <3>2, <3>3 DEF RequestsBelong
  <2>3. \A u \in Tasks : u # t => Lives(s_normal_prio_queue, u)' = Lives(s_normal_prio_queue, u)
    BY <1>2, <2>1, RequestsAreTyped, LivesOfAppend DEF DispatchInv, Lives
  <2>4. Lives(s_normal_prio_queue, t)' # {} /\ AtMostOne(Lives(s_normal_prio_queue, t))'
    <3>1. Lives(s_normal_prio_queue, t)' = Lives(Append(s_normal_prio_queue, r), t)
      BY <2>1 DEF Lives
    <3>2. /\ Lives(Append(s_normal_prio_queue, r), t) # {}
          /\ AtMostOne(Lives(Append(s_normal_prio_queue, r), t))
      BY <1>2, <1>8, RequestsAreTyped, LivesOfAppend DEF DispatchInv
    <3> QED BY <3>1, <3>2 DEF AtMostOne
  <2>5. \A u \in Tasks : Lives(s_high_prio_queue, u)' = Lives(s_high_prio_queue, u)
    BY <2>1 DEF Lives
  <2>6. RequestedOnce(t)'
    BY <1>8, <1>9, <2>4, <2>5 DEF RequestedOnce, AtMostOne
  <2>7. \A u \in Tasks : u # t => RequestedOnce(u)'
    BY <1>7, <1>9, <2>3, <2>5 DEF RequestedOnce, DispatchInv, AtMostOne
  <2> QED BY <2>2, <2>6, <2>7
<1> QED BY <1>10, <1>11

LEMMA LeaveRequests ==
    ASSUME DispatchInv, NEW t \in Tasks, calls[t].phase # "idle",
           LeaveCall(t)
    PROVE  RequestsBelong' /\ \A u \in Tasks : RequestedOnce(u)'
<1>1. /\ ~Waiting(t)'
      /\ \A u \in Tasks : u # t => calls'[u] = calls[u]
  BY DEF LeaveCall, DispatchInv, TypeOK, Waiting, NoCall
<1>2. \A u \in Tasks : u # t /\ Waiting(u) =>
        calls[u].sem \in Handles /\ calls[u].sem # calls[t].sem
  BY DEF DispatchInv, TypeOK, CallersHoldSemaphores, Calls, Waiting,
         SemaphoresAreAccountedFor
<1>3. \A h \in Handles : h # calls[t].sem => sems'[h] = sems[h]
  BY DEF LeaveCall, DeleteSemaphore, DispatchInv, TypeOK
<1>4. \A u \in Tasks : u # t => /\ Waiting(u)' = Waiting(u)
                                /\ Answered(u)' = Answered(u)
  BY <1>1, <1>2, <1>3 DEF Waiting, Answered
<1>5. \A r \in Requests : Belongs(r) => Belongs(Orphaned(r, t))'
  <2> SUFFICES ASSUME NEW r \in Requests, Belongs(r), Orphaned(r, t).live
               PROVE  Belongs(Orphaned(r, t))'
    BY DEF Belongs
  <2>1. r.task # t /\ r.task \in Tasks /\ Orphaned(r, t) = r /\ r.live
    BY RequestsAreTyped DEF Orphaned, Requests, DispatchInv
  <2>2. Waiting(r.task) /\ r.sem = calls[r.task].sem
    BY <2>1 DEF Belongs
  <2> QED BY <1>1, <2>1, <2>2 DEF Belongs, Waiting
<1>6. /\ DOMAIN s_high_prio_queue' = DOMAIN s_high_prio_queue
      /\ \A i \in DOMAIN s_high_prio_queue :
            s_high_prio_queue'[i] = Orphaned(s_high_prio_queue[i], t)
      /\ Lives(s_high_prio_queue, t)' = {}
      /\ \A u \in Tasks : u # t =>
            Lives(s_high_prio_queue, u)' = Lives(s_high_prio_queue, u)
  BY RequestsAreTyped, LivesOfOrphaned DEF LeaveCall, Lives, DispatchInv
<1>7. /\ DOMAIN s_normal_prio_queue' = DOMAIN s_normal_prio_queue
      /\ \A i \in DOMAIN s_normal_prio_queue :
            s_normal_prio_queue'[i] = Orphaned(s_normal_prio_queue[i], t)
      /\ Lives(s_normal_prio_queue, t)' = {}
      /\ \A u \in Tasks : u # t =>
            Lives(s_normal_prio_queue, u)' = Lives(s_normal_prio_queue, u)
  <2>1. PICK p : /\ p = [i \in DOMAIN s_normal_prio_queue
                             |-> Orphaned(s_normal_prio_queue[i], t)]
                 /\ s_normal_prio_queue' = p
    BY DEF LeaveCall
  <2>2. /\ DOMAIN p = DOMAIN s_normal_prio_queue
        /\ Lives(p, t) = {}
        /\ \A u \in Tasks : u # t => Lives(p, u) = Lives(s_normal_prio_queue, u)
        /\ \A i \in DOMAIN s_normal_prio_queue :
              p[i] = Orphaned(s_normal_prio_queue[i], t)
    BY <2>1, RequestsAreTyped, LivesOfOrphaned DEF DispatchInv
  <2>3. \A u \in Tasks : Lives(s_normal_prio_queue, u)' = Lives(p, u)
    BY <2>1 DEF Lives
  <2> QED BY <2>1, <2>2, <2>3
<1>8. RequestsBelong'
  <2>1. ASSUME NEW i \in DOMAIN s_high_prio_queue'
        PROVE  Belongs(s_high_prio_queue[i])'
    <3>1. PICK r \in Requests : r = s_high_prio_queue[i] /\ Belongs(r)
      BY <1>6, RequestsAreTyped DEF RequestsBelong, DispatchInv
    <3>2. s_high_prio_queue'[i] = Orphaned(r, t)
      BY <1>6, <3>1
    <3> QED BY <1>5, <3>1, <3>2 DEF Belongs
  <2>2. ASSUME NEW i \in DOMAIN s_normal_prio_queue'
        PROVE  Belongs(s_normal_prio_queue[i])'
    <3>1. PICK r \in Requests : r = s_normal_prio_queue[i] /\ Belongs(r)
      BY <1>7, RequestsAreTyped DEF RequestsBelong, DispatchInv
    <3>2. s_normal_prio_queue'[i] = Orphaned(r, t)
      BY <1>7, <3>1
    <3> QED BY <1>5, <3>1, <3>2 DEF Belongs
  <2>3. (current # NoRequest)' => Belongs(current)'
    <3> SUFFICES ASSUME current' # NoRequest PROVE Belongs(current)'
      OBVIOUS
    <3>1. current # NoRequest /\ current' = Orphaned(current, t)
      BY DEF LeaveCall
    <3>2. PICK r \in Requests : r = current /\ Belongs(r)
      BY <3>1, RequestsAreTyped DEF RequestsBelong, DispatchInv
    <3> QED BY <1>5, <3>1, <3>2 DEF Belongs
  <2> QED BY <2>1, <2>2, <2>3 DEF RequestsBelong
<1>9. ~InWorker(t)' /\ \A u \in Tasks : u # t => InWorker(u)' = InWorker(u)
  <2>1. CASE current = NoRequest
    BY <2>1 DEF LeaveCall, InWorker
  <2>2. CASE current # NoRequest
    <3>1. current \in Requests /\ current' = Orphaned(current, t)
      BY <2>2, RequestsAreTyped DEF LeaveCall, DispatchInv
    <3>2. Orphaned(current, t) \in Requests /\ Orphaned(current, t) # NoRequest
      BY <3>1, DispatchAssumption DEF Orphaned, Requests
    <3>3. CASE current.task = t
      BY <3>1, <3>2, <3>3 DEF InWorker, Orphaned, Requests
    <3>4. CASE current.task # t
      BY <3>1, <3>4 DEF InWorker, Orphaned
    <3> QED BY <3>3, <3>4
  <2> QED BY <2>1, <2>2
<1>10. RequestedOnce(t)'
  BY <1>1, <1>6, <1>7, <1>9 DEF RequestedOnce, AtMostOne
<1>11. \A u \in Tasks : u # t => RequestedOnce(u)'
  BY <1>4, <1>6, <1>7, <1>9 DEF RequestedOnce, DispatchInv, AtMostOne
<1> QED BY <1>8, <1>10, <1>11

\* The request that the worker takes moves from its queue to the worker.
LEMMA ReceiveRequests ==
    ASSUME DispatchInv, pc # "executing",
           \/ /\ ReceiveHigh /\ UNCHANGED s_normal_prio_queue
           \/ /\ ReceiveNormal /\ UNCHANGED s_high_prio_queue
    PROVE  RequestsBelong' /\ \A u \in Tasks : RequestedOnce(u)'
<1>1. current = NoRequest /\ \A u \in Tasks : ~InWorker(u)
  BY DEF DispatchInv, WorkerHolds, InWorker
<1>2. ASSUME NEW r \in Requests, Serve(r), Belongs(r)
      PROVE  /\ \A u \in Tasks : Waiting(u)' = Waiting(u) /\ Answered(u)' = Answered(u)
             /\ \A q \in Requests : Belongs(q) => Belongs(q)'
             /\ (current # NoRequest)' => Belongs(current)'
             /\ \A u \in Tasks : InWorker(u)' <=> r.task = u /\ r.live
  <2>1. /\ current' = r /\ UNCHANGED sems
        /\ \A u \in Tasks : SameCall(calls[u], calls'[u])
    BY <1>2, ServeType DEF DispatchInv
  <2>2. \A u \in Tasks : /\ Waiting(u)' = Waiting(u) /\ Answered(u)' = Answered(u)
                         /\ calls'[u].sem = calls[u].sem
    BY <2>1 DEF Waiting, Answered, SameCall
  <2>3. \A q \in Requests : Belongs(q) => Belongs(q)'
    BY <2>2, RequestsAreTyped DEF Belongs, DispatchInv
  <2>4. Belongs(r)'
    BY <1>2, <2>3
  <2>5. r # NoRequest
    BY DispatchAssumption
  <2> QED BY <2>1, <2>2, <2>3, <2>4, <2>5 DEF InWorker, Belongs
<1>3. ASSUME ReceiveHigh, UNCHANGED s_normal_prio_queue
      PROVE  RequestsBelong' /\ \A u \in Tasks : RequestedOnce(u)'
  <2>1. /\ s_high_prio_queue \in Seq(Requests) /\ s_high_prio_queue # <<>>
        /\ s_high_prio_queue' = Tail(s_high_prio_queue)
        /\ Serve(Head(s_high_prio_queue))
    BY <1>3, RequestsAreTyped DEF ReceiveHigh, DispatchInv
  <2>2. PICK r \in Requests : r = Head(s_high_prio_queue) /\ Belongs(r) /\ Serve(r)
    <3>1. 1 \in DOMAIN s_high_prio_queue /\ Head(s_high_prio_queue) = s_high_prio_queue[1]
      BY <2>1
    <3> QED BY <2>1, <3>1, RequestsAreTyped DEF DispatchInv, RequestsBelong
  <2>3. /\ \A u \in Tasks : Waiting(u)' = Waiting(u) /\ Answered(u)' = Answered(u)
        /\ \A q \in Requests : Belongs(q) => Belongs(q)'
        /\ (current # NoRequest)' => Belongs(current)'
        /\ \A u \in Tasks : InWorker(u)' <=> r.task = u /\ r.live
    BY <1>2, <2>2
  <2>4. RequestsBelong'
    <3>1. ASSUME NEW i \in DOMAIN s_high_prio_queue'
          PROVE  Belongs(s_high_prio_queue[i])'
      <4>1. i + 1 \in DOMAIN s_high_prio_queue /\ s_high_prio_queue'[i] = s_high_prio_queue[i + 1]
        BY <2>1, <3>1
      <4>2. PICK x \in Requests : x = s_high_prio_queue'[i] /\ Belongs(x)
        BY <4>1, RequestsAreTyped DEF RequestsBelong, DispatchInv
      <4> QED BY <2>3, <4>2 DEF Belongs
    <3>2. ASSUME NEW i \in DOMAIN s_normal_prio_queue'
          PROVE  Belongs(s_normal_prio_queue[i])'
      BY <1>3, <2>3, RequestsAreTyped DEF RequestsBelong, DispatchInv, Belongs
    <3> QED BY <2>3, <3>1, <3>2 DEF RequestsBelong
  <2>5. ASSUME NEW u \in Tasks PROVE RequestedOnce(u)'
    <3>1. /\ RequestedOnce(u) /\ ~InWorker(u)
          /\ Waiting(u)' = Waiting(u) /\ Answered(u)' = Answered(u)
          /\ InWorker(u)' <=> r.task = u /\ r.live
      BY <1>1, <2>3 DEF DispatchInv
    <3>2. Lives(s_normal_prio_queue, u)' = Lives(s_normal_prio_queue, u)
      BY <1>3 DEF Lives
    <3>3. Lives(s_high_prio_queue, u)' = Lives(Tail(s_high_prio_queue), u)
      BY <2>1 DEF Lives
    <3>4. AtMostOne(Lives(s_high_prio_queue, u))
      BY <3>1 DEF RequestedOnce
    <3>5. /\ AtMostOne(Lives(Tail(s_high_prio_queue), u))
          /\ r.task = u /\ r.live => /\ Lives(Tail(s_high_prio_queue), u) = {}
                                     /\ Lives(s_high_prio_queue, u) # {}
          /\ ~(r.task = u /\ r.live) /\ Lives(s_high_prio_queue, u) # {}
               => Lives(Tail(s_high_prio_queue), u) # {}
          /\ Lives(s_high_prio_queue, u) = {} => Lives(Tail(s_high_prio_queue), u) = {}
      BY <2>1, <2>2, <3>4, HeadLeaves
    <3> QED BY <3>1, <3>2, <3>3, <3>5 DEF RequestedOnce, AtMostOne
  <2> QED BY <2>4, <2>5
<1>4. ASSUME ReceiveNormal, UNCHANGED s_high_prio_queue
      PROVE  RequestsBelong' /\ \A u \in Tasks : RequestedOnce(u)'
  <2>1. /\ s_normal_prio_queue \in Seq(Requests) /\ s_normal_prio_queue # <<>>
        /\ s_normal_prio_queue' = Tail(s_normal_prio_queue)
        /\ Serve(Head(s_normal_prio_queue))
    BY <1>4, RequestsAreTyped DEF ReceiveNormal, DispatchInv
  <2>2. PICK r \in Requests : r = Head(s_normal_prio_queue) /\ Belongs(r) /\ Serve(r)
    <3>1. 1 \in DOMAIN s_normal_prio_queue /\ Head(s_normal_prio_queue) = s_normal_prio_queue[1]
      BY <2>1
    <3> QED BY <2>1, <3>1, RequestsAreTyped DEF DispatchInv, RequestsBelong
  <2>3. /\ \A u \in Tasks : Waiting(u)' = Waiting(u) /\ Answered(u)' = Answered(u)
        /\ \A q \in Requests : Belongs(q) => Belongs(q)'
        /\ (current # NoRequest)' => Belongs(current)'
        /\ \A u \in Tasks : InWorker(u)' <=> r.task = u /\ r.live
    BY <1>2, <2>2
  <2>4. RequestsBelong'
    <3>1. ASSUME NEW i \in DOMAIN s_normal_prio_queue'
          PROVE  Belongs(s_normal_prio_queue[i])'
      <4>1. i + 1 \in DOMAIN s_normal_prio_queue /\ s_normal_prio_queue'[i] = s_normal_prio_queue[i + 1]
        BY <2>1, <3>1
      <4>2. PICK x \in Requests : x = s_normal_prio_queue'[i] /\ Belongs(x)
        BY <4>1, RequestsAreTyped DEF RequestsBelong, DispatchInv
      <4> QED BY <2>3, <4>2 DEF Belongs
    <3>2. ASSUME NEW i \in DOMAIN s_high_prio_queue'
          PROVE  Belongs(s_high_prio_queue[i])'
      BY <1>4, <2>3, RequestsAreTyped DEF RequestsBelong, DispatchInv, Belongs
    <3> QED BY <2>3, <3>1, <3>2 DEF RequestsBelong
  <2>5. ASSUME NEW u \in Tasks PROVE RequestedOnce(u)'
    <3>1. /\ RequestedOnce(u) /\ ~InWorker(u)
          /\ Waiting(u)' = Waiting(u) /\ Answered(u)' = Answered(u)
          /\ InWorker(u)' <=> r.task = u /\ r.live
      BY <1>1, <2>3 DEF DispatchInv
    <3>2. Lives(s_high_prio_queue, u)' = Lives(s_high_prio_queue, u)
      BY <1>4 DEF Lives
    <3>3. Lives(s_normal_prio_queue, u)' = Lives(Tail(s_normal_prio_queue), u)
      BY <2>1 DEF Lives
    <3>4. AtMostOne(Lives(s_normal_prio_queue, u))
      BY <3>1 DEF RequestedOnce
    <3>5. /\ AtMostOne(Lives(Tail(s_normal_prio_queue), u))
          /\ r.task = u /\ r.live => /\ Lives(Tail(s_normal_prio_queue), u) = {}
                                     /\ Lives(s_normal_prio_queue, u) # {}
          /\ ~(r.task = u /\ r.live) /\ Lives(s_normal_prio_queue, u) # {}
               => Lives(Tail(s_normal_prio_queue), u) # {}
          /\ Lives(s_normal_prio_queue, u) = {} => Lives(Tail(s_normal_prio_queue), u) = {}
      BY <2>1, <2>2, <3>4, HeadLeaves
    <3> QED BY <3>1, <3>2, <3>3, <3>5 DEF RequestedOnce, AtMostOne
  <2> QED BY <2>4, <2>5
<1> QED BY <1>3, <1>4

\* The worker gives the semaphore of the request it completes: if that request
\* belongs to a call, the call is woken.
LEMMA CompleteRequests ==
    ASSUME DispatchInv, NEW status, CompleteRequest(status)
    PROVE  RequestsBelong' /\ \A u \in Tasks : RequestedOnce(u)'
<1>1. /\ current \in Requests /\ current # NoRequest /\ Belongs(current)
      /\ current' = NoRequest /\ UNCHANGED <<queues, calls>>
  BY DEF CompleteRequest, DispatchInv, WorkerHolds, TypeOK, RequestsBelong
<1>2. \A h \in Handles : sems[h] = "given" => sems'[h] = "given"
  BY DEF CompleteRequest, GiveSemaphore, DispatchInv, TypeOK
<1>3. \A u \in Tasks : Waiting(u) => calls[u].sem \in Handles
  BY DEF DispatchInv, TypeOK, CallersHoldSemaphores, Calls, Waiting
<1>4. \A u \in Tasks : /\ Waiting(u)' = Waiting(u)
                       /\ Answered(u) => Answered(u)'
  BY <1>1, <1>2, <1>3 DEF Waiting, Answered
<1>5. \A q \in Requests : Belongs(q) => Belongs(q)'
  BY <1>1, <1>4, RequestsAreTyped DEF Belongs, DispatchInv
<1>6. RequestsBelong'
  BY <1>1, <1>5, RequestsAreTyped DEF RequestsBelong, DispatchInv, queues
<1>7. ASSUME NEW u \in Tasks, InWorker(u) PROVE Answered(u)'
  <2>1. Waiting(u) /\ current.sem = calls[u].sem
    BY <1>1, <1>7 DEF InWorker, Belongs
  <2>2. calls[u].sem \in Handles /\ sems[calls[u].sem] # "free"
    BY <1>3, <2>1 DEF DispatchInv, SemaphoresAreAccountedFor
  <2>3. sems'[calls[u].sem] = "given"
    BY <2>1, <2>2 DEF CompleteRequest, GiveSemaphore, DispatchInv, TypeOK
  <2> QED BY <1>1, <1>4, <2>1, <2>3 DEF Answered
<1>8. ASSUME NEW u \in Tasks PROVE RequestedOnce(u)'
  <2>1. RequestedOnce(u) /\ ~InWorker(u)'
    BY <1>1 DEF DispatchInv, InWorker
  <2>2. /\ Lives(s_high_prio_queue, u)' = Lives(s_high_prio_queue, u)
        /\ Lives(s_normal_prio_queue, u)' = Lives(s_normal_prio_queue, u)
    BY <1>1 DEF Lives, queues
  <2> QED BY <1>4, <1>7, <2>1, <2>2 DEF RequestedOnce, AtMostOne
<1> QED BY <1>6, <1>8

-----------------------------------------------------------------------------
(***************************************************************************)
(* The invariant                                                           *)
(***************************************************************************)

LEMMA DispatchInit == Init => DispatchInv
<1> SUFFICES ASSUME Init PROVE DispatchInv
  OBVIOUS
<1> USE DEF Init
<1>1. TypeOK
  <2>1. calls \in [Tasks -> Calls] /\ resp \in [Tasks -> Responses]
    BY NoCallIsCall, BlankIsResponse
  <2>2. HealthTypeOK
    BY HealthAssumption DEF HealthInit, HealthTypeOK, HealthStates
  <2>3. /\ <<>> \in Seq(Requests) /\ Len(<<>>) = 0
        /\ 0 <= HighDepth /\ 0 <= NormalDepth
    BY DispatchAssumption
  <2>4. /\ s_high_prio_queue = <<>> /\ s_normal_prio_queue = <<>>
        /\ sems \in [Handles -> {"free", "empty", "given"}]
        /\ overtaken \in [Tasks -> 0 .. 2]
    OBVIOUS
  <2> QED BY <2>1, <2>2, <2>3, <2>4 DEF TypeOK
<1>2. WorkerHolds /\ CallersHoldSemaphores /\ SemaphoresAreAccountedFor
  BY DispatchAssumption
     DEF WorkerHolds, CallersHoldSemaphores, SemaphoresAreAccountedFor, NoCall
<1>3. RequestsBelong
  BY DEF RequestsBelong
<1>4. \A t \in Tasks : RequestedOnce(t)
  BY DEF RequestedOnce, Lives, AtMostOne, InWorker, Waiting, NoCall
<1> QED BY <1>1, <1>2, <1>3, <1>4 DEF DispatchInv

LEMMA DispatchStep == DispatchInv /\ [Next]_vars => DispatchInv'
<1> SUFFICES ASSUME DispatchInv, [Next]_vars PROVE DispatchInv'
  OBVIOUS
<1>1. \A t \in Tasks : SameCall(calls[t], calls[t])
  BY DelayedCall DEF DispatchInv, TypeOK
<1>2. ASSUME NEW t \in Tasks, Caller(t) PROVE DispatchInv'
  <2>1. /\ TypeOK' /\ WorkerHolds'
        /\ CallersHoldSemaphores' /\ SemaphoresAreAccountedFor'
    BY <1>2, CallerType, CallerSemaphores DEF DispatchInv
  <2>2. RequestsBelong' /\ \A u \in Tasks : RequestedOnce(u)'
    <3>1. ASSUME NEW op \in Ops[t], NEW h \in Handles, BeginCall(t, op, h)
          PROVE  RequestsBelong' /\ \A u \in Tasks : RequestedOnce(u)'
      BY <3>1, BeginRequests
    <3>2. CASE Enqueue(t)
      BY <3>2, EnqueueRequests
    <3>3. CASE CallRefused(t) \/ CallReturns(t) \/ CallTimesOut(t)
      BY <3>3, LeaveRequests DEF CallRefused, CallReturns, CallTimesOut
    <3> QED BY <1>2, <3>1, <3>2, <3>3 DEF Caller
  <2> QED BY <2>1, <2>2 DEF DispatchInv
<1>3. ASSUME Worker \/ ProbeIntervalElapses \/ UNCHANGED vars PROVE DispatchInv'
  <2>1. TypeOK' /\ WorkerHolds'
    BY <1>3, WorkerType DEF DispatchInv
  <2>2. ASSUME \/ WorkerReady \/ CheckHigh \/ ReceiveNothing \/ SkipProbe
               \/ StartProbe \/ ProbeIntervalElapses \/ UNCHANGED vars
               \/ \E status \in Statuses : EndProbe(status)
        PROVE  DispatchInv'
    <3>1. UNCHANGED <<queues, current, sems>>
      BY <2>2 DEF WorkerReady, CheckHigh, ReceiveNothing, SkipProbe, StartProbe,
                  ProbeIntervalElapses, EndProbe, vars
    <3>2. \A t \in Tasks : SameCall(calls[t], calls'[t])
      <4>1. CASE StartProbe
        BY <4>1, DelayedCall DEF StartProbe, DispatchInv, TypeOK
      <4>2. CASE UNCHANGED calls
        BY <1>1, <4>2
      <4> QED BY <2>2, <4>1, <4>2
              DEF WorkerReady, CheckHigh, ReceiveNothing, SkipProbe,
                  ProbeIntervalElapses, EndProbe, vars
    <3>3. CallersHoldSemaphores' /\ SemaphoresAreAccountedFor'
      BY <3>1, <3>2, WorkerSemaphores DEF DispatchInv
    <3>4. RequestsBelong' /\ \A t \in Tasks : RequestedOnce(t)'
      BY <3>1, <3>2, UnchangedRequests
    <3> QED BY <2>1, <3>3, <3>4 DEF DispatchInv
  <2>3. ASSUME ReceiveHigh \/ ReceiveNormal PROVE DispatchInv'
    <3>1. PICK r \in Requests : Serve(r)
      BY <2>3 DEF ReceiveHigh, ReceiveNormal, DispatchInv, TypeOK
    <3>2. UNCHANGED sems /\ \A t \in Tasks : SameCall(calls[t], calls'[t])
      BY <3>1, ServeType DEF DispatchInv
    <3>3. CallersHoldSemaphores' /\ SemaphoresAreAccountedFor'
      BY <3>2, WorkerSemaphores DEF DispatchInv
    <3>4. RequestsBelong' /\ \A t \in Tasks : RequestedOnce(t)'
      BY <2>3, ReceiveRequests DEF ReceiveHigh, ReceiveNormal
    <3> QED BY <2>1, <3>3, <3>4 DEF DispatchInv
  <2>4. ASSUME NEW status \in Statuses, CompleteRequest(status) PROVE DispatchInv'
    <3>1. GiveSemaphore(current.sem) /\ UNCHANGED calls
      BY <2>4 DEF CompleteRequest
    <3>2. CallersHoldSemaphores' /\ SemaphoresAreAccountedFor'
      BY <1>1, <3>1, WorkerSemaphores DEF DispatchInv
    <3>3. RequestsBelong' /\ \A t \in Tasks : RequestedOnce(t)'
      BY <2>4, CompleteRequests
    <3> QED BY <2>1, <3>2, <3>3 DEF DispatchInv
  <2> QED BY <1>3, <2>2, <2>3, <2>4 DEF Worker
<1> QED BY <1>2, <1>3 DEF Next

\* The queues, the semaphores, the callers and the worker agree, in every state
\* that any schedule of bacnet_worker_dispatch_sync and the worker task reaches.
THEOREM DispatchInvariant == Spec => []DispatchInv
<1> QED BY DispatchInit, DispatchStep, PTL DEF Spec

\* No queue ever holds more than its depth, and every variable keeps its type.
THEOREM DispatchTypes == Spec => []TypeOK
<1>1. DispatchInv => TypeOK
  BY DEF DispatchInv
<1> QED BY <1>1, DispatchInvariant, PTL

\* No semaphore leaks on any way out of a call and no two calls share one,
\* however many calls time out and however handles are reused.
THEOREM SemaphoresAlwaysAccountedFor == Spec => []SemaphoresAreAccountedFor
<1>1. DispatchInv => SemaphoresAreAccountedFor
  BY DEF DispatchInv
<1> QED BY <1>1, DispatchInvariant, PTL

LEMMA OnePlace ==
    ASSUME DispatchInv PROVE NoCallIsLost
<1> SUFFICES ASSUME NEW t \in Tasks
             PROVE  /\ Waiting(t) /\ ~Answered(t) => Cardinality(PlacesOf(t)) = 1
                    /\ ~Waiting(t) => PlacesOf(t) = {}
  BY DEF NoCallIsLost
<1> DEFINE H == Lives(s_high_prio_queue, t)
           N == Lives(s_normal_prio_queue, t)
           W == IF InWorker(t) THEN {<<"worker", 0>>} ELSE {}
<1>1. PlacesOf(t) = {<<"high", i>> : i \in H} \cup {<<"normal", i>> : i \in N} \cup W
  BY DEF PlacesOf, Lives, InWorker
<1>2. AtMostOne(H) /\ AtMostOne(N) /\ (H = {} \/ N = {})
      /\ (InWorker(t) => H = {} /\ N = {})
      /\ (Waiting(t) /\ ~Answered(t) => H # {} \/ N # {} \/ InWorker(t))
  BY DEF DispatchInv, RequestedOnce
<1>3. ~Waiting(t) => PlacesOf(t) = {}
  <2> HAVE ~Waiting(t)
  <2>1. H = {} /\ N = {} /\ ~InWorker(t)
    BY NoRequestBeforeWaiting
  <2> HIDE DEF H, N
  <2> QED BY <1>1, <2>1
<1> HIDE DEF H, N
<1>4. ASSUME Waiting(t), ~Answered(t) PROVE \E p : PlacesOf(t) = {p}
  <2>1. CASE InWorker(t)
    BY <1>1, <1>2, <2>1
  <2>2. CASE ~InWorker(t) /\ H # {}
    <3>1. PICK i \in H : H = {i}
      BY <1>2, <2>2 DEF AtMostOne
    <3>2. PlacesOf(t) = {<<"high", i>>}
      BY <1>1, <1>2, <2>2, <3>1
    <3> QED BY <3>2
  <2>3. CASE ~InWorker(t) /\ H = {}
    <3>1. PICK i \in N : N = {i}
      BY <1>2, <1>4, <2>3 DEF AtMostOne
    <3>2. PlacesOf(t) = {<<"normal", i>>}
      BY <1>1, <2>3, <3>1
    <3> QED BY <3>2
  <2> QED BY <2>1, <2>2, <2>3
<1>5. Waiting(t) /\ ~Answered(t) => Cardinality(PlacesOf(t)) = 1
  BY <1>4, FS_Singleton
<1> QED BY <1>3, <1>5

\* A caller that has not been woken has exactly one request in the queues or in
\* the worker's hands; one that was refused or has given up has none left that
\* would be taken for a later call's.
THEOREM NoCallIsEverLost == Spec => []NoCallIsLost
<1> QED BY OnePlace, DispatchInvariant, PTL

-----------------------------------------------------------------------------
(***************************************************************************)
(* Priorities                                                              *)
(***************************************************************************)

\* A call that the worker sees on the high queue while it waits on the normal
\* one was queued during that wait: the worker had found the high queue empty.
NotYetOvertaken ==
    \A t \in Tasks :
      /\ overtaken[t] <= 1
      /\ pc = "waitNormal" /\ OnHighQueue(t) => overtaken[t] = 0

LEMMA OnHighIsLive ==
    ASSUME NEW t \in Tasks
    PROVE  /\ OnHighQueue(t) <=> Lives(s_high_prio_queue, t) # {}
           /\ OnHighQueue(t)' <=> Lives(s_high_prio_queue, t)' # {}
BY DEF OnHighQueue, Lives

LEMMA OvertakenStep == DispatchInv /\ NotYetOvertaken /\ [Next]_vars => NotYetOvertaken'
<1> SUFFICES ASSUME DispatchInv, NotYetOvertaken, [Next]_vars PROVE NotYetOvertaken'
  OBVIOUS
<1>1. overtaken \in [Tasks -> 0 .. 2] /\ s_high_prio_queue \in Seq(Requests)
  BY RequestsAreTyped DEF DispatchInv, TypeOK
<1>2. ASSUME NEW t \in Tasks, Enqueue(t) PROVE NotYetOvertaken'
  <2>1. ASSUME NEW u \in Tasks, u # t, OnHighQueue(u)' PROVE OnHighQueue(u)
    <3>1. CASE UNCHANGED s_high_prio_queue
      BY <2>1, <3>1 DEF OnHighQueue
    <3>2. CASE s_high_prio_queue' = Append(s_high_prio_queue, RequestOf(t))
      <4>1. PICK r \in Requests : r = RequestOf(t) /\ r.task = t
        <5>1. calls[t] \in Calls /\ calls[t].sem \in Handles
          BY <1>2 DEF DispatchInv, TypeOK, Enqueue, CallersHoldSemaphores, Calls
        <5>2. RequestOf(t) \in Requests /\ RequestOf(t).task = t
          BY <5>1 DEF RequestOf, Requests, Calls
        <5> QED BY <5>2
      <4>2. Lives(Append(s_high_prio_queue, r), u) = Lives(s_high_prio_queue, u)
        BY <1>1, <2>1, <4>1, LivesOfAppend
      <4>3. Lives(s_high_prio_queue, u)' = Lives(Append(s_high_prio_queue, r), u)
        BY <3>2, <4>1 DEF Lives
      <4> QED BY <2>1, <4>2, <4>3, OnHighIsLive
    <3> QED BY <1>2, <3>1, <3>2 DEF Enqueue
  <2>2. /\ overtaken'[t] = 0 /\ UNCHANGED pc
        /\ \A u \in Tasks : u # t => overtaken'[u] = overtaken[u]
    BY <1>1, <1>2 DEF Enqueue
  <2> QED BY <2>1, <2>2 DEF NotYetOvertaken
<1>3. ASSUME NEW t \in Tasks, LeaveCall(t) PROVE NotYetOvertaken'
  <2>1. PICK p : /\ p = [i \in DOMAIN s_high_prio_queue |-> Orphaned(s_high_prio_queue[i], t)]
                 /\ s_high_prio_queue' = p
    BY <1>3 DEF LeaveCall
  <2>2. ASSUME NEW u \in Tasks, u # t PROVE OnHighQueue(u)' = OnHighQueue(u)
    <3>1. Lives(p, u) = Lives(s_high_prio_queue, u)
      BY <1>1, <2>1, <2>2, LivesOfOrphaned
    <3>2. Lives(s_high_prio_queue, u)' = Lives(p, u)
      BY <2>1 DEF Lives
    <3>3. Lives(s_high_prio_queue, u)' = Lives(s_high_prio_queue, u)
      BY <3>1, <3>2
    <3>4. OnHighQueue(u)' <=> OnHighQueue(u)
      BY <3>3, OnHighIsLive
    <3>5. OnHighQueue(u) \in BOOLEAN /\ OnHighQueue(u)' \in BOOLEAN
      BY DEF OnHighQueue
    <3> QED BY <3>4, <3>5
  <2>3. /\ overtaken'[t] = 0 /\ UNCHANGED pc
        /\ \A u \in Tasks : u # t => overtaken'[u] = overtaken[u]
    BY <1>1, <1>3 DEF LeaveCall
  <2> QED BY <2>2, <2>3 DEF NotYetOvertaken
<1>4. ASSUME NEW t \in Tasks, NEW op \in Ops[t], NEW h \in Handles, BeginCall(t, op, h)
      PROVE  NotYetOvertaken'
  BY <1>4 DEF BeginCall, NotYetOvertaken, OnHighQueue, queues
<1>5. CASE CheckHigh
  <2>1. \A t \in Tasks : ~OnHighQueue(t)'
    BY <1>5 DEF CheckHigh, FindsNoHigh, OnHighQueue, queues
  <2> QED BY <1>5, <2>1 DEF CheckHigh, NotYetOvertaken
<1>6. CASE ReceiveNormal
  <2>1. pc = "waitNormal" /\ pc' # "waitNormal"
    BY <1>6 DEF ReceiveNormal, Serve
  <2>2. \A t \in Tasks : overtaken'[t] <= 1
    BY <1>1, <1>6, <2>1 DEF ReceiveNormal, NotYetOvertaken
  <2> QED BY <2>1, <2>2 DEF NotYetOvertaken
<1>7. ASSUME UNCHANGED overtaken, pc' # "waitNormal" PROVE NotYetOvertaken'
  BY <1>7 DEF NotYetOvertaken
<1>8. ASSUME UNCHANGED <<overtaken, pc, s_high_prio_queue>> PROVE NotYetOvertaken'
  BY <1>8 DEF NotYetOvertaken, OnHighQueue
<1>9. ASSUME \/ WorkerReady \/ ReceiveHigh \/ ReceiveNothing \/ StartProbe \/ SkipProbe
             \/ \E status \in Statuses : CompleteRequest(status) \/ EndProbe(status)
      PROVE  NotYetOvertaken'
  BY <1>7, <1>9 DEF WorkerReady, ReceiveHigh, Serve, ReceiveNothing, StartProbe,
                    SkipProbe, CompleteRequest, EndProbe
<1>10. ASSUME ProbeIntervalElapses \/ UNCHANGED vars PROVE NotYetOvertaken'
  BY <1>8, <1>10 DEF ProbeIntervalElapses, vars, queues
<1>11. ASSUME NEW t \in Tasks, Caller(t) PROVE NotYetOvertaken'
  BY <1>2, <1>3, <1>4, <1>11 DEF Caller, CallRefused, CallReturns, CallTimesOut
<1> QED BY <1>5, <1>6, <1>9, <1>10, <1>11 DEF Next, Worker

\* A write or a discovery that is queued waits for at most one read that the
\* worker takes after it, although the worker can block on the normal queue
\* while the high one fills.
THEOREM HighNeverOvertakenTwice == Spec => []HighOvertakenAtMostOnce
<1>1. Init => NotYetOvertaken
  BY DEF Init, NotYetOvertaken
<1>2. NotYetOvertaken => HighOvertakenAtMostOnce
  BY DEF NotYetOvertaken, HighOvertakenAtMostOnce
<1> QED BY <1>1, <1>2, OvertakenStep, DispatchInvariant, PTL DEF Spec
=============================================================================
