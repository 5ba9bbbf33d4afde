------------------------ MODULE SynchronousCalls_proofs ------------------------
(***************************************************************************)
(* As long as no call times out, bacnet_worker_dispatch_sync is what its   *)
(* callers take it for, a synchronous call: whoever is woken finds the     *)
(* answer to its own request, for any number of tasks, handles and places  *)
(* in the queues.  With timeouts neither theorem holds: an orphan of an    *)
(* earlier call may write into the frame of a later one.                   *)
(***************************************************************************)
EXTENDS BacnetDispatch_proofs

\* Every request belongs to a call that is still waiting for it, and a call
\* whose semaphore was given has its own answer and no request left.
NothingIsLate ==
    /\ \A i \in DOMAIN s_high_prio_queue : s_high_prio_queue[i].live
    /\ \A i \in DOMAIN s_normal_prio_queue : s_normal_prio_queue[i].live
    /\ current # NoRequest => current.live
    /\ \A t \in Tasks : calls[t].phase = "sending" => sems[calls[t].sem] = "empty"
    /\ \A t \in Tasks :
         Answered(t) => /\ resp[t].own
                        /\ Lives(s_high_prio_queue, t) = {}
                        /\ Lives(s_normal_prio_queue, t) = {}
                        /\ ~InWorker(t)

\* What a caller sees of its call.
StatusOf(t) ==
    IF calls[t].phase = "idle" THEN "idle"
    ELSE IF ~Answered(t) THEN "pending"
    ELSE IF resp[t].own THEN "answered" ELSE "misanswered"

\* The call as SynchronousCalls has it.
AbstractCall == [t \in Tasks |-> StatusOf(t)]

\* A step leaves what the callers see alone.
NothingSeen == \A t \in Tasks : StatusOf(t)' = StatusOf(t)

\* Only task t sees a change.
OnlySeenBy(t) == \A u \in Tasks : u # t => StatusOf(u)' = StatusOf(u)
-----------------------------------------------------------------------------
LEMMA HandleOfCall ==
    ASSUME DispatchInv, NEW t \in Tasks, calls[t].phase # "idle"
    PROVE  /\ calls[t] \in Calls /\ calls[t].sem \in Handles
           /\ sems[calls[t].sem] \in {"empty", "given"}
           /\ \A u \in Tasks : u # t => calls[u].sem # calls[t].sem
<1>1. calls[t] \in Calls /\ calls[t].sem \in Handles /\ calls[t].sem # NoHandle
  BY DispatchAssumption DEF DispatchInv, TypeOK, CallersHoldSemaphores, Calls
<1>2. sems[calls[t].sem] # "free"
  BY <1>1 DEF DispatchInv, SemaphoresAreAccountedFor
<1> QED BY <1>1, <1>2 DEF DispatchInv, SemaphoresAreAccountedFor, TypeOK

\* A call begins with an empty semaphore of its own.
LEMMA BeginStep ==
    ASSUME DispatchInv, NothingIsLate, NEW t \in Tasks, NEW op \in Ops[t],
           NEW h \in Handles, BeginCall(t, op, h)
    PROVE  /\ NothingIsLate' /\ OnlySeenBy(t)
           /\ StatusOf(t) = "idle" /\ StatusOf(t)' = "pending"
<1> USE DEF queues
<1>1. /\ calls[t].phase = "idle" /\ sems[h] = "free"
      /\ calls'[t].phase = "sending" /\ calls'[t].sem = h /\ sems'[h] = "empty"
      /\ \A u \in Tasks : u # t => calls'[u] = calls[u] /\ resp'[u] = resp[u]
      /\ \A g \in Handles : g # h => sems'[g] = sems[g]
      /\ UNCHANGED <<queues, current>>
  BY DEF BeginCall, DispatchInv, TypeOK
<1>2. ASSUME NEW u \in Tasks, u # t, calls[u].phase # "idle"
      PROVE  sems'[calls[u].sem] = sems[calls[u].sem]
  BY <1>1, <1>2, HandleOfCall
<1>3. \A u \in Tasks : u # t => /\ Answered(u)' = Answered(u)
                                /\ calls'[u].phase = calls[u].phase
                                /\ resp'[u] = resp[u]
  BY <1>1, <1>2 DEF Answered, Waiting
<1>4. ~Answered(t)'
  BY <1>1 DEF Answered, Waiting
<1>5. NothingIsLate'
  <2>1. \A u \in Tasks : calls'[u].phase = "sending" => sems'[calls'[u].sem] = "empty"
    BY <1>1, <1>2 DEF NothingIsLate
  <2>2. \A u \in Tasks : /\ Lives(s_high_prio_queue, u)' = Lives(s_high_prio_queue, u)
                         /\ Lives(s_normal_prio_queue, u)' = Lives(s_normal_prio_queue, u)
                         /\ InWorker(u)' = InWorker(u)
    BY <1>1 DEF Lives, InWorker
  <2> QED BY <1>1, <1>3, <1>4, <2>1, <2>2 DEF NothingIsLate
<1>6. OnlySeenBy(t)
  BY <1>3 DEF OnlySeenBy, StatusOf
<1> QED BY <1>1, <1>4, <1>5, <1>6 DEF StatusOf

\* A call that is refused, or returns, has no request left.
LEMMA LeaveStep ==
    ASSUME DispatchInv, NothingIsLate, NEW t \in Tasks,
           CallRefused(t) \/ CallReturns(t)
    PROVE  /\ NothingIsLate' /\ OnlySeenBy(t)
           /\ StatusOf(t) \in {"pending", "answered"} /\ StatusOf(t)' = "idle"
<1>1. LeaveCall(t) /\ calls[t].phase # "idle"
  BY DEF CallRefused, CallReturns
<1>2. /\ Lives(s_high_prio_queue, t) = {} /\ Lives(s_normal_prio_queue, t) = {}
      /\ ~InWorker(t)
  <2>1. CASE CallRefused(t)
    BY <2>1, NoRequestBeforeWaiting DEF CallRefused, Waiting
  <2>2. CASE CallReturns(t)
    BY <2>2 DEF CallReturns, NothingIsLate, Answered, Waiting
  <2> QED BY <2>1, <2>2
<1>3. \A i \in DOMAIN s_high_prio_queue : s_high_prio_queue[i].task # t
  BY <1>2 DEF NothingIsLate, Lives
<1>4. \A i \in DOMAIN s_normal_prio_queue : s_normal_prio_queue[i].task # t
  BY <1>2 DEF NothingIsLate, Lives
<1>5. s_high_prio_queue' = s_high_prio_queue
  <2>1. s_high_prio_queue = [i \in DOMAIN s_high_prio_queue |-> s_high_prio_queue[i]]
    BY RequestsAreTyped DEF DispatchInv
  <2> QED BY <1>1, <1>3, <2>1 DEF LeaveCall, Orphaned
<1>6. s_normal_prio_queue' = s_normal_prio_queue
  <2>1. s_normal_prio_queue = [i \in DOMAIN s_normal_prio_queue |-> s_normal_prio_queue[i]]
    BY RequestsAreTyped DEF DispatchInv
  <2> QED BY <1>1, <1>4, <2>1 DEF LeaveCall, Orphaned
<1>7. current' = current
  BY <1>1, <1>2 DEF LeaveCall, Orphaned, InWorker, NothingIsLate
<1>8. /\ calls'[t].phase = "idle"
      /\ \A u \in Tasks : u # t => calls'[u] = calls[u] /\ resp'[u] = resp[u]
      /\ \A g \in Handles : g # calls[t].sem => sems'[g] = sems[g]
  BY <1>1 DEF LeaveCall, NoCall, DeleteSemaphore, DispatchInv, TypeOK
<1>9. ASSUME NEW u \in Tasks, u # t, calls[u].phase # "idle"
      PROVE  sems'[calls[u].sem] = sems[calls[u].sem]
  BY <1>1, <1>8, <1>9, HandleOfCall
<1>10. \A u \in Tasks : u # t => /\ Answered(u)' = Answered(u)
                                 /\ calls'[u].phase = calls[u].phase
                                 /\ resp'[u] = resp[u]
  BY <1>8, <1>9 DEF Answered, Waiting
<1>11. ~Answered(t)'
  BY <1>8 DEF Answered, Waiting
<1>12. NothingIsLate'
  <2>1. \A u \in Tasks : calls'[u].phase = "sending" => sems'[calls'[u].sem] = "empty"
    BY <1>8, <1>9 DEF NothingIsLate
  <2>2. \A u \in Tasks : /\ Lives(s_high_prio_queue, u)' = Lives(s_high_prio_queue, u)
                         /\ Lives(s_normal_prio_queue, u)' = Lives(s_normal_prio_queue, u)
                         /\ InWorker(u)' = InWorker(u)
    BY <1>5, <1>6, <1>7 DEF Lives, InWorker
  <2> QED BY <1>5, <1>6, <1>7, <1>10, <1>11, <2>1, <2>2 DEF NothingIsLate
<1>13. OnlySeenBy(t)
  BY <1>10 DEF OnlySeenBy, StatusOf
<1>14. StatusOf(t) \in {"pending", "answered"}
  BY <1>1 DEF StatusOf, NothingIsLate
<1> QED BY <1>8, <1>12, <1>13, <1>14 DEF StatusOf

\* The request goes to the end of a queue, and nobody has been woken for it.
LEMMA EnqueueStep ==
    ASSUME DispatchInv, NothingIsLate, NEW t \in Tasks, Enqueue(t)
    PROVE  NothingIsLate' /\ NothingSeen
<1>1. /\ calls[t].phase = "sending" /\ calls'[t].phase = "waiting"
      /\ calls'[t].sem = calls[t].sem
      /\ \A u \in Tasks : u # t => calls'[u] = calls[u]
      /\ UNCHANGED <<current, resp, sems>>
  BY DEF Enqueue, DispatchInv, TypeOK, Calls
<1>2. sems[calls[t].sem] = "empty" /\ calls[t].sem \in Handles
  BY <1>1, HandleOfCall DEF NothingIsLate
<1>3. PICK r \in Requests : r = RequestOf(t) /\ r.task = t /\ r.live
  <2>1. RequestOf(t) \in Requests /\ RequestOf(t).task = t /\ RequestOf(t).live
    BY <1>1, <1>2, HandleOfCall DEF RequestOf, Requests, Calls
  <2> QED BY <2>1
<1>4. \A u \in Tasks : Answered(u)' <=> Answered(u)
  BY <1>1, <1>2 DEF Answered, Waiting
<1>5. ~Answered(t)
  BY <1>1 DEF Answered, Waiting
<1>6. \/ s_high_prio_queue' = Append(s_high_prio_queue, r) /\ UNCHANGED s_normal_prio_queue
      \/ s_normal_prio_queue' = Append(s_normal_prio_queue, r) /\ UNCHANGED s_high_prio_queue
  BY <1>3 DEF Enqueue
<1>7. ASSUME NEW u \in Tasks, u # t
      PROVE  /\ Lives(s_high_prio_queue, u)' = Lives(s_high_prio_queue, u)
             /\ Lives(s_normal_prio_queue, u)' = Lives(s_normal_prio_queue, u)
             /\ InWorker(u)' = InWorker(u)
  <2>1. /\ Lives(Append(s_high_prio_queue, r), u) = Lives(s_high_prio_queue, u)
        /\ Lives(Append(s_normal_prio_queue, r), u) = Lives(s_normal_prio_queue, u)
    BY <1>3, <1>7, RequestsAreTyped, LivesOfAppend DEF DispatchInv
  <2> QED BY <1>1, <1>6, <2>1 DEF Lives, InWorker
<1>8. /\ \A i \in DOMAIN s_high_prio_queue' : s_high_prio_queue'[i].live
      /\ \A i \in DOMAIN s_normal_prio_queue' : s_normal_prio_queue'[i].live
  <2>1. /\ \A i \in DOMAIN Append(s_high_prio_queue, r) : Append(s_high_prio_queue, r)[i].live
        /\ \A i \in DOMAIN Append(s_normal_prio_queue, r) : Append(s_normal_prio_queue, r)[i].live
    BY <1>3, RequestsAreTyped, LivesOfAppend DEF DispatchInv, NothingIsLate
  <2> QED BY <1>6, <2>1 DEF NothingIsLate
<1>9. \A u \in Tasks : calls'[u].phase = "sending" => sems'[calls'[u].sem] = "empty"
  BY <1>1 DEF NothingIsLate
<1>10. NothingIsLate'
  BY <1>1, <1>4, <1>5, <1>7, <1>8, <1>9 DEF NothingIsLate
<1>11. NothingSeen
  BY <1>1, <1>4, <1>5 DEF NothingSeen, StatusOf
<1> QED BY <1>10, <1>11

\* The worker takes a request off a queue: its call has not been woken.
LEMMA TakeStep ==
    ASSUME DispatchInv, NothingIsLate,
           \/ /\ ReceiveHigh /\ UNCHANGED s_normal_prio_queue
           \/ /\ ReceiveNormal /\ UNCHANGED s_high_prio_queue
    PROVE  NothingIsLate' /\ NothingSeen
<1>1. PICK r \in Requests :
        /\ Serve(r) /\ r.live
        /\ r.task \in Tasks /\ ~Answered(r.task)
        /\ \A u \in Tasks : u # r.task /\ Answered(u) =>
             /\ Lives(s_high_prio_queue, u)' = {}
             /\ Lives(s_normal_prio_queue, u)' = {}
        /\ \A i \in DOMAIN s_high_prio_queue' : s_high_prio_queue'[i].live
        /\ \A i \in DOMAIN s_normal_prio_queue' : s_normal_prio_queue'[i].live
  <2>1. CASE ReceiveHigh /\ UNCHANGED s_normal_prio_queue
    <3> DEFINE q == s_high_prio_queue
    <3>1. q \in Seq(Requests) /\ q # <<>> /\ q' = Tail(q) /\ Serve(Head(q))
      BY <2>1, RequestsAreTyped DEF ReceiveHigh, DispatchInv
    <3>2. 1 \in DOMAIN q /\ Head(q) = q[1] /\ q[1] \in Requests /\ q[1].live
          /\ q[1].task \in Tasks
      BY <3>1, RequestsAreTyped DEF DispatchInv, NothingIsLate
    <3>3. 1 \in Lives(q, q[1].task)
      BY <3>2 DEF Lives
    <3>4. ~Answered(q[1].task)
      BY <3>2, <3>3 DEF NothingIsLate
    <3>5. ASSUME NEW u \in Tasks, Answered(u)
          PROVE  Lives(q, u)' = {} /\ Lives(s_normal_prio_queue, u)' = {}
      <4>1. Lives(q, u) = {} /\ Lives(s_normal_prio_queue, u) = {}
        BY <3>5 DEF NothingIsLate
      <4>2. Lives(Tail(q), u) = {}
        BY <3>1, <4>1, HeadLeaves DEF AtMostOne
      <4> QED BY <2>1, <3>1, <4>1, <4>2 DEF Lives
    <3>6. \A i \in DOMAIN Tail(q) : Tail(q)[i].live
      <4>1. \A i \in DOMAIN Tail(q) : i + 1 \in DOMAIN q /\ Tail(q)[i] = q[i + 1]
        BY <3>1
      <4> QED BY <4>1 DEF NothingIsLate
    <3> QED BY <2>1, <3>1, <3>2, <3>4, <3>5, <3>6 DEF NothingIsLate
  <2>2. CASE ReceiveNormal /\ UNCHANGED s_high_prio_queue
    <3> DEFINE q == s_normal_prio_queue
    <3>1. q \in Seq(Requests) /\ q # <<>> /\ q' = Tail(q) /\ Serve(Head(q))
      BY <2>2, RequestsAreTyped DEF ReceiveNormal, DispatchInv
    <3>2. 1 \in DOMAIN q /\ Head(q) = q[1] /\ q[1] \in Requests /\ q[1].live
          /\ q[1].task \in Tasks
      BY <3>1, RequestsAreTyped DEF DispatchInv, NothingIsLate
    <3>3. 1 \in Lives(q, q[1].task)
      BY <3>2 DEF Lives
    <3>4. ~Answered(q[1].task)
      BY <3>2, <3>3 DEF NothingIsLate
    <3>5. ASSUME NEW u \in Tasks, Answered(u)
          PROVE  Lives(s_high_prio_queue, u)' = {} /\ Lives(q, u)' = {}
      <4>1. Lives(s_high_prio_queue, u) = {} /\ Lives(q, u) = {}
        BY <3>5 DEF NothingIsLate
      <4>2. Lives(Tail(q), u) = {}
        BY <3>1, <4>1, HeadLeaves DEF AtMostOne
      <4> QED BY <2>2, <3>1, <4>1, <4>2 DEF Lives
    <3>6. \A i \in DOMAIN Tail(q) : Tail(q)[i].live
      <4>1. \A i \in DOMAIN Tail(q) : i + 1 \in DOMAIN q /\ Tail(q)[i] = q[i + 1]
        BY <3>1
      <4> QED BY <4>1 DEF NothingIsLate
    <3> QED BY <2>2, <3>1, <3>2, <3>4, <3>5, <3>6 DEF NothingIsLate
  <2> QED BY <2>1, <2>2
<1>2. /\ current' = r /\ UNCHANGED <<resp, sems>>
      /\ \A u \in Tasks : SameCall(calls[u], calls'[u])
  BY <1>1, ServeType DEF DispatchInv
<1>3. \A u \in Tasks : /\ calls'[u].phase = calls[u].phase
                       /\ calls'[u].sem = calls[u].sem
                       /\ Answered(u)' <=> Answered(u)
  BY <1>2 DEF SameCall, Answered, Waiting
<1>4. \A u \in Tasks : Answered(u)' => ~InWorker(u)'
  BY <1>1, <1>2, <1>3 DEF InWorker
<1>5. \A u \in Tasks : Answered(u) => u # r.task
  BY <1>1
<1>6. NothingIsLate'
  BY <1>1, <1>2, <1>3, <1>4, <1>5 DEF NothingIsLate
<1>7. NothingSeen
  BY <1>2, <1>3 DEF NothingSeen, StatusOf
<1> QED BY <1>6, <1>7

\* The worker answers the request in hand and wakes its call, and no other.
LEMMA CompleteStep ==
    ASSUME DispatchInv, NothingIsLate, NEW status, CompleteRequest(status)
    PROVE  /\ NothingIsLate'
           /\ \E t \in Tasks : /\ OnlySeenBy(t)
                               /\ StatusOf(t) = "pending"
                               /\ StatusOf(t)' = "answered"
<1>1. /\ current \in Requests /\ current # NoRequest /\ Belongs(current)
      /\ current.live
      /\ current' = NoRequest /\ UNCHANGED <<queues, calls>>
  BY DEF CompleteRequest, DispatchInv, WorkerHolds, TypeOK, RequestsBelong, NothingIsLate
<1>2. PICK t \in Tasks : t = current.task
  BY <1>1, RequestsAreTyped DEF DispatchInv
<1>3. /\ Waiting(t) /\ InWorker(t) /\ current.sem = calls[t].sem
  BY <1>1, <1>2 DEF Belongs, InWorker
<1>4. /\ calls[t].sem \in Handles /\ sems[calls[t].sem] # "free"
      /\ \A u \in Tasks : u # t => calls[u].sem # calls[t].sem
  BY <1>3, HandleOfCall DEF Waiting
<1>5. /\ sems'[calls[t].sem] = "given"
      /\ \A g \in Handles : g # calls[t].sem => sems'[g] = sems[g]
  BY <1>3, <1>4 DEF CompleteRequest, GiveSemaphore, DispatchInv, TypeOK
<1>6. resp'[t].own /\ \A u \in Tasks : u # t => resp'[u] = resp[u]
  BY <1>1, <1>2 DEF CompleteRequest, WriteResponse, DispatchInv, TypeOK
<1>7. ~Answered(t) /\ Lives(s_high_prio_queue, t) = {} /\ Lives(s_normal_prio_queue, t) = {}
  BY <1>3 DEF NothingIsLate, DispatchInv, RequestedOnce
<1>8. ASSUME NEW u \in Tasks, u # t, calls[u].phase # "idle"
      PROVE  sems'[calls[u].sem] = sems[calls[u].sem]
  BY <1>4, <1>5, <1>8, HandleOfCall
<1>9. \A u \in Tasks : u # t => (Answered(u)' <=> Answered(u))
  BY <1>1, <1>8 DEF Answered, Waiting
<1>10. Answered(t)'
  BY <1>1, <1>3, <1>5 DEF Answered, Waiting
<1>11. NothingIsLate'
  <2>1. \A u \in Tasks : calls'[u].phase = "sending" => sems'[calls'[u].sem] = "empty"
    BY <1>1, <1>3, <1>8 DEF NothingIsLate, Waiting
  <2>2. \A u \in Tasks : /\ Lives(s_high_prio_queue, u)' = Lives(s_high_prio_queue, u)
                         /\ Lives(s_normal_prio_queue, u)' = Lives(s_normal_prio_queue, u)
                         /\ ~InWorker(u)'
    BY <1>1 DEF Lives, InWorker, queues
  <2> QED BY <1>1, <1>6, <1>7, <1>9, <2>1, <2>2 DEF NothingIsLate, queues
<1>12. OnlySeenBy(t)
  BY <1>1, <1>6, <1>9 DEF OnlySeenBy, StatusOf
<1>13. StatusOf(t) = "pending" /\ StatusOf(t)' = "answered"
  BY <1>1, <1>3, <1>6, <1>7, <1>10 DEF StatusOf, Waiting
<1> QED BY <1>11, <1>12, <1>13

\* Everything else the worker does the callers do not see.
LEMMA OtherStep ==
    ASSUME DispatchInv, NothingIsLate,
           \/ WorkerReady \/ CheckHigh \/ ReceiveNothing \/ SkipProbe
           \/ StartProbe \/ ProbeIntervalElapses \/ UNCHANGED vars
           \/ \E status \in Statuses : EndProbe(status)
    PROVE  NothingIsLate' /\ NothingSeen
<1>1. UNCHANGED <<queues, current, sems, resp>>
  BY DEF WorkerReady, CheckHigh, ReceiveNothing, SkipProbe, StartProbe,
         ProbeIntervalElapses, EndProbe, vars
<1>2. \A t \in Tasks : SameCall(calls[t], calls'[t])
  <2>1. \A t \in Tasks : SameCall(calls[t], calls[t])
    BY DelayedCall DEF DispatchInv, TypeOK
  <2>2. CASE StartProbe
    BY <2>2, DelayedCall DEF StartProbe, DispatchInv, TypeOK
  <2>3. CASE UNCHANGED calls
    BY <2>1, <2>3
  <2> QED BY <2>2, <2>3
          DEF WorkerReady, CheckHigh, ReceiveNothing, SkipProbe,
              ProbeIntervalElapses, EndProbe, vars
<1>3. \A u \in Tasks : /\ calls'[u].phase = calls[u].phase
                       /\ calls'[u].sem = calls[u].sem
                       /\ Answered(u)' <=> Answered(u)
  BY <1>1, <1>2 DEF SameCall, Answered, Waiting
<1>4. \A u \in Tasks : /\ Lives(s_high_prio_queue, u)' = Lives(s_high_prio_queue, u)
                       /\ Lives(s_normal_prio_queue, u)' = Lives(s_normal_prio_queue, u)
                       /\ InWorker(u)' = InWorker(u)
  BY <1>1 DEF Lives, InWorker, queues
<1>5. NothingIsLate'
  BY <1>1, <1>3, <1>4 DEF NothingIsLate, queues
<1>6. NothingSeen
  BY <1>1, <1>3 DEF NothingSeen, StatusOf
<1> QED BY <1>5, <1>6

-----------------------------------------------------------------------------
LEMMA NothingIsLateInit == Init => NothingIsLate
BY DEF Init, NothingIsLate, NoCall, Answered, Waiting

\* Without timeouts a step is seen by nobody, or by one task as one step of
\* its synchronous call.
LEMMA SynchronousStep ==
    ASSUME Impatient = {}, DispatchInv, NothingIsLate, [Next]_vars
    PROVE  /\ NothingIsLate'
           /\ \/ NothingSeen
              \/ \E t \in Tasks :
                   /\ OnlySeenBy(t)
                   /\ <<StatusOf(t), StatusOf(t)'>> \in
                        {<<"idle", "pending">>, <<"pending", "answered">>,
                         <<"pending", "idle">>, <<"answered", "idle">>}
<1>1. CASE \E t \in Tasks : Caller(t)
  <2>1. PICK t \in Tasks : Caller(t)
    BY <1>1
  <2>2. ASSUME NEW op \in Ops[t], NEW h \in Handles, BeginCall(t, op, h)
        PROVE  /\ NothingIsLate' /\ OnlySeenBy(t)
               /\ StatusOf(t) = "idle" /\ StatusOf(t)' = "pending"
    BY <2>2, BeginStep
  <2>3. CASE Enqueue(t)
    BY <2>3, EnqueueStep
  <2>4. CASE CallRefused(t) \/ CallReturns(t)
    BY <2>4, LeaveStep
  <2>5. ~CallTimesOut(t)
    BY DEF CallTimesOut
  <2> QED BY <2>1, <2>2, <2>3, <2>4, <2>5 DEF Caller
<1>2. CASE ReceiveHigh \/ ReceiveNormal
  BY <1>2, TakeStep DEF ReceiveHigh, ReceiveNormal
<1>3. ASSUME NEW status \in Statuses, CompleteRequest(status)
      PROVE  /\ NothingIsLate'
             /\ \E t \in Tasks : /\ OnlySeenBy(t)
                                 /\ StatusOf(t) = "pending"
                                 /\ StatusOf(t)' = "answered"
  BY <1>3, CompleteStep
<1>4. CASE \/ WorkerReady \/ CheckHigh \/ ReceiveNothing \/ SkipProbe
           \/ StartProbe \/ ProbeIntervalElapses \/ UNCHANGED vars
           \/ \E status \in Statuses : EndProbe(status)
  BY <1>4, OtherStep
<1> QED BY <1>1, <1>2, <1>3, <1>4 DEF Next, Worker

\* A caller that is woken finds the answer to its own request in its frame, as
\* long as no call gives up.
THEOREM AnswersAreOwn ==
    ASSUME Impatient = {} PROVE Spec => []CallersGetTheirOwnAnswer
<1>1. DispatchInv /\ NothingIsLate /\ [Next]_vars => NothingIsLate'
  BY SynchronousStep
<1>2. NothingIsLate => CallersGetTheirOwnAnswer
  BY DEF NothingIsLate, CallersGetTheirOwnAnswer
<1> QED BY <1>1, <1>2, NothingIsLateInit, DispatchInvariant, PTL DEF Spec

\* As long as no call gives up, the queues, the semaphores and the worker
\* together implement the synchronous call of SynchronousCalls.
THEOREM DispatchIsSynchronous ==
    ASSUME Impatient = {} PROVE Spec => CallsAreSynchronous
<1>1. Init => Abstract!Init
  BY DEF Init, Abstract!Init, NoCall
<1>2. DispatchInv /\ NothingIsLate /\ [Next]_vars
        => NothingIsLate' /\ (Abstract!Next \/ UNCHANGED AbstractCall)
  <2> SUFFICES ASSUME DispatchInv, NothingIsLate, [Next]_vars
               PROVE  NothingIsLate' /\ (Abstract!Next \/ UNCHANGED AbstractCall)
    OBVIOUS
  <2>1. CASE NothingSeen
    BY <2>1, SynchronousStep DEF NothingSeen, AbstractCall
  <2>2. ASSUME NEW t \in Tasks, OnlySeenBy(t),
               <<StatusOf(t), StatusOf(t)'>> \in
                 {<<"idle", "pending">>, <<"pending", "answered">>,
                  <<"pending", "idle">>, <<"answered", "idle">>}
        PROVE  Abstract!Next
    <3>1. ASSUME NEW from, NEW to, StatusOf(t) = from, StatusOf(t)' = to
          PROVE  /\ AbstractCall[t] = from
                 /\ AbstractCall' = [AbstractCall EXCEPT ![t] = to]
      BY <2>2, <3>1 DEF AbstractCall, OnlySeenBy
    <3>2. /\ AbstractCall[t] = StatusOf(t)
          /\ AbstractCall' = [AbstractCall EXCEPT ![t] = StatusOf(t)']
      BY <3>1
    <3> QED
      BY <2>2, <3>2
         DEF Abstract!Next, Abstract!Begin, Abstract!Serve, Abstract!Refuse,
             Abstract!Return, Abstract!Move, AbstractCall, StatusOf
  <2> QED BY <2>1, <2>2, SynchronousStep
<1> QED
  BY <1>1, <1>2, NothingIsLateInit, DispatchInvariant, PTL
     DEF Spec, CallsAreSynchronous, Abstract!Spec, AbstractCall, StatusOf
=============================================================================
