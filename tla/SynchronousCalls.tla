-------------------------- MODULE SynchronousCalls --------------------------
(***************************************************************************)
(* What bacnet_worker_dispatch_sync promises a task: it makes one call at  *)
(* a time, the call is served at most once, it returns with the answer it  *)
(* was served, or it is refused because the queue is full.                 *)
(* BacnetDispatch implements this as long as no call times out.            *)
(***************************************************************************)
CONSTANT Tasks

VARIABLE call

States == {"idle", "pending", "answered"}

Init == call = [t \in Tasks |-> "idle"]

Move(t, from, to) == call[t] = from /\ call' = [call EXCEPT ![t] = to]

Begin(t)  == Move(t, "idle", "pending")
Serve(t)  == Move(t, "pending", "answered")
Refuse(t) == Move(t, "pending", "idle")
Return(t) == Move(t, "answered", "idle")

Next == \E t \in Tasks : Begin(t) \/ Serve(t) \/ Refuse(t) \/ Return(t)

Spec == Init /\ [][Next]_call
=============================================================================
