------------------------- MODULE BacnetTransactions -------------------------
(***************************************************************************)
(* The transaction engine of bacnet_worker.c: one worker task, one UDP     *)
(* socket, one slot in the transaction state machine of the BACnet stack   *)
(* (MAX_TSM_TRANSACTIONS=1).  The worker sends a confirmed request, pumps  *)
(* datagrams for a bounded time, and classifies the end of the transaction *)
(* for the caller and for the circuit breaker.  Meanwhile another task may *)
(* change the target, devices may announce themselves, and the network may *)
(* lose, delay, duplicate and reorder datagrams.                           *)
(*                                                                         *)
(* Where the requests come from, and who waits for the answers, is         *)
(* BacnetDispatch; here a request just appears at the top of the loop.     *)
(***************************************************************************)
EXTENDS Integers, TargetHealth

CONSTANTS
    Addrs,          \* addresses (IP and port) on the controller network
    NoAddr,         \* s_target_address after memset, before it is filled in
    BadIp,          \* a configured target IP that sscanf cannot parse
    Unbound,        \* a device that is not in the stack's Address_Cache
    Devices,        \* BACnet device instances
    Targets,        \* the <<device, ip>> pairs a user may configure
    IAmSources,     \* the <<device, address>> pairs that announce themselves
    CrowdedNetwork, \* TRUE: more devices announce themselves than
                    \* Address_Cache has entries, so that bindings are evicted
    IdMax,          \* the largest invoke ID (255: a uint8_t that skips 0)
    MaxLag,         \* bound on delay: a datagram is dropped once more than
                    \* MaxLag invoke IDs were allocated after its own
    ReplyKinds,     \* how a device may answer a read or a write
    ProbeKinds,     \* how a device may answer the probe
    MayDuplicate,   \* TRUE: the network may deliver a datagram twice
    Reachability    \* the values that reachable takes ({FALSE}: any wait may
                    \* expire; BOOLEAN: a reachable target is never too slow)

NegativeKinds == {"error", "abort", "reject", "badAck"}

\* An "undecodable" reply is one that no handler gets to see, such as an Error
\* whose class and code do not decode: the stack frees the slot all the same.
AllReplyKinds == {"ack", "undecodable"} \cup NegativeKinds

ASSUME NetworkAssumption ==
    /\ NoAddr \notin Addrs /\ BadIp \notin Addrs /\ Unbound \notin Addrs
    /\ Targets \subseteq Devices \X (Addrs \cup {BadIp})
    /\ IAmSources \subseteq Devices \X Addrs
    /\ CrowdedNetwork \in BOOLEAN /\ MayDuplicate \in BOOLEAN
    /\ Reachability \subseteq BOOLEAN
    /\ ReplyKinds \subseteq AllReplyKinds /\ ProbeKinds \subseteq AllReplyKinds

\* An answer is never so late that its invoke ID is in use again.
ASSUME LagAssumption ==
    /\ IdMax \in Nat /\ MaxLag \in Nat
    /\ MaxLag < IdMax

VARIABLES
    pc,                     \* where the worker task is
    op,                     \* the operation it executes
    probeDue,               \* BACNET_PROBE_INTERVAL_MS since the last probe
    s_target_dev_id, s_target_ip, s_target_address,
    setter,                 \* where a call of bacnet_worker_set_target is
    Address_Cache,          \* the stack's device table: device -> address
    Current_Invoke_ID,      \* the invoke ID the stack allocates next
    TSM_InvokeID,           \* the one entry of TSM_List; 0 is free
    s_current_invoke_id,
    s_reply_received, s_reply_errored, s_transaction_status,
    wire,                   \* datagrams in flight or in the socket buffer
    reachable,              \* the target answers, and does so in time
    prompt,                 \* it has done so since this transaction began
    applied,                \* history: the device executed this request
    outcome                 \* history: how the last transaction ended

targetVars == <<s_target_dev_id, s_target_ip, s_target_address, setter>>
replyVars  == <<s_reply_received, s_reply_errored, s_transaction_status>>
tsmVars    == <<Current_Invoke_ID, TSM_InvokeID, s_current_invoke_id>>
history    == <<applied, outcome>>
vars == <<pc, op, probeDue, targetVars, Address_Cache, tsmVars, replyVars,
          wire, reachable, prompt, history, healthVars>>

Ops == {"READ", "WRITE", "PROBE"}
Statuses == {"OK", "TIMEOUT", "ERROR", "ABORT", "REJECT", "TARGET_OFFLINE"}
NoAge == -1

(***************************************************************************)
(* A datagram carries an invoke ID, and the address of the device at the   *)
(* other end.  Its age is history: how many invoke IDs were allocated      *)
(* after its own, so that age 0 is the latest transaction.                 *)
(***************************************************************************)
Datagrams == [kind : {"request"} \cup AllReplyKinds, id : 1 .. IdMax,
              peer : Addrs, age : 0 .. MaxLag]

TypeOK ==
    /\ pc \in {"binding", "receive", "waiting", "discovering", "probeCheck"}
    /\ op \in Ops
    /\ probeDue \in BOOLEAN
    /\ s_target_dev_id \in Devices
    /\ s_target_ip \in Addrs \cup {BadIp}
    /\ s_target_address \in Addrs \cup {NoAddr}
    /\ setter \in {"idle", "configured", "cleared"}
    /\ Address_Cache \in [Devices -> Addrs \cup {Unbound}]
    /\ Current_Invoke_ID \in 1 .. IdMax
    /\ TSM_InvokeID \in 0 .. IdMax
    /\ s_current_invoke_id \in 0 .. IdMax
    /\ s_reply_received \in BOOLEAN
    /\ s_reply_errored \in BOOLEAN
    /\ s_transaction_status \in Statuses
    /\ wire \subseteq Datagrams
    /\ reachable \in BOOLEAN /\ prompt \in BOOLEAN
    /\ applied \in BOOLEAN
    /\ outcome \in [status : Statuses, age : NoAge .. MaxLag,
                    executed : BOOLEAN]
    /\ HealthTypeOK

Init ==
    /\ pc = "binding"
    /\ op = "READ"
    /\ probeDue = FALSE
    /\ \E t \in Targets : s_target_dev_id = t[1] /\ s_target_ip = t[2]
    /\ s_target_address = NoAddr
    /\ setter = "idle"
    /\ Address_Cache = [d \in Devices |-> Unbound]
    /\ Current_Invoke_ID = 1
    /\ TSM_InvokeID = 0
    /\ s_current_invoke_id = 0
    /\ s_reply_received = FALSE
    /\ s_reply_errored = FALSE
    /\ s_transaction_status = "OK"
    /\ wire = {}
    /\ reachable \in Reachability
    /\ prompt = FALSE
    /\ applied = FALSE
    /\ outcome = [status |-> "TIMEOUT", age |-> NoAge, executed |-> FALSE]
    /\ HealthInit

-----------------------------------------------------------------------------
(***************************************************************************)
(* Starting up and changing the target                                     *)
(***************************************************************************)

\* address_add for the configured target, when its IP parses.
BookWithTarget ==
    IF s_target_ip \in Addrs
      THEN [Address_Cache EXCEPT ![s_target_dev_id] = s_target_ip]
      ELSE Address_Cache

\* One pass of the binding loop at the start of the worker task: bind, then
\* ask the stack for the binding.  On failure it sleeps and tries again.
WorkerBind ==
    /\ pc = "binding"
    /\ Address_Cache' = BookWithTarget
    /\ \/ /\ Address_Cache'[s_target_dev_id] # Unbound
          /\ s_target_address' = Address_Cache'[s_target_dev_id]
          /\ pc' = "receive"
          /\ s_health_state' = "ONLINE" /\ s_consecutive_timeouts' = 0
       \/ /\ Address_Cache'[s_target_dev_id] = Unbound
          /\ s_target_address' = NoAddr
          /\ UNCHANGED <<pc, healthVars>>
    /\ UNCHANGED <<op, probeDue, s_target_dev_id, s_target_ip, setter, tsmVars,
                   replyVars, wire, reachable, prompt, history>>

\* bacnet_worker_set_target, run by another task with no lock held against the
\* worker: the configuration changes, the address is zeroed, then it is filled.
SetTargetConfig(dev, ip) ==
    /\ setter = "idle"
    /\ s_target_dev_id' = dev
    /\ s_target_ip' = ip
    /\ setter' = "configured"
    /\ UNCHANGED <<pc, op, probeDue, s_target_address, Address_Cache, tsmVars,
                   replyVars, wire, reachable, prompt, history, healthVars>>

ClearTargetAddress ==
    /\ setter = "configured"
    /\ s_target_address' = NoAddr
    /\ setter' = "cleared"
    /\ UNCHANGED <<pc, op, probeDue, s_target_dev_id, s_target_ip,
                   Address_Cache, tsmVars, replyVars, wire, reachable, prompt,
                   history, healthVars>>

FillTargetAddress ==
    /\ setter = "cleared"
    /\ s_target_address' =
         IF s_target_ip \in Addrs THEN s_target_ip ELSE s_target_address
    /\ Address_Cache' = BookWithTarget
    /\ setter' = "idle"
    /\ UNCHANGED <<pc, op, probeDue, s_target_dev_id, s_target_ip, tsmVars,
                   replyVars, wire, reachable, prompt, history, healthVars>>

-----------------------------------------------------------------------------
(***************************************************************************)
(* One transaction                                                         *)
(***************************************************************************)

\* How the transaction in hand ended: the status the caller is given, and
\* (history) the age of the datagram that decided it.
Ends(o, status, age) ==
    /\ outcome' = [status |-> status, age |-> age, executed |-> applied]
    /\ pc' = IF o = "PROBE" THEN "receive" ELSE "probeCheck"
    /\ prompt' = FALSE

\* Mutant: no wrap.
NeverWraps(id) == id + 1

\* tsm_next_free_invokeID
NextInvokeID(id) == IF id = IdMax THEN 1 ELSE id + 1

\* What is left on the wire once another invoke ID has been allocated.
Aged == {[d EXCEPT !.age = @ + 1] : d \in {e \in wire : e.age < MaxLag}}

\* Send_Read_Property_Request, Send_Write_Property_Request: no invoke ID when
\* the device is not bound or the transaction slot is taken.
SendConfirmed ==
    \/ /\ Address_Cache[s_target_dev_id] = Unbound \/ TSM_InvokeID # 0
       /\ s_current_invoke_id' = 0
       /\ UNCHANGED <<Current_Invoke_ID, TSM_InvokeID, wire>>
    \/ /\ Address_Cache[s_target_dev_id] # Unbound /\ TSM_InvokeID = 0
       /\ s_current_invoke_id' = Current_Invoke_ID
       /\ TSM_InvokeID' = Current_Invoke_ID
       /\ Current_Invoke_ID' = NextInvokeID(Current_Invoke_ID)
       /\ wire' = Aged \cup
            {[kind |-> "request", id |-> Current_Invoke_ID,
              peer |-> Address_Cache[s_target_dev_id], age |-> 0]}

\* execute_worker_read, _write and _probe, up to the wait loop; without an
\* invoke ID wait_for_worker_transaction gives up at once.
StartTransaction(o) ==
    /\ op' = o
    /\ s_reply_received' = FALSE
    /\ s_reply_errored' = FALSE
    /\ s_transaction_status' = "TIMEOUT"
    /\ SendConfirmed
    /\ applied' = FALSE
    /\ \/ s_current_invoke_id' = 0 /\ Ends(o, "TIMEOUT", NoAge)
       \/ /\ s_current_invoke_id' # 0
          /\ pc' = "waiting"
          /\ prompt' = reachable
          /\ UNCHANGED outcome
    /\ UNCHANGED <<targetVars, Address_Cache, reachable, healthVars>>

\* bip_receive takes a reply; a network that duplicates may hand it over again.
Receive(d) ==
    /\ d \in wire /\ d.kind # "request"
    /\ \/ wire' = wire \ {d}
       \/ MayDuplicate /\ wire' = wire

\* Mutant: the test forgets the invoke ID.
MatchesAnyRequest(d) == d.peer = s_target_address

\* The test every handler of the worker makes before it believes a reply.
Matches(d) == d.peer = s_target_address /\ d.id = s_current_invoke_id

\* Mutant: a Reject is taken for success.
StatusIgnoringReject(kind) == CASE kind \in {"ack", "reject"} -> "OK"
                               [] kind \in {"error", "badAck"} -> "ERROR"
                               [] kind = "abort" -> "ABORT"

StatusOf(kind) == CASE kind = "ack" -> "OK"
                    [] kind \in {"error", "badAck"} -> "ERROR"
                    [] kind = "abort" -> "ABORT"
                    [] kind = "reject" -> "REJECT"

\* Mutant: the handlers raise their flag and leave the status.
StatusNotSet(d) == s_transaction_status

\* s_transaction_status once the handlers, if any, have seen the reply.
StatusAfter(d) == IF Matches(d) /\ d.kind # "undecodable"
                    THEN StatusOf(d.kind) ELSE s_transaction_status

\* Mutant: every answer frees the slot, whatever its invoke ID.
FreeAnyInvokeID(id) == TSM_InvokeID' = 0

\* Mutant: the slot is not freed.
FreeNoInvokeID(id) == UNCHANGED TSM_InvokeID

\* tsm_free_invoke_id
FreeInvokeID(id) ==
    TSM_InvokeID' = IF TSM_InvokeID = id THEN 0 ELSE TSM_InvokeID

\* apdu_handler and the handler it calls.  The stack frees the slot by invoke
\* ID alone, whoever the sender is and whether or not a handler believed it.
HandleReply(d) ==
    /\ s_reply_received' =
         (s_reply_received \/ (Matches(d) /\ d.kind = "ack"))
    /\ s_reply_errored' =
         (s_reply_errored \/ (Matches(d) /\ d.kind \in NegativeKinds))
    /\ FreeInvokeID(d.id)

\* One turn of the wait loop that finds a reply in the socket: handle it, then
\* look at the flags and at the slot, in the order of the code.
WaitReceive(d) ==
    /\ pc = "waiting"
    /\ Receive(d)
    /\ HandleReply(d)
    /\ \/ /\ s_reply_received'
          /\ s_transaction_status' = StatusAfter(d)
          /\ TargetAnswered
          /\ Ends(op, StatusAfter(d), d.age)
       \/ /\ ~s_reply_received' /\ s_reply_errored'
          /\ s_transaction_status' = StatusAfter(d)
          /\ Ends(op, StatusAfter(d), d.age)
          /\ UNCHANGED healthVars
       \/ /\ ~s_reply_received' /\ ~s_reply_errored'
          /\ TSM_InvokeID' # s_current_invoke_id
          /\ s_transaction_status' = "TIMEOUT"
          /\ Ends(op, "TIMEOUT", NoAge)
          /\ UNCHANGED healthVars
       \/ /\ ~s_reply_received' /\ ~s_reply_errored'
          /\ TSM_InvokeID' = s_current_invoke_id
          /\ s_transaction_status' = StatusAfter(d)
          /\ UNCHANGED <<pc, prompt, outcome, healthVars>>
    /\ UNCHANGED <<op, probeDue, targetVars, Address_Cache, Current_Invoke_ID,
                   s_current_invoke_id, reachable, applied>>

\* The wait loop runs out of iterations.
WaitExhausted ==
    /\ pc = "waiting"
    /\ ~prompt
    /\ FreeInvokeID(s_current_invoke_id)
    /\ s_transaction_status' = "TIMEOUT"
    /\ TargetSilent
    /\ Ends(op, "TIMEOUT", NoAge)
    /\ UNCHANGED <<op, probeDue, targetVars, Address_Cache, Current_Invoke_ID,
                   s_current_invoke_id, s_reply_received, s_reply_errored,
                   wire, reachable, applied>>

\* worker_i_am_handler, in a wait loop or in the discovery loop: the stack
\* learns the sender's address for the device instance it announces.
ReceiveIAm(dev, addr) ==
    /\ pc \in {"waiting", "discovering"}
    /\ Address_Cache' = [Address_Cache EXCEPT ![dev] = addr]
    /\ UNCHANGED <<pc, op, probeDue, targetVars, tsmVars, replyVars, wire,
                   reachable, prompt, history, healthVars>>

\* The same for a device that is new to a full Address_Cache: address_add
\* evicts the binding with the shortest time to live, whichever that is.
ReceiveIAmEvicting(dev) ==
    /\ CrowdedNetwork
    /\ pc \in {"waiting", "discovering"}
    /\ Address_Cache' = [Address_Cache EXCEPT ![dev] = Unbound]
    /\ UNCHANGED <<pc, op, probeDue, targetVars, tsmVars, replyVars, wire,
                   reachable, prompt, history, healthVars>>

-----------------------------------------------------------------------------
(***************************************************************************)
(* The main loop                                                           *)
(***************************************************************************)

ReceiveRead ==
    /\ pc = "receive"
    /\ ~FastFails("READ", "NORMAL")
    /\ StartTransaction("READ")
    /\ UNCHANGED probeDue

ReceiveWrite ==
    /\ pc = "receive"
    /\ ~FastFails("WRITE", "HIGH")
    /\ StartTransaction("WRITE")
    /\ UNCHANGED probeDue

\* The open breaker answers a read without a transaction.
FastFail ==
    /\ pc = "receive"
    /\ FastFails("READ", "NORMAL")
    /\ pc' = "probeCheck"
    /\ op' = "READ"
    /\ outcome' = [status |-> "TARGET_OFFLINE", age |-> NoAge,
                   executed |-> FALSE]
    /\ UNCHANGED <<probeDue, targetVars, Address_Cache, tsmVars, replyVars,
                   wire, reachable, prompt, applied, healthVars>>

\* execute_worker_discovery: its receive loop runs the same handlers on
\* whatever the socket holds, late answers to old requests included.
ReceiveDiscovery ==
    /\ pc = "receive"
    /\ pc' = "discovering"
    /\ UNCHANGED <<op, probeDue, targetVars, Address_Cache, tsmVars, replyVars,
                   wire, reachable, prompt, history, healthVars>>

DiscoveryReceive(d) ==
    /\ pc = "discovering"
    /\ Receive(d)
    /\ HandleReply(d)
    /\ s_transaction_status' = StatusAfter(d)
    /\ UNCHANGED <<pc, op, probeDue, targetVars, Address_Cache,
                   Current_Invoke_ID, s_current_invoke_id, reachable, prompt,
                   history, healthVars>>

DiscoveryEnd ==
    /\ pc = "discovering"
    /\ pc' = "probeCheck"
    /\ UNCHANGED <<op, probeDue, targetVars, Address_Cache, tsmVars, replyVars,
                   wire, reachable, prompt, history, healthVars>>

\* Both queues stayed empty.
ReceiveNothing ==
    /\ pc = "receive"
    /\ pc' = "probeCheck"
    /\ UNCHANGED <<op, probeDue, targetVars, Address_Cache, tsmVars, replyVars,
                   wire, reachable, prompt, history, healthVars>>

Probe ==
    /\ pc = "probeCheck"
    /\ NeedsProbe /\ probeDue
    /\ probeDue' = FALSE
    /\ StartTransaction("PROBE")

SkipProbe ==
    /\ pc = "probeCheck"
    /\ ~(NeedsProbe /\ probeDue)
    /\ pc' = "receive"
    /\ UNCHANGED <<op, probeDue, targetVars, Address_Cache, tsmVars, replyVars,
                   wire, reachable, prompt, history, healthVars>>

-----------------------------------------------------------------------------
(***************************************************************************)
(* Time, the network and the devices on it                                 *)
(***************************************************************************)

ProbeIntervalElapses ==
    /\ ~probeDue
    /\ probeDue' = TRUE
    /\ UNCHANGED <<pc, op, targetVars, Address_Cache, tsmVars, replyVars, wire,
                   reachable, prompt, history, healthVars>>

\* A device receives a request and answers it; a request that is duplicated is
\* executed again.
Answer(d, kind) ==
    /\ d \in wire /\ d.kind = "request"
    /\ kind \in (IF d.age = 0 /\ op = "PROBE" THEN ProbeKinds ELSE ReplyKinds)
    /\ LET reply == [d EXCEPT !.kind = kind]
       IN \/ wire' = (wire \ {d}) \cup {reply}
          \/ MayDuplicate /\ wire' = wire \cup {reply}
    /\ applied' = (applied \/ (d.age = 0 /\ kind = "ack"))
    /\ UNCHANGED <<pc, op, probeDue, targetVars, Address_Cache, tsmVars,
                   replyVars, reachable, prompt, outcome,
                   healthVars>>

Lose(d) ==
    /\ d \in wire
    /\ d.age = 0 => ~prompt
    /\ wire' = wire \ {d}
    /\ UNCHANGED <<pc, op, probeDue, targetVars, Address_Cache, tsmVars,
                   replyVars, reachable, prompt, history, healthVars>>

BecomeReachable ==
    /\ ~reachable /\ TRUE \in Reachability
    /\ reachable' = TRUE
    /\ UNCHANGED <<pc, op, probeDue, targetVars, Address_Cache, tsmVars,
                   replyVars, wire, prompt, history, healthVars>>

BecomeUnreachable ==
    /\ reachable /\ FALSE \in Reachability
    /\ reachable' = FALSE
    /\ prompt' = FALSE
    /\ UNCHANGED <<pc, op, probeDue, targetVars, Address_Cache, tsmVars,
                   replyVars, wire, history, healthVars>>

-----------------------------------------------------------------------------
ReceiveRequest == ReceiveRead \/ ReceiveWrite \/ FastFail \/ ReceiveDiscovery
                  \/ ReceiveNothing

SetTarget == \/ \E t \in Targets : SetTargetConfig(t[1], t[2])
             \/ ClearTargetAddress
             \/ FillTargetAddress

Network == \/ \E d \in wire : Lose(d) \/ (\E k \in AllReplyKinds : Answer(d, k))
           \/ BecomeReachable \/ BecomeUnreachable

Pump == \/ \E d \in wire : WaitReceive(d) \/ DiscoveryReceive(d)
        \/ \E s \in IAmSources : ReceiveIAm(s[1], s[2])
        \/ \E dev \in Devices : ReceiveIAmEvicting(dev)

Next == \/ WorkerBind \/ ReceiveRequest \/ Probe \/ SkipProbe
        \/ Pump \/ WaitExhausted \/ DiscoveryEnd
        \/ SetTarget \/ ProbeIntervalElapses \/ Network

Spec == Init /\ [][Next]_vars

\* The worker task never stops (its loop has no exit), its timers fire, a
\* reachable device answers, and a task inside set_target runs on.
Fairness ==
    /\ WF_vars(WorkerBind)
    /\ WF_vars(ReceiveRequest)
    /\ WF_vars(Probe)
    /\ WF_vars(SkipProbe)
    /\ WF_vars(\E d \in wire : WaitReceive(d))
    /\ WF_vars(WaitExhausted)
    /\ WF_vars(DiscoveryEnd)
    /\ WF_vars(ProbeIntervalElapses)
    /\ WF_vars(ClearTargetAddress \/ FillTargetAddress)
    /\ WF_vars(\E d \in wire, k \in AllReplyKinds : prompt /\ Answer(d, k))

FairSpec == Spec /\ Fairness

-----------------------------------------------------------------------------
(***************************************************************************)
(* Properties                                                              *)
(***************************************************************************)

\* The invoke ID that was allocated age allocations before the latest one.
IdOfAge(age) == IF age < Current_Invoke_ID - 1
                  THEN Current_Invoke_ID - 1 - age
                  ELSE Current_Invoke_ID - 1 - age + IdMax

\* An answer is believed only for the request it answers: what decides a
\* transaction is never a late answer to an earlier one, and a caller that is
\* told OK is told so about a request the device has really executed.  (The
\* invoke-ID test of the handlers, bacnet_worker.c:197-280, against 8-bit IDs
\* that come round again.)
AnswerIsForThisRequest ==
    /\ outcome.age \in {NoAge, 0}
    /\ outcome.status = "OK" => outcome.executed

\* The only slot of the transaction state machine is never leaked: whichever
\* way a transaction ends it is free before the next one asks for it (a leak
\* would make every later request fail without being sent).
SlotNeverLeaks ==
    /\ pc # "waiting" => TSM_InvokeID = 0
    /\ pc = "waiting" => TSM_InvokeID = s_current_invoke_id

\* The breaker and its counter never disagree, however answers, errors,
\* expiries and restarts of the loop follow each other: OFFLINE exactly when
\* OfflineThreshold waits expired since the last acknowledgement.
HealthMatchesTimeouts == s_health_state = HealthOf(s_consecutive_timeouts)

\* An answer that comes too late for its own wait loop, whatever it says and
\* wherever the worker meets it, changes neither the outcome that was reported
\* nor what the breaker believes.
LateAnswersAreIgnored ==
    [][\A d \in wire :
         d.age > 0 /\ (WaitReceive(d) \/ DiscoveryReceive(d))
           => UNCHANGED <<outcome, healthVars, TSM_InvokeID>>]_vars

\* A breaker that has opened closes again: when the target stays reachable for
\* good and is no longer reconfigured, the worker comes to see it ONLINE and
\* keeps seeing it so, although reads are refused while the breaker is open and
\* a device that answers with errors only never closes it: the probe does.
Recovery ==
    <>[](reachable /\ setter = "idle") => <>[](s_health_state = "ONLINE")

\* To the other components any negative answer is an error.
Result(status) == IF status \in {"ABORT", "REJECT"} THEN "ERROR" ELSE status

Atomic == INSTANCE AtomicTransactions WITH
    at <- IF pc = "binding" THEN "starting"
          ELSE IF pc = "waiting" THEN op ELSE pc,
    status <- Result(outcome.status)

\* However the network, other devices and a change of the target interfere
\* with a wait loop, it looks like one step from outside: nothing that happens
\* before its end or during a discovery changes an outcome or the breaker, and
\* then the two change together: OK closes the breaker, an expired wait counts
\* one timeout, and a negative answer leaves it alone.
TransactionsAreAtomic == Atomic!Spec

(***************************************************************************)
(* What makes the properties above inductive (proved in                    *)
(* BacnetTransactions_proofs): the invoke ID of a datagram tells its age,  *)
(* since it cannot be IdMax allocations old.                               *)
(***************************************************************************)

\* Every datagram still carries the ID it was sent with, and while a wait loop
\* runs its ID is the latest and no answer to it has been believed yet.
IdsTellAge ==
    /\ \A d \in wire : d.id = IdOfAge(d.age)
    /\ pc = "waiting" => /\ s_current_invoke_id = IdOfAge(0)
                         /\ ~s_reply_received /\ ~s_reply_errored

\* An acknowledgement on the wire was sent by a device that has executed the
\* request.
AcksAreHonest ==
    pc = "waiting" => \A d \in wire : d.kind = "ack" /\ d.age = 0 => applied

IInv == /\ TypeOK
        /\ SlotNeverLeaks
        /\ HealthMatchesTimeouts
        /\ AnswerIsForThisRequest
        /\ IdsTellAge
        /\ AcksAreHonest
=============================================================================
