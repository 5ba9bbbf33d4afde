---------------------- MODULE BacnetTransactions_proofs ----------------------
(***************************************************************************)
(* Proofs about BacnetTransactions, for every network, every bound on the  *)
(* delay below the number of invoke IDs and every breaker threshold.       *)
(***************************************************************************)
EXTENDS BacnetTransactions, TLAPS

LEMMA AgedDatagrams ==
    ASSUME wire \subseteq Datagrams
    PROVE  /\ Aged \subseteq Datagrams
           /\ \A d \in Aged : d.age > 0
           /\ \A d \in Aged : \E e \in wire :
                /\ e.age < MaxLag
                /\ d.age = e.age + 1 /\ d.id = e.id
                /\ d.kind = e.kind /\ d.peer = e.peer
  <1> SUFFICES ASSUME NEW d \in Aged
               PROVE  /\ d \in Datagrams
                      /\ d.age > 0
                      /\ \E e \in wire :
                           /\ e.age < MaxLag
                           /\ d.age = e.age + 1 /\ d.id = e.id
                           /\ d.kind = e.kind /\ d.peer = e.peer
    BY DEF Aged
  <1>1. PICK e \in wire : e.age < MaxLag /\ d = [e EXCEPT !.age = e.age + 1]
    BY DEF Aged
  <1>2. e \in Datagrams /\ e.age \in 0 .. MaxLag
    BY DEF Datagrams
  <1>3. d.age = e.age + 1 /\ d.id = e.id /\ d.kind = e.kind /\ d.peer = e.peer
    BY <1>1, <1>2 DEF Datagrams
  <1>4. e.age + 1 \in 0 .. MaxLag
    BY <1>1, <1>2, LagAssumption
  <1>5. d \in Datagrams
    BY <1>1, <1>2, <1>4 DEF Datagrams
  <1> QED BY <1>1, <1>2, <1>3, <1>5

LEMMA InitTypeOK == Init => TypeOK
  <1> SUFFICES ASSUME Init PROVE TypeOK
    OBVIOUS
  <1>1. s_target_dev_id \in Devices /\ s_target_ip \in Addrs \cup {BadIp}
    BY NetworkAssumption DEF Init
  <1>2. Current_Invoke_ID \in 1 .. IdMax /\ 0 \in 0 .. IdMax
    BY LagAssumption DEF Init
  <1>3. HealthTypeOK
    BY HealthAssumption DEF Init, HealthInit, HealthTypeOK, HealthStates
  <1>4. outcome \in [status : Statuses, age : NoAge .. MaxLag,
                    executed : BOOLEAN]
    BY LagAssumption DEF Init, Statuses, NoAge
  <1>5. reachable \in BOOLEAN
    BY NetworkAssumption DEF Init
  <1>6. Address_Cache \in [Devices -> Addrs \cup {Unbound}]
    BY DEF Init
  <1> QED
    BY <1>1, <1>2, <1>3, <1>4, <1>5, <1>6
       DEF Init, TypeOK, Ops, Statuses

\* The parts of TypeOK that Ends can disturb.
EndTypesOK ==
    /\ pc \in {"binding", "receive", "waiting", "discovering", "probeCheck"}
    /\ prompt \in BOOLEAN
    /\ outcome \in [status : Statuses, age : NoAge .. MaxLag,
                    executed : BOOLEAN]

LEMMA EndsType ==
    ASSUME TypeOK, NEW o \in Ops, NEW status \in Statuses,
           NEW age \in NoAge .. MaxLag, Ends(o, status, age)
    PROVE  EndTypesOK'
  <1>1. pc' \in {"binding", "receive", "waiting", "discovering", "probeCheck"}
        /\ prompt' \in BOOLEAN
    BY DEF Ends
  <1>3. outcome' \in [status : Statuses, age : NoAge .. MaxLag,
                     executed : BOOLEAN]
    BY DEF Ends, TypeOK
  <1> QED BY <1>1, <1>3 DEF EndTypesOK

LEMMA StatusAfterType ==
    ASSUME TypeOK, NEW d, d.kind \in AllReplyKinds
    PROVE  StatusAfter(d) \in Statuses
  BY DEF StatusAfter, StatusOf, AllReplyKinds, NegativeKinds, Statuses, TypeOK

LEMMA HandleReplyType ==
    ASSUME TypeOK, NEW d, HandleReply(d)
    PROVE  /\ s_reply_received' \in BOOLEAN /\ s_reply_errored' \in BOOLEAN
           /\ TSM_InvokeID' \in 0 .. IdMax
  BY LagAssumption DEF HandleReply, FreeInvokeID, TypeOK

LEMMA HealthStepType ==
    ASSUME HealthTypeOK,
           TargetAnswered \/ TargetSilent \/ UNCHANGED healthVars
    PROVE  HealthTypeOK'
  BY HealthAssumption
     DEF HealthTypeOK, HealthStates, TargetAnswered, TargetSilent, healthVars

LEMMA StartTypeOK ==
    ASSUME TypeOK, NEW o \in Ops, StartTransaction(o),
           probeDue' \in BOOLEAN
    PROVE  TypeOK'
  <1>1. /\ s_current_invoke_id' \in 0 .. IdMax
        /\ Current_Invoke_ID' \in 1 .. IdMax
        /\ TSM_InvokeID' \in 0 .. IdMax
    BY LagAssumption DEF StartTransaction, SendConfirmed, NextInvokeID, TypeOK
  <1>2. wire' \subseteq Datagrams
    <2>1. CASE wire' = wire
      BY <2>1 DEF TypeOK, Datagrams
    <2>2. CASE /\ Address_Cache[s_target_dev_id] # Unbound
               /\ wire' = Aged \cup
                   {[kind |-> "request", id |-> Current_Invoke_ID,
                     peer |-> Address_Cache[s_target_dev_id], age |-> 0]}
      <3>1. Aged \subseteq Datagrams
        BY AgedDatagrams DEF TypeOK
      <3>2. Address_Cache[s_target_dev_id] \in Addrs
        BY <2>2 DEF TypeOK
      <3>3. [kind |-> "request", id |-> Current_Invoke_ID,
             peer |-> Address_Cache[s_target_dev_id], age |-> 0] \in Datagrams
        BY <3>2, LagAssumption DEF TypeOK, Datagrams
      <3> QED BY <2>2, <3>1, <3>3
    <2> QED BY <2>1, <2>2 DEF StartTransaction, SendConfirmed
  <1>3. EndTypesOK'
    <2>1. CASE Ends(o, "TIMEOUT", NoAge)
      <3>1. "TIMEOUT" \in Statuses /\ NoAge \in NoAge .. MaxLag
        BY LagAssumption DEF Statuses, NoAge
      <3> QED BY <2>1, <3>1, EndsType
    <2>2. CASE pc' = "waiting" /\ prompt' = reachable
               /\ UNCHANGED outcome
      BY <2>2 DEF TypeOK, EndTypesOK
    <2> QED BY <2>1, <2>2 DEF StartTransaction
  <1>4. /\ op' \in Ops /\ applied' \in BOOLEAN
        /\ s_reply_received' \in BOOLEAN /\ s_reply_errored' \in BOOLEAN
        /\ s_transaction_status' \in Statuses
    BY DEF StartTransaction, Statuses
  <1>5. /\ UNCHANGED <<s_target_dev_id, s_target_ip, s_target_address, setter>>
        /\ UNCHANGED <<Address_Cache, reachable>>
        /\ UNCHANGED <<s_health_state, s_consecutive_timeouts>>
    BY DEF StartTransaction, targetVars, healthVars
  <1>6. HealthTypeOK'
    BY <1>5 DEF TypeOK, HealthTypeOK
  <1> QED
    BY <1>1, <1>2, <1>3, <1>4, <1>5, <1>6 DEF TypeOK, EndTypesOK, Datagrams

LEMMA StepTypeOK == TypeOK /\ [Next]_vars => TypeOK'
  <1> SUFFICES ASSUME TypeOK, [Next]_vars PROVE TypeOK'
    OBVIOUS
  <1> USE DEF targetVars, replyVars, tsmVars, history, healthVars, HealthTypeOK
  <1>1. CASE WorkerBind
    <2>1. Address_Cache' \in [Devices -> Addrs \cup {Unbound}]
      BY <1>1 DEF WorkerBind, BookWithTarget, TypeOK
    <2>2. s_target_address' \in Addrs \cup {NoAddr}
      BY <1>1, <2>1 DEF WorkerBind, TypeOK
    <2>3. HealthTypeOK'
      BY <1>1, HealthAssumption DEF WorkerBind, TypeOK, HealthStates
    <2> QED
      BY <1>1, <2>1, <2>2, <2>3 DEF WorkerBind, TypeOK, Datagrams
  <1>2. CASE ReceiveRead
    BY <1>2, StartTypeOK DEF ReceiveRead, TypeOK, Ops
  <1>3. CASE ReceiveWrite
    BY <1>3, StartTypeOK DEF ReceiveWrite, TypeOK, Ops
  <1>4. CASE FastFail
    BY <1>4, LagAssumption DEF FastFail, TypeOK, Ops, Statuses, NoAge, Datagrams
  <1>5. CASE ReceiveDiscovery \/ ReceiveNothing \/ SkipProbe \/ DiscoveryEnd
    BY <1>5 DEF ReceiveDiscovery, ReceiveNothing, SkipProbe, DiscoveryEnd,
                TypeOK, Datagrams
  <1>6. CASE Probe
    BY <1>6, StartTypeOK DEF Probe, Ops
  <1>7. ASSUME NEW d \in wire, WaitReceive(d)
        PROVE  TypeOK'
    <2>1. d.age \in 0 .. MaxLag /\ d.kind \in AllReplyKinds
      BY <1>7 DEF TypeOK, Datagrams, WaitReceive, Receive
    <2>2. HandleReply(d)
      BY <1>7 DEF WaitReceive
    <2>3. \/ /\ s_reply_received' \/ s_reply_errored'
             /\ s_transaction_status' = StatusAfter(d)
             /\ Ends(op, StatusAfter(d), d.age)
             /\ TargetAnswered \/ UNCHANGED healthVars
          \/ /\ s_transaction_status' = "TIMEOUT"
             /\ Ends(op, "TIMEOUT", NoAge)
             /\ UNCHANGED healthVars
          \/ /\ s_transaction_status' = StatusAfter(d)
             /\ UNCHANGED <<pc, prompt, outcome, healthVars>>
      BY <1>7 DEF WaitReceive
    <2>4. /\ op \in Ops /\ "TIMEOUT" \in Statuses
          /\ d.age \in NoAge .. MaxLag /\ NoAge \in NoAge .. MaxLag
      BY <2>1, LagAssumption DEF TypeOK, Statuses, NoAge
    <2>5. /\ EndTypesOK'
          /\ s_transaction_status' \in Statuses
          /\ HealthTypeOK'
      <3>1. CASE /\ s_transaction_status' = StatusAfter(d)
                 /\ Ends(op, StatusAfter(d), d.age)
                 /\ TargetAnswered \/ UNCHANGED healthVars
        BY <2>1, <2>4, <3>1, StatusAfterType, EndsType, HealthStepType
           DEF TypeOK
      <3>2. CASE /\ s_transaction_status' = "TIMEOUT"
                 /\ Ends(op, "TIMEOUT", NoAge)
                 /\ UNCHANGED healthVars
        BY <2>4, <3>2, EndsType, HealthStepType DEF TypeOK
      <3>3. CASE /\ s_transaction_status' = StatusAfter(d)
                 /\ UNCHANGED <<pc, prompt, outcome, healthVars>>
        BY <2>1, <3>3, StatusAfterType, HealthStepType DEF TypeOK, EndTypesOK
      <3> QED BY <2>3, <3>1, <3>2, <3>3
    <2>6. wire' \subseteq Datagrams
      BY <1>7 DEF WaitReceive, Receive, TypeOK
    <2>7. /\ s_reply_received' \in BOOLEAN /\ s_reply_errored' \in BOOLEAN
          /\ TSM_InvokeID' \in 0 .. IdMax
      BY <2>2, HandleReplyType
    <2> QED
      BY <1>7, <2>5, <2>6, <2>7
         DEF WaitReceive, TypeOK, EndTypesOK, Datagrams
  <1>8. ASSUME NEW d \in wire, DiscoveryReceive(d)
        PROVE  TypeOK'
    <2>1. d.kind \in AllReplyKinds
      BY <1>8 DEF TypeOK, Datagrams, DiscoveryReceive, Receive
    <2>2. s_transaction_status' \in Statuses
      BY <1>8, <2>1, StatusAfterType DEF DiscoveryReceive, TypeOK
    <2>3. wire' \subseteq Datagrams
      BY <1>8 DEF DiscoveryReceive, Receive, TypeOK
    <2>4. /\ s_reply_received' \in BOOLEAN /\ s_reply_errored' \in BOOLEAN
          /\ TSM_InvokeID' \in 0 .. IdMax
      BY <1>8, HandleReplyType DEF DiscoveryReceive
    <2> QED
      BY <1>8, <2>2, <2>3, <2>4 DEF DiscoveryReceive, TypeOK, Datagrams
  <1>9. ASSUME NEW s \in IAmSources, ReceiveIAm(s[1], s[2])
        PROVE  TypeOK'
    BY <1>9, NetworkAssumption DEF ReceiveIAm, TypeOK, Datagrams
  <1>10. ASSUME NEW dev \in Devices, ReceiveIAmEvicting(dev)
         PROVE  TypeOK'
    BY <1>10 DEF ReceiveIAmEvicting, TypeOK, Datagrams
  <1>11. CASE WaitExhausted
    <2>1. EndTypesOK'
      <3>1. "TIMEOUT" \in Statuses /\ NoAge \in NoAge .. MaxLag /\ op \in Ops
        BY LagAssumption DEF Statuses, NoAge, TypeOK
      <3> QED BY <1>11, <3>1, EndsType DEF WaitExhausted
    <2>2. HealthTypeOK'
      BY <1>11, HealthStepType DEF WaitExhausted, TypeOK
    <2>3. TSM_InvokeID' \in 0 .. IdMax
      BY <1>11, LagAssumption DEF WaitExhausted, FreeInvokeID, TypeOK
    <2> QED
      BY <1>11, <2>1, <2>2, <2>3
         DEF WaitExhausted, TypeOK, EndTypesOK, Statuses, Datagrams
  <1>12. ASSUME NEW t \in Targets, SetTargetConfig(t[1], t[2])
         PROVE  TypeOK'
    BY <1>12, NetworkAssumption DEF SetTargetConfig, TypeOK, Datagrams
  <1>13. CASE ClearTargetAddress \/ FillTargetAddress
    BY <1>13 DEF ClearTargetAddress, FillTargetAddress, BookWithTarget, TypeOK,
                 Datagrams
  <1>14. CASE ProbeIntervalElapses
    BY <1>14 DEF ProbeIntervalElapses, TypeOK, Datagrams
  <1>15. ASSUME NEW d \in wire, Lose(d)
         PROVE  TypeOK'
    BY <1>15 DEF Lose, TypeOK, Datagrams
  <1>16. ASSUME NEW d \in wire, NEW k \in AllReplyKinds, Answer(d, k)
         PROVE  TypeOK'
    <2>1. [d EXCEPT !.kind = k] \in Datagrams
      BY DEF TypeOK, Datagrams
    <2>2. wire' \subseteq Datagrams
      BY <1>16, <2>1 DEF Answer, TypeOK
    <2> QED
      BY <1>16, <2>2 DEF Answer, TypeOK, Datagrams
  <1>17. CASE BecomeReachable \/ BecomeUnreachable
    BY <1>17 DEF BecomeReachable, BecomeUnreachable, TypeOK, Datagrams
  <1>18. CASE UNCHANGED vars
    BY <1>18 DEF vars, TypeOK, Datagrams
  <1> QED
    BY <1>1, <1>2, <1>3, <1>4, <1>5, <1>6, <1>7, <1>8, <1>9, <1>10, <1>11,
       <1>12, <1>13, <1>14, <1>15, <1>16, <1>17, <1>18
       DEF Next, ReceiveRequest, Pump, SetTarget, Network

\* Every variable of the worker, of the target configuration and of the
\* network keeps its type.
THEOREM TypeCorrect == Spec => []TypeOK
  <1> QED BY InitTypeOK, StepTypeOK, PTL DEF Spec

-----------------------------------------------------------------------------
(***************************************************************************)
(* The inductive invariant.  Core is what IInv adds to TypeOK.             *)
(***************************************************************************)
Core == /\ SlotNeverLeaks
        /\ HealthMatchesTimeouts
        /\ AnswerIsForThisRequest
        /\ IdsTellAge
        /\ AcksAreHonest

LEMMA InitIInv == Init => IInv
  <1> SUFFICES ASSUME Init PROVE IInv
    OBVIOUS
  <1>1. TypeOK
    BY InitTypeOK
  <1>2. HealthMatchesTimeouts
    BY DEF Init, HealthInit, HealthMatchesTimeouts, HealthOf
  <1> QED
    BY <1>1, <1>2 DEF Init, IInv, SlotNeverLeaks, AnswerIsForThisRequest,
                      IdsTellAge, AcksAreHonest

\* Two datagrams with one invoke ID have one age: no ID comes round in time.
LEMMA SameIdSameAge ==
    ASSUME TypeOK, NEW i \in 0 .. MaxLag, NEW j \in 0 .. MaxLag,
           IdOfAge(i) = IdOfAge(j)
    PROVE  i = j
  BY LagAssumption DEF TypeOK, IdOfAge

\* The breaker's own steps keep health and counter in agreement.
LEMMA HealthStep ==
    ASSUME HealthTypeOK, HealthMatchesTimeouts,
           TargetAnswered \/ TargetSilent \/ UNCHANGED healthVars
    PROVE  HealthMatchesTimeouts'
  <1>1. CASE TargetAnswered
    BY <1>1, HealthAssumption DEF TargetAnswered, HealthMatchesTimeouts, HealthOf
  <1>2. CASE TargetSilent
    <2> DEFINE n == s_consecutive_timeouts'
    <2>1. s_consecutive_timeouts \in Nat /\ n \in 1 .. TimeoutCap
      BY <1>2, HealthAssumption DEF TargetSilent, HealthTypeOK
    <2>2. s_health_state = "ONLINE" <=> s_consecutive_timeouts = 0
      BY HealthAssumption DEF HealthMatchesTimeouts, HealthOf, HealthTypeOK
    <2>3. CASE n >= OfflineThreshold
      BY <1>2, <2>1, <2>3, HealthAssumption
         DEF TargetSilent, HealthMatchesTimeouts, HealthOf
    <2>4. CASE n < OfflineThreshold
      <3>1. s_consecutive_timeouts < OfflineThreshold
        BY <1>2, <2>1, <2>4, HealthAssumption DEF TargetSilent, HealthTypeOK
      <3>2. s_health_state \in {"ONLINE", "DEGRADED"}
        BY <2>1, <3>1, HealthAssumption
           DEF HealthMatchesTimeouts, HealthOf, HealthTypeOK
      <3>3. s_health_state' = "DEGRADED"
        BY <1>2, <2>1, <2>4, <3>2, HealthAssumption DEF TargetSilent
      <3> QED BY <2>1, <2>4, <3>3 DEF HealthMatchesTimeouts, HealthOf
    <2> QED BY <2>1, <2>3, <2>4, HealthAssumption
  <1>3. CASE UNCHANGED healthVars
    BY <1>3 DEF healthVars, HealthMatchesTimeouts, HealthOf
  <1> QED BY <1>1, <1>2, <1>3

\* A step that neither starts, ends nor answers a transaction.
LEMMA QuietStep ==
    ASSUME IInv,
           pc' = "waiting" <=> pc = "waiting",
           wire' \subseteq wire,
           UNCHANGED <<tsmVars, s_reply_received, s_reply_errored, applied,
                       outcome, healthVars>>
    PROVE  Core'
  <1> USE DEF tsmVars
  <1>1. SlotNeverLeaks'
    BY DEF IInv, SlotNeverLeaks
  <1>2. HealthMatchesTimeouts'
    BY HealthStep DEF IInv, TypeOK
  <1>3. AnswerIsForThisRequest'
    BY DEF IInv, AnswerIsForThisRequest
  <1>4. IdsTellAge' /\ AcksAreHonest'
    BY DEF IInv, IdsTellAge, AcksAreHonest, IdOfAge
  <1> QED BY <1>1, <1>2, <1>3, <1>4 DEF Core

LEMMA StartStep ==
    ASSUME IInv, NEW o \in Ops, pc # "waiting", StartTransaction(o)
    PROVE  Core'
  <1>1. TSM_InvokeID = 0
    BY DEF IInv, SlotNeverLeaks
  <1>2. HealthMatchesTimeouts'
    BY HealthStep DEF IInv, TypeOK, StartTransaction
  <1>3. ~s_reply_received' /\ ~s_reply_errored'
    BY DEF StartTransaction
  <1>4. CASE s_current_invoke_id' = 0
    <2>1. Ends(o, "TIMEOUT", NoAge)
      BY <1>4 DEF StartTransaction
    <2>2. UNCHANGED <<Current_Invoke_ID, TSM_InvokeID, wire>>
      BY <1>4, LagAssumption DEF StartTransaction, SendConfirmed, IInv, TypeOK
    <2>3. pc' # "waiting"
      BY <2>1 DEF Ends
    <2>4. AnswerIsForThisRequest'
      BY <2>1 DEF Ends, AnswerIsForThisRequest
    <2>5. SlotNeverLeaks' /\ AcksAreHonest'
      BY <1>1, <2>2, <2>3 DEF SlotNeverLeaks, AcksAreHonest
    <2>6. IdsTellAge'
      BY <2>2, <2>3 DEF IInv, IdsTellAge, IdOfAge
    <2> QED BY <1>2, <2>4, <2>5, <2>6 DEF Core
  <1>5. CASE s_current_invoke_id' # 0
    <2>1. /\ pc' = "waiting"
          /\ UNCHANGED outcome
          /\ s_current_invoke_id' = Current_Invoke_ID
          /\ TSM_InvokeID' = Current_Invoke_ID
          /\ Current_Invoke_ID' = NextInvokeID(Current_Invoke_ID)
          /\ wire' = Aged \cup
               {[kind |-> "request", id |-> Current_Invoke_ID,
                 peer |-> Address_Cache[s_target_dev_id], age |-> 0]}
      BY <1>5 DEF StartTransaction, SendConfirmed
    <2>2. Current_Invoke_ID \in 1 .. IdMax /\ wire \subseteq Datagrams
      BY DEF IInv, TypeOK
    <2>3. (IdOfAge(0))' = Current_Invoke_ID
      BY <2>1, <2>2, LagAssumption DEF IdOfAge, NextInvokeID
    <2>4. ASSUME NEW d \in wire' PROVE d.id = (IdOfAge(d.age))'
      <3>1. CASE d \in Aged
        <4>1. PICK e \in wire : /\ e.age < MaxLag
                                /\ d.age = e.age + 1 /\ d.id = e.id
          BY <2>2, <3>1, AgedDatagrams
        <4>2. e.age \in 0 .. MaxLag
          BY <2>2 DEF Datagrams
        <4>3. e.id = IdOfAge(e.age)
          BY DEF IInv, IdsTellAge
        <4>4. IdOfAge(e.age) = (IdOfAge(d.age))'
          BY <2>1, <2>2, <4>1, <4>2, LagAssumption DEF IdOfAge, NextInvokeID
        <4> QED BY <4>1, <4>3, <4>4
      <3>2. CASE d.age = 0 /\ d.id = Current_Invoke_ID
        BY <2>3, <3>2 DEF IdOfAge
      <3> QED BY <2>1, <3>1, <3>2
    <2>5. \A d \in wire' : ~(d.kind = "ack" /\ d.age = 0)
      BY <2>1, <2>2, AgedDatagrams
    <2> QED
      BY <1>2, <1>3, <2>1, <2>3, <2>4, <2>5
         DEF Core, IInv, SlotNeverLeaks, AnswerIsForThisRequest, IdsTellAge,
             AcksAreHonest
  <1> QED BY <1>4, <1>5

\* The wait loop believes a reply only if it answers the latest request.
LEMMA BelievedIsLatest ==
    ASSUME IInv, pc = "waiting", NEW d \in wire, d.kind # "request",
           HandleReply(d), s_reply_received' \/ s_reply_errored'
    PROVE  /\ Matches(d) /\ d.age = 0
           /\ d.kind # "undecodable"
           /\ d.kind = "ack" => applied
           /\ TSM_InvokeID' = 0
  <1>1. ~s_reply_received /\ ~s_reply_errored
    BY DEF IInv, IdsTellAge
  <1>2. Matches(d) /\ d.kind \in {"ack"} \cup NegativeKinds
    BY <1>1 DEF HandleReply
  <1>3. d.id = IdOfAge(d.age) /\ s_current_invoke_id = IdOfAge(0)
    BY DEF IInv, IdsTellAge
  <1>4. d.age \in 0 .. MaxLag /\ 0 \in 0 .. MaxLag
    BY LagAssumption DEF IInv, TypeOK, Datagrams
  <1>5. IdOfAge(d.age) = IdOfAge(0)
    BY <1>2, <1>3 DEF Matches
  <1>6. d.age = 0
    BY <1>4, <1>5, SameIdSameAge DEF IInv
  <1>7. d.kind # "undecodable"
    BY <1>2 DEF NegativeKinds
  <1>8. d.kind = "ack" => applied
    BY <1>6 DEF IInv, AcksAreHonest
  <1>9. TSM_InvokeID' = 0
    BY <1>2 DEF Matches, HandleReply, FreeInvokeID, IInv, SlotNeverLeaks
  <1> QED BY <1>2, <1>6, <1>7, <1>8, <1>9

LEMMA WaitReceiveStep ==
    ASSUME IInv, NEW d \in wire, WaitReceive(d)
    PROVE  Core'
  <1>1. /\ pc = "waiting" /\ HandleReply(d)
        /\ d.kind # "request" /\ wire' \subseteq wire
        /\ UNCHANGED <<Current_Invoke_ID, s_current_invoke_id, applied>>
    BY DEF WaitReceive, Receive
  <1>2. op \in Ops /\ pc' # "waiting" => IdsTellAge' /\ AcksAreHonest'
    BY <1>1 DEF IInv, IdsTellAge, AcksAreHonest, IdOfAge
  <1>3. CASE /\ s_reply_received' \/ s_reply_errored'
             /\ ~s_reply_received' => UNCHANGED healthVars
             /\ s_reply_received' => TargetAnswered
             /\ Ends(op, StatusAfter(d), d.age)
    <2>1. /\ d.age = 0 /\ Matches(d) /\ d.kind # "undecodable"
          /\ d.kind = "ack" => applied
          /\ TSM_InvokeID' = 0
      BY <1>1, <1>3, BelievedIsLatest
    <2>2. pc' # "waiting" /\ op \in Ops
      BY <1>3 DEF Ends, IInv, TypeOK
    <2>3. StatusAfter(d) = "OK" => d.kind = "ack"
      <3>1. d.kind \in AllReplyKinds
        BY <1>1 DEF IInv, TypeOK, Datagrams
      <3> QED
        BY <2>1, <3>1 DEF StatusAfter, StatusOf, AllReplyKinds, NegativeKinds
    <2>4. AnswerIsForThisRequest'
      BY <1>3, <2>1, <2>3 DEF Ends, AnswerIsForThisRequest
    <2>5. HealthMatchesTimeouts'
      BY <1>3, HealthStep DEF IInv, TypeOK
    <2>6. SlotNeverLeaks'
      BY <2>1, <2>2 DEF SlotNeverLeaks
    <2> QED BY <1>2, <2>2, <2>4, <2>5, <2>6 DEF Core
  <1>4. CASE /\ TSM_InvokeID' # s_current_invoke_id
             /\ Ends(op, "TIMEOUT", NoAge)
             /\ UNCHANGED healthVars
    <2>1. pc' # "waiting" /\ op \in Ops
      BY <1>4 DEF Ends, IInv, TypeOK
    <2>2. AnswerIsForThisRequest'
      BY <1>4 DEF Ends, AnswerIsForThisRequest
    <2>3. HealthMatchesTimeouts'
      BY <1>4, HealthStep DEF IInv, TypeOK
    <2>4. TSM_InvokeID' = 0
      BY <1>1, <1>4 DEF HandleReply, FreeInvokeID, IInv, SlotNeverLeaks
    <2>5. SlotNeverLeaks'
      BY <2>1, <2>4 DEF SlotNeverLeaks
    <2> QED BY <1>2, <2>1, <2>2, <2>3, <2>5 DEF Core
  <1>5. CASE /\ ~s_reply_received' /\ ~s_reply_errored'
             /\ TSM_InvokeID' = s_current_invoke_id
             /\ UNCHANGED <<pc, outcome, healthVars>>
    <2>1. SlotNeverLeaks' /\ AnswerIsForThisRequest'
      BY <1>1, <1>5 DEF IInv, SlotNeverLeaks, AnswerIsForThisRequest
    <2>2. HealthMatchesTimeouts'
      BY <1>5, HealthStep DEF IInv, TypeOK
    <2>3. IdsTellAge' /\ AcksAreHonest'
      BY <1>1, <1>5 DEF IInv, IdsTellAge, AcksAreHonest, IdOfAge
    <2> QED BY <2>1, <2>2, <2>3 DEF Core
  <1> QED BY <1>3, <1>4, <1>5 DEF WaitReceive

LEMMA WaitExhaustedStep ==
    ASSUME IInv, WaitExhausted
    PROVE  Core'
  <1>1. pc' # "waiting" /\ TSM_InvokeID' = 0
    BY DEF WaitExhausted, Ends, FreeInvokeID, IInv, SlotNeverLeaks, TypeOK
  <1>2. AnswerIsForThisRequest'
    BY DEF WaitExhausted, Ends, AnswerIsForThisRequest
  <1>3. HealthMatchesTimeouts'
    BY HealthStep DEF WaitExhausted, IInv, TypeOK
  <1>4. IdsTellAge' /\ AcksAreHonest' /\ SlotNeverLeaks'
    BY <1>1 DEF WaitExhausted, IInv, IdsTellAge, IdOfAge, AcksAreHonest,
                SlotNeverLeaks
  <1> QED BY <1>2, <1>3, <1>4 DEF Core

LEMMA DiscoveryReceiveStep ==
    ASSUME IInv, NEW d \in wire, DiscoveryReceive(d)
    PROVE  Core'
  <1>1. /\ pc = "discovering" /\ pc' = pc /\ HandleReply(d)
        /\ wire' \subseteq wire
        /\ UNCHANGED <<Current_Invoke_ID, outcome, healthVars>>
    BY DEF DiscoveryReceive, Receive, history
  <1>2. SlotNeverLeaks'
    BY <1>1 DEF HandleReply, FreeInvokeID, IInv, SlotNeverLeaks
  <1>3. HealthMatchesTimeouts'
    BY <1>1, HealthStep DEF IInv, TypeOK
  <1>4. AnswerIsForThisRequest' /\ IdsTellAge' /\ AcksAreHonest'
    BY <1>1 DEF IInv, AnswerIsForThisRequest, IdsTellAge, IdOfAge, AcksAreHonest
  <1> QED BY <1>2, <1>3, <1>4 DEF Core

LEMMA AnswerStep ==
    ASSUME IInv, NEW d \in wire, NEW k \in AllReplyKinds, Answer(d, k)
    PROVE  Core'
  <1> DEFINE reply == [d EXCEPT !.kind = k]
  <1>1. /\ wire' \subseteq wire \cup {reply}
        /\ applied' = (applied \/ (d.age = 0 /\ k = "ack"))
        /\ UNCHANGED <<pc, tsmVars, s_reply_received, s_reply_errored, outcome,
                       healthVars>>
    BY DEF Answer, replyVars
  <1>2. reply.id = d.id /\ reply.age = d.age /\ reply.kind = k
    BY DEF IInv, TypeOK, Datagrams
  <1>3. SlotNeverLeaks' /\ AnswerIsForThisRequest'
    BY <1>1 DEF tsmVars, IInv, SlotNeverLeaks, AnswerIsForThisRequest
  <1>4. HealthMatchesTimeouts'
    BY <1>1, HealthStep DEF IInv, TypeOK
  <1>5. IdsTellAge'
    BY <1>1, <1>2 DEF tsmVars, IInv, IdsTellAge, IdOfAge
  <1>6. AcksAreHonest'
    BY <1>1, <1>2 DEF IInv, AcksAreHonest
  <1> QED BY <1>3, <1>4, <1>5, <1>6 DEF Core

LEMMA StepIInv == IInv /\ [Next]_vars => IInv'
  <1> SUFFICES ASSUME IInv, [Next]_vars PROVE IInv'
    OBVIOUS
  <1>0. TypeOK'
    BY StepTypeOK DEF IInv
  <1> USE DEF targetVars, replyVars, history
  <1>1. CASE WorkerBind
    <2>1. HealthMatchesTimeouts'
      BY <1>1, HealthStep
         DEF WorkerBind, IInv, TypeOK, TargetAnswered
    <2>2. /\ pc # "waiting" /\ pc' # "waiting"
          /\ UNCHANGED <<tsmVars, wire, outcome>>
      BY <1>1 DEF WorkerBind
    <2>3. Core'
      BY <2>1, <2>2
         DEF tsmVars, Core, IInv, SlotNeverLeaks, AnswerIsForThisRequest,
             IdsTellAge, IdOfAge, AcksAreHonest
    <2> QED BY <1>0, <2>3 DEF IInv, Core
  <1>2. CASE ReceiveRead \/ ReceiveWrite \/ Probe
    BY <1>0, <1>2, StartStep
       DEF ReceiveRead, ReceiveWrite, Probe, Ops, IInv, Core
  <1>3. CASE FastFail
    <2>1. /\ pc # "waiting" /\ pc' # "waiting"
          /\ UNCHANGED <<tsmVars, wire, healthVars>>
          /\ outcome' = [status |-> "TARGET_OFFLINE", age |-> NoAge,
                         executed |-> FALSE]
      BY <1>3 DEF FastFail
    <2>2. HealthMatchesTimeouts'
      BY <2>1, HealthStep DEF IInv, TypeOK
    <2>3. Core'
      BY <2>1, <2>2
         DEF tsmVars, Core, IInv, SlotNeverLeaks, AnswerIsForThisRequest,
             IdsTellAge, IdOfAge, AcksAreHonest
    <2> QED BY <1>0, <2>3 DEF IInv, Core
  <1>4. CASE ReceiveDiscovery \/ ReceiveNothing \/ SkipProbe \/ DiscoveryEnd
    BY <1>0, <1>4, QuietStep
       DEF ReceiveDiscovery, ReceiveNothing, SkipProbe, DiscoveryEnd, IInv, Core
  <1>5. ASSUME NEW d \in wire, WaitReceive(d) PROVE IInv'
    BY <1>0, <1>5, WaitReceiveStep DEF IInv, Core
  <1>6. ASSUME NEW d \in wire, DiscoveryReceive(d) PROVE IInv'
    BY <1>0, <1>6, DiscoveryReceiveStep DEF IInv, Core
  <1>7. CASE WaitExhausted
    BY <1>0, <1>7, WaitExhaustedStep DEF IInv, Core
  <1>8. CASE \/ \E s \in IAmSources : ReceiveIAm(s[1], s[2])
             \/ \E dev \in Devices : ReceiveIAmEvicting(dev)
    BY <1>0, <1>8, QuietStep DEF ReceiveIAm, ReceiveIAmEvicting, IInv, Core
  <1>9. CASE SetTarget \/ ProbeIntervalElapses
    BY <1>0, <1>9, QuietStep
       DEF SetTarget, SetTargetConfig, ClearTargetAddress, FillTargetAddress,
           ProbeIntervalElapses, IInv, Core
  <1>10. ASSUME NEW d \in wire, NEW k \in AllReplyKinds, Answer(d, k)
         PROVE  IInv'
    BY <1>0, <1>10, AnswerStep DEF IInv, Core
  <1>11. CASE \/ \E d \in wire : Lose(d)
              \/ BecomeReachable \/ BecomeUnreachable
    BY <1>0, <1>11, QuietStep
       DEF Lose, BecomeReachable, BecomeUnreachable, IInv, Core
  <1>12. CASE UNCHANGED vars
    BY <1>0, <1>12, QuietStep DEF vars, IInv, Core
  <1> QED
    BY <1>1, <1>2, <1>3, <1>4, <1>5, <1>6, <1>7, <1>8, <1>9, <1>10, <1>11,
       <1>12 DEF Next, ReceiveRequest, Pump, Network

\* Why the properties below hold: the invoke ID of a datagram tells its age.
THEOREM Invariant == Spec => []IInv
  <1> QED BY InitIInv, StepIInv, PTL DEF Spec

\* No caller is ever given the answer to an earlier request, and OK means that
\* the device executed this one, whatever the network and set_target do.
THEOREM AnswersMatchRequests == Spec => []AnswerIsForThisRequest
  <1>1. IInv => AnswerIsForThisRequest
    BY DEF IInv
  <1> QED BY <1>1, Invariant, PTL

\* Between transactions the only slot of the stack's transaction table is free,
\* and during one it holds that transaction's invoke ID.
THEOREM SlotIsReturned == Spec => []SlotNeverLeaks
  <1>1. IInv => SlotNeverLeaks
    BY DEF IInv
  <1> QED BY <1>1, Invariant, PTL

\* The breaker is OFFLINE exactly when OfflineThreshold or more wait loops
\* expired since the last acknowledgement.
THEOREM BreakerFollowsTimeouts == Spec => []HealthMatchesTimeouts
  <1>1. IInv => HealthMatchesTimeouts
    BY DEF IInv
  <1> QED BY <1>1, Invariant, PTL

LEMMA LateAnswerStep ==
    ASSUME IInv, NEW d \in wire, d.age > 0,
           WaitReceive(d) \/ DiscoveryReceive(d)
    PROVE  UNCHANGED <<outcome, healthVars, TSM_InvokeID>>
  <1>1. d.age \in 0 .. MaxLag /\ 0 \in 0 .. MaxLag /\ d.age # 0
    BY LagAssumption DEF IInv, TypeOK, Datagrams
  <1>2. CASE WaitReceive(d)
    <2>1. pc = "waiting" /\ HandleReply(d) /\ d.kind # "request"
      BY <1>2 DEF WaitReceive, Receive
    <2>2. ~s_reply_received' /\ ~s_reply_errored'
      BY <1>1, <2>1, BelievedIsLatest
    <2>3. d.id # s_current_invoke_id
      <3>1. d.id = IdOfAge(d.age) /\ s_current_invoke_id = IdOfAge(0)
        BY <2>1 DEF IInv, IdsTellAge
      <3> QED BY <1>1, <3>1, SameIdSameAge DEF IInv
    <2>4. TSM_InvokeID' = s_current_invoke_id /\ TSM_InvokeID' = TSM_InvokeID
      BY <2>1, <2>3 DEF HandleReply, FreeInvokeID, IInv, SlotNeverLeaks
    <2> QED BY <1>2, <2>2, <2>4 DEF WaitReceive
  <1>3. CASE DiscoveryReceive(d)
    <2>1. TSM_InvokeID' = TSM_InvokeID
      BY <1>3 DEF DiscoveryReceive, HandleReply, FreeInvokeID, IInv,
                  SlotNeverLeaks
    <2> QED BY <1>3, <2>1 DEF DiscoveryReceive, history
  <1> QED BY <1>2, <1>3

\* An answer that missed its own wait loop never touches a later transaction:
\* not its outcome, not its slot, not the breaker.
THEOREM LateAnswersHarmless == Spec => LateAnswersAreIgnored
  <1>1. IInv => [\A d \in wire :
                   d.age > 0 /\ (WaitReceive(d) \/ DiscoveryReceive(d))
                     => UNCHANGED <<outcome, healthVars, TSM_InvokeID>>]_vars
    BY LateAnswerStep
  <1> QED BY <1>1, Invariant, PTL DEF LateAnswersAreIgnored

-----------------------------------------------------------------------------
(***************************************************************************)
(* A transaction looks like one step: BacnetTransactions implements        *)
(* AtomicTransactions.                                                     *)
(***************************************************************************)
AtomicAt == IF pc = "binding" THEN "starting"
            ELSE IF pc = "waiting" THEN op ELSE pc
AtomicStatus == Result(outcome.status)

\* What a step of the abstract loop that moves nothing but the worker does.
LEMMA QuietMove ==
    ASSUME UNCHANGED <<op, outcome, healthVars>>,
           \/ pc = "receive" /\ pc' \in {"discovering", "probeCheck"}
           \/ pc = "discovering" /\ pc' = "probeCheck"
           \/ pc = "probeCheck" /\ pc' = "receive"
    PROVE  Atomic!Next
  <1>1. /\ AtomicAt = pc /\ AtomicAt' = pc'
        /\ AtomicStatus' = AtomicStatus
    BY DEF AtomicAt, AtomicStatus, Result
  <1>2. \/ Atomic!Move("receive", "discovering")
        \/ Atomic!Move("discovering", "probeCheck")
        \/ Atomic!Move("receive", "probeCheck")
        \/ Atomic!Move("probeCheck", "receive")
    BY <1>1 DEF Atomic!Move, Atomic!healthVars, healthVars, AtomicAt, AtomicStatus
  <1> QED BY <1>2 DEF Atomic!Next

\* A transaction that starts either begins or is never sent.
LEMMA StartIsAtomic ==
    ASSUME TypeOK, NEW o \in Ops, StartTransaction(o),
           \/ /\ pc = "receive" /\ o \in {"READ", "WRITE"}
              /\ o = "READ" => ~FastFails("READ", "NORMAL")
           \/ pc = "probeCheck" /\ o = "PROBE" /\ NeedsProbe
    PROVE  Atomic!Next
  <1>1. AtomicAt = pc /\ o \in {"READ", "WRITE", "PROBE"}
    BY DEF AtomicAt, Ops
  <1>2. Atomic!MayBegin(o)
    BY <1>1 DEF Atomic!MayBegin, Atomic!Requests, Atomic!FastFails, FastFails,
                Atomic!NeedsProbe, NeedsProbe, AtomicAt
  <1>3. UNCHANGED healthVars /\ op' = o
    BY DEF StartTransaction
  <1>4. CASE Ends(o, "TIMEOUT", NoAge)
    <2>1. AtomicAt' = Atomic!After(o)
      BY <1>1, <1>4 DEF Ends, AtomicAt, Atomic!After
    <2>2. AtomicStatus' = "TIMEOUT"
      BY <1>4 DEF Ends, AtomicStatus, Result
    <2>3. Atomic!Unsent(o)
      BY <1>2, <1>3, <2>1, <2>2
         DEF Atomic!Unsent, Atomic!healthVars, healthVars, AtomicAt, AtomicStatus
    <2> QED BY <1>1, <2>3 DEF Atomic!Next
  <1>5. CASE pc' = "waiting" /\ UNCHANGED outcome
    <2>1. AtomicAt' = o /\ AtomicStatus' = AtomicStatus
      BY <1>3, <1>5 DEF AtomicAt, AtomicStatus, Result
    <2>2. Atomic!Begin(o)
      BY <1>2, <1>3, <2>1
         DEF Atomic!Begin, Atomic!healthVars, healthVars, AtomicAt, AtomicStatus
    <2> QED BY <1>1, <2>2 DEF Atomic!Next
  <1> QED BY <1>4, <1>5 DEF StartTransaction

\* A wait loop that ends is the end of the abstract transaction.
LEMMA EndIsAtomic ==
    ASSUME TypeOK, pc = "waiting",
           NEW s, NEW age, Ends(op, s, age),
           Result(s) \in {"OK", "TIMEOUT", "ERROR"},
           Atomic!Transaction(Result(s))
    PROVE  Atomic!Next
  <1>1. op \in {"READ", "WRITE", "PROBE"}
    BY DEF TypeOK, Ops
  <1>2. AtomicAt = op
    BY DEF AtomicAt
  <1>3. AtomicAt' = Atomic!After(op)
    BY <1>1 DEF Ends, AtomicAt, Atomic!After
  <1>4. AtomicStatus' = Result(s)
    BY DEF Ends, AtomicStatus, Result
  <1>5. Atomic!End(op, Result(s))
    BY <1>2, <1>3, <1>4 DEF Atomic!End, AtomicAt, AtomicStatus
  <1> QED BY <1>1, <1>5 DEF Atomic!Next

\* A step that neither moves the worker nor ends anything is not seen.
LEMMA HiddenStep ==
    ASSUME UNCHANGED <<pc, op, outcome, healthVars>>
    PROVE  UNCHANGED <<AtomicAt, AtomicStatus, healthVars>>
  BY DEF AtomicAt, AtomicStatus, Result

LEMMA WaitReceiveIsAtomic ==
    ASSUME IInv, NEW d \in wire, WaitReceive(d)
    PROVE  Atomic!Next \/ UNCHANGED <<AtomicAt, AtomicStatus, healthVars>>
  <1>1. pc = "waiting" /\ HandleReply(d) /\ d.kind # "request" /\ op' = op
    BY DEF WaitReceive, Receive
  <1>2. TypeOK /\ ~s_reply_received /\ ~s_reply_errored
    BY <1>1 DEF IInv, IdsTellAge
  <1>3. CASE s_reply_received' /\ TargetAnswered /\ Ends(op, StatusAfter(d), d.age)
    <2>1. Matches(d) /\ d.kind = "ack"
      BY <1>1, <1>2, <1>3 DEF HandleReply
    <2>2. StatusAfter(d) = "OK" /\ Result("OK") = "OK"
      BY <2>1 DEF StatusAfter, StatusOf, Result
    <2>3. Atomic!Transaction("OK")
      BY <1>3 DEF Atomic!Transaction, Atomic!TargetAnswered, TargetAnswered
    <2> QED BY <1>1, <1>2, <1>3, <2>2, <2>3, EndIsAtomic
  <1>4. CASE s_reply_errored' /\ Ends(op, StatusAfter(d), d.age)
             /\ UNCHANGED healthVars
    <2>1. Matches(d) /\ d.kind \in NegativeKinds
      BY <1>1, <1>2, <1>4 DEF HandleReply
    <2>2. Result(StatusAfter(d)) = "ERROR"
      BY <2>1 DEF StatusAfter, StatusOf, Result, NegativeKinds
    <2>3. Atomic!Transaction("ERROR")
      BY <1>4 DEF Atomic!Transaction, Atomic!healthVars, healthVars
    <2> QED BY <1>1, <1>2, <1>4, <2>2, <2>3, EndIsAtomic
  <1>5. CASE Ends(op, "TIMEOUT", NoAge) /\ UNCHANGED healthVars
    <2>1. Result("TIMEOUT") = "TIMEOUT"
      BY DEF Result
    <2>2. Atomic!Transaction("TIMEOUT")
      BY <1>5 DEF Atomic!Transaction, Atomic!healthVars, healthVars
    <2> QED BY <1>1, <1>2, <1>5, <2>1, <2>2, EndIsAtomic
  <1>6. CASE UNCHANGED <<pc, outcome, healthVars>>
    BY <1>1, <1>6, HiddenStep
  <1> QED BY <1>3, <1>4, <1>5, <1>6 DEF WaitReceive

LEMMA WaitExhaustedIsAtomic ==
    ASSUME IInv, WaitExhausted
    PROVE  Atomic!Next
  <1>1. TypeOK /\ pc = "waiting" /\ Ends(op, "TIMEOUT", NoAge) /\ TargetSilent
    BY DEF IInv, WaitExhausted
  <1>2. Result("TIMEOUT") = "TIMEOUT"
    BY DEF Result
  <1>3. Atomic!Transaction("TIMEOUT")
    BY <1>1 DEF Atomic!Transaction, Atomic!TargetSilent, TargetSilent
  <1> QED BY <1>1, <1>2, <1>3, EndIsAtomic

\* Binding fails, or the worker is ready.
LEMMA BindIsAtomic ==
    ASSUME WorkerBind
    PROVE  Atomic!Next \/ UNCHANGED <<AtomicAt, AtomicStatus, healthVars>>
  <1>1. pc = "binding" /\ UNCHANGED <<op, outcome>>
    BY DEF WorkerBind, history
  <1>2. CASE pc' = "receive" /\ s_health_state' = "ONLINE"
             /\ s_consecutive_timeouts' = 0
    <2>1. /\ AtomicAt = "starting" /\ AtomicAt' = "receive"
          /\ AtomicStatus' = AtomicStatus
      BY <1>1, <1>2 DEF AtomicAt, AtomicStatus, Result
    <2>2. Atomic!Ready
      BY <1>2, <2>1 DEF Atomic!Ready, AtomicAt, AtomicStatus
    <2> QED BY <2>2 DEF Atomic!Next
  <1>3. CASE UNCHANGED <<pc, healthVars>>
    BY <1>1, <1>3, HiddenStep
  <1> QED BY <1>2, <1>3 DEF WorkerBind

LEMMA FastFailIsAtomic ==
    ASSUME FastFail
    PROVE  Atomic!Next
  <1>1. /\ AtomicAt = "receive" /\ AtomicAt' = "probeCheck"
        /\ AtomicStatus' = "TARGET_OFFLINE"
    BY DEF FastFail, AtomicAt, AtomicStatus, Result
  <1>2. Atomic!Refuse
    BY <1>1 DEF FastFail, Atomic!Refuse, Atomic!FastFails, FastFails,
                Atomic!healthVars, healthVars, AtomicAt, AtomicStatus
  <1> QED BY <1>2 DEF Atomic!Next

LEMMA StepIsAtomic ==
    ASSUME IInv, [Next]_vars
    PROVE  Atomic!Next \/ UNCHANGED <<AtomicAt, AtomicStatus, healthVars>>
  <1>0. TypeOK
    BY DEF IInv
  <1>1. CASE WorkerBind
    BY <1>1, BindIsAtomic
  <1>2. CASE ReceiveRead
    BY <1>0, <1>2, StartIsAtomic DEF ReceiveRead, Ops
  <1>3. CASE ReceiveWrite
    BY <1>0, <1>3, StartIsAtomic DEF ReceiveWrite, Ops
  <1>4. CASE FastFail
    BY <1>4, FastFailIsAtomic
  <1>5. CASE ReceiveDiscovery \/ DiscoveryEnd \/ ReceiveNothing \/ SkipProbe
    <2>1. UNCHANGED <<op, outcome, healthVars>>
      BY <1>5 DEF ReceiveDiscovery, DiscoveryEnd, ReceiveNothing, SkipProbe,
                  history
    <2> QED
      BY <1>5, <2>1, QuietMove
         DEF ReceiveDiscovery, DiscoveryEnd, ReceiveNothing, SkipProbe
  <1>6. CASE Probe
    BY <1>0, <1>6, StartIsAtomic DEF Probe, Ops
  <1>7. ASSUME NEW d \in wire, WaitReceive(d)
        PROVE  Atomic!Next \/ UNCHANGED <<AtomicAt, AtomicStatus, healthVars>>
    BY <1>7, WaitReceiveIsAtomic
  <1>8. CASE WaitExhausted
    BY <1>8, WaitExhaustedIsAtomic
  <1>9. ASSUME NEW d \in wire, DiscoveryReceive(d) \/ Lose(d)
                  \/ \E k \in AllReplyKinds : Answer(d, k)
        PROVE  UNCHANGED <<pc, op, outcome, healthVars>>
    BY <1>9 DEF DiscoveryReceive, Lose, Answer, history
  <1>10. CASE \/ \E s \in IAmSources : ReceiveIAm(s[1], s[2])
              \/ \E dev \in Devices : ReceiveIAmEvicting(dev)
              \/ SetTarget \/ ProbeIntervalElapses
              \/ BecomeReachable \/ BecomeUnreachable
    <2>1. UNCHANGED <<pc, op, outcome, healthVars>>
      BY <1>10
         DEF ReceiveIAm, ReceiveIAmEvicting, SetTarget, SetTargetConfig,
             ClearTargetAddress, FillTargetAddress, ProbeIntervalElapses,
             BecomeReachable, BecomeUnreachable, history
    <2> QED BY <2>1, HiddenStep
  <1>11. CASE UNCHANGED vars
    BY <1>11, HiddenStep DEF vars, history
  <1>12. ASSUME NEW d \in wire, DiscoveryReceive(d) \/ Lose(d)
                  \/ \E k \in AllReplyKinds : Answer(d, k)
         PROVE  UNCHANGED <<AtomicAt, AtomicStatus, healthVars>>
    BY <1>9, <1>12, HiddenStep
  <1> QED
    BY <1>1, <1>2, <1>3, <1>4, <1>5, <1>6, <1>7, <1>8, <1>10, <1>11, <1>12
       DEF Next, ReceiveRequest, Pump, Network

\* The engine implements the one-step transactions that BacnetDispatch counts
\* on, whatever the network, the other devices and set_target do during a wait:
\* a caller's outcome and the breaker change together, once, at its end.
THEOREM TransactionsImplementAtomic == Spec => TransactionsAreAtomic
  <1>1. Init => Atomic!Init
    BY DEF Init, Atomic!Init, HealthInit, Atomic!HealthInit, Result
  <1>2. IInv /\ [Next]_vars
          => [Atomic!Next]_<<AtomicAt, AtomicStatus, healthVars>>
    BY StepIsAtomic
  <1>3. [Atomic!Next]_<<AtomicAt, AtomicStatus, healthVars>>
          => [Atomic!Next]_(Atomic!atomicVars)
    BY DEF Atomic!atomicVars, Atomic!healthVars, healthVars, AtomicAt,
           AtomicStatus
  <1> QED
    BY <1>1, <1>2, <1>3, Invariant, PTL
       DEF Spec, TransactionsAreAtomic, Atomic!Spec
=============================================================================
