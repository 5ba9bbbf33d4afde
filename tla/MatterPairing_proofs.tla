------------------------- MODULE MatterPairing_proofs -------------------------
(***************************************************************************)
(* A pairing that succeeded is never turned into one that timed out, a     *)
(* boot after an attempt that timed out keeps the window closed, and the   *)
(* status does not outlast its window: for any number of requests,         *)
(* restarts and failing steps.                                             *)
(***************************************************************************)
EXTENDS MatterPairing, SequenceTheorems, TLAPS

Starters == {"main", "web"}

\* What task t is about to store as the pairing status.
Stores(t, status) ==
    tasks[t].pc \in {"pairNvs", "pairRam"} /\ tasks[t].arg = status

\* t starts Matter again after an attempt that timed out.
Resumes(t) ==
    \/ tasks[t].pc = "close" /\ prior_pairing_status = "TIMED_OUT"
    \/ Stores(t, "TIMED_OUT")

\* Nothing is under way that could end in PAIRED.
NoSuccessDue ==
    /\ MatterPairingStatus # "PAIRED"
    /\ \A i \in DOMAIN events : events[i] # "complete"
    /\ ~ Stores("chip", "PAIRED")

\* The tasks are where their steps lead them.
TasksOK ==
    /\ tasks["main"].pc \in {"idle", "start", "close", "run", "pairNvs", "pairRam"}
    /\ tasks["main"].pc \in {"pairNvs", "pairRam"}
         => tasks["main"].arg = "TIMED_OUT"
    /\ tasks["web"].pc \in {"pairNvs", "pairRam"}
         => tasks["web"].arg \in {"TIMED_OUT", "AWAITING"}
    /\ tasks["web"].pc \in {"modeNvs", "modePair", "modeRam"}
         => tasks["web"].arg \in Modes
    /\ tasks["chip"].pc \in {"pairNvs", "pairRam"}
         => tasks["chip"].arg \in {"PAIRED", "AWAITING", "TIMED_OUT"}

\* Before the stack is started nothing comes from it.
StackInv ==
    /\ s_matter_running => chipStarted
    /\ ~chipStarted => events = <<>> /\ ~window /\ tasks["chip"].pc = "idle"

\* t is between the start of the stack and the end of matter_adapter_start.
Starts(t) == tasks[t].pc \in {"close", "run"} \/ Stores(t, "TIMED_OUT")

\* One task at a time starts Matter, and while it resumes no pairing succeeds.
StarterInv ==
    /\ \A t \in Starters :
         /\ Starts(t) => chipStarted /\ ~s_matter_running
         /\ Resumes(t) => NoSuccessDue
         /\ Stores(t, "TIMED_OUT") => ~window
    /\ ~ (Starts("main") /\ Starts("web"))

\* The CHIP task judges a closed window before its status can be PAIRED, and
\* what NVS holds agrees.
SuccessInv ==
    /\ Stores("chip", "TIMED_OUT") => MatterPairingStatus # "PAIRED"
    /\ MatterPairingStatus = "PAIRED" \/
         (tasks["chip"].pc = "pairRam" /\ tasks["chip"].arg = "PAIRED")
         => nvs.pairing # "TIMED_OUT"

PairingInv == TypeOK /\ TasksOK /\ StackInv /\ StarterInv /\ SuccessInv

USE DEF Task, Starters

-----------------------------------------------------------------------------
(***************************************************************************)
(* The invariant                                                           *)
(***************************************************************************)
LEMMA PairingInvInit == Init => PairingInv
<1> SUFFICES ASSUME Init PROVE PairingInv
  OBVIOUS
<1>1. \A t \in Task : tasks[t].pc \in {"idle", "start"} /\ tasks[t].arg = "IDLE"
  BY DEF Init, Boot, At, Idle
<1>2. tasks["chip"].pc = "idle"
  BY DEF Init, Boot, At, Idle
<1>3. TypeOK
  <2>1. tasks \in [Task -> [pc : Steps, arg : Statuses \cup Modes]]
    BY DEF Init, Boot, At, Idle, Steps, Statuses
  <2>2. used \in [requests : 0 .. MaxRequests, restarts : 0 .. MaxRestarts,
                  faults : 0 .. MaxFaults]
    BY PairingAssumption DEF Init
  <2>3. /\ nvs \in [mode : Modes, pairing : Statuses]
        /\ IntegrationKind \in Modes /\ MatterPairingStatus \in Statuses
    BY DEF Init
  <2>4. /\ fabric \in BOOLEAN /\ chipStarted \in BOOLEAN /\ window \in BOOLEAN
        /\ s_matter_running \in BOOLEAN /\ asked \in BOOLEAN
        /\ lateStore \in BOOLEAN /\ prior_pairing_status \in Statuses
    BY DEF Init, Statuses
  <2>5. events \in Seq({"opened", "closed", "complete"})
    BY DEF Init
  <2> QED BY <1>2, <2>1, <2>2, <2>3, <2>4, <2>5 DEF TypeOK
<1>4. TasksOK /\ StackInv /\ StarterInv
  BY <1>1, <1>2 DEF Init, TasksOK, StackInv, StarterInv, Starts, Stores, Resumes
<1>5. SuccessInv
  BY <1>1 DEF Init, SuccessInv, Stores
<1> QED BY <1>3, <1>4, <1>5 DEF PairingInv

LEMMA GotoOne ==
    ASSUME TypeOK, NEW t \in Task, NEW p \in [pc : Steps, arg : Statuses \cup Modes],
           tasks' = [tasks EXCEPT ![t] = p]
    PROVE  /\ tasks' \in [Task -> [pc : Steps, arg : Statuses \cup Modes]]
           /\ tasks'[t] = p
           /\ \A u \in Task \ {t} : tasks'[u] = tasks[u]
BY DEF TypeOK

LEMMA AtIsPlace ==
    ASSUME NEW pc \in Steps, NEW arg \in Statuses \cup Modes
    PROVE  /\ At(pc, arg) \in [pc : Steps, arg : Statuses \cup Modes]
           /\ At(pc, arg).pc = pc /\ At(pc, arg).arg = arg
           /\ Idle \in [pc : Steps, arg : Statuses \cup Modes]
           /\ Idle.pc = "idle"
BY DEF At, Idle, Steps, Statuses

LEMMA Counted ==
    ASSUME TypeOK, UNCHANGED used \/ Fails \/ Requested
    PROVE  used' \in [requests : 0 .. MaxRequests, restarts : 0 .. MaxRestarts,
                      faults : 0 .. MaxFaults]
<1>1. used \in [requests : 0 .. MaxRequests, restarts : 0 .. MaxRestarts,
                faults : 0 .. MaxFaults]
  BY DEF TypeOK
<1> QED BY <1>1, PairingAssumption DEF Fails, Requested, Uses

\* A step that has failed is not forgotten.
LEMMA FaultsStay ==
    ASSUME TypeOK, UNCHANGED used \/ Fails \/ Requested, used'.faults = 0
    PROVE  used.faults = 0 /\ ~ Fails
<1>1. used \in [requests : 0 .. MaxRequests, restarts : 0 .. MaxRestarts,
                faults : 0 .. MaxFaults]
  BY DEF TypeOK
<1>2. Fails => used'.faults = used.faults + 1
  BY <1>1 DEF Fails, Uses
<1>3. Requested => used'.faults = used.faults
  BY <1>1 DEF Requested, Uses
<1> QED BY <1>1, <1>2, <1>3, PairingAssumption

\* The last of the events, as one comes and as one goes.
LEMMA LastOfAppend ==
    ASSUME NEW S, NEW s \in Seq(S), NEW e \in S
    PROVE  /\ Append(s, e) # <<>>
           /\ Append(s, e)[Len(Append(s, e))] = e
OBVIOUS

LEMMA LastOfTail ==
    ASSUME NEW S, NEW s \in Seq(S), s # <<>>
    PROVE  /\ Tail(s) = <<>> => Head(s) = s[Len(s)]
           /\ Tail(s) # <<>> => Tail(s)[Len(Tail(s))] = s[Len(s)]
<1>1. /\ Tail(s) \in Seq(S) /\ Len(Tail(s)) = Len(s) - 1
      /\ \A i \in 1 .. Len(Tail(s)) : Tail(s)[i] = s[i + 1]
  BY HeadTailProperties
<1>2. /\ Len(s) \in Nat \ {0}
      /\ Tail(s) = <<>> => Len(Tail(s)) = 0
      /\ Tail(s) # <<>> => Len(Tail(s)) \in Nat \ {0}
  BY <1>1, EmptySeq
<1>3. Tail(s) = <<>> => Head(s) = s[Len(s)]
  BY <1>1, <1>2
<1>4. Tail(s) # <<>> => Tail(s)[Len(Tail(s))] = s[Len(s)]
  BY <1>1, <1>2
<1> QED BY <1>3, <1>4

\* Where a step of hvac_core_matter_pairing_set takes its task.
LEMMA StoreGoes ==
    ASSUME TypeOK, TasksOK, NEW t \in Task,
           PairingToNvs(t) \/ PairingFails(t) \/ PairingToRam(t)
    PROVE  \E p \in [pc : Steps, arg : Statuses \cup Modes] :
             /\ tasks' = [tasks EXCEPT ![t] = p]
             /\ p.pc \in {"idle", "run", "pairRam"}
             /\ p.pc = "pairRam" => p.arg = tasks[t].arg
             /\ p.pc = "run" => t \in Starters /\ tasks[t].arg = "TIMED_OUT"
             /\ p.pc = "pairRam" <=> PairingToNvs(t)
<1>1. /\ tasks[t].pc \in {"pairNvs", "pairRam"}
      /\ tasks[t].arg \in Statuses
  BY DEF TasksOK, PairingToNvs, PairingFails, PairingToRam, Statuses
<1>2. CASE PairingToNvs(t)
  <2>1. tasks' = [tasks EXCEPT ![t] = At("pairRam", tasks[t].arg)]
    BY <1>2 DEF PairingToNvs, Goto
  <2>2. /\ At("pairRam", tasks[t].arg) \in [pc : Steps, arg : Statuses \cup Modes]
        /\ At("pairRam", tasks[t].arg).pc = "pairRam"
        /\ At("pairRam", tasks[t].arg).arg = tasks[t].arg
    BY <1>1, AtIsPlace DEF Steps
  <2> QED BY <1>2, <2>1, <2>2
<1>3. CASE ~ PairingToNvs(t)
  <2>1. tasks' = [tasks EXCEPT ![t] = AfterStore(t)]
    BY <1>3 DEF PairingFails, PairingToRam
  <2>2. /\ AfterStore(t) \in [pc : Steps, arg : Statuses \cup Modes]
        /\ AfterStore(t).pc \in {"idle", "run"}
        /\ AfterStore(t).pc = "run" => t \in Starters /\ tasks[t].arg = "TIMED_OUT"
    BY DEF AfterStore, At, Idle, Steps, Statuses
  <2> QED BY <1>3, <2>1, <2>2
<1> QED BY <1>2, <1>3

LEMMA PairingInvStore ==
    ASSUME PairingInv, NEW t \in Task,
           PairingToNvs(t) \/ PairingFails(t) \/ PairingToRam(t)
    PROVE  PairingInv'
<1> DEFINE arg == tasks[t].arg
<1>1. /\ TypeOK
      /\ tasks[t].pc \in {"pairNvs", "pairRam"}
      /\ arg \in {"PAIRED", "AWAITING", "TIMED_OUT"} /\ arg \in Statuses
      /\ t = "main" => arg = "TIMED_OUT"
      /\ t = "web" => arg \in {"TIMED_OUT", "AWAITING"}
  BY DEF PairingInv, TasksOK, PairingToNvs, PairingFails, PairingToRam, Statuses
<1>2. /\ UNCHANGED <<IntegrationKind, chip, adapter, asked>>
      /\ nvs' = nvs \/ nvs' = [nvs EXCEPT !.pairing = arg]
      /\ MatterPairingStatus' \in {MatterPairingStatus, arg}
      /\ lateStore' \in BOOLEAN
      /\ UNCHANGED used \/ Fails
  BY <1>1 DEF PairingToNvs, PairingFails, PairingToRam, core, history, TypeOK
<1>4. PICK p \in [pc : Steps, arg : Statuses \cup Modes] :
        /\ tasks' = [tasks EXCEPT ![t] = p]
        /\ p.pc \in {"idle", "run", "pairRam"}
        /\ p.pc = "pairRam" => p.arg = arg
        /\ p.pc = "run" => t \in Starters /\ arg = "TIMED_OUT"
        /\ p.pc = "pairRam" <=> PairingToNvs(t)
  BY <1>1, StoreGoes DEF PairingInv
<1>5. /\ tasks' \in [Task -> [pc : Steps, arg : Statuses \cup Modes]]
      /\ tasks'[t] = p
      /\ \A u \in Task \ {t} : tasks'[u] = tasks[u]
  BY <1>1, <1>4, GotoOne
<1>7. TypeOK'
  <2>1. nvs' \in [mode : Modes, pairing : Statuses]
    BY <1>1, <1>2 DEF TypeOK
  <2>2. tasks'["chip"].pc \in {"idle", "pairNvs", "pairRam"}
    BY <1>1, <1>4, <1>5 DEF TypeOK
  <2>3. MatterPairingStatus' \in Statuses
    BY <1>1, <1>2 DEF TypeOK
  <2> QED BY <1>1, <1>2, <1>5, <2>1, <2>2, <2>3, Counted
          DEF TypeOK, chip, adapter
<1>8. TasksOK'
  BY <1>1, <1>4, <1>5 DEF PairingInv, TasksOK
<1>9. StackInv'
  BY <1>1, <1>2, <1>4, <1>5 DEF PairingInv, StackInv, chip, adapter
<1>10. ASSUME NEW u \in Starters PROVE
         /\ Starts(u)' => Starts(u)
         /\ Stores(u, "TIMED_OUT")' => Stores(u, "TIMED_OUT")
         /\ Resumes(u)' => Resumes(u)
  BY <1>1, <1>2, <1>4, <1>5 DEF Starts, Stores, Resumes, adapter
<1>11. NoSuccessDue => NoSuccessDue'
  <2> SUFFICES ASSUME NoSuccessDue PROVE NoSuccessDue'
    OBVIOUS
  <2>1. MatterPairingStatus' # "PAIRED"
    BY <1>1, <1>2 DEF NoSuccessDue, Stores
  <2>2. ~ Stores("chip", "PAIRED")'
    BY <1>1, <1>4, <1>5 DEF NoSuccessDue, Stores
  <2> QED BY <1>2, <2>1, <2>2 DEF NoSuccessDue, chip
<1>12. StarterInv'
  BY <1>2, <1>10, <1>11 DEF PairingInv, StarterInv, chip, adapter
<1>13. arg = "TIMED_OUT" => MatterPairingStatus # "PAIRED"
                            /\ (t # "chip" => ~ Stores("chip", "PAIRED"))
  BY <1>1 DEF PairingInv, StarterInv, SuccessInv, Resumes, Stores, NoSuccessDue
<1>14. SuccessInv'
  <2>1. CASE PairingToNvs(t)
    <3>1. /\ nvs'.pairing = arg /\ MatterPairingStatus' = MatterPairingStatus
          /\ tasks[t].pc = "pairNvs"
      BY <1>1, <2>1 DEF PairingToNvs, TypeOK
    <3> QED BY <1>1, <1>4, <1>5, <1>13, <2>1, <3>1
            DEF PairingInv, SuccessInv, Stores
  <2>2. CASE PairingToRam(t)
    <3>1. /\ nvs' = nvs /\ MatterPairingStatus' = arg /\ tasks[t].pc = "pairRam"
      BY <2>2 DEF PairingToRam
    <3>2. ~ PairingToNvs(t)
      BY <3>1 DEF PairingToNvs
    <3> QED BY <1>1, <1>4, <1>5, <1>13, <3>1, <3>2
            DEF PairingInv, SuccessInv, Stores
  <2>3. CASE PairingFails(t)
    <3>1. /\ MatterPairingStatus' = MatterPairingStatus
          /\ p.pc # "pairRam" \/ tasks[t].pc = "pairNvs"
      BY <1>4, <2>3 DEF PairingFails
    <3>2. CASE p.pc # "pairRam"
      <4>1. nvs'.pairing = "TIMED_OUT" => nvs.pairing = "TIMED_OUT" \/ arg = "TIMED_OUT"
        BY <1>1, <1>2 DEF TypeOK
      <4> QED BY <1>1, <1>4, <1>5, <1>13, <3>1, <3>2, <4>1
              DEF PairingInv, SuccessInv, Stores
    <3>3. CASE PairingToNvs(t)
      BY <2>1, <3>3
    <3> QED BY <1>4, <3>2, <3>3
  <2> QED BY <2>1, <2>2, <2>3
<1> QED BY <1>7, <1>8, <1>9, <1>12, <1>14 DEF PairingInv

\* Where a step of matter_adapter_start takes its task.
LEMMA StartGoes ==
    ASSUME NEW t \in Starters,
           \/ StartReturns(t) \/ StartFails(t) \/ StartsStack(t)
           \/ AfterStackStart(t) \/ Runs(t)
    PROVE  \E p \in [pc : Steps, arg : Statuses \cup Modes] :
             /\ tasks' = [tasks EXCEPT ![t] = p]
             /\ StartReturns(t) \/ StartFails(t) \/ Runs(t) => p.pc = "idle"
             /\ StartsStack(t) => p.pc = "close"
             /\ AfterStackStart(t) =>
                  \/ /\ p.pc = "pairNvs" /\ p.arg = "TIMED_OUT" /\ ~window'
                     /\ prior_pairing_status = "TIMED_OUT"
                  \/ p.pc = "run" /\ UNCHANGED chip
             /\ \/ p.pc \in {"idle", "close", "run"}
                \/ p.pc = "pairNvs" /\ p.arg = "TIMED_OUT"
<1>1. /\ StartsStack(t) => ~ (StartReturns(t) \/ StartFails(t) \/ Runs(t)
                              \/ AfterStackStart(t))
      /\ AfterStackStart(t) => ~ (StartReturns(t) \/ StartFails(t) \/ Runs(t))
  BY DEF StartReturns, StartFails, Runs, StartsStack, AfterStackStart, chip
<1>2. CASE StartReturns(t) \/ StartFails(t) \/ Runs(t)
  <2>1. tasks' = [tasks EXCEPT ![t] = Idle]
    BY <1>2 DEF StartReturns, StartFails, Runs
  <2> QED BY <1>1, <1>2, <2>1, AtIsPlace DEF Steps, Statuses
<1>3. CASE StartsStack(t)
  <2>1. tasks' = [tasks EXCEPT ![t] = At("close", "IDLE")]
    BY <1>3 DEF StartsStack, Goto
  <2>2. At("close", "IDLE") \in [pc : Steps, arg : Statuses \cup Modes]
        /\ At("close", "IDLE").pc = "close"
    BY AtIsPlace DEF Steps, Statuses
  <2> QED BY <1>1, <1>3, <2>1, <2>2
<1>4. CASE AfterStackStart(t)
  <2>1. \/ /\ tasks' = [tasks EXCEPT ![t] = At("pairNvs", "TIMED_OUT")]
           /\ ~window' /\ prior_pairing_status = "TIMED_OUT"
        \/ /\ tasks' = [tasks EXCEPT ![t] = At("run", "IDLE")]
           /\ UNCHANGED chip
    BY <1>4 DEF AfterStackStart, ClosesAgain, CloseWindow, Goto
  <2>2. /\ At("pairNvs", "TIMED_OUT") \in [pc : Steps, arg : Statuses \cup Modes]
        /\ At("pairNvs", "TIMED_OUT").pc = "pairNvs"
        /\ At("pairNvs", "TIMED_OUT").arg = "TIMED_OUT"
        /\ At("run", "IDLE") \in [pc : Steps, arg : Statuses \cup Modes]
        /\ At("run", "IDLE").pc = "run"
    BY AtIsPlace DEF Steps, Statuses
  <2> QED BY <1>1, <1>4, <2>1, <2>2
<1> QED BY <1>2, <1>3, <1>4

\* A step of a task in matter_adapter_start.
LEMMA PairingInvStart ==
    ASSUME PairingInv, NEW t \in Starters,
           \/ StartReturns(t) \/ StartFails(t) \/ StartsStack(t)
           \/ AfterStackStart(t) \/ Runs(t)
    PROVE  PairingInv'
<1>1. /\ TypeOK /\ TasksOK /\ StackInv /\ StarterInv /\ SuccessInv
      /\ UNCHANGED <<core, fabric, history>> /\ (UNCHANGED used \/ Fails)
  BY DEF PairingInv, StartReturns, StartFails, StartsStack, AfterStackStart, ClosesAgain,
         CloseWindow, Runs, chip
<1>2. PICK p \in [pc : Steps, arg : Statuses \cup Modes] :
        /\ tasks' = [tasks EXCEPT ![t] = p]
        /\ StartReturns(t) \/ StartFails(t) \/ Runs(t) => p.pc = "idle"
        /\ StartsStack(t) => p.pc = "close"
        /\ AfterStackStart(t) =>
             \/ /\ p.pc = "pairNvs" /\ p.arg = "TIMED_OUT" /\ ~window'
                /\ prior_pairing_status = "TIMED_OUT"
             \/ p.pc = "run" /\ UNCHANGED chip
        /\ \/ p.pc \in {"idle", "close", "run"}
           \/ p.pc = "pairNvs" /\ p.arg = "TIMED_OUT"
  BY StartGoes
<1>3. /\ tasks' \in [Task -> [pc : Steps, arg : Statuses \cup Modes]]
      /\ tasks'[t] = p
      /\ \A u \in Task \ {t} : tasks'[u] = tasks[u]
  BY <1>1, <1>2, GotoOne
<1>5. /\ chipStarted' \in BOOLEAN /\ window' \in BOOLEAN
      /\ s_matter_running' \in BOOLEAN /\ prior_pairing_status' \in Statuses
  BY <1>1 DEF TypeOK, StartReturns, StartFails, StartsStack, AfterStackStart, ClosesAgain,
              CloseWindow, Runs, chip, adapter
<1>5a. events' \in Seq({"opened", "closed", "complete"})
  <2>1. events' \in {events, Append(events, "opened"), Append(events, "closed")}
    BY DEF StartReturns, StartFails, StartsStack, AfterStackStart, ClosesAgain,
           CloseWindow, Runs, chip
  <2>2. events \in Seq({"opened", "closed", "complete"})
    BY <1>1 DEF TypeOK
  <2> QED BY <2>1, <2>2
<1>6. TypeOK'
  BY <1>1, <1>3, <1>5, <1>5a, Counted DEF TypeOK, core, history
<1>7. TasksOK'
  BY <1>1, <1>2, <1>3 DEF TasksOK
<1>8. StackInv'
  BY <1>1, <1>3 DEF StackInv, StarterInv, Starts, StartReturns, StartFails, StartsStack,
     AfterStackStart, ClosesAgain, CloseWindow, Runs, chip, adapter
<1>9. SuccessInv'
  BY <1>1, <1>3 DEF SuccessInv, Stores, core
<1>10. StarterInv'
  <2>1. CASE StartReturns(t) \/ StartFails(t)
    <3>1. UNCHANGED <<chip, adapter>> /\ p.pc = "idle"
      BY <1>2, <2>1 DEF StartReturns, StartFails
    <3> QED BY <1>1, <1>3, <3>1 DEF StarterInv, Starts, Stores, Resumes,
               NoSuccessDue, chip, adapter, core
  <2>2. CASE StartsStack(t)
    <3>1. /\ ~chipStarted /\ ~s_matter_running /\ chipStarted'
          /\ s_matter_running' = s_matter_running
          /\ prior_pairing_status' = MatterPairingStatus
          /\ p.pc = "close"
          /\ events' = events \/ events' = Append(events, "opened")
      BY <1>2, <2>2 DEF StartsStack
    <3>2. \A u \in Starters : ~ Starts(u)
      BY <1>1, <3>1 DEF StarterInv
    <3>3. events = <<>> /\ tasks["chip"].pc = "idle"
      BY <1>1, <3>1 DEF StackInv
    <3>4. \A i \in DOMAIN events' : events'[i] # "complete"
      BY <3>1, <3>3
    <3>5. MatterPairingStatus = "TIMED_OUT" => NoSuccessDue'
      BY <1>1, <1>3, <3>3, <3>4 DEF NoSuccessDue, Stores, core
    <3> QED BY <1>1, <1>3, <3>1, <3>2, <3>5
            DEF StarterInv, Starts, Stores, Resumes
  <2>3. CASE AfterStackStart(t)
    <3>1. /\ tasks[t].pc = "close"
          /\ UNCHANGED <<adapter, chipStarted>>
          /\ window' => window
          /\ events' = events \/ events' = Append(events, "closed")
      BY <2>3 DEF AfterStackStart, ClosesAgain, CloseWindow, chip
    <3>2. NoSuccessDue => NoSuccessDue'
      <4>1. events \in Seq({"opened", "closed", "complete"})
        BY <1>1 DEF TypeOK
      <4>2. ASSUME NoSuccessDue, NEW i \in DOMAIN events'
            PROVE  events'[i] # "complete"
        BY <3>1, <4>1, <4>2 DEF NoSuccessDue
      <4> QED BY <1>1, <1>3, <4>2 DEF NoSuccessDue, Stores, core
    <3> QED BY <1>1, <1>2, <1>3, <2>3, <3>1, <3>2
            DEF StarterInv, Starts, Stores, Resumes, adapter
  <2>4. CASE Runs(t)
    <3>1. /\ tasks[t].pc = "run" /\ p.pc = "idle"
          /\ UNCHANGED <<chip, prior_pairing_status>>
      BY <1>2, <2>4 DEF Runs
    <3> QED BY <1>1, <1>3, <3>1 DEF StarterInv, Starts, Stores, Resumes,
               NoSuccessDue, chip, core
  <2> QED BY <2>1, <2>2, <2>3, <2>4
<1> QED BY <1>6, <1>7, <1>8, <1>9, <1>10 DEF PairingInv

\* What a step of the web server outside matter_adapter_start, which takes its
\* task to p, may change.
WebStep(p) ==
    /\ tasks' = [tasks EXCEPT !["web"] = p]
    /\ tasks["web"].pc # "close"
    /\ \/ p.pc \in {"idle", "modeNvs", "modePair", "modeRam", "start"}
       \/ p.pc = "reset" /\ asked'
       \/ p.pc = "pairNvs" /\ p.arg = "AWAITING" /\ asked'
    /\ p.pc \in {"modeNvs", "modePair", "modeRam"} => p.arg \in Modes
    /\ asked' \in BOOLEAN /\ (asked => asked')
    /\ UNCHANGED <<fabric, chipStarted, prior_pairing_status, lateStore>>
    /\ s_matter_running' \in BOOLEAN /\ (s_matter_running' => s_matter_running)
    /\ \/ UNCHANGED <<window, events>>
       \/ /\ s_matter_running /\ window' = TRUE /\ asked'
          /\ events' = Append(events, "opened")
       \/ /\ s_matter_running /\ window /\ window' = FALSE
          /\ events' = Append(events, "closed")
    /\ IntegrationKind' \in Modes
    /\ \/ MatterPairingStatus' = MatterPairingStatus
       \/ MatterPairingStatus' = "IDLE" /\ asked'
    /\ nvs' \in [mode : Modes, pairing : Statuses]
    /\ nvs'.pairing \in {nvs.pairing, "IDLE"}
    /\ UNCHANGED used \/ Fails \/ Requested

LEMMA WebSteps ==
    ASSUME TypeOK, TasksOK,
           \/ \E mode \in Modes : Select(mode)
           \/ ModeToNvs \/ ModePairToNvs \/ ModeFails \/ ModeToRam
           \/ Retry \/ RetryFails \/ Close \/ FactoryReset
    PROVE  \E p \in [pc : Steps, arg : Statuses \cup Modes] : WebStep(p)
<1>1. /\ nvs \in [mode : Modes, pairing : Statuses] /\ IntegrationKind \in Modes
      /\ window \in BOOLEAN /\ s_matter_running \in BOOLEAN
      /\ asked \in BOOLEAN /\ lateStore \in BOOLEAN
      /\ tasks \in [Task -> [pc : Steps, arg : Statuses \cup Modes]]
      /\ tasks["web"].pc \in {"modeNvs", "modePair", "modeRam"}
           => tasks["web"].arg \in Modes
      /\ tasks["web"].pc # "close"
  <2>1. tasks["web"].pc # "close"
    BY DEF Select, ModeToNvs, ModePairToNvs, ModeFails, ModeToRam, Retry,
           RetryFails, Close, FactoryReset, Requested, Idle, At
  <2> QED BY <2>1 DEF TypeOK, TasksOK
<1>2. ASSUME NEW pc \in Steps, NEW arg \in Statuses \cup Modes
      PROVE  /\ At(pc, arg) \in [pc : Steps, arg : Statuses \cup Modes]
             /\ At(pc, arg).pc = pc /\ At(pc, arg).arg = arg
  BY AtIsPlace
<1>3. Idle \in [pc : Steps, arg : Statuses \cup Modes] /\ Idle.pc = "idle"
  BY DEF Idle, At, Steps, Statuses
<1>4. ASSUME NEW mode \in Modes, Select(mode)
      PROVE  \E p \in [pc : Steps, arg : Statuses \cup Modes] : WebStep(p)
  <2>1. /\ At("modeNvs", mode) \in [pc : Steps, arg : Statuses \cup Modes]
        /\ At("modeNvs", mode).pc = "modeNvs" /\ At("modeNvs", mode).arg = mode
    BY <1>2 DEF Steps
  <2>2. /\ tasks' = [tasks EXCEPT !["web"] = At("modeNvs", mode)]
        /\ UNCHANGED <<core, chip, adapter, history>> /\ Requested
    BY <1>4 DEF Select, Goto
  <2>3. WebStep(At("modeNvs", mode))
    BY <1>1, <2>1, <2>2 DEF WebStep, core, chip, adapter, history
  <2> QED BY <2>1, <2>3
<1>5. CASE ModeToNvs
  <2> DEFINE mode == tasks["web"].arg
             next == IF Switching(mode) THEN "modePair" ELSE "modeRam"
  <2>1. mode \in Modes /\ next \in {"modePair", "modeRam"}
    BY <1>1, <1>5 DEF ModeToNvs
  <2>2. /\ tasks' = [tasks EXCEPT !["web"] = At(next, mode)]
        /\ nvs' = [nvs EXCEPT !.mode = mode]
        /\ UNCHANGED <<IntegrationKind, MatterPairingStatus, chip, adapter,
                       history, used>>
    BY <1>5 DEF ModeToNvs, Goto
  <2>3. nvs' \in [mode : Modes, pairing : Statuses] /\ nvs'.pairing = nvs.pairing
    BY <1>1, <2>1, <2>2
  <2> HIDE DEF mode, next
  <2>4. /\ At(next, mode) \in [pc : Steps, arg : Statuses \cup Modes]
        /\ At(next, mode).pc = next /\ At(next, mode).arg = mode
    BY <1>2, <2>1 DEF Steps
  <2>5. WebStep(At(next, mode))
    BY <1>1, <2>1, <2>2, <2>3, <2>4 DEF WebStep, chip, adapter, history
  <2> QED BY <2>1, <2>5, <2>4
<1>6. CASE ModePairToNvs
  <2> DEFINE mode == tasks["web"].arg
  <2>1. mode \in Modes
    BY <1>1, <1>6 DEF ModePairToNvs
  <2>2. /\ tasks' = [tasks EXCEPT !["web"] = At("modeRam", mode)]
        /\ nvs' = [nvs EXCEPT !.pairing = "IDLE"]
        /\ UNCHANGED <<IntegrationKind, MatterPairingStatus, chip, adapter,
                       history, used>>
    BY <1>6 DEF ModePairToNvs, Goto
  <2>3. nvs' \in [mode : Modes, pairing : Statuses] /\ nvs'.pairing = "IDLE"
    BY <1>1, <2>2 DEF Statuses
  <2> HIDE DEF mode
  <2>4. /\ At("modeRam", mode) \in [pc : Steps, arg : Statuses \cup Modes]
        /\ At("modeRam", mode).pc = "modeRam" /\ At("modeRam", mode).arg = mode
    BY <1>2, <2>1 DEF Steps
  <2>5. WebStep(At("modeRam", mode))
    BY <1>1, <2>1, <2>2, <2>3, <2>4 DEF WebStep, chip, adapter, history
  <2> QED BY <2>1, <2>5, <2>4
<1>7. CASE ModeFails
  <2>1. /\ tasks' = [tasks EXCEPT !["web"] = Idle]
        /\ UNCHANGED <<IntegrationKind, MatterPairingStatus>>
        /\ UNCHANGED <<chip, adapter, history>> /\ Fails
    BY <1>7 DEF ModeFails
  <2>2. /\ nvs' \in [mode : Modes, pairing : Statuses]
        /\ nvs'.pairing \in {nvs.pairing, "IDLE"}
    BY <1>1, <1>7 DEF ModeFails, Statuses
  <2>3. WebStep(Idle)
    BY <1>1, <1>3, <2>1, <2>2 DEF WebStep, chip, adapter, history
  <2> QED BY <2>3, <1>3
<1>8. CASE ModeToRam
  <2> DEFINE mode == tasks["web"].arg
  <2>1. mode \in Modes
    BY <1>1, <1>8 DEF ModeToRam
  <2>2. PICK p \in {At("start", "IDLE"), Idle} :
          tasks' = [tasks EXCEPT !["web"] = p]
    BY <1>8 DEF ModeToRam, SettingsGoOn, WizardGoesOn
  <2>3. /\ p \in [pc : Steps, arg : Statuses \cup Modes]
        /\ p.pc \in {"start", "idle"}
    BY <1>2, <1>3 DEF Steps, Statuses
  <2>4. /\ IntegrationKind' = mode
        /\ MatterPairingStatus' = IF Switching(mode) THEN "IDLE"
                                                    ELSE MatterPairingStatus
        /\ asked' = (asked \/ Switching(mode))
        /\ UNCHANGED <<nvs, chip, prior_pairing_status, lateStore, used>>
    BY <1>8 DEF ModeToRam
  <2>5. s_matter_running' \in BOOLEAN /\ (s_matter_running' => s_matter_running)
    <3>1. CASE SettingsGoOn(mode)
      BY <1>1, <3>1, Zenon DEF SettingsGoOn
    <3>2. CASE WizardGoesOn(mode)
      BY <1>1, <3>2, Zenon DEF WizardGoesOn
    <3> QED BY <1>8, <3>1, <3>2 DEF ModeToRam
  <2>6. asked' \in BOOLEAN
    BY <1>8 DEF ModeToRam
  <2> HIDE DEF mode
  <2>7. WebStep(p)
    BY <1>1, <2>1, <2>2, <2>3, <2>4, <2>5, <2>6 DEF WebStep, chip
  <2> QED BY <2>3, <2>7
<1>9. CASE Retry
  <2>1. /\ At("pairNvs", "AWAITING") \in [pc : Steps, arg : Statuses \cup Modes]
        /\ At("pairNvs", "AWAITING").pc = "pairNvs"
        /\ At("pairNvs", "AWAITING").arg = "AWAITING"
    BY <1>2 DEF Steps, Statuses
  <2>2. /\ tasks' = [tasks EXCEPT !["web"] = At("pairNvs", "AWAITING")]
        /\ window' = TRUE /\ s_matter_running /\ asked' = TRUE
        /\ events' = IF window THEN events ELSE Append(events, "opened")
        /\ UNCHANGED <<core, fabric, chipStarted, adapter, lateStore>>
        /\ Requested
    BY <1>9 DEF Retry, Goto
  <2>3. WebStep(At("pairNvs", "AWAITING"))
    BY <1>1, <2>1, <2>2 DEF WebStep, core, adapter
  <2> QED BY <2>1, <2>3
<1>9a. CASE RetryFails
  <2>1. /\ tasks' = [tasks EXCEPT !["web"] = Idle]
        /\ UNCHANGED <<core, chip, adapter, history>> /\ Fails
    BY <1>1, <1>9a DEF RetryFails
  <2>2. WebStep(Idle)
    BY <1>1, <1>3, <2>1 DEF WebStep, core, chip, adapter, history
  <2> QED BY <2>2, <1>3
<1>10. CASE Close
  <2>1. /\ tasks' = [tasks EXCEPT !["web"] = Idle]
        /\ window' = FALSE /\ s_matter_running
        /\ events' = IF window THEN Append(events, "closed") ELSE events
        /\ UNCHANGED <<core, fabric, chipStarted, adapter, history>>
        /\ Requested
    BY <1>1, <1>10 DEF Close, CloseWindow, Requested
  <2>2. WebStep(Idle)
    BY <1>1, <1>3, <2>1 DEF WebStep, core, adapter, history
  <2> QED BY <2>1, <2>2, <1>3
<1>11. CASE FactoryReset
  <2>1. /\ At("reset", "IDLE") \in [pc : Steps, arg : Statuses \cup Modes]
        /\ At("reset", "IDLE").pc = "reset"
    BY <1>2 DEF Steps, Statuses
  <2>2. /\ tasks' = [tasks EXCEPT !["web"] = At("reset", "IDLE")]
        /\ nvs' \in {nvs, [mode |-> "other", pairing |-> "IDLE"]}
        /\ IntegrationKind' = "other" /\ MatterPairingStatus' = "IDLE"
        /\ asked' = TRUE
        /\ UNCHANGED <<chip, adapter, lateStore>>
        /\ Requested \/ Fails
    BY <1>11 DEF FactoryReset, Goto
  <2>3. /\ nvs' \in [mode : Modes, pairing : Statuses]
        /\ nvs'.pairing \in {nvs.pairing, "IDLE"}
        /\ IntegrationKind' \in Modes
    BY <1>1, <2>2 DEF Modes, Statuses
  <2>4. WebStep(At("reset", "IDLE"))
    BY <1>1, <2>1, <2>2, <2>3 DEF WebStep, chip, adapter
  <2> QED BY <2>1, <2>4
<1> QED BY <1>4, <1>5, <1>6, <1>7, <1>8, <1>9, <1>9a, <1>10, <1>11

LEMMA PairingInvWeb ==
    ASSUME PairingInv, NEW p \in [pc : Steps, arg : Statuses \cup Modes],
           WebStep(p)
    PROVE  PairingInv'
<1>1. TypeOK /\ TasksOK /\ StackInv /\ StarterInv /\ SuccessInv
  BY DEF PairingInv
<1> USE DEF WebStep
<1>2. /\ tasks' \in [Task -> [pc : Steps, arg : Statuses \cup Modes]]
      /\ tasks'["web"] = p /\ tasks'["main"] = tasks["main"]
      /\ tasks'["chip"] = tasks["chip"]
  BY <1>1, GotoOne
<1>3. TypeOK'
  <2>1. events' \in Seq({"opened", "closed", "complete"})
    <3>1. events \in Seq({"opened", "closed", "complete"})
      BY <1>1 DEF TypeOK
    <3>2. /\ Append(events, "opened") \in Seq({"opened", "closed", "complete"})
          /\ Append(events, "closed") \in Seq({"opened", "closed", "complete"})
      BY <3>1
    <3> QED BY <3>1, <3>2
  <2>2. MatterPairingStatus' \in Statuses
    BY <1>1 DEF TypeOK, Statuses
  <2> QED BY <1>1, <1>2, <2>1, <2>2, Counted DEF TypeOK
<1>4. TasksOK'
  BY <1>1, <1>2 DEF TasksOK
<1>5. StackInv'
  BY <1>1, <1>2 DEF StackInv
<1>6. /\ ~ Starts("web")' /\ ~ Resumes("web")' /\ ~ Stores("web", "TIMED_OUT")'
      /\ Starts("main")' <=> Starts("main")
      /\ Resumes("main")' <=> Resumes("main")
      /\ Stores("main", "TIMED_OUT")' <=> Stores("main", "TIMED_OUT")
      /\ Stores("chip", "TIMED_OUT")' <=> Stores("chip", "TIMED_OUT")
      /\ Stores("chip", "PAIRED")' <=> Stores("chip", "PAIRED")
  BY <1>2 DEF Starts, Resumes, Stores
<1>7. Resumes("main") => Starts("main")
  BY DEF Starts, Resumes
<1>8. StarterInv'
  <2>1. Starts("main") => chipStarted' /\ ~s_matter_running' /\ events' = events
                          /\ (window' => window)
    BY <1>1 DEF StarterInv
  <2>2. Resumes("main") => NoSuccessDue'
    BY <1>1, <1>6, <1>7, <2>1 DEF StarterInv, NoSuccessDue
  <2>3. Stores("main", "TIMED_OUT") => Starts("main") /\ ~window
    BY <1>1 DEF StarterInv, Starts
  <2> QED BY <1>6, <2>1, <2>2, <2>3 DEF StarterInv
<1>9. SuccessInv'
  BY <1>1, <1>2, <1>6 DEF SuccessInv
<1> QED BY <1>3, <1>4, <1>5, <1>8, <1>9 DEF PairingInv

\* What app_event_cb makes of the event at the head of the queue.
LEMMA HandleGoes ==
    ASSUME TypeOK, HandleEvent
    PROVE  \E p \in [pc : Steps, arg : Statuses \cup Modes] :
             /\ tasks' = [tasks EXCEPT !["chip"] = p]
             /\ \/ /\ p.pc = "idle" /\ Head(events) = "closed"
                   /\ MatterPairingStatus # "AWAITING"
                \/ /\ p.pc = "pairNvs" /\ p.arg = "TIMED_OUT"
                   /\ Head(events) = "closed"
                   /\ MatterPairingStatus = "AWAITING"
                \/ /\ p.pc = "pairNvs" /\ p.arg = "AWAITING"
                   /\ Head(events) = "opened"
                \/ /\ p.pc = "pairNvs" /\ p.arg = "PAIRED"
                   /\ Head(events) = "complete"
<1>1. tasks["chip"] = Idle /\ Idle.pc = "idle"
  BY AtIsPlace DEF HandleEvent, Steps, Statuses
<1>2. ASSUME NEW status \in {"PAIRED", "AWAITING", "TIMED_OUT"}
      PROVE  /\ At("pairNvs", status) \in [pc : Steps, arg : Statuses \cup Modes]
             /\ At("pairNvs", status).pc = "pairNvs"
             /\ At("pairNvs", status).arg = status
  BY AtIsPlace DEF Steps, Statuses
<1>3. CASE UNCHANGED tasks
  <2>1. tasks' = [tasks EXCEPT !["chip"] = Idle]
    BY <1>1, <1>3 DEF TypeOK
  <2>2. Idle \in [pc : Steps, arg : Statuses \cup Modes]
    BY DEF Idle, At, Steps, Statuses
  <2>3. \/ Head(events) = "closed" /\ MatterPairingStatus # "AWAITING"
        \/ \E status \in {"PAIRED", "AWAITING", "TIMED_OUT"} :
             tasks' = [tasks EXCEPT !["chip"] = At("pairNvs", status)]
    BY DEF HandleEvent, JudgesClose, Goto
  <2>4. ASSUME NEW status \in {"PAIRED", "AWAITING", "TIMED_OUT"},
               tasks' = [tasks EXCEPT !["chip"] = At("pairNvs", status)]
        PROVE  FALSE
    <3>1. tasks'["chip"].pc = "pairNvs"
      BY <1>2, <2>4 DEF TypeOK
    <3> QED BY <1>1, <1>3, <3>1
  <2> QED BY <1>1, <2>1, <2>2, <2>3, <2>4
<1>4. CASE Head(events) = "complete" /\ Goto("chip", "pairNvs", "PAIRED")
  BY <1>2, <1>4 DEF Goto
<1>5. CASE Head(events) = "opened" /\ Goto("chip", "pairNvs", "AWAITING")
  BY <1>2, <1>5 DEF Goto
<1>6. CASE /\ Head(events) = "closed" /\ MatterPairingStatus = "AWAITING"
           /\ Goto("chip", "pairNvs", "TIMED_OUT")
  BY <1>2, <1>6 DEF Goto
<1> QED BY <1>3, <1>4, <1>5, <1>6 DEF HandleEvent, JudgesClose

LEMMA PairingInvHandle ==
    ASSUME PairingInv, HandleEvent
    PROVE  PairingInv'
<1>1. /\ TypeOK /\ TasksOK /\ StackInv /\ StarterInv /\ SuccessInv
      /\ tasks["chip"] = Idle /\ Idle.pc = "idle" /\ events # <<>>
      /\ events \in Seq({"opened", "closed", "complete"})
      /\ events' = Tail(events)
      /\ UNCHANGED <<core, fabric, chipStarted, window, adapter, history, used>>
  BY DEF PairingInv, HandleEvent, TypeOK, Idle, At
<1>3. PICK p \in [pc : Steps, arg : Statuses \cup Modes] :
        /\ tasks' = [tasks EXCEPT !["chip"] = p]
        /\ \/ p.pc = "idle"
           \/ /\ p.pc = "pairNvs"
              /\ p.arg \in {"PAIRED", "AWAITING", "TIMED_OUT"}
        /\ p.pc # "idle" /\ p.arg = "PAIRED" => Head(events) = "complete"
        /\ p.pc # "idle" /\ p.arg = "TIMED_OUT"
             => MatterPairingStatus = "AWAITING"
  BY <1>1, HandleGoes
<1>4. /\ tasks' \in [Task -> [pc : Steps, arg : Statuses \cup Modes]]
      /\ tasks'["chip"] = p
      /\ \A u \in Starters : tasks'[u] = tasks[u]
  BY <1>1, <1>3, GotoOne
<1>5. events' \in Seq({"opened", "closed", "complete"})
  BY <1>1
<1>6. TypeOK'
  BY <1>1, <1>3, <1>4, <1>5, Counted DEF TypeOK, core, history, adapter
<1>7. TasksOK'
  BY <1>1, <1>3, <1>4 DEF TasksOK
<1>8. StackInv'
  BY <1>1 DEF StackInv, adapter
<1>9. NoSuccessDue => NoSuccessDue'
  <2> SUFFICES ASSUME NoSuccessDue PROVE NoSuccessDue'
    OBVIOUS
  <2>1. Head(events) # "complete"
    BY <1>1 DEF NoSuccessDue
  <2>2. \A i \in DOMAIN events' : events'[i] # "complete"
    BY <1>1 DEF NoSuccessDue
  <2>3. ~ Stores("chip", "PAIRED")'
    BY <1>3, <1>4, <2>1 DEF Stores
  <2> QED BY <1>1, <2>2, <2>3 DEF NoSuccessDue, core
<1>10. StarterInv'
  BY <1>1, <1>4, <1>9 DEF StarterInv, Starts, Stores, Resumes, adapter
<1>11. SuccessInv'
  BY <1>1, <1>3, <1>4 DEF SuccessInv, Stores, core
<1> QED BY <1>6, <1>7, <1>8, <1>10, <1>11 DEF PairingInv

\* The window ends, by a pairing or by the clock: nobody resumes meanwhile.
LEMMA PairingInvWindow ==
    ASSUME PairingInv, Commissioned \/ WindowTimesOut
    PROVE  PairingInv'
<1>1. /\ TypeOK /\ TasksOK /\ StackInv /\ StarterInv /\ SuccessInv
      /\ window /\ ~window' /\ fabric' \in BOOLEAN
      /\ UNCHANGED <<core, chipStarted, adapter, tasks, history, used>>
      /\ \A t \in Starters : tasks[t].pc \notin {"close", "run"}
  BY DEF PairingInv, Commissioned, WindowTimesOut, WindowMayEnd, CloseWindow,
         TypeOK
<1>2. /\ window' = FALSE
      /\ events' = <<"complete", "closed">> \/ events' = Append(events, "closed")
  <2>1. CASE Commissioned
    BY <2>1 DEF Commissioned
  <2>2. CASE WindowTimesOut
    BY <2>2 DEF WindowTimesOut, WindowMayEnd, CloseWindow
  <2> QED BY <2>1, <2>2
<1>3. events' \in Seq({"opened", "closed", "complete"})
  <2>1. events \in Seq({"opened", "closed", "complete"})
    BY <1>1 DEF TypeOK
  <2>2. /\ <<"complete", "closed">> \in Seq({"opened", "closed", "complete"})
        /\ Append(events, "closed") \in Seq({"opened", "closed", "complete"})
    BY <2>1
  <2> QED BY <1>2, <2>2
<1>4. TypeOK'
  BY <1>1, <1>2, <1>3, Counted DEF TypeOK, core, history, adapter
<1>5. TasksOK'
  BY <1>1 DEF TasksOK
<1>6. StackInv'
  BY <1>1 DEF StackInv, adapter
<1>7. \A t \in Starters : ~ Resumes(t)
  BY <1>1 DEF StarterInv, Resumes
<1>8. StarterInv'
  BY <1>1, <1>7 DEF StarterInv, Starts, Stores, Resumes, adapter
<1>9. SuccessInv'
  BY <1>1 DEF SuccessInv, Stores, core
<1> QED BY <1>4, <1>5, <1>6, <1>8, <1>9 DEF PairingInv

LEMMA PairingInvRestart ==
    ASSUME PairingInv, Restart
    PROVE  PairingInv'
<1>1. /\ nvs \in [mode : Modes, pairing : Statuses] /\ fabric \in BOOLEAN
      /\ UNCHANGED <<nvs, fabric>>
      /\ IntegrationKind' = nvs.mode /\ MatterPairingStatus' = nvs.pairing
      /\ chipStarted' = FALSE /\ window' = FALSE /\ events' = <<>>
      /\ s_matter_running' = FALSE /\ prior_pairing_status' = "IDLE"
      /\ asked' = FALSE /\ lateStore' = FALSE
      /\ tasks' = Boot(nvs.mode)
  BY DEF PairingInv, TypeOK, Restart
<1>2. /\ tasks' \in [Task -> [pc : Steps, arg : Statuses \cup Modes]]
      /\ \A t \in Task : tasks'[t].pc \in {"idle", "start"}
      /\ tasks'["chip"].pc = "idle"
  BY <1>1 DEF Boot, At, Idle, Steps, Statuses
<1>3. used' \in [requests : 0 .. MaxRequests, restarts : 0 .. MaxRestarts,
                 faults : 0 .. MaxFaults]
  <2>1. used \in [requests : 0 .. MaxRequests, restarts : 0 .. MaxRestarts,
                  faults : 0 .. MaxFaults]
    BY DEF PairingInv, TypeOK
  <2> QED BY <2>1, PairingAssumption DEF Restart, Uses
<1>4. events' \in Seq({"opened", "closed", "complete"})
  BY <1>1
<1>5. TypeOK'
  BY <1>1, <1>2, <1>3, <1>4 DEF TypeOK, Statuses
<1>6. TasksOK' /\ StackInv'
  BY <1>1, <1>2 DEF TasksOK, StackInv
<1>7. \A t \in Task, status \in Statuses : ~ Stores(t, status)'
  BY <1>2 DEF Stores
<1>8. StarterInv' /\ SuccessInv'
  BY <1>1, <1>2, <1>7 DEF StarterInv, SuccessInv, Starts, Resumes, Statuses
<1> QED BY <1>5, <1>6, <1>8 DEF PairingInv

LEMMA PairingInvNext == PairingInv /\ [Next]_vars => PairingInv'
<1> SUFFICES ASSUME PairingInv, [Next]_vars PROVE PairingInv'
  OBVIOUS
<1>1. ASSUME NEW t \in Task,
             PairingToNvs(t) \/ PairingFails(t) \/ PairingToRam(t)
      PROVE  PairingInv'
  BY <1>1, PairingInvStore
<1>2. ASSUME NEW t \in Starters,
             \/ StartReturns(t) \/ StartFails(t) \/ StartsStack(t)
             \/ AfterStackStart(t) \/ Runs(t)
      PROVE  PairingInv'
  BY <1>2, PairingInvStart
<1>3. CASE HandleEvent
  BY <1>3, PairingInvHandle
<1>4. CASE \/ \E mode \in Modes : Select(mode)
           \/ ModeToNvs \/ ModePairToNvs \/ ModeFails \/ ModeToRam
           \/ Retry \/ RetryFails \/ Close \/ FactoryReset
  BY <1>4, WebSteps, PairingInvWeb DEF PairingInv
<1>5. CASE Commissioned \/ WindowTimesOut
  BY <1>5, PairingInvWindow
<1>6. CASE Restart
  BY <1>6, PairingInvRestart
<1>7. CASE UNCHANGED vars
  BY <1>7 DEF vars, core, chip, adapter, history, PairingInv, TypeOK, TasksOK,
     StackInv, StarterInv, SuccessInv, Starts, Stores, Resumes, NoSuccessDue
<1> QED BY <1>1, <1>2, <1>3, <1>4, <1>5, <1>6, <1>7 DEF Next

-----------------------------------------------------------------------------
(***************************************************************************)
(* The window and the status that is still to come of it                   *)
(***************************************************************************)

\* The events that wait tell how the window stands, and once they are handled
\* and what the CHIP task made of them is stored, the status does not say
\* AWAITING of a window that is closed.
WindowInv ==
    /\ events # <<>> => events[Len(events)] = IF window THEN "opened" ELSE "closed"
    /\ Stores("chip", "AWAITING") /\ events = <<>> => window
    /\ used.faults = 0 /\ chipStarted /\ ~fabric /\ ~lateStore /\ ~window
         /\ events = <<>> /\ ~ Stores("chip", "TIMED_OUT")
         => MatterPairingStatus # "AWAITING"

\* In a boot that nobody has asked for a window the web server stores no
\* AWAITING.
AskedInv ==
    /\ ~chipStarted => prior_pairing_status = "IDLE"
    /\ ~asked =>
         /\ ~lateStore
         /\ tasks["web"].pc # "reset" /\ ~ Stores("web", "AWAITING")

\* Such a boot after an attempt that timed out: nothing succeeds, the window is
\* closed by the step that follows its opening, and a device with a fabric had
\* none to close.
ResumeInv ==
    prior_pairing_status = "TIMED_OUT" /\ ~asked =>
      /\ NoSuccessDue
      /\ MatterPairingStatus \in {"AWAITING", "TIMED_OUT"}
      /\ (\E t \in Starters : tasks[t].pc = "close") \/ ~window
      /\ fabric => /\ ~window /\ events = <<>> /\ tasks["chip"].pc = "idle"
                   /\ MatterPairingStatus = "TIMED_OUT"

PendingInv == WindowInv /\ AskedInv /\ ResumeInv

LEMMA PendingInvInit == Init => PendingInv
<1> SUFFICES ASSUME Init PROVE PendingInv
  OBVIOUS
<1>1. tasks["chip"].pc = "idle" /\ tasks["web"].pc = "idle"
  BY DEF Init, Boot, At, Idle
<1> QED BY <1>1 DEF Init, PendingInv, WindowInv, AskedInv, ResumeInv, Stores

LEMMA PendingInvStore ==
    ASSUME PairingInv, PendingInv, NEW t \in Task,
           PairingToNvs(t) \/ PairingFails(t) \/ PairingToRam(t)
    PROVE  PendingInv'
<1> DEFINE arg == tasks[t].arg
<1>1. /\ TypeOK /\ TasksOK /\ WindowInv /\ AskedInv /\ ResumeInv
      /\ tasks[t].pc \in {"pairNvs", "pairRam"}
      /\ arg \in {"PAIRED", "AWAITING", "TIMED_OUT"}
      /\ t = "main" => arg = "TIMED_OUT"
      /\ t = "web" => arg \in {"TIMED_OUT", "AWAITING"}
  BY DEF PairingInv, PendingInv, TasksOK, PairingToNvs, PairingFails, PairingToRam
<1>2. PICK p \in [pc : Steps, arg : Statuses \cup Modes] :
        /\ tasks' = [tasks EXCEPT ![t] = p]
        /\ p.pc \in {"idle", "run", "pairRam"}
        /\ p.pc = "pairRam" => p.arg = arg
        /\ p.pc = "run" => t \in Starters /\ arg = "TIMED_OUT"
        /\ p.pc = "pairRam" <=> PairingToNvs(t)
  BY <1>1, StoreGoes
<1>3. /\ tasks'[t] = p
      /\ \A u \in Task \ {t} : tasks'[u] = tasks[u]
  BY <1>1, <1>2, GotoOne
<1>4. /\ UNCHANGED <<fabric, chipStarted, window, events>>
      /\ UNCHANGED <<prior_pairing_status, asked>>
      /\ UNCHANGED used \/ Fails
      /\ \/ UNCHANGED <<MatterPairingStatus, lateStore>>
         \/ PairingToRam(t) /\ MatterPairingStatus' = arg
  BY DEF PairingToNvs, PairingFails, PairingToRam, core, chip, adapter, history
<1>5. ~asked => /\ t = "web" => arg = "TIMED_OUT"
                /\ lateStore' = lateStore
  BY <1>1 DEF AskedInv, Stores, PairingToNvs, PairingFails, PairingToRam, history,
              TypeOK
<1>6. WindowInv'
  <2>1. Stores("chip", "AWAITING")' => Stores("chip", "AWAITING")
    BY <1>1, <1>2, <1>3 DEF Stores
  <2>2. SUFFICES ASSUME used'.faults = 0, chipStarted, ~fabric, ~lateStore',
                        ~window, events = <<>>, ~ Stores("chip", "TIMED_OUT")'
                 PROVE  MatterPairingStatus' # "AWAITING"
    BY <1>1, <1>4, <2>1 DEF WindowInv
  <2>3. used.faults = 0 /\ ~ Fails
    BY <1>1, <1>4, <2>2, FaultsStay
  <2>4. CASE PairingToNvs(t)
    <3>1. UNCHANGED <<MatterPairingStatus, lateStore>> /\ p.pc = "pairRam"
      BY <1>2, <2>4 DEF PairingToNvs, history
    <3>2. ~ Stores("chip", "TIMED_OUT")
      BY <1>1, <1>2, <1>3, <2>2, <3>1 DEF Stores
    <3> QED BY <1>1, <2>2, <2>3, <3>1, <3>2 DEF WindowInv
  <2>5. CASE PairingToRam(t)
    <3>1. ~ (t = "web" /\ arg = "AWAITING")
      BY <2>2, <2>5 DEF PairingToRam
    <3>2. ~ (t = "chip" /\ arg = "AWAITING")
      BY <1>1, <2>2 DEF WindowInv, Stores
    <3> QED BY <1>1, <2>5, <3>1, <3>2 DEF PairingToRam
  <2> QED BY <2>3, <2>4, <2>5 DEF PairingFails
<1>7. AskedInv'
  BY <1>1, <1>2, <1>3, <1>4, <1>5 DEF AskedInv, Stores
<1>8. ResumeInv'
  <2> SUFFICES ASSUME prior_pairing_status = "TIMED_OUT", ~asked
               PROVE  ResumeInv'
    BY <1>4 DEF ResumeInv
  <2>1. /\ NoSuccessDue /\ (t # "chip" => arg = "TIMED_OUT")
        /\ MatterPairingStatus \in {"AWAITING", "TIMED_OUT"}
        /\ (\E u \in Starters : tasks[u].pc = "close") \/ ~window
        /\ fabric => /\ ~window /\ events = <<>> /\ tasks["chip"].pc = "idle"
                     /\ MatterPairingStatus = "TIMED_OUT"
    BY <1>1, <1>5 DEF ResumeInv
  <2>2. arg # "PAIRED" /\ (fabric => t # "chip")
    BY <1>1, <2>1 DEF NoSuccessDue, Stores
  <2>3. /\ MatterPairingStatus' \in {"AWAITING", "TIMED_OUT"}
        /\ fabric => MatterPairingStatus' = "TIMED_OUT"
    BY <1>1, <1>4, <2>1, <2>2
  <2>4. ~ Stores("chip", "PAIRED")'
    BY <1>2, <1>3, <2>1, <2>2 DEF NoSuccessDue, Stores
  <2>5. NoSuccessDue'
    BY <1>4, <2>1, <2>3, <2>4 DEF NoSuccessDue
  <2>6. (\E u \in Starters : tasks'[u].pc = "close") \/ ~window
    BY <1>1, <1>3, <2>1
  <2>7. fabric => tasks'["chip"].pc = "idle"
    BY <1>3, <2>1, <2>2
  <2> QED BY <1>4, <2>1, <2>3, <2>5, <2>6, <2>7 DEF ResumeInv
<1> QED BY <1>6, <1>7, <1>8 DEF PendingInv

LEMMA PendingInvStart ==
    ASSUME PairingInv, PendingInv, NEW t \in Starters,
           \/ StartReturns(t) \/ StartFails(t) \/ StartsStack(t)
           \/ AfterStackStart(t) \/ Runs(t)
    PROVE  PendingInv'
<1>1. /\ TypeOK /\ StackInv /\ WindowInv /\ AskedInv /\ ResumeInv
      /\ events \in Seq({"opened", "closed", "complete"})
      /\ UNCHANGED <<core, fabric, history>> /\ (UNCHANGED used \/ Fails)
  BY DEF PairingInv, PendingInv, StartReturns, StartFails, StartsStack, AfterStackStart,
         ClosesAgain, CloseWindow, Runs, chip, TypeOK
<1>2. PICK p \in [pc : Steps, arg : Statuses \cup Modes] :
        /\ tasks' = [tasks EXCEPT ![t] = p]
        /\ StartReturns(t) \/ StartFails(t) \/ Runs(t) => p.pc = "idle"
        /\ StartsStack(t) => p.pc = "close"
        /\ \/ p.pc \in {"idle", "close", "run"}
           \/ p.pc = "pairNvs" /\ p.arg = "TIMED_OUT"
  BY StartGoes
<1>3. /\ tasks'[t] = p
      /\ \A u \in Task \ {t} : tasks'[u] = tasks[u]
  BY <1>1, <1>2, GotoOne
<1>4. /\ tasks'["chip"] = tasks["chip"]
      /\ Stores("chip", "AWAITING")' <=> Stores("chip", "AWAITING")
      /\ Stores("chip", "TIMED_OUT")' <=> Stores("chip", "TIMED_OUT")
      /\ Stores("chip", "PAIRED")' <=> Stores("chip", "PAIRED")
  BY <1>3 DEF Stores
<1>5. AskedInv'
  <2>1. p.pc # "reset" /\ ~ (p.pc \in {"pairNvs", "pairRam"} /\ p.arg = "AWAITING")
    BY <1>2
  <2>2. /\ UNCHANGED <<asked, lateStore>>
        /\ ~chipStarted' => prior_pairing_status' = "IDLE"
    BY <1>1 DEF TypeOK, AskedInv, StartReturns, StartFails, StartsStack, AfterStackStart,
                ClosesAgain, CloseWindow, Runs, chip, adapter, history
  <2> QED BY <1>1, <1>3, <2>1, <2>2 DEF AskedInv, Stores
<1>6. CASE StartReturns(t) \/ StartFails(t) \/ Runs(t)
  <2>1. /\ UNCHANGED <<chip, prior_pairing_status>>
        /\ tasks[t].pc # "close"
    BY <1>6 DEF StartReturns, StartFails, Runs, adapter
  <2>2. used'.faults = 0 => used.faults = 0
    BY <1>1, FaultsStay
  <2>2a. WindowInv'
    BY <1>1, <1>4, <2>1, <2>2 DEF WindowInv, chip, core, history
  <2>3. ResumeInv'
    BY <1>1, <1>3, <1>4, <1>5, <2>1
       DEF ResumeInv, NoSuccessDue, chip, core, history
  <2> QED BY <1>5, <2>2a, <2>3 DEF PendingInv
<1>7. CASE StartsStack(t)
  <2>1. /\ events = <<>> /\ tasks["chip"].pc = "idle"
        /\ chipStarted' /\ window' = ~fabric
        /\ events' = IF fabric THEN <<>> ELSE <<"opened">>
        /\ prior_pairing_status' = MatterPairingStatus
        /\ p.pc = "close"
    BY <1>1, <1>2, <1>7 DEF StartsStack, StackInv
  <2>2. fabric \in BOOLEAN
    BY <1>1 DEF TypeOK
  <2>3. WindowInv'
    BY <1>1, <1>4, <2>1, <2>2 DEF WindowInv, Stores
  <2>5. ~ Stores("chip", "PAIRED")
    BY <2>1 DEF Stores
  <2>6. \A i \in DOMAIN events' : events'[i] # "complete"
    BY <2>1
  <2>7. MatterPairingStatus = "TIMED_OUT" => NoSuccessDue'
    BY <1>1, <1>4, <2>5, <2>6 DEF NoSuccessDue, core
  <2>8. ResumeInv'
    BY <1>1, <1>3, <1>4, <2>1, <2>7 DEF ResumeInv, core, history
  <2> QED BY <1>5, <2>3, <2>8 DEF PendingInv
<1>8. CASE AfterStackStart(t)
  <2>1. /\ UNCHANGED <<chipStarted, prior_pairing_status>>
        /\ \/ UNCHANGED <<window, events>>
           \/ window /\ window' = FALSE /\ events' = Append(events, "closed")
        /\ prior_pairing_status = "TIMED_OUT" => ~window'
    <3>1. window \in BOOLEAN
      BY <1>1 DEF TypeOK
    <3> QED BY <1>8, <3>1
            DEF AfterStackStart, ClosesAgain, CloseWindow, chip, adapter
  <2>2. WindowInv'
    <3>1. /\ Append(events, "closed") # <<>>
          /\ Append(events, "closed")[Len(Append(events, "closed"))] = "closed"
      BY <1>1, LastOfAppend
    <3>2. used'.faults = 0 => used.faults = 0
      BY <1>1, FaultsStay
    <3> QED BY <1>1, <1>4, <2>1, <3>1, <3>2 DEF WindowInv, core, history
  <2>3. NoSuccessDue => NoSuccessDue'
    BY <1>1, <1>4, <2>1 DEF NoSuccessDue, core
  <2>4. ResumeInv'
    BY <1>1, <1>4, <2>1, <2>3 DEF ResumeInv, core, history
  <2> QED BY <1>5, <2>2, <2>4 DEF PendingInv
<1> QED BY <1>6, <1>7, <1>8

LEMMA PendingInvWeb ==
    ASSUME PairingInv, PendingInv,
           NEW p \in [pc : Steps, arg : Statuses \cup Modes], WebStep(p)
    PROVE  PendingInv'
<1> USE DEF WebStep
<1>1. /\ TypeOK /\ WindowInv /\ AskedInv /\ ResumeInv
      /\ events \in Seq({"opened", "closed", "complete"})
  BY DEF PairingInv, PendingInv, TypeOK
<1>2. /\ tasks'["web"] = p /\ tasks'["main"] = tasks["main"]
      /\ tasks'["chip"] = tasks["chip"]
  BY <1>1, GotoOne
<1>3. /\ Stores("chip", "AWAITING")' <=> Stores("chip", "AWAITING")
      /\ Stores("chip", "TIMED_OUT")' <=> Stores("chip", "TIMED_OUT")
      /\ Stores("chip", "PAIRED")' <=> Stores("chip", "PAIRED")
  BY <1>2 DEF Stores
<1>4. ASSUME NEW e \in {"opened", "closed"}, events' = Append(events, e)
      PROVE  events' # <<>> /\ events'[Len(events')] = e
  BY <1>1, <1>4, LastOfAppend
<1>5. used'.faults = 0 => used.faults = 0
  BY <1>1, FaultsStay
<1>6. WindowInv'
  <2>1. CASE UNCHANGED <<window, events>>
    BY <1>1, <1>3, <1>5, <2>1 DEF WindowInv
  <2>2. CASE window' = TRUE /\ events' = Append(events, "opened")
    BY <1>4, <2>2 DEF WindowInv
  <2>3. CASE window' = FALSE /\ events' = Append(events, "closed")
    BY <1>4, <2>3 DEF WindowInv
  <2> QED BY <2>1, <2>2, <2>3
<1>7. AskedInv'
  BY <1>1, <1>2 DEF AskedInv, Stores
<1>8. ResumeInv'
  <2> SUFFICES ASSUME prior_pairing_status = "TIMED_OUT", ~asked'
               PROVE  ResumeInv'
    BY DEF ResumeInv
  <2>1. /\ ~asked /\ MatterPairingStatus' = MatterPairingStatus
        /\ \/ UNCHANGED <<window, events>>
           \/ window /\ window' = FALSE /\ events' = Append(events, "closed")
    BY <1>1 DEF TypeOK
  <2>2. NoSuccessDue'
    BY <1>1, <1>3, <2>1 DEF ResumeInv, NoSuccessDue
  <2> QED BY <1>1, <1>2, <2>1, <2>2 DEF ResumeInv
<1> QED BY <1>6, <1>7, <1>8 DEF PendingInv

LEMMA PendingInvHandle ==
    ASSUME PairingInv, PendingInv, HandleEvent
    PROVE  PendingInv'
<1>1. /\ TypeOK /\ WindowInv /\ AskedInv /\ ResumeInv
      /\ events \in Seq({"opened", "closed", "complete"}) /\ events # <<>>
      /\ events' = Tail(events)
      /\ UNCHANGED <<core, fabric, chipStarted, window, adapter, history, used>>
  BY DEF PairingInv, PendingInv, TypeOK, HandleEvent
<1>2. PICK p \in [pc : Steps, arg : Statuses \cup Modes] :
        /\ tasks' = [tasks EXCEPT !["chip"] = p]
        /\ \/ /\ p.pc = "idle" /\ Head(events) = "closed"
              /\ MatterPairingStatus # "AWAITING"
           \/ /\ p.pc = "pairNvs" /\ p.arg = "TIMED_OUT"
              /\ Head(events) = "closed"
              /\ MatterPairingStatus = "AWAITING"
           \/ /\ p.pc = "pairNvs" /\ p.arg = "AWAITING"
              /\ Head(events) = "opened"
           \/ /\ p.pc = "pairNvs" /\ p.arg = "PAIRED"
              /\ Head(events) = "complete"
  BY <1>1, HandleGoes
<1>3. /\ tasks'["chip"] = p
      /\ tasks'["main"] = tasks["main"] /\ tasks'["web"] = tasks["web"]
  BY <1>1, <1>2, GotoOne
<1>4. /\ events' = <<>> => Head(events) = events[Len(events)]
      /\ events' # <<>> => events'[Len(events')] = events[Len(events)]
  BY <1>1, LastOfTail
<1>5. events[Len(events)] = IF window THEN "opened" ELSE "closed"
  BY <1>1 DEF WindowInv
<1>6. WindowInv'
  BY <1>1, <1>2, <1>3, <1>4, <1>5 DEF WindowInv, Stores, core, history
<1>7. AskedInv'
  BY <1>1, <1>3 DEF AskedInv, Stores, adapter, history
<1>8. ResumeInv'
  <2> SUFFICES ASSUME prior_pairing_status = "TIMED_OUT", ~asked
               PROVE  ResumeInv'
    BY <1>1 DEF ResumeInv, adapter, history
  <2>1. NoSuccessDue /\ ~fabric
    BY <1>1 DEF ResumeInv
  <2>2. Head(events) # "complete" /\ \A i \in DOMAIN events' : events'[i] # "complete"
    BY <1>1, <2>1 DEF NoSuccessDue
  <2>3. NoSuccessDue'
    BY <1>1, <1>2, <1>3, <2>1, <2>2 DEF NoSuccessDue, Stores, core
  <2> QED BY <1>1, <1>3, <2>1, <2>3 DEF ResumeInv, core
<1> QED BY <1>6, <1>7, <1>8 DEF PendingInv

LEMMA PendingInvWindow ==
    ASSUME PairingInv, PendingInv, Commissioned \/ WindowTimesOut
    PROVE  PendingInv'
<1>1. /\ TypeOK /\ AskedInv /\ ResumeInv
      /\ window /\ events = <<>> /\ \A t \in Starters : tasks[t].pc # "close"
      /\ window' = FALSE
      /\ events' = <<"complete", "closed">> \/ events' = Append(<<>>, "closed")
      /\ UNCHANGED <<core, chipStarted, adapter, tasks, history, used>>
  BY DEF PairingInv, PendingInv, Commissioned, WindowTimesOut, WindowMayEnd,
         CloseWindow
<1>2. events' # <<>> /\ events'[Len(events')] = "closed"
  BY <1>1
<1>3. WindowInv'
  BY <1>1, <1>2 DEF WindowInv
<1>4. AskedInv'
  BY <1>1 DEF AskedInv, Stores, adapter, history
<1>5. ResumeInv'
  BY <1>1 DEF ResumeInv, adapter, history
<1> QED BY <1>3, <1>4, <1>5 DEF PendingInv

LEMMA PendingInvNext ==
    PairingInv /\ PendingInv /\ [Next]_vars => PendingInv'
<1> SUFFICES ASSUME PairingInv, PendingInv, [Next]_vars PROVE PendingInv'
  OBVIOUS
<1>1. ASSUME NEW t \in Task,
             PairingToNvs(t) \/ PairingFails(t) \/ PairingToRam(t)
      PROVE  PendingInv'
  BY <1>1, PendingInvStore
<1>2. ASSUME NEW t \in Starters,
             \/ StartReturns(t) \/ StartFails(t) \/ StartsStack(t)
             \/ AfterStackStart(t) \/ Runs(t)
      PROVE  PendingInv'
  BY <1>2, PendingInvStart
<1>3. CASE HandleEvent
  BY <1>3, PendingInvHandle
<1>4. CASE \/ \E mode \in Modes : Select(mode)
           \/ ModeToNvs \/ ModePairToNvs \/ ModeFails \/ ModeToRam
           \/ Retry \/ RetryFails \/ Close \/ FactoryReset
  BY <1>4, WebSteps, PendingInvWeb DEF PairingInv
<1>5. CASE Commissioned \/ WindowTimesOut
  BY <1>5, PendingInvWindow
<1>6. CASE Restart
  <2>1. /\ chipStarted' = FALSE /\ window' = FALSE /\ events' = <<>>
        /\ prior_pairing_status' = "IDLE"
        /\ asked' = FALSE /\ lateStore' = FALSE
        /\ tasks' = Boot(nvs.mode)
    BY <1>6 DEF Restart
  <2>2. tasks'["chip"].pc = "idle" /\ tasks'["web"].pc = "idle"
    BY <2>1 DEF Boot, At, Idle
  <2> QED BY <2>1, <2>2 DEF PendingInv, WindowInv, AskedInv, ResumeInv, Stores
<1>7. CASE UNCHANGED vars
  BY <1>7 DEF vars, core, chip, adapter, history, PendingInv, WindowInv,
     AskedInv, ResumeInv, Stores, NoSuccessDue
<1> QED BY <1>1, <1>2, <1>3, <1>4, <1>5, <1>6, <1>7 DEF Next

-----------------------------------------------------------------------------
(***************************************************************************)
(* Theorems                                                                *)
(***************************************************************************)

\* One task at a time starts Matter, what comes from the stack comes after its
\* start, and no TIMED_OUT is under way to a status that may become PAIRED.
THEOREM PairingInvariant == Spec => []PairingInv
BY PairingInvInit, PairingInvNext, PTL DEF Spec

\* The two copies of the settings, the tasks and the queue of events keep their
\* types.
THEOREM PairingTypes == Spec => []TypeOK
<1>1. PairingInv => TypeOK
  BY DEF PairingInv
<1> QED BY <1>1, PairingInvariant, PTL

\* A pairing that succeeded is never shown as one that timed out, however the
\* tasks and the events interleave, and whatever fails or restarts.
THEOREM PairedIsNeverTimedOut == Spec => PairedIsNotTimedOut
<1> DEFINE Kept == MatterPairingStatus = "PAIRED"
                     => MatterPairingStatus' # "TIMED_OUT"
<1>1. PairingInv /\ [Next]_vars => [Kept]_vars
  <2> SUFFICES ASSUME PairingInv, Next, MatterPairingStatus = "PAIRED",
                      MatterPairingStatus' = "TIMED_OUT"
               PROVE  FALSE
    OBVIOUS
  <2>1. ASSUME NEW t \in Task, PairingToRam(t) PROVE FALSE
    <3>1. Stores(t, "TIMED_OUT")
      BY <2>1 DEF PairingToRam, Stores
    <3>2. \A u \in Starters : Stores(u, "TIMED_OUT") => NoSuccessDue
      BY DEF PairingInv, StarterInv, Resumes
    <3>3. Stores("chip", "TIMED_OUT") => MatterPairingStatus # "PAIRED"
      BY DEF PairingInv, SuccessInv
    <3> QED BY <3>1, <3>2, <3>3 DEF NoSuccessDue
  <2>2. CASE Restart
    BY <2>2 DEF Restart, PairingInv, SuccessInv
  <2> QED BY <2>1, <2>2 DEF Next, PairingToNvs, PairingFails, StartReturns, StartFails,
       StartsStack, AfterStackStart, Runs, HandleEvent, Select, ModeToNvs,
       ModePairToNvs, ModeFails, ModeToRam, SettingsGoOn, WizardGoesOn,
       Retry, RetryFails, Close, FactoryReset,
       Commissioned, WindowTimesOut, core
<1>2. Spec => [][Kept]_vars
  BY <1>1, PairingInvariant, PTL DEF Spec
<1> QED BY <1>2 DEF PairedIsNotTimedOut

\* Every event that waits and every store that is under way fits the window, in
\* a boot that was asked for one and in a boot that was not.
THEOREM PendingInvariant == Spec => []PendingInv
BY PairingInvariant, PendingInvInit, PendingInvNext, PTL DEF Spec

\* The restart after an attempt that timed out leaves the window closed and,
\* once nothing is under way, shows the attempt as timed out, in whatever order
\* app_main and the CHIP task store what the two events of the window mean.
THEOREM TimedOutBootIsSilent == Spec => []TimedOutBootStaysClosed
<1>1. PairingInv /\ PendingInv => TimedOutBootStaysClosed
  <2> SUFFICES ASSUME PairingInv, PendingInv, prior_pairing_status = "TIMED_OUT",
                      ~asked
               PROVE  /\ s_matter_running => ~window
                      /\ Quiet /\ used.faults = 0
                           => MatterPairingStatus = "TIMED_OUT"
    BY DEF TimedOutBootStaysClosed
  <2>1. /\ ~lateStore /\ chipStarted
        /\ MatterPairingStatus \in {"AWAITING", "TIMED_OUT"}
        /\ (\E t \in Starters : tasks[t].pc = "close") \/ ~window
        /\ fabric => MatterPairingStatus = "TIMED_OUT"
    BY DEF PendingInv, AskedInv, ResumeInv
  <2>2. s_matter_running => \A t \in Starters : tasks[t].pc # "close"
    BY DEF PairingInv, StarterInv, Starts
  <2>3. ASSUME Quiet, used.faults = 0, MatterPairingStatus = "AWAITING"
        PROVE  FALSE
    <3>1. events = <<>> /\ \A t \in Task : tasks[t].pc = "idle"
      BY <2>3 DEF Quiet, Idle, At
    <3> QED BY <2>1, <2>3, <3>1 DEF PendingInv, WindowInv, Stores
  <2> QED BY <2>1, <2>2, <2>3
<1> QED BY <1>1, PairingInvariant, PendingInvariant, PTL

\* A device without a fabric does not go on saying AWAITING of a window that has
\* closed: the CHIP task judges the closing after it has stored the opening.
THEOREM AwaitingEnds == Spec => []AwaitingEndsWithWindow
<1>1. PendingInv => AwaitingEndsWithWindow
  <2> SUFFICES ASSUME PendingInv, used.faults = 0, Quiet, chipStarted, ~fabric,
                      ~lateStore, ~window
               PROVE  MatterPairingStatus # "AWAITING"
    BY DEF AwaitingEndsWithWindow
  <2>1. events = <<>> /\ tasks["chip"].pc = "idle"
    BY DEF Quiet, Idle, At
  <2> QED BY <2>1 DEF PendingInv, WindowInv, Stores
<1> QED BY <1>1, PendingInvariant, PTL
=============================================================================
