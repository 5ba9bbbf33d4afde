---------------------------- MODULE Boost_proofs ----------------------------
(***************************************************************************)
(* Proofs about Boost, for every set of tasks and every bound on events:   *)
(* the flags and the point keep their types, and no task of the web page,  *)
(* of Matter or of the commands ever runs a step of the poll, although     *)
(* both read the mode and write it with the same actions.                  *)
(***************************************************************************)
EXTENDS Boost, TLAPS

\* Where and with what a task may be.
Frames == [pc : Applying \cup Polling, mode : Modes, seen : Modes]

\* The parts of TypeOK about the tasks.
TasksOK == /\ tasks \in [Tasks -> Frames]
           /\ \A t \in Users : tasks[t].pc \in Applying
           /\ HasStateTask \/ tasks["state"] = Idle

\* The parts of TypeOK about everything else.
PlantOK == /\ plant \in Modes /\ cache \in Modes \cup {"NONE"}
           /\ ours \in BOOLEAN /\ BoostSelfInitiated \in BOOLEAN
           /\ BoostDeadline \in {"0", "ahead", "past"}
           /\ timeoutOn \in BOOLEAN /\ BoostRevertExternal \in BOOLEAN
           /\ BacnetReady \in BOOLEAN /\ MqttConnected \in BOOLEAN
           /\ used \in 0 .. MaxEvents

LEMMA TypeParts == TypeOK <=> TasksOK /\ PlantOK
  BY DEF TypeOK, TasksOK, PlantOK, Frames

LEMMA IdleIsFrame == Idle \in Frames /\ Idle.pc = "idle"
  BY DEF Idle, Frames, Modes, Applying

\* A task that is not idle is a user's, or there is a state task.
LEMMA BusyTask ==
    ASSUME TasksOK, NEW t \in Tasks, tasks[t].pc # "idle"
    PROVE  /\ tasks[t] \in Frames
           /\ t \in Users \/ HasStateTask
  BY IdleIsFrame DEF TasksOK, Tasks

\* What a step may do to a task and leave the types in order.
LEMMA MovedTask ==
    ASSUME TasksOK, NEW t \in Tasks, NEW f \in Frames,
           t \in Users => f.pc \in Applying,
           t \in Users \/ HasStateTask \/ f = Idle,
           tasks' = [tasks EXCEPT ![t] = f]
    PROVE  TasksOK'
  <1>1. tasks \in [Tasks -> Frames] /\ Users \subseteq Tasks /\ "state" \in Tasks
    BY DEF TasksOK, Tasks
  <1>2. tasks' \in [Tasks -> Frames]
    BY <1>1
  <1>3. \A u \in Users : tasks'[u].pc \in Applying
    BY <1>1 DEF TasksOK
  <1>4. HasStateTask \/ tasks'["state"] = Idle
    BY <1>1, BoostAssumption DEF TasksOK, Tasks
  <1> QED BY <1>2, <1>3, <1>4 DEF TasksOK

LEMMA FinishTasks ==
    ASSUME TasksOK, NEW t \in Tasks, Finish(t)
    PROVE  TasksOK'
  <1>1. tasks' = [tasks EXCEPT ![t] = Idle]
    BY DEF Finish
  <1>2. Idle.pc \in Applying
    BY IdleIsFrame DEF Applying
  <1> QED BY <1>1, <1>2, IdleIsFrame, MovedTask

LEMMA GotoTasks ==
    ASSUME TasksOK, NEW t \in Tasks, NEW p \in Applying \cup Polling,
           t \in Users => p \in Applying,
           t \in Users \/ HasStateTask,
           Goto(t, p)
    PROVE  TasksOK'
  <1> DEFINE f == [tasks[t] EXCEPT !.pc = p]
  <1>1. tasks[t] \in Frames
    BY DEF TasksOK
  <1>2. f \in Frames /\ f.pc = p
    BY <1>1 DEF Frames
  <1>3. tasks' = [tasks EXCEPT ![t] = f]
    BY DEF Goto
  <1> HIDE DEF f
  <1> QED BY <1>2, <1>3, MovedTask

LEMMA SeesTasks ==
    ASSUME TasksOK, NEW t \in Tasks, NEW p \in Applying \cup Polling,
           NEW v \in Modes,
           t \in Users => p \in Applying,
           t \in Users \/ HasStateTask,
           Sees(t, v, p)
    PROVE  TasksOK'
  <1> DEFINE f == [tasks[t] EXCEPT !.pc = p, !.seen = v]
  <1>1. tasks[t] \in Frames /\ tasks \in [Tasks -> Frames]
    BY DEF TasksOK
  <1>2. f \in Frames /\ f.pc = p
    BY <1>1 DEF Frames
  <1>3. tasks' = [tasks EXCEPT ![t] = f]
    BY <1>1 DEF Sees
  <1> HIDE DEF f
  <1> QED BY <1>2, <1>3, MovedTask

\* An answer leads a user's task nowhere but to the note of boost_apply.
LEMMA AnsweredPlace ==
    ASSUME TasksOK, NEW t \in Tasks,
           tasks[t].pc \in {"read", "reading", "poll", "polling"}
    PROVE  /\ Answered(t) \in Applying \cup Polling
           /\ t \in Users => Answered(t) \in Applying
           /\ tasks[t] \in Frames
           /\ t \in Users \/ HasStateTask
  <1>1. tasks[t] \in Frames /\ (t \in Users \/ HasStateTask)
    BY BusyTask
  <1>2. t \in Users => tasks[t].pc \in {"read", "reading"}
    BY DEF TasksOK, Applying
  <1> QED BY <1>1, <1>2 DEF Answered, Applying, Polling

\* Whatever counts as an event stays within their bound.
LEMMA EventCounts ==
    ASSUME used \in 0 .. MaxEvents, Event
    PROVE  used' \in 0 .. MaxEvents
  BY BoostAssumption DEF Event

LEMMA InitTypes == Init => TypeOK
  <1> SUFFICES ASSUME Init PROVE TasksOK /\ PlantOK
    BY TypeParts
  <1>1. TasksOK
    BY IdleIsFrame DEF Init, TasksOK, Tasks, Applying
  <1>2. used \in 0 .. MaxEvents
    BY BoostAssumption DEF Init
  <1>3. PlantOK
    BY <1>2, Zenon DEF Init, PlantOK, Modes
  <1> QED BY <1>1, <1>3

LEMMA ApplyTypes ==
    ASSUME TasksOK, PlantOK, NEW t \in Tasks,
           \/ \E mode \in Modes : Command(t, mode)
           \/ WriteExecuted(t) \/ WriteFails(t)
           \/ Note(t) \/ NoteDeadline(t) \/ Rearm(t)
           \/ \E on \in BOOLEAN : SetTimeout(t, on)
    PROVE  TasksOK' /\ PlantOK'
  <1>1. ASSUME NEW mode \in Modes, Command(t, mode)
        PROVE  TasksOK' /\ PlantOK'
    <2> DEFINE f == [Idle EXCEPT !.pc = "write", !.mode = mode]
    <2>1. f \in Frames /\ f.pc = "write"
      BY DEF Idle, Frames, Modes, Applying
    <2>2. tasks' = [tasks EXCEPT ![t] = f] /\ t \in Users
      BY <1>1 DEF Command
    <2>3. "write" \in Applying
      BY DEF Applying
    <2>4. TasksOK'
      <3> HIDE DEF f
      <3> QED BY <2>1, <2>2, <2>3, MovedTask
    <2>5. PlantOK'
      BY <1>1, EventCounts DEF Command, PlantOK, point, boostFlags, settings, up
    <2> QED BY <2>4, <2>5
  <1>2. ASSUME WriteExecuted(t) \/ WriteFails(t)
        PROVE  TasksOK' /\ PlantOK'
    <2>1. tasks[t].pc = "write" /\ Goto(t, "read")
      BY <1>2 DEF WriteExecuted, WriteFails
    <2>2. tasks[t] \in Frames /\ (t \in Users \/ HasStateTask)
      BY <2>1, BusyTask
    <2>3. "read" \in Applying
      BY DEF Applying
    <2>4. TasksOK'
      BY <2>1, <2>2, <2>3, GotoTasks
    <2>5. tasks[t].mode \in Modes
      BY <2>2 DEF Frames
    <2>6. plant' \in Modes /\ cache' \in Modes \cup {"NONE"}
      BY <1>2, <2>5 DEF WriteExecuted, WriteFails, PlantOK, point
    <2>7. ours' \in BOOLEAN
      <3>1. CASE WriteExecuted(t)
        BY <3>1 DEF WriteExecuted
      <3>2. CASE WriteFails(t)
        BY <3>2 DEF WriteFails, PlantOK, point
      <3> QED BY <1>2, <3>1, <3>2
    <2>8. UNCHANGED <<boostFlags, settings, up, used>>
      BY <1>2 DEF WriteExecuted, WriteFails
    <2>9. PlantOK'
      BY <2>6, <2>7, <2>8 DEF PlantOK, boostFlags, settings, up
    <2> QED BY <2>4, <2>9
  <1>3. ASSUME Note(t) PROVE TasksOK' /\ PlantOK'
    <2>1. t \in Users \/ HasStateTask
      BY <1>3, BusyTask DEF Note
    <2>2. "deadline" \in Applying
      BY DEF Applying
    <2>3. Finish(t) \/ Goto(t, "deadline")
      BY <1>3 DEF Note, ForgetsBoost
    <2>4. TasksOK'
      BY <2>1, <2>2, <2>3, FinishTasks, GotoTasks
    <2>5. PlantOK'
      BY <1>3 DEF Note, ForgetsBoost, PlantOK, point, boostFlags, settings, up
    <2> QED BY <2>4, <2>5
  <1>4. ASSUME NoteDeadline(t) \/ Rearm(t) PROVE TasksOK' /\ PlantOK'
    <2>1. TasksOK'
      BY <1>4, FinishTasks DEF NoteDeadline, Rearm
    <2>2. PlantOK'
      BY <1>4 DEF NoteDeadline, Rearm, Armed, PlantOK, point, settings, up
    <2> QED BY <2>1, <2>2
  <1>5. ASSUME NEW on \in BOOLEAN, SetTimeout(t, on) PROVE TasksOK' /\ PlantOK'
    <2>1. t \in Users /\ Goto(t, "rearm") /\ "rearm" \in Applying
      BY <1>5 DEF SetTimeout, Applying
    <2>2. TasksOK'
      BY <2>1, GotoTasks
    <2>3. PlantOK'
      BY <1>5, EventCounts DEF SetTimeout, PlantOK, point, boostFlags, up
    <2> QED BY <2>2, <2>3
  <1> QED BY <1>1, <1>2, <1>3, <1>4, <1>5

LEMMA ReadTypes ==
    ASSUME TasksOK, PlantOK, NEW t \in Tasks, Reads(t)
    PROVE  TasksOK' /\ PlantOK'
  <1>1. CASE ReadHits(t)
    <2>1. cache \in Modes /\ Sees(t, cache, Answered(t))
      BY <1>1 DEF ReadHits, PlantOK
    <2>2. TasksOK'
      BY <1>1, <2>1, AnsweredPlace, SeesTasks DEF ReadHits
    <2>3. PlantOK'
      BY <1>1 DEF ReadHits, PlantOK, point, boostFlags, settings, up
    <2> QED BY <2>2, <2>3
  <1>2. CASE ReadSamples(t)
    <2> DEFINE p == IF tasks[t].pc = "read" THEN "reading" ELSE "polling"
    <2>1. plant \in Modes /\ Sees(t, plant, p)
      BY <1>2 DEF ReadSamples, PlantOK
    <2>2. /\ p \in Applying \cup Polling
          /\ t \in Users => p \in Applying
          /\ t \in Users \/ HasStateTask
      <3>1. t \in Users => tasks[t].pc # "poll"
        BY DEF TasksOK, Applying
      <3>2. t \in Users \/ HasStateTask
        BY <1>2, BusyTask DEF ReadSamples
      <3> QED BY <1>2, <3>1, <3>2 DEF ReadSamples, Applying, Polling
    <2>3. TasksOK'
      <3> HIDE DEF p
      <3> QED BY <2>1, <2>2, SeesTasks
    <2>4. PlantOK'
      BY <1>2 DEF ReadSamples, PlantOK, point, boostFlags, settings, up
    <2> QED BY <2>3, <2>4
  <1>3. CASE ReadReturns(t)
    <2>1. Goto(t, Answered(t)) /\ tasks[t] \in Frames
      BY <1>3, AnsweredPlace DEF ReadReturns
    <2>2. TasksOK'
      BY <1>3, <2>1, AnsweredPlace, GotoTasks DEF ReadReturns
    <2>3. tasks[t].seen \in Modes
      BY <2>1 DEF Frames
    <2>4. PlantOK'
      BY <1>3, <2>3 DEF ReadReturns, PlantOK, boostFlags, settings, up
    <2> QED BY <2>2, <2>4
  <1>4. CASE ReadFails(t)
    <2>1. tasks[t] \in Frames /\ (t \in Users \/ HasStateTask)
      BY <1>4, AnsweredPlace DEF ReadFails
    <2>2. tasks[t].mode \in Modes /\ "note" \in Applying
      BY <2>1 DEF Frames, Applying
    <2>3. Finish(t) \/ Sees(t, tasks[t].mode, "note")
      BY <1>4 DEF ReadFails
    <2>4. TasksOK'
      BY <2>1, <2>2, <2>3, FinishTasks, SeesTasks
    <2>5. PlantOK'
      BY <1>4 DEF ReadFails, PlantOK, point, boostFlags, settings, up
    <2> QED BY <2>4, <2>5
  <1> QED BY <1>1, <1>2, <1>3, <1>4 DEF Reads

LEMMA PollTypes ==
    ASSUME TasksOK, PlantOK, Poll \/ Judge \/ Compare
    PROVE  TasksOK' /\ PlantOK'
  <1>0. "state" \in Tasks /\ "state" \notin Users
    BY BoostAssumption DEF Tasks
  <1>1. CASE Poll
    <2>1. HasStateTask /\ Goto("state", "poll") /\ "poll" \in Polling
      BY <1>1 DEF Poll, Polling
    <2>2. TasksOK'
      BY <1>0, <2>1, GotoTasks
    <2>3. PlantOK'
      BY <1>1 DEF Poll, PlantOK, point, boostFlags, settings, up
    <2> QED BY <2>2, <2>3
  <1>2. CASE Judge
    <2>1. HasStateTask
      BY <1>0, <1>2, BusyTask DEF Judge
    <2>2. "deadline" \in Applying /\ "compare" \in Polling
      BY DEF Applying, Polling
    <2>3. Finish("state") \/ Goto("state", "deadline") \/ Goto("state", "compare")
      BY <1>2 DEF Judge, ForgetsBoost
    <2>4. TasksOK'
      BY <1>0, <2>1, <2>2, <2>3, FinishTasks, GotoTasks
    <2>5. PlantOK'
      BY <1>2
         DEF Judge, ForgetsBoost, ArmsDeadline, PlantOK, point, boostFlags,
             settings, up
    <2> QED BY <2>4, <2>5
  <1>3. CASE Compare
    <2> DEFINE f == [Idle EXCEPT !.pc = "write"]
    <2>1. HasStateTask
      BY <1>0, <1>3, BusyTask DEF Compare
    <2>2. f \in Frames
      BY DEF Idle, Frames, Modes, Applying
    <2>3. Finish("state") \/ tasks' = [tasks EXCEPT !["state"] = f]
      BY <1>3 DEF Compare
    <2>4. TasksOK'
      <3> HIDE DEF f
      <3> QED BY <1>0, <2>1, <2>2, <2>3, FinishTasks, MovedTask
    <2>5. PlantOK'
      BY <1>3 DEF Compare, PlantOK, point, boostFlags, settings, up
    <2> QED BY <2>4, <2>5
  <1> QED BY <1>1, <1>2, <1>3

\* The settings, the world, and a restart.
LEMMA OtherTypes ==
    ASSUME TasksOK, PlantOK,
           \/ \E on, external \in BOOLEAN : ImportSettings(on, external)
           \/ \E mode \in Modes : OthersChange(mode)
           \/ DeadlinePasses \/ CacheExpires \/ MqttChanges
           \/ WorkerStarts \/ Restart
    PROVE  TasksOK' /\ PlantOK'
  <1>1. CASE Restart
    <2>1. tasks' = [t \in Tasks |-> Idle]
      BY <1>1 DEF Restart
    <2>2. TasksOK'
      BY <2>1, IdleIsFrame DEF TasksOK, Tasks, Applying
    <2>3. PlantOK'
      BY <1>1, EventCounts DEF Restart, PlantOK, settings, up
    <2> QED BY <2>2, <2>3
  <1>2. CASE ~Restart
    <2>1. tasks' = tasks
      BY <1>2 DEF ImportSettings, OthersChange, DeadlinePasses, CacheExpires,
                  MqttChanges, WorkerStarts
    <2>2. TasksOK'
      BY <2>1 DEF TasksOK
    <2>3. CASE WorkerStarts
      BY <2>2, <2>3 DEF WorkerStarts, PlantOK, point, boostFlags, settings
    <2>4. ASSUME NEW on \in BOOLEAN, NEW external \in BOOLEAN,
                 ImportSettings(on, external)
          PROVE  PlantOK'
      BY <2>4, EventCounts DEF ImportSettings, PlantOK, point, boostFlags, up
    <2>5. ASSUME NEW mode \in Modes, OthersChange(mode) PROVE PlantOK'
      BY <2>5, EventCounts DEF OthersChange, PlantOK, boostFlags, settings, up
    <2>6. CASE DeadlinePasses \/ CacheExpires
      <3>1. CASE DeadlinePasses
        BY <2>2, <3>1 DEF DeadlinePasses, PlantOK, point, settings, up
      <3>2. CASE CacheExpires
        BY <2>2, <3>2 DEF CacheExpires, PlantOK, boostFlags, settings, up
      <3> QED BY <2>6, <3>1, <3>2
    <2>7. CASE MqttChanges
      <3>1. MqttConnected' \in BOOLEAN
        BY <2>7, Zenon DEF MqttChanges
      <3>2. UNCHANGED <<point, boostFlags, settings, BacnetReady, used>>
        BY <2>7 DEF MqttChanges
      <3> QED BY <2>2, <3>1, <3>2 DEF PlantOK, point, boostFlags, settings, up
    <2> QED BY <1>2, <2>2, <2>3, <2>4, <2>5, <2>6, <2>7
  <1> QED BY <1>1, <1>2

LEMMA StepTypes == TypeOK /\ [Next]_vars => TypeOK'
  <1> SUFFICES ASSUME TypeOK, [Next]_vars PROVE TypeOK'
    OBVIOUS
  <1>1. TasksOK /\ PlantOK
    BY TypeParts
  <1>2. SUFFICES TasksOK' /\ PlantOK'
    BY DEF TypeOK, TasksOK, PlantOK, Frames
  <1>3. CASE UNCHANGED vars
    BY <1>1, <1>3 DEF vars, point, boostFlags, settings, up, TasksOK, PlantOK
  <1>4. ASSUME NEW t \in Users, NEW mode \in Modes, Command(t, mode)
        PROVE  TasksOK' /\ PlantOK'
    BY <1>1, <1>4, ApplyTypes DEF Tasks
  <1>5. ASSUME NEW t \in Tasks,
               \/ WriteExecuted(t) \/ WriteFails(t)
               \/ Note(t) \/ NoteDeadline(t) \/ Rearm(t)
               \/ \E on \in BOOLEAN : SetTimeout(t, on)
        PROVE  TasksOK' /\ PlantOK'
    BY <1>1, <1>5, ApplyTypes
  <1>6. ASSUME NEW t \in Tasks, Reads(t)
        PROVE  TasksOK' /\ PlantOK'
    BY <1>1, <1>6, ReadTypes
  <1>7. CASE Poll \/ Judge \/ Compare
    BY <1>1, <1>7, PollTypes
  <1>8. CASE \/ \E on, external \in BOOLEAN : ImportSettings(on, external)
             \/ \E mode \in Modes : OthersChange(mode)
             \/ DeadlinePasses \/ CacheExpires \/ MqttChanges
             \/ WorkerStarts \/ Restart
    BY <1>1, <1>8, OtherTypes
  <1> QED BY <1>3, <1>4, <1>5, <1>6, <1>7, <1>8
         DEF Next, Tasks

\* boost_apply, the poll of mqtt_state_task, the import and a restart, in any
\* order, leave the mode, the flags and the settings in their ranges, and no
\* task but mqtt_state_task is ever at a step of the poll.
THEOREM BoostTypes == Spec => []TypeOK
  <1>1. TypeOK /\ [Next]_vars => TypeOK'
    BY StepTypes
  <1> QED BY InitTypes, <1>1, PTL DEF Spec
=============================================================================
