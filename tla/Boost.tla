-------------------------------- MODULE Boost --------------------------------
(***************************************************************************)
(* The boost mode of the plant: boost_apply of main.c, called by the tasks *)
(* of the web page, of Matter and of the MQTT commands, and by the poll of *)
(* mqtt_state_task, which is to end a boost that has lasted too long.      *)
(* None of them excludes another between the BACnet write, the read back   *)
(* and the assignment of the flags.  The mode is read through the read     *)
(* cache (ReadCache), here the one entry of this point.                    *)
(***************************************************************************)
EXTENDS Naturals

CONSTANTS
    Users,          \* tasks that carry out commands
    HasStateTask,   \* mqtt_state_task was spawned: MQTT was chosen at boot
    MaxEvents       \* bound: commands, changes by others, and restarts

ASSUME BoostAssumption ==
    /\ "state" \notin Users
    /\ HasStateTask \in BOOLEAN
    /\ MaxEvents \in Nat

VARIABLES
    plant,              \* the point in the device
    cache,              \* its entry in the read cache, or "NONE"
    ours,               \* history: the last change was written by a user task
    BoostSelfInitiated,
    BoostDeadline,      \* BoostDeadlineUs: "0", "ahead" or "past"
    timeoutOn,          \* BoostTimeoutMinutes > 0
    BoostRevertExternal,    \* boosts of others are ended too
    BacnetReady,        \* the BACnet worker has started
    MqttConnected,
    tasks,              \* where each task is, and with what
    used                \* of MaxEvents

boostFlags == <<BoostSelfInitiated, BoostDeadline>>
settings == <<timeoutOn, BoostRevertExternal>>
point == <<plant, cache, ours>>
up == <<BacnetReady, MqttConnected>>
vars == <<point, boostFlags, settings, up, tasks, used>>

Modes == {"AUTO", "HEAT", "COOL"}
Tasks == Users \cup {"state"}
Idle == [pc |-> "idle", mode |-> "AUTO", seen |-> "AUTO"]

Applying == {"idle", "write", "read", "reading", "note", "deadline", "rearm"}
Polling == {"poll", "polling", "judge", "compare"}

\* The variables keep their types, and only the state task, where there is
\* one, is ever at a step of the poll.
TypeOK ==
    /\ plant \in Modes /\ cache \in Modes \cup {"NONE"}
    /\ ours \in BOOLEAN /\ BoostSelfInitiated \in BOOLEAN
    /\ BoostDeadline \in {"0", "ahead", "past"}
    /\ timeoutOn \in BOOLEAN /\ BoostRevertExternal \in BOOLEAN
    /\ BacnetReady \in BOOLEAN /\ MqttConnected \in BOOLEAN
    /\ tasks \in [Tasks -> [pc : Applying \cup Polling, mode : Modes, seen : Modes]]
    /\ \A t \in Users : tasks[t].pc \in Applying
    /\ HasStateTask \/ tasks["state"] = Idle
    /\ used \in 0 .. MaxEvents

Init ==
    /\ plant = "AUTO" /\ cache = "NONE" /\ ours = FALSE
    /\ BoostSelfInitiated = FALSE /\ BoostDeadline = "0"
    /\ timeoutOn \in BOOLEAN /\ BoostRevertExternal \in BOOLEAN
    /\ BacnetReady = FALSE /\ MqttConnected = FALSE
    /\ tasks = [t \in Tasks |-> Idle]
    /\ used = 0

Event == /\ used < MaxEvents
         /\ used' = used + 1

Goto(t, pc) == tasks' = [tasks EXCEPT ![t].pc = pc]
Finish(t) == tasks' = [tasks EXCEPT ![t] = Idle]

-----------------------------------------------------------------------------
(***************************************************************************)
(* boost_apply: write, read back, note                                     *)
(***************************************************************************)

\* /api/boost, <base>/boost/set, a room's preset, or a Matter switch; any
\* switch turned off, the inactive one too, asks for AUTO.
Command(t, mode) ==
    /\ t \in Users /\ tasks[t] = Idle
    /\ BacnetReady
    /\ Event
    /\ tasks' = [tasks EXCEPT ![t] = [Idle EXCEPT !.pc = "write", !.mode = mode]]
    /\ UNCHANGED <<point, boostFlags, settings, up>>

\* The device executes the write; the acknowledgement, which clears the cache
\* entry, may be lost.
WriteExecuted(t) ==
    /\ tasks[t].pc = "write"
    /\ plant' = tasks[t].mode
    /\ ours' = (t \in Users)
    /\ cache' \in {"NONE", cache}
    /\ Goto(t, "read")
    /\ UNCHANGED <<boostFlags, settings, up, used>>

WriteFails(t) ==
    /\ tasks[t].pc = "write"
    /\ Goto(t, "read")
    /\ UNCHANGED <<point, boostFlags, settings, up, used>>

Sees(t, value, pc) == tasks' = [tasks EXCEPT ![t].pc = pc, ![t].seen = value]

\* Mutant: every answer is taken for that of the poll.
AlwaysJudges(t) == "judge"

\* Where an answer takes the task: boost_apply notes it, the poll judges it.
Answered(t) == IF tasks[t].pc \in {"read", "reading"} THEN "note" ELSE "judge"

ReadHits(t) ==
    /\ tasks[t].pc \in {"read", "poll"}
    /\ cache # "NONE"
    /\ Sees(t, cache, Answered(t))
    /\ UNCHANGED <<point, boostFlags, settings, up, used>>

ReadSamples(t) ==
    /\ tasks[t].pc \in {"read", "poll"}
    /\ cache = "NONE"
    /\ Sees(t, plant, IF tasks[t].pc = "read" THEN "reading" ELSE "polling")
    /\ UNCHANGED <<point, boostFlags, settings, up, used>>

ReadReturns(t) ==
    /\ tasks[t].pc \in {"reading", "polling"}
    /\ cache' = tasks[t].seen
    /\ Goto(t, Answered(t))
    /\ UNCHANGED <<plant, ours, boostFlags, settings, up, used>>

\* boost_apply takes the mode it wrote for the actual one; the poll leaves out
\* the boost this time.
ReadFails(t) ==
    /\ tasks[t].pc \in {"read", "poll"}
    /\ IF tasks[t].pc = "poll" THEN Finish(t) ELSE Sees(t, tasks[t].mode, "note")
    /\ UNCHANGED <<point, boostFlags, settings, up, used>>

Armed == IF timeoutOn THEN "ahead" ELSE "0"

\* Mutant: the flags of a boost that has ended are left as they are.
ForgetsNothing(t) == Finish(t) /\ UNCHANGED boostFlags

\* The mode is AUTO: the flag is cleared, and the deadline in a step of its own.
ForgetsBoost(t) ==
    /\ BoostSelfInitiated' = FALSE
    /\ Goto(t, "deadline")
    /\ UNCHANGED BoostDeadline

Note(t) ==
    /\ tasks[t].pc = "note"
    /\ \/ tasks[t].seen = "AUTO" /\ ForgetsBoost(t)
       \/ /\ tasks[t].seen # "AUTO" /\ t \in Users
          /\ BoostSelfInitiated' = TRUE
          /\ Goto(t, "deadline")
          /\ UNCHANGED BoostDeadline
       \/ /\ tasks[t].seen # "AUTO" /\ t \notin Users
          /\ Finish(t)
          /\ UNCHANGED boostFlags
    /\ UNCHANGED <<point, settings, up, used>>

NoteDeadline(t) ==
    /\ tasks[t].pc = "deadline"
    /\ BoostDeadline' = IF tasks[t].seen = "AUTO" THEN "0" ELSE Armed
    /\ Finish(t)
    /\ UNCHANGED <<point, BoostSelfInitiated, settings, up, used>>

\* api_boost_timeout_post_handler, <base>/boost_timeout/set: the new time is
\* saved to flash before the deadline of a running boost is looked at.
SetTimeout(t, on) ==
    /\ t \in Users /\ tasks[t] = Idle
    /\ Event
    /\ timeoutOn' = on
    /\ Goto(t, "rearm")
    /\ UNCHANGED <<point, boostFlags, BoostRevertExternal, up>>

Rearm(t) ==
    /\ tasks[t].pc = "rearm"
    /\ BoostDeadline' =
         IF BoostSelfInitiated /\ BoostDeadline # "0" THEN Armed ELSE BoostDeadline
    /\ Finish(t)
    /\ UNCHANGED <<point, BoostSelfInitiated, settings, up, used>>

\* The import of a configuration (its "app" section): a deadline that is
\* running is left as it is.
ImportSettings(on, external) ==
    /\ Event
    /\ timeoutOn' = on
    /\ BoostRevertExternal' = external
    /\ UNCHANGED <<point, boostFlags, up, tasks>>

-----------------------------------------------------------------------------
(***************************************************************************)
(* The poll of mqtt_state_task                                             *)
(***************************************************************************)
Poll ==
    /\ HasStateTask /\ tasks["state"] = Idle
    /\ MqttConnected /\ BacnetReady
    /\ Goto("state", "poll")
    /\ UNCHANGED <<point, boostFlags, settings, up, used>>

Limited == timeoutOn /\ (BoostSelfInitiated \/ BoostRevertExternal)

\* Mutant: only boost_apply arms the deadline.
DoesNotArm == UNCHANGED BoostDeadline

ArmsDeadline == BoostDeadline' = "ahead"

Judge ==
    LET seen == tasks["state"].seen
    IN /\ tasks["state"].pc = "judge"
       /\ \/ seen = "AUTO" /\ ForgetsBoost("state")
          \/ /\ seen # "AUTO" /\ Limited /\ BoostDeadline = "0"
             /\ ArmsDeadline
             /\ Finish("state")
             /\ UNCHANGED BoostSelfInitiated
          \/ /\ seen # "AUTO" /\ Limited /\ BoostDeadline # "0"
             /\ Goto("state", "compare")
             /\ UNCHANGED boostFlags
          \/ /\ seen # "AUTO" /\ ~Limited
             /\ Finish("state")
             /\ UNCHANGED boostFlags
       /\ UNCHANGED <<point, settings, up, used>>

\* The deadline is read once more for the comparison; a 0 it has become in
\* between has passed too.
Compare ==
    /\ tasks["state"].pc = "compare"
    /\ \/ BoostDeadline = "ahead" /\ Finish("state")
       \/ /\ BoostDeadline # "ahead"
          /\ tasks' = [tasks EXCEPT !["state"] = [Idle EXCEPT !.pc = "write"]]
    /\ UNCHANGED <<point, boostFlags, settings, up, used>>

-----------------------------------------------------------------------------
(***************************************************************************)
(* The rest of the world                                                   *)
(***************************************************************************)
DeadlinePasses ==
    /\ BoostDeadline = "ahead"
    /\ BoostDeadline' = "past"
    /\ UNCHANGED <<point, BoostSelfInitiated, settings, up, tasks, used>>

CacheExpires ==
    /\ cache # "NONE"
    /\ cache' = "NONE"
    /\ UNCHANGED <<plant, ours, boostFlags, settings, up, tasks, used>>

\* The controller, or another client of it, changes the mode.
OthersChange(mode) ==
    /\ Event
    /\ plant' = mode /\ ours' = FALSE
    /\ UNCHANGED <<cache, boostFlags, settings, up, tasks>>

MqttChanges ==
    /\ HasStateTask
    /\ MqttConnected' = ~MqttConnected
    /\ UNCHANGED <<point, boostFlags, settings, BacnetReady, tasks, used>>

\* The BACnet worker task is up; it never stops again.
WorkerStarts ==
    /\ ~BacnetReady
    /\ BacnetReady' = TRUE
    /\ UNCHANGED <<point, boostFlags, settings, MqttConnected, tasks, used>>

\* The settings are in NVS, the flags are not.
Restart ==
    /\ Event
    /\ cache' = "NONE"
    /\ BoostSelfInitiated' = FALSE /\ BoostDeadline' = "0"
    /\ BacnetReady' = FALSE /\ MqttConnected' = FALSE
    /\ tasks' = [t \in Tasks |-> Idle]
    /\ UNCHANGED <<plant, ours, settings>>

Reads(t) == ReadHits(t) \/ ReadSamples(t) \/ ReadReturns(t) \/ ReadFails(t)

Next ==
    \/ \E t \in Users, mode \in Modes : Command(t, mode)
    \/ \E t \in Tasks : \/ WriteExecuted(t) \/ WriteFails(t) \/ Reads(t)
                        \/ Note(t) \/ NoteDeadline(t) \/ Rearm(t)
    \/ \E t \in Users, on \in BOOLEAN : SetTimeout(t, on)
    \/ \E on, external \in BOOLEAN : ImportSettings(on, external)
    \/ \E mode \in Modes : OthersChange(mode)
    \/ Poll \/ Judge \/ Compare \/ DeadlinePasses \/ CacheExpires
    \/ MqttChanges \/ WorkerStarts \/ Restart

Spec == Init /\ [][Next]_vars

\* Tasks run on, time passes, and of the poll's repeated reads and writes not
\* all fail.
Fairness ==
    /\ \A t \in Tasks :
         /\ WF_vars(WriteExecuted(t) \/ WriteFails(t))
         /\ WF_vars(ReadHits(t) \/ ReadSamples(t) \/ ReadFails(t))
         /\ WF_vars(ReadReturns(t)) /\ WF_vars(Note(t))
         /\ WF_vars(NoteDeadline(t)) /\ WF_vars(Rearm(t))
    /\ SF_vars(WriteExecuted("state"))
    /\ SF_vars(ReadHits("state") \/ ReadSamples("state"))
    /\ WF_vars(Poll) /\ WF_vars(Judge) /\ WF_vars(Compare)
    /\ WF_vars(DeadlinePasses) /\ WF_vars(CacheExpires)

FairSpec == Spec /\ Fairness

-----------------------------------------------------------------------------
(***************************************************************************)
(* Properties                                                              *)
(***************************************************************************)

\* While MQTT stays connected, the BACnet worker up, and the boost is one that
\* is to end, because a task has noted it as its own or boosts of others are
\* ended too, no boost lasts for ever, whatever tasks had done to the deadline
\* before: the poll arms one that is missing, and tries again when its write
\* fails.
BoostEnds ==
    <>[](MqttConnected /\ BacnetReady /\ Limited) => []<>(plant = "AUTO")

\* Once the plant is and stays AUTO, MQTT connected and the worker up, the poll
\* leaves neither the flag nor the deadline of the boost, although a boost_apply
\* that saw an older mode, or a new timeout being saved, may still write them,
\* and a stale cache entry may hide the AUTO for a while.  A boost that begins
\* before a poll has seen the AUTO does inherit what the one before it left.
EndedBoostIsForgotten ==
    <>[](MqttConnected /\ BacnetReady /\ plant = "AUTO")
      => <>[](BoostDeadline = "0" /\ ~BoostSelfInitiated)

\* README.md: the boost state machine reverts by itself.  A boost a user task
\* has written ends, whatever integration is chosen.
SelfBoostEnds ==
    [](plant # "AUTO" /\ ours /\ timeoutOn
         => <>(plant = "AUTO" \/ ~ours \/ ~timeoutOn))
=============================================================================
