---------------------------- MODULE MatterPairing ----------------------------
(***************************************************************************)
(* The Matter commissioning window and the pairing status.  The status is  *)
(* kept twice, in NVS and in RAM (hvac_core.c), and written without a lock *)
(* by three tasks: app_main while it starts Matter, the CHIP task as the   *)
(* events of the stack arrive (matter_adapter.cpp), and the web server     *)
(* (main.c).  The CHIP stack itself, its window and its fabric table are   *)
(* external.                                                               *)
(***************************************************************************)
EXTENDS Naturals, Sequences

CONSTANTS
    MaxRequests,    \* bound: requests to the web server
    MaxRestarts,    \* bound: restarts
    MaxFaults       \* bound: writes to NVS, and calls of the stack, that fail

ASSUME PairingAssumption ==
    MaxRequests \in Nat /\ MaxRestarts \in Nat /\ MaxFaults \in Nat

VARIABLES
    nvs,                    \* [mode, pairing]: what survives a restart
    fabric,                 \* the device is commissioned; survives as well
    IntegrationKind, MatterPairingStatus,
    chipStarted,            \* esp_matter::start has succeeded in this boot
    window,                 \* the commissioning window is open
    events,                 \* events the CHIP task has not handled yet
    s_matter_running,
    prior_pairing_status,   \* of the start that succeeded
    tasks,                  \* where each task is
    asked,                  \* history: this boot was asked for a window
    lateStore,              \* history: a retry stored after its window closed
    used                    \* [requests, restarts, faults]: of the bounds

core == <<nvs, IntegrationKind, MatterPairingStatus>>
chip == <<fabric, chipStarted, window, events>>
adapter == <<s_matter_running, prior_pairing_status>>
history == <<asked, lateStore>>
vars == <<core, chip, adapter, tasks, history, used>>

Modes == {"other", "matter"}
Statuses == {"IDLE", "AWAITING", "PAIRED", "TIMED_OUT"}
Task == {"main", "web", "chip"}

\* A task is idle, or at one of these steps with the status, or the mode, it
\* stores.
Steps == {"idle", "start", "close", "run", "pairNvs", "pairRam",
          "modeNvs", "modePair", "modeRam", "reset"}
At(pc, arg) == [pc |-> pc, arg |-> arg]
Idle == At("idle", "IDLE")

\* The variables keep their types, and the CHIP task does nothing but store.
TypeOK ==
    /\ nvs \in [mode : Modes, pairing : Statuses]
    /\ IntegrationKind \in Modes /\ MatterPairingStatus \in Statuses
    /\ {fabric, chipStarted, window, s_matter_running, asked, lateStore}
         \subseteq BOOLEAN
    /\ events \in Seq({"opened", "closed", "complete"})
    /\ prior_pairing_status \in Statuses
    /\ tasks \in [Task -> [pc : Steps, arg : Statuses \cup Modes]]
    /\ tasks["chip"].pc \in {"idle", "pairNvs", "pairRam"}
    /\ used \in [requests : 0 .. MaxRequests, restarts : 0 .. MaxRestarts,
                 faults : 0 .. MaxFaults]

\* app_main: hvac_core_integration_load, and in Matter mode
\* matter_adapter_start
Boot(mode) == [t \in Task |-> IF t = "main" /\ mode = "matter"
                                THEN At("start", "IDLE") ELSE Idle]

Init ==
    /\ nvs \in [mode : Modes, pairing : Statuses]
    /\ fabric \in BOOLEAN
    /\ nvs.pairing = "PAIRED" => fabric
    /\ IntegrationKind = nvs.mode /\ MatterPairingStatus = nvs.pairing
    /\ chipStarted = FALSE /\ window = FALSE /\ events = <<>>
    /\ s_matter_running = FALSE /\ prior_pairing_status = "IDLE"
    /\ tasks = Boot(nvs.mode)
    /\ asked = FALSE /\ lateStore = FALSE
    /\ used = [requests |-> 0, restarts |-> 0, faults |-> 0]

Goto(t, pc, arg) == tasks' = [tasks EXCEPT ![t] = At(pc, arg)]

Uses(bound) == used' = [used EXCEPT ![bound] = @ + 1]

Requested ==
    /\ tasks["web"] = Idle
    /\ used.requests < MaxRequests
    /\ Uses("requests")

Fails ==
    /\ used.faults < MaxFaults
    /\ Uses("faults")

-----------------------------------------------------------------------------
(***************************************************************************)
(* hvac_core_matter_pairing_set: NVS first, then RAM                       *)
(***************************************************************************)

\* Mutant: every store is taken for that of matter_adapter_start.
AlwaysRuns(t) == At("run", "IDLE")

\* matter_adapter_start goes on after its store, the others are done.
AfterStore(t) == IF t \in {"main", "web"} /\ tasks[t].arg = "TIMED_OUT"
                   THEN At("run", "IDLE") ELSE Idle

PairingToNvs(t) ==
    /\ tasks[t].pc = "pairNvs"
    /\ nvs' = [nvs EXCEPT !.pairing = tasks[t].arg]
    /\ Goto(t, "pairRam", tasks[t].arg)
    /\ UNCHANGED <<IntegrationKind, MatterPairingStatus, chip, adapter, history,
                   used>>

\* A commit that fails leaves the new status in NVS, but not in RAM.
PairingFails(t) ==
    /\ tasks[t].pc = "pairNvs"
    /\ Fails
    /\ nvs' \in {nvs, [nvs EXCEPT !.pairing = tasks[t].arg]}
    /\ tasks' = [tasks EXCEPT ![t] = AfterStore(t)]
    /\ UNCHANGED <<IntegrationKind, MatterPairingStatus, chip, adapter, history>>

PairingToRam(t) ==
    /\ tasks[t].pc = "pairRam"
    /\ MatterPairingStatus' = tasks[t].arg
    /\ lateStore' = (lateStore \/ (t = "web" /\ tasks[t].arg = "AWAITING"
                                             /\ ~window))
    /\ tasks' = [tasks EXCEPT ![t] = AfterStore(t)]
    /\ UNCHANGED <<nvs, IntegrationKind, chip, adapter, asked, used>>

-----------------------------------------------------------------------------
(***************************************************************************)
(* matter_adapter_start, from app_main and from the web server             *)
(***************************************************************************)

\* It is running already, or esp_matter::start refuses a second start.
StartReturns(t) ==
    /\ tasks[t].pc = "start"
    /\ s_matter_running \/ chipStarted
    /\ tasks' = [tasks EXCEPT ![t] = Idle]
    /\ UNCHANGED <<core, chip, adapter, history, used>>

\* matter_adapter_init or esp_matter::start fails.
StartFails(t) ==
    /\ tasks[t].pc = "start"
    /\ ~s_matter_running /\ ~chipStarted
    /\ Fails
    /\ tasks' = [tasks EXCEPT ![t] = Idle]
    /\ UNCHANGED <<core, chip, adapter, history>>

\* esp_matter::start opens a window whenever the device has no fabric.
StartsStack(t) ==
    /\ tasks[t].pc = "start"
    /\ ~s_matter_running /\ ~chipStarted
    /\ prior_pairing_status' = MatterPairingStatus
    /\ chipStarted' = TRUE
    /\ window' = ~fabric
    /\ events' = IF fabric THEN events ELSE Append(events, "opened")
    /\ Goto(t, "close", "IDLE")
    /\ UNCHANGED <<core, fabric, s_matter_running, history, used>>

CloseWindow ==
    /\ window' = FALSE
    /\ events' = IF window THEN Append(events, "closed") ELSE events
    /\ UNCHANGED <<fabric, chipStarted>>

\* Mutant: the window that esp_matter::start opened is left open.
LeavesOpen(t) ==
    /\ Goto(t, "run", "IDLE")
    /\ UNCHANGED chip

\* After an attempt that timed out the window is closed again, with the lock of
\* the stack, and the status, which the events change, stored once more.
ClosesAgain(t) ==
    /\ CloseWindow
    /\ Goto(t, "pairNvs", "TIMED_OUT")

AfterStackStart(t) ==
    /\ tasks[t].pc = "close"
    /\ \/ /\ prior_pairing_status = "TIMED_OUT"
          /\ ClosesAgain(t)
       \/ /\ prior_pairing_status # "TIMED_OUT"
          /\ Goto(t, "run", "IDLE")
          /\ UNCHANGED chip
    /\ UNCHANGED <<core, adapter, history, used>>

Runs(t) ==
    /\ tasks[t].pc = "run"
    /\ s_matter_running' = TRUE
    /\ tasks' = [tasks EXCEPT ![t] = Idle]
    /\ UNCHANGED <<core, chip, prior_pairing_status, history, used>>

-----------------------------------------------------------------------------
(***************************************************************************)
(* app_event_cb, in the CHIP task                                          *)
(***************************************************************************)

\* Mutant: a window that closes has timed out.
AnyCloseIsATimeout(t) == Goto(t, "pairNvs", "TIMED_OUT")

\* Mutant: the closing of the window is not heard of.
IgnoresClose(t) == UNCHANGED tasks

\* The window also closes right after commissioning: that is no failure.
JudgesClose(t) ==
    \/ /\ MatterPairingStatus = "AWAITING"
       /\ Goto(t, "pairNvs", "TIMED_OUT")
    \/ /\ MatterPairingStatus # "AWAITING"
       /\ UNCHANGED tasks

HandleEvent ==
    /\ tasks["chip"] = Idle
    /\ events # <<>>
    /\ \/ Head(events) = "complete" /\ Goto("chip", "pairNvs", "PAIRED")
       \/ Head(events) = "opened" /\ Goto("chip", "pairNvs", "AWAITING")
       \/ Head(events) = "closed" /\ JudgesClose("chip")
    /\ events' = Tail(events)
    /\ UNCHANGED <<core, fabric, chipStarted, window, adapter, history, used>>

-----------------------------------------------------------------------------
(***************************************************************************)
(* The web server                                                          *)
(***************************************************************************)

\* api_integration_post_handler and api_wizard_finish_handler;
\* hvac_core_integration_set writes the mode and, for a fresh choice of Matter,
\* a clean pairing status, key by key.
Select(mode) ==
    /\ Requested
    /\ Goto("web", "modeNvs", mode)
    /\ UNCHANGED <<core, chip, adapter, history>>

Switching(mode) == mode = "matter" /\ IntegrationKind # "matter"

ModeToNvs ==
    LET mode == tasks["web"].arg
    IN /\ tasks["web"].pc = "modeNvs"
       /\ nvs' = [nvs EXCEPT !.mode = mode]
       /\ Goto("web", IF Switching(mode) THEN "modePair" ELSE "modeRam", mode)
       /\ UNCHANGED <<IntegrationKind, MatterPairingStatus, chip, adapter,
                      history, used>>

ModePairToNvs ==
    /\ tasks["web"].pc = "modePair"
    /\ nvs' = [nvs EXCEPT !.pairing = "IDLE"]
    /\ Goto("web", "modeRam", tasks["web"].arg)
    /\ UNCHANGED <<IntegrationKind, MatterPairingStatus, chip, adapter, history,
                   used>>

\* The write of the key fails, or the commit after it.
ModeFails ==
    LET mode == tasks["web"].arg
    IN /\ Fails
       /\ \/ /\ tasks["web"].pc = "modeNvs"
             /\ nvs' \in {nvs, [nvs EXCEPT !.mode = mode]}
          \/ /\ tasks["web"].pc = "modePair"
             /\ nvs' \in {nvs, [nvs EXCEPT !.pairing = "IDLE"]}
       /\ tasks' = [tasks EXCEPT !["web"] = Idle]
       /\ UNCHANGED <<IntegrationKind, MatterPairingStatus, chip, adapter, history>>

\* On the page of the settings the old integration is stopped, which for Matter
\* clears a flag only, and a new one started.
SettingsGoOn(mode) ==
    /\ s_matter_running' = (s_matter_running
                              /\ (mode = "matter" \/ IntegrationKind # "matter"))
    /\ tasks' = [tasks EXCEPT !["web"] =
                   IF Switching(mode) THEN At("start", "IDLE") ELSE Idle]

\* The wizard stops nothing, and starts what was chosen before, too.
WizardGoesOn(mode) ==
    /\ s_matter_running' = s_matter_running
    /\ tasks' = [tasks EXCEPT !["web"] =
                   IF mode = "matter" THEN At("start", "IDLE") ELSE Idle]

ModeToRam ==
    LET mode == tasks["web"].arg
    IN /\ tasks["web"].pc = "modeRam"
       /\ IntegrationKind' = mode
       /\ MatterPairingStatus' = IF Switching(mode) THEN "IDLE"
                                                    ELSE MatterPairingStatus
       /\ asked' = (asked \/ Switching(mode))
       /\ SettingsGoOn(mode) \/ WizardGoesOn(mode)
       /\ UNCHANGED <<nvs, chip, prior_pairing_status, lateStore, used>>

\* api_matter_retry_pairing_post_handler: opens a window unless one is open,
\* then stores AWAITING through the flash worker.
Retry ==
    /\ Requested
    /\ IntegrationKind = "matter" /\ s_matter_running
    /\ window' = TRUE
    /\ events' = IF window THEN events ELSE Append(events, "opened")
    /\ asked' = TRUE
    /\ Goto("web", "pairNvs", "AWAITING")
    /\ UNCHANGED <<core, fabric, chipStarted, adapter, lateStore>>

\* The stack does not open the window.
RetryFails ==
    /\ tasks["web"] = Idle
    /\ IntegrationKind = "matter" /\ s_matter_running /\ ~window
    /\ Fails
    /\ UNCHANGED <<core, chip, adapter, tasks, history>>

\* api_matter_close_pairing_post_handler
Close ==
    /\ Requested
    /\ IntegrationKind = "matter" /\ s_matter_running
    /\ CloseWindow
    /\ UNCHANGED <<core, adapter, tasks, history>>

\* hvac_core_integration_reset of api_factory_reset_handler, which restarts the
\* device; the fabrics of the stack are not erased, nor is anything when NVS
\* does not open.
FactoryReset ==
    /\ \/ Requested /\ nvs' = [mode |-> "other", pairing |-> "IDLE"]
       \/ tasks["web"] = Idle /\ Fails /\ UNCHANGED nvs
    /\ IntegrationKind' = "other" /\ MatterPairingStatus' = "IDLE"
    /\ asked' = TRUE
    /\ Goto("web", "reset", "IDLE")
    /\ UNCHANGED <<chip, adapter, lateStore>>

-----------------------------------------------------------------------------
(***************************************************************************)
(* The rest of the world                                                   *)
(***************************************************************************)

\* A window is open for minutes: it does not end by itself while the start
\* that opened it still runs or its opening is still to be handled.
WindowMayEnd ==
    /\ window
    /\ events = <<>> /\ tasks["chip"] = Idle
    /\ \A t \in {"main", "web"} : tasks[t].pc \notin {"close", "run"}

Commissioned ==
    /\ WindowMayEnd
    /\ fabric' = TRUE
    /\ window' = FALSE
    /\ events' = <<"complete", "closed">>
    /\ UNCHANGED <<core, chipStarted, adapter, tasks, history, used>>

WindowTimesOut ==
    /\ WindowMayEnd
    /\ CloseWindow
    /\ UNCHANGED <<core, adapter, tasks, history, used>>

Restart ==
    /\ used.restarts < MaxRestarts
    /\ Uses("restarts")
    /\ IntegrationKind' = nvs.mode /\ MatterPairingStatus' = nvs.pairing
    /\ chipStarted' = FALSE /\ window' = FALSE /\ events' = <<>>
    /\ s_matter_running' = FALSE /\ prior_pairing_status' = "IDLE"
    /\ tasks' = Boot(nvs.mode)
    /\ asked' = FALSE /\ lateStore' = FALSE
    /\ UNCHANGED <<nvs, fabric>>

Next ==
    \/ \E t \in Task : PairingToNvs(t) \/ PairingFails(t) \/ PairingToRam(t)
    \/ \E t \in {"main", "web"} :
         \/ StartReturns(t) \/ StartFails(t) \/ StartsStack(t)
         \/ AfterStackStart(t) \/ Runs(t)
    \/ HandleEvent
    \/ \E mode \in Modes : Select(mode)
    \/ ModeToNvs \/ ModePairToNvs \/ ModeFails \/ ModeToRam
    \/ Retry \/ RetryFails \/ Close \/ FactoryReset
    \/ Commissioned \/ WindowTimesOut \/ Restart

Spec == Init /\ [][Next]_vars

-----------------------------------------------------------------------------
(***************************************************************************)
(* Properties                                                              *)
(***************************************************************************)
Quiet == events = <<>> /\ \A t \in Task : tasks[t] = Idle

\* After an attempt that timed out, a restart leaves the window closed and the
\* status as it was, in whatever order app_main's store and the events of the
\* window that was opened and closed again come, unless a store failed or
\* somebody has asked for another attempt (matter_adapter_start, "would otherwise silently open").
TimedOutBootStaysClosed ==
    /\ prior_pairing_status = "TIMED_OUT" /\ s_matter_running /\ ~asked => ~window
    /\ prior_pairing_status = "TIMED_OUT" /\ ~asked /\ Quiet /\ used.faults = 0
         => MatterPairingStatus = "TIMED_OUT"

\* A successful pairing is not turned into a failure by the closing of its own
\* window (app_event_cb, "must not overwrite the PAIRED status").
PairedIsNotTimedOut ==
    [][MatterPairingStatus = "PAIRED" => MatterPairingStatus' # "TIMED_OUT"]_vars

\* The status says AWAITING no longer than the window is open, in a device
\* without a fabric, unless a store has failed or a retry stored it after the
\* window had closed.
AwaitingEndsWithWindow ==
    used.faults = 0 /\ Quiet /\ chipStarted /\ ~fabric /\ ~lateStore
      /\ MatterPairingStatus = "AWAITING" => window
=============================================================================
