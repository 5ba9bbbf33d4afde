----------------------------- MODULE Connectivity -----------------------------
(***************************************************************************)
(* The MQTT client of main.c on top of the WiFi station: the tasks that    *)
(* create and destroy it (the web server's, and every mqtt_state_task with *)
(* its two-stage watchdog), the client's own task, which reports to        *)
(* mqtt_event_handler, and the choice of the integration, which may be     *)
(* changed while all of them run.                                          *)
(*                                                                         *)
(* Nothing is locked: MqttClient is a plain variable, and a task may be    *)
(* preempted between destroying the client and forgetting it.  A use of    *)
(* the stale handle either does nothing or crashes the bridge.             *)
(***************************************************************************)
EXTENDS WifiStation, FiniteSets

CONSTANTS
    Watchers,       \* state tasks that may be spawned
    MaxClients,     \* bound: clients there is memory for
    WebActions,     \* what users do: {"config", "switch", "wizard"}
    MaxWebActions   \* bound

ASSUME ConnectivityAssumption ==
    /\ "web" \notin Watchers /\ IsFiniteSet(Watchers) /\ Watchers # {}
    /\ MaxClients \in Nat \ {0} /\ MaxWebActions \in Nat
    /\ WebActions \subseteq {"config", "switch", "wizard"}

VARIABLES
    integration,    \* IntegrationKind, in RAM and in NVS
    matterRunning,  \* s_matter_running
    MqttClient,     \* the handle: 0, or a client, which may be gone
    clients,        \* what each client's task does
    asked,          \* clients told by the station to drop their connection
    MqttConnected,
    down,           \* MqttDisconnectedSinceUs: 0 not set; 1 set; 2 longer
                    \* than MQTT_RECYCLE_AFTER_MS ago; 3 longer than
                    \* MQTT_WATCHDOG_RECONNECT_MS ago
    recycleDue,     \* MqttRecycleLastUs is 0 or long enough ago
    lastKick,       \* MqttWatchdogLastKickUs: 0, or too long ago to matter;
                    \* 1, 2 less than MQTT_WATCHDOG_RECONNECT_MS ago
    queue,          \* MqttCommandQueue exists
    spawned,        \* the state tasks there are
    pc, goal,       \* where each task is, and what for
    broker,         \* the broker can be reached from the access point
    webActions      \* used up of MaxWebActions

clientVars == <<MqttClient, clients, asked, MqttConnected>>
watchVars == <<down, recycleDue, lastKick, spawned>>
taskVars == <<pc, goal>>
mqttVars == <<integration, matterRunning, clientVars, watchVars, queue,
              taskVars, broker, webActions>>
vars == <<wifiVars, mqttVars>>

Tasks == Watchers \cup {"web"}
Modes == {"none", "mqtt", "matter"}

TypeOK ==
    /\ WifiTypeOK
    /\ integration \in Modes /\ matterRunning \in BOOLEAN
    /\ MqttClient \in 0 .. MaxClients
    /\ clients \in [1 .. MaxClients -> {"free", "trying", "online"}]
    /\ asked \subseteq 1 .. MaxClients
    /\ MqttConnected \in BOOLEAN
    /\ down \in 0 .. 3
    /\ recycleDue \in BOOLEAN /\ lastKick \in 0 .. 2
    /\ queue \in BOOLEAN
    /\ spawned \subseteq Watchers
    /\ pc \in [Tasks -> {"idle", "destroy", "nullify", "init", "finish"}]
    /\ goal \in [Tasks -> {"restart", "spawn", "stop", "kick"}]
    /\ broker \in BOOLEAN
    /\ webActions \in 0 .. MaxWebActions

Init ==
    /\ WifiInit
    /\ matterRunning = FALSE
    /\ MqttClient = 0
    /\ clients = [i \in 1 .. MaxClients |-> "free"]
    /\ asked = {}
    /\ MqttConnected = FALSE
    /\ down = 0
    /\ recycleDue = TRUE /\ lastKick = 0
    /\ queue = FALSE
    /\ spawned = {}
    /\ pc = [t \in Tasks |-> "idle"]
    /\ goal = [t \in Tasks |-> "restart"]
    /\ integration \in Modes
    /\ broker = TRUE
    /\ webActions = 0

\* The bridge starts anew; the integration is read from NVS.
Restart ==
    /\ OtherRestart
    /\ matterRunning' = FALSE
    /\ MqttClient' = 0
    /\ clients' = [i \in 1 .. MaxClients |-> "free"]
    /\ asked' = {}
    /\ MqttConnected' = FALSE
    /\ down' = 0
    /\ recycleDue' = TRUE /\ lastKick' = 0
    /\ queue' = FALSE
    /\ spawned' = {}
    /\ pc' = [t \in Tasks |-> "idle"]
    /\ goal' = [t \in Tasks |-> "restart"]
    /\ UNCHANGED <<integration, broker, webActions>>

-----------------------------------------------------------------------------
(***************************************************************************)
(* The client's task, and mqtt_event_handler, which runs on it             *)
(***************************************************************************)
Reachable == driver = "up" /\ router /\ broker

Running == {i \in 1 .. MaxClients : clients[i] # "free"}

MqttEventConnected(i) ==
    /\ clients[i] = "trying" /\ i \notin asked
    /\ Reachable
    /\ clients' = [clients EXCEPT ![i] = "online"]
    /\ MqttConnected' = TRUE
    /\ down' = 0 /\ lastKick' = 0
    /\ UNCHANGED <<wifiVars, integration, matterRunning, MqttClient, asked,
                   recycleDue, spawned, queue, taskVars, broker, webActions>>

StampsOutage == down' = IF down = 0 THEN 1 ELSE down

\* A connection that breaks, is dropped for the station, or is taken over by
\* another client with the same identity; or an attempt that fails.
MqttEventDisconnected(i) ==
    /\ clients[i] # "free"
    /\ \/ ~Reachable
       \/ i \in asked
       \/ clients[i] = "online" /\ \E j \in Running \ {i} : clients[j] = "online"
    /\ clients' = [clients EXCEPT ![i] = "trying"]
    /\ asked' = asked \ {i}
    /\ MqttConnected' = FALSE
    /\ StampsOutage
    /\ UNCHANGED <<wifiVars, integration, matterRunning, MqttClient,
                   recycleDue, lastKick, spawned, queue, taskVars, broker,
                   webActions>>

-----------------------------------------------------------------------------
(***************************************************************************)
(* mqtt_app_restart and mqtt_app_stop, by any task                         *)
(***************************************************************************)
Goto(t, where) == pc' = [pc EXCEPT ![t] = where]

Stale == MqttClient # 0 /\ MqttClient \notin Running

\* if (MqttClient) stop, destroy ...
Destroy(t) ==
    /\ pc[t] = "destroy"
    /\ IF MqttClient = 0
         THEN Goto(t, IF goal[t] = "stop" THEN "finish" ELSE "init")
         ELSE Goto(t, "nullify")
    /\ clients' = [i \in 1 .. MaxClients |->
                     IF i = MqttClient THEN "free" ELSE clients[i]]
    /\ asked' = asked \ {MqttClient}
    /\ UNCHANGED <<wifiVars, integration, matterRunning, MqttClient,
                   MqttConnected, watchVars, queue, goal, broker, webActions>>

\* ... MqttClient = NULL, MqttConnected = false
Nullify(t) ==
    /\ pc[t] = "nullify"
    /\ MqttClient' = 0
    /\ MqttConnected' = FALSE
    /\ Goto(t, IF goal[t] = "stop" THEN "finish" ELSE "init")
    /\ UNCHANGED <<wifiVars, integration, matterRunning, clients, asked,
                   watchVars, queue, goal, broker, webActions>>

NewClient == CHOOSE i \in 1 .. MaxClients : i \notin Running

\* A client is initialised and started, or there is no memory for it: because
\* of those that run already, or of something else.
InitClient(t) ==
    /\ pc[t] = "init"
    /\ \/ /\ Running # 1 .. MaxClients
          /\ MqttClient' = NewClient
          /\ clients' = [clients EXCEPT ![NewClient] = "trying"]
          /\ UNCHANGED wifiVars
       \/ /\ MqttClient' = 0
          /\ UNCHANGED clients
          /\ IF Running = 1 .. MaxClients THEN UNCHANGED wifiVars ELSE OtherFault
    /\ Goto(t, IF goal[t] = "restart" THEN "idle" ELSE "finish")
    /\ UNCHANGED <<integration, matterRunning, asked, MqttConnected,
                   watchVars, queue, goal, broker, webActions>>

\* The stale handle is used: by a second destroy, by sta_event_handler, or by
\* a state task that publishes what it has polled.
StaleHandleCrashes ==
    /\ Stale
    /\ \/ \E t \in Tasks : pc[t] = "destroy"
       \/ events # <<>>
       \/ MqttConnected /\ \E w \in spawned : pc[w] = "idle"
    /\ Restart

-----------------------------------------------------------------------------
(***************************************************************************)
(* mqtt_state_task: the watchdog                                           *)
(***************************************************************************)
Alarmed(w) == w \in spawned /\ pc[w] = "idle" /\ ~MqttConnected /\ down # 0

\* Stage 1; stage 2 follows in the same pass if it was due when it began.
WatchdogRecycles(w) ==
    /\ Alarmed(w) /\ down >= 2 /\ recycleDue
    /\ recycleDue' = FALSE
    /\ Goto(w, "destroy")
    /\ goal' = [goal EXCEPT ![w] = IF down = 3 THEN "kick" ELSE "restart"]
    /\ UNCHANGED <<wifiVars, integration, matterRunning, clientVars, down,
                   lastKick, spawned, queue, broker, webActions>>

\* Mutant: stage 2 is left to the station's own events.
NeverKicks(w) == FALSE

\* Stage 2 without stage 1, or after it.
ReachesStage2(w) ==
    \/ Alarmed(w) /\ down = 3 /\ ~recycleDue
    \/ pc[w] = "finish"

WatchdogKicks(w) ==
    /\ ReachesStage2(w)
    /\ lastKick = 0
    /\ lastKick' = 1
    /\ ForcedDisconnect
    /\ Goto(w, "idle")
    /\ UNCHANGED <<integration, matterRunning, clientVars, down, recycleDue,
                   spawned, queue, goal, broker, webActions>>

WatchdogSparesLink(w) ==
    /\ pc[w] = "finish" /\ lastKick # 0
    /\ Goto(w, "idle")
    /\ UNCHANGED <<wifiVars, integration, matterRunning, clientVars,
                   watchVars, queue, goal, broker, webActions>>

\* What a task can do at once, and an attempt of a client that can reach the
\* broker, takes less than the 45 s or more of one step of time.
SomethingIsDue ==
    \/ events # <<>> \/ asked # {}
    \/ \E t \in Tasks : pc[t] # "idle"
    \/ Reachable /\ \E i \in Running : clients[i] = "trying"

\* Mutant: the age of an outage is counted on past what is compared.
OlderForEver(age) == IF age # 0 THEN age + 1 ELSE age

Older(age) == IF age \in {1, 2} THEN age + 1 ELSE age

TimePasses ==
    /\ ~SomethingIsDue
    /\ down \in {1, 2} \/ lastKick # 0 \/ ~recycleDue
    /\ down' = Older(down) /\ lastKick' = Older(lastKick) % 3
    /\ recycleDue' = TRUE
    /\ UNCHANGED <<wifiVars, integration, matterRunning, clientVars, spawned,
                   queue, taskVars, broker, webActions>>

-----------------------------------------------------------------------------
(***************************************************************************)
(* The web server's task, and app_main                                     *)
(***************************************************************************)
UserActs(kind) ==
    /\ kind \in WebActions /\ webActions < MaxWebActions
    /\ webActions' = webActions + 1
    /\ app = "running" /\ pc["web"] = "idle"

Enter(where, why) ==
    /\ pc' = [pc EXCEPT !["web"] = where]
    /\ goal' = [goal EXCEPT !["web"] = why]

\* mqtt_app_start, as far as the restart of the client.  Without memory for
\* the queue or its task it returns there and then: the old client stays, if
\* there is one, and no new one is made.
MqttAppStarts(why) ==
    \/ queue' = TRUE /\ Enter("destroy", why)
    \/ /\ ~queue /\ UNCHANGED queue
       /\ Enter(IF why = "spawn" THEN "finish" ELSE "idle", why)

\* matter_adapter_start, which fails in a boot that has started Matter before.
MatterStarts == matterRunning' \in {matterRunning, TRUE}

\* api_mqtt_config_post_handler, api_config_import_handler
ConfigPosted ==
    /\ UserActs("config")
    /\ IF integration = "mqtt"
         THEN MqttAppStarts("restart") ELSE UNCHANGED <<queue, taskVars>>
    /\ UNCHANGED <<wifiVars, integration, matterRunning, clientVars,
                   watchVars, broker>>

\* api_integration_post_handler, to a mode that is not the present one.
ModePosted(mode) ==
    /\ UserActs("switch")
    /\ integration # mode
    /\ integration' = mode
    /\ \/ /\ integration = "mqtt"
          /\ Enter("destroy", "stop")
          /\ UNCHANGED <<queue, matterRunning>>
       \/ /\ integration # "mqtt" /\ mode = "mqtt"
          /\ matterRunning' = (matterRunning /\ integration # "matter")
          /\ MqttAppStarts("spawn")
       \/ /\ integration = "matter" /\ mode = "none"
          /\ matterRunning' = FALSE
          /\ UNCHANGED <<queue, taskVars>>
       \/ /\ integration = "none" /\ mode = "matter"
          /\ MatterStarts
          /\ UNCHANGED <<queue, taskVars>>
    /\ UNCHANGED <<wifiVars, clientVars, watchVars, broker>>

\* api_wizard_finish_handler: it stops nothing and spawns no state task.
WizardFinishes(mode) ==
    /\ UserActs("wizard")
    /\ integration' = mode
    /\ IF mode = "matter" THEN MatterStarts ELSE UNCHANGED matterRunning
    /\ IF mode = "mqtt"
         THEN MqttAppStarts("restart") ELSE UNCHANGED <<queue, taskVars>>
    /\ UNCHANGED <<wifiVars, clientVars, watchVars, broker>>

\* The end of mqtt_app_stop, and Matter if that is what was chosen.
StopFinishes ==
    /\ pc["web"] = "finish" /\ goal["web"] = "stop"
    /\ queue' = FALSE
    /\ IF integration = "matter" THEN MatterStarts ELSE UNCHANGED matterRunning
    /\ Goto("web", "idle")
    /\ UNCHANGED <<wifiVars, integration, clientVars, watchVars, goal, broker,
                   webActions>>

\* spawn_task(mqtt_state_task), once more each time MQTT is chosen, whatever
\* mqtt_app_start did; nobody looks at whether it fails.
StateTaskSpawned ==
    /\ pc["web"] = "finish" /\ goal["web"] = "spawn"
    /\ \/ UNCHANGED spawned
       \/ \E w \in Watchers \ spawned : spawned' = spawned \cup {w}
    /\ Goto("web", "idle")
    /\ UNCHANGED <<wifiVars, integration, matterRunning, clientVars, down,
                   recycleDue, lastKick, queue, goal, broker, webActions>>

\* app_main after try_connect_sta, in one step: the queue, the client or the
\* state task may not be made, each without a further attempt.
IntegrationStarts ==
    /\ BootConnects
    /\ \/ /\ integration = "mqtt"
          /\ queue' \in BOOLEAN
          /\ \/ /\ queue'
                /\ MqttClient' = 1
                /\ clients' = [clients EXCEPT ![1] = "trying"]
             \/ UNCHANGED <<MqttClient, clients>>
          /\ spawned' \in {{}, {CHOOSE w \in Watchers : TRUE}}
          /\ UNCHANGED matterRunning
       \/ /\ integration = "matter"
          /\ MatterStarts
          /\ UNCHANGED <<queue, MqttClient, clients, spawned>>
       \/ /\ integration = "none"
          /\ UNCHANGED <<matterRunning, queue, MqttClient, clients, spawned>>
    /\ UNCHANGED <<integration, asked, MqttConnected, down, recycleDue,
                   lastKick, taskVars, broker, webActions>>

-----------------------------------------------------------------------------
(***************************************************************************)
(* The station's handler, with mqtt_pause_for_link_loss in it, and the     *)
(* rest of the station and of the environment                              *)
(***************************************************************************)
StationDisconnected ==
    /\ HandleDisconnected
    /\ asked' = asked \cup ({MqttClient} \cap Running)
    /\ UNCHANGED <<integration, matterRunning, MqttClient, clients,
                   MqttConnected, watchVars, queue, taskVars, broker,
                   webActions>>

StationGotIp == HandleGotIp /\ UNCHANGED mqttVars

GetsLink == Associates /\ UNCHANGED mqttVars

\* The backoff, a second or more, outlasts what a task can do at once.
BackoffEnds == /\ TimerFires /\ events = <<>> /\ asked = {}
               /\ UNCHANGED mqttVars

DriverActs ==
    /\ AttemptFails \/ AttemptVanishes \/ LinkDrops
       \/ LinkDiesSilently \/ RouterFails \/ RouterReturns
    /\ UNCHANGED mqttVars

StationActs ==
    /\ CallbackRearms \/ TenMinutesPass \/ BootGivesUp \/ ApStarts
    /\ UNCHANGED mqttVars

StationReboots == (CallbackReboots \/ Reprovisioned) /\ Restart

BrokerFails ==
    /\ broker /\ OtherFault /\ broker' = FALSE
    /\ UNCHANGED <<integration, matterRunning, clientVars, watchVars, queue,
                   taskVars, webActions>>

BrokerReturns ==
    /\ ~broker /\ broker' = TRUE
    /\ UNCHANGED <<wifiVars, integration, matterRunning, clientVars, watchVars,
                   queue, taskVars, webActions>>

ClientActs(i) == MqttEventConnected(i) \/ MqttEventDisconnected(i)

Works(t) == Destroy(t) \/ Nullify(t) \/ InitClient(t)

WatchdogActs(w) == WatchdogRecycles(w) \/ WatchdogKicks(w)
                   \/ WatchdogSparesLink(w)

WebActs ==
    \/ ConfigPosted \/ StopFinishes \/ StateTaskSpawned
    \/ \E mode \in Modes : ModePosted(mode) \/ WizardFinishes(mode)

Next ==
    \/ GetsLink \/ BackoffEnds \/ DriverActs \/ StationActs \/ StationDisconnected \/ StationGotIp
    \/ StationReboots \/ IntegrationStarts
    \/ \E i \in 1 .. MaxClients : ClientActs(i)
    \/ \E t \in Tasks : Works(t)
    \/ \E w \in Watchers : WatchdogActs(w)
    \/ WebActs \/ StaleHandleCrashes \/ TimePasses
    \/ BrokerFails \/ BrokerReturns

Spec == Init /\ [][Next]_vars

(***************************************************************************)
(* Tasks and timers run on; an outage of the access point or the broker    *)
(* need not end, but of the attempts to reach one that is there, not all   *)
(* fail.  Nothing makes users act or the environment err.                  *)
(***************************************************************************)
Fairness ==
    /\ WF_vars(StationDisconnected) /\ WF_vars(StationGotIp)
    /\ WF_vars(BackoffEnds)
    /\ WF_vars(CallbackRearms /\ UNCHANGED mqttVars)
    /\ WF_vars(CallbackReboots /\ Restart)
    /\ WF_vars(IntegrationStarts)
    /\ WF_vars((BootGivesUp \/ ApStarts) /\ UNCHANGED mqttVars)
    /\ WF_vars(LinkDrops /\ UNCHANGED mqttVars)
    /\ SF_vars(GetsLink)
    /\ WF_vars(TimePasses)
    /\ \A i \in 1 .. MaxClients : WF_vars(MqttEventDisconnected(i))
    /\ SF_vars(\E i \in 1 .. MaxClients : MqttEventConnected(i))
    /\ \A t \in Tasks : WF_vars(Works(t))
    /\ WF_vars(StopFinishes \/ StateTaskSpawned)
    /\ \A w \in Watchers : WF_vars(WatchdogActs(w))

FairSpec == Spec /\ Fairness

-----------------------------------------------------------------------------
(***************************************************************************)
(* Properties                                                              *)
(***************************************************************************)

\* Once the access point stays, a bridge that got through its boot does not
\* stay without an IP, even if attempts fail, or vanish without an event.
StationComesBack == <>[]router => []<>(StaHasIp \/ app = "ap")

\* MQTT is not given up: the bridge is connected, a client tries to be, a task
\* is about to make one, or the watchdog has an outage to end; and there is a
\* state task.
Attended ==
    /\ spawned # {}
    /\ \/ MqttConnected \/ down # 0
       \/ \E i \in 1 .. MaxClients : clients[i] = "trying"
       \/ \E t \in Tasks : pc[t] # "idle"

\* Once the access point and the broker stay and nothing fails any more, the
\* bridge is connected to the broker again and again, though the link may have
\* died without an event, the client been recycled, and a user saved the
\* settings while it was.  An mqtt_app_start that returned for lack of memory
\* before any outage was noted leaves nobody who tries again, and is left out.
MqttComesBack ==
    <>[](/\ router /\ broker /\ integration = "mqtt"
         /\ app = "running" => Attended)
      => []<>(MqttConnected \/ app = "ap")

\* docs/INTEGRATION_MODULES.md: only one automation transport is active at a
\* time (once the web server has done what the user asked for).
OneTransportAtATime ==
    pc["web"] = "idle" =>
      /\ integration # "mqtt" => Running = {}
      /\ integration # "matter" => ~matterRunning
=============================================================================
