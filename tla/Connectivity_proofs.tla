------------------------- MODULE Connectivity_proofs -------------------------
(***************************************************************************)
(* The bridge's station is a WifiStation, whatever the MQTT client and its *)
(* watchdog do to it, and a WifiStation keeps its reconnect timer armed    *)
(* and the clock of its reboot backstop right.                             *)
(***************************************************************************)
EXTENDS Connectivity, TLAPS

LEMMA StationInvInit == WifiInit => StationInv
BY StationAssumption DEF WifiInit, StationInv, ReconnectIsArmed, OutageIsTimed

\* What leaves these alone leaves the invariant alone.
LEMMA StationInvStutter ==
    ASSUME StationInv,
           UNCHANGED <<app, WifiEventGroup, flags, timers>>
    PROVE  StationInv'
BY DEF StationInv, ReconnectIsArmed, OutageIsTimed, flags, timers

LEMMA StationInvRestart ==
    ASSUME WifiRestart
    PROVE  StationInv'
BY StationAssumption DEF WifiRestart, StationInv, ReconnectIsArmed, OutageIsTimed

LEMMA StationInvDisconnected ==
    ASSUME StationInv, HandleDisconnected
    PROVE  StationInv'
<1> USE StationAssumption
<1>0. StaRetryCount \in 0 .. STA_MAX_RETRIES
  BY DEF StationInv
<1>1. CASE StaRetryCount < STA_MAX_RETRIES
  BY <1>1 DEF HandleDisconnected, ArmsTimer, StationInv, ReconnectIsArmed,
              OutageIsTimed
<1>2. CASE StaRetryCount = STA_MAX_RETRIES /\ app \in {"connecting", "leaving"}
  <2>1. StaRetryCount > 0 /\ ~StaHasIp
    BY <1>2 DEF StationInv
  <2>2. QED
    BY <1>2, <2>1 DEF HandleDisconnected, ArmsTimer, StationInv,
                      ReconnectIsArmed, OutageIsTimed
<1>3. CASE StaRetryCount = STA_MAX_RETRIES /\ app = "running"
  BY <1>3 DEF HandleDisconnected, ArmsTimer, StationInv, ReconnectIsArmed,
              OutageIsTimed
<1>4. QED
  BY <1>1, <1>2, <1>3 DEF HandleDisconnected

LEMMA StationInvStep ==
    ASSUME StationInv, StationNext
    PROVE  StationInv'
<1> DEFINE Quiet == UNCHANGED <<app, WifiEventGroup, flags, timers>>
<1>1. ASSUME \/ Associates \/ AttemptFails \/ AttemptVanishes \/ LinkDrops
             \/ LinkDiesSilently \/ RouterFails \/ RouterReturns
             \/ ForcedDisconnect \/ OtherFault
      PROVE  StationInv'
  <2>1. Quiet
    BY <1>1 DEF Associates, AttemptFails, AttemptVanishes, LinkDrops,
                LinkDiesSilently, RouterFails, RouterReturns,
                ForcedDisconnect, OtherFault
  <2>2. QED
    BY <2>1, StationInvStutter
<1>2. CASE HandleDisconnected
  BY <1>2, StationInvDisconnected
<1>3. CASE HandleGotIp
  BY <1>3, StationAssumption DEF HandleGotIp, ForgetsOutage, StationInv,
           ReconnectIsArmed, OutageIsTimed
<1>4. CASE TimerFires
  \* The callback runs on exactly if there is an IP to win back.
  BY <1>4 DEF TimerFires, StationInv, ReconnectIsArmed, OutageIsTimed, flags
<1>5. CASE CallbackReboots \/ OtherRestart
  BY <1>5, StationInvRestart DEF CallbackReboots, OtherRestart
<1>6. CASE CallbackRearms
  BY <1>6 DEF CallbackRearms, Rearms, StationInv, ReconnectIsArmed,
              OutageIsTimed, flags
<1>7. CASE TenMinutesPass
  BY <1>7 DEF TenMinutesPass, StationInv, ReconnectIsArmed, OutageIsTimed,
              timers
<1>8. CASE BootConnects \/ BootGivesUp \/ ApStarts
  BY <1>8 DEF BootConnects, BootGivesUp, ApStarts, StationInv,
              ReconnectIsArmed, OutageIsTimed, flags, timers
<1>9. QED
  BY <1>1, <1>2, <1>3, <1>4, <1>5, <1>6, <1>7, <1>8 DEF StationNext

\* A station that has been in normal operation is never left to itself, and
\* the clock of its last resort runs during an outage and only then.
THEOREM StationIsLookedAfter == StationSpec => []StationInv
<1>1. StationInv /\ [StationNext]_wifiVars => StationInv'
  <2>1. CASE UNCHANGED wifiVars
    BY <2>1, StationInvStutter DEF wifiVars
  <2>2. QED
    BY <2>1, StationInvStep
<1>2. QED
  BY <1>1, StationInvInit, PTL DEF StationSpec

-----------------------------------------------------------------------------
(***************************************************************************)
(* The bridge implements the station                                       *)
(***************************************************************************)
LEMMA ConnectivityIsStationStep ==
    ASSUME Next
    PROVE  StationNext \/ UNCHANGED wifiVars
<1>1. CASE GetsLink \/ BackoffEnds \/ DriverActs \/ StationActs
  BY <1>1 DEF GetsLink, BackoffEnds, DriverActs, StationActs, StationNext
<1>2. CASE StationDisconnected \/ StationGotIp \/ IntegrationStarts
  BY <1>2 DEF StationDisconnected, StationGotIp, IntegrationStarts, StationNext
<1>3. CASE StationReboots \/ StaleHandleCrashes
  BY <1>3 DEF StationReboots, StaleHandleCrashes, Restart, StationNext
<1>4. CASE \E i \in 1 .. MaxClients : ClientActs(i)
  BY <1>4 DEF ClientActs, MqttEventConnected, MqttEventDisconnected
<1>5. CASE \E t \in Tasks : Works(t)
  <2>1. UNCHANGED wifiVars \/ OtherFault
    BY <1>5, Zenon DEF Works, Destroy, Nullify, InitClient
  <2> QED BY <2>1 DEF StationNext
<1>6. CASE \E w \in Watchers : WatchdogActs(w)
  BY <1>6 DEF WatchdogActs, WatchdogRecycles, WatchdogKicks,
              WatchdogSparesLink, StationNext
<1>7. CASE WebActs
  BY <1>7 DEF WebActs, ConfigPosted, StopFinishes, StateTaskSpawned,
              ModePosted, WizardFinishes
<1>8. CASE TimePasses \/ BrokerFails \/ BrokerReturns
  BY <1>8 DEF TimePasses, BrokerFails, BrokerReturns, StationNext
<1>9. QED
  BY <1>1, <1>2, <1>3, <1>4, <1>5, <1>6, <1>7, <1>8 DEF Next

\* Whatever the client, its watchdog and the web server do, what they do to
\* the station is what a station may meet with.
THEOREM ConnectivityImplementsStation == Spec => StationSpec
<1>1. Init => WifiInit
  BY DEF Init
<1>2. [Next]_vars => [StationNext]_wifiVars
  <2>1. CASE UNCHANGED vars
    BY <2>1 DEF vars
  <2>2. QED
    BY <2>1, ConnectivityIsStationStep
<1>3. QED
  BY <1>1, <1>2, PTL DEF Spec, StationSpec

\* So the reconnect timer of the bridge is armed whenever it has to be: the
\* station that runs without an IP and without anything that will try again
\* (the comment at wifi_reconnect_timer_cb tells of one) is impossible.
THEOREM ReconnectAlwaysArmed == Spec => []ReconnectIsArmed
<1>1. StationInv => ReconnectIsArmed
  BY DEF StationInv
<1>2. QED
  BY <1>1, ConnectivityImplementsStation, StationIsLookedAfter, PTL

\* And its reboot backstop strikes no station that is connected.
THEOREM OutageAlwaysTimed == Spec => []OutageIsTimed
<1>1. StationInv => OutageIsTimed
  BY DEF StationInv
<1>2. QED
  BY <1>1, ConnectivityImplementsStation, StationIsLookedAfter, PTL

\* The invariant these two come from, as the runs check it.
THEOREM StationAlwaysLookedAfter == Spec => []StationInv
BY ConnectivityImplementsStation, StationIsLookedAfter, PTL

-----------------------------------------------------------------------------
(***************************************************************************)
(* Types                                                                   *)
(***************************************************************************)
LEMMA EmptyKeepsType ==
    ASSUME NEW s, s = <<>>
    PROVE  s \in Seq({"DISCONNECTED", "GOT_IP"}) /\ Len(s) <= MaxEvents
BY StationAssumption

LEMMA WifiTypeInit == WifiInit => WifiTypeOK
<1> SUFFICES ASSUME WifiInit PROVE WifiTypeOK
  OBVIOUS
<1>1. events \in Seq({"DISCONNECTED", "GOT_IP"}) /\ Len(events) <= MaxEvents
  BY EmptyKeepsType DEF WifiInit
<1>2. /\ StaHasIp \in BOOLEAN /\ StaEverHadIp \in BOOLEAN
      /\ WifiReconnectTimer \in BOOLEAN /\ callback \in BOOLEAN
      /\ router \in BOOLEAN
  BY Zenon DEF WifiInit
<1>3. QED
  BY <1>1, <1>2, StationAssumption DEF WifiInit, WifiTypeOK

LEMMA WifiTypeRestart ==
    ASSUME WifiTypeOK, WifiRestart, UNCHANGED <<router, faults>>
    PROVE  WifiTypeOK'
<1>1. events' \in Seq({"DISCONNECTED", "GOT_IP"}) /\ Len(events') <= MaxEvents
  BY EmptyKeepsType DEF WifiRestart
<1>2. /\ StaHasIp' \in BOOLEAN /\ StaEverHadIp' \in BOOLEAN
      /\ WifiReconnectTimer' \in BOOLEAN /\ callback' \in BOOLEAN
  BY Zenon DEF WifiRestart
<1>3. QED
  BY <1>1, <1>2, StationAssumption DEF WifiRestart, WifiTypeOK

LEMMA PostKeepsType ==
    ASSUME WifiTypeOK, CanPost, NEW e \in {"DISCONNECTED", "GOT_IP"}, Post(e)
    PROVE  /\ events' \in Seq({"DISCONNECTED", "GOT_IP"})
           /\ Len(events') <= MaxEvents
BY StationAssumption DEF WifiTypeOK, CanPost, Post, Handled

LEMMA DisconnectKeepsType ==
    ASSUME WifiTypeOK, EspWifiDisconnect
    PROVE  /\ events' \in Seq({"DISCONNECTED", "GOT_IP"})
           /\ Len(events') <= MaxEvents
           /\ driver' = "idle"
BY PostKeepsType DEF WifiTypeOK, EspWifiDisconnect

LEMMA TailKeepsType ==
    ASSUME WifiTypeOK, events # <<>>, events' = Tail(events)
    PROVE  /\ events' \in Seq({"DISCONNECTED", "GOT_IP"})
           /\ Len(events') <= MaxEvents
BY StationAssumption DEF WifiTypeOK

LEMMA WifiTypeStep ==
    ASSUME WifiTypeOK, [StationNext]_wifiVars
    PROVE  WifiTypeOK'
<1> USE StationAssumption
<1>1. CASE Associates
  BY <1>1, PostKeepsType DEF Associates, WifiTypeOK, flags, timers
<1>2. CASE AttemptFails
  BY <1>2, PostKeepsType DEF AttemptFails, WifiTypeOK, flags, timers
<1>3. CASE AttemptVanishes
  BY <1>3 DEF AttemptVanishes, WifiTypeOK, flags, timers
<1>4. CASE LinkDrops
  BY <1>4, PostKeepsType DEF LinkDrops, WifiTypeOK, flags, timers
<1>5. CASE LinkDiesSilently
  BY <1>5 DEF LinkDiesSilently, Fault, WifiTypeOK, flags, timers
<1>6. CASE RouterFails
  <2>1. router' \in BOOLEAN
    BY <1>6, Zenon DEF RouterFails
  <2>2. QED
    BY <1>6, <2>1 DEF RouterFails, Fault, WifiTypeOK, flags, timers
<1>7. CASE RouterReturns
  BY <1>7 DEF RouterReturns, WifiTypeOK, flags, timers
<1>8. CASE HandleDisconnected
  <2>1. /\ events' \in Seq({"DISCONNECTED", "GOT_IP"})
        /\ Len(events') <= MaxEvents
    BY <1>8, TailKeepsType DEF HandleDisconnected
  <2>2. StaHasIp' \in BOOLEAN /\ WifiReconnectTimer' \in BOOLEAN
    BY <1>8, Zenon DEF HandleDisconnected, ArmsTimer, WifiTypeOK
  <2>3. /\ StaRetryCount' \in 0 .. STA_MAX_RETRIES
        /\ WifiEventGroup' \subseteq {"CONNECTED", "FAILED"}
    <3>1. /\ StaRetryCount \in 0 .. STA_MAX_RETRIES
          /\ WifiEventGroup \subseteq {"CONNECTED", "FAILED"}
      BY DEF WifiTypeOK
    <3>2. \/ StaRetryCount < STA_MAX_RETRIES /\ StaRetryCount' = StaRetryCount + 1
             /\ UNCHANGED WifiEventGroup
          \/ /\ WifiEventGroup' = WifiEventGroup \cup {"FAILED"}
             /\ UNCHANGED StaRetryCount
          \/ UNCHANGED <<StaRetryCount, WifiEventGroup>>
      BY <1>8, Zenon DEF HandleDisconnected
    <3>3. StaRetryCount' \in 0 .. STA_MAX_RETRIES
      BY <3>1, <3>2
    <3>4. WifiEventGroup' \subseteq {"CONNECTED", "FAILED"}
      BY <3>1, <3>2, Zenon
    <3>5. QED
      BY <3>3, <3>4
  <2>4. StaLostIpSince' \in {"0", "recent", "long"}
    BY <1>8 DEF HandleDisconnected, WifiTypeOK
  <2>5. UNCHANGED <<app, StaEverHadIp, callback, driver, router, faults>>
    BY <1>8 DEF HandleDisconnected
  <2>6. QED
    BY <2>1, <2>2, <2>3, <2>4, <2>5 DEF WifiTypeOK
<1>9. CASE HandleGotIp
  <2>1. /\ events' \in Seq({"DISCONNECTED", "GOT_IP"})
        /\ Len(events') <= MaxEvents
    BY <1>9, TailKeepsType DEF HandleGotIp
  <2>2. /\ StaHasIp' \in BOOLEAN /\ StaEverHadIp' \in BOOLEAN
        /\ WifiReconnectTimer' \in BOOLEAN
    BY <1>9, Zenon DEF HandleGotIp
  <2>3. QED
    BY <1>9, <2>1, <2>2 DEF HandleGotIp, ForgetsOutage, WifiTypeOK
<1>10. CASE TimerFires
  BY <1>10 DEF TimerFires, EspWifiConnect, WifiTypeOK, flags
<1>11. CASE CallbackReboots
  BY <1>11, WifiTypeRestart DEF CallbackReboots
<1>12. CASE CallbackRearms
  BY <1>12 DEF CallbackRearms, Rearms, WifiTypeOK, flags
<1>13. CASE TenMinutesPass
  BY <1>13 DEF TenMinutesPass, WifiTypeOK, timers
<1>14. CASE BootConnects
  BY <1>14 DEF BootConnects, WifiTypeOK, flags, timers
<1>15. CASE BootGivesUp
  BY <1>15, DisconnectKeepsType DEF BootGivesUp, WifiTypeOK, flags, timers
<1>16. CASE ApStarts
  BY <1>16 DEF ApStarts, WifiTypeOK, flags, timers
<1>17. CASE ForcedDisconnect
  BY <1>17, DisconnectKeepsType DEF ForcedDisconnect, WifiTypeOK, flags, timers
<1>18. CASE OtherRestart
  BY <1>18, WifiTypeRestart DEF OtherRestart
<1>19. CASE OtherFault
  BY <1>19 DEF OtherFault, Fault, WifiTypeOK, flags, timers
<1>20. CASE UNCHANGED wifiVars
  BY <1>20 DEF wifiVars, WifiTypeOK, flags, timers
<1>21. QED
  BY <1>1, <1>2, <1>3, <1>4, <1>5, <1>6, <1>7, <1>8, <1>9, <1>10, <1>11,
     <1>12, <1>13, <1>14, <1>15, <1>16, <1>17, <1>18, <1>19, <1>20
  DEF StationNext

\* What TypeOK says of the variables of this module.
MqttTypeOK ==
    /\ integration \in Modes /\ matterRunning \in BOOLEAN
    /\ MqttClient \in 0 .. MaxClients
    /\ clients \in [1 .. MaxClients -> {"free", "trying", "online"}]
    /\ asked \subseteq 1 .. MaxClients
    /\ MqttConnected \in BOOLEAN
    /\ down \in 0 .. 3
    /\ recycleDue \in BOOLEAN /\ lastKick \in 0 .. 2
    /\ queue \in BOOLEAN
    /\ spawned \subseteq Watchers
    /\ pc \in [Tasks -> {"idle", "destroy", "nullify", "init", "finish"}]
    /\ goal \in [Tasks -> {"restart", "spawn", "stop", "kick"}]
    /\ broker \in BOOLEAN
    /\ webActions \in 0 .. MaxWebActions

LEMMA MqttTypeStutter == MqttTypeOK /\ UNCHANGED mqttVars => MqttTypeOK'
BY DEF MqttTypeOK, mqttVars, clientVars, watchVars, taskVars

LEMMA MqttTypeRestart ==
    ASSUME MqttTypeOK, Restart
    PROVE  MqttTypeOK'
<1>1. /\ matterRunning' \in BOOLEAN /\ MqttConnected' \in BOOLEAN
      /\ recycleDue' \in BOOLEAN /\ queue' \in BOOLEAN
  BY Zenon DEF Restart
<1>2. /\ clients' \in [1 .. MaxClients -> {"free", "trying", "online"}]
      /\ pc' \in [Tasks -> {"idle", "destroy", "nullify", "init", "finish"}]
      /\ goal' \in [Tasks -> {"restart", "spawn", "stop", "kick"}]
  BY DEF Restart
<1>3. QED
  BY <1>1, <1>2, ConnectivityAssumption DEF MqttTypeOK, Restart

LEMMA MqttTypeClient ==
    ASSUME MqttTypeOK, NEW i \in 1 .. MaxClients, ClientActs(i)
    PROVE  MqttTypeOK'
<1>1. CASE MqttEventConnected(i)
  BY <1>1 DEF MqttEventConnected, MqttTypeOK, taskVars
<1>2. CASE MqttEventDisconnected(i)
  <2>1. MqttConnected' \in BOOLEAN
    BY <1>2, Zenon DEF MqttEventDisconnected
  <2>2. QED
    BY <1>2, <2>1 DEF MqttEventDisconnected, StampsOutage, MqttTypeOK, taskVars
<1>3. QED
  BY <1>1, <1>2 DEF ClientActs

LEMMA GotoKeepsType ==
    ASSUME MqttTypeOK, NEW t \in Tasks,
           NEW where \in {"idle", "destroy", "nullify", "init", "finish"},
           Goto(t, where)
    PROVE  pc' \in [Tasks -> {"idle", "destroy", "nullify", "init", "finish"}]
BY DEF MqttTypeOK, Goto

LEMMA MqttTypeTask ==
    ASSUME MqttTypeOK, NEW t \in Tasks, Works(t)
    PROVE  MqttTypeOK'
<1> USE ConnectivityAssumption
<1>1. CASE Destroy(t)
  <2>1. pc' \in [Tasks -> {"idle", "destroy", "nullify", "init", "finish"}]
    BY <1>1 DEF Destroy, Goto, MqttTypeOK
  <2>2. clients' \in [1 .. MaxClients -> {"free", "trying", "online"}]
    BY <1>1 DEF Destroy, MqttTypeOK
  <2>3. QED
    BY <1>1, <2>1, <2>2 DEF Destroy, MqttTypeOK, watchVars
<1>2. CASE Nullify(t)
  <2>1. pc' \in [Tasks -> {"idle", "destroy", "nullify", "init", "finish"}]
    BY <1>2 DEF Nullify, Goto, MqttTypeOK
  <2>2. MqttConnected' \in BOOLEAN
    BY <1>2, Zenon DEF Nullify
  <2>3. QED
    BY <1>2, <2>1, <2>2 DEF Nullify, MqttTypeOK, watchVars
<1>3. CASE InitClient(t)
  <2>1. pc' \in [Tasks -> {"idle", "destroy", "nullify", "init", "finish"}]
    BY <1>3 DEF InitClient, Goto, MqttTypeOK
  <2>2. MqttClient' \in 0 .. MaxClients
        /\ clients' \in [1 .. MaxClients -> {"free", "trying", "online"}]
    <3>1. CASE MqttClient' = 0 /\ UNCHANGED clients
      BY <3>1 DEF MqttTypeOK
    <3>2. CASE /\ Running # 1 .. MaxClients
               /\ MqttClient' = NewClient
               /\ clients' = [clients EXCEPT ![NewClient] = "trying"]
      <4>1. PICK i \in 1 .. MaxClients : i \notin Running
        BY <3>2 DEF Running
      <4>2. NewClient \in 1 .. MaxClients
        BY <4>1 DEF NewClient
      <4> QED BY <3>2, <4>2 DEF MqttTypeOK
    <3> QED BY <1>3, <3>1, <3>2, Zenon DEF InitClient
  <2>3. QED
    BY <1>3, <2>1, <2>2 DEF InitClient, MqttTypeOK, watchVars
<1>4. QED
  BY <1>1, <1>2, <1>3 DEF Works

LEMMA MqttTypeWatchdog ==
    ASSUME MqttTypeOK, NEW w \in Watchers, WatchdogActs(w)
    PROVE  MqttTypeOK'
<1>0. w \in Tasks
  BY DEF Tasks
<1>1. CASE WatchdogRecycles(w)
  BY <1>0, <1>1 DEF WatchdogRecycles, Goto, MqttTypeOK, clientVars
<1>2. CASE WatchdogKicks(w)
  BY <1>0, <1>2 DEF WatchdogKicks, Goto, MqttTypeOK, clientVars
<1>3. CASE WatchdogSparesLink(w)
  BY <1>0, <1>3 DEF WatchdogSparesLink, Goto, MqttTypeOK, clientVars, watchVars
<1>4. QED
  BY <1>1, <1>2, <1>3 DEF WatchdogActs

LEMMA EnterKeepsType ==
    ASSUME MqttTypeOK,
           NEW where \in {"idle", "destroy", "nullify", "init", "finish"},
           NEW why \in {"restart", "spawn", "stop", "kick"},
           Enter(where, why)
    PROVE  /\ pc' \in [Tasks -> {"idle", "destroy", "nullify", "init", "finish"}]
           /\ goal' \in [Tasks -> {"restart", "spawn", "stop", "kick"}]
BY DEF MqttTypeOK, Enter, Tasks

LEMMA MatterStartsKeepsType ==
    ASSUME MqttTypeOK, MatterStarts \/ UNCHANGED matterRunning
    PROVE  matterRunning' \in BOOLEAN
BY DEF MqttTypeOK, MatterStarts

LEMMA AppStartsKeepsType ==
    ASSUME MqttTypeOK, NEW why \in {"restart", "spawn"}, MqttAppStarts(why)
    PROVE  /\ pc' \in [Tasks -> {"idle", "destroy", "nullify", "init", "finish"}]
           /\ goal' \in [Tasks -> {"restart", "spawn", "stop", "kick"}]
           /\ queue' \in BOOLEAN
<1>1. /\ pc' \in [Tasks -> {"idle", "destroy", "nullify", "init", "finish"}]
      /\ goal' \in [Tasks -> {"restart", "spawn", "stop", "kick"}]
  BY EnterKeepsType DEF MqttAppStarts
<1>2. queue' \in BOOLEAN
  BY Zenon DEF MqttAppStarts, MqttTypeOK
<1> QED BY <1>1, <1>2

LEMMA MqttTypeWeb ==
    ASSUME MqttTypeOK, WebActs
    PROVE  MqttTypeOK'
<1> USE ConnectivityAssumption
<1>1. CASE ConfigPosted
  <2>1. /\ pc' \in [Tasks -> {"idle", "destroy", "nullify", "init", "finish"}]
        /\ goal' \in [Tasks -> {"restart", "spawn", "stop", "kick"}]
        /\ queue' \in BOOLEAN
    BY <1>1, AppStartsKeepsType DEF ConfigPosted, MqttTypeOK, taskVars
  <2>2. QED
    BY <1>1, <2>1 DEF ConfigPosted, UserActs, MqttTypeOK, clientVars, watchVars
<1>2. ASSUME NEW mode \in Modes, ModePosted(mode)
      PROVE  MqttTypeOK'
  <2>1. /\ pc' \in [Tasks -> {"idle", "destroy", "nullify", "init", "finish"}]
        /\ goal' \in [Tasks -> {"restart", "spawn", "stop", "kick"}]
        /\ queue' \in BOOLEAN
    <3>1. \/ Enter("destroy", "stop") /\ UNCHANGED queue
          \/ MqttAppStarts("spawn")
          \/ UNCHANGED <<queue, taskVars>>
      BY <1>2, Zenon DEF ModePosted
    <3> QED BY <3>1, EnterKeepsType, AppStartsKeepsType DEF MqttTypeOK, taskVars
  <2>2. matterRunning' \in BOOLEAN
    <3>1. \/ MatterStarts \/ UNCHANGED matterRunning \/ matterRunning' = FALSE
          \/ matterRunning' = (matterRunning /\ integration # "matter")
      BY <1>2, Zenon DEF ModePosted
    <3>2. FALSE \in BOOLEAN /\ (matterRunning /\ integration # "matter") \in BOOLEAN
      OBVIOUS
    <3> QED BY <3>1, <3>2, MatterStartsKeepsType, Zenon
  <2>3. /\ integration' \in Modes /\ webActions' \in 0 .. MaxWebActions
        /\ UNCHANGED <<wifiVars, clientVars, watchVars, broker>>
    BY <1>2 DEF ModePosted, UserActs, MqttTypeOK
  <2> QED BY <2>1, <2>2, <2>3 DEF MqttTypeOK, clientVars, watchVars
<1>3. ASSUME NEW mode \in Modes, WizardFinishes(mode)
      PROVE  MqttTypeOK'
  <2>1. /\ pc' \in [Tasks -> {"idle", "destroy", "nullify", "init", "finish"}]
        /\ goal' \in [Tasks -> {"restart", "spawn", "stop", "kick"}]
        /\ queue' \in BOOLEAN
    BY <1>3, AppStartsKeepsType DEF WizardFinishes, MqttTypeOK, taskVars
  <2>2. matterRunning' \in BOOLEAN
    BY <1>3, MatterStartsKeepsType, Zenon DEF WizardFinishes
  <2>3. /\ integration' \in Modes /\ webActions' \in 0 .. MaxWebActions
        /\ UNCHANGED <<wifiVars, clientVars, watchVars, broker>>
    BY <1>3 DEF WizardFinishes, UserActs, MqttTypeOK
  <2> QED BY <2>1, <2>2, <2>3 DEF MqttTypeOK, clientVars, watchVars
<1>4. CASE StopFinishes
  <2>1. matterRunning' \in BOOLEAN
    BY <1>4, MatterStartsKeepsType, Zenon DEF StopFinishes
  <2> QED BY <1>4, <2>1
          DEF StopFinishes, Goto, MqttTypeOK, clientVars, watchVars, Tasks
<1>5. CASE StateTaskSpawned
  BY <1>5 DEF StateTaskSpawned, Goto, MqttTypeOK, clientVars, Tasks
<1>6. QED
  BY <1>1, <1>2, <1>3, <1>4, <1>5 DEF WebActs

LEMMA MqttTypeStarts ==
    ASSUME MqttTypeOK, IntegrationStarts
    PROVE  MqttTypeOK'
<1>1. 1 \in 1 .. MaxClients /\ (CHOOSE w \in Watchers : TRUE) \in Watchers
  BY ConnectivityAssumption
<1>2. queue' \in BOOLEAN /\ matterRunning' \in BOOLEAN
  <2>1. queue' \in BOOLEAN
    BY Zenon DEF IntegrationStarts, MqttTypeOK
  <2>2. matterRunning' \in BOOLEAN
    BY MatterStartsKeepsType, Zenon DEF IntegrationStarts
  <2> QED BY <2>1, <2>2
<1>3. spawned' \subseteq Watchers
  BY <1>1 DEF IntegrationStarts, MqttTypeOK
<1>4. /\ MqttClient' \in 0 .. MaxClients
      /\ clients' \in [1 .. MaxClients -> {"free", "trying", "online"}]
  BY <1>1 DEF IntegrationStarts, MqttTypeOK
<1>5. QED
  BY <1>2, <1>3, <1>4 DEF IntegrationStarts, MqttTypeOK, taskVars

\* Every variable of the composition keeps its type, for any number of state
\* tasks, clients, retries and events.
THEOREM ConnectivityTypes == Spec => []TypeOK
<1>1. TypeOK <=> WifiTypeOK /\ MqttTypeOK
  BY DEF TypeOK, MqttTypeOK
<1>2. Init => WifiTypeOK /\ MqttTypeOK
  <2> SUFFICES ASSUME Init PROVE MqttTypeOK
    BY WifiTypeInit DEF Init
  <2>1. /\ matterRunning \in BOOLEAN /\ MqttConnected \in BOOLEAN
        /\ recycleDue \in BOOLEAN /\ queue \in BOOLEAN /\ broker \in BOOLEAN
    BY Zenon DEF Init
  <2>2. /\ clients \in [1 .. MaxClients -> {"free", "trying", "online"}]
        /\ pc \in [Tasks -> {"idle", "destroy", "nullify", "init", "finish"}]
        /\ goal \in [Tasks -> {"restart", "spawn", "stop", "kick"}]
    BY DEF Init
  <2>3. QED
    BY <2>1, <2>2, ConnectivityAssumption DEF MqttTypeOK, Init
<1>3. MqttTypeOK /\ [Next]_vars => MqttTypeOK'
  <2> SUFFICES ASSUME MqttTypeOK, [Next]_vars
               PROVE  MqttTypeOK'
    OBVIOUS
  <2>1. CASE GetsLink \/ BackoffEnds \/ DriverActs \/ StationActs \/ StationGotIp
    BY <2>1, MqttTypeStutter
    DEF GetsLink, BackoffEnds, DriverActs, StationActs, StationGotIp
  <2>2. CASE StationDisconnected
    BY <2>2 DEF StationDisconnected, MqttTypeOK, watchVars, taskVars, Running
  <2>3. CASE StationReboots \/ StaleHandleCrashes
    BY <2>3, MqttTypeRestart DEF StationReboots, StaleHandleCrashes
  <2>4. CASE IntegrationStarts
    BY <2>4, MqttTypeStarts
  <2>5. CASE \E i \in 1 .. MaxClients : ClientActs(i)
    BY <2>5, MqttTypeClient
  <2>6. CASE \E t \in Tasks : Works(t)
    BY <2>6, MqttTypeTask
  <2>7. CASE \E w \in Watchers : WatchdogActs(w)
    BY <2>7, MqttTypeWatchdog
  <2>8. CASE WebActs
    BY <2>8, MqttTypeWeb
  <2>9. CASE TimePasses
    BY <2>9 DEF TimePasses, Older, MqttTypeOK, clientVars, taskVars
  <2>10. CASE BrokerFails \/ BrokerReturns
    BY <2>10 DEF BrokerFails, BrokerReturns, MqttTypeOK, clientVars, watchVars,
                 taskVars
  <2>11. CASE UNCHANGED vars
    BY <2>11, MqttTypeStutter DEF vars
  <2>12. QED
    BY <2>1, <2>2, <2>3, <2>4, <2>5, <2>6, <2>7, <2>8, <2>9, <2>10, <2>11
    DEF Next
<1>4. WifiTypeOK /\ [StationNext]_wifiVars => WifiTypeOK'
  BY WifiTypeStep
<1>5. StationSpec => []WifiTypeOK
  BY <1>4, WifiTypeInit, PTL DEF StationSpec
<1>6. QED
  BY <1>1, <1>2, <1>3, <1>5, ConnectivityImplementsStation, PTL DEF Spec
=============================================================================
