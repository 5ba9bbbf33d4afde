----------------------------- MODULE WifiStation -----------------------------
(***************************************************************************)
(* The WiFi station of main.c: the one attempt app_main makes at boot, the *)
(* event handler (task sys_evt), the reconnect timer (task esp_timer) and  *)
(* its last resort, a reboot.  The driver and the access point are the     *)
(* environment: an attempt may succeed, fail with an event, or end without *)
(* one, and a link may die without the driver noticing.                    *)
(*                                                                         *)
(* A length of time is kept only as far as the code compares it: the       *)
(* outage is longer than STA_STALL_REBOOT_MS or not.  The handler is one   *)
(* step: the timer task can preempt it, but a callback that runs inside it *)
(* leaves what one that runs just after it would.  The callback is two     *)
(* steps, because esp_wifi_connect blocks and lets the handler run.        *)
(***************************************************************************)
EXTENDS Naturals, Sequences

CONSTANTS
    STA_MAX_RETRIES,
    MaxEvents,      \* bound: events waiting for sys_evt
    MaxFaults       \* bound: what the environment does to the bridge

ASSUME StationAssumption ==
    /\ STA_MAX_RETRIES \in Nat \ {0} /\ MaxEvents \in Nat \ {0}
    /\ MaxFaults \in Nat

VARIABLES
    app,                \* what app_main does, or ended in
    WifiEventGroup,     \* its bits; exists in "connecting" and "leaving"
    StaHasIp,
    StaEverHadIp,
    StaRetryCount,
    StaLostIpSince,     \* 0, or how long ago: "recent", or "long"
    WifiReconnectTimer, \* armed?
    callback,           \* the timer callback is in esp_wifi_connect
    events,             \* posted by the driver, not handled yet
    driver,             \* "idle", "trying", "up", or "dead" (not noticed)
    router,             \* the access point is there
    faults              \* used up of MaxFaults

flags == <<StaHasIp, StaEverHadIp, StaRetryCount, StaLostIpSince>>
timers == <<WifiReconnectTimer, callback>>
wifiVars == <<app, WifiEventGroup, flags, timers, events, driver, router,
              faults>>

WifiTypeOK ==
    /\ app \in {"connecting", "leaving", "running", "ap"}
    /\ WifiEventGroup \subseteq {"CONNECTED", "FAILED"}
    /\ StaHasIp \in BOOLEAN /\ StaEverHadIp \in BOOLEAN
    /\ StaRetryCount \in 0 .. STA_MAX_RETRIES
    /\ StaLostIpSince \in {"0", "recent", "long"}
    /\ WifiReconnectTimer \in BOOLEAN /\ callback \in BOOLEAN
    /\ events \in Seq({"DISCONNECTED", "GOT_IP"})
    /\ Len(events) <= MaxEvents
    /\ driver \in {"idle", "trying", "up", "dead"}
    /\ router \in BOOLEAN
    /\ faults \in 0 .. MaxFaults

\* The RAM of a bridge that has just been started: app_main registers the
\* handler and starts the driver, whose first event makes it connect.
WifiInit ==
    /\ app = "connecting"
    /\ WifiEventGroup = {}
    /\ StaHasIp = FALSE /\ StaEverHadIp = FALSE
    /\ StaRetryCount = 0
    /\ StaLostIpSince = "0"
    /\ WifiReconnectTimer = FALSE /\ callback = FALSE
    /\ events = <<>>
    /\ driver = "trying"
    /\ router = TRUE
    /\ faults = 0

\* esp_restart, and what the next boot does until it waits.
WifiRestart ==
    /\ app' = "connecting"
    /\ WifiEventGroup' = {}
    /\ StaHasIp' = FALSE /\ StaEverHadIp' = FALSE
    /\ StaRetryCount' = 0
    /\ StaLostIpSince' = "0"
    /\ WifiReconnectTimer' = FALSE /\ callback' = FALSE
    /\ events' = <<>>
    /\ driver' = "trying"

-----------------------------------------------------------------------------
(***************************************************************************)
(* The driver and the access point                                         *)
(***************************************************************************)
Handled == app # "ap"

CanPost == ~Handled \/ Len(events) < MaxEvents

\* An event reaches the handler as long as it is registered.
Post(e) == events' = IF Handled THEN Append(events, e) ELSE events

Fault == /\ faults < MaxFaults
         /\ faults' = faults + 1

\* esp_wifi_connect: nothing, unless the driver is started and idle.
EspWifiConnect ==
    driver' = IF driver = "idle" /\ app # "leaving" THEN "trying" ELSE driver

\* esp_wifi_disconnect: the driver posts an event if there was something to
\* disconnect.
EspWifiDisconnect ==
    /\ CanPost
    /\ driver' = "idle"
    /\ IF driver = "idle" THEN UNCHANGED events ELSE Post("DISCONNECTED")

Associates ==
    /\ driver = "trying" /\ router
    /\ CanPost
    /\ driver' = "up"
    /\ Post("GOT_IP")
    /\ UNCHANGED <<app, WifiEventGroup, flags, timers, router, faults>>

AttemptFails ==
    /\ driver = "trying"
    /\ CanPost
    /\ driver' = "idle"
    /\ Post("DISCONNECTED")
    /\ UNCHANGED <<app, WifiEventGroup, flags, timers, router, faults>>

\* esp_wifi_connect "produced no disconnect event" (the comment at the timer).
AttemptVanishes ==
    /\ driver = "trying"
    /\ driver' = "idle"
    /\ UNCHANGED <<app, WifiEventGroup, flags, timers, events, router, faults>>

\* The driver misses the beacons of an access point that is gone.
LinkDrops ==
    /\ driver \in {"up", "dead"} /\ ~router
    /\ CanPost
    /\ driver' = "idle"
    /\ Post("DISCONNECTED")
    /\ UNCHANGED <<app, WifiEventGroup, flags, timers, router, faults>>

\* The access point drops the station without telling it.
LinkDiesSilently ==
    /\ driver = "up"
    /\ Fault
    /\ driver' = "dead"
    /\ UNCHANGED <<app, WifiEventGroup, flags, timers, events, router>>

RouterFails ==
    /\ router
    /\ Fault
    /\ router' = FALSE
    /\ UNCHANGED <<app, WifiEventGroup, flags, timers, events, driver>>

RouterReturns ==
    /\ ~router
    /\ router' = TRUE
    /\ UNCHANGED <<app, WifiEventGroup, flags, timers, events, driver, faults>>

-----------------------------------------------------------------------------
(***************************************************************************)
(* sta_event_handler                                                       *)
(***************************************************************************)

ArmsTimer == WifiReconnectTimer' = TRUE

HandleDisconnected ==
    /\ events # <<>> /\ Head(events) = "DISCONNECTED"
    /\ events' = Tail(events)
    /\ StaHasIp' = FALSE
    /\ StaLostIpSince' = IF StaHasIp THEN "recent" ELSE StaLostIpSince
    /\ \/ /\ StaRetryCount < STA_MAX_RETRIES
          /\ StaRetryCount' = StaRetryCount + 1
          /\ ArmsTimer
          /\ UNCHANGED WifiEventGroup
       \/ /\ StaRetryCount = STA_MAX_RETRIES
          /\ app \in {"connecting", "leaving"}
          /\ WifiEventGroup' = WifiEventGroup \cup {"FAILED"}
          /\ UNCHANGED <<StaRetryCount, WifiReconnectTimer>>
       \/ /\ StaRetryCount = STA_MAX_RETRIES
          /\ app = "running"
          /\ ArmsTimer
          /\ UNCHANGED <<StaRetryCount, WifiEventGroup>>
    /\ UNCHANGED <<app, StaEverHadIp, callback, driver, router, faults>>

\* Mutant: the time of an outage that is over is kept.
KeepsLostSince == UNCHANGED StaLostIpSince

ForgetsOutage == StaLostIpSince' = "0"

HandleGotIp ==
    /\ events # <<>> /\ Head(events) = "GOT_IP"
    /\ events' = Tail(events)
    /\ StaRetryCount' = 0
    /\ StaHasIp' = TRUE /\ StaEverHadIp' = TRUE
    /\ ForgetsOutage
    /\ WifiReconnectTimer' = FALSE
    /\ WifiEventGroup' =
         IF app \in {"connecting", "leaving"}
           THEN WifiEventGroup \cup {"CONNECTED"} ELSE WifiEventGroup
    /\ UNCHANGED <<app, callback, driver, router, faults>>

-----------------------------------------------------------------------------
(***************************************************************************)
(* wifi_reconnect_timer_cb                                                 *)
(***************************************************************************)
TimerFires ==
    /\ WifiReconnectTimer /\ ~callback
    /\ WifiReconnectTimer' = FALSE
    /\ IF StaHasIp
         THEN UNCHANGED <<callback, driver>>
         ELSE callback' = TRUE /\ EspWifiConnect
    /\ UNCHANGED <<app, WifiEventGroup, flags, events, router, faults>>

StalledForGood == StaEverHadIp /\ StaLostIpSince = "long"

CallbackReboots ==
    /\ callback /\ StalledForGood
    /\ WifiRestart
    /\ UNCHANGED <<router, faults>>

\* Mutant: the callback connects once and leaves the rest to the handler.
DoesNotRearm == UNCHANGED WifiReconnectTimer

Rearms == WifiReconnectTimer' = TRUE

CallbackRearms ==
    /\ callback /\ ~StalledForGood
    /\ callback' = FALSE
    /\ Rearms
    /\ UNCHANGED <<app, WifiEventGroup, flags, events, driver, router, faults>>

\* (A boot waits 25 s at most, and events are handled at once.)
TenMinutesPass ==
    /\ StaLostIpSince = "recent" /\ app \in {"running", "ap"}
    /\ events = <<>> /\ ~callback
    /\ StaLostIpSince' = "long"
    /\ UNCHANGED <<app, WifiEventGroup, StaHasIp, StaEverHadIp, StaRetryCount,
                   timers, events, driver, router, faults>>

-----------------------------------------------------------------------------
(***************************************************************************)
(* try_connect_sta, and app_main after it                                  *)
(***************************************************************************)
BootConnects ==
    /\ app = "connecting"
    /\ "CONNECTED" \in WifiEventGroup
    /\ app' = "running"
    /\ WifiEventGroup' = {}
    /\ UNCHANGED <<flags, timers, events, driver, router, faults>>

\* The handler gave up, or 25 s are over: esp_wifi_stop, with the handler
\* still registered.
BootGivesUp ==
    /\ app = "connecting"
    /\ "CONNECTED" \notin WifiEventGroup
    /\ app' = "leaving"
    /\ EspWifiDisconnect
    /\ UNCHANGED <<WifiEventGroup, flags, timers, router, faults>>

\* The handler is unregistered and the provisioning AP started.  The timer is
\* not stopped.
ApStarts ==
    /\ app = "leaving"
    /\ app' = "ap"
    /\ WifiEventGroup' = {}
    /\ events' = <<>>
    /\ UNCHANGED <<flags, timers, driver, router, faults>>

\* The bridge restarts for another reason: a crash, or the user's wish.
OtherRestart == WifiRestart /\ UNCHANGED <<router, faults>>

\* The user saves credentials on the setup page, which restarts the bridge.
Reprovisioned == app = "ap" /\ OtherRestart

\* Another task disconnects the station; another part of the network fails.
ForcedDisconnect ==
    /\ EspWifiDisconnect
    /\ UNCHANGED <<app, WifiEventGroup, flags, timers, router, faults>>

OtherFault ==
    /\ Fault
    /\ UNCHANGED <<app, WifiEventGroup, flags, timers, events, driver, router>>

StationNext ==
    \/ Associates \/ AttemptFails \/ AttemptVanishes \/ LinkDrops
    \/ LinkDiesSilently \/ RouterFails \/ RouterReturns
    \/ HandleDisconnected \/ HandleGotIp
    \/ TimerFires \/ CallbackReboots \/ CallbackRearms \/ TenMinutesPass
    \/ BootConnects \/ BootGivesUp \/ ApStarts
    \/ ForcedDisconnect \/ OtherRestart \/ OtherFault

StationSpec == WifiInit /\ [][StationNext]_wifiVars

-----------------------------------------------------------------------------
(***************************************************************************)
(* Properties                                                              *)
(***************************************************************************)

\* A station in normal operation that has no IP is looked after: the timer is
\* armed, or its callback is running and will arm it, whatever events arrive
\* in whatever order and even if a connect attempt ends without any (the
\* silence of 9 h 43 min the comment at the callback tells of).
ReconnectIsArmed ==
    app = "running" /\ ~StaHasIp => WifiReconnectTimer \/ callback

\* The backstop's clock runs exactly during an outage of a station that has
\* had an IP: a reboot can neither strike a station that is connected, nor be
\* withheld from one that has lost its connection.
OutageIsTimed ==
    StaEverHadIp => (StaLostIpSince # "0" <=> ~StaHasIp)

\* What makes the two inductive: retries are counted from the first event
\* after an IP was lost, so a station that has had an IP and has none has
\* counted one, and each counted one armed the timer.
StationInv ==
    /\ StaRetryCount \in 0 .. STA_MAX_RETRIES
    /\ StaHasIp => StaEverHadIp /\ StaRetryCount = 0
    /\ StaEverHadIp /\ ~StaHasIp => StaRetryCount > 0
    /\ StaRetryCount > 0 => WifiReconnectTimer \/ callback
    /\ app = "running" \/ "CONNECTED" \in WifiEventGroup => StaEverHadIp
    /\ ReconnectIsArmed /\ OutageIsTimed
=============================================================================
