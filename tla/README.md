# Verification of the ESP32 BACnet bridge

This directory holds TLA+ specifications of the bridge firmware in
`firmware/bacnet_bridge`, the TLC configurations that check them on small
instances, and proofs that TLAPS checks. The bridge sits between one BACnet/IP
HVAC controller (the *target*) and the home network: it polls the controller,
writes to it, and serves what it knows over HTTP, MQTT or Matter.

Paths below are relative to the repository; `bacnet_worker.c`, `main.c`,
`hvac_core.c` and `matter_adapter.cpp` are the files of those names under
`firmware/bacnet_bridge`.

## The system

| component | code | state | operations |
|---|---|---|---|
| transaction engine | `bacnet_worker.c` 197-548 | target address, invoke ID in hand, reply flags, the stack's transaction slot and address table | send a read, write or probe; pump datagrams for a bounded time; classify the end |
| circuit breaker | `bacnet_worker.c` 391-426, 607-609, 638-645 | `s_health_state`, `s_consecutive_timeouts` | acknowledge, time out, refuse a read, probe |
| dispatch | `bacnet_worker.c` 593-636, 725-752 | two queues, a semaphore and a response per call | call, enqueue, serve, wake, give up |
| read cache | `bacnet_worker.c` 81-191, 776-933 | 64 entries with a stamp | get, put, evict, invalidate |
| discovery | `bacnet_worker.c` 282-329, 468-536, 981-1001 | list of 8 devices, a counter | Who-Is, I-Am, report |
| target choice | `main.c` 352-397, 4109-4133, 4963-5059, 5194-5319 | target in RAM, in NVS and in the worker, confirmed name | discover and adopt, enter by hand, save key by key, load |
| WiFi station | `main.c` 1106-1436 | event group, `StaHasIp`, retries, reconnect timer, two clocks | handle events, back off, reconnect, reboot, fall back to the AP |
| MQTT client | `main.c` 4465-4516, 6192-6402, 6720-6790 | `MqttClient`, `MqttConnected`, the outage's stamps, the integration | start, stop, restart, pause for a link loss, recycle, force a reconnect |
| boost | `main.c` 314-340, 645-670, 2512-2568, 5983-6005, 6412-6460 | mode in the device, `BoostSelfInitiated`, deadline, timeout | apply from four sides, poll, expire |
| Matter pairing | `matter_adapter.cpp` 440-560, `hvac_core.c` 120-190 | pairing status in RAM and in NVS, commissioning window | start, events of the stack, retry, close, select, reset |
| BACnet stack | `components/bacnet_client/bacnet/` (vendored) | TSM table, address cache | modelled as far as the worker depends on it |
| the rest | object scanner, flash workers, OTA, HTML, JSON, log ring, mDNS, DNS portal, Ethernet | | see "Not modelled" |

The first five rows are one task, the worker, and its callers: the MQTT state
task, the MQTT command task, the HTTP server, the Matter task and the object
scanner. All of these call the typed helpers, which look in the cache and
otherwise go through `bacnet_worker_dispatch_sync` to the worker. The worker
alone uses the socket and the BACnet stack, except that
`bacnet_worker_set_target` changes the target and the stack's address table from
the caller's task.

The station's event handler (task `sys_evt`), the reconnect timer (task
`esp_timer`), the client's own task, the state task and the HTTP server share
the variables of the station and of the MQTT client; the Matter task, `app_main`
and the HTTP server share those of the pairing. None of these is locked.

What is hard about it:

- invoke IDs are 8 bits wide and come round, answers may be late or doubled, and
  the stack frees its only transaction slot by invoke ID before it is known
  whether the worker believes the answer;
- a caller may stop waiting while its request is in a queue or in the worker,
  and the request points into the frame of that caller;
- reads fill the cache from their own task, writes invalidate it from the
  worker's;
- the breaker refuses reads once open, so something else must close it;
- lists, queues and caches are small and fixed;
- connection attempts of the station may end without any event, and a link may
  die without the driver noticing: three timers and a watchdog of two stages
  must between them always leave somebody who tries again;
- the client is destroyed and created by several tasks while its own task
  reports and the station pauses it;
- settings are written to NVS key by key, while RAM already has, or does not yet
  have, the new ones, and the bridge may restart in between.

`PROJECT.json` lists each of these hazards at its line, with the properties
that watch over it.

## Modules

| module | what it models |
|---|---|
| `TargetHealth` | the circuit breaker; extended by the next three so that they share it as the code does |
| `AtomicTransactions` | abstract: a transaction as its callers see it, which begins and then ends in one step, with a status and its effect on the breaker |
| `BacnetTransactions` | one worker, one socket, one slot: a transaction in all its steps, `set_target` in its three steps, the network |
| `BacnetDispatch` | the queues, the callers and the worker's main loop; a transaction is one step with an outcome |
| `SynchronousCalls` | abstract: what a synchronous call promises a task |
| `ReadCache` | the cache between reading and writing tasks and the device |
| `Discovery` | the list of discovered devices and the report of a pass |
| `TargetChoice` | the web server that chooses, saves and hands over the target; extends `Discovery` |
| `WifiStation` | the station, its boot, its event handler, the reconnect timer and the last resort |
| `Connectivity` | the MQTT client, its watchdog and the choice of the integration on top of the station; extends `WifiStation` |
| `Boost` | the boost mode between the tasks that set it, the poll that ends it and the cache |
| `MatterPairing` | the commissioning window and the pairing status in RAM and NVS |
| `MCTransactions`, `MCDispatch`, `MCReadCache` | small instances for TLC (the other runs need only constants) |
| `*_proofs` | theorems about the module of that name; `TargetChoice_proofs` is also about `Discovery`, and `SynchronousCalls_proofs` about how `BacnetDispatch` implements `SynchronousCalls` |

Three descriptions are abstract and others are shown to implement them:
`AtomicTransactions` by `BacnetTransactions`, `SynchronousCalls` by
`BacnetDispatch` (as long as no call times out), and the station on its own,
`StationSpec` of `WifiStation`, by `Connectivity`. `TargetChoice` likewise implements
the worker's side of `Discovery`. The first is what joins the two modules of the
worker: `BacnetDispatch` takes a transaction for one step, `Transaction` of
`TargetHealth`, and `TransactionsAreAtomic` says that the engine in all its steps is
nothing else.

### BacnetTransactions

The worker's program counter has five values: `binding` (the loop at 570-588),
`receive` (top of the main loop), `waiting` (the wait loop of
`wait_for_worker_transaction`), `discovering` (the receive loop at 521-530) and
`probeCheck` (638-645). `StartTransaction` is `execute_worker_read`, `_write` or
`_probe` up to the wait loop; `WaitReceive` is one turn of the wait loop with a
datagram (the stack's `apdu_handler`, the handler it calls, then the tests of
the flags and of the slot in the order of the code); `WaitExhausted` is the
end of the loop. Turns that find nothing in the socket change nothing and are
not steps.

A request goes to the address the stack's `Address_Cache` has for the device; an
answer is believed if it comes from `s_target_address` and carries
`s_current_invoke_id`. The two addresses may differ, because an I-Am or an
eviction changes the first and `set_target` zeroes and refills the second; the
model keeps both. An `undecodable` answer frees the slot without being seen by
a handler of the worker (an Error PDU whose class and code do not decode); a
segment ack frees nothing (`h_apdu.c` passes an invoke ID of 0) and is left out.
The timer of the stack's state machine never fires within the wait loop (it
retries after `apdu_timeout()` = 3000 ms, a wait lasts about 820 ms), so
`tsm_invoke_id_failed` is never true there. Requests are far smaller than any
`max_apdu`, so the path of `s_rp.c` and `s_wp.c` that gives the ID back is left
out. One task calls `set_target` at a time.

`age`, `applied` and `outcome` are history: how many IDs were allocated after a
datagram's own, whether the device executed the request in hand and what the
last transaction ended with. A TIMEOUT that ends before the wait loop runs out
(no invoke ID, or the slot freed by an answer no handler believed) is not
counted, so that three TIMEOUTs in a row need not open the breaker; this is why
`Transaction` lets a TIMEOUT leave the breaker alone.

`Atomic` maps the engine to `AtomicTransactions`: the wait loop becomes the
operation it waits for, `binding` becomes `starting`, the status is that of the last
`outcome` with the negative answers taken together, and the breaker is the
breaker. Datagrams, invoke IDs, addresses and `set_target` are hidden.

### BacnetDispatch

A call goes through `sending` (the 100 ms of `xQueueSend`) and `waiting`
(`xSemaphoreTake`). A semaphore is a handle that the heap hands out again after
`vSemaphoreDelete`. When a caller returns, any request of its that is still
about becomes an orphan (`live` = FALSE): what the worker then does through its
pointers is undefined in C, and the model chooses among the outcomes: nothing
that matters, a write into the frame of the same task's next call, a give to a
semaphore that now belongs to someone else. The write whose caller was told
TIMEOUT is executed all the same. A call times out only if some other
transaction ran while it was queued (`delayed`): every caller allows more time
than its own transaction takes (1200 ms against 820 ms for the typed helpers,
`timeout_ms` + 400 for the explorer, 5000 ms for a discovery). ABORT and REJECT
are ERROR here. `dispatch_async` and `BACNET_OP_PROBE_LIVENESS` have no callers
in the firmware and are left out.

"Drain high priority queue first" (`bacnet_worker.c` 596) holds for the look at
the high queue only: a write that arrives while the worker waits on the normal
queue is overtaken by a read that arrives later; by one only, as
`HighOvertakenAtMostOnce` shows.

### ReadCache

A value is the number of writes its point has had, so "older" is "smaller".
A read takes its sample in the worker and puts it in the cache later, from its
own task; a write is executed by the device and acknowledged in two steps with
the worker busy in between. `sampled` and `raced` are history. One typed helper
reads each point, so the kind of an entry is not modelled. A call that times out
while its write is queued frees its task earlier in the code than here; in the
model another task stands for it. A write that was executed and whose
acknowledgement was lost does not invalidate the entry: the old value is then
shown until it expires, which `ShownValueIsRecent` bounds.

### Discovery and TargetChoice

`announced` counts the I-Ams of a device since the list was cleared, including
those a later transaction takes in. `s_discovered_seen_count` counts the I-Ams of
devices that found no place, not the devices; the page's "truncated" is right
all the same (`TruncationIsReported`).

`TargetChoice` is the handler `api_bacnet_discover_handler`, the wizard and the
import of a configuration, and `target_config_save_direct`, which writes the keys
`ip` and `port`, `dev_id` and `name` of the namespace `nvs_target` one after the
other and then calls `bacnet_worker_set_target`. Each key is a step (`SaveIp`,
`SavePort`, `SaveId`, `SaveName`), and so is the call (`HandOver`); each may fail,
and the bridge may restart before any of them. An entry by hand gives any of
address, port and instance, or none: each field that is given is taken on its own,
and the save follows in any case (`Enter`). A target is therefore a record of three
fields that may belong to different devices, and an entry of some fields only, or of
none, can save such a mix, one that a restart in the middle of a save had left
included; `SettledTargetIsInUse` says of a mix too that server, worker and NVS agree
on it. Only a new address makes the target unconfirmed: an entry of the instance or
the port alone keeps the confirmed name of the device whose address is kept, so that
`ConfirmedNameIsOfTheTarget` compares the name with the address and says nothing of
the other two. It holds until the first restart; what happens then is finding 3.
`settled` and `adopted` are history. What a discovery that was refused, or given up
by its caller, does is in the model and in no property: the handler does not look at
the status, and adopts the first device of the list it still has from an earlier
pass, undoing a choice made by hand since. A restart in the middle of a save leaves
the address of one device beside the port or the instance of another until a
discovery or a complete entry replaces them.

### WifiStation and Connectivity

`app` says what `app_main` does: `connecting` (up to 25 s in `try_connect_sta`),
`leaving` (`esp_wifi_stop` with the handler still registered), `running`, or `ap`
(the provisioning access point). The driver, which ESP-IDF provides, is external:
an attempt may succeed, fail with an event, or end with none, and a link may be
`dead` with the driver still taking it for `up`. The handler is one step, the
timer's callback two, since `esp_wifi_connect` blocks. The timer is not stopped
when `app_main` falls back to the access point (`main.c` 1428): its callback then
goes on calling `esp_wifi_connect`, which does nothing in AP mode.

In `Connectivity` `mqtt_app_restart` and `mqtt_app_stop` are three steps
(`Destroy`, `Nullify`, `InitClient`) that any task may be preempted between, and
`MqttClient` may name a client that is gone: using it does nothing or crashes the
bridge (`StaleHandleCrashes`). `down` is the age of `MqttDisconnectedSinceUs` as far
as the two stages of the watchdog compare it, `lastKick` that of the last forced
reconnect. `esp_mqtt_client_reconnect` on GOT_IP only flags the client, which
retries anyway, and is no step of its own. `mqtt_app_start` may return before it
restarts the client, when its queue or its task cannot be made (6346-6357), at
boot, at a switch and at a save of the settings; `esp_mqtt_client_init` and the
spawning of the state task may fail too, and nobody looks at whether they did.
After such a return `MqttClient` may be NULL with `MqttDisconnectedSinceUs` 0: the
watchdog has no outage to end, and MQTT stays away until a user saves or restarts.
`MqttComesBack` therefore asks that somebody attends to MQTT (`Attended`: a state
task, and a client that tries, a task that is about to make one, or an outage the
watchdog knows of); it does cover a start that returned while an outage was noted.
Its other end, like that of `StationComesBack`, is the provisioning access point,
where `app_main` falls back to for good when the access point is away during a boot,
the boot after the backstop's reboot included. The broker's host name is taken to be
configured. A `Restart` keeps the integration, which is in NVS, and nothing else.

### Boost

`boost_apply` is write, read back and note; between these steps other tasks run.
The read back goes through the read cache, so that after a write whose
acknowledgement was lost it may see the mode before the write: the flags of a
boost that does run are then cleared, and only the poll arms a deadline again,
if `BoostRevertExternal` is set. With it clear such a boost never ends, which is
why `BoostEnds` is about boosts that the settings and flags say are to end
(`Limited`). The two settings change while a boost runs: `SetTimeout` arms or
clears a deadline that is running (`Rearm`, after the save of the setting to flash),
`ImportSettings`, the "app" section of an imported configuration, leaves it as it is.
The flag and the deadline are two assignments of different tasks and so two steps
(`Note` and `Judge`, then `NoteDeadline`), the poll reads the deadline a second time
to compare it (`Compare`), and its write follows later still: a fresh boost of a
user in between is cut short. Neither a command nor the poll gets anywhere before
the worker is up (`BacnetReady`). The two halves of the 64-bit deadline, which a
32-bit processor stores one after the other, are not told apart.

The deadline carries no mark of the boost it was armed for. A command starts a
boost, another client of the controller sets AUTO and then boosts again, all
between two polls of the state task, and the deadline passes: the next poll ends
the later boost early. The model has this behaviour and no property forbids it.
`EndedBoostIsForgotten` says what does hold: once the plant stays AUTO, with MQTT
connected and the worker up, the flag and the deadline are cleared for good,
although a task that saw an older mode or that has just saved a new timeout may
write them once more, and a stale cache entry may hide the AUTO.

### MatterPairing

`hvac_core_matter_pairing_set` writes NVS and then RAM, from three tasks. A write
may fail, or the commit after it, which leaves the new value in NVS and the old
one in RAM (`PairingFails`, `ModeFails`); so may the start of Matter (`StartFails`),
the opening of a window (`RetryFails`) and the erasing of a factory reset. The page
of the settings stops the old integration before it starts the new one
(`SettingsGoOn`), the wizard stops nothing and starts what it was given, the mode
that was chosen before included (`WizardGoesOn`).
`StartsStack` is `esp_matter::start`, which opens a window and posts the event of it
whenever the device has no fabric; `ClosesAgain` is what `matter_adapter_start` does
when the last attempt had timed out (500-511). The model shows what the code
does that no property forbids: if the CHIP task's store of AWAITING interleaves
with the store of TIMED_OUT, NVS can keep AWAITING while RAM has TIMED_OUT, and
the next boot opens the window after all; a restart between commissioning and
the store of PAIRED leaves a commissioned device at AWAITING; a retry in a paired
device that nobody uses turns PAIRED into AWAITING and then TIMED_OUT; choosing
Matter anew sets PAIRED back to IDLE; a factory reset does not erase the fabrics.

## Runs

| run | instance | what it shows |
|---|---|---|
| `transactions` | 1 device that moves between 2 addresses, an unparsable one, 2 invoke IDs, answers up to 1 allocation late, duplication, eviction | the inductive invariant `IInv`; late and doubled acknowledgements decide nothing, the slot is always given back |
| `transactions_live` | 2 IDs, every kind of answer, threshold 3, fairness, a target that comes and goes | answers match requests, the breaker follows the timeouts and closes again (`Recovery`); refinement of `AtomicTransactions` |
| `dispatch` | poller, writer and web task, queues of 1, 3 handles, all impatient | requests and semaphores are accounted for, HIGH is overtaken once at most |
| `dispatch_live` | the same with fairness, nobody impatient | refinement of `SynchronousCalls`; queued calls are served |
| `cache` | 2 tasks, 3 points, 2 entries, 5 clock values | the cache never has two entries for a point, evicts the oldest, and shows an old value only through an overlapping read and for a bounded time |
| `target` | 3 devices, lists of 2 places, 2 I-Ams each, 2 choices (entries of any of three fields), 1 fault | reports are complete and truncation is told; server, worker and NVS agree on a settled target, a mixed one too; a device is adopted only if it answered; a confirmed name is that of the target's address until a restart |
| `connectivity` | 1 retry before the backoff, 2 pending events, 1 fault, 1 state task, 2 clients, 2 actions of users | a station without an address has somebody who will try again and its outage is timed; station and client come back where somebody is left to try |
| `boost` | 1 user task and the poll, 3 events, fairness | with MQTT connected a boost that is to end ends; once the plant stays AUTO its flag and deadline are cleared for good |
| `pairing` | 3 requests, 2 restarts, 1 failing write, commit or stack call | a window that timed out stays closed at boot, AWAITING does not outlast the window, PAIRED does not become TIMED_OUT |
| `transport` | Spec of `Connectivity`, users switch only | finding: two integrations at a time |
| `boost_end` | no state task | finding: nothing ends a boost |
| `target_name` | as `target` | finding: the name of another device comes back |

The names of instances are those of `PROJECT.json`, which also has for each
property a mutant: a plausible bug in one mapped definition under which TLC finds
the property violated by the same run. The mutants are the definitions marked
"Mutant" in the modules.

### Bounds

- `IdMax` 2 instead of 255: what matters is that IDs come round while an answer
  is on the wire, with `MaxLag` = `IdMax` - 1 the longest delay that leaves IDs
  unambiguous. That an answer is never `IdMax` allocations late is an assumption
  (`LagAssumption`): with 255 IDs an answer would have to be at least 254 further
  transactions old. The theorems hold for every `IdMax`.
- Queue depths 1 instead of 8 and 24: with three tasks, each in one call, a depth
  of 1 is the only one at which a queue fills up. Three handles, so that a handle
  is reused while an orphan still names it. The theorems hold for every depth.
- `OfflineThreshold` 2, and 3 where the run is about the threshold; `TimeoutCap`
  bounds the counter, which is only compared with the threshold.
- Cache: 2 entries for 3 points so that entries are evicted; `TTL` 2, `MaxHold` 1
  and `MaxNow` 5 let an entry expire and be refreshed within a run; one write
  per point tells old from new.
- Discovery and target: fewer places than devices, so that lists overflow; two
  I-Ams per device are enough to repeat one; two choices let a second one meet
  what the first has left, with one fault (a failing write or a restart) anywhere in
  between.
- Connectivity: `STA_MAX_RETRIES` 1 instead of 5 (the code compares the counter with
  it and with nothing else); a handler that lags two events behind; one fault (a
  silent link loss, the access point or the broker going away, a client that cannot
  be made though there is room) per behaviour; an `mqtt_app_start` that returns
  early or a state task that is not spawned costs none, and failing attempts are not
  counted either; two clients, so that a second can be created beside a forgotten
  one; two actions of users, so that a switch can be taken back. Ages of outages are
  kept only in classes the code tells apart.
- Boost: three events (commands, changes by others, changes of the timeout,
  imports, restarts) let one command interrupt another and a restart or a change by
  others follow; reads, writes, the loss of acknowledgements and of MQTT are not
  bounded.
- Pairing: three requests, two restarts and one failing write, commit or call of the
  stack: a retry, a close and a switch in one boot, and a boot after a boot that
  went wrong.
- `MaxAnnouncements`, `MaxNow`, `MaxWrites`, `MaxLag`, `TimeoutCap`, `MaxChoices`,
  `MaxFaults`, `MaxEvents`, `MaxClients`, `MaxWebActions`, `MaxRequests` and
  `MaxRestarts` are the bounds on what would otherwise grow; each is named in its
  module. Where they are used up a run may stop, and its cfg says so
  (`CHECK_DEADLOCK FALSE` in `connectivity`, `target`, `pairing` and the runs of the
  findings).

### Fairness

The worker's loop has no exit, so its steps are weakly fair (in
`BacnetTransactions` per action: one that stays possible is taken). The wait loop
has a fixed number of turns, so it ends; the probe interval elapses; a task
inside `set_target` runs on. A reachable target answers within the wait loop:
`prompt` is TRUE while it has been reachable since the transaction began, and
while it is, the wait does not expire and the request or its answer is not lost.
`Recovery` is conditional on the target staying reachable for good and on
`set_target` not being in progress. In `BacnetDispatch` a caller with room in its
queue or with its semaphore given runs on, and nobody has to call.
`ReadsAreServedInTheEnd` assumes that writers pause, since the code lets HIGH
requests starve NORMAL ones.

In `Connectivity` tasks and timers run on (weak fairness). Of the attempts to
reach an access point or a broker that is there, not all fail: strong fairness of
`GetsLink` and `MqttEventConnected`, without which no code could reconnect. Nothing
makes users act, faults happen or an outage end. Three guards say how long
things take: `TimePasses` waits until nothing is due at once (`SomethingIsDue`: one
step of time is 45 s or more, and what a task can do at once takes less);
`BackoffEnds` lets the backoff of a second or more outlast what is being handled;
`TenMinutesPass` does the same for the ten minutes. `MqttComesBack` is checked with
one state task. Each switch back to MQTT spawns another one and none ever ends
(4506); with two of them the property fails in a behaviour in which the two
watchdogs recycle the client in perfect step for ever, which no fairness
excludes and no scheduler is likely to produce.

In `Boost` tasks run on (each of the steps of a note, a comparison or a new timeout
with them), the cache entry expires, the deadline passes, and of the
poll's reads and writes, which are repeated every few seconds, not all fail
(strong fairness of `WriteExecuted` and of the reads of `"state"`). The runs of
`MatterPairing` and `TargetChoice` check safety only; `WindowMayEnd` says that a
window, which lasts for minutes, does not end while its opening is still being
handled.

## Proofs

Each theorem holds for every value of the constants that satisfies the named
assumptions of its module (`HealthAssumption`, `NetworkAssumption`,
`LagAssumption`, `DispatchAssumption`, `CacheAssumption`, `DiscoveryAssumption`,
`TargetAssumption`, `StationAssumption`, `ConnectivityAssumption`,
`BoostAssumption`, `PairingAssumption`); TLC evaluates them in every run of the module.

| module | theorems | properties |
|---|---|---|
| `BacnetTransactions_proofs` | `TypeCorrect`, `Invariant`, `AnswersMatchRequests`, `SlotIsReturned`, `BreakerFollowsTimeouts`, `LateAnswersHarmless`, `TransactionsImplementAtomic` | `TypeOK`, `IInv`, `AnswerIsForThisRequest`, `SlotNeverLeaks`, `HealthMatchesTimeouts`, `LateAnswersAreIgnored`, `TransactionsAreAtomic` |
| `BacnetDispatch_proofs` | `DispatchInvariant`, `DispatchTypes`, `SemaphoresAlwaysAccountedFor`, `NoCallIsEverLost`, `HighNeverOvertakenTwice` | `TypeOK`, `SemaphoresAreAccountedFor`, `NoCallIsLost`, `HighOvertakenAtMostOnce` |
| `SynchronousCalls_proofs` | `AnswersAreOwn`, `DispatchIsSynchronous` | `CallersGetTheirOwnAnswer`, `CallsAreSynchronous` |
| `ReadCache_proofs` | `CacheInvariant`, `CacheTypes`, `AlwaysOneEntryPerPoint`, `OldValueIsAlwaysFromOverlappingRead`, `ShownValueIsAlwaysRecent`, `OnlyOldestEverMakesRoom` | all five properties of the run |
| `TargetChoice_proofs` | `DiscoveryInvariant`, `DiscoveryTypes`, `ReportAlwaysComplete`, `TruncationAlwaysReported`, `TargetChoiceIsDiscovery`, `TargetInvariant`, `TargetTypes`, `SettledTargetIsAlwaysInUse`, `AdoptedDeviceHasAlwaysAnswered`, `ConfirmedNameIsAlwaysOfTheTarget`, `ChoiceReportIsComplete`, `ChoiceTruncationIsReported` | all six properties of the run |
| `Connectivity_proofs` | `StationIsLookedAfter`, `ConnectivityImplementsStation`, `ReconnectAlwaysArmed`, `OutageAlwaysTimed`, `StationAlwaysLookedAfter`, `ConnectivityTypes` | `StationInv`, `ReconnectIsArmed`, `OutageIsTimed`, `TypeOK` |
| `MatterPairing_proofs` | `PairingInvariant`, `PairingTypes`, `PairedIsNeverTimedOut`, `PendingInvariant`, `TimedOutBootIsSilent`, `AwaitingEnds` | all four properties of the run |
| `Boost_proofs` | `BoostTypes` | `TypeOK` |

**Transactions.** `AnswerIsForThisRequest` is about a step that has already been
taken, and is not inductive. What keeps it true is that the invoke ID of every
datagram on the wire tells its age (`IdsTellAge`): an ID is stepped once per
allocation, and a datagram is dropped before IDs come round to its own, so two
datagrams with one ID have one age (lemma `SameIdSameAge`). An answer that
matches `s_current_invoke_id` therefore has age 0, that is, it answers the latest
request. That an OK is honest needs `AcksAreHonest`: an acknowledgement of age 0
is on the wire only if the device has executed the request. `SlotNeverLeaks` is
needed on the way: in the wait loop the slot holds `s_current_invoke_id`, so only
an answer with that ID frees it, and the loop ends in that very turn. The same
invariant gives the refinement `TransactionsImplementAtomic`: no flag is up while
the loop runs, so the flag that ends it was raised by the datagram in hand, an
acknowledgement for OK and a negative answer for an error, and every other step
of the worker, the network or `set_target` is a stutter or moves only the worker.

**Dispatch.** That no call is lost is not inductive either: a caller is woken by
handle, and the handle of an orphan may be another call's. `DispatchInv` adds
that a live request names the semaphore its call waits for (`RequestsBelong`) and
that a call has at most one request anywhere (`RequestedOnce`), with
`SemaphoresAreAccountedFor` to tell the handles of two calls apart. The positions
of a call's requests in a queue (`Lives`) are what the lemmas on `Append`, `Tail` and
`Orphaned` are about. `NotYetOvertaken` strengthens the bound on overtaking: what
the worker sees on the high queue while it waits on the normal one was queued
during that wait. Without timeouts (`Impatient = {}`) there are no orphans
(`NothingIsLate`), and each step is seen by one caller at most, as one step of its
synchronous call (`SynchronousStep`), which is the refinement.

**Cache.** `CacheInv` dates everything that may still reach the cache: an entry
that is old although its write was acknowledged was put by a read that
overlapped the write (`raced`), and no entry or answer is older than the time of
its sample allows. That a put keeps one entry per point follows from the slot it
takes: the point's own if there is one, else a free one, else the oldest.

**Discovery and target.** `DiscoveryInv` says that the list is duplicate-free and
holds every device heard since it was cleared, or is full. `TargetChoice` maps to
it step by step, and its own invariant says how far a save has got (`SaveInv`, key by
key) and whether the list in hand is of the handler's own pass (`AdoptInv`).

**Station.** `StationInv` is proved of the station alone, with any user, watchdog
and fault; what makes `ReconnectIsArmed` inductive is that retries are counted from
the first event after an address was lost and each counted one armed the timer.
`ConnectivityImplementsStation` then carries it over to the composition.

**Pairing.** `PairedIsNotTimedOut` needs to know which of the three tasks may be
about to store what: that the CHIP task never stands before a store of
TIMED_OUT while the status is PAIRED, and that a start that closes the window
again does so in a device that nobody has commissioned meanwhile. `PendingInv`
is about what is still to come of a window. The last event that waits tells how
the window stands, and when none waits and no store of TIMED_OUT is under way a
closed window is not AWAITED (`WindowInv`): this gives `AwaitingEnds`, since the CHIP
task handles the opening before the closing whatever the other two tasks store
between. In a boot that nobody has asked for another attempt the web server stores
no AWAITING, though it may start Matter through the wizard (`AskedInv`); whoever
started it, the window it opened is closed by the step that follows, and nothing on
its way could end in PAIRED (`ResumeInv`): this gives `TimedOutBootIsSilent`.

**Boost.** `TypeOK` is inductive. What it says beyond the ranges is that the steps
`boost_apply` and the poll share, the cached read above all, never lead a task of
the web page, of Matter or of the commands into the poll.

Only model-checked: all liveness (`Recovery`, `HighCallsAreServed`,
`ReadsAreServedInTheEnd`, `StationComesBack`, `MqttComesBack`, `BoostEnds`,
`EndedBoostIsForgotten`), which is out of reach of the installed back ends. Every
other property of a passing run is a theorem.

## Findings

1. **Two transports at a time** (`transport`). The state task is never stopped,
   and stage 1 of its watchdog (`main.c` 6392) calls `mqtt_app_restart` whatever
   the integration is by then: 45 s into an outage of MQTT that the user has
   ended by choosing Matter, a new client is created and nothing stops it. The
   wizard (5044-5049) stops no transport at all. `docs/INTEGRATION_MODULES.md` line
   22: "Only one automation transport is active at a time".
2. **Nothing ends a boost without MQTT** (`boost_end`). The deadline is looked at
   only in `mqtt_state_task` (6440), and only while MQTT is connected (6412).
   The repository's `README.md`, line 71, promises "configurable auto-revert timers".
3. **A name comes back** (`target_name`). `target_config_save_direct` writes the key
   `name` only for a confirmed name and never erases it (385): after the next
   restart a target entered by hand carries the name of an earlier device, which
   the comment at 4982 says it must not.

Noticed on the way and not modelled as a property: `mqtt_app_stop` deletes the
queue on which `mqtt_command_task` is blocked with `portMAX_DELAY` (6323), and the
queue a later start makes is not the one that task waits on; the wizard spawns no
state task (5045), so that MQTT chosen there has no watchdog and no poll until
the next restart; the import of a configuration (5309-5321) stores the boost
timeout without the range check of the page and leaves a deadline that is running
as it was (the latter is in `Boost`); an entry of
the instance alone keeps the confirmed name of the device at the old address
(4985-4993), an `mqtt_app_start` that returned early is not tried again (6348-6355),
and the deadline of a boost may end the next one (6440), all three in the modules;
the fall-back to the access point
calls `esp_netif_create_default_wifi_sta` a second time.

## Not modelled

The map covers a small share of the repository's lines, and could not cover
much more faithfully: of the 91 934 lines counted as implementation nearly all
are the vendored BACnet stack (encoders, decoders and tables for property
types), and most of `main.c` renders HTML and JSON, parses forms and publishes
topics. What is left out, and why:

- Encoding, segmentation and the server side of the BACnet stack, the socket
  port, the DNS portal, the Ethernet driver set-up: third-party code or hardware
  configuration. `BacnetTransactions` keeps what the worker depends on.
- HTTP parsing, JSON, HTML pages, logging, mDNS, topics and payloads of MQTT and
  Home Assistant discovery, the attribute mapping of the Matter endpoints: no
  state of theirs is read by what is modelled. The handlers and commands that do
  change such state are actions of `TargetChoice`, `Connectivity`, `Boost` and
  `MatterPairing`.
- The object scanner (3108-3480). `SCAN_STATE_COMPLETE` is set before
  `ScanTaskFinished`, and pages are freed under their readers: every race between
  a reader, a new scan and the reaper ends in a use after free, after which C
  promises nothing, so that no property relates two of its variables.
- Flash workers, OTA and the task registry. Each flash operation is a rendezvous
  for which the caller waits; the modules take it as the synchronous call it is.
  An OTA upload ends in `esp_ota_end`, whose checks are ESP-IDF's.
- The rooms of `hvac_core.c`: a table saved key by key, any mixture of two
  versions of which is a valid table.
- Strategy inspection: a read-only walk over the device's objects.
- `firmware/eth_bringup`, `firmware/wifi_provisioning`,
  `firmware/t_eth_lite_hardware_proof`: bring-up programs, not part of the bridge.
