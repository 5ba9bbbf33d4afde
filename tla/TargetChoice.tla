----------------------------- MODULE TargetChoice -----------------------------
(***************************************************************************)
(* How the web server of main.c chooses the BACnet target: a discovery     *)
(* adopts the first device of its list, the wizard and the import of a     *)
(* configuration take what they are given of an address, a port and a      *)
(* device instance, and each saves the target key by key in NVS and hands  *)
(* it to the worker.  The devices and the worker's list are Discovery's;   *)
(* each device has one address, one port and one instance, so that a       *)
(* target can be a mix of several devices, and an entry by hand can make   *)
(* it one.                                                                 *)
(***************************************************************************)
EXTENDS Discovery

CONSTANTS
    None,           \* an empty TargetDeviceName, a field an entry leaves out
    MaxChoices,     \* bound: discoveries and entries by hand
    MaxFaults       \* bound: restarts, and writes to NVS that fail

ASSUME TargetAssumption ==
    /\ None \notin Announcers
    /\ MaxChoices \in Nat /\ MaxFaults \in Nat

VARIABLES
    Target,             \* [ip, port, id]: TargetIp, TargetPort,
                        \* TargetDeviceInstance
    TargetDeviceName,   \* None: not TargetDeviceNameValid
    DiscoveredDevices,  \* the web server's copy of the last list
    nvs,                \* the namespace nvs_target, [ip, port, id, name]
    s_target,           \* the target of bacnet_worker.c
    web,                \* where the handler is
    settled,            \* history: the last save ended well
    adopted,            \* history: a discovery's first device is the target,
                        \* and the pass was this handler's own
    used                \* [choices, faults]: of the bounds, and restarts

chosen == <<Target, TargetDeviceName>>
stored == <<nvs, s_target>>
history == <<settled, adopted>>
targetVars == <<chosen, DiscoveredDevices, stored, web, history, used>>

Steps == {"idle", "waiting", "adopt", "saveIp", "savePort", "saveId", "saveName",
          "hand over"}

\* The target that device d is.
TargetOf(d) == [ip |-> d, port |-> d, id |-> d]
Targets == [ip : Announcers, port : Announcers, id : Announcers]

\* What an entry by hand gives: any of the three, or none of them.
Entries == [ip : Announcers \cup {None}, port : Announcers \cup {None},
            id : Announcers \cup {None}]

\* The variables keep their types, and neither list outgrows its array.
TargetTypeOK ==
    /\ TypeOK
    /\ Target \in Targets
    /\ TargetDeviceName \in Announcers \cup {None}
    /\ DiscoveredDevices \in Seq(Announcers) /\ Len(DiscoveredDevices) <= MaxDevs
    /\ nvs \in [ip : Announcers, port : Announcers, id : Announcers,
                name : Announcers \cup {None}]
    /\ s_target \in Targets
    /\ web \in Steps
    /\ settled \in BOOLEAN /\ adopted \in BOOLEAN
    /\ used \in [choices : 0 .. MaxChoices, faults : 0 .. MaxFaults, restarts : Nat]

\* A target given by hand long ago.
TargetInit ==
    /\ Init
    /\ \E d \in Announcers :
         /\ Target = TargetOf(d)
         /\ nvs = [ip |-> d, port |-> d, id |-> d, name |-> None]
    /\ s_target = Target
    /\ TargetDeviceName = None
    /\ DiscoveredDevices = <<>>
    /\ web = "idle"
    /\ settled = TRUE /\ adopted = FALSE
    /\ used = [choices |-> 0, faults |-> 0, restarts |-> 0]

Chooses ==
    /\ web = "idle"
    /\ used.choices < MaxChoices
    /\ used' = [used EXCEPT !.choices = @ + 1]

Fault ==
    /\ used.faults < MaxFaults
    /\ used' = [used EXCEPT !.faults = @ + 1]

Restarts ==
    /\ used.faults < MaxFaults
    /\ used' = [used EXCEPT !.faults = @ + 1, !.restarts = @ + 1]

-----------------------------------------------------------------------------
(***************************************************************************)
(* api_bacnet_discover_handler                                             *)
(***************************************************************************)
Discover ==
    /\ Chooses
    /\ StartDiscovery
    /\ web' = "waiting"
    /\ adopted' = FALSE
    /\ UNCHANGED <<chosen, DiscoveredDevices, stored, settled>>

\* The worker's queue is full: no pass is made.
DiscoveryRefused ==
    /\ Chooses
    /\ web' = "adopt"
    /\ adopted' = FALSE
    /\ UNCHANGED <<vars, chosen, DiscoveredDevices, stored, settled>>

DiscoveryEnds ==
    /\ FinishDiscovery
    /\ IF web = "waiting"
         THEN /\ DiscoveredDevices' = report'.devs
              /\ web' = "adopt"
              /\ adopted' = (report'.devs # <<>>)
         ELSE UNCHANGED <<DiscoveredDevices, web, adopted>>
    /\ UNCHANGED <<chosen, stored, settled, used>>

\* The caller's time is over.  As after a refusal the status is not looked at,
\* and the list stays what it was.
DiscoveryGivesUp ==
    /\ web = "waiting"
    /\ web' = "adopt"
    /\ UNCHANGED <<vars, chosen, DiscoveredDevices, stored, history, used>>

Adopt ==
    /\ web = "adopt"
    /\ \/ /\ DiscoveredDevices # <<>>
          /\ LET d == Head(DiscoveredDevices)
             IN Target' = TargetOf(d) /\ TargetDeviceName' = d
          /\ web' = "saveIp"
          /\ settled' = FALSE
       \/ /\ DiscoveredDevices = <<>>
          /\ web' = "idle"
          /\ UNCHANGED <<chosen, settled>>
    /\ UNCHANGED <<vars, DiscoveredDevices, stored, adopted, used>>

-----------------------------------------------------------------------------
(***************************************************************************)
(* api_wizard_finish_handler, and the import of a configuration            *)
(***************************************************************************)

\* Mutant: the name of the last target is carried over.
CarriesNameOver == UNCHANGED TargetDeviceName

\* A target entered by hand is unconfirmed until the next discovery.
Unconfirmed == TargetDeviceName' = None

Taken(field, old) == IF field = None THEN old ELSE field

\* Each field that is given is taken, and only a new address makes the target
\* unconfirmed: an entry without one keeps the confirmed name.  The save
\* follows even when nothing was given.
Enter(given) ==
    /\ Chooses
    /\ Target' = [ip |-> Taken(given.ip, Target.ip),
                  port |-> Taken(given.port, Target.port),
                  id |-> Taken(given.id, Target.id)]
    /\ IF given.ip = None THEN UNCHANGED TargetDeviceName ELSE Unconfirmed
    /\ web' = "saveIp"
    /\ settled' = FALSE /\ adopted' = FALSE
    /\ UNCHANGED <<vars, DiscoveredDevices, stored>>

-----------------------------------------------------------------------------
(***************************************************************************)
(* target_config_save_direct: key by key, and bacnet_worker_set_target     *)
(***************************************************************************)
SaveIp ==
    /\ web = "saveIp"
    /\ nvs' = [nvs EXCEPT !.ip = Target.ip]
    /\ web' = "savePort"
    /\ UNCHANGED <<vars, chosen, DiscoveredDevices, s_target, history, used>>

SavePort ==
    /\ web = "savePort"
    /\ nvs' = [nvs EXCEPT !.port = Target.port]
    /\ web' = "saveId"
    /\ UNCHANGED <<vars, chosen, DiscoveredDevices, s_target, history, used>>

SaveId ==
    /\ web = "saveId"
    /\ nvs' = [nvs EXCEPT !.id = Target.id]
    /\ web' = IF TargetDeviceName # None THEN "saveName" ELSE "hand over"
    /\ UNCHANGED <<vars, chosen, DiscoveredDevices, s_target, history, used>>

\* An empty name is not written: the key keeps what it holds.
SaveName ==
    /\ web = "saveName"
    /\ nvs' = [nvs EXCEPT !.name = TargetDeviceName]
    /\ web' = "hand over"
    /\ UNCHANGED <<vars, chosen, DiscoveredDevices, s_target, history, used>>

SaveFails ==
    /\ web \in {"saveIp", "savePort", "saveId", "saveName", "hand over"}
    /\ Fault
    /\ web' = "idle"
    /\ UNCHANGED <<vars, chosen, DiscoveredDevices, stored, history>>

\* Mutant: the worker is not told.
WorkerKeepsTarget == UNCHANGED s_target

WorkerTakesTarget == s_target' = Target

HandOver ==
    /\ web = "hand over"
    /\ WorkerTakesTarget
    /\ web' = "idle"
    /\ settled' = TRUE
    /\ UNCHANGED <<vars, chosen, DiscoveredDevices, nvs, adopted, used>>

-----------------------------------------------------------------------------
(***************************************************************************)
(* The rest of the world                                                   *)
(***************************************************************************)
IAm(d) == ReceiveIAm(d) /\ UNCHANGED targetVars

\* target_config_load
Restart ==
    /\ Restarts
    /\ Target' = [ip |-> nvs.ip, port |-> nvs.port, id |-> nvs.id]
    /\ s_target' = Target'
    /\ TargetDeviceName' = nvs.name
    /\ DiscoveredDevices' = <<>>
    /\ web' = "idle"
    /\ adopted' = FALSE
    /\ Reboot
    /\ UNCHANGED <<nvs, settled>>

TargetNext ==
    \/ Discover \/ DiscoveryRefused \/ DiscoveryEnds \/ DiscoveryGivesUp
    \/ Adopt
    \/ \E given \in Entries : Enter(given)
    \/ \E d \in Announcers : IAm(d)
    \/ SaveIp \/ SavePort \/ SaveId \/ SaveName \/ SaveFails \/ HandOver
    \/ Restart

TargetSpec == TargetInit /\ [][TargetNext]_<<vars, targetVars>>

-----------------------------------------------------------------------------
(***************************************************************************)
(* Properties                                                              *)
(***************************************************************************)

\* After a save that ended well the server, the worker and NVS agree on the
\* whole target, also on a mix that an entry of some of its fields has made,
\* and whatever failed or was cut off by a restart before.
SettledTargetIsInUse ==
    web = "idle" /\ settled =>
      /\ s_target = Target
      /\ nvs.ip = Target.ip /\ nvs.port = Target.port /\ nvs.id = Target.id

\* A discovery whose answer reached the handler makes a device the target,
\* with address, port and instance, that answered in that very pass.
AdoptedDeviceHasAnswered ==
    adopted /\ web \notin {"waiting", "adopt"} =>
      \E d \in report.heard : Target = TargetOf(d)

\* As long as the proxy has not restarted, the confirmed name is that of the
\* device at the target's address, in whatever order discoveries, refused ones
\* too, entries of any of the three fields, and saves that fail come.  (Of the
\* target's port and instance it says nothing: they can be entered alone.)
ConfirmedNameIsOfTheTarget ==
    used.restarts = 0 /\ TargetDeviceName # None => TargetDeviceName = Target.ip

\* main.c, api_wizard_finish_handler: a target entered by hand, and saved,
\* never carries the confirmed name of another device, after a restart either.
NameIsOfTheTarget ==
    settled /\ TargetDeviceName # None => TargetDeviceName = Target.ip
=============================================================================
