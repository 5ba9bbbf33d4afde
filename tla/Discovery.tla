------------------------------ MODULE Discovery ------------------------------
(***************************************************************************)
(* What bacnet_worker.c remembers of the devices that announce themselves, *)
(* and what a discovery reports of them.  A device is asked up to four     *)
(* times in one pass (globally, twice by broadcast, by unicast), and it    *)
(* answers as often as it hears; the list has MAX_DISCOVERED_DEVICES       *)
(* places; the same handler runs when a transaction happens to receive an  *)
(* I-Am.  What an I-Am does to the address table is in BacnetTransactions. *)
(***************************************************************************)
EXTENDS Naturals, Sequences, FiniteSets, Functions

CONSTANTS
    Announcers,         \* devices, each a device instance at an IP address
    MaxDevices,         \* MAX_DISCOVERED_DEVICES
    MaxDevs,            \* max_devs: the places in the caller's array
    MaxAnnouncements    \* bound: I-Ams of one device in one pass

ASSUME DiscoveryAssumption ==
    /\ IsFiniteSet(Announcers)
    /\ MaxDevices \in Nat \ {0} /\ MaxDevs \in Nat \ {0}
    /\ MaxAnnouncements \in Nat \ {0}

VARIABLES
    discovering,                \* the worker is in its discovery loop
    s_discovered_devs,          \* the used part of the array
    s_discovered_seen_count,
    announced,                  \* history: I-Ams since the list was cleared
    report                      \* what the caller of the last discovery got,
                                \* and (history) which devices had been heard

vars == <<discovering, s_discovered_devs, s_discovered_seen_count, announced,
          report>>

Heard == {d \in Announcers : announced[d] > 0}
NoReport == [devs |-> <<>>, seen |-> 0, heard |-> {}]

TypeOK ==
    /\ discovering \in BOOLEAN
    /\ s_discovered_devs \in Seq(Announcers)
    /\ Len(s_discovered_devs) <= MaxDevices
    /\ s_discovered_seen_count \in Nat
    /\ announced \in [Announcers -> 0 .. MaxAnnouncements]
    /\ report \in [devs : Seq(Announcers), seen : Nat,
                   heard : SUBSET Announcers]

Init ==
    /\ discovering = FALSE
    /\ s_discovered_devs = <<>>
    /\ s_discovered_seen_count = 0
    /\ announced = [d \in Announcers |-> 0]
    /\ report = NoReport

\* Mutant: the counter of an earlier pass runs on.
KeepSeenCount == UNCHANGED s_discovered_seen_count

ClearSeenCount == s_discovered_seen_count' = 0

\* Mutant: the list of an earlier pass is kept.
KeepList == UNCHANGED s_discovered_devs

ClearList == s_discovered_devs' = <<>>

\* execute_worker_discovery, up to its receive loop.
StartDiscovery ==
    /\ ~discovering
    /\ discovering' = TRUE
    /\ ClearList
    /\ ClearSeenCount
    /\ announced' = [d \in Announcers |-> 0]
    /\ UNCHANGED report

\* Mutant: the handler does not look for the device in its list.
NeverListed(d) == FALSE

AlreadyListed(d) == d \in Range(s_discovered_devs)

\* Mutant: one device more than the array has places.
RoomForOneMore == Len(s_discovered_devs) <= MaxDevices

HasRoom == Len(s_discovered_devs) < MaxDevices

\* worker_i_am_handler, in a discovery or in any wait loop.
ReceiveIAm(d) ==
    /\ announced[d] < MaxAnnouncements
    /\ announced' = [announced EXCEPT ![d] = @ + 1]
    /\ IF AlreadyListed(d)
         THEN UNCHANGED <<s_discovered_devs, s_discovered_seen_count>>
         ELSE /\ s_discovered_seen_count' = s_discovered_seen_count + 1
              /\ s_discovered_devs' =
                   IF HasRoom
                     THEN Append(s_discovered_devs, d) ELSE s_discovered_devs
    /\ UNCHANGED <<discovering, report>>

\* The loop's two seconds are over; bacnet_worker_discover_sync copies what
\* fits into the caller's array.
FinishDiscovery ==
    /\ discovering
    /\ discovering' = FALSE
    /\ report' = [devs |-> SubSeq(s_discovered_devs, 1,
                              IF Len(s_discovered_devs) > MaxDevs
                                THEN MaxDevs ELSE Len(s_discovered_devs)),
                  seen |-> s_discovered_seen_count,
                  heard |-> Heard]
    /\ UNCHANGED <<s_discovered_devs, s_discovered_seen_count, announced>>

Reboot ==
    /\ discovering' = FALSE
    /\ s_discovered_devs' = <<>>
    /\ s_discovered_seen_count' = 0
    /\ announced' = [d \in Announcers |-> 0]
    /\ report' = NoReport

Next == StartDiscovery \/ FinishDiscovery \/ Reboot
        \/ \E d \in Announcers : ReceiveIAm(d)

Spec == Init /\ [][Next]_vars

-----------------------------------------------------------------------------
(***************************************************************************)
(* Properties                                                              *)
(***************************************************************************)

\* A pass reports devices that answered in this pass, each of them once, and
\* as many as there is room for, however often and in whatever order they
\* announce themselves, before the pass and in it.
ReportIsComplete ==
    /\ Range(report.devs) \subseteq report.heard
    /\ Len(report.devs) = Cardinality(Range(report.devs))
    /\ \/ Len(report.devs) = Cardinality(report.heard)
       \/ Len(report.devs) = MaxDevices
       \/ Len(report.devs) = MaxDevs

\* The web page says "truncated" exactly when a device that answered is
\* missing from the list it shows.
TruncationIsReported ==
    report.seen > Len(report.devs)
      <=> Cardinality(report.heard) > Len(report.devs)
=============================================================================
