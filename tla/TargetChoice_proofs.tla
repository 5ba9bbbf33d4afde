-------------------------- MODULE TargetChoice_proofs --------------------------
(***************************************************************************)
(* First the worker's list of devices (Discovery): the list of a pass is   *)
(* right however I-Ams, passes and restarts follow each other              *)
(* (DiscoveryInv, the inductive invariant), and so is what a discovery     *)
(* reports of it.  Then the choice of a target, which is to that list a    *)
(* sequence of passes, I-Ams and restarts, so that all of this holds here  *)
(* too; and what is saved, used and shown agree (TargetInv).               *)
(***************************************************************************)
EXTENDS TargetChoice, FiniteSetTheorems, TLAPS

Distinct(list) ==
    \A i, j \in DOMAIN list : list[i] = list[j] => i = j

\* What a list of at most MaxDevices places, and the counter beside it, tell
\* of the devices that were heard.
ListOf(list, seen, heard) ==
    /\ list \in Seq(Announcers) /\ Len(list) <= MaxDevices
    /\ Distinct(list)
    /\ Range(list) \subseteq heard
    /\ Len(list) < MaxDevices => Range(list) = heard
    /\ seen \in Nat /\ seen >= Len(list)
    /\ seen > Len(list) <=> Range(list) # heard

\* The part of it that a caller gets.
ReportOf(devs, seen, heard) ==
    /\ devs \in Seq(Announcers) /\ Len(devs) <= MaxDevs
    /\ Range(devs) \subseteq heard
    /\ Len(devs) = Cardinality(Range(devs))
    /\ \/ Len(devs) = Cardinality(heard)
       \/ Len(devs) = MaxDevices
       \/ Len(devs) = MaxDevs
    /\ seen \in Nat /\ heard \subseteq Announcers
    /\ seen > Len(devs) <=> Cardinality(heard) > Len(devs)

DiscoveryInv ==
    /\ TypeOK
    /\ ListOf(s_discovered_devs, s_discovered_seen_count, Heard)
    /\ ReportOf(report.devs, report.seen, report.heard)

-----------------------------------------------------------------------------
(***************************************************************************)
(* Lists                                                                   *)
(***************************************************************************)

\* A list without duplicates has as many devices as places.
LEMMA DistinctCardinality ==
    ASSUME NEW list \in Seq(Announcers), Distinct(list)
    PROVE  /\ IsFiniteSet(Range(list))
           /\ Cardinality(Range(list)) = Len(list)
<1>1. /\ IsFiniteSet(1 .. Len(list))
      /\ Cardinality(1 .. Len(list)) = Len(list)
  <2>1. Len(list) \in Nat
    OBVIOUS
  <2> QED BY <2>1, FS_Interval
<1>2. list \in Bijection(1 .. Len(list), Range(list))
  BY DEF Distinct, Range, Bijection, Injection, Surjection, IsInjective
<1>3. ExistsBijection(1 .. Len(list), Range(list))
  BY <1>2 DEF ExistsBijection
<1> QED BY <1>1, <1>3, FS_Bijection

LEMMA EmptyList == ListOf(<<>>, 0, {})
<1>1. Range(<<>>) = {}
  BY DEF Range
<1> QED BY <1>1, DiscoveryAssumption DEF ListOf, Distinct

LEMMA EmptyReport == ReportOf(<<>>, 0, {})
<1>1. Range(<<>>) = {}
  BY DEF Range
<1> QED BY <1>1, DiscoveryAssumption, FS_EmptySet DEF ReportOf

LEMMA AppendToList ==
    ASSUME NEW list, NEW seen, NEW heard, NEW d \in Announcers,
           ListOf(list, seen, heard), Len(list) < MaxDevices,
           d \notin Range(list)
    PROVE  ListOf(Append(list, d), seen + 1, heard \cup {d})
<1> DEFINE new == Append(list, d)
<1> USE DiscoveryAssumption
<1>1. list \in Seq(Announcers) /\ new \in Seq(Announcers)
  BY DEF ListOf
<1>2. /\ Len(new) = Len(list) + 1
      /\ \A i \in 1 .. Len(list) : new[i] = list[i]
      /\ new[Len(list) + 1] = d
  BY <1>1
<1>3. Range(new) = Range(list) \cup {d}
  BY <1>1, <1>2 DEF Range
<1>4. Distinct(new)
  BY <1>1, <1>2 DEF ListOf, Distinct, Range
<1>5. Range(list) = heard /\ seen \in Nat /\ seen = Len(list)
  BY <1>1 DEF ListOf
<1>6. ListOf(new, seen + 1, heard \cup {d})
  <2> HIDE DEF new
  <2> QED BY <1>1, <1>2, <1>3, <1>4, <1>5 DEF ListOf
<1> QED BY <1>6

\* A caller's array takes the first devices of the list.
LEMMA ReportOfList ==
    ASSUME NEW list, NEW seen, NEW heard \in SUBSET Announcers,
           ListOf(list, seen, heard)
    PROVE  ReportOf(SubSeq(list, 1, IF Len(list) > MaxDevs
                                      THEN MaxDevs ELSE Len(list)),
                    seen, heard)
<1> DEFINE n == IF Len(list) > MaxDevs THEN MaxDevs ELSE Len(list)
           devs == SubSeq(list, 1, n)
<1> USE DiscoveryAssumption
<1>1. list \in Seq(Announcers) /\ Len(list) \in Nat /\ n \in 0 .. Len(list)
      /\ n <= MaxDevs
  BY DEF ListOf
<1>2. devs \in Seq(Announcers) /\ Len(devs) = n
      /\ \A i \in 1 .. n : devs[i] = list[i]
  BY <1>1
<1>3. Range(devs) \subseteq Range(list) /\ Range(list) \subseteq heard
  BY <1>1, <1>2 DEF ListOf, Range
<1>4. Distinct(devs)
  BY <1>1, <1>2 DEF ListOf, Distinct
<1>5. Len(devs) = Cardinality(Range(devs))
  BY <1>2, <1>4, DistinctCardinality
<1>6. Cardinality(Range(list)) = Len(list) /\ IsFiniteSet(Range(list))
  BY <1>1, DistinctCardinality DEF ListOf
<1>7. IsFiniteSet(heard) /\ Cardinality(heard) \in Nat
  BY FS_Subset, FS_CardinalityType
<1>8. /\ Len(list) <= Cardinality(heard)
      /\ Cardinality(heard) = Len(list) <=> Range(list) = heard
  BY <1>3, <1>6, <1>7, FS_Subset
<1>9. seen \in Nat /\ seen >= Len(list)
      /\ (seen > Len(list) <=> Range(list) # heard)
      /\ Len(list) <= MaxDevices
      /\ (Len(list) < MaxDevices => Range(list) = heard)
  BY DEF ListOf
<1>10. ReportOf(devs, seen, heard)
  <2> HIDE DEF devs
  <2>1. n = Len(list) \/ (n = MaxDevs /\ n < Len(list))
    BY <1>1
  <2>2. Len(devs) = Cardinality(heard) \/ Len(devs) = MaxDevices
        \/ Len(devs) = MaxDevs
    BY <1>1, <1>2, <1>8, <1>9, <2>1
  <2>3. seen > Len(devs) <=> Cardinality(heard) > Len(devs)
    BY <1>1, <1>2, <1>7, <1>8, <1>9, <2>1
  <2> QED BY <1>1, <1>2, <1>3, <1>5, <1>9, <2>2, <2>3 DEF ReportOf
<1> QED BY <1>10

-----------------------------------------------------------------------------
(***************************************************************************)
(* The invariant                                                           *)
(***************************************************************************)
LEMMA ClearedInv ==
    ASSUME announced' = [d \in Announcers |-> 0]
    PROVE  /\ Heard' = {}
           /\ announced' \in [Announcers -> 0 .. MaxAnnouncements]
<1>1. Heard' = {}
  <2>1. \A d \in Announcers : ~(announced'[d] > 0)
    OBVIOUS
  <2> QED BY <2>1 DEF Heard
<1>2. 0 \in 0 .. MaxAnnouncements
  BY DiscoveryAssumption
<1> QED BY <1>1, <1>2

LEMMA NoReportType ==
    /\ NoReport \in [devs : Seq(Announcers), seen : Nat,
                     heard : SUBSET Announcers]
    /\ <<>> \in Seq(Announcers) /\ Len(<<>>) <= MaxDevices
<1>1. <<>> \in Seq(Announcers) /\ {} \in SUBSET Announcers /\ Len(<<>>) = 0
  OBVIOUS
<1> QED BY <1>1, DiscoveryAssumption DEF NoReport

LEMMA InvInit == Init => DiscoveryInv
<1> SUFFICES ASSUME Init PROVE DiscoveryInv
  OBVIOUS
<1>1. Heard = {}
  BY DEF Init, Heard
<1>2. TypeOK
  <2>1. announced \in [Announcers -> 0 .. MaxAnnouncements]
    BY DiscoveryAssumption DEF Init
  <2> QED BY <2>1, NoReportType DEF Init, TypeOK
<1> QED BY <1>1, <1>2, EmptyList, EmptyReport DEF DiscoveryInv, Init, NoReport

LEMMA InvReceiveIAm ==
    ASSUME DiscoveryInv, NEW d \in Announcers, ReceiveIAm(d)
    PROVE  DiscoveryInv'
<1> DEFINE list == s_discovered_devs
           seen == s_discovered_seen_count
<1> USE DiscoveryAssumption
<1>1. announced' \in [Announcers -> 0 .. MaxAnnouncements]
      /\ Heard' = Heard \cup {d} /\ report' = report /\ UNCHANGED discovering
  BY DEF ReceiveIAm, DiscoveryInv, TypeOK, Heard
<1>2. ListOf(list, seen, Heard)
  BY DEF DiscoveryInv
<1>3. CASE AlreadyListed(d)
  <2>1. d \in Heard /\ Heard' = Heard
    BY <1>1, <1>2, <1>3 DEF AlreadyListed, ListOf
  <2>2. UNCHANGED <<list, seen>>
    BY <1>3 DEF ReceiveIAm
  <2> QED BY <1>1, <1>2, <2>1, <2>2 DEF DiscoveryInv, TypeOK
<1>4. CASE ~AlreadyListed(d) /\ HasRoom
  <2>1. list' = Append(list, d) /\ seen' = seen + 1
    BY <1>4 DEF ReceiveIAm
  <2>2. ListOf(list', seen', Heard')
    BY <1>1, <1>2, <1>4, <2>1, AppendToList DEF AlreadyListed, HasRoom
  <2> QED BY <1>1, <2>2 DEF DiscoveryInv, TypeOK, ListOf
<1>5. CASE ~AlreadyListed(d) /\ ~HasRoom
  <2>1. list' = list /\ seen' = seen + 1
    BY <1>5 DEF ReceiveIAm
  <2>2. d \notin Range(list) /\ Range(list) # Heard'
    BY <1>1, <1>5 DEF AlreadyListed
  <2>3. ListOf(list', seen', Heard')
    BY <1>1, <1>2, <1>5, <2>1, <2>2 DEF ListOf, HasRoom
  <2> QED BY <1>1, <2>3 DEF DiscoveryInv, TypeOK, ListOf
<1> QED BY <1>3, <1>4, <1>5

LEMMA InvStart == ASSUME DiscoveryInv, StartDiscovery PROVE DiscoveryInv'
<1>1. s_discovered_devs' = <<>> /\ s_discovered_seen_count' = 0
      /\ discovering' = TRUE /\ UNCHANGED report
  BY DEF StartDiscovery, ClearList, ClearSeenCount
<1>2. Heard' = {} /\ announced' \in [Announcers -> 0 .. MaxAnnouncements]
  BY ClearedInv DEF StartDiscovery
<1> QED BY <1>1, <1>2, EmptyList, DiscoveryAssumption DEF DiscoveryInv, TypeOK

LEMMA InvFinish == ASSUME DiscoveryInv, FinishDiscovery PROVE DiscoveryInv'
<1>1. Heard \in SUBSET Announcers /\ Heard' = Heard
      /\ UNCHANGED <<s_discovered_devs, s_discovered_seen_count, announced>>
      /\ discovering' = FALSE
  BY DEF Heard, FinishDiscovery
<1>2. ReportOf(report'.devs, report'.seen, report'.heard)
  BY <1>1, ReportOfList DEF DiscoveryInv, FinishDiscovery
<1>3. report' \in [devs : Seq(Announcers), seen : Nat, heard : SUBSET Announcers]
  <2>1. report'.devs \in Seq(Announcers) /\ report'.seen \in Nat
        /\ report'.heard \in SUBSET Announcers
    BY <1>2 DEF ReportOf
  <2> QED BY <2>1 DEF FinishDiscovery
<1> QED BY <1>1, <1>2, <1>3 DEF DiscoveryInv, TypeOK

LEMMA InvReboot == ASSUME Reboot PROVE DiscoveryInv'
<1>1. Heard' = {} /\ announced' \in [Announcers -> 0 .. MaxAnnouncements]
  BY ClearedInv DEF Reboot
<1>2. ListOf(s_discovered_devs, s_discovered_seen_count, Heard)'
  BY <1>1, EmptyList DEF Reboot
<1>3. ReportOf(report.devs, report.seen, report.heard)'
  BY EmptyReport DEF Reboot, NoReport
<1>4. TypeOK'
  BY <1>1, NoReportType DEF Reboot, TypeOK
<1> QED BY <1>2, <1>3, <1>4 DEF DiscoveryInv

LEMMA InvNext == DiscoveryInv /\ [Next]_vars => DiscoveryInv'
<1> SUFFICES ASSUME DiscoveryInv, [Next]_vars PROVE DiscoveryInv'
  OBVIOUS
<1>1. CASE StartDiscovery
  BY <1>1, InvStart
<1>2. CASE FinishDiscovery
  BY <1>2, InvFinish
<1>3. CASE Reboot
  BY <1>3, InvReboot
<1>4. ASSUME NEW d \in Announcers, ReceiveIAm(d) PROVE DiscoveryInv'
  BY <1>4, InvReceiveIAm
<1>5. CASE UNCHANGED vars
  BY <1>5 DEF vars, DiscoveryInv, TypeOK, Heard
<1> QED BY <1>1, <1>2, <1>3, <1>4, <1>5 DEF Next

\* The list, the counter and the report are right in every state.
THEOREM DiscoveryInvariant == Spec => []DiscoveryInv
BY InvInit, InvNext, PTL DEF Spec

\* The variables keep their types, and the list never outgrows its array,
\* however many devices there are and however many places.
THEOREM DiscoveryTypes == Spec => []TypeOK
<1>1. DiscoveryInv => TypeOK
  BY DEF DiscoveryInv
<1> QED BY <1>1, DiscoveryInvariant, PTL

\* A discovery reports devices of its own pass, each once, and all of them
\* unless an array is full.
THEOREM ReportAlwaysComplete == Spec => []ReportIsComplete
<1>1. DiscoveryInv => ReportIsComplete
  BY DEF DiscoveryInv, ReportOf, ReportIsComplete
<1> QED BY <1>1, DiscoveryInvariant, PTL

\* "truncated" is shown exactly when a device that answered is not.
THEOREM TruncationAlwaysReported == Spec => []TruncationIsReported
<1>1. DiscoveryInv => TruncationIsReported
  BY DEF DiscoveryInv, ReportOf, TruncationIsReported
<1> QED BY <1>1, DiscoveryInvariant, PTL

-----------------------------------------------------------------------------
(***************************************************************************)
(* The choice of a target                                                  *)
(***************************************************************************)
Saving == {"saveIp", "savePort", "saveId", "saveName", "hand over"}

\* How far a save has got, and what it is to end in.
SaveInv ==
    /\ web \in Steps
    /\ web \in Saving => ~settled
    /\ web \in Saving \ {"saveIp"} => nvs.ip = Target.ip
    /\ web \in {"saveId", "saveName", "hand over"} => nvs.port = Target.port
    /\ web \in {"saveName", "hand over"} => nvs.id = Target.id
    /\ settled => /\ s_target = Target
                  /\ nvs.ip = Target.ip /\ nvs.port = Target.port
                  /\ nvs.id = Target.id

\* Where a pass and its adoption stand.
AdoptInv ==
    /\ adopted => ~discovering /\ web # "waiting"
    /\ adopted /\ web = "adopt" =>
         DiscoveredDevices # <<>> /\ Head(DiscoveredDevices) \in report.heard
    /\ adopted /\ web # "adopt" => \E d \in report.heard : Target = TargetOf(d)

TargetInv ==
    /\ DiscoveryInv
    /\ TargetTypeOK
    /\ SaveInv
    /\ AdoptInv
    /\ ConfirmedNameIsOfTheTarget

-----------------------------------------------------------------------------
(***************************************************************************)
(* Discovery                                                               *)
(***************************************************************************)
LEMMA StepIsDiscovery == [TargetNext]_<<vars, targetVars>> => [Next]_vars
BY DEF TargetNext, Discover, DiscoveryRefused, DiscoveryEnds,
       DiscoveryGivesUp, Adopt, Enter, IAm, SaveIp, SavePort, SaveId,
       SaveName, SaveFails, HandOver, Restart, Next

\* To the worker's list a choice of targets is nothing but passes, I-Ams and
\* restarts.
THEOREM TargetChoiceIsDiscovery == TargetSpec => Spec
<1>1. TargetInit => Init
  BY DEF TargetInit
<1> QED BY <1>1, StepIsDiscovery, PTL DEF TargetSpec, Spec

-----------------------------------------------------------------------------
(***************************************************************************)
(* The invariant                                                           *)
(***************************************************************************)
LEMMA TargetInvInit == TargetInit => TargetInv
<1> SUFFICES ASSUME TargetInit PROVE TargetInv
  OBVIOUS
<1>1. DiscoveryInv
  BY InvInit DEF TargetInit
<1>2. PICK d \in Announcers : /\ Target = TargetOf(d)
           /\ nvs = [ip |-> d, port |-> d, id |-> d, name |-> None]
  BY DEF TargetInit
<1>3. SaveInv
  BY <1>2 DEF TargetInit, TargetOf, SaveInv, Steps, Saving
<1>4. AdoptInv /\ ConfirmedNameIsOfTheTarget
  BY DEF TargetInit, AdoptInv, ConfirmedNameIsOfTheTarget
<1>5. DiscoveredDevices \in Seq(Announcers) /\ Len(DiscoveredDevices) <= MaxDevs
  BY DiscoveryAssumption DEF TargetInit
<1>6. used \in [choices : 0 .. MaxChoices, faults : 0 .. MaxFaults, restarts : Nat]
  BY TargetAssumption DEF TargetInit
<1>7. /\ Target \in Targets
      /\ s_target \in Targets
      /\ nvs \in [ip : Announcers, port : Announcers, id : Announcers,
                  name : Announcers \cup {None}]
  BY <1>2 DEF TargetInit, TargetOf, Targets
<1>8. TypeOK
  BY <1>1 DEF DiscoveryInv
<1>9. TargetTypeOK
  BY <1>5, <1>6, <1>7, <1>8 DEF TargetInit, TargetTypeOK, Steps
<1> QED BY <1>1, <1>3, <1>4, <1>9 DEF TargetInv

LEMMA TargetInvDiscover ==
    ASSUME TargetInv, Discover \/ DiscoveryRefused, DiscoveryInv'
    PROVE  TargetInv'
<1>1. /\ web = "idle" /\ adopted' = FALSE
      /\ UNCHANGED <<Target, TargetDeviceName, DiscoveredDevices, nvs, s_target,
                     settled>>
      /\ web' \in {"waiting", "adopt"}
      /\ used.choices < MaxChoices /\ used' = [used EXCEPT !.choices = @ + 1]
  BY DEF Discover, DiscoveryRefused, Chooses, chosen, stored
<1>2. used' \in [choices : 0 .. MaxChoices, faults : 0 .. MaxFaults, restarts : Nat]
      /\ used'.restarts = used.restarts
  <2>1. used \in [choices : 0 .. MaxChoices, faults : 0 .. MaxFaults, restarts : Nat]
    BY DEF TargetInv, TargetTypeOK
  <2> QED BY <1>1, <2>1, TargetAssumption
<1>3. TargetTypeOK'
  <2>1. TypeOK'
    BY DEF DiscoveryInv
  <2>2. web' \in Steps /\ adopted' \in BOOLEAN
    BY <1>1 DEF Steps
  <2> QED BY <1>1, <1>2, <2>1, <2>2 DEF TargetInv, TargetTypeOK
<1>4. SaveInv' /\ AdoptInv'
  BY <1>1 DEF TargetInv, SaveInv, AdoptInv, Steps, Saving
<1> QED BY <1>1, <1>2, <1>3, <1>4
        DEF TargetInv, ConfirmedNameIsOfTheTarget

LEMMA TargetInvEnds ==
    ASSUME TargetInv, DiscoveryEnds, DiscoveryInv'
    PROVE  TargetInv'
<1>1. discovering /\ discovering' = FALSE /\ adopted = FALSE
  BY DEF DiscoveryEnds, FinishDiscovery, TargetInv, AdoptInv, DiscoveryInv,
         TypeOK, TargetTypeOK
<1>2. report'.devs \in Seq(Announcers) /\ Len(report'.devs) <= MaxDevs
      /\ Range(report'.devs) \subseteq report'.heard
  BY DEF DiscoveryInv, ReportOf
<1>3. report'.devs # <<>> => Head(report'.devs) \in report'.heard
  BY <1>2 DEF Range
<1>4. UNCHANGED <<chosen, stored, settled, used>>
  BY DEF DiscoveryEnds
<1>5. CASE web = "waiting"
  <2>1. /\ DiscoveredDevices' = report'.devs
        /\ web' = "adopt"
        /\ adopted' = (report'.devs # <<>>)
    BY <1>5 DEF DiscoveryEnds
  <2>2. TargetTypeOK'
    BY <1>2, <1>4, <2>1
       DEF TargetInv, TargetTypeOK, Steps, DiscoveryInv, chosen, stored
  <2> QED BY <1>1, <1>3, <1>4, <2>1, <2>2
          DEF TargetInv, SaveInv, AdoptInv, ConfirmedNameIsOfTheTarget,
              chosen, stored, Steps, Saving
<1>6. CASE web # "waiting"
  <2>1. UNCHANGED <<DiscoveredDevices, web, adopted>>
    BY <1>6 DEF DiscoveryEnds
  <2>2. TargetTypeOK'
    BY <1>4, <2>1
       DEF TargetInv, TargetTypeOK, Steps, DiscoveryInv, chosen, stored
  <2> QED BY <1>1, <1>4, <2>1, <2>2
          DEF TargetInv, SaveInv, AdoptInv, ConfirmedNameIsOfTheTarget,
              chosen, stored, Steps, Saving
<1> QED BY <1>5, <1>6

LEMMA TargetInvAdopt ==
    ASSUME TargetInv, Adopt, DiscoveryInv'
    PROVE  TargetInv'
<1>1. CASE DiscoveredDevices = <<>>
  <2>1. /\ web = "adopt" /\ web' = "idle"
        /\ UNCHANGED <<vars, chosen, settled, DiscoveredDevices, stored, adopted,
                       used>>
    BY <1>1 DEF Adopt
  <2>2. TypeOK'
    BY DEF DiscoveryInv
  <2>3. TargetTypeOK'
    BY <2>1, <2>2 DEF TargetInv, TargetTypeOK, chosen, stored, Steps
  <2>4. ~adopted
    BY <1>1, <2>1 DEF TargetInv, AdoptInv
  <2>5. SaveInv' /\ AdoptInv'
    BY <2>1, <2>4 DEF TargetInv, SaveInv, AdoptInv, chosen, stored, Steps, Saving
  <2>6. ConfirmedNameIsOfTheTarget'
    BY <2>1 DEF TargetInv, ConfirmedNameIsOfTheTarget, chosen
  <2> QED BY <2>3, <2>5, <2>6 DEF TargetInv
<1>2. CASE DiscoveredDevices # <<>>
  <2> DEFINE d == Head(DiscoveredDevices)
  <2>1. d \in Announcers
    BY <1>2 DEF TargetInv, TargetTypeOK
  <2>2. /\ Target' = TargetOf(d) /\ TargetDeviceName' = d
        /\ web' = "saveIp" /\ settled' = FALSE /\ web = "adopt"
        /\ UNCHANGED <<vars, DiscoveredDevices, stored, adopted, used>>
    BY <1>2 DEF Adopt
  <2>3. adopted => d \in report.heard
    BY <2>2 DEF TargetInv, AdoptInv
  <2> HIDE DEF d
  <2>4. Target' \in Targets /\ Target'.ip = d
    BY <2>1, <2>2 DEF TargetOf, Targets
  <2>5. TargetTypeOK'
    BY <2>1, <2>2, <2>4 DEF TargetInv, TargetTypeOK, vars, stored, Steps, TypeOK
  <2>6. SaveInv' /\ AdoptInv'
    BY <2>2, <2>3 DEF TargetInv, SaveInv, AdoptInv, vars, stored, Steps, Saving
  <2>7. ConfirmedNameIsOfTheTarget'
    BY <2>2, <2>4 DEF ConfirmedNameIsOfTheTarget
  <2> QED BY <2>5, <2>6, <2>7 DEF TargetInv
<1> QED BY <1>1, <1>2

LEMMA TargetInvEnter ==
    ASSUME TargetInv, NEW given \in Entries, Enter(given), DiscoveryInv'
    PROVE  TargetInv'
<1>1. /\ web = "idle" /\ web' = "saveIp" /\ settled' = FALSE /\ adopted' = FALSE
      /\ UNCHANGED <<vars, DiscoveredDevices, nvs, s_target>>
      /\ used.choices < MaxChoices /\ used' = [used EXCEPT !.choices = @ + 1]
  BY DEF Enter, Chooses, stored
<1>2. /\ used' \in [choices : 0 .. MaxChoices, faults : 0 .. MaxFaults,
                   restarts : Nat]
      /\ used'.restarts = used.restarts
  <2>1. used \in [choices : 0 .. MaxChoices, faults : 0 .. MaxFaults,
                 restarts : Nat]
    BY DEF TargetInv, TargetTypeOK
  <2> QED BY <1>1, <2>1, TargetAssumption
<1>3. Target' \in Targets
  <2>1. /\ Taken(given.ip, Target.ip) \in Announcers
        /\ Taken(given.port, Target.port) \in Announcers
        /\ Taken(given.id, Target.id) \in Announcers
    BY DEF Entries, Taken, TargetInv, TargetTypeOK, Targets
  <2> QED BY <2>1 DEF Enter, Targets
<1>4. \/ given.ip = None /\ TargetDeviceName' = TargetDeviceName
         /\ Target'.ip = Target.ip
      \/ TargetDeviceName' = None
  BY DEF Enter, Taken, Unconfirmed
<1>5. ConfirmedNameIsOfTheTarget'
  BY <1>2, <1>4 DEF TargetInv, ConfirmedNameIsOfTheTarget
<1>6. TargetTypeOK'
  <2>1. TargetDeviceName' \in Announcers \cup {None}
    BY <1>4 DEF TargetInv, TargetTypeOK
  <2> QED BY <1>1, <1>2, <1>3, <2>1 DEF TargetInv, TargetTypeOK, Steps, DiscoveryInv
<1>7. SaveInv' /\ AdoptInv'
  BY <1>1 DEF TargetInv, SaveInv, AdoptInv, Steps, Saving, vars
<1> QED BY <1>5, <1>6, <1>7 DEF TargetInv

LEMMA TargetInvSave ==
    ASSUME TargetInv, DiscoveryInv',
           SaveIp \/ SavePort \/ SaveId \/ SaveName \/ HandOver
    PROVE  TargetInv'
<1>1. /\ UNCHANGED <<vars, chosen, DiscoveredDevices, adopted, used>>
      /\ web \in Saving /\ web' \in {"savePort", "saveId", "saveName", "hand over",
                                  "idle"}
  BY DEF SaveIp, SavePort, SaveId, SaveName, HandOver, Saving, history
<1>2. TargetTypeOK'
  <2>1. s_target' \in Targets /\ settled' \in BOOLEAN
    BY DEF SaveIp, SavePort, SaveId, SaveName, HandOver, WorkerTakesTarget,
           TargetInv, TargetTypeOK, history
  <2>3. nvs \in [ip : Announcers, port : Announcers, id : Announcers,
                name : Announcers \cup {None}]
        /\ Target \in Targets /\ TargetDeviceName \in Announcers \cup {None}
    BY DEF TargetInv, TargetTypeOK
  <2>4. \/ \E v \in Announcers : \/ nvs' = [nvs EXCEPT !.ip = v]
                               \/ nvs' = [nvs EXCEPT !.port = v]
                               \/ nvs' = [nvs EXCEPT !.id = v]
        \/ nvs' = [nvs EXCEPT !.name = TargetDeviceName]
        \/ nvs' = nvs
    BY <2>3 DEF SaveIp, SavePort, SaveId, SaveName, HandOver, Targets
  <2>2. nvs' \in [ip : Announcers, port : Announcers, id : Announcers,
                 name : Announcers \cup {None}]
    BY <2>3, <2>4
  <2> QED BY <1>1, <2>1, <2>2
          DEF TargetInv, TargetTypeOK, Steps, DiscoveryInv, chosen
<1>3. SaveInv'
  <2>1. UNCHANGED Target
    BY <1>1 DEF chosen
  <2>2. CASE SaveIp
    <3>1. nvs'.ip = Target.ip /\ ~settled' /\ web' = "savePort"
      BY <1>1, <2>2 DEF SaveIp, TargetInv, TargetTypeOK, SaveInv, history
    <3> QED BY <1>1, <2>1, <3>1 DEF TargetInv, SaveInv, Saving, Steps
  <2>6. CASE SavePort
    <3>1. /\ nvs'.ip = nvs.ip /\ nvs'.port = Target.port
          /\ web = "savePort" /\ web' = "saveId" /\ ~settled'
      BY <1>1, <2>6 DEF SavePort, TargetInv, TargetTypeOK, SaveInv, history
    <3> QED BY <1>1, <2>1, <3>1 DEF TargetInv, SaveInv, Saving, Steps
  <2>3. CASE SaveId
    <3>1. /\ nvs'.ip = nvs.ip /\ nvs'.port = nvs.port /\ nvs'.id = Target.id
          /\ web = "saveId" /\ ~settled'
      BY <1>1, <2>3 DEF SaveId, TargetInv, TargetTypeOK, SaveInv, history
    <3> QED BY <1>1, <2>1, <3>1 DEF TargetInv, SaveInv, Saving, Steps
  <2>4. CASE SaveName
    <3>1. /\ nvs'.ip = nvs.ip /\ nvs'.port = nvs.port /\ nvs'.id = nvs.id
          /\ web = "saveName" /\ ~settled'
      BY <1>1, <2>4 DEF SaveName, TargetInv, TargetTypeOK, SaveInv, history
    <3> QED BY <1>1, <2>1, <3>1 DEF TargetInv, SaveInv, Saving, Steps
  <2>5. CASE HandOver
    <3>1. /\ UNCHANGED nvs /\ s_target' = Target
          /\ web = "hand over" /\ web' = "idle" /\ settled'
      BY <2>5 DEF HandOver, WorkerTakesTarget
    <3> QED BY <1>1, <2>1, <3>1 DEF TargetInv, SaveInv, Saving, Steps
  <2> QED BY <2>2, <2>3, <2>4, <2>5, <2>6
<1> QED BY <1>1, <1>2, <1>3
        DEF TargetInv, AdoptInv, ConfirmedNameIsOfTheTarget, chosen, vars, Saving

LEMMA TargetInvSaveFails ==
    ASSUME TargetInv, DiscoveryInv', SaveFails
    PROVE  TargetInv'
<1>1. /\ web \in Saving /\ web' = "idle"
      /\ used.faults < MaxFaults /\ used' = [used EXCEPT !.faults = @ + 1]
      /\ UNCHANGED <<vars, chosen, DiscoveredDevices, stored, history>>
  BY DEF SaveFails, Fault, Saving
<1>2. used' \in [choices : 0 .. MaxChoices, faults : 0 .. MaxFaults, restarts : Nat]
      /\ used'.restarts = used.restarts
  <2>1. used \in [choices : 0 .. MaxChoices, faults : 0 .. MaxFaults, restarts : Nat]
    BY DEF TargetInv, TargetTypeOK
  <2> QED BY <1>1, <2>1, TargetAssumption
<1>3. TargetTypeOK'
  BY <1>1, <1>2 DEF TargetInv, TargetTypeOK, Steps, DiscoveryInv, chosen, stored,
                    history
<1> QED BY <1>1, <1>2, <1>3
        DEF TargetInv, SaveInv, AdoptInv, ConfirmedNameIsOfTheTarget, Steps,
            Saving, vars, chosen, stored, history

LEMMA TargetInvGivesUp ==
    ASSUME TargetInv, DiscoveryInv', DiscoveryGivesUp
    PROVE  TargetInv'
BY DEF DiscoveryGivesUp, TargetInv, TargetTypeOK, SaveInv, AdoptInv, Steps,
       ConfirmedNameIsOfTheTarget, Saving, vars, chosen, stored, history,
       DiscoveryInv

LEMMA TargetInvIAm ==
    ASSUME TargetInv, DiscoveryInv', NEW d \in Announcers, IAm(d)
    PROVE  TargetInv'
<1>1. UNCHANGED targetVars /\ UNCHANGED <<discovering, report>>
  BY DEF IAm, ReceiveIAm
<1> QED BY <1>1 DEF targetVars, TargetInv, TargetTypeOK, SaveInv, AdoptInv, Steps,
       ConfirmedNameIsOfTheTarget, Saving, chosen, stored, history, DiscoveryInv

LEMMA TargetInvRestart ==
    ASSUME TargetInv, DiscoveryInv', Restart
    PROVE  TargetInv'
<1>1. /\ Target' = [ip |-> nvs.ip, port |-> nvs.port, id |-> nvs.id]
      /\ s_target' = Target'
      /\ TargetDeviceName' = nvs.name /\ DiscoveredDevices' = <<>>
      /\ web' = "idle" /\ adopted' = FALSE /\ UNCHANGED <<nvs, settled>>
      /\ used.faults < MaxFaults
      /\ used' = [used EXCEPT !.faults = @ + 1, !.restarts = @ + 1]
  BY DEF Restart, Restarts
<1>2. used' \in [choices : 0 .. MaxChoices, faults : 0 .. MaxFaults, restarts : Nat]
      /\ used'.restarts # 0
  <2>1. used \in [choices : 0 .. MaxChoices, faults : 0 .. MaxFaults, restarts : Nat]
    BY DEF TargetInv, TargetTypeOK
  <2>2. /\ used.faults \in 0 .. MaxFaults /\ used.restarts \in Nat
        /\ used.faults + 1 \in 0 .. MaxFaults
        /\ used.restarts + 1 \in Nat /\ used.restarts + 1 # 0
    BY <1>1, <2>1, TargetAssumption
  <2>3. used' = [choices |-> used.choices, faults |-> used.faults + 1,
                 restarts |-> used.restarts + 1]
    BY <1>1, <2>1
  <2> QED BY <2>1, <2>2, <2>3
<1>3. <<>> \in Seq(Announcers) /\ Len(<<>>) <= MaxDevs
  BY DiscoveryAssumption
<1>4. TargetTypeOK'
  BY <1>1, <1>2, <1>3 DEF TargetInv, TargetTypeOK, Targets, Steps, DiscoveryInv
<1>5. SaveInv'
  BY <1>1 DEF TargetInv, TargetTypeOK, Targets, SaveInv, Saving, Steps
<1> QED BY <1>1, <1>2, <1>4, <1>5
        DEF TargetInv, AdoptInv, ConfirmedNameIsOfTheTarget

LEMMA TargetInvNext ==
    TargetInv /\ [TargetNext]_<<vars, targetVars>> => TargetInv'
<1> SUFFICES ASSUME TargetInv, [TargetNext]_<<vars, targetVars>>
             PROVE  TargetInv'
  OBVIOUS
<1>1. DiscoveryInv'
  BY StepIsDiscovery, InvNext DEF TargetInv
<1>2. CASE Discover \/ DiscoveryRefused
  BY <1>1, <1>2, TargetInvDiscover
<1>3. CASE DiscoveryEnds
  BY <1>1, <1>3, TargetInvEnds
<1>4. CASE DiscoveryGivesUp
  BY <1>1, <1>4, TargetInvGivesUp
<1>5. CASE Adopt
  BY <1>1, <1>5, TargetInvAdopt
<1>6. ASSUME NEW d \in Announcers, IAm(d) PROVE TargetInv'
  BY <1>1, <1>6, TargetInvIAm
<1>11. ASSUME NEW given \in Entries, Enter(given) PROVE TargetInv'
  BY <1>1, <1>11, TargetInvEnter
<1>7. CASE SaveIp \/ SavePort \/ SaveId \/ SaveName \/ HandOver
  BY <1>1, <1>7, TargetInvSave
<1>8. CASE SaveFails
  BY <1>1, <1>8, TargetInvSaveFails
<1>9. CASE Restart
  BY <1>1, <1>9, TargetInvRestart
<1>10. CASE UNCHANGED <<vars, targetVars>>
  BY <1>1, <1>10 DEF vars, targetVars, TargetInv, TargetTypeOK, SaveInv, AdoptInv,
       Steps, ConfirmedNameIsOfTheTarget, Saving, chosen, stored, history,
       DiscoveryInv
<1> QED BY <1>2, <1>3, <1>4, <1>5, <1>6, <1>7, <1>8, <1>9, <1>10, <1>11
       DEF TargetNext

\* What is saved, used and shown agrees step by step: the invariant the
\* theorems below follow from, for any devices and any number of choices,
\* failed writes and restarts.
THEOREM TargetInvariant == TargetSpec => []TargetInv
BY TargetInvInit, TargetInvNext, PTL DEF TargetSpec

\* What the choice of a target keeps has its type.
THEOREM TargetTypes == TargetSpec => []TargetTypeOK
<1>1. TargetInv => TargetTypeOK
  BY DEF TargetInv
<1> QED BY <1>1, TargetInvariant, PTL

\* After a save that ended well the server, NVS and the worker agree on the
\* target, whatever an entry left out and whatever failed or was cut off by a
\* restart before.
THEOREM SettledTargetIsAlwaysInUse == TargetSpec => []SettledTargetIsInUse
<1>1. TargetInv => SettledTargetIsInUse
  BY DEF TargetInv, SaveInv, SettledTargetIsInUse
<1> QED BY <1>1, TargetInvariant, PTL

\* The target that a discovery of its own made is one device, and that device
\* has answered in it.
THEOREM AdoptedDeviceHasAlwaysAnswered == TargetSpec => []AdoptedDeviceHasAnswered
<1>1. TargetInv => AdoptedDeviceHasAnswered
  BY DEF TargetInv, AdoptInv, AdoptedDeviceHasAnswered
<1> QED BY <1>1, TargetInvariant, PTL

\* Until the first restart no target has the confirmed name of a device at
\* another address, whichever fields of it were entered by hand.
THEOREM ConfirmedNameIsAlwaysOfTheTarget ==
    TargetSpec => []ConfirmedNameIsOfTheTarget
<1>1. TargetInv => ConfirmedNameIsOfTheTarget
  BY DEF TargetInv
<1> QED BY <1>1, TargetInvariant, PTL

\* What Discovery_proofs shows of a pass holds with the web server around it:
\* each report is complete ...
THEOREM ChoiceReportIsComplete == TargetSpec => []ReportIsComplete
BY TargetChoiceIsDiscovery, ReportAlwaysComplete, PTL

\* ... and says when devices are missing from it.
THEOREM ChoiceTruncationIsReported == TargetSpec => []TruncationIsReported
BY TargetChoiceIsDiscovery, TruncationAlwaysReported, PTL
=============================================================================
