--------------------------- MODULE ReadCache_proofs ---------------------------
(***************************************************************************)
(* The read cache keeps one entry per point, serves no value older than    *)
(* its lifetime and the time of its read, and evicts only the oldest entry *)
(* of a full cache, for any number of tasks, points and entries.           *)
(***************************************************************************)
EXTENDS ReadCache, TLAPS, WellFoundedInduction

\* Of an entry in use: it was sampled before it was put, and not long before.
EntriesAreDated ==
    \A i \in InUse :
      LET e == s_bacnet_cache[i]
      IN /\ e.sampled <= e.stamp /\ e.stamp <= now
         /\ e.stamp <= e.sampled + MaxHold

\* The same of an answer that is on its way to the cache, and if the point has
\* been written since, this is known.
AnswersAreDated ==
    \A t \in Tasks :
      LET c == calls[t]
      IN c.phase = "sampled" =>
           /\ c.sampled <= now /\ now <= c.sampled + MaxHold
           /\ c.value < acked[c.point] => c.raced

CallsNameTheirPoint ==
    \A t \in Tasks : calls[t].phase # "idle" => calls[t].point \in Points

CacheInv ==
    /\ TypeOK
    /\ OneEntryPerPoint
    /\ OldValueOnlyFromOverlappingRead
    /\ EntriesAreDated
    /\ AnswersAreDated
    /\ CallsNameTheirPoint
    /\ \A p \in Points : acked[p] <= device[p]

-----------------------------------------------------------------------------
(***************************************************************************)
(* The slot a put takes                                                    *)
(***************************************************************************)

LEMMA LeastExists ==
    ASSUME NEW S, S \subseteq Nat, S # {}
    PROVE  \E i \in S : \A j \in S : i <= j
<1>1. PICK i \in S : \A j \in S : ~ (<<j, i>> \in OpToRel(<, Nat))
  BY NatLessThanWellFounded, WFMin
<1>2. \A j \in S : ~ (j < i)
  BY <1>1 DEF OpToRel
<1> QED BY <1>2

LEMMA FirstIsIn ==
    ASSUME NEW S, S \subseteq Nat, S # {}
    PROVE  First(S) \in S
BY LeastExists DEF First

LEMMA SomeSlotIsOldest ==
    ASSUME TypeOK
    PROVE  OldestSlots # {}
<1> DEFINE stamps == {s_bacnet_cache[i].stamp : i \in Slots}
<1>1. 1 \in Slots
  BY CacheAssumption DEF Slots
<1>2. \A i \in Slots : s_bacnet_cache[i].stamp \in Nat
  BY DEF TypeOK, Entry, Times
<1>3. stamps \subseteq Nat /\ stamps # {}
  BY <1>1, <1>2
<1>4. PICK s \in stamps : \A u \in stamps : s <= u
  BY <1>3, LeastExists
<1>5. PICK i \in Slots : s = s_bacnet_cache[i].stamp
  OBVIOUS
<1>6. \A j \in Slots : s_bacnet_cache[i].stamp <= s_bacnet_cache[j].stamp
  BY <1>4, <1>5
<1> QED BY <1>6 DEF OldestSlots

\* A put takes the slot of its point; if there is none, a free one; if there
\* is none, an oldest.
LEMMA SlotChoice ==
    ASSUME TypeOK, NEW p \in Points
    PROVE  /\ Slot(p) \in Slots
           /\ Find(p) # {} => Slot(p) \in Find(p)
           /\ Find(p) = {} /\ Find(NoPoint) # {} => Slot(p) \in Find(NoPoint)
           /\ Find(p) = {} /\ Find(NoPoint) = {} => Slot(p) \in OldestSlots
<1>1. /\ Find(p) \subseteq Slots /\ Find(NoPoint) \subseteq Slots
      /\ OldestSlots \subseteq Slots /\ Slots \subseteq Nat
  BY DEF Find, OldestSlots, Slots
<1>2. CASE Find(p) # {}
  BY <1>1, <1>2, FirstIsIn DEF Slot
<1>3. CASE Find(p) = {} /\ Find(NoPoint) # {}
  BY <1>1, <1>3, FirstIsIn DEF Slot
<1>4. CASE Find(p) = {} /\ Find(NoPoint) = {}
  BY <1>1, <1>4, FirstIsIn, SomeSlotIsOldest DEF Slot
<1> QED BY <1>2, <1>3, <1>4

\* What a put changes: one slot, which was the point's if the point had one.
LEMMA PutChanges ==
    ASSUME TypeOK, OneEntryPerPoint, NEW p \in Points, NEW v \in Values,
           NEW s \in Times, NEW r \in BOOLEAN, Put(p, v, s, r)
    PROVE  \E k \in Slots :
             /\ s_bacnet_cache' \in [Slots -> Entry]
             /\ s_bacnet_cache'[k] = [point |-> p, value |-> v, stamp |-> now,
                                      sampled |-> s, raced |-> r]
             /\ \A i \in Slots \ {k} : /\ s_bacnet_cache'[i] = s_bacnet_cache[i]
                                       /\ s_bacnet_cache[i].point # p
             /\ \/ s_bacnet_cache[k].point \in {NoPoint, p}
                \/ Find(NoPoint) = {} /\ k \in OldestSlots
<1> DEFINE k == Slot(p)
           e == [point |-> p, value |-> v, stamp |-> now, sampled |-> s,
                 raced |-> r]
<1>1. k \in Slots
  BY SlotChoice
<1>2. e \in Entry
  BY DEF Entry, TypeOK
<1>3. s_bacnet_cache' = [s_bacnet_cache EXCEPT ![k] = e]
  BY DEF Put
<1>4. /\ s_bacnet_cache' \in [Slots -> Entry]
      /\ s_bacnet_cache'[k] = e
      /\ \A i \in Slots \ {k} : s_bacnet_cache'[i] = s_bacnet_cache[i]
  BY <1>1, <1>2, <1>3 DEF TypeOK
<1>5. ASSUME NEW i \in Slots \ {k} PROVE s_bacnet_cache[i].point # p
  <2> SUFFICES ASSUME s_bacnet_cache[i].point = p PROVE FALSE
    OBVIOUS
  <2>1. i \in Find(p)
    BY DEF Find
  <2>2. k \in Find(p)
    BY <2>1, SlotChoice
  <2>3. p # NoPoint
    BY CacheAssumption
  <2> QED BY <1>1, <2>2, <2>3 DEF OneEntryPerPoint, InUse, Find
<1>6. \/ s_bacnet_cache[k].point \in {NoPoint, p}
      \/ Find(NoPoint) = {} /\ k \in OldestSlots
  BY SlotChoice DEF Find
<1> QED BY <1>1, <1>4, <1>5, <1>6

\* What an invalidation changes: no entry of the point is left.
LEMMA InvalidateChanges ==
    ASSUME TypeOK, OneEntryPerPoint, NEW p \in Points, Invalidate(p)
    PROVE  /\ s_bacnet_cache' \in [Slots -> Entry]
           /\ \A i \in Slots : /\ s_bacnet_cache[i].point = p
                                    => s_bacnet_cache'[i].point = NoPoint
                               /\ s_bacnet_cache[i].point # p
                                    => s_bacnet_cache'[i] = s_bacnet_cache[i]
<1>1. CASE Find(p) = {}
  BY <1>1 DEF Invalidate, Find, TypeOK
<1>2. CASE Find(p) # {}
  <2> DEFINE k == First(Find(p))
             e == [s_bacnet_cache[k] EXCEPT !.point = NoPoint, !.stamp = 0]
  <2>1. k \in Find(p)
    BY <1>2, FirstIsIn DEF Find, Slots
  <2>2. k \in Slots /\ s_bacnet_cache[k].point = p
    BY <2>1 DEF Find
  <2>3. s_bacnet_cache[k] \in Entry /\ 0 \in Times
    BY <2>2, CacheAssumption DEF TypeOK, Times
  <2> HIDE DEF k
  <2>4. e \in Entry /\ e.point = NoPoint
    BY <2>3 DEF Entry
  <2>5. s_bacnet_cache' = [s_bacnet_cache EXCEPT ![k] = e]
    BY <1>2, <2>2 DEF Invalidate, k, TypeOK
  <2>6. \A i \in Slots : s_bacnet_cache[i].point = p => i = k
    BY <2>2, CacheAssumption DEF OneEntryPerPoint, InUse
  <2> HIDE DEF e
  <2> QED BY <2>2, <2>4, <2>5, <2>6 DEF TypeOK
<1> QED BY <1>1, <1>2

-----------------------------------------------------------------------------
(***************************************************************************)
(* The invariant                                                           *)
(***************************************************************************)
LEMMA CacheInvInit == Init => CacheInv
<1> SUFFICES ASSUME Init PROVE CacheInv
  OBVIOUS
<1>1. 0 \in Values /\ 0 \in Times /\ 1 \in Times /\ NoPoint \notin Points
  BY CacheAssumption DEF Values, Times
<1>2. NoEntry \in Entry /\ NoCall \in Call
  BY <1>1 DEF NoEntry, NoCall, Entry, Call, Phases
<1>3. TypeOK
  BY <1>1, <1>2 DEF Init, TypeOK
<1>4. InUse = {}
  BY DEF Init, InUse, NoEntry
<1>5. \A t \in Tasks : calls[t].phase = "idle"
  BY DEF Init, NoCall
<1> QED BY <1>1, <1>3, <1>4, <1>5
        DEF CacheInv, OneEntryPerPoint, OldValueOnlyFromOverlappingRead,
            EntriesAreDated, AnswersAreDated, CallsNameTheirPoint, Init

\* An action that leaves the cache, the clock and the acknowledged writes
\* alone disturbs only what is said of calls.
LEMMA CallStep ==
    ASSUME CacheInv, NEW t \in Tasks, NEW c \in Call,
           calls' = [calls EXCEPT ![t] = c],
           UNCHANGED <<s_bacnet_cache, now, acked>>,
           device' \in [Points -> Values], worker' \in {"idle", "busy"},
           \A p \in Points : device[p] <= device'[p],
           c.phase # "idle" => c.point \in Points,
           c.phase = "sampled" =>
             /\ c.sampled <= now /\ now <= c.sampled + MaxHold
             /\ c.value < acked[c.point] => c.raced
    PROVE  CacheInv'
<1>1. TypeOK'
  BY DEF CacheInv, TypeOK
<1>2. /\ calls'[t] = c
      /\ \A u \in Tasks \ {t} : calls'[u] = calls[u]
  BY DEF CacheInv, TypeOK
<1>3. AnswersAreDated' /\ CallsNameTheirPoint'
  BY <1>2 DEF CacheInv, AnswersAreDated, CallsNameTheirPoint
<1>4. OneEntryPerPoint' /\ OldValueOnlyFromOverlappingRead' /\ EntriesAreDated'
  BY DEF CacheInv, OneEntryPerPoint, OldValueOnlyFromOverlappingRead,
         EntriesAreDated, InUse
<1>5. \A p \in Points : acked'[p] <= device'[p]
  <2> TAKE p \in Points
  <2>1. acked[p] <= device[p] /\ device[p] <= device'[p]
    BY DEF CacheInv
  <2>2. acked[p] \in Int /\ device[p] \in Int /\ device'[p] \in Int
    BY DEF CacheInv, TypeOK, Values
  <2> QED BY <2>1, <2>2
<1> QED BY <1>1, <1>3, <1>4, <1>5 DEF CacheInv

LEMMA NoCallIsCall == NoCall \in Call /\ NoCall.phase = "idle"
BY CacheAssumption DEF NoCall, Call, Phases, Values, Times

\* A call begins, fails, or has the device execute its request.
LEMMA CacheInvCalls ==
    ASSUME CacheInv, NEW t \in Tasks,
           \/ \E p \in Points : ReadMisses(t, p) \/ Write(t, p)
           \/ ReadFails(t) \/ Apply(t) \/ AcknowledgementLost(t) \/ WriteFails(t)
    PROVE  CacheInv'
<1>1. UNCHANGED <<s_bacnet_cache, now, acked>>
  BY DEF ReadMisses, Write, ReadFails, Apply, AcknowledgementLost, WriteFails
<1>2. /\ TypeOK /\ calls[t] \in Call
      /\ calls[t].phase # "idle" => calls[t].point \in Points
  BY DEF CacheInv, TypeOK, CallsNameTheirPoint
<1>3. CASE ReadFails(t) \/ AcknowledgementLost(t) \/ WriteFails(t)
  <2>1. /\ calls' = [calls EXCEPT ![t] = NoCall]
        /\ device' = device /\ worker' \in {"idle", "busy"}
    BY <1>2, <1>3 DEF ReadFails, AcknowledgementLost, WriteFails, TypeOK
  <2>2. \A p \in Points : device[p] <= device'[p]
    BY <1>2, <2>1 DEF TypeOK, Values
  <2> QED BY <1>1, <1>2, <2>1, <2>2, NoCallIsCall, CallStep DEF TypeOK
<1>4. ASSUME NEW p \in Points, ReadMisses(t, p) \/ Write(t, p) PROVE CacheInv'
  <2>1. PICK c : /\ calls' = [calls EXCEPT ![t] = c]
                 /\ \/ c = [NoCall EXCEPT !.phase = "reading", !.point = p]
                    \/ c = [NoCall EXCEPT !.phase = "writing", !.point = p]
    BY <1>4 DEF ReadMisses, Write
  <2>2. c \in Call /\ c.phase # "sampled" /\ c.point = p
    <3>1. PICK ph \in {"reading", "writing"} :
            c = [phase |-> ph, point |-> p, value |-> 0, sampled |-> 0,
                 raced |-> FALSE]
      BY <2>1 DEF NoCall
    <3> QED BY <3>1, CacheAssumption DEF Call, Phases, Values, Times
  <2>3. UNCHANGED <<device, worker>>
    BY <1>4 DEF ReadMisses, Write
  <2>4. \A q \in Points : device[q] <= device'[q]
    BY <1>2, <2>3 DEF TypeOK, Values
  <2> QED BY <1>1, <1>2, <2>1, <2>2, <2>3, <2>4, CallStep DEF TypeOK
<1>5. CASE Apply(t)
  <2> DEFINE c == [calls[t] EXCEPT !.phase = "applied"]
             p == calls[t].point
  <2>1. p \in Points /\ device[p] < MaxWrites
    BY <1>2, <1>5 DEF Apply
  <2>2. calls' = [calls EXCEPT ![t] = c]
    BY <1>2, <1>5 DEF Apply, TypeOK
  <2>3. c \in Call /\ c.phase = "applied" /\ c.point = p
    BY <1>2 DEF Call, Phases
  <2>4. device' = [device EXCEPT ![p] = @ + 1] /\ worker' = "busy"
    BY <1>5 DEF Apply
  <2>5. \A q \in Points : device[q] \in 0 .. MaxWrites
    BY <1>2 DEF TypeOK, Values
  <2>6. \A q \in Points : /\ device'[q] = IF q = p THEN device[q] + 1 ELSE device[q]
                          /\ device'[q] \in Values /\ device[q] <= device'[q]
    BY <1>2, <2>1, <2>4, <2>5, CacheAssumption DEF TypeOK, Values
  <2>7. device' \in [Points -> Values]
    BY <1>2, <2>4, <2>6 DEF TypeOK
  <2> HIDE DEF c
  <2> QED BY <1>1, <2>1, <2>2, <2>3, <2>4, <2>6, <2>7, CallStep
<1> QED BY <1>3, <1>4, <1>5

LEMMA CacheInvSample ==
    ASSUME CacheInv, NEW t \in Tasks, Sample(t)
    PROVE  CacheInv'
<1> DEFINE p == calls[t].point
           c == [calls[t] EXCEPT !.phase = "sampled", !.value = device[p],
                                 !.sampled = now]
<1>1. TypeOK /\ calls[t] \in Call /\ p \in Points
  BY DEF CacheInv, TypeOK, CallsNameTheirPoint, Sample
<1>2. device[p] \in Values /\ now \in Times /\ acked[p] <= device[p]
      /\ acked[p] \in Values
  BY <1>1 DEF CacheInv, TypeOK
<1>3. c \in Call /\ c.phase = "sampled" /\ c.point = p /\ c.sampled = now
      /\ c.value = device[p]
  BY <1>1, <1>2 DEF Call, Phases
<1>4. calls' = [calls EXCEPT ![t] = c]
  BY <1>1 DEF Sample, TypeOK
<1>5. UNCHANGED <<s_bacnet_cache, device, worker, now, acked>>
  BY DEF Sample
<1>6. now <= now + MaxHold /\ ~ (device[p] < acked[p])
  BY <1>2, CacheAssumption DEF Times, Values
<1>7. \A q \in Points : device[q] <= device'[q]
  BY <1>1, <1>5 DEF TypeOK, Values
<1>8. /\ device' \in [Points -> Values] /\ worker' \in {"idle", "busy"}
      /\ c.sampled <= now /\ now <= c.sampled + MaxHold
      /\ ~ (c.value < acked[c.point])
  <2>1. now <= now
    BY <1>2 DEF Times
  <2> QED BY <1>1, <1>3, <1>5, <1>6, <2>1 DEF TypeOK
<1> HIDE DEF c, p
<1> QED BY <1>1, <1>3, <1>4, <1>5, <1>7, <1>8, CallStep

LEMMA CacheInvReturns ==
    ASSUME CacheInv, NEW t \in Tasks, ReadReturns(t)
    PROVE  CacheInv'
<1> DEFINE c == calls[t]
<1>1. /\ TypeOK /\ OneEntryPerPoint /\ c \in Call /\ c.phase = "sampled"
      /\ c.point \in Points
      /\ c.sampled <= now /\ now <= c.sampled + MaxHold
      /\ c.value < acked[c.point] => c.raced
  BY DEF CacheInv, TypeOK, CallsNameTheirPoint, AnswersAreDated, ReadReturns
<1>2. c.value \in Values /\ c.sampled \in Times /\ c.raced \in BOOLEAN
  BY <1>1 DEF Call
<1>3. Put(c.point, c.value, c.sampled, c.raced)
  BY DEF ReadReturns
<1>4. UNCHANGED <<device, worker, now, acked>>
      /\ calls' = [calls EXCEPT ![t] = NoCall]
  BY DEF ReadReturns
<1> HIDE DEF c
<1>5. PICK k \in Slots :
        /\ s_bacnet_cache' \in [Slots -> Entry]
        /\ s_bacnet_cache'[k] = [point |-> c.point, value |-> c.value,
             stamp |-> now, sampled |-> c.sampled, raced |-> c.raced]
        /\ \A i \in Slots \ {k} : /\ s_bacnet_cache'[i] = s_bacnet_cache[i]
                                  /\ s_bacnet_cache[i].point # c.point
  BY <1>1, <1>2, <1>3, PutChanges
<1>6. TypeOK'
  BY <1>1, <1>4, <1>5, NoCallIsCall DEF TypeOK
<1>7. OneEntryPerPoint'
  BY <1>1, <1>5 DEF OneEntryPerPoint, InUse
<1>8. OldValueOnlyFromOverlappingRead'
  BY <1>1, <1>4, <1>5 DEF CacheInv, OldValueOnlyFromOverlappingRead, InUse
<1>9. EntriesAreDated'
  <2>1. now <= now
    BY <1>1 DEF TypeOK, Times
  <2> QED BY <1>1, <1>4, <1>5, <2>1 DEF CacheInv, EntriesAreDated, InUse
<1>10. AnswersAreDated' /\ CallsNameTheirPoint'
  BY <1>1, <1>4, NoCallIsCall
     DEF CacheInv, TypeOK, AnswersAreDated, CallsNameTheirPoint
<1> QED BY <1>4, <1>6, <1>7, <1>8, <1>9, <1>10 DEF CacheInv

LEMMA CacheInvAcknowledged ==
    ASSUME CacheInv, NEW t \in Tasks, WriteAcknowledged(t)
    PROVE  CacheInv'
<1> DEFINE p == calls[t].point
<1>1. TypeOK /\ OneEntryPerPoint /\ p \in Points
  BY DEF CacheInv, CallsNameTheirPoint, WriteAcknowledged
<1>2. Invalidate(p) /\ UNCHANGED <<device, now>> /\ worker' = "idle"
      /\ acked' = [acked EXCEPT ![p] = device[p]]
  BY DEF WriteAcknowledged
<1>3. \A u \in Tasks :
        calls'[u] = IF u = t THEN NoCall
                    ELSE IF calls[u].phase = "sampled" /\ calls[u].point = p
                      THEN [calls[u] EXCEPT !.raced = TRUE]
                    ELSE calls[u]
  BY DEF WriteAcknowledged
<1> HIDE DEF p
<1>4. /\ s_bacnet_cache' \in [Slots -> Entry]
      /\ \A i \in Slots : /\ s_bacnet_cache[i].point = p
                               => s_bacnet_cache'[i].point = NoPoint
                          /\ s_bacnet_cache[i].point # p
                               => s_bacnet_cache'[i] = s_bacnet_cache[i]
  BY <1>1, <1>2, InvalidateChanges
<1>5. \A i \in InUse' : /\ i \in InUse /\ s_bacnet_cache'[i] = s_bacnet_cache[i]
                        /\ s_bacnet_cache[i].point # p
  BY <1>1, <1>4 DEF InUse
<1>6. \A q \in Points : acked'[q] = IF q = p THEN device[p] ELSE acked[q]
  BY <1>1, <1>2 DEF TypeOK
<1>7. \A u \in Tasks :
        /\ calls'[u] \in Call
        /\ calls'[u].phase # "idle" =>
             /\ calls'[u].phase = calls[u].phase
             /\ calls'[u].point = calls[u].point
             /\ calls'[u].value = calls[u].value
             /\ calls'[u].sampled = calls[u].sampled
             /\ calls[u].raced => calls'[u].raced
             /\ calls[u].phase = "sampled" /\ calls[u].point = p
                  => calls'[u].raced
  BY <1>1, <1>3, NoCallIsCall DEF TypeOK, Call
<1>8. TypeOK'
  <2>1. acked' \in [Points -> Values]
    BY <1>1, <1>2, <1>6 DEF TypeOK
  <2>2. calls' \in [Tasks -> Call]
    BY <1>7 DEF WriteAcknowledged
  <2> QED BY <1>1, <1>2, <1>4, <2>1, <2>2 DEF TypeOK
<1>9. OneEntryPerPoint' /\ EntriesAreDated'
  BY <1>1, <1>2, <1>5 DEF CacheInv, OneEntryPerPoint, EntriesAreDated
<1>10. OldValueOnlyFromOverlappingRead'
  <2>1. \A i \in InUse : s_bacnet_cache[i].point \in Points
    BY <1>1 DEF TypeOK, Entry, InUse
  <2> QED BY <1>5, <1>6, <2>1 DEF CacheInv, OldValueOnlyFromOverlappingRead
<1>11. AnswersAreDated' /\ CallsNameTheirPoint'
  BY <1>2, <1>6, <1>7 DEF CacheInv, AnswersAreDated, CallsNameTheirPoint
<1>12. \A q \in Points : acked'[q] <= device'[q]
  BY <1>1, <1>2, <1>6 DEF CacheInv, TypeOK, Values
<1> QED BY <1>8, <1>9, <1>10, <1>11, <1>12 DEF CacheInv

LEMMA CacheInvTick ==
    ASSUME CacheInv, Tick
    PROVE  CacheInv'
<1>1. /\ now < MaxNow /\ now' = now + 1 /\ now \in 0 .. MaxNow
      /\ UNCHANGED <<s_bacnet_cache, device, calls, worker, acked>>
  BY DEF Tick, CacheInv, TypeOK, Times
<1>2. now' \in Times
  BY <1>1, CacheAssumption DEF Times
<1>3. TypeOK'
  BY <1>1, <1>2 DEF CacheInv, TypeOK
<1>4. ASSUME NEW t \in Tasks, calls[t].phase = "sampled"
      PROVE  calls[t].sampled <= now' /\ now' <= calls[t].sampled + MaxHold
  <2>1. now - calls[t].sampled < MaxHold
    BY <1>4 DEF Tick
  <2>2. calls[t].sampled \in Nat /\ calls[t].sampled <= now
    BY <1>4 DEF CacheInv, TypeOK, Call, Times, AnswersAreDated
  <2> QED BY <1>1, <2>1, <2>2, CacheAssumption
<1>5. AnswersAreDated'
  BY <1>1, <1>4 DEF CacheInv, AnswersAreDated
<1>6. ASSUME NEW i \in InUse PROVE s_bacnet_cache[i].stamp <= now'
  <2>1. s_bacnet_cache[i].stamp \in Nat /\ s_bacnet_cache[i].stamp <= now
    BY DEF CacheInv, TypeOK, Entry, Times, EntriesAreDated, InUse
  <2> QED BY <1>1, <2>1
<1>7. EntriesAreDated'
  BY <1>1, <1>6 DEF CacheInv, EntriesAreDated, InUse
<1> QED BY <1>1, <1>3, <1>5, <1>7
        DEF CacheInv, OneEntryPerPoint, OldValueOnlyFromOverlappingRead, InUse,
            CallsNameTheirPoint

LEMMA CacheInvNext == CacheInv /\ [Next]_vars => CacheInv'
<1> SUFFICES ASSUME CacheInv, [Next]_vars PROVE CacheInv'
  OBVIOUS
<1>1. ASSUME NEW t \in Tasks,
             \/ \E p \in Points : ReadMisses(t, p) \/ Write(t, p)
             \/ ReadFails(t) \/ Apply(t) \/ AcknowledgementLost(t)
             \/ WriteFails(t)
      PROVE  CacheInv'
  BY <1>1, CacheInvCalls
<1>2. ASSUME NEW t \in Tasks, Sample(t) PROVE CacheInv'
  BY <1>2, CacheInvSample
<1>3. ASSUME NEW t \in Tasks, ReadReturns(t) PROVE CacheInv'
  BY <1>3, CacheInvReturns
<1>4. ASSUME NEW t \in Tasks, WriteAcknowledged(t) PROVE CacheInv'
  BY <1>4, CacheInvAcknowledged
<1>5. CASE Tick
  BY <1>5, CacheInvTick
<1>6. CASE UNCHANGED vars
  BY <1>6 DEF vars, CacheInv, TypeOK, OneEntryPerPoint, InUse,
       OldValueOnlyFromOverlappingRead, EntriesAreDated, AnswersAreDated,
       CallsNameTheirPoint
<1> QED BY <1>1, <1>2, <1>3, <1>4, <1>5, <1>6 DEF Next

-----------------------------------------------------------------------------
(***************************************************************************)
(* Theorems                                                                *)
(***************************************************************************)

\* Every entry and every answer under way is dated, and marked when a write
\* overtook it: the inductive invariant of the cache.
THEOREM CacheInvariant == Spec => []CacheInv
BY CacheInvInit, CacheInvNext, PTL DEF Spec

\* The cache, the calls and the clock keep their types.
THEOREM CacheTypes == Spec => []TypeOK
<1>1. CacheInv => TypeOK
  BY DEF CacheInv
<1> QED BY <1>1, CacheInvariant, PTL

\* No interleaving of puts, evictions and invalidations leaves two entries of
\* one point in the cache.
THEOREM AlwaysOneEntryPerPoint == Spec => []OneEntryPerPoint
<1>1. CacheInv => OneEntryPerPoint
  BY DEF CacheInv
<1> QED BY <1>1, CacheInvariant, PTL

\* A value older than the last acknowledged write comes from nothing but a read
\* the acknowledgement overtook.
THEOREM OldValueIsAlwaysFromOverlappingRead ==
    Spec => []OldValueOnlyFromOverlappingRead
<1>1. CacheInv => OldValueOnlyFromOverlappingRead
  BY DEF CacheInv
<1> QED BY <1>1, CacheInvariant, PTL

\* A hit is never older than the lifetime of an entry and its read together.
THEOREM ShownValueIsAlwaysRecent == Spec => []ShownValueIsRecent
<1>1. CacheInv => ShownValueIsRecent
  <2> SUFFICES ASSUME CacheInv, NEW p \in Points, Hit(p)
               PROVE  now - s_bacnet_cache[First(Find(p))].sampled
                        < TTL + MaxHold
    BY DEF ShownValueIsRecent
  <2>1. PICK i \in Find(p) : i = First(Find(p)) /\ Fresh(s_bacnet_cache[i])
    BY DEF Hit
  <2>2. i \in InUse
    BY <2>1 DEF Find, Fresh, InUse
  <2> DEFINE e == s_bacnet_cache[i]
  <2>3. e.stamp \in Nat /\ e.sampled \in Nat /\ now \in Nat
    BY <2>2 DEF CacheInv, TypeOK, Entry, Times, InUse
  <2>4. e.stamp <= e.sampled + MaxHold /\ now - e.stamp < TTL
    BY <2>1, <2>2 DEF CacheInv, EntriesAreDated, Fresh
  <2> HIDE DEF e
  <2>5. now - e.sampled < TTL + MaxHold
    BY <2>3, <2>4, CacheAssumption
  <2> QED BY <2>1, <2>5 DEF e
<1> QED BY <1>1, CacheInvariant, PTL

\* Only an oldest entry, of a cache without a free slot, makes room for another
\* point.
THEOREM OnlyOldestEverMakesRoom == Spec => OnlyOldestMakesRoom
<1> DEFINE Evicts == \A i \in InUse :
             s_bacnet_cache'[i].point \notin {NoPoint, s_bacnet_cache[i].point}
               => /\ InUse = Slots
                  /\ \A j \in Slots :
                       s_bacnet_cache[i].stamp <= s_bacnet_cache[j].stamp
<1>1. CacheInv /\ [Next]_vars => [Evicts]_vars
  <2> SUFFICES ASSUME CacheInv, Next PROVE Evicts
    OBVIOUS
  <2>1. CASE UNCHANGED s_bacnet_cache
    BY <2>1
  <2>2. ASSUME NEW t \in Tasks, WriteAcknowledged(t) PROVE Evicts
    <3>1. calls[t].point \in Points /\ Invalidate(calls[t].point)
      BY <2>2 DEF CacheInv, CallsNameTheirPoint, WriteAcknowledged
    <3> QED BY <3>1, InvalidateChanges DEF CacheInv, InUse
  <2>3. ASSUME NEW t \in Tasks, ReadReturns(t) PROVE Evicts
    <3> DEFINE c == calls[t]
    <3>1. /\ c.point \in Points /\ c.value \in Values
          /\ c.sampled \in Times /\ c.raced \in BOOLEAN
          /\ Put(c.point, c.value, c.sampled, c.raced)
      BY <2>3 DEF CacheInv, CallsNameTheirPoint, TypeOK, Call, ReadReturns
    <3> HIDE DEF c
    <3>2. PICK k \in Slots :
            /\ s_bacnet_cache'[k] = [point |-> c.point, value |-> c.value,
                 stamp |-> now, sampled |-> c.sampled, raced |-> c.raced]
            /\ \A i \in Slots \ {k} : s_bacnet_cache'[i] = s_bacnet_cache[i]
            /\ \/ s_bacnet_cache[k].point \in {NoPoint, c.point}
               \/ Find(NoPoint) = {} /\ k \in OldestSlots
      BY <3>1, PutChanges DEF CacheInv
    <3>3. Find(NoPoint) = {} => InUse = Slots
      BY DEF Find, InUse
    <3> QED BY <3>2, <3>3 DEF InUse, OldestSlots
  <2> QED BY <2>1, <2>2, <2>3
          DEF Next, ReadMisses, Write, Sample, ReadFails, Apply,
              AcknowledgementLost, WriteFails, Tick
<1>2. Spec => [][Evicts]_vars
  BY <1>1, CacheInvariant, PTL DEF Spec
<1> QED BY <1>2 DEF OnlyOldestMakesRoom
=============================================================================
