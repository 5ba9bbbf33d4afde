------------------------------ MODULE ReadCache ------------------------------
(***************************************************************************)
(* The read cache of bacnet_worker.c and the two ways to it: a typed read  *)
(* looks in the cache, and on a miss asks the worker and puts the answer   *)
(* in the cache from its own task; a write goes to the worker, which       *)
(* invalidates the entry when the device has acknowledged it.  Each cache  *)
(* operation holds s_cache_mux, nothing holds it from one to the next.     *)
(*                                                                         *)
(* A point is one (type, instance, property); each is read by one typed    *)
(* helper only, so the kind of an entry tells no more than that it is in   *)
(* use.  A value is the number of writes the point has had.                *)
(***************************************************************************)
EXTENDS Integers, FiniteSets

CONSTANTS
    Tasks,
    Points,
    NoPoint,        \* BC_KIND_NONE
    Entries,        \* BACNET_CACHE_ENTRIES
    TTL,            \* BACNET_CACHE_TTL_MS
    MaxHold,        \* bound: time from a sample in the device to the end of
                    \* the read (a caller gives up after 1200 ms)
    MaxNow,         \* bound: the clock
    MaxWrites       \* bound: writes per point

ASSUME CacheAssumption ==
    /\ NoPoint \notin Points
    /\ Entries \in Nat \ {0}
    /\ TTL \in Nat \ {0} /\ MaxHold \in Nat /\ MaxNow \in Nat \ {0}
    /\ MaxWrites \in Nat

VARIABLES
    s_bacnet_cache,
    device,         \* the points of the target: how often each was written
    calls,          \* what each task is doing
    worker,         \* the task whose write is in the worker, or idle
    now,            \* esp_timer_get_time
    acked           \* history: each point as of the last acknowledged write

vars == <<s_bacnet_cache, device, calls, worker, now, acked>>

Slots == 1 .. Entries
Times == 0 .. MaxNow
Values == 0 .. MaxWrites

(***************************************************************************)
(* Of an entry, the point and the stamp are the code's; sampled and raced  *)
(* are history: when the device held the value, and whether a write of the *)
(* point was acknowledged between that and the put.                        *)
(***************************************************************************)
Entry == [point : Points \cup {NoPoint}, value : Values, stamp : Times,
          sampled : Times, raced : BOOLEAN]
NoEntry == [point |-> NoPoint, value |-> 0, stamp |-> 0, sampled |-> 0,
            raced |-> FALSE]

Phases == {"idle", "reading", "sampled", "writing", "applied"}
Call == [phase : Phases, point : Points \cup {NoPoint}, value : Values,
         sampled : Times, raced : BOOLEAN]
NoCall == [phase |-> "idle", point |-> NoPoint, value |-> 0, sampled |-> 0,
           raced |-> FALSE]

TypeOK ==
    /\ s_bacnet_cache \in [Slots -> Entry]
    /\ device \in [Points -> Values]
    /\ calls \in [Tasks -> Call]
    /\ worker \in {"idle", "busy"}
    /\ now \in Times
    /\ acked \in [Points -> Values]

Init ==
    /\ s_bacnet_cache = [i \in Slots |-> NoEntry]
    /\ device = [p \in Points |-> 0]
    /\ calls = [t \in Tasks |-> NoCall]
    /\ worker = "idle"
    /\ now = 1
    /\ acked = [p \in Points |-> 0]

-----------------------------------------------------------------------------
(***************************************************************************)
(* The cache                                                               *)
(***************************************************************************)
First(S) == CHOOSE i \in S : \A j \in S : i <= j

\* bacnet_cache_find_locked: the slots that hold the point.
Find(p) == {i \in Slots : s_bacnet_cache[i].point = p}

\* Mutant: the newest entry makes room.
NewestSlots ==
    {i \in Slots : \A j \in Slots :
       s_bacnet_cache[j].stamp <= s_bacnet_cache[i].stamp}

OldestSlots ==
    {i \in Slots : \A j \in Slots :
       s_bacnet_cache[i].stamp <= s_bacnet_cache[j].stamp}

\* Mutant: the first free slot, or the oldest, without looking for the point.
SlotWithoutFind(p) ==
    IF Find(NoPoint) # {} THEN First(Find(NoPoint)) ELSE First(OldestSlots)

\* bacnet_cache_slot_locked
Slot(p) ==
    IF Find(p) # {} THEN First(Find(p))
    ELSE IF Find(NoPoint) # {} THEN First(Find(NoPoint))
    ELSE First(OldestSlots)

\* Mutant: an entry is served as long as it is not replaced.
NeverExpires(e) == e.point # NoPoint

Fresh(e) == e.point # NoPoint /\ now - e.stamp < TTL

\* bacnet_cache_get finds the point, and not too old.
Hit(p) == \E i \in Find(p) : i = First(Find(p)) /\ Fresh(s_bacnet_cache[i])

\* bacnet_cache_put
Put(p, value, sampled, raced) ==
    s_bacnet_cache' = [s_bacnet_cache EXCEPT ![Slot(p)] =
      [point |-> p, value |-> value, stamp |-> now, sampled |-> sampled,
       raced |-> raced]]

\* Mutant: nothing is invalidated.
InvalidateNothing(p) == UNCHANGED s_bacnet_cache

\* Mutant: the entry is made to look expired, by a stamp that underflows.
InvalidateByStamp(p) ==
    s_bacnet_cache' =
      [i \in Slots |-> IF i \in Find(p)
                        THEN [s_bacnet_cache[i] EXCEPT !.stamp = now - TTL]
                        ELSE s_bacnet_cache[i]]

\* bacnet_cache_invalidate
Invalidate(p) ==
    s_bacnet_cache' =
      IF Find(p) = {} THEN s_bacnet_cache
      ELSE [s_bacnet_cache EXCEPT ![First(Find(p))].point = NoPoint,
                                  ![First(Find(p))].stamp = 0]

-----------------------------------------------------------------------------
(***************************************************************************)
(* Reads: bacnet_worker_read_real, _bool and _msv                          *)
(***************************************************************************)

\* A hit is answered at once and changes nothing.
ReadMisses(t, p) ==
    /\ calls[t].phase = "idle"
    /\ ~Hit(p)
    /\ calls' = [calls EXCEPT ![t] = [NoCall EXCEPT !.phase = "reading",
                                                    !.point = p]]
    /\ UNCHANGED <<s_bacnet_cache, device, worker, now, acked>>

\* The worker serves the read: the device reports the value it has now.
Sample(t) ==
    /\ calls[t].phase = "reading"
    /\ worker = "idle"
    /\ calls' = [calls EXCEPT ![t].phase = "sampled",
                              ![t].value = device[calls[t].point],
                              ![t].sampled = now]
    /\ UNCHANGED <<s_bacnet_cache, device, worker, now, acked>>

\* The reader's task runs on with the answer.
ReadReturns(t) ==
    /\ calls[t].phase = "sampled"
    /\ Put(calls[t].point, calls[t].value, calls[t].sampled, calls[t].raced)
    /\ calls' = [calls EXCEPT ![t] = NoCall]
    /\ UNCHANGED <<device, worker, now, acked>>

\* No answer, a bad one, or one that comes after the caller gave up.
ReadFails(t) ==
    /\ calls[t].phase \in {"reading", "sampled"}
    /\ calls' = [calls EXCEPT ![t] = NoCall]
    /\ UNCHANGED <<s_bacnet_cache, device, worker, now, acked>>

-----------------------------------------------------------------------------
(***************************************************************************)
(* Writes: bacnet_worker_write_real, _bool and _msv                        *)
(***************************************************************************)
Write(t, p) ==
    /\ calls[t].phase = "idle"
    /\ calls' = [calls EXCEPT ![t] = [NoCall EXCEPT !.phase = "writing",
                                                    !.point = p]]
    /\ UNCHANGED <<s_bacnet_cache, device, worker, now, acked>>

\* The worker sends the request and the device executes it.
Apply(t) ==
    /\ calls[t].phase = "writing"
    /\ worker = "idle"
    /\ device[calls[t].point] < MaxWrites
    /\ device' = [device EXCEPT ![calls[t].point] = @ + 1]
    /\ calls' = [calls EXCEPT ![t].phase = "applied"]
    /\ worker' = "busy"
    /\ UNCHANGED <<s_bacnet_cache, now, acked>>

\* The acknowledgement arrives: the worker invalidates the entry, then wakes
\* the caller.  (Reads that sampled the point before are still under way.)
WriteAcknowledged(t) ==
    /\ calls[t].phase = "applied"
    /\ Invalidate(calls[t].point)
    /\ acked' = [acked EXCEPT ![calls[t].point] = device[calls[t].point]]
    /\ calls' = [u \in Tasks |->
         IF u = t THEN NoCall
         ELSE IF calls[u].phase = "sampled" /\ calls[u].point = calls[t].point
           THEN [calls[u] EXCEPT !.raced = TRUE]
         ELSE calls[u]]
    /\ worker' = "idle"
    /\ UNCHANGED <<device, now>>

\* It does not: the transaction ends TIMEOUT, and the cache is left alone.
AcknowledgementLost(t) ==
    /\ calls[t].phase = "applied"
    /\ calls' = [calls EXCEPT ![t] = NoCall]
    /\ worker' = "idle"
    /\ UNCHANGED <<s_bacnet_cache, device, now, acked>>

\* The request is lost, or the device refuses it.
WriteFails(t) ==
    /\ calls[t].phase = "writing"
    /\ calls' = [calls EXCEPT ![t] = NoCall]
    /\ UNCHANGED <<s_bacnet_cache, device, worker, now, acked>>

Tick ==
    /\ now < MaxNow
    /\ \A t \in Tasks : calls[t].phase = "sampled"
                          => now - calls[t].sampled < MaxHold
    /\ now' = now + 1
    /\ UNCHANGED <<s_bacnet_cache, device, calls, worker, acked>>

Next ==
    \/ \E t \in Tasks, p \in Points : ReadMisses(t, p) \/ Write(t, p)
    \/ \E t \in Tasks :
         \/ Sample(t) \/ ReadReturns(t) \/ ReadFails(t)
         \/ Apply(t) \/ WriteAcknowledged(t) \/ AcknowledgementLost(t)
         \/ WriteFails(t)
    \/ Tick

Spec == Init /\ [][Next]_vars

-----------------------------------------------------------------------------
(***************************************************************************)
(* Properties                                                              *)
(***************************************************************************)
InUse == {i \in Slots : s_bacnet_cache[i].point # NoPoint}

\* A point has at most one entry, in whatever order tasks put, evict and
\* invalidate (a second one would survive the invalidation of the first).
OneEntryPerPoint ==
    \A i, j \in InUse :
      s_bacnet_cache[i].point = s_bacnet_cache[j].point => i = j

\* After an acknowledged write the old value is shown again only through a
\* read that was under way while the write was: it puts back what the write has
\* invalidated (the put and the invalidation are critical sections of their
\* own, the read around the put is not one).
OldValueOnlyFromOverlappingRead ==
    \A i \in InUse :
      LET e == s_bacnet_cache[i]
      IN e.value < acked[e.point] => e.raced

\* What the dashboard shows is never older than the lifetime of an entry and
\* the time its read was under way: the stamp is taken at the put.
ShownValueIsRecent ==
    \A p \in Points :
      Hit(p) => now - s_bacnet_cache[First(Find(p))].sampled < TTL + MaxHold

\* An entry makes room for another point only when no slot is free and none is
\* older, expired ones included.
OnlyOldestMakesRoom ==
    [][\A i \in InUse :
         s_bacnet_cache'[i].point \notin {NoPoint, s_bacnet_cache[i].point}
           => /\ InUse = Slots
              /\ \A j \in Slots :
                   s_bacnet_cache[i].stamp <= s_bacnet_cache[j].stamp]_vars
=============================================================================
