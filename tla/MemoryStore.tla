---------------------------- MODULE MemoryStore ----------------------------
(***************************************************************************)
(* The in-memory event store (internal/store/memory.go): a ring buffer, an *)
(* index per field from values to positions, and a goroutine that removes  *)
(* events older than the TTL. Writers hold mu, readers share it, so Append, *)
(* removeExpired and Close are one step each and a query is a function of   *)
(* the state.                                                              *)
(*                                                                         *)
(* byPriority, byRule, bySource, byHostname and byTag are one index, over  *)
(* Fields; an absent key is an empty set of positions. An event's Time is   *)
(* Falco's, not the moment it is appended, so events need not expire in the *)
(* order they were stored.                                                 *)
(*                                                                         *)
(* appended is a history variable.                                         *)
(***************************************************************************)
EXTENDS Integers, Sequences, FiniteSets, Functions

CONSTANTS
  Events,    \* the events that may be appended, each once
  Fields,    \* the indexed fields
  Values,    \* the values fields take
  NoHost,    \* the empty hostname
  Labels,    \* Labels[e][f]: the values of the field in the event, in order
  Time,      \* Time[e]: the event's timestamp
  Capacity,
  TTL,
  MaxNow,    \* the clock stops here
  NoEvent    \* a nil slot

ASSUME CapacityAssumption == Capacity \in Nat \ {0}
ASSUME TTLAssumption == TTL \in Nat /\ MaxNow \in Nat
ASSUME LabelsAssumption == Labels \in [Events -> [Fields -> Seq(Values)]]
ASSUME TimeAssumption == Time \in [Events -> Nat]
ASSUME NoEventAssumption == NoEvent \notin Events

VARIABLES
  slots,     \* events, the ring
  head,      \* the next position to write
  count,
  index,     \* index[f][v]: the positions listed under v
  now,
  stopGC,    \* the stop channel is closed
  gcRunning, \* the GC goroutine has not returned
  appended   \* history: the events appended, in order

vars == <<slots, head, count, index, now, stopGC, gcRunning, appended>>

Positions == 0..(Capacity - 1)
Occupied == {p \in Positions : slots[p] # NoEvent}
Stored == {slots[p] : p \in Occupied}

Init ==
  /\ slots = [p \in Positions |-> NoEvent]
  /\ head = 0
  /\ count = 0
  /\ index = [f \in Fields |-> [v \in Values |-> {}]]
  /\ now = 0
  /\ stopGC = FALSE
  /\ gcRunning = (TTL > 0)
  /\ appended = <<>>

-----------------------------------------------------------------------------
(* Index maintenance *)

\* The keys an event is listed under. An empty hostname is not listed.
IndexKeys(e, f) ==
  IF f = "hostname" THEN Range(Labels[e][f]) \ {NoHost} ELSE Range(Labels[e][f])

AddToIndexes(idx, p, e) ==
  [f \in Fields |-> [v \in Values |->
     IF v \in IndexKeys(e, f) THEN idx[f][v] \cup {p} ELSE idx[f][v]]]

\* Mutant: only the first tag of the overwritten event is taken out.
RemoveFirstLabel(idx, ps) ==
  [f \in Fields |-> [v \in Values |->
     {p \in idx[f][v] : ~(p \in ps /\ slots[p] # NoEvent /\ Labels[slots[p]][f] # <<>>
                          /\ v = Head(Labels[slots[p]][f]))}]]

\* Takes the events at these positions out of every index.
RemoveFromIndexes(idx, ps) ==
  [f \in Fields |-> [v \in Values |->
     {p \in idx[f][v] : ~(p \in ps /\ slots[p] # NoEvent
                          /\ v \in Range(Labels[slots[p]][f]))}]]

-----------------------------------------------------------------------------
(* Operations *)

\* Mutant: the head is not advanced while there is room.
AppendHeadStays(e) ==
  /\ e \notin Range(appended)
  /\ index' = AddToIndexes(RemoveFromIndexes(index, {head}), head, e)
  /\ slots' = [slots EXCEPT ![head] = e]
  /\ head' = IF count < Capacity - 1 THEN head ELSE (head + 1) % Capacity
  /\ count' = IF count < Capacity THEN count + 1 ELSE count
  /\ appended' = Append(appended, e)
  /\ UNCHANGED <<now, stopGC, gcRunning>>

\* Mutant: the counter follows the slots that were in use, not the free ones.
AppendCountsOverwrites(e) ==
  /\ e \notin Range(appended)
  /\ index' = AddToIndexes(RemoveFromIndexes(index, {head}), head, e)
  /\ slots' = [slots EXCEPT ![head] = e]
  /\ head' = (head + 1) % Capacity
  /\ count' = IF slots[head] # NoEvent /\ count < Capacity THEN count + 1 ELSE count
  /\ appended' = Append(appended, e)
  /\ UNCHANGED <<now, stopGC, gcRunning>>

AppendEvent(e) ==
  /\ e \notin Range(appended)
  /\ index' = AddToIndexes(RemoveFromIndexes(index, {head}), head, e)
  /\ slots' = [slots EXCEPT ![head] = e]
  /\ head' = (head + 1) % Capacity
  /\ count' = IF count < Capacity THEN count + 1 ELSE count
  /\ appended' = Append(appended, e)
  /\ UNCHANGED <<now, stopGC, gcRunning>>

\* e.Time.Before(time.Now().Add(-ttl))
IsExpired(e) == Time[e] < now - TTL

Expired == {p \in Occupied : IsExpired(slots[p])}

\* Mutant: a sweep stops at the first slot that is free or not expired.
RemoveExpiredPrefix ==
  LET swept == {p \in Expired : \A q \in 0..p : q \in Expired}
  IN /\ gcRunning
     /\ index' = RemoveFromIndexes(index, swept)
     /\ slots' = [p \in Positions |-> IF p \in swept THEN NoEvent ELSE slots[p]]
     /\ count' = count - Cardinality(swept)
     /\ UNCHANGED <<head, now, stopGC, gcRunning, appended>>

RemoveExpired ==
  /\ gcRunning
  /\ index' = RemoveFromIndexes(index, Expired)
  /\ slots' = [p \in Positions |-> IF p \in Expired THEN NoEvent ELSE slots[p]]
  /\ count' = count - Cardinality(Expired)
  /\ UNCHANGED <<head, now, stopGC, gcRunning, appended>>

\* Close may be called again: the second call finds the channel closed.
Close ==
  /\ stopGC' = TRUE
  /\ UNCHANGED <<slots, head, count, index, now, gcRunning, appended>>

\* A tick that is ready together with the stop may still be taken first.
GCReturns ==
  /\ gcRunning /\ stopGC
  /\ gcRunning' = FALSE
  /\ UNCHANGED <<slots, head, count, index, now, stopGC, appended>>

Tick ==
  /\ now < MaxNow
  /\ now' = now + 1
  /\ UNCHANGED <<slots, head, count, index, stopGC, gcRunning, appended>>

Next ==
  \/ \E e \in Events : AppendEvent(e)
  \/ RemoveExpired
  \/ Close
  \/ GCReturns
  \/ Tick

Spec == Init /\ [][Next]_vars

\* The ticker fires while the goroutine runs.
FairSpec == Spec /\ WF_vars(RemoveExpired)

-----------------------------------------------------------------------------
(* Queries. A filter gives each field the values it accepts, none meaning   *)
(* any. Free text and Since are applied to the positions the index yields.  *)

CollectAllPositions == Occupied

CollectUnion(f, values) == UNION {index[f][v] : v \in values}

\* Mutant: the filters are joined by OR.
FindAnyMatchingPositions(filters) ==
  LET used == {f \in Fields : filters[f] # {}}
  IN IF used = {} THEN CollectAllPositions
     ELSE UNION {CollectUnion(f, filters[f]) : f \in used}

FindMatchingPositions(filters) ==
  LET used == {f \in Fields : filters[f] # {}}
  IN IF used = {} THEN CollectAllPositions
     ELSE {p \in Positions : \A f \in used : p \in CollectUnion(f, filters[f])}

\* text is the set of events whose searchable strings contain the free text.
FindMatchingEvents(filters, since, text) ==
  {slots[p] : p \in {q \in FindMatchingPositions(filters) :
                       /\ slots[q] # NoEvent
                       /\ since > 0 => Time[slots[q]] >= now - since
                       /\ slots[q] \in text}}

\* CountBy without filters reads the index: the events listed under each value.
CountFromIndex(f, v) == Cardinality(index[f][v])

\* Mutant: the first label of an event is the only one counted.
CountFirstLabel(events, f, v) ==
  Cardinality({e \in events : Labels[e][f] # <<>> /\ v = Head(Labels[e][f])})

\* CountBy with filters goes through the events and every label they carry.
CountFromEvents(events, f, v) ==
  Cardinality(UNION {{e} \X {i \in DOMAIN Labels[e][f] : Labels[e][f][i] = v} : e \in events})

=============================================================================
