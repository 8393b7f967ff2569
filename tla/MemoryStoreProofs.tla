-------------------------- MODULE MemoryStoreProofs --------------------------
(***************************************************************************)
(* Proofs about MemoryStore, for every capacity, TTL, set of events and     *)
(* labelling: the ring and its counter, and the indexes that every lookup  *)
(* goes through.                                                           *)
(***************************************************************************)
EXTENDS MemoryStoreProperties, SequenceTheorems, FiniteSetTheorems, TLAPS

-----------------------------------------------------------------------------
(* The ring and its counter. That count does not fall below zero rests on    *)
(* CountCovers, and CountCovers on the bounds of count and head.             *)

CountInv == TypeOK /\ CountCovers

LEMMA PositionsFinite ==
  /\ IsFiniteSet(Positions) /\ Cardinality(Positions) = Capacity
  /\ 0 \in Positions
  /\ \A p \in Positions : (p + 1) % Capacity \in Positions
BY CapacityAssumption, FS_Interval DEF Positions

LEMMA OccupiedFinite ==
  /\ IsFiniteSet(Occupied) /\ Cardinality(Occupied) \in 0..Capacity
  /\ IsFiniteSet(Expired) /\ Expired \subseteq Occupied
<1>1. Expired \subseteq Occupied /\ Occupied \subseteq Positions
  BY DEF Expired, Occupied
<1>2. IsFiniteSet(Occupied) /\ Cardinality(Occupied) <= Capacity /\ IsFiniteSet(Expired)
  BY <1>1, PositionsFinite, FS_Subset
<1>3. Cardinality(Occupied) \in Nat
  BY <1>2, FS_CardinalityType
<1> QED
  BY <1>1, <1>2, <1>3, CapacityAssumption

\* Indexes keep their type.
LEMMA IndexTypes ==
  ASSUME NEW idx \in [Fields -> [Values -> SUBSET Positions]],
         NEW ps, NEW p \in Positions, NEW e
  PROVE  /\ AddToIndexes(idx, p, e) \in [Fields -> [Values -> SUBSET Positions]]
         /\ RemoveFromIndexes(idx, ps) \in [Fields -> [Values -> SUBSET Positions]]
BY DEF AddToIndexes, RemoveFromIndexes

LEMMA CountAppend ==
  ASSUME CountInv, NEW e \in Events, AppendEvent(e)
  PROVE  CountInv'
<1>1. slots \in [Positions -> Events \cup {NoEvent}] /\ head \in Positions
  BY DEF CountInv, TypeOK
<1>2. slots' \in [Positions -> Events \cup {NoEvent}] /\ head' \in Positions
  BY <1>1, PositionsFinite DEF AppendEvent
<1>3. index' \in [Fields -> [Values -> SUBSET Positions]]
  BY <1>1, IndexTypes DEF AppendEvent, CountInv, TypeOK
<1>4. count' \in 0..Capacity
  BY CapacityAssumption DEF AppendEvent, CountInv, TypeOK
<1>5. appended' \in Seq(Events)
  BY AppendProperties DEF AppendEvent, CountInv, TypeOK
<1>6. TypeOK'
  BY <1>2, <1>3, <1>4, <1>5 DEF AppendEvent, CountInv, TypeOK
<1>7. Occupied' = Occupied \cup {head}
  BY <1>1, NoEventAssumption DEF AppendEvent, Occupied
<1>8. Cardinality(Occupied') =
        IF head \in Occupied THEN Cardinality(Occupied) ELSE Cardinality(Occupied) + 1
  BY <1>7, OccupiedFinite, FS_AddElement
<1>9. Cardinality(Occupied') <= Capacity
  <2>1. Occupied' \subseteq Positions
    BY DEF Occupied, Positions
  <2> QED
    BY <2>1, PositionsFinite, FS_Subset
<1>10. Cardinality(Occupied') <= count'
  BY <1>8, <1>9, OccupiedFinite, CapacityAssumption DEF AppendEvent, CountInv, TypeOK, CountCovers
<1> QED
  BY <1>6, <1>10 DEF CountInv, CountCovers

LEMMA CountExpire ==
  ASSUME CountInv, RemoveExpired
  PROVE  CountInv'
<1>1. slots \in [Positions -> Events \cup {NoEvent}]
  BY DEF CountInv, TypeOK
<1>2. slots' \in [Positions -> Events \cup {NoEvent}]
  BY <1>1 DEF RemoveExpired
<1>3. Occupied' = Occupied \ Expired
  BY <1>1 DEF RemoveExpired, Occupied, Expired
<1>4. /\ Cardinality(Occupied') = Cardinality(Occupied) - Cardinality(Expired)
      /\ Cardinality(Occupied') \in Nat /\ Cardinality(Expired) \in Nat
  <2>1. Occupied \cap Expired = Expired
    BY OccupiedFinite
  <2>2. IsFiniteSet(Occupied') /\ Cardinality(Occupied')
          = Cardinality(Occupied) - Cardinality(Occupied \cap Expired)
    BY <1>3, OccupiedFinite, FS_Difference
  <2> QED
    BY <2>1, <2>2, OccupiedFinite, FS_CardinalityType
<1>5. count' = count - Cardinality(Expired)
  BY DEF RemoveExpired
<1>6. count' \in 0..Capacity /\ Cardinality(Occupied') <= count'
  BY <1>4, <1>5, OccupiedFinite, CapacityAssumption DEF CountInv, TypeOK, CountCovers
<1>7. index' \in [Fields -> [Values -> SUBSET Positions]]
  BY IndexTypes, PositionsFinite DEF RemoveExpired, CountInv, TypeOK
<1> QED
  BY <1>2, <1>6, <1>7 DEF RemoveExpired, CountInv, TypeOK, CountCovers

LEMMA CountNext == CountInv /\ [Next]_vars => CountInv'
<1> SUFFICES ASSUME CountInv, [Next]_vars PROVE CountInv'
  OBVIOUS
<1>1. CASE Close \/ GCReturns \/ Tick \/ UNCHANGED vars
  <2>1. Occupied' = Occupied /\ count' = count
    BY <1>1 DEF Close, GCReturns, Tick, vars, Occupied
  <2>2. stopGC' \in BOOLEAN /\ gcRunning' \in BOOLEAN
    BY <1>1, Zenon DEF Close, GCReturns, Tick, vars, CountInv, TypeOK
  <2>3. now' \in 0..MaxNow
    BY <1>1, TTLAssumption, SMT DEF Close, GCReturns, Tick, vars, CountInv, TypeOK
  <2>4. UNCHANGED <<slots, head, count, index, appended>>
    BY <1>1 DEF Close, GCReturns, Tick, vars
  <2>5. TypeOK'
    BY <2>2, <2>3, <2>4 DEF CountInv, TypeOK
  <2> QED
    BY <2>1, <2>5 DEF CountInv, CountCovers
<1> QED
  BY <1>1, CountAppend, CountExpire DEF Next

LEMMA CountInit == Init => CountInv
<1> SUFFICES ASSUME Init PROVE CountInv
  OBVIOUS
<1>1. Occupied = {} /\ Cardinality({}) = 0
  BY FS_EmptySet DEF Init, Occupied
<1>2. TypeOK
  <2>1. stopGC \in BOOLEAN /\ gcRunning \in BOOLEAN
    <3>1. (TTL > 0) \in BOOLEAN
      OBVIOUS
    <3> QED
      BY <3>1, Zenon DEF Init
  <2>2. head \in Positions /\ count \in 0..Capacity /\ now \in 0..MaxNow
    BY PositionsFinite, CapacityAssumption, TTLAssumption DEF Init
  <2>3. appended \in Seq(Events)
    BY EmptySeq DEF Init
  <2> QED
    BY <2>1, <2>2, <2>3 DEF Init, TypeOK
<1> QED
  BY <1>1, <1>2 DEF Init, CountInv, CountCovers

LEMMA CountInvariant == Spec => []CountInv
BY CountInit, CountNext, PTL DEF Spec

\* The counter stays between the number of stored events and the capacity,
\* wherever expiry has left holes (Append, removeExpired).
THEOREM StoreTypeCorrect == Spec => [](TypeOK /\ CountCovers)
<1>1. CountInv => TypeOK /\ CountCovers
  BY DEF CountInv
<1> QED
  BY <1>1, CountInvariant, PTL

-----------------------------------------------------------------------------
(* The indexes *)

LEMMA IndexAppend ==
  ASSUME CountInv, IndexExact, NEW e \in Events, AppendEvent(e)
  PROVE  IndexExact'
<1> SUFFICES ASSUME NEW f \in Fields, NEW v \in Values
             PROVE  index'[f][v] = {p \in Occupied' : v \in IndexKeys(slots'[p], f)}
  BY DEF IndexExact
<1>1. slots' = [slots EXCEPT ![head] = e] /\ head \in Positions
      /\ slots \in [Positions -> Events \cup {NoEvent}]
  BY DEF AppendEvent, CountInv, TypeOK
<1>2. index[f][v] = {p \in Occupied : v \in IndexKeys(slots[p], f)}
  BY DEF IndexExact
<1> DEFINE removed == RemoveFromIndexes(index, {head})
<1>3. removed[f][v] = {p \in Occupied : p # head /\ v \in IndexKeys(slots[p], f)}
  BY <1>2 DEF RemoveFromIndexes, IndexKeys, Occupied
<1>4. index'[f][v] = IF v \in IndexKeys(e, f) THEN removed[f][v] \cup {head} ELSE removed[f][v]
  BY DEF AppendEvent, AddToIndexes
<1>5. Occupied' = Occupied \cup {head}
  BY <1>1, NoEventAssumption DEF Occupied
<1>6. slots'[head] = e /\ \A p \in Occupied : p # head => slots'[p] = slots[p]
  BY <1>1 DEF Occupied
<1> QED
  BY <1>3, <1>4, <1>5, <1>6

LEMMA IndexExpire ==
  ASSUME CountInv, IndexExact, RemoveExpired
  PROVE  IndexExact'
<1> SUFFICES ASSUME NEW f \in Fields, NEW v \in Values
             PROVE  index'[f][v] = {p \in Occupied' : v \in IndexKeys(slots'[p], f)}
  BY DEF IndexExact
<1>1. index[f][v] = {p \in Occupied : v \in IndexKeys(slots[p], f)}
  BY DEF IndexExact
<1>2. index'[f][v] = {p \in Occupied : p \notin Expired /\ v \in IndexKeys(slots[p], f)}
  BY <1>1 DEF RemoveExpired, RemoveFromIndexes, IndexKeys, Occupied, Expired
<1>3. Occupied' = Occupied \ Expired
  BY DEF RemoveExpired, Occupied, Expired
<1>4. \A p \in Occupied' : slots'[p] = slots[p]
  BY <1>3 DEF RemoveExpired, Occupied
<1> QED
  BY <1>2, <1>3, <1>4

\* After any mix of overwriting and expiry the five indexes list exactly the
\* stored events, each under every one of its values (addToIndex,
\* removeFromIndexes).
THEOREM IndexAlwaysExact == Spec => []IndexExact
<1>1. Init => IndexExact
  BY DEF Init, IndexExact, Occupied
<1>2. CountInv /\ IndexExact /\ [Next]_vars => IndexExact'
  <2>1. CASE UNCHANGED <<index, slots>>
    BY <2>1 DEF IndexExact, Occupied
  <2> QED
    BY <2>1, IndexAppend, IndexExpire DEF Next, Close, GCReturns, Tick, vars
<1> QED
  BY <1>1, <1>2, CountInvariant, PTL DEF Spec

\* A lookup through exact indexes returns what a scan of the stored events would,
\* for every combination of filters (findMatchingPositions, collectUnion,
\* intersectSets).
LEMMA ExactLookup ==
  ASSUME IndexExact, NEW filters \in [Fields -> SUBSET Values], NEW since, NEW text
  PROVE  FindMatchingEvents(filters, since, text) = Matching(filters, since, text)
<1>1. FindMatchingPositions(filters)
        = {p \in Occupied : \A f \in Fields :
             filters[f] # {} => filters[f] \cap IndexKeys(slots[p], f) # {}}
  <2>1. \A f \in Fields : CollectUnion(f, filters[f])
          = {p \in Occupied : filters[f] \cap IndexKeys(slots[p], f) # {}}
    BY DEF IndexExact, CollectUnion
  <2> QED
    BY <2>1 DEF FindMatchingPositions, CollectAllPositions, Occupied
<1> QED
  BY <1>1 DEF FindMatchingEvents, Matching, Stored, Occupied

\* Every query sees the store as a scan would, at every moment (Search, Count).
THEOREM LookupAlwaysExact == Spec => []LookupExact
<1>1. IndexExact => LookupExact
  BY ExactLookup DEF LookupExact
<1> QED
  BY <1>1, IndexAlwaysExact, PTL

-----------------------------------------------------------------------------
(* Retention. The k-th newest event sits k places behind the head, unless it *)
(* has expired.                                                             *)

Behind(k) == IF head >= k THEN head - k ELSE head - k + Capacity
Newest(k) == appended[Len(appended) - k + 1]

RingInOrder ==
  \A k \in 1..Capacity :
    \/ k > Len(appended) /\ slots[Behind(k)] = NoEvent
    \/ k <= Len(appended) /\ slots[Behind(k)] = Newest(k)
    \/ k <= Len(appended) /\ slots[Behind(k)] = NoEvent /\ Time[Newest(k)] + TTL < now

\* Every position is behind the head by exactly one distance.
LEMMA BehindCovers ==
  ASSUME head \in Positions
  PROVE  /\ \A k \in 1..Capacity : Behind(k) \in Positions
         /\ \A j, k \in 1..Capacity : Behind(j) = Behind(k) => j = k
         /\ \A p \in Positions : \E k \in 1..Capacity : Behind(k) = p
         /\ Behind(Capacity) = head
<1>1. Capacity \in Nat \ {0} /\ head \in 0..(Capacity - 1)
  BY CapacityAssumption DEF Positions
<1>2. ASSUME NEW p \in Positions PROVE \E k \in 1..Capacity : Behind(k) = p
  <2> DEFINE k == IF head > p THEN head - p ELSE head - p + Capacity
  <2>1. k \in 1..Capacity /\ Behind(k) = p
    BY <1>1, <1>2 DEF Behind, Positions
  <2> QED
    BY <2>1
<1> QED
  BY <1>1, <1>2 DEF Behind, Positions

\* Advancing the head moves every event one place further behind.
LEMMA HeadAdvances ==
  ASSUME head \in Positions, head' = (head + 1) % Capacity
  PROVE  /\ Behind(1)' = head
         /\ \A k \in 2..Capacity : Behind(k)' = Behind(k - 1)
<1>1. Capacity \in Nat \ {0} /\ head \in 0..(Capacity - 1)
  BY CapacityAssumption DEF Positions
<1>2. head' = IF head + 1 = Capacity THEN 0 ELSE head + 1
  BY <1>1
<1> QED
  BY <1>1, <1>2 DEF Behind

LEMMA RingAppend ==
  ASSUME CountInv, RingInOrder, NEW e \in Events, AppendEvent(e)
  PROVE  RingInOrder'
<1> DEFINE n == Len(appended)
<1>1. /\ head \in Positions /\ head' = (head + 1) % Capacity
      /\ slots \in [Positions -> Events \cup {NoEvent}] /\ slots' = [slots EXCEPT ![head] = e]
      /\ now' = now
  BY DEF AppendEvent, CountInv, TypeOK
<1>2. /\ n \in Nat /\ Len(appended') = n + 1 /\ appended'[n + 1] = e
      /\ \A i \in 1..n : appended'[i] = appended[i]
  BY AppendProperties, LenProperties DEF AppendEvent, CountInv, TypeOK
<1> SUFFICES ASSUME NEW k \in 1..Capacity
             PROVE
               \/ k > Len(appended') /\ slots'[Behind(k)'] = NoEvent
               \/ k <= Len(appended') /\ slots'[Behind(k)'] = Newest(k)'
               \/ /\ k <= Len(appended') /\ slots'[Behind(k)'] = NoEvent
                  /\ Time[Newest(k)'] + TTL < now'
  BY DEF RingInOrder
<1>3. CASE k = 1
  <2>1. slots'[Behind(k)'] = e
    BY <1>1, <1>3, HeadAdvances
  <2> QED
    BY <1>2, <1>3, <2>1 DEF Newest
<1>4. CASE k # 1
  <2>1. k - 1 \in 1..Capacity /\ k \in 2..Capacity
    BY <1>4, CapacityAssumption
  <2>2. Behind(k)' = Behind(k - 1) /\ Behind(k - 1) \in Positions
    BY <1>1, <2>1, HeadAdvances, BehindCovers
  <2>3. Behind(k - 1) # head
    <3>1. Capacity \in 1..Capacity /\ k - 1 # Capacity
      BY CapacityAssumption
    <3> QED
      BY <1>1, <2>1, <3>1, BehindCovers
  <2>4. slots'[Behind(k)'] = slots[Behind(k - 1)]
    BY <1>1, <2>2, <2>3
  <2>5. k - 1 <= n => Newest(k)' = Newest(k - 1)
    <3>1. k - 1 <= n => n - k + 2 \in 1..n
      BY <1>2, <2>1
    <3>2. Len(appended') - k + 1 = n - k + 2 /\ n - (k - 1) + 1 = n - k + 2
      BY <1>2, <2>1
    <3> QED
      BY <1>2, <3>1, <3>2 DEF Newest
  <2>6. k > Len(appended') <=> k - 1 > n
    BY <1>2, <2>1
  <2>7. \/ k - 1 > n /\ slots[Behind(k - 1)] = NoEvent
        \/ k - 1 <= n /\ slots[Behind(k - 1)] = Newest(k - 1)
        \/ k - 1 <= n /\ slots[Behind(k - 1)] = NoEvent /\ Time[Newest(k - 1)] + TTL < now
    BY <2>1 DEF RingInOrder
  <2>8. k - 1 <= n => k <= Len(appended')
    BY <1>2, <2>1
  <2> QED
    BY <1>1, <2>4, <2>5, <2>6, <2>7, <2>8
<1> QED
  BY <1>3, <1>4

\* The sequence numbers of the newest events are those of events.
LEMMA NewestType ==
  ASSUME CountInv, NEW k \in 1..Capacity, k <= Len(appended)
  PROVE  Newest(k) \in Events /\ Time[Newest(k)] \in Nat
<1>1. Len(appended) - k + 1 \in 1..Len(appended)
  BY CapacityAssumption, LenProperties DEF CountInv, TypeOK
<1> QED
  BY <1>1, ElementOfSeq, TimeAssumption DEF Newest, CountInv, TypeOK

LEMMA RingExpire ==
  ASSUME CountInv, RingInOrder, RemoveExpired
  PROVE  RingInOrder'
<1>1. /\ UNCHANGED <<head, appended, now>> /\ head \in Positions /\ now \in Int /\ TTL \in Nat
      /\ slots' = [p \in Positions |-> IF p \in Expired THEN NoEvent ELSE slots[p]]
  BY TTLAssumption DEF RemoveExpired, CountInv, TypeOK
<1> SUFFICES ASSUME NEW k \in 1..Capacity
             PROVE
               \/ k > Len(appended) /\ slots'[Behind(k)] = NoEvent
               \/ k <= Len(appended) /\ slots'[Behind(k)] = Newest(k)
               \/ /\ k <= Len(appended) /\ slots'[Behind(k)] = NoEvent
                  /\ Time[Newest(k)] + TTL < now
  BY <1>1 DEF RingInOrder, Behind, Newest
<1>2. Behind(k) \in Positions
  BY <1>1, BehindCovers
<1>3. CASE Behind(k) \in Expired
  <2>1. slots'[Behind(k)] = NoEvent /\ slots[Behind(k)] # NoEvent
    BY <1>1, <1>2, <1>3 DEF Expired, Occupied
  <2>2. k <= Len(appended) /\ slots[Behind(k)] = Newest(k)
    BY <2>1 DEF RingInOrder
  <2>3. Time[Newest(k)] < now - TTL /\ Time[Newest(k)] \in Nat
    BY <1>3, <2>2, NewestType DEF Expired, IsExpired
  <2> QED
    BY <1>1, <2>1, <2>2, <2>3
<1>4. CASE Behind(k) \notin Expired
  BY <1>1, <1>2, <1>4 DEF RingInOrder
<1> QED
  BY <1>3, <1>4

LEMMA RingTick ==
  ASSUME CountInv, RingInOrder, Tick
  PROVE  RingInOrder'
<1>1. UNCHANGED <<slots, head, appended>> /\ now' = now + 1 /\ now \in Int /\ TTL \in Nat
  BY TTLAssumption DEF Tick, CountInv, TypeOK
<1>2. \A k \in 1..Capacity : Behind(k)' = Behind(k) /\ Newest(k)' = Newest(k)
  BY <1>1 DEF Behind, Newest
<1>3. \A k \in 1..Capacity : k <= Len(appended) =>
        (Time[Newest(k)] + TTL < now => Time[Newest(k)] + TTL < now')
  BY <1>1, NewestType
<1> QED
  BY <1>1, <1>2, <1>3 DEF RingInOrder

LEMMA RingKeeps ==
  ASSUME CountInv, RingInOrder
  PROVE  KeepsRecent
<1>1. head \in Positions /\ Len(appended) \in Nat /\ DOMAIN appended = 1..Len(appended)
  BY LenProperties DEF CountInv, TypeOK
<1>2. ASSUME NEW p \in Occupied PROVE slots[p] \in Recent
  <2>1. PICK k \in 1..Capacity : Behind(k) = p
    BY <1>1, <1>2, BehindCovers DEF Occupied
  <2>2. k <= Len(appended) /\ slots[p] = Newest(k)
    BY <1>2, <2>1 DEF RingInOrder, Occupied
  <2>3. /\ Len(appended) - k + 1 \in DOMAIN appended
        /\ Len(appended) - k + 1 > Len(appended) - Capacity
    BY <1>1, <2>1, <2>2, CapacityAssumption
  <2> QED
    BY <2>2, <2>3 DEF Recent, Newest
<1>3. ASSUME NEW e \in Recent, Time[e] + TTL >= now PROVE e \in Stored
  <2>1. PICK j \in DOMAIN appended : j > Len(appended) - Capacity /\ e = appended[j]
    BY DEF Recent
  <2> DEFINE k == Len(appended) - j + 1
  <2>2. k \in 1..Capacity /\ k <= Len(appended) /\ Len(appended) - k + 1 = j
    BY <1>1, <2>1, CapacityAssumption
  <2>3. e = Newest(k) /\ e \in Events /\ Time[e] \in Nat
    BY <2>1, <2>2, NewestType DEF Newest
  <2>4. ~(Time[e] + TTL < now)
    BY <1>3, <2>3, TTLAssumption DEF CountInv, TypeOK
  <2> HIDE DEF k
  <2>5. slots[Behind(k)] = e
    BY <2>2, <2>3, <2>4 DEF RingInOrder
  <2>6. Behind(k) \in Occupied
    BY <1>1, <2>2, <2>3, <2>5, BehindCovers, NoEventAssumption DEF Occupied
  <2> QED
    BY <2>5, <2>6 DEF Stored
<1> QED
  BY <1>2, <1>3 DEF KeepsRecent, Stored

\* The store holds the last Capacity events but expired ones, and no other,
\* wherever the GC has left holes (Append, removeExpired).
THEOREM AlwaysKeepsRecent == Spec => []KeepsRecent
<1>1. Init => RingInOrder
  <2> SUFFICES ASSUME Init PROVE RingInOrder
    OBVIOUS
  <2>1. \A k \in 1..Capacity : slots[Behind(k)] = NoEvent
    BY BehindCovers, PositionsFinite DEF Init
  <2>2. Len(appended) = 0
    BY EmptySeq DEF Init
  <2> QED
    BY <2>1, <2>2, CapacityAssumption DEF RingInOrder
<1>2. CountInv /\ RingInOrder /\ [Next]_vars => RingInOrder'
  <2>1. CASE UNCHANGED <<slots, head, appended, now>>
    BY <2>1 DEF RingInOrder, Behind, Newest
  <2> QED
    BY <2>1, RingAppend, RingExpire, RingTick DEF Next, Close, GCReturns, vars
<1>3. CountInv /\ RingInOrder => KeepsRecent
  BY RingKeeps
<1> QED
  BY <1>1, <1>2, <1>3, CountInvariant, PTL DEF Spec

-----------------------------------------------------------------------------
(* CountBy. The positions listed under a value and the events that carry it  *)
(* match one to one, if no event is stored twice.                           *)

StoredOnce ==
  /\ Stored \subseteq Range(appended)
  /\ \A p, q \in Occupied : slots[p] = slots[q] => p = q

LEMMA StoredOnceAppend ==
  ASSUME CountInv, StoredOnce, NEW e \in Events, AppendEvent(e)
  PROVE  StoredOnce'
<1>1. slots' = [slots EXCEPT ![head] = e] /\ head \in Positions
      /\ slots \in [Positions -> Events \cup {NoEvent}]
  BY DEF AppendEvent, CountInv, TypeOK
<1>2. Occupied' = Occupied \cup {head}
  BY <1>1, NoEventAssumption DEF Occupied
<1>3. Range(appended') = Range(appended) \cup {e} /\ e \notin Range(appended)
  <2>1. /\ appended \in Seq(Events) /\ appended' = Append(appended, e)
        /\ e \notin Range(appended)
    BY DEF AppendEvent, CountInv, TypeOK
  <2>2. /\ DOMAIN appended' = DOMAIN appended \cup {Len(appended) + 1}
        /\ \A i \in DOMAIN appended : appended'[i] = appended[i]
        /\ appended'[Len(appended) + 1] = e
    BY <2>1
  <2> QED
    BY <2>1, <2>2 DEF Range
<1>4. \A p \in Occupied : slots[p] \in Range(appended)
  BY DEF StoredOnce, Stored
<1>5. slots'[head] = e /\ \A p \in Occupied : p # head => slots'[p] = slots[p]
  BY <1>1 DEF Occupied
<1>6. \A p \in Occupied' : slots'[p] \in Range(appended')
  BY <1>2, <1>3, <1>4, <1>5
<1>7. \A p, q \in Occupied' : slots'[p] = slots'[q] => p = q
  BY <1>2, <1>3, <1>4, <1>5 DEF StoredOnce
<1> QED
  BY <1>6, <1>7 DEF StoredOnce, Stored

LEMMA StoredOnceNext == CountInv /\ StoredOnce /\ [Next]_vars => StoredOnce'
<1> SUFFICES ASSUME CountInv, StoredOnce, [Next]_vars PROVE StoredOnce'
  OBVIOUS
<1>1. CASE UNCHANGED <<slots, appended>>
  BY <1>1 DEF StoredOnce, Stored, Occupied
<1>2. CASE RemoveExpired
  <2>1. Occupied' = Occupied \ Expired /\ appended' = appended
    BY <1>2 DEF RemoveExpired, Occupied, Expired
  <2>2. \A p \in Occupied' : slots'[p] = slots[p]
    BY <1>2, <2>1 DEF RemoveExpired, Occupied
  <2> QED
    BY <2>1, <2>2 DEF StoredOnce, Stored
<1> QED
  BY <1>1, <1>2, StoredOnceAppend DEF Next, Close, GCReturns, Tick, vars

\* An event without repeated labels carries a value at one place at most.
LEMMA CarriesOnce ==
  ASSUME CountInv, NEW f \in Fields, NEW v \in Values,
         NEW e \in Stored, ~Repeats(e, f)
  PROVE  \A i, j \in DOMAIN Labels[e][f] : Labels[e][f][i] = v /\ Labels[e][f][j] = v => i = j
BY DEF Repeats, IsInjective

LEMMA CountsAgree ==
  ASSUME CountInv, IndexExact, StoredOnce, NEW f \in Fields, NEW v \in Values,
         f = "hostname" => v # NoHost, \A e \in Stored : ~Repeats(e, f)
  PROVE  CountFromIndex(f, v) = CountFromEvents(Stored, f, v)
<1> DEFINE carrying == UNION {{e} \X {i \in DOMAIN Labels[e][f] : Labels[e][f][i] = v} : e \in Stored}
           place(p) == CHOOSE i \in DOMAIN Labels[slots[p]][f] : Labels[slots[p]][f][i] = v
           match == [p \in index[f][v] |-> <<slots[p], place(p)>>]
<1>1. index[f][v] = {p \in Occupied : v \in Range(Labels[slots[p]][f])}
  BY DEF IndexExact, IndexKeys
<1>2. \A p \in index[f][v] : slots[p] \in Stored
        /\ place(p) \in DOMAIN Labels[slots[p]][f] /\ Labels[slots[p]][f][place(p)] = v
  BY <1>1 DEF Stored, Range
<1>3. \A x : x \in carrying <=>
         \E e \in Stored : \E i \in DOMAIN Labels[e][f] : Labels[e][f][i] = v /\ x = <<e, i>>
  OBVIOUS
<1> HIDE DEF carrying, place
<1>4. match \in [index[f][v] -> carrying]
  BY <1>2, <1>3
<1>5. \A p, q \in index[f][v] : match[p] = match[q] => p = q
  BY <1>1 DEF StoredOnce
<1>6. ASSUME NEW x \in carrying PROVE \E p \in index[f][v] : match[p] = x
  <2> PICK e \in Stored : \E i \in DOMAIN Labels[e][f] : Labels[e][f][i] = v /\ x = <<e, i>>
    BY <1>3
  <2>1. PICK i \in DOMAIN Labels[e][f] : Labels[e][f][i] = v /\ x = <<e, i>>
    OBVIOUS
  <2>2. PICK p \in Occupied : slots[p] = e
    BY DEF Stored
  <2>3. p \in index[f][v]
    BY <1>1, <2>1, <2>2 DEF Range
  <2>4. place(p) = i
    BY <1>2, <2>1, <2>2, <2>3, CarriesOnce
  <2> QED
    BY <2>1, <2>2, <2>3, <2>4
<1>7. match \in Bijection(index[f][v], carrying)
  BY <1>4, <1>5, <1>6 DEF Bijection, Injection, Surjection, IsInjective
<1>8. IsFiniteSet(index[f][v])
  BY <1>1, OccupiedFinite, FS_Subset
<1>9. Cardinality(carrying) = Cardinality(index[f][v])
  BY <1>7, <1>8, FS_Bijection DEF ExistsBijection
<1> QED
  BY <1>9 DEF CountFromIndex, CountFromEvents, carrying

\* CountBy counts the same through the index and through the events, whatever was
\* overwritten or has expired (countFromIndex and countFromEvents), on every value but
\* the empty hostname and as long as no event repeats a label.
THEOREM CountByAlwaysAgrees == Spec => []CountByAgrees
<1>1. Init => StoredOnce
  BY DEF Init, StoredOnce, Stored, Occupied
<1>2. CountInv /\ IndexExact /\ StoredOnce => CountByAgrees
  BY CountsAgree DEF CountByAgrees
<1> QED
  BY <1>1, <1>2, StoredOnceNext, IndexAlwaysExact, CountInvariant, PTL DEF Spec

=============================================================================
