----------------------- MODULE MemoryStoreProperties -----------------------
(***************************************************************************)
(* What must be true of the event store.                                   *)
(***************************************************************************)
EXTENDS MemoryStore

TypeOK ==
  /\ slots \in [Positions -> Events \cup {NoEvent}]
  /\ head \in Positions
  /\ count \in 0..Capacity
  /\ index \in [Fields -> [Values -> SUBSET Positions]]
  /\ now \in 0..MaxNow
  /\ stopGC \in BOOLEAN
  /\ gcRunning \in BOOLEAN
  /\ appended \in Seq(Events)

\* The indexes list exactly the stored events, each under every one of its
\* values, after any mix of overwriting and expiry: no stale position and none
\* missing. memory.go keeps the five indexes by hand on every write.
IndexExact ==
  \A f \in Fields, v \in Values :
    index[f][v] = {p \in Occupied : v \in IndexKeys(slots[p], f)}

\* What a query should return: the stored events that have an accepted value in
\* every field the filter names.
Matching(filters, since, text) ==
  {e \in Stored \cap text :
     /\ since > 0 => Time[e] >= now - since
     /\ \A f \in Fields : filters[f] # {} => filters[f] \cap IndexKeys(e, f) # {}}

\* Index lookups find exactly the stored events a scan would find, for every
\* filter, time window and free text (findMatchingEvents).
LookupExact ==
  \A filters \in [Fields -> SUBSET Values], since \in 0..TTL :
    FindMatchingEvents(filters, since, Events) = Matching(filters, since, Events)

\* Events appended among the last Capacity.
Recent ==
  {appended[i] : i \in {j \in DOMAIN appended : j > Len(appended) - Capacity}}

\* The store holds nothing but the last Capacity events appended, and every one
\* of them whose TTL has not passed: none is overwritten early and none outstays
\* its turn, wherever expiry has left holes in the ring (Append, removeExpired).
KeepsRecent ==
  /\ Stored \subseteq Recent
  /\ {e \in Recent : Time[e] + TTL >= now} \subseteq Stored

Repeats(e, f) == ~IsInjective(Labels[e][f])

\* The two ways CountBy has of counting agree, whatever was overwritten or has
\* expired since: on every value but the empty hostname, and as long as no event
\* carries a label twice.
CountByAgrees ==
  \A f \in Fields, v \in Values :
    /\ f = "hostname" => v # NoHost
    /\ \A e \in Stored : ~Repeats(e, f)
    => CountFromIndex(f, v) = CountFromEvents(Stored, f, v)

\* The counter never falls below the number of stored events, so removeExpired
\* cannot drive it negative.
CountCovers == Cardinality(Occupied) <= count

\* While the GC runs, an expired event does not stay.
ExpiredLeave ==
  \A e \in Events : (e \in Stored /\ IsExpired(e)) ~> (e \notin Stored \/ stopGC)

=============================================================================
