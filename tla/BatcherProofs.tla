---------------------------- MODULE BatcherProofs ----------------------------
(***************************************************************************)
(* Proofs about the payload batcher and the Elasticsearch output that is   *)
(* built on it, for every set of events, every size and every limit of     *)
(* requests: what is pushed is handed on once, in batches that are small   *)
(* enough, no timer forgets any of it, and what is counted as a success is *)
(* in the index.                                                           *)
(***************************************************************************)
EXTENDS ElasticsearchBatch, SequenceTheorems, FiniteSetTheorems, TLAPS

-----------------------------------------------------------------------------
(* Sequences without repetition, and their sets *)

\* An element appended is added to the set, and repeats nothing that is not in it.
LEMMA AppendToSet ==
  ASSUME NEW S, NEW s \in Seq(S), NEW e \in S
  PROVE  /\ Append(s, e) \in Seq(S)
         /\ ToSet(Append(s, e)) = ToSet(s) \cup {e}
         /\ IsInjective(s) /\ e \notin ToSet(s) => IsInjective(Append(s, e))
<1>1. /\ Append(s, e) \in Seq(S)
      /\ DOMAIN Append(s, e) = 1..(Len(s) + 1)
      /\ \A i \in 1..Len(s) : Append(s, e)[i] = s[i]
      /\ Append(s, e)[Len(s) + 1] = e
      /\ DOMAIN s = 1..Len(s) /\ Len(s) \in Nat
  BY AppendProperties, LenProperties
<1>2. ToSet(Append(s, e)) = ToSet(s) \cup {e}
  <2>1. \A i \in DOMAIN s : i \in DOMAIN Append(s, e) /\ Append(s, e)[i] = s[i]
    BY <1>1
  <2>2. \A i \in DOMAIN Append(s, e) : i \in DOMAIN s \/ i = Len(s) + 1
    BY <1>1
  <2> QED
    BY <1>1, <2>1, <2>2 DEF ToSet
<1>3. ASSUME IsInjective(s), e \notin ToSet(s) PROVE IsInjective(Append(s, e))
  BY <1>1, <1>3 DEF IsInjective, ToSet
<1> QED
  BY <1>1, <1>2, <1>3

\* The empty sequence repeats nothing.
LEMMA EmptyToSet ==
  /\ ToSet(<<>>) = {} /\ IsInjective(<<>>)
  /\ \A S : \A s \in Seq(S) : ToSet(s) \subseteq S
<1>1. DOMAIN <<>> = {}
  OBVIOUS
<1>2. ASSUME NEW S, NEW s \in Seq(S) PROVE ToSet(s) \subseteq S
  BY ElementOfSeq, LenProperties DEF ToSet
<1> QED
  BY <1>1, <1>2 DEF ToSet, IsInjective

\* A sequence without repetition is as long as its set is large.
LEMMA LengthOfSet ==
  ASSUME NEW S, NEW s \in Seq(S), IsInjective(s)
  PROVE  IsFiniteSet(ToSet(s)) /\ Cardinality(ToSet(s)) = Len(s)
<1>1. DOMAIN s = 1..Len(s) /\ Len(s) \in Nat /\ s \in [1..Len(s) -> ToSet(s)]
  BY LenProperties DEF ToSet
<1>2. s \in Surjection(1..Len(s), ToSet(s))
  BY <1>1 DEF Surjection, ToSet
<1>3. s \in Injection(1..Len(s), ToSet(s))
  BY <1>1 DEF Injection
<1>4. IsFiniteSet(1..Len(s)) /\ Cardinality(1..Len(s)) = Len(s)
  BY <1>1, FS_Interval
<1> QED
  BY <1>2, <1>3, <1>4, FS_Surjection

\* Disjoint finite sets add up.
LEMMA DisjointUnion ==
  ASSUME NEW A, NEW B, IsFiniteSet(A), IsFiniteSet(B), A \cap B = {}
  PROVE  /\ IsFiniteSet(A \cup B)
         /\ Cardinality(A \cup B) = Cardinality(A) + Cardinality(B)
         /\ Cardinality(A) \in Nat /\ Cardinality(B) \in Nat
<1>1. Cardinality(A) \in Nat /\ Cardinality(B) \in Nat
  BY FS_CardinalityType
<1>2. Cardinality(A \cap B) = 0
  BY FS_EmptySet
<1>3. /\ IsFiniteSet(A \cup B)
      /\ Cardinality(A \cup B) = Cardinality(A) + Cardinality(B) - Cardinality(A \cap B)
  BY FS_Union
<1> QED
  BY <1>1, <1>2, <1>3

-----------------------------------------------------------------------------
(* The batcher. That nothing pends exactly when no byte does is what lets  *)
(* the code test the one and flush the other.                              *)

Batch == [payloads : Seq(Events), bytes : Nat]

BatcherTypeOK ==
  /\ pending \in Seq(Events) /\ bytes \in Nat
  /\ armed \in BOOLEAN /\ late \in Nat
  /\ calls \in Seq(Batch)
  /\ pushed \in Seq(Events) /\ handed \in Seq(Events)

BytesPend == bytes = 0 <=> pending = <<>>

BatcherInv == BatcherTypeOK /\ BytesPend /\ HandedOnce /\ BatchBounded /\ PendingHasTimer

LEMMA BatcherInitInv == BatcherInit => BatcherInv
<1> SUFFICES ASSUME BatcherInit PROVE BatcherInv
  OBVIOUS
<1>1. HandedOnce
  BY EmptySeq, ConcatEmptySeq DEF BatcherInit, HandedOnce
<1>2. BatchBounded /\ PendingHasTimer
  BY BatcherAssumption DEF BatcherInit, BatchBounded, PendingHasTimer
<1>3. BatcherTypeOK /\ BytesPend
  BY EmptySeq DEF BatcherInit, BatcherTypeOK, BytesPend
<1> QED
  BY <1>1, <1>2, <1>3 DEF BatcherInv

\* What a flush adds to the calls is the batch that was pending.
LEMMA FlushAppends ==
  ASSUME BatcherInv, Flush
  PROVE  /\ calls' \in Seq(Batch) /\ handed' \in Seq(Events)
         /\ handed' = pushed
         /\ \A i \in DOMAIN calls' : calls'[i].bytes <= BatchSize \/ Len(calls'[i].payloads) = 1
<1> DEFINE b == [payloads |-> pending, bytes |-> bytes]
<1>1. b \in Batch /\ calls' = Append(calls, b) /\ handed' = handed \o pending
  BY DEF Flush, BatcherInv, BatcherTypeOK, Batch
<1>2. calls \in Seq(Batch) /\ handed \in Seq(Events) /\ pending \in Seq(Events)
  BY DEF BatcherInv, BatcherTypeOK
<1>3. b.bytes <= BatchSize \/ Len(b.payloads) = 1
  BY DEF BatcherInv, BatchBounded
<1> HIDE DEF b
<1>4. /\ calls' \in Seq(Batch) /\ DOMAIN calls' = 1..(Len(calls) + 1)
      /\ \A i \in 1..Len(calls) : calls'[i] = calls[i]
      /\ calls'[Len(calls) + 1] = b
      /\ DOMAIN calls = 1..Len(calls) /\ Len(calls) \in Nat
  BY <1>1, <1>2, AppendProperties, LenProperties
<1>5. \A i \in DOMAIN calls' : calls'[i].bytes <= BatchSize \/ Len(calls'[i].payloads) = 1
  BY <1>3, <1>4 DEF BatcherInv, BatchBounded
<1> QED
  BY <1>1, <1>2, <1>4, <1>5, ConcatProperties DEF BatcherInv, HandedOnce

LEMMA PushKeepsInv ==
  ASSUME BatcherInv, NEW e \in Events, Push(e)
  PROVE  BatcherInv'
<1>1. /\ pending \in Seq(Events) /\ handed \in Seq(Events) /\ pushed \in Seq(Events)
      /\ bytes \in Nat /\ late \in Nat /\ armed \in BOOLEAN /\ calls \in Seq(Batch)
      /\ Size[e] \in Nat \ {0} /\ BatchSize \in Nat \ {0}
  BY BatcherAssumption DEF BatcherInv, BatcherTypeOK
<1>2. pushed' = Append(pushed, e) /\ pushed' \in Seq(Events) /\ late' = late
  BY <1>1, AppendProperties DEF Push
<1>3. /\ <<e>> \in Seq(Events) /\ Len(<<e>>) = 1
      /\ Append(pending, e) \in Seq(Events) /\ Append(pending, e) # <<>>
      /\ <<e>> = Append(<<>>, e) /\ <<e>> # <<>>
  BY <1>1, AppendProperties, EmptySeq
<1>4. \A s, t \in Seq(Events) : Append(s \o t, e) = s \o Append(t, e)
  <2> SUFFICES ASSUME NEW s \in Seq(Events), NEW t \in Seq(Events)
               PROVE  Append(s \o t, e) = s \o Append(t, e)
    OBVIOUS
  <2>1. s \o t \in Seq(Events) /\ Append(s \o t, e) = (s \o t) \o <<e>>
    BY ConcatProperties, AppendIsConcat
  <2>2. Append(t, e) = t \o <<e>>
    BY AppendIsConcat
  <2> QED
    BY <1>3, <2>1, <2>2, ConcatAssociative
<1>5. \A s \in Seq(Events) : s \o <<e>> = Append(s, e)
  BY AppendIsConcat
<1>6. CASE bytes = 0 /\ ScheduleFlushInterval /\ Hold(Append(pending, e), Size[e])
             /\ UNCHANGED <<calls, handed>>
  <2>1. pending = <<>> /\ pending' = <<e>> /\ bytes' = Size[e] /\ armed' = TRUE
        /\ calls' = calls /\ handed' = handed
    BY <1>3, <1>6 DEF BatcherInv, BytesPend, Hold, ScheduleFlushInterval
  <2>2. HandedOnce'
    BY <1>1, <1>2, <1>3, <1>4, <2>1 DEF BatcherInv, HandedOnce
  <2>3. BatchBounded'
    BY <1>3, <2>1 DEF BatcherInv, BatchBounded
  <2>4. PendingHasTimer'
    BY <2>1 DEF PendingHasTimer
  <2>5. BatcherTypeOK' /\ BytesPend'
    BY <1>1, <1>2, <1>3, <2>1 DEF BatcherTypeOK, BytesPend
  <2> QED
    BY <2>2, <2>3, <2>4, <2>5 DEF BatcherInv
<1>7. CASE bytes > 0 /\ Flush /\ ScheduleFlushInterval /\ Hold(<<e>>, Size[e])
  <2>1. pending' = <<e>> /\ bytes' = Size[e] /\ armed' = TRUE
    BY <1>7 DEF Hold, ScheduleFlushInterval
  <2>2. /\ calls' \in Seq(Batch) /\ handed' \in Seq(Events) /\ handed' = pushed
        /\ \A i \in DOMAIN calls' : calls'[i].bytes <= BatchSize \/ Len(calls'[i].payloads) = 1
    BY <1>7, FlushAppends
  <2>3. HandedOnce'
    BY <1>1, <1>2, <1>5, <2>1, <2>2 DEF HandedOnce
  <2>4. BatchBounded'
    BY <1>3, <2>1, <2>2 DEF BatchBounded
  <2>5. PendingHasTimer'
    BY <2>1 DEF PendingHasTimer
  <2>6. BatcherTypeOK' /\ BytesPend'
    BY <1>1, <1>2, <1>3, <2>1, <2>2 DEF BatcherTypeOK, BytesPend
  <2> QED
    BY <2>3, <2>4, <2>5, <2>6 DEF BatcherInv
<1>8. CASE bytes > 0 /\ ~Overflows(e) /\ Hold(Append(pending, e), bytes + Size[e])
             /\ UNCHANGED <<armed, calls, handed>>
  <2>1. pending' = Append(pending, e) /\ bytes' = bytes + Size[e] /\ armed' = armed
        /\ calls' = calls /\ handed' = handed /\ bytes' <= BatchSize
    BY <1>1, <1>8 DEF Hold, Overflows
  <2>2. HandedOnce'
    BY <1>1, <1>2, <1>4, <2>1 DEF BatcherInv, HandedOnce
  <2>3. BatchBounded'
    BY <2>1 DEF BatcherInv, BatchBounded
  <2>4. PendingHasTimer'
    BY <1>2, <1>8, <2>1 DEF BatcherInv, PendingHasTimer
  <2>5. BatcherTypeOK' /\ BytesPend'
    BY <1>1, <1>2, <1>3, <2>1 DEF BatcherTypeOK, BytesPend
  <2> QED
    BY <2>2, <2>3, <2>4, <2>5 DEF BatcherInv
<1> QED
  BY <1>6, <1>7, <1>8 DEF Push

LEMMA TimerFiresKeepsInv ==
  ASSUME BatcherInv, TimerFires
  PROVE  BatcherInv'
<1>1. /\ armed' = FALSE /\ late' = late + 1 /\ late \in Nat
      /\ UNCHANGED <<pending, bytes, calls, pushed, handed>>
  BY DEF TimerFires, BatcherInv, BatcherTypeOK
<1>2. late' \in Nat /\ late' > 0
  BY <1>1
<1>3. PendingHasTimer'
  BY <1>2 DEF PendingHasTimer
<1> QED
  BY <1>1, <1>2, <1>3
     DEF BatcherInv, BatcherTypeOK, BytesPend, HandedOnce, BatchBounded

LEMMA FlushOnTimerKeepsInv ==
  ASSUME BatcherInv, FlushOnTimer
  PROVE  BatcherInv'
<1>1. late' = late - 1 /\ late' \in Nat /\ armed' = armed /\ pushed' = pushed
  BY DEF FlushOnTimer, BatcherInv, BatcherTypeOK
<1>2. CASE bytes = 0 /\ UNCHANGED <<pending, bytes, calls, handed>>
  <2>1. PendingHasTimer'
    BY <1>2 DEF PendingHasTimer
  <2> QED
    BY <1>1, <1>2, <2>1
       DEF BatcherInv, BatcherTypeOK, BytesPend, HandedOnce, BatchBounded
<1>3. CASE Flush /\ Hold(<<>>, 0)
  <2>1. pending' = <<>> /\ bytes' = 0
    BY <1>3 DEF Hold
  <2>2. /\ calls' \in Seq(Batch) /\ handed' \in Seq(Events) /\ handed' = pushed
        /\ \A i \in DOMAIN calls' : calls'[i].bytes <= BatchSize \/ Len(calls'[i].payloads) = 1
    BY <1>3, FlushAppends
  <2>3. HandedOnce'
    BY <1>1, <2>1, <2>2, ConcatEmptySeq DEF HandedOnce
  <2>4. BatchBounded' /\ PendingHasTimer'
    BY <2>1, <2>2, BatcherAssumption DEF BatchBounded, PendingHasTimer
  <2>5. BatcherTypeOK' /\ BytesPend'
    BY <1>1, <2>1, <2>2, EmptySeq DEF BatcherTypeOK, BytesPend, BatcherInv
  <2> QED
    BY <2>3, <2>4, <2>5 DEF BatcherInv
<1> QED
  BY <1>2, <1>3 DEF FlushOnTimer

LEMMA BatcherStutterKeepsInv ==
  ASSUME BatcherInv, UNCHANGED batcherVars
  PROVE  BatcherInv'
BY DEF batcherVars, BatcherInv, BatcherTypeOK, BytesPend, HandedOnce, BatchBounded,
       PendingHasTimer

LEMMA BatcherNextInv == BatcherInv /\ [Next]_vars => BatcherInv'
<1> SUFFICES ASSUME BatcherInv, [Next]_vars PROVE BatcherInv'
  OBVIOUS
<1>1. ASSUME NEW e \in Events, ElasticsearchPost(e) PROVE BatcherInv'
  BY <1>1, PushKeepsInv DEF ElasticsearchPost
<1>2. CASE FlushTimer
  BY <1>2, TimerFiresKeepsInv, FlushOnTimerKeepsInv DEF FlushTimer, BatcherStep
<1>3. CASE StartPost
  BY <1>3, BatcherStutterKeepsInv DEF StartPost
<1>4. ASSUME NEW i \in DOMAIN posts, Acquire(i) \/ Answer(i) PROVE BatcherInv'
  BY <1>4, BatcherStutterKeepsInv DEF Acquire, Answer
<1>5. CASE UNCHANGED vars
  BY <1>5, BatcherStutterKeepsInv DEF vars
<1> QED
  BY <1>1, <1>2, <1>3, <1>4, <1>5 DEF Next

\* The batcher's variables stay within their types, and what is proved of them below
\* follows from one inductive invariant.
THEOREM BatcherInvariant == Spec => []BatcherInv
<1>1. Init => BatcherInv
  BY BatcherInitInv DEF Init
<1> QED
  BY <1>1, BatcherNextInv, PTL DEF Spec

\* Whatever overflows and timers, on time or late, have flushed, each event pushed was
\* handed to the callback once, or is pending, in the order of the pushes (Batcher.flush).
THEOREM BatcherHandsOnce == Spec => []HandedOnce
BY BatcherInvariant, PTL DEF BatcherInv

\* A batch is within BatchSize unless it is a single event (the test in Batcher.Push).
THEOREM BatcherBoundsBatches == Spec => []BatchBounded
BY BatcherInvariant, PTL DEF BatcherInv

\* While events are pending a timer is running, or one that has fired has yet to take the
\* mutex (scheduleFlushInterval and flushOnTimer).
THEOREM BatcherKeepsTimer == Spec => []PendingHasTimer
BY BatcherInvariant, PTL DEF BatcherInv

-----------------------------------------------------------------------------
(* No event is in two batches. It is this, of the batcher's variables, that *)
(* the counting of the output rests on.                                     *)

Payloads(i) == ToSet(calls[i].payloads)

BatchesApart ==
  /\ IsInjective(pending) /\ ToSet(pending) \subseteq ToSet(pushed)
  /\ \A i \in DOMAIN calls :
       /\ IsInjective(calls[i].payloads)
       /\ Payloads(i) \subseteq ToSet(pushed)
       /\ Payloads(i) \cap ToSet(pending) = {}
  /\ \A i, j \in DOMAIN calls : i # j => Payloads(i) \cap Payloads(j) = {}

\* The batch flushed shares nothing with the earlier ones.
LEMMA FlushApart ==
  ASSUME BatcherInv, BatchesApart, Flush
  PROVE  /\ \A i \in DOMAIN calls : i \in DOMAIN calls' /\ calls'[i] = calls[i]
         /\ \A i \in DOMAIN calls' :
              IsInjective(calls'[i].payloads) /\ Payloads(i)' \subseteq ToSet(pushed)
         /\ \A i, j \in DOMAIN calls' : i # j => Payloads(i)' \cap Payloads(j)' = {}
<1> DEFINE b == [payloads |-> pending, bytes |-> bytes]
<1>1. PICK k \in Nat \ {0} :
        /\ DOMAIN calls' = 1..k /\ DOMAIN calls = 1..(k - 1)
        /\ \A i \in 1..(k - 1) : calls'[i] = calls[i]
        /\ calls'[k] = b
  <2> DEFINE k == Len(calls) + 1
  <2>1. calls \in Seq(Batch) /\ b \in Batch /\ calls' = Append(calls, b)
    BY DEF Flush, BatcherInv, BatcherTypeOK, Batch
  <2> HIDE DEF b
  <2>2. k \in Nat \ {0} /\ DOMAIN calls = 1..(k - 1) /\ Len(calls) = k - 1
    BY <2>1, LenProperties
  <2>3. /\ DOMAIN Append(calls, b) = 1..k
        /\ \A i \in 1..(k - 1) : Append(calls, b)[i] = calls[i]
        /\ Append(calls, b)[k] = b
    BY <2>1, <2>2, AppendProperties, LenProperties
  <2> HIDE DEF k
  <2> QED
    BY <2>1, <2>2, <2>3
<1>2. b.payloads = pending
  OBVIOUS
<1> HIDE DEF b
<1>3. /\ \A i \in DOMAIN calls : i \in DOMAIN calls' /\ calls'[i] = calls[i]
      /\ \A i \in DOMAIN calls' : i \in DOMAIN calls \/ i = k
  BY <1>1
<1>4. /\ \A i \in DOMAIN calls : Payloads(i)' = Payloads(i)
      /\ Payloads(k)' = ToSet(pending)
  BY <1>1, <1>2, <1>3 DEF Payloads
<1>5. \A i \in DOMAIN calls' :
        IsInjective(calls'[i].payloads) /\ Payloads(i)' \subseteq ToSet(pushed)
  BY <1>1, <1>2, <1>3, <1>4 DEF BatchesApart
<1>6. ASSUME NEW i \in DOMAIN calls', NEW j \in DOMAIN calls', i # j
      PROVE  Payloads(i)' \cap Payloads(j)' = {}
  BY <1>3, <1>4, <1>6 DEF BatchesApart
<1> QED
  BY <1>3, <1>5, <1>6

LEMMA PushApart ==
  ASSUME BatcherInv, BatchesApart, NEW e \in Events, e \notin ToSet(pushed), Push(e)
  PROVE  /\ BatchesApart'
         /\ \A i \in DOMAIN calls : i \in DOMAIN calls' /\ calls'[i] = calls[i]
<1>1. /\ pending \in Seq(Events) /\ pushed \in Seq(Events) /\ e \notin ToSet(pending)
  BY DEF BatcherInv, BatcherTypeOK, BatchesApart
<1>2. ToSet(pushed') = ToSet(pushed) \cup {e}
  BY <1>1, AppendToSet DEF Push
<1>3. /\ ToSet(Append(pending, e)) = ToSet(pending) \cup {e}
      /\ IsInjective(Append(pending, e))
  BY <1>1, AppendToSet DEF BatchesApart
<1>4. ToSet(<<e>>) = {e} /\ IsInjective(<<e>>)
  <2>1. DOMAIN <<e>> = {1} /\ <<e>>[1] = e
    OBVIOUS
  <2> QED
    BY <2>1 DEF ToSet, IsInjective
<1>5. CASE pending' = Append(pending, e) /\ calls' = calls
  BY <1>2, <1>3, <1>5 DEF BatchesApart, Payloads
<1>6. CASE Flush /\ pending' = <<e>>
  <2>1. \A i \in DOMAIN calls' :
          /\ IsInjective(calls'[i].payloads)
          /\ Payloads(i)' \subseteq ToSet(pushed')
          /\ Payloads(i)' \cap ToSet(pending') = {}
    BY <1>2, <1>4, <1>6, FlushApart
  <2> QED
    BY <1>2, <1>4, <1>6, <2>1, FlushApart DEF BatchesApart
<1> QED
  BY <1>5, <1>6 DEF Push, Hold

LEMMA FlushOnTimerApart ==
  ASSUME BatcherInv, BatchesApart, FlushOnTimer
  PROVE  /\ BatchesApart'
         /\ \A i \in DOMAIN calls : i \in DOMAIN calls' /\ calls'[i] = calls[i]
<1>1. CASE UNCHANGED <<pending, calls, pushed>>
  BY <1>1 DEF BatchesApart, Payloads
<1>2. CASE Flush /\ pending' = <<>> /\ pushed' = pushed
  BY <1>2, FlushApart, EmptyToSet DEF BatchesApart
<1> QED
  BY <1>1, <1>2 DEF FlushOnTimer, Hold

-----------------------------------------------------------------------------
(* The requests and the counts. Started and Answered are the events whose  *)
(* request has begun and has ended.                                        *)

Started == UNION {Payloads(i) : i \in DOMAIN posts}
Answered == UNION {Payloads(i) : i \in {j \in DOMAIN posts : posts[j] = "done"}}

PostsTypeOK ==
  /\ posts \in Seq({"waiting", "sent", "done"}) /\ Len(posts) <= Len(calls)
  /\ total \in Nat /\ ok \in Nat /\ error \in Nat
  /\ indexed \subseteq Events /\ unread \subseteq Events

\* Every event whose request ended is counted once, as a success or as an error, and every
\* event whose request began once in the total.
CountedOnce ==
  /\ IsFiniteSet(Started) /\ total = Cardinality(Started)
  /\ IsFiniteSet(Answered) /\ ok + error = Cardinality(Answered)

\* Only what was in an answered request can be in the index, or have been lost with a body.
IndexedInv == indexed \union unread \subseteq Answered /\ BulkOkMeansIndexed

BulkInv == BatcherInv /\ BatchesApart /\ PostsTypeOK /\ CountedOnce /\ IndexedInv

LEMMA BulkInitInv == Init => BulkInv
<1> SUFFICES ASSUME Init PROVE BulkInv
  OBVIOUS
<1>1. DOMAIN posts = {} /\ DOMAIN calls = {} /\ Len(posts) = 0 /\ Len(calls) = 0
  BY DEF Init, BatcherInit
<1>2. Started = {} /\ Answered = {}
  BY <1>1 DEF Started, Answered
<1>3. CountedOnce /\ IndexedInv
  BY <1>2, FS_EmptySet DEF Init, CountedOnce, IndexedInv, BulkOkMeansIndexed
<1>4. PostsTypeOK
  BY <1>1, EmptySeq DEF Init, PostsTypeOK
<1>5. BatchesApart
  BY <1>1, EmptyToSet DEF Init, BatcherInit, BatchesApart
<1> QED
  BY <1>3, <1>4, <1>5, BatcherInitInv DEF Init, BulkInv

\* While the batcher works the requests stay what they are.
LEMMA CountsStay ==
  ASSUME BulkInv, BatcherInv', BatchesApart', UNCHANGED <<posts, indexed, unread, countVars>>,
         \A i \in DOMAIN calls : i \in DOMAIN calls' /\ calls'[i] = calls[i]
  PROVE  BulkInv'
<1>1. /\ DOMAIN calls = 1..Len(calls) /\ Len(calls) \in Nat
      /\ DOMAIN calls' = 1..Len(calls') /\ Len(calls') \in Nat
      /\ DOMAIN posts = 1..Len(posts) /\ Len(posts) \in Nat /\ Len(posts) <= Len(calls)
  BY LenProperties DEF BulkInv, BatcherInv, BatcherTypeOK, PostsTypeOK
<1>2. Len(calls) <= Len(calls')
  <2>1. Len(calls) = 0 \/ Len(calls) \in DOMAIN calls
    BY <1>1
  <2> QED
    BY <1>1, <2>1
<1>3. PostsTypeOK'
  BY <1>1, <1>2 DEF BulkInv, PostsTypeOK, countVars
<1>4. \A i \in DOMAIN posts : Payloads(i)' = Payloads(i)
  BY <1>1 DEF Payloads
<1>5. Started' = Started /\ Answered' = Answered
  BY <1>4 DEF Started, Answered
<1>6. CountedOnce' /\ IndexedInv'
  BY <1>5 DEF BulkInv, CountedOnce, IndexedInv, BulkOkMeansIndexed, countVars
<1> QED
  BY <1>3, <1>6 DEF BulkInv

\* What a request adds to the counts is disjoint from what they have counted.
LEMMA PayloadsOfCall ==
  ASSUME BulkInv, NEW i \in DOMAIN calls
  PROVE  /\ IsFiniteSet(Payloads(i)) /\ Cardinality(Payloads(i)) = Len(calls[i].payloads)
         /\ Payloads(i) \subseteq Events /\ Len(calls[i].payloads) \in Nat
         /\ i \notin DOMAIN posts => Started \cap Payloads(i) = {}
         /\ i \in DOMAIN posts /\ posts[i] # "done" => Answered \cap Payloads(i) = {}
<1>1. calls[i] \in Batch /\ DOMAIN calls = 1..Len(calls)
  BY ElementOfSeq, LenProperties DEF BulkInv, BatcherInv, BatcherTypeOK
<1>2. calls[i].payloads \in Seq(Events) /\ IsInjective(calls[i].payloads)
  BY <1>1 DEF Batch, BulkInv, BatchesApart
<1>3. /\ IsFiniteSet(Payloads(i)) /\ Cardinality(Payloads(i)) = Len(calls[i].payloads)
      /\ Payloads(i) \subseteq Events /\ Len(calls[i].payloads) \in Nat
  BY <1>2, LengthOfSet, EmptyToSet, LenProperties DEF Payloads
<1>4. DOMAIN posts \subseteq DOMAIN calls
  BY <1>1, LenProperties DEF BulkInv, PostsTypeOK, BatcherInv, BatcherTypeOK
<1>5. \A j \in DOMAIN posts : j # i => Payloads(j) \cap Payloads(i) = {}
  BY <1>4 DEF BulkInv, BatchesApart
<1>6. i \notin DOMAIN posts => Started \cap Payloads(i) = {}
  BY <1>5 DEF Started
<1>7. i \in DOMAIN posts /\ posts[i] # "done" => Answered \cap Payloads(i) = {}
  BY <1>5 DEF Answered
<1> QED
  BY <1>3, <1>6, <1>7

LEMMA StartPostKeepsInv ==
  ASSUME BulkInv, StartPost
  PROVE  BulkInv'
<1> DEFINE i == Len(posts) + 1
<1>1. /\ posts \in Seq({"waiting", "sent", "done"}) /\ Len(posts) \in Nat
      /\ DOMAIN posts = 1..Len(posts) /\ DOMAIN calls = 1..Len(calls) /\ Len(calls) \in Nat
  BY LenProperties DEF BulkInv, PostsTypeOK, BatcherInv, BatcherTypeOK
<1>2. i \in DOMAIN calls /\ i \notin DOMAIN posts
  BY <1>1 DEF StartPost
<1>3. /\ posts' \in Seq({"waiting", "sent", "done"}) /\ Len(posts') = i
      /\ DOMAIN posts' = 1..i
      /\ \A j \in 1..Len(posts) : posts'[j] = posts[j]
      /\ posts'[i] = "waiting"
  BY <1>1, AppendProperties, LenProperties DEF StartPost
<1>4. /\ total' = total + Len(calls[i].payloads)
      /\ UNCHANGED <<batcherVars, indexed, unread, ok, error>>
  BY DEF StartPost
<1>5. /\ IsFiniteSet(Payloads(i)) /\ Cardinality(Payloads(i)) = Len(calls[i].payloads)
      /\ Len(calls[i].payloads) \in Nat /\ Started \cap Payloads(i) = {}
  BY <1>2, PayloadsOfCall
<1> HIDE DEF i
<1>6. DOMAIN posts' = DOMAIN posts \cup {i}
  BY <1>1, <1>3 DEF i
<1>7. BatcherInv' /\ calls' = calls
  BY <1>4, BatcherStutterKeepsInv DEF BulkInv, batcherVars
<1>8. BatchesApart' /\ \A j : Payloads(j)' = Payloads(j)
  BY <1>4 DEF BulkInv, BatchesApart, Payloads, batcherVars
<1>9. Started' = Started \cup Payloads(i)
  BY <1>6, <1>8 DEF Started
<1>10. {j \in DOMAIN posts' : posts'[j] = "done"} = {j \in DOMAIN posts : posts[j] = "done"}
  BY <1>1, <1>2, <1>3, <1>6
<1>11. Answered' = Answered
  BY <1>8, <1>10 DEF Answered
<1>12. CountedOnce'
  <2>1. IsFiniteSet(Started') /\ Cardinality(Started') = total'
    BY <1>4, <1>5, <1>9, DisjointUnion DEF BulkInv, CountedOnce
  <2> QED
    BY <1>4, <1>11, <2>1 DEF BulkInv, CountedOnce
<1>13. IndexedInv'
  BY <1>4, <1>11 DEF BulkInv, IndexedInv, BulkOkMeansIndexed
<1>14. Len(posts') <= Len(calls')
  BY <1>1, <1>2, <1>3, <1>7
<1>15. PostsTypeOK'
  <2>1. total' \in Nat
    BY <1>4, <1>5 DEF BulkInv, PostsTypeOK
  <2> QED
    BY <1>3, <1>4, <1>14, <2>1 DEF BulkInv, PostsTypeOK
<1> QED
  BY <1>7, <1>8, <1>12, <1>13, <1>15 DEF BulkInv

\* A request that moves on is still the request of its batch.
LEMMA PostMoves ==
  ASSUME BulkInv, NEW i \in DOMAIN posts, NEW state \in {"sent", "done"},
         posts' = [posts EXCEPT ![i] = state], UNCHANGED batcherVars
  PROVE  /\ i \in DOMAIN calls /\ posts' \in Seq({"waiting", "sent", "done"})
         /\ DOMAIN posts' = DOMAIN posts /\ Len(posts') <= Len(calls')
         /\ BatcherInv' /\ BatchesApart' /\ \A j : Payloads(j)' = Payloads(j)
         /\ Started' = Started
         /\ {j \in DOMAIN posts' : posts'[j] = "done"}
              = IF state = "done" THEN {j \in DOMAIN posts : posts[j] = "done"} \cup {i}
                ELSE {j \in DOMAIN posts : posts[j] = "done"} \ {i}
<1>1. /\ posts \in Seq({"waiting", "sent", "done"}) /\ Len(posts) \in Nat
      /\ DOMAIN posts = 1..Len(posts) /\ DOMAIN calls = 1..Len(calls) /\ Len(calls) \in Nat
      /\ Len(posts) <= Len(calls)
  BY LenProperties DEF BulkInv, PostsTypeOK, BatcherInv, BatcherTypeOK
<1>2. /\ posts' \in Seq({"waiting", "sent", "done"}) /\ Len(posts') = Len(posts)
      /\ DOMAIN posts' = DOMAIN posts
      /\ \A j \in DOMAIN posts : posts'[j] = IF j = i THEN state ELSE posts[j]
  BY <1>1, ExceptSeq
<1>3. BatcherInv' /\ BatchesApart' /\ calls' = calls /\ \A j : Payloads(j)' = Payloads(j)
  BY BatcherStutterKeepsInv DEF BulkInv, BatchesApart, Payloads, batcherVars
<1>4. Started' = Started
  BY <1>2, <1>3 DEF Started
<1> QED
  BY <1>1, <1>2, <1>3, <1>4

LEMMA AcquireKeepsInv ==
  ASSUME BulkInv, NEW i \in DOMAIN posts, Acquire(i)
  PROVE  BulkInv'
<1>1. /\ posts[i] = "waiting" /\ posts' = [posts EXCEPT ![i] = "sent"]
      /\ UNCHANGED <<batcherVars, indexed, unread, countVars>>
  BY DEF Acquire
<1>2. /\ i \in DOMAIN calls /\ posts' \in Seq({"waiting", "sent", "done"})
      /\ Len(posts') <= Len(calls')
      /\ BatcherInv' /\ BatchesApart' /\ \A j : Payloads(j)' = Payloads(j)
      /\ Started' = Started
      /\ {j \in DOMAIN posts' : posts'[j] = "done"} = {j \in DOMAIN posts : posts[j] = "done"}
  BY <1>1, PostMoves
<1>3. Answered' = Answered
  BY <1>2 DEF Answered
<1>4. CountedOnce' /\ IndexedInv'
  BY <1>1, <1>2, <1>3
     DEF BulkInv, CountedOnce, IndexedInv, BulkOkMeansIndexed, countVars
<1>5. PostsTypeOK'
  BY <1>1, <1>2 DEF BulkInv, PostsTypeOK, countVars
<1> QED
  BY <1>2, <1>4, <1>5 DEF BulkInv

\* An answer counts every event of the batch, and as successes at most as many as it adds
\* to the index or loses with the body.
LEMMA AnswerCounts ==
  ASSUME BulkInv, NEW i \in DOMAIN calls, NEW taken \in SUBSET Payloads(i),
         PostFails(i, taken) \/ ItemsAnswered(i, taken) \/ BodyLost(i, taken)
  PROVE  \E new \in SUBSET Payloads(i) :
           /\ indexed' \union unread' = (indexed \union unread) \cup new
           /\ indexed' \subseteq indexed \cup new /\ unread' \subseteq unread \cup new
           /\ ok' \in Nat /\ error' \in Nat
           /\ ok' <= ok + Cardinality(new)
           /\ ok' + error' = ok + error + Len(calls[i].payloads)
           /\ total' = total
<1>1. /\ IsFiniteSet(Payloads(i)) /\ Cardinality(Payloads(i)) = Len(calls[i].payloads)
      /\ Len(calls[i].payloads) \in Nat
  BY PayloadsOfCall
<1>2. /\ IsFiniteSet(taken) /\ Cardinality(taken) \in Nat
      /\ Cardinality(taken) <= Len(calls[i].payloads)
  BY <1>1, FS_Subset, FS_CardinalityType
<1>3. ok \in Nat /\ error \in Nat
  BY DEF BulkInv, PostsTypeOK
<1>4. ASSUME PostFails(i, taken) \/ ItemsAnswered(i, taken)
      PROVE  /\ indexed' = indexed \cup taken /\ unread' = unread /\ total' = total
             /\ ok' \in Nat /\ error' \in Nat /\ ok' <= ok + Cardinality(taken)
             /\ ok' + error' = ok + error + Len(calls[i].payloads)
  <2> DEFINE n == Len(calls[i].payloads)
             k == Cardinality(taken)
  <2>1. CASE PostFails(i, taken)
    <3>1. /\ indexed' = indexed \cup taken /\ unread' = unread /\ total' = total
          /\ error' = error + n /\ ok' = ok + 0
      BY <2>1 DEF PostFails, CountResult, AllFailed
    <3>2. n \in Nat /\ k \in Nat
      BY <1>1, <1>2
    <3> HIDE DEF n, k
    <3>3. ok' \in Nat /\ error' \in Nat /\ ok' <= ok + k /\ ok' + error' = ok + error + n
      BY <1>3, <3>1, <3>2
    <3> QED
      BY <3>1, <3>3 DEF n, k
  <2>2. CASE ItemsAnswered(i, taken)
    <3>1. /\ indexed' = indexed \cup taken /\ unread' = unread /\ total' = total
          /\ error' = error + (n - k) /\ ok' = ok + k
      BY <2>2 DEF ItemsAnswered, CountResult, ItemsCounted
    <3>2. n \in Nat /\ k \in Nat /\ k <= n
      BY <1>1, <1>2
    <3> HIDE DEF n, k
    <3>3. ok' \in Nat /\ error' \in Nat /\ ok' <= ok + k /\ ok' + error' = ok + error + n
      BY <1>3, <3>1, <3>2
    <3> QED
      BY <3>1, <3>3 DEF n, k
  <2> QED
    BY <1>4, <2>1, <2>2
<1>5. CASE PostFails(i, taken) \/ ItemsAnswered(i, taken)
  <2>1. indexed' \union unread' = (indexed \union unread) \cup taken
    BY <1>4, <1>5
  <2> QED
    BY <1>4, <1>5, <2>1
<1>6. CASE BodyLost(i, taken)
  <2> DEFINE new == Payloads(i)
  <2>1. /\ indexed' = indexed \cup taken /\ unread' = unread \cup new /\ total' = total
        /\ error' = error + 0 /\ ok' = ok + Len(calls[i].payloads)
    BY <1>6 DEF BodyLost, CountResult, AllSucceeded, Payloads
  <2>2. /\ indexed' \union unread' = (indexed \union unread) \cup new
        /\ indexed' \subseteq indexed \cup new /\ unread' \subseteq unread \cup new
    BY <2>1
  <2>3. /\ ok' \in Nat /\ error' \in Nat /\ ok' <= ok + Cardinality(new)
        /\ ok' + error' = ok + error + Len(calls[i].payloads)
    <3>1. PICK n \in Nat : n = Len(calls[i].payloads) /\ n = Cardinality(new)
      BY <1>1
    <3>2. error' = error + 0 /\ ok' = ok + n
      BY <2>1, <3>1
    <3>3. ok' \in Nat /\ error' \in Nat /\ ok' <= ok + n /\ ok' + error' = ok + error + n
      BY <1>3, <3>2
    <3> QED
      BY <3>1, <3>3
  <2>4. new \in SUBSET Payloads(i)
    OBVIOUS
  <2> HIDE DEF new
  <2> QED
    BY <2>1, <2>2, <2>3, <2>4
<1> QED
  BY <1>5, <1>6

LEMMA AnswerKeepsInv ==
  ASSUME BulkInv, NEW i \in DOMAIN posts, Answer(i)
  PROVE  BulkInv'
<1>1. /\ posts[i] = "sent" /\ posts' = [posts EXCEPT ![i] = "done"]
      /\ UNCHANGED batcherVars
  BY DEF Answer
<1>2. /\ i \in DOMAIN calls /\ posts' \in Seq({"waiting", "sent", "done"})
      /\ Len(posts') <= Len(calls')
      /\ BatcherInv' /\ BatchesApart' /\ \A j : Payloads(j)' = Payloads(j)
      /\ Started' = Started
      /\ {j \in DOMAIN posts' : posts'[j] = "done"}
           = {j \in DOMAIN posts : posts[j] = "done"} \cup {i}
  BY <1>1, PostMoves
<1>3. Answered' = Answered \cup Payloads(i)
  BY <1>2 DEF Answered
<1>4. /\ IsFiniteSet(Payloads(i)) /\ Cardinality(Payloads(i)) = Len(calls[i].payloads)
      /\ Payloads(i) \subseteq Events /\ Answered \cap Payloads(i) = {}
  BY <1>1, <1>2, PayloadsOfCall
<1>5. PICK new \in SUBSET Payloads(i) :
           /\ indexed' \union unread' = (indexed \union unread) \cup new
           /\ indexed' \subseteq indexed \cup new /\ unread' \subseteq unread \cup new
           /\ ok' \in Nat /\ error' \in Nat
           /\ ok' <= ok + Cardinality(new)
           /\ ok' + error' = ok + error + Len(calls[i].payloads)
           /\ total' = total
  <2>1. PICK taken \in SUBSET Payloads(i) :
          PostFails(i, taken) \/ ItemsAnswered(i, taken) \/ BodyLost(i, taken)
    BY DEF Answer, Payloads
  <2> QED
    BY <1>2, <2>1, AnswerCounts
<1>6. CountedOnce'
  <2>1. /\ IsFiniteSet(Answered')
        /\ Cardinality(Answered') = Cardinality(Answered) + Cardinality(Payloads(i))
    BY <1>3, <1>4, DisjointUnion DEF BulkInv, CountedOnce
  <2> QED
    BY <1>2, <1>4, <1>5, <2>1 DEF BulkInv, CountedOnce
<1>7. IndexedInv'
  <2> DEFINE old == indexed \union unread
  <2>1. /\ old \subseteq Answered /\ IsFiniteSet(old) /\ ok <= Cardinality(old)
    BY FS_Subset DEF BulkInv, CountedOnce, IndexedInv, BulkOkMeansIndexed
  <2>2. IsFiniteSet(new) /\ old \cap new = {}
    BY <1>4, <2>1, FS_Subset
  <2>3. indexed' \union unread' = old \cup new
    BY <1>5
  <2> HIDE DEF old
  <2>4. /\ Cardinality(old \cup new) = Cardinality(old) + Cardinality(new)
        /\ Cardinality(old) \in Nat /\ Cardinality(new) \in Nat
    BY <2>1, <2>2, DisjointUnion
  <2>5. ok' <= Cardinality(old \cup new)
    BY <1>5, <2>1, <2>4 DEF BulkInv, PostsTypeOK
  <2>6. old \cup new \subseteq Answered'
    BY <1>3, <2>1
  <2> QED
    BY <2>3, <2>5, <2>6 DEF IndexedInv, BulkOkMeansIndexed
<1>8. PostsTypeOK'
  BY <1>2, <1>4, <1>5 DEF BulkInv, PostsTypeOK
<1> QED
  BY <1>2, <1>6, <1>7, <1>8 DEF BulkInv

LEMMA BulkNextInv == BulkInv /\ [Next]_vars => BulkInv'
<1> SUFFICES ASSUME BulkInv, [Next]_vars PROVE BulkInv'
  OBVIOUS
<1>1. BatcherInv'
  BY BatcherNextInv DEF BulkInv
<1>2. ASSUME NEW e \in Events, ElasticsearchPost(e) PROVE BulkInv'
  BY <1>1, <1>2, PushApart, CountsStay DEF ElasticsearchPost, BulkInv
<1>3. CASE FlushTimer
  <2>1. CASE TimerFires
    <3>1. UNCHANGED <<pending, calls, pushed, posts, indexed, unread, countVars>>
      BY <1>3, <2>1 DEF FlushTimer, TimerFires
    <3>2. BatchesApart'
      BY <3>1 DEF BulkInv, BatchesApart, Payloads
    <3> QED
      BY <1>1, <3>1, <3>2, CountsStay
  <2>2. CASE FlushOnTimer
    BY <1>1, <1>3, <2>2, FlushOnTimerApart, CountsStay DEF FlushTimer, BulkInv
  <2> QED
    BY <1>3, <2>1, <2>2 DEF FlushTimer, BatcherStep
<1>4. CASE StartPost
  BY <1>4, StartPostKeepsInv
<1>5. ASSUME NEW i \in DOMAIN posts, Acquire(i) \/ Answer(i) PROVE BulkInv'
  BY <1>5, AcquireKeepsInv, AnswerKeepsInv
<1>6. CASE UNCHANGED vars
  <2>1. BatchesApart' /\ calls' = calls /\ UNCHANGED <<posts, indexed, unread, countVars>>
    BY <1>6 DEF BulkInv, BatchesApart, Payloads, vars, batcherVars
  <2> QED
    BY <1>1, <2>1, CountsStay
<1> QED
  BY <1>2, <1>3, <1>4, <1>5, <1>6 DEF Next

LEMMA BulkInvariant == Spec => []BulkInv
BY BulkInitInv, BulkNextInv, PTL DEF Spec

\* No more events are counted as successes than the server has indexed, but for those whose
\* answer could not be read: of a bulk request some items of which were rejected only the
\* others count (elasticsearchPost).
THEOREM BulkSuccessesAreIndexed == Spec => []BulkOkMeansIndexed
BY BulkInvariant, PTL DEF BulkInv, IndexedInv

\* However the requests overlap and are answered, every event of an answered request is
\* counted exactly once, and the total is the events of the requests begun
\* (the counts of elasticsearchPost and bulkPost).
THEOREM BulkCountsOnce == Spec => []CountedOnce
BY BulkInvariant, PTL DEF BulkInv

=============================================================================
