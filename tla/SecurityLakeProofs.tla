-------------------------- MODULE SecurityLakeProofs --------------------------
(***************************************************************************)
(* Proofs about the Security Lake output of version 2, for every size of a *)
(* segment and of a batch: the worker's offset passes nothing that was not *)
(* in an upload, and a worker that was once overrun uploads nothing any    *)
(* more.                                                                   *)
(***************************************************************************)
EXTENDS SecurityLake, Integers, TLAPS

Offsets == 0..MaxEvents - 1

TypeOK ==
  /\ written \in 0..MaxEvents
  /\ readOffset \in Nat /\ readOffset <= written
  /\ batch \subseteq Offsets
  /\ uploads \in [Offsets -> Nat]
  /\ failures \in Nat
  /\ skipped \subseteq 1..readOffset

\* The worker uploads what follows its offset, without a gap: the records it read are still
\* those, though the log may have moved past them.
BatchFollows ==
  batch # {} => \E last \in Offsets : last < written /\ batch = readOffset + 1 .. last

\* Only a failed upload can have left an event beyond the offset at S3.
UploadsFollow ==
  /\ \A i \in 1..readOffset : i \in Offsets /\ (uploads[i] > 0 \/ i \in skipped)
  /\ \A i \in Offsets :
       /\ uploads[i] <= 1 + failures
       /\ i > readOffset \/ i \in skipped => uploads[i] <= failures
  /\ uploads[0] = 0

LakeInv == TypeOK /\ BatchFollows /\ UploadsFollow

LEMMA LakeInitInv == Init => LakeInv
BY LakeAssumption DEF Init, LakeInv, TypeOK, BatchFollows, UploadsFollow, Offsets

LEMMA EnqueueKeepsInv == LakeInv /\ Enqueue => LakeInv'
BY LakeAssumption DEF Enqueue, LakeInv, TypeOK, BatchFollows, UploadsFollow, Offsets

LEMMA ReadBatchKeepsInv == LakeInv /\ ReadBatch => LakeInv'
<1> SUFFICES ASSUME LakeInv, ReadBatch PROVE LakeInv'
  OBVIOUS
<1>1. /\ batch' = {i \in readOffset + 1 .. readOffset + BatchSize : i < written}
      /\ batch' # {} /\ UNCHANGED <<written, readOffset, uploads, failures, skipped>>
      /\ written \in 0..MaxEvents /\ readOffset \in Nat
      /\ BatchSize \in Nat \ {0} /\ MaxEvents \in Nat \ {0}
  BY LakeAssumption DEF ReadBatch, LakeInv, TypeOK
<1>2. batch' \subseteq Offsets
  BY <1>1 DEF Offsets
<1>3. \E last \in Offsets : last < written /\ batch' = readOffset + 1 .. last
  <2>1. CASE readOffset + BatchSize < written
    <3>1. batch' = readOffset + 1 .. readOffset + BatchSize
      BY <1>1, <2>1
    <3> QED
      BY <1>1, <2>1, <3>1 DEF Offsets
  <2>2. CASE ~(readOffset + BatchSize < written)
    <3>1. batch' = readOffset + 1 .. written - 1 /\ written > 0
      BY <1>1, <2>2
    <3> QED
      BY <1>1, <2>2, <3>1 DEF Offsets
  <2> QED
    BY <2>1, <2>2
<1> QED
  BY <1>1, <1>2, <1>3 DEF LakeInv, TypeOK, BatchFollows, UploadsFollow

\* The offset becomes the last of the batch.
LEMMA LastOfBatch ==
  ASSUME LakeInv, batch # {}, PastBatch
  PROVE  /\ readOffset' \in Offsets /\ readOffset' < written /\ readOffset' > readOffset
         /\ batch = readOffset + 1 .. readOffset'
<1>1. PICK last \in Offsets : last < written /\ batch = readOffset + 1 .. last
  BY DEF LakeInv, BatchFollows
<1>2. readOffset \in Nat /\ last \in Int /\ last \in batch
  BY <1>1 DEF LakeInv, TypeOK, Offsets
<1>3. \A i \in batch : (\A j \in batch : j <= i) <=> i = last
  BY <1>1, <1>2
<1>4. readOffset' = last
  BY <1>2, <1>3 DEF PastBatch
<1> QED
  BY <1>1, <1>2, <1>4

LEMMA UploadOKKeepsInv == LakeInv /\ UploadOK => LakeInv'
<1> SUFFICES ASSUME LakeInv, UploadOK PROVE LakeInv'
  OBVIOUS
<1>1. /\ readOffset' \in Offsets /\ readOffset' < written /\ readOffset' > readOffset
      /\ batch = readOffset + 1 .. readOffset'
  BY LastOfBatch DEF UploadOK
<1>2. PICK kept \in SUBSET batch : Taken(kept) /\ skipped' = skipped \union (batch \ kept)
  BY DEF UploadOK
<1>3. /\ batch' = {} /\ written' = written /\ failures' = failures
      /\ written \in 0..MaxEvents /\ readOffset \in Nat /\ readOffset' \in Nat
      /\ uploads \in [Offsets -> Nat] /\ failures \in Nat /\ skipped \subseteq 1..readOffset
  BY <1>1 DEF UploadOK, LakeInv, TypeOK, Offsets
<1>4. /\ uploads' \in [Offsets -> Nat]
      /\ \A i \in Offsets : uploads'[i] = IF i \in kept THEN uploads[i] + 1 ELSE uploads[i]
  BY <1>2, <1>3 DEF Taken
<1>5. skipped' \subseteq 1..readOffset'
  <2>1. batch \subseteq 1..readOffset' /\ skipped \subseteq 1..readOffset'
    BY <1>1, <1>3
  <2> QED
    BY <1>2, <2>1
<1>6. TypeOK' /\ BatchFollows'
  BY <1>1, <1>3, <1>4, <1>5 DEF TypeOK, BatchFollows
<1>7. UploadsFollow'
  <2>1. ASSUME NEW i \in 1..readOffset'
        PROVE  i \in Offsets /\ (uploads'[i] > 0 \/ i \in skipped')
    <3>1. i \in Offsets /\ i \in Nat
      BY <1>1, <1>3, LakeAssumption DEF Offsets
    <3>2. CASE i \in kept
      BY <1>3, <1>4, <3>1, <3>2
    <3>3. CASE i \in batch \ kept
      BY <1>2, <3>1, <3>3
    <3>4. CASE i \notin batch
      <4>1. i \in 1..readOffset /\ i \notin kept
        BY <1>1, <1>2, <1>3, <3>1, <3>4
      <4>2. uploads[i] > 0 \/ i \in skipped
        BY <4>1 DEF LakeInv, UploadsFollow
      <4> QED
        BY <1>2, <1>4, <3>1, <4>1, <4>2
    <3> QED
      BY <3>1, <3>2, <3>3, <3>4
  <2>2. ASSUME NEW i \in Offsets
        PROVE  /\ uploads'[i] <= 1 + failures
               /\ i > readOffset' \/ i \in skipped' => uploads'[i] <= failures
    <3>1. /\ uploads[i] <= 1 + failures /\ uploads[i] \in Nat /\ i \in Nat
          /\ i > readOffset \/ i \in skipped => uploads[i] <= failures
      BY <1>3 DEF LakeInv, UploadsFollow, Offsets
    <3>2. CASE i \in kept
      <4>1. i \in batch /\ i > readOffset /\ ~(i > readOffset') /\ i \notin skipped
        BY <1>1, <1>2, <1>3, <3>2
      <4>2. i \notin skipped'
        BY <1>2, <3>2, <4>1
      <4> QED
        BY <1>3, <1>4, <3>1, <3>2, <4>1, <4>2
    <3>3. CASE i \notin kept
      <4>1. uploads'[i] = uploads[i]
        BY <1>4, <3>3
      <4>2. i > readOffset' \/ i \in skipped' => i > readOffset \/ i \in skipped
        BY <1>1, <1>2, <1>3, <3>1
      <4> QED
        BY <3>1, <4>1, <4>2
    <3> QED
      BY <3>2, <3>3
  <2>3. uploads'[0] = 0
    <3>1. 0 \in Offsets /\ 0 \notin kept
      BY <1>1, <1>2, <1>3, LakeAssumption DEF Offsets
    <3> QED
      BY <1>4, <3>1 DEF LakeInv, UploadsFollow
  <2> QED
    BY <1>3, <2>1, <2>2, <2>3 DEF UploadsFollow
<1> QED
  BY <1>6, <1>7 DEF LakeInv

LEMMA UploadFailsKeepsInv == LakeInv /\ UploadFails => LakeInv'
<1> SUFFICES ASSUME LakeInv, UploadFails PROVE LakeInv'
  OBVIOUS
<1>1. PICK kept \in SUBSET batch : Taken(kept)
  BY DEF UploadFails
<1>2. /\ batch' = {} /\ written' = written /\ readOffset' = readOffset
      /\ failures' = failures + 1 /\ skipped' = skipped
      /\ readOffset \in Nat /\ uploads \in [Offsets -> Nat] /\ failures \in Nat
      /\ skipped \subseteq 1..readOffset
  BY DEF UploadFails, LakeInv, TypeOK
<1>3. \A i \in kept : i \in Offsets /\ i > readOffset
  BY <1>1, <1>2 DEF LakeInv, BatchFollows, TypeOK, Offsets
<1>4. /\ uploads' \in [Offsets -> Nat]
      /\ \A i \in Offsets : uploads'[i] = IF i \in kept THEN uploads[i] + 1 ELSE uploads[i]
  BY <1>1, <1>2 DEF Taken
<1>5. TypeOK' /\ BatchFollows'
  BY <1>2, <1>4 DEF LakeInv, TypeOK, BatchFollows
<1>6. UploadsFollow'
  <2>1. ASSUME NEW i \in 1..readOffset
        PROVE  i \in Offsets /\ (uploads'[i] > 0 \/ i \in skipped)
    <3>1. i \in Offsets /\ (uploads[i] > 0 \/ i \in skipped)
      BY <1>2 DEF LakeInv, UploadsFollow
    <3> QED
      BY <1>2, <1>4, <3>1
  <2>2. ASSUME NEW i \in Offsets
        PROVE  /\ uploads'[i] <= 1 + failures'
               /\ i > readOffset \/ i \in skipped => uploads'[i] <= failures'
    <3>1. /\ uploads[i] <= 1 + failures /\ uploads[i] \in Nat
          /\ i > readOffset \/ i \in skipped => uploads[i] <= failures
      BY <1>2 DEF LakeInv, UploadsFollow
    <3>2. i \in kept => uploads[i] <= failures
      BY <1>3, <3>1
    <3> QED
      BY <1>2, <1>4, <3>1, <3>2
  <2>3. uploads'[0] = 0
    <3>1. 0 \in Offsets /\ 0 \notin kept
      BY <1>2, <1>3, LakeAssumption DEF Offsets
    <3> QED
      BY <1>4, <3>1 DEF LakeInv, UploadsFollow
  <2> QED
    BY <1>2, <2>1, <2>2, <2>3 DEF UploadsFollow
<1> QED
  BY <1>5, <1>6 DEF LakeInv

LEMMA LakeInvariant == Spec => []LakeInv
<1>1. LakeInv /\ UNCHANGED vars => LakeInv'
  BY DEF vars, LakeInv, TypeOK, BatchFollows, UploadsFollow
<1>2. LakeInv /\ [Next]_vars => LakeInv'
  BY <1>1, EnqueueKeepsInv, ReadBatchKeepsInv, UploadOKKeepsInv, UploadFailsKeepsInv DEF Next
<1> QED
  BY <1>2, LakeInitInv, PTL DEF Spec

\* The worker's state stays within its types: its offset among those the log has given.
THEOREM LakeTypeCorrect == Spec => []TypeOK
BY LakeInvariant, PTL DEF LakeInv

\* The worker's offset passes an event only when it was in a batch that writeParquet has
\* answered with nil, which S3 took or which left the event out; S3 takes it twice only for
\* an upload that was answered with an error (processNextBatch, the offset it sets).
THEOREM LakeUploadsBeforePassing == Spec => []UploadedBeforePassed
<1>1. LakeInv => UploadedBeforePassed
  <2> SUFFICES ASSUME LakeInv PROVE UploadedBeforePassed
    OBVIOUS
  <2>1. DOMAIN uploads = Offsets /\ failures \in Nat
    BY DEF LakeInv, TypeOK
  <2>2. \A i \in Offsets : uploads[i] <= (IF i \in skipped THEN 0 ELSE 1) + failures
    BY <2>1 DEF LakeInv, TypeOK, UploadsFollow
  <2> QED
    BY <2>1, <2>2 DEF LakeInv, UploadsFollow, UploadedBeforePassed
<1> QED
  BY <1>1, LakeInvariant, PTL

-----------------------------------------------------------------------------
(* The worker that was overrun *)

\* A later write leaves no earlier offset in the log.
LEMMA DivMonotone ==
  ASSUME NEW a \in Nat, NEW b \in Nat, NEW d \in Nat \ {0}, a <= b
  PROVE  /\ a \div d \in Nat /\ b \div d \in Nat
         /\ a \div d <= b \div d
OBVIOUS

\* The first offset the log has, as a function of what was written.
EarliestAfter(n) ==
  IF n <= 2 * SegmentSize THEN 0 ELSE (((n - 1) \div SegmentSize) - 1) * SegmentSize

LEMMA EarliestAdvances ==
  ASSUME NEW n \in Nat
  PROVE  EarliestAfter(n) \in Int /\ EarliestAfter(n) <= EarliestAfter(n + 1)
<1> DEFINE S == SegmentSize
           p == (n - 1) \div S
           q == n \div S
<1>1. S \in Nat \ {0}
  BY LakeAssumption
<1>2. CASE n + 1 <= 2 * S
  BY <1>1, <1>2 DEF EarliestAfter
<1>3. CASE n <= 2 * S /\ n + 1 > 2 * S
  <2>1. n = S * 2
    BY <1>1, <1>3
  <2>2. n \div S = 2
    BY <1>1, <2>1
  <2> QED
    BY <1>1, <1>3, <2>2 DEF EarliestAfter
<1>4. CASE n > 2 * S
  <2>1. n - 1 \in Nat
    BY <1>1, <1>4
  <2>2. p \in Nat /\ q \in Nat /\ p <= q
    BY <1>1, <2>1, DivMonotone
  <2>3. EarliestAfter(n) = (p - 1) * S /\ EarliestAfter(n + 1) = (q - 1) * S
    BY <1>1, <1>4 DEF EarliestAfter
  <2> HIDE DEF p, q
  <2>4. (p - 1) * S <= (q - 1) * S /\ (p - 1) * S \in Int
    BY <1>1, <2>2
  <2> QED
    BY <2>3, <2>4
<1> QED
  BY <1>1, <1>2, <1>3, <1>4

\* A worker that is idle and that the log has moved past is never given a batch again.
OverrunStops == OutOfRange /\ batch = {} => OutOfRange' /\ batch' = {} /\ uploads' = uploads

\* Once the log has moved past an idle worker's offset nothing is uploaded any more: the
\* offset the error path computes is put into a copy of the configuration
\* (processNextBatch, the ErrOutOfRange case).
THEOREM LakeOverrunStops == Spec => [][OverrunStops]_vars
<1>1. ASSUME LakeInv, [Next]_vars, OutOfRange, batch = {}
      PROVE  OutOfRange' /\ batch' = {} /\ uploads' = uploads
  <2>1. CASE Enqueue
    <3>1. /\ written \in Nat /\ readOffset \in Nat /\ written' = written + 1
          /\ readOffset' = readOffset /\ batch' = batch /\ uploads' = uploads
      BY <1>1, <2>1, LakeAssumption DEF Enqueue, LakeInv, TypeOK
    <3>2. Earliest = EarliestAfter(written) /\ Earliest' = EarliestAfter(written + 1)
      BY <3>1 DEF Earliest, EarliestAfter
    <3>3. EarliestAfter(written + 1) \in Int
      BY <3>1, EarliestAdvances
    <3> QED
      BY <1>1, <3>1, <3>2, <3>3, EarliestAdvances DEF OutOfRange
  <2>2. CASE UNCHANGED vars
    BY <1>1, <2>2 DEF vars, OutOfRange, Earliest
  <2> QED
    BY <1>1, <2>1, <2>2 DEF Next, ReadBatch, UploadOK, UploadFails
<1>2. LakeInv /\ [Next]_vars => OverrunStops
  BY <1>1 DEF OverrunStops
<1> QED
  BY <1>2, LakeInvariant, PTL DEF Spec

=============================================================================
