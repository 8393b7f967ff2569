---------------------------- MODULE SecurityLake ----------------------------
(***************************************************************************)
(* The Security Lake output of version 2 (src/outputs/awssecuritylake.go): *)
(* events are written to a log in memory, and one worker reads batches of  *)
(* them and uploads each as a file. The log and S3 are external: the log   *)
(* counts from offset 0 and keeps two segments; an upload may be refused,  *)
(* or done and its answer lost. An event may not get into the file: it     *)
(* cannot be decoded again, or the Parquet writer fails.                   *)
(***************************************************************************)
EXTENDS Naturals, FiniteSets

CONSTANTS
  SegmentSize,  \* WithMaxSegmentSize
  BatchSize,
  MaxEvents,    \* bound: the events there are
  MaxFailures   \* bound: the uploads that fail

ASSUME LakeAssumption ==
  {SegmentSize, BatchSize, MaxEvents} \subseteq Nat \ {0} /\ MaxFailures \in Nat

VARIABLES
  written,     \* events in the log: their offsets are 0 .. written - 1
  readOffset,  \* *ReadOffset
  batch,       \* the offsets the worker is uploading
  uploads,     \* for each offset, how often S3 has taken it
  failures,    \* history: uploads that were answered with an error
  skipped      \* history: offsets that were left out of a file that was uploaded

vars == <<written, readOffset, batch, uploads, failures, skipped>>

\* new(memlog.Offset)
Init ==
  /\ written = 0 /\ readOffset = 0
  /\ batch = {}
  /\ uploads = [i \in 0..MaxEvents - 1 |-> 0]
  /\ failures = 0 /\ skipped = {}

\* The first offset the log still has: a full segment takes the place of the older one.
Earliest ==
  IF written <= 2 * SegmentSize THEN 0
  ELSE (((written - 1) \div SegmentSize) - 1) * SegmentSize

\* EnqueueSecurityLake is called in a goroutine of each event.
Enqueue ==
  /\ written < MaxEvents
  /\ written' = written + 1
  /\ UNCHANGED <<readOffset, batch, uploads, failures, skipped>>

\* The log has moved past the reader. The new offset is put into a copy of the
\* configuration: the worker is where it was, and tries again at once.
OutOfRange == readOffset + 1 < Earliest

\* Mutant: a batch that is not full is not uploaded.
ReadFullBatch ==
  /\ batch = {}
  /\ ~OutOfRange
  /\ readOffset + BatchSize < written
  /\ batch' = readOffset + 1 .. readOffset + BatchSize
  /\ UNCHANGED <<written, readOffset, uploads, failures, skipped>>

\* processNextBatch reads what there is, up to BatchSize.
ReadBatch ==
  /\ batch = {}
  /\ ~OutOfRange
  /\ batch' = {i \in readOffset + 1 .. readOffset + BatchSize : i < written}
  /\ batch' # {}
  /\ UNCHANGED <<written, readOffset, uploads, failures, skipped>>

Taken(offsets) == uploads' = [i \in DOMAIN uploads |->
                                IF i \in offsets THEN uploads[i] + 1 ELSE uploads[i]]

\* The offset of the last record.
PastBatch == readOffset' = CHOOSE i \in batch : \A j \in batch : j <= i

\* writeParquet returns nil. A record that json.Unmarshal or the Parquet writer refuses is
\* logged and left out, a failure of WriteStop leaves any of them out: the offset moves past
\* them all the same.
UploadOK ==
  /\ batch # {}
  /\ \E kept \in SUBSET batch : Taken(kept) /\ skipped' = skipped \union (batch \ kept)
  /\ PastBatch
  /\ batch' = {}
  /\ UNCHANGED <<written, failures>>

\* Mutant: what could not be uploaded is skipped.
UploadFailsSkipped ==
  /\ batch # {} /\ failures < MaxFailures
  /\ UNCHANGED uploads
  /\ PastBatch
  /\ failures' = failures + 1
  /\ batch' = {}
  /\ UNCHANGED <<written, skipped>>

\* writeParquet returns an error: the offset stays, and the events are read again. If it is
\* the answer that was lost, S3 has what got into the file.
UploadFails ==
  /\ batch # {} /\ failures < MaxFailures
  /\ \E kept \in SUBSET batch : Taken(kept)
  /\ failures' = failures + 1
  /\ batch' = {}
  /\ UNCHANGED <<written, readOffset, skipped>>

Next == Enqueue \/ ReadBatch \/ UploadOK \/ UploadFails

\* The worker loops for ever. Uploads fail MaxFailures times at most.
Fairness == WF_vars(ReadBatch) /\ WF_vars(UploadOK)

Spec == Init /\ [][Next]_vars /\ Fairness

-----------------------------------------------------------------------------
\* The worker's offset moves past an event only when S3 has taken it or it was left out of
\* the file that S3 took, whatever was enqueued, overwritten or refused between the read
\* and the upload; but the first event of all is never read. What S3 has more than once, or
\* has although it was left out, was in an upload that was answered with an error.
UploadedBeforePassed ==
  /\ \A i \in 1..readOffset : uploads[i] > 0 \/ i \in skipped
  /\ \A i \in DOMAIN uploads : uploads[i] <= (IF i \in skipped THEN 0 ELSE 1) + failures

\* Every event but the first is uploaded or left out of an upload in the end, unless the log
\* once overran the worker: from then on nothing is.
UploadedOrOverrun ==
  \A n \in 2..MaxEvents : written >= n ~> (uploads[n - 1] > 0 \/ n - 1 \in skipped \/ OutOfRange)

=============================================================================
