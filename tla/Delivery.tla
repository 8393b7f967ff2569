------------------------------ MODULE Delivery ------------------------------
(***************************************************************************)
(* What an output promises, with no queue, worker, retry or breaker in it: *)
(* every event offered meets exactly one fate, the three counters count    *)
(* the fates, and an event is abandoned only once delivery is cancelled.   *)
(***************************************************************************)
EXTENDS Integers, FiniteSets

CONSTANT Events

VARIABLES
  fate,       \* what has become of each event
  closed,     \* no further event is offered
  cancelled,  \* events may be abandoned
  sentTotal, failedTotal, droppedTotal

vars == <<fate, closed, cancelled, sentTotal, failedTotal, droppedTotal>>

Fates == {"new", "pending", "sent", "failed", "dropped", "lost"}

With(f) == {e \in Events : fate[e] = f}

Init ==
  /\ fate = [e \in Events |-> "new"]
  /\ closed = FALSE
  /\ cancelled = FALSE
  /\ sentTotal = 0 /\ failedTotal = 0 /\ droppedTotal = 0

Offer(e) ==
  /\ ~closed
  /\ fate[e] = "new"
  /\ fate' = [fate EXCEPT ![e] = "pending"]
  /\ UNCHANGED <<closed, cancelled, sentTotal, failedTotal, droppedTotal>>

Drop(e) ==
  /\ ~closed
  /\ fate[e] = "new"
  /\ fate' = [fate EXCEPT ![e] = "dropped"]
  /\ droppedTotal' = droppedTotal + 1
  /\ UNCHANGED <<closed, cancelled, sentTotal, failedTotal>>

\* All events of one request share its fate.
Resolved(batch, f) ==
  /\ batch # {}
  /\ batch \subseteq With("pending")
  /\ fate' = [e \in Events |-> IF e \in batch THEN f ELSE fate[e]]
  /\ UNCHANGED <<closed, cancelled, droppedTotal>>

Deliver(batch) ==
  /\ Resolved(batch, "sent")
  /\ sentTotal' = sentTotal + Cardinality(batch)
  /\ UNCHANGED failedTotal

Fail(batch) ==
  /\ Resolved(batch, "failed")
  /\ failedTotal' = failedTotal + Cardinality(batch)
  /\ UNCHANGED sentTotal

Abandon(batch) ==
  /\ cancelled
  /\ Resolved(batch, "lost")
  /\ UNCHANGED <<sentTotal, failedTotal>>

Close ==
  /\ ~closed
  /\ closed' = TRUE
  /\ UNCHANGED <<fate, cancelled, sentTotal, failedTotal, droppedTotal>>

Cancel ==
  /\ ~cancelled
  /\ cancelled' = TRUE
  /\ UNCHANGED <<fate, closed, sentTotal, failedTotal, droppedTotal>>

Next ==
  \/ \E e \in Events : Offer(e) \/ Drop(e)
  \/ \E batch \in SUBSET Events : Deliver(batch) \/ Fail(batch) \/ Abandon(batch)
  \/ Close
  \/ Cancel

Spec == Init /\ [][Next]_vars

-----------------------------------------------------------------------------
TypeOK ==
  /\ fate \in [Events -> Fates]
  /\ closed \in BOOLEAN
  /\ cancelled \in BOOLEAN
  /\ sentTotal \in Nat /\ failedTotal \in Nat /\ droppedTotal \in Nat

\* The counters of GetStatus (output.go) add up: each counts the events that
\* met its fate, and nothing is abandoned unless delivery was cancelled.
Accounting ==
  /\ sentTotal = Cardinality(With("sent"))
  /\ failedTotal = Cardinality(With("failed"))
  /\ droppedTotal = Cardinality(With("dropped"))
  /\ ~cancelled => With("lost") = {}

=============================================================================
