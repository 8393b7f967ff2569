------------------------------- MODULE Output -------------------------------
(***************************************************************************)
(* One output of the pipeline (internal/pipeline/output.go and worker.go): *)
(* a bounded queue filled by Enqueue, a pool of workers that drain it, a   *)
(* circuit breaker all workers share, a retry loop, and the counters that  *)
(* GetStatus reports. The driver behind it is external: a send may return  *)
(* success or an error, at any time.                                       *)
(*                                                                         *)
(* runWorker is the batch loop with a buffer that is full at one event and *)
(* no ticker to speak of, so both loops are the one below; FlushSize tells *)
(* them apart.                                                             *)
(*                                                                         *)
(* accepted, outcome and probe are history variables: no action reads them *)
(* to decide what to do.                                                   *)
(***************************************************************************)
EXTENDS CircuitBreaker, Sequences, FiniteSets, Functions

CONSTANTS
  Events,       \* the events the dispatcher offers, each at most once
  Workers,      \* the worker goroutines launched by Start
  QueueSize,    \* capacity of the queue channel
  MaxAttempts,  \* Retry.MaxAttempts
  Batching,     \* the driver is a BatchSender and batching is enabled
  BatchSize     \* Batching.BatchSize

\* OutputConfig.Validate, RetryConfig.Validate and BatchingConfig.Validate.
ASSUME EventsAssumption == IsFiniteSet(Events)
ASSUME WorkersAssumption == Workers # {}
ASSUME QueueSizeAssumption == QueueSize \in Nat \ {0}
ASSUME MaxAttemptsAssumption == MaxAttempts \in Nat \ {0}
ASSUME BatchingAssumption == Batching \in BOOLEAN
ASSUME BatchSizeAssumption == BatchSize \in Nat \ {0}

VARIABLES
  queue,        \* the content of the channel
  queueClosed,  \* close(queue) has happened
  ctxDone,      \* the workers' context is cancelled
  pc,           \* where each worker is
  held,         \* the worker's buffer, then the snapshot being delivered
  attempt,      \* the worker's retry counter
  stopping,     \* the worker returns once the current flush is over
  sentTotal, failedTotal, droppedTotal,
  accepted,     \* history: the events that entered the queue, in order
  outcome,      \* history: what each event was counted as
  probe         \* history: the worker's request was let through half-open

queueVars == <<queue, queueClosed, ctxDone, accepted>>
workerVars == <<pc, held, attempt, stopping, probe>>
countVars == <<sentTotal, failedTotal, droppedTotal, outcome>>
vars == <<queueVars, workerVars, countVars, breakerVars>>

WorkerStates == {"select", "admit", "send", "backoff", "exited"}
Outcomes == {"none", "sent", "failed", "dropped"}

\* A buffer of this length is flushed.
FlushSize == IF Batching THEN BatchSize ELSE 1

Init ==
  /\ queue = <<>>
  /\ queueClosed = FALSE
  /\ ctxDone = FALSE
  /\ pc = [w \in Workers |-> "select"]
  /\ held = [w \in Workers |-> <<>>]
  /\ attempt = [w \in Workers |-> 0]
  /\ stopping = [w \in Workers |-> FALSE]
  /\ sentTotal = 0 /\ failedTotal = 0 /\ droppedTotal = 0
  /\ accepted = <<>>
  /\ outcome = [e \in Events |-> "none"]
  /\ probe = [w \in Workers |-> FALSE]
  /\ NewCircuitBreaker

\* Events that have been offered to the output.
Offered == Range(accepted) \cup {e \in Events : outcome[e] = "dropped"}

-----------------------------------------------------------------------------
(* The producer's side: the dispatcher, and whoever shuts the output down. *)

EnqueueAccepts(e) ==
  /\ Len(queue) < QueueSize
  /\ queue' = Append(queue, e)
  /\ accepted' = Append(accepted, e)
  /\ UNCHANGED <<queueClosed, ctxDone, workerVars, countVars, breakerVars>>

EnqueueDrops(e) ==
  /\ Len(queue) >= QueueSize
  /\ droppedTotal' = droppedTotal + 1
  /\ outcome' = [outcome EXCEPT ![e] = "dropped"]
  /\ UNCHANGED <<sentTotal, failedTotal, queueVars, workerVars, breakerVars>>

\* A send on a closed channel would panic; Service shows main never makes one.
Enqueue(e) ==
  /\ ~queueClosed
  /\ e \notin Offered
  /\ EnqueueAccepts(e) \/ EnqueueDrops(e)

CloseQueue ==
  /\ ~queueClosed
  /\ queueClosed' = TRUE
  /\ UNCHANGED <<queue, ctxDone, accepted, workerVars, countVars, breakerVars>>

CancelContext ==
  /\ ~ctxDone
  /\ ctxDone' = TRUE
  /\ UNCHANGED <<queue, queueClosed, accepted, workerVars, countVars, breakerVars>>

ReadStatus ==
  /\ GetState
  /\ UNCHANGED <<queueVars, workerVars, countVars>>

-----------------------------------------------------------------------------
(* The worker loop. The cases of its select are enabled independently: Go  *)
(* picks any ready one.                                                    *)

\* Mutant: the worker returns without flushing what it has buffered.
StopWithoutFlush(w) ==
  /\ pc' = [pc EXCEPT ![w] = "exited"]
  /\ UNCHANGED <<held, attempt, stopping, probe>>

\* flushBatch, as the worker leaves the loop for good or stays in it.
FlushThenStop(w) ==
  /\ pc' = [pc EXCEPT ![w] = IF held[w] = <<>> THEN "exited" ELSE "admit"]
  /\ stopping' = [stopping EXCEPT ![w] = TRUE]
  /\ UNCHANGED <<held, attempt, probe>>

SelectCtxDone(w) ==
  /\ pc[w] = "select"
  /\ ctxDone
  /\ FlushThenStop(w)
  /\ UNCHANGED <<queueVars, countVars, breakerVars>>

\* Mutant: a closed channel only makes the worker go round its loop again.
SelectClosedContinues(w) ==
  /\ pc[w] = "select"
  /\ queueClosed
  /\ queue = <<>>
  /\ UNCHANGED vars

SelectClosed(w) ==
  /\ pc[w] = "select"
  /\ queueClosed
  /\ queue = <<>>
  /\ FlushThenStop(w)
  /\ UNCHANGED <<queueVars, countVars, breakerVars>>

\* Mutant: the ticker flushes full buffers only.
SelectTickWhenFull(w) ==
  /\ pc[w] = "select"
  /\ Len(held[w]) >= FlushSize
  /\ pc' = [pc EXCEPT ![w] = "admit"]
  /\ UNCHANGED <<held, attempt, stopping, probe, queueVars, countVars, breakerVars>>

\* A tick on an empty buffer changes nothing.
SelectTick(w) ==
  /\ pc[w] = "select"
  /\ held[w] # <<>>
  /\ pc' = [pc EXCEPT ![w] = "admit"]
  /\ UNCHANGED <<held, attempt, stopping, probe, queueVars, countVars, breakerVars>>

SelectEvent(w) ==
  /\ pc[w] = "select"
  /\ queue # <<>>
  /\ queue' = Tail(queue)
  /\ held' = [held EXCEPT ![w] = Append(@, Head(queue))]
  /\ pc' = [pc EXCEPT ![w] = IF Len(held[w]) + 1 >= FlushSize THEN "admit" ELSE "select"]
  /\ UNCHANGED <<queueClosed, ctxDone, accepted, attempt, stopping, probe,
                 countVars, breakerVars>>

-----------------------------------------------------------------------------
(* executeWithRetry: one request for everything the worker holds.          *)

\* Mutant: flushBatch returns the buffer and not buffer[:0].
FinishKeepsBuffer(w) ==
  /\ pc' = [pc EXCEPT ![w] = IF stopping[w] THEN "exited" ELSE "select"]
  /\ attempt' = [attempt EXCEPT ![w] = 0]
  /\ probe' = [probe EXCEPT ![w] = FALSE]
  /\ UNCHANGED <<held, stopping>>

\* The worker is done with what it held and goes back to its loop, or returns.
Finish(w) ==
  /\ pc' = [pc EXCEPT ![w] = IF stopping[w] THEN "exited" ELSE "select"]
  /\ held' = [held EXCEPT ![w] = <<>>]
  /\ attempt' = [attempt EXCEPT ![w] = 0]
  /\ probe' = [probe EXCEPT ![w] = FALSE]
  /\ UNCHANGED stopping

\* Mutant: a batch counts as one event.
CountSentPerRequest(w) ==
  /\ sentTotal' = sentTotal + 1
  /\ outcome' = [e \in Events |-> IF e \in Range(held[w]) THEN "sent" ELSE outcome[e]]
  /\ UNCHANGED <<failedTotal, droppedTotal>>

CountSent(w) ==
  /\ sentTotal' = sentTotal + Len(held[w])
  /\ outcome' = [e \in Events |-> IF e \in Range(held[w]) THEN "sent" ELSE outcome[e]]
  /\ UNCHANGED <<failedTotal, droppedTotal>>

CountFailed(w) ==
  /\ failedTotal' = failedTotal + Len(held[w])
  /\ outcome' = [e \in Events |-> IF e \in Range(held[w]) THEN "failed" ELSE outcome[e]]
  /\ UNCHANGED <<sentTotal, droppedTotal>>

\* The breaker lets the request through. It is asked once per request, not
\* once per attempt.
Admit(w) ==
  /\ pc[w] = "admit"
  /\ Allows
  /\ AllowRequest
  /\ pc' = [pc EXCEPT ![w] = "send"]
  /\ probe' = [probe EXCEPT ![w] = (EffectiveState = "halfOpen")]
  /\ UNCHANGED <<held, attempt, stopping, queueVars, countVars>>

Refuse(w) ==
  /\ pc[w] = "admit"
  /\ ~Allows
  /\ AllowRequest
  /\ CountFailed(w)
  /\ Finish(w)
  /\ UNCHANGED queueVars

\* sendFunc returns without error.
SendOk(w) ==
  /\ pc[w] = "send"
  /\ RecordSuccess
  /\ CountSent(w)
  /\ Finish(w)
  /\ UNCHANGED queueVars

\* Mutant: every failed attempt is counted.
SendFailsCounted(w) ==
  /\ pc[w] = "send"
  /\ attempt[w] + 1 < MaxAttempts
  /\ RecordFailure
  /\ CountFailed(w)
  /\ attempt' = [attempt EXCEPT ![w] = @ + 1]
  /\ pc' = [pc EXCEPT ![w] = "backoff"]
  /\ UNCHANGED <<held, stopping, probe, queueVars>>

\* Mutant: a failed request goes back to the end of the queue.
SendFailsRequeued(w) ==
  /\ pc[w] = "send"
  /\ attempt[w] + 1 < MaxAttempts
  /\ RecordFailure
  /\ queue' = queue \o held[w]
  /\ Finish(w)
  /\ UNCHANGED <<queueClosed, ctxDone, accepted, countVars>>

\* sendFunc returns an error and there are attempts left.
SendFails(w) ==
  /\ pc[w] = "send"
  /\ attempt[w] + 1 < MaxAttempts
  /\ RecordFailure
  /\ attempt' = [attempt EXCEPT ![w] = @ + 1]
  /\ pc' = [pc EXCEPT ![w] = "backoff"]
  /\ UNCHANGED <<held, stopping, probe, queueVars, countVars>>

SendFailsForGood(w) ==
  /\ pc[w] = "send"
  /\ attempt[w] + 1 >= MaxAttempts
  /\ RecordFailure
  /\ CountFailed(w)
  /\ Finish(w)
  /\ UNCHANGED queueVars

BackoffElapses(w) ==
  /\ pc[w] = "backoff"
  /\ pc' = [pc EXCEPT ![w] = "send"]
  /\ UNCHANGED <<held, attempt, stopping, probe, queueVars, countVars, breakerVars>>

\* The one way out of the retry loop that counts the events nowhere.
BackoffCancelled(w) ==
  /\ pc[w] = "backoff"
  /\ ctxDone
  /\ Finish(w)
  /\ UNCHANGED <<queueVars, countVars, breakerVars>>

-----------------------------------------------------------------------------
SelectStep(w) ==
  SelectCtxDone(w) \/ SelectClosed(w) \/ SelectTick(w) \/ SelectEvent(w)

DeliverStep(w) ==
  \/ Admit(w) \/ Refuse(w)
  \/ SendOk(w) \/ SendFails(w) \/ SendFailsForGood(w)
  \/ BackoffElapses(w) \/ BackoffCancelled(w)

WorkerStep(w) == SelectStep(w) \/ DeliverStep(w)

ClockStep == ResetTimeoutElapses /\ UNCHANGED <<queueVars, workerVars, countVars>>

Next ==
  \/ \E e \in Events : Enqueue(e)
  \/ CloseQueue
  \/ CancelContext
  \/ ReadStatus
  \/ ClockStep
  \/ \E w \in Workers : WorkerStep(w)

\* A goroutine that can run is run, a timer that is due fires, and a send
\* returns. Nothing is assumed of the dispatcher, of shutdown or of the reset
\* timeout, and nothing of which ready case a select takes.
Fairness == \A w \in Workers : WF_vars(WorkerStep(w))

Spec == Init /\ [][Next]_vars
FairSpec == Spec /\ Fairness

=============================================================================
