-------------------------- MODULE OutputProperties --------------------------
(***************************************************************************)
(* What must be true of one output: its invariants, the steps it may never *)
(* take, what it must eventually do, and the abstract specification it     *)
(* implements.                                                             *)
(***************************************************************************)
EXTENDS Output

-----------------------------------------------------------------------------
(* Invariants *)

\* Types, and the two bounds the code sets: the channel never holds more than
\* QueueSize events, a worker's buffer never more than a full batch.
TypeOK ==
  /\ BreakerTypeOK
  /\ queue \in Seq(Events) /\ Len(queue) <= QueueSize
  /\ queueClosed \in BOOLEAN
  /\ ctxDone \in BOOLEAN
  /\ pc \in [Workers -> WorkerStates]
  /\ held \in [Workers -> Seq(Events)]
  /\ \A w \in Workers : Len(held[w]) <= FlushSize
  /\ attempt \in [Workers -> 0..(MaxAttempts - 1)]
  /\ stopping \in [Workers -> BOOLEAN]
  /\ sentTotal \in Nat /\ failedTotal \in Nat /\ droppedTotal \in Nat
  /\ accepted \in Seq(Events)
  /\ outcome \in [Events -> Outcomes]
  /\ probe \in [Workers -> BOOLEAN]

\* The breaker's fields agree with its state whatever the workers' results
\* arrive after: closed below the failure threshold, half-open below the
\* success threshold, and a probe is out only half-open.
BreakerConsistent ==
  /\ state = "closed" => failureCount < FailureThreshold
  /\ state = "halfOpen" => successCount < SuccessThreshold
  /\ probing => state = "halfOpen"

\* The breaker never waits for a probe nobody is making: while probing is set some worker
\* it let through half-open is in the first attempt of its request, and that attempt's
\* result clears it. Otherwise the output would refuse every event forever. The converse
\* does not hold: a late result clears probing while a probe is being delivered.
ProbeOutstanding ==
  probing => \E w \in Workers : pc[w] = "send" /\ attempt[w] = 0 /\ probe[w]

HeldBy(w) == Range(held[w])
Undelivered == Range(queue) \cup UNION {HeldBy(w) : w \in Workers}

\* An event is in one place at most, the queue or one worker's hands, and once,
\* and what is still in hand has not been counted yet.
HeldOnce ==
  /\ IsInjective(queue)
  /\ \A w \in Workers : IsInjective(held[w]) /\ HeldBy(w) \cap Range(queue) = {}
  /\ \A v, w \in Workers : v # w => HeldBy(v) \cap HeldBy(w) = {}
  /\ \A e \in Undelivered : outcome[e] = "none"

\* Without a cancellation no accepted event disappears: it is counted as sent or
\* failed, or it is still in the queue or with a worker that has not returned.
NoSilentLoss ==
  ~ctxDone => \A e \in Range(accepted) :
    \/ outcome[e] \in {"sent", "failed"}
    \/ e \in Range(queue) /\ \E w \in Workers : pc[w] # "exited"
    \/ \E w \in Workers : pc[w] # "exited" /\ e \in HeldBy(w)

Precedes(d, e) ==
  \E i, j \in DOMAIN accepted : i < j /\ accepted[i] = d /\ accepted[j] = e

\* Order is kept up to the workers' concurrency: the queue is what was accepted
\* last, and a request lists its events in the order they were accepted. So a
\* single worker delivers in order, retries and refusals included.
InOrder ==
  /\ queue = SubSeq(accepted, Len(accepted) - Len(queue) + 1, Len(accepted))
  /\ \A w \in Workers : \A i, j \in DOMAIN held[w] :
       i < j => Precedes(held[w][i], held[w][j])

-----------------------------------------------------------------------------
(* Steps *)

\* What an event was counted as is final: a failed attempt that will be retried,
\* a refusal, and a late result never count an event a second time.
OutcomeIsFinal ==
  [][\A e \in Events : outcome[e] # "none" => outcome'[e] = outcome[e]]_vars

\* An open breaker leaves only by its timeout, into half-open; a result of a
\* request admitted earlier never closes it. A closed one never goes half-open.
OpenUntilTimeout ==
  [][/\ state = "open" /\ state' # "open" => state' = "halfOpen" /\ resetElapsed
     /\ state = "closed" => state' # "halfOpen"]_vars

-----------------------------------------------------------------------------
(* Liveness, of FairSpec *)

\* Once the queue is closed or the context cancelled every worker returns, so
\* WaitDone and DrainQueues return, however sends fail and retries go.
WorkersReturn ==
  (queueClosed \/ ctxDone) ~> \A w \in Workers : pc[w] = "exited"

\* Every accepted event is counted unless a cancellation intervenes; a batch that
\* never fills is flushed by the ticker.
EventuallySettled ==
  \A e \in Events : e \in Range(accepted) ~> (outcome[e] # "none" \/ ctxDone)

\* A probe is always answered.
ProbeResolves == probing ~> ~probing

-----------------------------------------------------------------------------
(* Refinement: an output implements Delivery. *)

FateOf(e) ==
  CASE outcome[e] # "none" -> outcome[e]
    [] outcome[e] = "none" /\ e \in Undelivered -> "pending"
    [] outcome[e] = "none" /\ e \in Range(accepted) \ Undelivered -> "lost"
    [] OTHER -> "new"

Abstract == INSTANCE Delivery WITH
  fate <- [e \in Events |-> FateOf(e)], closed <- queueClosed, cancelled <- ctxDone

\* An output with its queue, pool, retries and breaker is a Delivery: offered
\* events are pending until the one step that counts or abandons their request.
ImplementsDelivery == Abstract!Spec

=============================================================================
