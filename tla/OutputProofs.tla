---------------------------- MODULE OutputProofs ----------------------------
(***************************************************************************)
(* Proofs about Output, for every number of events and workers, every      *)
(* queue size, batch size, retry limit and breaker threshold.              *)
(***************************************************************************)
EXTENDS OutputProperties, SequenceTheorems, FiniteSetTheorems, TLAPS

-----------------------------------------------------------------------------
(* Type correctness. A worker that is still collecting has room in its      *)
(* buffer: without this the bound on the buffer is not inductive.           *)

RoomToCollect == \A w \in Workers : pc[w] = "select" => Len(held[w]) < FlushSize

TypeInv == TypeOK /\ RoomToCollect

LEMMA FlushSizeType == FlushSize \in Nat \ {0}
BY BatchSizeAssumption DEF FlushSize

\* Each method of the breaker keeps its fields in their types.
LEMMA BreakerTypes ==
  ASSUME BreakerTypeOK,
         GetState \/ AllowRequest \/ RecordSuccess \/ RecordFailure \/ ResetTimeoutElapses
  PROVE  BreakerTypeOK'
<1>1. probing' \in BOOLEAN
  BY Zenon DEF BreakerTypeOK, GetState, AllowRequest, RecordSuccess, RecordFailure,
               ResetTimeoutElapses
<1>2. resetElapsed' \in BOOLEAN
  BY Zenon DEF BreakerTypeOK, GetState, AllowRequest, RecordSuccess, RecordFailure,
               ResetTimeoutElapses
<1>3. state' \in CircuitStates
  BY Zenon DEF BreakerTypeOK, CircuitStates, GetState, AllowRequest, RecordSuccess,
               RecordFailure, ResetTimeoutElapses, EffectiveState
<1>4. failureCount' \in Nat /\ successCount' \in Nat
  BY SMT DEF BreakerTypeOK, GetState, AllowRequest, RecordSuccess, RecordFailure,
             ResetTimeoutElapses
<1> QED
  BY <1>1, <1>2, <1>3, <1>4 DEF BreakerTypeOK

\* The worker variables keep their types when a request is over.
LEMMA FinishTypes ==
  ASSUME TypeInv, NEW w \in Workers, Finish(w)
  PROVE  /\ pc' \in [Workers -> WorkerStates]
         /\ held' \in [Workers -> Seq(Events)]
         /\ \A v \in Workers : Len(held'[v]) <= FlushSize
         /\ attempt' \in [Workers -> 0..(MaxAttempts - 1)]
         /\ stopping' \in [Workers -> BOOLEAN]
         /\ probe' \in [Workers -> BOOLEAN]
         /\ RoomToCollect'
<1>1. <<>> \in Seq(Events) /\ Len(<<>>) = 0
  BY EmptySeq
<1>2. FlushSize \in Nat \ {0} /\ 0 \in 0..(MaxAttempts - 1)
  BY FlushSizeType, MaxAttemptsAssumption
<1>3. /\ pc' \in [Workers -> WorkerStates]
      /\ stopping' \in [Workers -> BOOLEAN]
      /\ probe' \in [Workers -> BOOLEAN]
  BY Zenon DEF TypeInv, TypeOK, Finish, WorkerStates
<1>4. attempt' \in [Workers -> 0..(MaxAttempts - 1)]
  BY <1>2 DEF TypeInv, TypeOK, Finish
<1>5. held' \in [Workers -> Seq(Events)] /\ \A v \in Workers : Len(held'[v]) <= FlushSize
  BY <1>1, <1>2 DEF TypeInv, TypeOK, Finish
<1>6. RoomToCollect'
  BY <1>1, <1>2 DEF TypeInv, TypeOK, RoomToCollect, Finish
<1> QED
  BY <1>3, <1>4, <1>5, <1>6

LEMMA CountTypes ==
  ASSUME TypeInv, NEW w \in Workers, CountSent(w) \/ CountFailed(w)
  PROVE  /\ sentTotal' \in Nat /\ failedTotal' \in Nat /\ droppedTotal' \in Nat
         /\ outcome' \in [Events -> Outcomes]
<1>1. Len(held[w]) \in Nat
  BY LenProperties DEF TypeInv, TypeOK
<1> QED
  BY <1>1 DEF TypeInv, TypeOK, CountSent, CountFailed, Outcomes

LEMMA TypeInit == Init => TypeInv
<1> SUFFICES ASSUME Init PROVE TypeInv
  OBVIOUS
<1>1. <<>> \in Seq(Events) /\ Len(<<>>) = 0
  BY EmptySeq
<1>2. FlushSize \in Nat \ {0} /\ 0 \in 0..(MaxAttempts - 1) /\ QueueSize \in Nat
  BY FlushSizeType, MaxAttemptsAssumption, QueueSizeAssumption
<1>3. BreakerTypeOK
  BY DEF Init, NewCircuitBreaker, BreakerTypeOK, CircuitStates
<1>4. /\ held \in [Workers -> Seq(Events)]
      /\ \A w \in Workers : Len(held[w]) = 0
  BY <1>1 DEF Init
<1>5. attempt \in [Workers -> 0..(MaxAttempts - 1)]
  BY <1>2 DEF Init
<1>6. /\ pc \in [Workers -> WorkerStates]
      /\ stopping \in [Workers -> BOOLEAN]
      /\ probe \in [Workers -> BOOLEAN]
      /\ outcome \in [Events -> Outcomes]
      /\ queueClosed \in BOOLEAN /\ ctxDone \in BOOLEAN
  BY DEF Init, WorkerStates, Outcomes
<1>7. /\ queue \in Seq(Events) /\ Len(queue) <= QueueSize
      /\ accepted \in Seq(Events)
      /\ sentTotal \in Nat /\ failedTotal \in Nat /\ droppedTotal \in Nat
  BY <1>1, <1>2 DEF Init
<1> QED
  BY <1>2, <1>3, <1>4, <1>5, <1>6, <1>7 DEF TypeInv, TypeOK, RoomToCollect

\* The dispatcher's, the owner's and the clock's steps.
LEMMA TypeEnvironment ==
  ASSUME TypeInv,
         \/ \E e \in Events : Enqueue(e)
         \/ CloseQueue \/ CancelContext \/ ReadStatus \/ ClockStep
  PROVE  TypeInv'
<1>1. ASSUME NEW e \in Events, Enqueue(e)
      PROVE  TypeInv'
  <2>1. CASE EnqueueAccepts(e)
    <3>1. /\ Append(queue, e) \in Seq(Events)
          /\ Len(Append(queue, e)) = Len(queue) + 1
          /\ Append(accepted, e) \in Seq(Events)
          /\ Len(queue) \in Nat
      BY AppendProperties, LenProperties DEF TypeInv, TypeOK
    <3> QED
      BY <2>1, <3>1, QueueSizeAssumption
      DEF EnqueueAccepts, TypeInv, TypeOK, RoomToCollect, BreakerTypeOK,
          workerVars, countVars, breakerVars
  <2>2. CASE EnqueueDrops(e)
    BY <2>2 DEF EnqueueDrops, TypeInv, TypeOK, RoomToCollect, BreakerTypeOK, Outcomes,
                queueVars, workerVars, breakerVars
  <2> QED
    BY <1>1, <2>1, <2>2 DEF Enqueue
<1>2. CASE CloseQueue
  BY <1>2 DEF CloseQueue, TypeInv, TypeOK, RoomToCollect, BreakerTypeOK,
              workerVars, countVars, breakerVars
<1>3. CASE CancelContext
  BY <1>3 DEF CancelContext, TypeInv, TypeOK, RoomToCollect, BreakerTypeOK,
              workerVars, countVars, breakerVars
<1>4. CASE ReadStatus \/ ClockStep
  <2>1. BreakerTypeOK'
    BY <1>4, BreakerTypes DEF ReadStatus, ClockStep, TypeInv, TypeOK
  <2> QED
    BY <1>4, <2>1 DEF ReadStatus, ClockStep, TypeInv, TypeOK, RoomToCollect,
                      queueVars, workerVars, countVars
<1> QED
  BY <1>1, <1>2, <1>3, <1>4

\* The cases of the worker's select.
LEMMA TypeSelect ==
  ASSUME TypeInv, NEW w \in Workers, SelectStep(w)
  PROVE  TypeInv'
<1>1. CASE SelectCtxDone(w) \/ SelectClosed(w)
  BY <1>1 DEF SelectCtxDone, SelectClosed, FlushThenStop, TypeInv, TypeOK, RoomToCollect,
              BreakerTypeOK, WorkerStates, queueVars, countVars, breakerVars
<1>2. CASE SelectTick(w)
  BY <1>2 DEF SelectTick, TypeInv, TypeOK, RoomToCollect, BreakerTypeOK, WorkerStates,
              queueVars, countVars, breakerVars
<1>3. CASE SelectEvent(w)
  <2>1. /\ Head(queue) \in Events
        /\ Tail(queue) \in Seq(Events)
        /\ Len(Tail(queue)) = Len(queue) - 1
        /\ Len(queue) \in Nat
    BY <1>3, HeadTailProperties, LenProperties DEF SelectEvent, TypeInv, TypeOK
  <2> DEFINE buffer == Append(held[w], Head(queue))
  <2>2. /\ buffer \in Seq(Events)
        /\ Len(buffer) = Len(held[w]) + 1
        /\ Len(held[w]) \in Nat
    BY <2>1, AppendProperties, LenProperties DEF TypeInv, TypeOK
  <2>3. held' = [held EXCEPT ![w] = buffer]
    BY <1>3 DEF SelectEvent
  <2>4. Len(held[w]) < FlushSize /\ FlushSize \in Nat
    BY <1>3, FlushSizeType DEF SelectEvent, TypeInv, RoomToCollect
  <2> HIDE DEF buffer
  <2>5. /\ held' \in [Workers -> Seq(Events)]
        /\ \A v \in Workers : Len(held'[v]) <= FlushSize
    BY <2>2, <2>3, <2>4 DEF TypeInv, TypeOK
  <2>6. pc' \in [Workers -> WorkerStates]
    BY <1>3 DEF SelectEvent, TypeInv, TypeOK, WorkerStates
  <2>7. RoomToCollect'
    BY <1>3, <2>2, <2>3, <2>4 DEF SelectEvent, TypeInv, TypeOK, RoomToCollect
  <2>8. queue' \in Seq(Events) /\ Len(queue') <= QueueSize
    BY <1>3, <2>1, QueueSizeAssumption DEF SelectEvent, TypeInv, TypeOK
  <2> QED
    BY <1>3, <2>5, <2>6, <2>7, <2>8
    DEF SelectEvent, TypeInv, TypeOK, BreakerTypeOK, countVars, breakerVars
<1> QED
  BY <1>1, <1>2, <1>3 DEF SelectStep

\* The steps of executeWithRetry.
LEMMA TypeDeliver ==
  ASSUME TypeInv, NEW w \in Workers, DeliverStep(w)
  PROVE  TypeInv'
<1>1. CASE Admit(w)
  <2>1. BreakerTypeOK'
    BY <1>1, BreakerTypes DEF Admit, TypeInv, TypeOK
  <2>2. (EffectiveState = "halfOpen") \in BOOLEAN
    OBVIOUS
  <2>3. probe' \in [Workers -> BOOLEAN]
    BY <1>1, <2>2 DEF Admit, TypeInv, TypeOK
  <2> QED
    BY <1>1, <2>1, <2>3 DEF Admit, TypeInv, TypeOK, RoomToCollect, WorkerStates,
                            queueVars, countVars
<1>2. CASE Refuse(w) \/ SendOk(w) \/ SendFailsForGood(w)
  <2>1. BreakerTypeOK'
    BY <1>2, BreakerTypes DEF Refuse, SendOk, SendFailsForGood, TypeInv, TypeOK
  <2>2. Finish(w) /\ (CountSent(w) \/ CountFailed(w)) /\ UNCHANGED queueVars
    BY <1>2 DEF Refuse, SendOk, SendFailsForGood
  <2> QED
    BY <2>1, <2>2, FinishTypes, CountTypes DEF TypeInv, TypeOK, queueVars
<1>3. CASE SendFails(w)
  <2>1. BreakerTypeOK'
    BY <1>3, BreakerTypes DEF SendFails, TypeInv, TypeOK
  <2>2. attempt[w] + 1 \in 0..(MaxAttempts - 1)
    BY <1>3, MaxAttemptsAssumption DEF SendFails, TypeInv, TypeOK
  <2>3. attempt' \in [Workers -> 0..(MaxAttempts - 1)]
    BY <1>3, <2>2 DEF SendFails, TypeInv, TypeOK
  <2> QED
    BY <1>3, <2>1, <2>3 DEF SendFails, TypeInv, TypeOK, RoomToCollect, WorkerStates,
                            queueVars, countVars
<1>4. CASE BackoffElapses(w)
  BY <1>4 DEF BackoffElapses, TypeInv, TypeOK, RoomToCollect, BreakerTypeOK, WorkerStates,
              queueVars, countVars, breakerVars
<1>5. CASE BackoffCancelled(w)
  BY <1>5, FinishTypes DEF BackoffCancelled, TypeInv, TypeOK, BreakerTypeOK,
                           queueVars, countVars, breakerVars
<1> QED
  BY <1>1, <1>2, <1>3, <1>4, <1>5 DEF DeliverStep

LEMMA TypeNext == TypeInv /\ [Next]_vars => TypeInv'
<1> SUFFICES ASSUME TypeInv, [Next]_vars PROVE TypeInv'
  OBVIOUS
<1>1. CASE \E w \in Workers : WorkerStep(w)
  BY <1>1, TypeSelect, TypeDeliver DEF WorkerStep
<1>2. CASE \/ \E e \in Events : Enqueue(e)
           \/ CloseQueue \/ CancelContext \/ ReadStatus \/ ClockStep
  BY <1>2, TypeEnvironment
<1>3. CASE UNCHANGED vars
  BY <1>3 DEF TypeInv, TypeOK, RoomToCollect, BreakerTypeOK, vars,
              queueVars, workerVars, countVars, breakerVars
<1> QED
  BY <1>1, <1>2, <1>3 DEF Next

LEMMA TypeInvariant == Spec => []TypeInv
BY TypeInit, TypeNext, PTL DEF Spec

\* The queue never exceeds its capacity and a buffer never exceeds a full batch,
\* whatever the workers and the dispatcher do (output.go, worker.go).
THEOREM TypeCorrect == Spec => []TypeOK
<1>1. TypeInv => TypeOK
  BY DEF TypeInv
<1> QED
  BY <1>1, TypeInvariant, PTL

-----------------------------------------------------------------------------
(* The breaker. Its methods keep its fields consistent in any order of      *)
(* calls, so results may come back late, early or out of turn.              *)

LEMMA BreakerStays ==
  ASSUME BreakerTypeOK, BreakerConsistent,
         GetState \/ AllowRequest \/ RecordSuccess \/ RecordFailure \/ ResetTimeoutElapses
  PROVE  BreakerConsistent'
<1>1. CASE GetState
  BY <1>1, SuccessThresholdAssumption
  DEF GetState, EffectiveState, TurnsHalfOpen, BreakerConsistent, BreakerTypeOK, CircuitStates
<1>2. CASE AllowRequest
  BY <1>2, SuccessThresholdAssumption
  DEF AllowRequest, EffectiveState, TurnsHalfOpen, BreakerConsistent, BreakerTypeOK,
      CircuitStates
<1>3. CASE RecordSuccess
  BY <1>3, SuccessThresholdAssumption, FailureThresholdAssumption
  DEF RecordSuccess, BreakerConsistent, BreakerTypeOK, CircuitStates
<1>4. CASE RecordFailure
  BY <1>4, FailureThresholdAssumption
  DEF RecordFailure, BreakerConsistent, BreakerTypeOK, CircuitStates
<1>5. CASE ResetTimeoutElapses
  BY <1>5 DEF ResetTimeoutElapses, BreakerConsistent
<1> QED
  BY <1>1, <1>2, <1>3, <1>4, <1>5

\* A worker step either calls one method of the breaker or leaves it alone.
LEMMA WorkerUsesBreaker ==
  ASSUME NEW w \in Workers, WorkerStep(w)
  PROVE  AllowRequest \/ RecordSuccess \/ RecordFailure \/ UNCHANGED breakerVars
BY DEF WorkerStep, SelectStep, DeliverStep, SelectCtxDone, SelectClosed, SelectTick,
       SelectEvent, Admit, Refuse, SendOk, SendFails, SendFailsForGood, BackoffElapses,
       BackoffCancelled

LEMMA BreakerNext ==
  ASSUME TypeInv, BreakerConsistent, [Next]_vars
  PROVE  BreakerConsistent'
<1>1. ASSUME UNCHANGED breakerVars PROVE BreakerConsistent'
  BY <1>1 DEF breakerVars, BreakerConsistent
<1>2. CASE \E w \in Workers : WorkerStep(w)
  BY <1>1, <1>2, WorkerUsesBreaker, BreakerStays DEF TypeInv, TypeOK
<1>3. CASE ReadStatus \/ ClockStep
  BY <1>3, BreakerStays DEF ReadStatus, ClockStep, TypeInv, TypeOK
<1>4. CASE (\E e \in Events : Enqueue(e)) \/ CloseQueue \/ CancelContext
  BY <1>1, <1>4 DEF Enqueue, EnqueueAccepts, EnqueueDrops, CloseQueue, CancelContext
<1>5. CASE UNCHANGED vars
  BY <1>1, <1>5 DEF vars
<1> QED
  BY <1>2, <1>3, <1>4, <1>5 DEF Next

\* Whatever order the workers' results arrive in, a closed breaker is below its
\* failure threshold, a half-open one below its success threshold, and a probe
\* is out only half-open (circuit_breaker.go).
THEOREM BreakerAlwaysConsistent == Spec => []BreakerConsistent
<1>1. Init => BreakerConsistent
  BY FailureThresholdAssumption DEF Init, NewCircuitBreaker, BreakerConsistent
<1>2. TypeInv /\ BreakerConsistent /\ [Next]_vars => BreakerConsistent'
  BY BreakerNext
<1> QED
  BY <1>1, <1>2, TypeInvariant, PTL DEF Spec

LEMMA BreakerMoves ==
  ASSUME BreakerTypeOK,
         \/ GetState \/ AllowRequest \/ RecordSuccess \/ RecordFailure \/ ResetTimeoutElapses
         \/ UNCHANGED breakerVars
  PROVE  /\ state = "open" /\ state' # "open" => state' = "halfOpen" /\ resetElapsed
         /\ state = "closed" => state' # "halfOpen"
BY DEF GetState, AllowRequest, RecordSuccess, RecordFailure, ResetTimeoutElapses, EffectiveState,
       TurnsHalfOpen, breakerVars, BreakerTypeOK, CircuitStates

\* An open breaker is left through its timeout alone and a closed one opens first,
\* whichever worker's late result comes in between (checkState, RecordSuccess,
\* RecordFailure).
THEOREM BreakerOpenUntilTimeout == Spec => OpenUntilTimeout
<1>1. ASSUME [Next]_vars
      PROVE  \/ GetState \/ AllowRequest \/ RecordSuccess \/ RecordFailure
             \/ ResetTimeoutElapses \/ UNCHANGED breakerVars
  BY <1>1, WorkerUsesBreaker
  DEF Next, Enqueue, EnqueueAccepts, EnqueueDrops, CloseQueue, CancelContext, ReadStatus,
      ClockStep, vars
<1>2. TypeInv /\ [Next]_vars
        => [/\ state = "open" /\ state' # "open" => state' = "halfOpen" /\ resetElapsed
            /\ state = "closed" => state' # "halfOpen"]_vars
  BY <1>1, BreakerMoves DEF TypeInv, TypeOK
<1> QED
  BY <1>2, TypeInvariant, PTL DEF Spec, OpenUntilTimeout

-----------------------------------------------------------------------------
(* The probe. The worker admitted last is in its first attempt until that   *)
(* attempt's result clears probing; every other result clears it as well.   *)

\* A request that is refused leaves probing as it was.
LEMMA RefusalKeepsProbing ==
  ASSUME BreakerTypeOK, ~Allows, AllowRequest
  PROVE  probing' = probing
<1>1. EffectiveState # "closed" /\ (EffectiveState = "halfOpen" => probing = TRUE)
  BY Zenon DEF Allows, BreakerTypeOK
<1>2. CASE EffectiveState = "halfOpen"
  BY <1>1, <1>2, Zenon DEF AllowRequest
<1>3. CASE EffectiveState # "halfOpen"
  BY <1>3, Zenon DEF AllowRequest, BreakerTypeOK
<1> QED
  BY <1>2, <1>3

\* A request let through any other way than half-open sets no probing.
LEMMA AdmissionSetsProbing ==
  ASSUME AllowRequest, EffectiveState # "halfOpen", probing'
  PROVE  probing
  BY Zenon DEF AllowRequest

\* A worker that has not sent yet is at attempt 0: so is the request it starts.
FreshRequests == \A w \in Workers : pc[w] \in {"select", "admit"} => attempt[w] = 0

LEMMA FreshNext ==
  ASSUME TypeInv, FreshRequests, [Next]_vars
  PROVE  FreshRequests'
<1>1. ASSUME NEW w \in Workers, SelectStep(w) PROVE FreshRequests'
  BY <1>1 DEF SelectStep, SelectCtxDone, SelectClosed, FlushThenStop, SelectTick,
              SelectEvent, FreshRequests, TypeInv, TypeOK
<1>2. ASSUME NEW w \in Workers, DeliverStep(w) PROVE FreshRequests'
  <2>1. CASE Finish(w)
    BY <2>1 DEF Finish, FreshRequests, TypeInv, TypeOK
  <2>2. CASE Admit(w) \/ SendFails(w) \/ BackoffElapses(w)
    BY <2>2 DEF Admit, SendFails, BackoffElapses, FreshRequests, TypeInv, TypeOK
  <2> QED
    BY <1>2, <2>1, <2>2 DEF DeliverStep, Refuse, SendOk, SendFailsForGood, BackoffCancelled
<1>3. CASE UNCHANGED workerVars
  BY <1>3 DEF workerVars, FreshRequests
<1> QED
  BY <1>1, <1>2, <1>3
  DEF Next, WorkerStep, Enqueue, EnqueueAccepts, EnqueueDrops, CloseQueue, CancelContext,
      ReadStatus, ClockStep, vars

LEMMA ProbeDeliver ==
  ASSUME TypeInv, FreshRequests, ProbeOutstanding, NEW w \in Workers, DeliverStep(w)
  PROVE  ProbeOutstanding'
<1>1. CASE Admit(w)
  <2>1. pc'[w] = "send" /\ attempt'[w] = 0
    BY <1>1 DEF Admit, FreshRequests, TypeInv, TypeOK
  <2>2. \A v \in Workers : pc[v] = "send" =>
          pc'[v] = "send" /\ attempt'[v] = attempt[v] /\ probe'[v] = probe[v]
    BY <1>1 DEF Admit, TypeInv, TypeOK
  <2>3. CASE EffectiveState = "halfOpen"
    <3>1. DOMAIN probe = Workers
      BY DEF TypeInv, TypeOK
    <3>2. probe' = [probe EXCEPT ![w] = (EffectiveState = "halfOpen")]
      BY <1>1 DEF Admit
    <3>3. probe'[w]
      BY <2>3, <3>1, <3>2, Zenon
    <3> QED
      BY <2>1, <3>3 DEF ProbeOutstanding
  <2>4. CASE EffectiveState # "halfOpen"
    <3>1. probing' => probing
      BY <1>1, <2>4, AdmissionSetsProbing DEF Admit
    <3> QED
      BY <2>2, <3>1 DEF ProbeOutstanding
  <2> QED
    BY <2>3, <2>4
<1>2. CASE Refuse(w)
  <2>1. probing' = probing
    BY <1>2, RefusalKeepsProbing DEF Refuse, TypeInv, TypeOK
  <2>2. \A v \in Workers : pc[v] = "send" /\ attempt[v] = 0 /\ probe[v] =>
          pc'[v] = "send" /\ attempt'[v] = 0 /\ probe'[v]
    BY <1>2 DEF Refuse, Finish, TypeInv, TypeOK
  <2> QED
    BY <2>1, <2>2 DEF ProbeOutstanding
<1>3. CASE SendOk(w) \/ SendFails(w) \/ SendFailsForGood(w)
  <2>1. probing' = FALSE
    BY <1>3 DEF SendOk, SendFails, SendFailsForGood, RecordSuccess, RecordFailure
  <2> QED
    BY <2>1 DEF ProbeOutstanding
<1>4. CASE BackoffElapses(w) \/ BackoffCancelled(w)
  <2>1. probing' = probing
    BY <1>4 DEF BackoffElapses, BackoffCancelled, breakerVars
  <2>2. \A v \in Workers : pc[v] = "send" /\ attempt[v] = 0 /\ probe[v] =>
          pc'[v] = "send" /\ attempt'[v] = 0 /\ probe'[v]
    BY <1>4 DEF BackoffElapses, BackoffCancelled, Finish, TypeInv, TypeOK
  <2> QED
    BY <2>1, <2>2 DEF ProbeOutstanding
<1> QED
  BY <1>1, <1>2, <1>3, <1>4 DEF DeliverStep

LEMMA ProbeNext ==
  ASSUME TypeInv, FreshRequests, ProbeOutstanding, [Next]_vars
  PROVE  ProbeOutstanding'
<1>1. ASSUME NEW w \in Workers, SelectStep(w) PROVE ProbeOutstanding'
  <2>1. probing' = probing
    BY <1>1 DEF SelectStep, SelectCtxDone, SelectClosed, SelectTick, SelectEvent, breakerVars
  <2>2. /\ attempt' = attempt /\ probe' = probe
        /\ \A v \in Workers : pc[v] = "send" => pc'[v] = "send"
    BY <1>1 DEF SelectStep, SelectCtxDone, SelectClosed, FlushThenStop, SelectTick,
                SelectEvent, TypeInv, TypeOK
  <2> QED
    BY <2>1, <2>2 DEF ProbeOutstanding
<1>2. ASSUME UNCHANGED workerVars, probing' => probing PROVE ProbeOutstanding'
  BY <1>2 DEF workerVars, ProbeOutstanding
<1>3. CASE ReadStatus \/ ClockStep
  <2>1. probing' => probing
    BY <1>3, Zenon DEF ReadStatus, ClockStep, GetState, ResetTimeoutElapses
  <2> QED
    BY <1>2, <1>3, <2>1 DEF ReadStatus, ClockStep
<1>4. CASE (\E e \in Events : Enqueue(e)) \/ CloseQueue \/ CancelContext
  BY <1>2, <1>4 DEF Enqueue, EnqueueAccepts, EnqueueDrops, CloseQueue, CancelContext,
                    breakerVars
<1>5. CASE UNCHANGED vars
  BY <1>2, <1>5 DEF vars, breakerVars
<1> QED
  BY <1>1, <1>3, <1>4, <1>5, ProbeDeliver DEF Next, WorkerStep

\* The breaker is never left waiting for a probe nobody is making, so a half-open
\* output cannot refuse every event for good (executeWithRetry, AllowRequest).
THEOREM ProbeAlwaysOutstanding == Spec => []ProbeOutstanding
<1>1. Init => FreshRequests /\ ProbeOutstanding
  BY DEF Init, NewCircuitBreaker, FreshRequests, ProbeOutstanding
<1>2. TypeInv /\ FreshRequests /\ ProbeOutstanding /\ [Next]_vars
        => FreshRequests' /\ ProbeOutstanding'
  BY FreshNext, ProbeNext
<1> QED
  BY <1>1, <1>2, TypeInvariant, PTL DEF Spec


-----------------------------------------------------------------------------
(* Sequences without repetition *)

LEMMA AppendElement ==
  ASSUME NEW S, NEW s \in Seq(S), NEW e \in S
  PROVE  /\ Range(Append(s, e)) = Range(s) \cup {e}
         /\ IsInjective(s) /\ e \notin Range(s) => IsInjective(Append(s, e))
<1>1. /\ DOMAIN Append(s, e) = 1..(Len(s) + 1)
      /\ \A i \in 1..Len(s) : Append(s, e)[i] = s[i]
      /\ Append(s, e)[Len(s) + 1] = e
      /\ DOMAIN s = 1..Len(s) /\ Len(s) \in Nat
  BY AppendProperties, LenProperties
<1>2. Range(Append(s, e)) = Range(s) \cup {e}
  <2>1. \A i \in DOMAIN s : i \in DOMAIN Append(s, e) /\ Append(s, e)[i] = s[i]
    BY <1>1
  <2>2. \A i \in DOMAIN Append(s, e) : i \in DOMAIN s \/ i = Len(s) + 1
    BY <1>1
  <2> QED
    BY <1>1, <2>1, <2>2 DEF Range
<1>3. ASSUME IsInjective(s), e \notin Range(s) PROVE IsInjective(Append(s, e))
  BY <1>1, <1>3 DEF IsInjective, Range
<1> QED
  BY <1>2, <1>3

LEMMA TakeElement ==
  ASSUME NEW S, NEW s \in Seq(S), s # <<>>
  PROVE  /\ Range(s) = {Head(s)} \cup Range(Tail(s))
         /\ IsInjective(s) => Head(s) \notin Range(Tail(s)) /\ IsInjective(Tail(s))
<1>1. /\ DOMAIN s = 1..Len(s) /\ Len(s) \in Nat \ {0}
      /\ DOMAIN Tail(s) = 1..(Len(s) - 1)
      /\ \A i \in 1..(Len(s) - 1) : Tail(s)[i] = s[i + 1]
      /\ Head(s) = s[1]
  BY HeadTailProperties, LenProperties, EmptySeq
<1>2. Range(s) = {Head(s)} \cup Range(Tail(s))
  <2>1. \A i \in DOMAIN Tail(s) : i + 1 \in DOMAIN s /\ Tail(s)[i] = s[i + 1]
    BY <1>1
  <2>2. \A i \in DOMAIN s : i = 1 \/ (i - 1 \in DOMAIN Tail(s) /\ Tail(s)[i - 1] = s[i])
    BY <1>1
  <2>3. 1 \in DOMAIN s
    BY <1>1
  <2> QED
    BY <1>1, <2>1, <2>2, <2>3 DEF Range
<1>3. ASSUME IsInjective(s) PROVE Head(s) \notin Range(Tail(s)) /\ IsInjective(Tail(s))
  BY <1>1, <1>3 DEF IsInjective, Range
<1> QED
  BY <1>2, <1>3

LEMMA NoElement ==
  /\ Range(<<>>) = {} /\ IsInjective(<<>>)
  /\ \A S : \A s \in Seq(S) : Range(s) \subseteq S /\ (s # <<>> => Range(s) # {})
<1>1. DOMAIN <<>> = {}
  OBVIOUS
<1>2. ASSUME NEW S, NEW s \in Seq(S)
      PROVE  Range(s) \subseteq S /\ (s # <<>> => Range(s) # {})
  <2>1. Range(s) \subseteq S
    BY ElementOfSeq, LenProperties DEF Range
  <2>2. s # <<>> => 1 \in DOMAIN s
    BY EmptySeq, LenProperties
  <2> QED
    BY <2>1, <2>2 DEF Range
<1> QED
  BY <1>1, <1>2 DEF Range, IsInjective

\* A sequence without repetition is as long as its range is large.
LEMMA LengthIsCardinality ==
  ASSUME NEW S, NEW s \in Seq(S), IsInjective(s)
  PROVE  Cardinality(Range(s)) = Len(s) /\ IsFiniteSet(Range(s))
<1>1. DOMAIN s = 1..Len(s) /\ Len(s) \in Nat
  BY LenProperties
<1>2. s \in [1..Len(s) -> Range(s)]
  BY <1>1, IsASeq, LenProperties DEF Range
<1>3. s \in Surjection(1..Len(s), Range(s))
  BY <1>1, <1>2 DEF Surjection, Range
<1>4. s \in Injection(1..Len(s), Range(s))
  BY <1>2 DEF Injection
<1>5. IsFiniteSet(1..Len(s)) /\ Cardinality(1..Len(s)) = Len(s)
  BY <1>1, FS_Interval
<1> QED
  BY <1>3, <1>4, <1>5, FS_Surjection

-----------------------------------------------------------------------------
(* What the steps of a worker do to the events *)

\* A step of executeWithRetry either leaves the worker's events with it, or is the
\* one that counts them all or, once cancelled, abandons them all.
LEMMA DeliverCases ==
  ASSUME NEW w \in Workers, DeliverStep(w)
  PROVE  /\ UNCHANGED queueVars
         /\ pc[w] \in {"admit", "send", "backoff"}
         /\ \/ /\ UNCHANGED <<held, stopping, countVars>>
               /\ \E next \in {"send", "backoff"} : pc' = [pc EXCEPT ![w] = next]
            \/ /\ Finish(w)
               /\ CountSent(w) \/ CountFailed(w) \/ (ctxDone /\ UNCHANGED countVars)
BY DEF DeliverStep, Admit, Refuse, SendOk, SendFails, SendFailsForGood, BackoffElapses,
       BackoffCancelled

\* The other steps that touch no event.
LEMMA IdleCases ==
  ASSUME \/ CloseQueue \/ CancelContext \/ ReadStatus \/ ClockStep \/ UNCHANGED vars
         \/ \E w \in Workers : SelectCtxDone(w) \/ SelectClosed(w) \/ SelectTick(w)
  PROVE  UNCHANGED <<queue, accepted, held, countVars>>
BY DEF CloseQueue, CancelContext, ReadStatus, ClockStep, SelectCtxDone, SelectClosed,
       SelectTick, FlushThenStop, vars, queueVars, workerVars, countVars

\* The steps of an output, as far as its events go.
LEMMA StepCases ==
  ASSUME [Next]_vars
  PROVE  \/ UNCHANGED <<queue, accepted, held, countVars>>
         \/ \E e \in Events : ~queueClosed /\ e \notin Offered /\ EnqueueAccepts(e)
         \/ \E e \in Events : ~queueClosed /\ e \notin Offered /\ EnqueueDrops(e)
         \/ \E w \in Workers : SelectEvent(w)
         \/ \E w \in Workers :
              /\ Finish(w) /\ UNCHANGED queueVars /\ pc[w] \in {"admit", "send", "backoff"}
              /\ CountSent(w) \/ CountFailed(w) \/ (ctxDone /\ UNCHANGED countVars)
<1>1. ASSUME NEW w \in Workers, DeliverStep(w)
      PROVE  \/ UNCHANGED <<queue, accepted, held, countVars>>
             \/ /\ Finish(w) /\ UNCHANGED queueVars /\ pc[w] \in {"admit", "send", "backoff"}
                /\ CountSent(w) \/ CountFailed(w) \/ (ctxDone /\ UNCHANGED countVars)
  BY <1>1, DeliverCases DEF queueVars
<1> QED
  BY <1>1, IdleCases DEF Next, Enqueue, WorkerStep, SelectStep

-----------------------------------------------------------------------------
(* Each event is held once. Enqueue takes events not offered before: that   *)
(* they are in nobody's hands and not counted either is what makes the      *)
(* invariant inductive.                                                     *)

KnownEvents ==
  /\ Undelivered \subseteq Range(accepted)
  /\ \A e \in Events : outcome[e] \in {"sent", "failed"} => e \in Range(accepted)

HeldInv == HeldOnce /\ KnownEvents

LEMMA HeldAccept ==
  ASSUME TypeInv, HeldInv, NEW e \in Events, e \notin Offered, EnqueueAccepts(e)
  PROVE  HeldInv'
<1>1. /\ queue \in Seq(Events) /\ accepted \in Seq(Events)
      /\ held \in [Workers -> Seq(Events)] /\ outcome \in [Events -> Outcomes]
  BY DEF TypeInv, TypeOK
<1>2. /\ Range(queue') = Range(queue) \cup {e}
      /\ Range(accepted') = Range(accepted) \cup {e}
      /\ held' = held /\ outcome' = outcome
  BY <1>1, AppendElement DEF EnqueueAccepts, workerVars, countVars
<1>3. e \notin Range(accepted) /\ outcome[e] = "none"
  BY <1>1 DEF Offered, HeldInv, KnownEvents, Outcomes
<1>4. e \notin Undelivered
  BY <1>3 DEF HeldInv, KnownEvents
<1>5. IsInjective(queue')
  BY <1>1, <1>4, AppendElement DEF EnqueueAccepts, HeldInv, HeldOnce, Undelivered
<1>6. Undelivered' = Undelivered \cup {e}
  BY <1>2 DEF Undelivered, HeldBy
<1>7. HeldOnce'
  BY <1>2, <1>3, <1>4, <1>5, <1>6 DEF HeldInv, HeldOnce, HeldBy, Undelivered
<1> QED
  BY <1>2, <1>6, <1>7 DEF HeldInv, KnownEvents

LEMMA HeldDrop ==
  ASSUME TypeInv, HeldInv, NEW e \in Events, e \notin Offered, EnqueueDrops(e)
  PROVE  HeldInv'
<1>1. /\ queue' = queue /\ accepted' = accepted /\ held' = held
      /\ outcome' = [outcome EXCEPT ![e] = "dropped"]
      /\ outcome \in [Events -> Outcomes]
  BY DEF EnqueueDrops, queueVars, workerVars, TypeInv, TypeOK
<1>2. e \notin Undelivered
  BY DEF Offered, HeldInv, KnownEvents
<1>3. Undelivered' = Undelivered
  BY <1>1 DEF Undelivered, HeldBy
<1> QED
  BY <1>1, <1>2, <1>3 DEF HeldInv, HeldOnce, KnownEvents, HeldBy

LEMMA HeldTake ==
  ASSUME TypeInv, HeldInv, NEW w \in Workers, SelectEvent(w)
  PROVE  HeldInv' /\ Undelivered' = Undelivered
<1> DEFINE e == Head(queue)
<1>1. /\ queue \in Seq(Events) /\ queue # <<>> /\ e \in Events
      /\ held \in [Workers -> Seq(Events)] /\ held[w] \in Seq(Events)
  BY HeadTailProperties DEF TypeInv, TypeOK, SelectEvent
<1>2. /\ queue' = Tail(queue)
      /\ held' = [held EXCEPT ![w] = Append(@, e)]
      /\ accepted' = accepted /\ outcome' = outcome
  BY DEF SelectEvent, countVars
<1> HIDE DEF e
<1>3. /\ Range(queue) = {e} \cup Range(queue')
      /\ e \notin Range(queue') /\ IsInjective(queue')
  BY <1>1, <1>2, TakeElement DEF HeldInv, HeldOnce, e
<1>4. e \notin HeldBy(w)
  BY <1>3 DEF HeldInv, HeldOnce
<1>5. /\ HeldBy(w)' = HeldBy(w) \cup {e} /\ IsInjective(held'[w])
      /\ \A v \in Workers \ {w} : held'[v] = held[v] /\ HeldBy(v)' = HeldBy(v)
  BY <1>1, <1>2, <1>4, AppendElement DEF HeldInv, HeldOnce, HeldBy
<1>6. Undelivered' = Undelivered
  BY <1>3, <1>5 DEF Undelivered
<1>7. HeldOnce'
  <2>1. \A v \in Workers : IsInjective(held'[v])
    BY <1>5 DEF HeldInv, HeldOnce
  <2>2. \A v \in Workers : HeldBy(v)' \cap Range(queue') = {}
    BY <1>3, <1>5 DEF HeldInv, HeldOnce
  <2>3. \A u, v \in Workers : u # v => HeldBy(u)' \cap HeldBy(v)' = {}
    BY <1>3, <1>5 DEF HeldInv, HeldOnce
  <2>4. \A d \in Undelivered' : outcome'[d] = "none"
    BY <1>2, <1>6 DEF HeldInv, HeldOnce
  <2> QED
    BY <1>3, <2>1, <2>2, <2>3, <2>4 DEF HeldOnce
<1> QED
  BY <1>2, <1>6, <1>7 DEF HeldInv, KnownEvents

\* Once a request is over its events are in nobody's hands.
LEMMA FinishReleases ==
  ASSUME TypeInv, HeldInv, NEW w \in Workers, Finish(w), UNCHANGED queueVars
  PROVE  /\ HeldBy(w)' = {} /\ IsInjective(held'[w])
         /\ \A v \in Workers \ {w} : held'[v] = held[v] /\ HeldBy(v)' = HeldBy(v)
         /\ Undelivered' = Undelivered \ HeldBy(w)
<1>1. held' = [held EXCEPT ![w] = <<>>] /\ held \in [Workers -> Seq(Events)]
  BY DEF Finish, TypeInv, TypeOK
<1>2. HeldBy(w)' = {} /\ IsInjective(held'[w])
  BY <1>1, NoElement DEF HeldBy
<1>3. \A v \in Workers \ {w} : held'[v] = held[v] /\ HeldBy(v)' = HeldBy(v)
  BY <1>1 DEF HeldBy
<1>4. queue' = queue
  BY DEF queueVars
<1> QED
  BY <1>2, <1>3, <1>4 DEF Undelivered, HeldInv, HeldOnce

LEMMA HeldFinish ==
  ASSUME TypeInv, HeldInv, NEW w \in Workers, Finish(w), UNCHANGED queueVars,
         CountSent(w) \/ CountFailed(w) \/ UNCHANGED countVars
  PROVE  HeldInv'
<1>1. queue' = queue /\ accepted' = accepted
  BY DEF queueVars
<1>2. \A e \in Events :
        /\ e \notin HeldBy(w) => outcome'[e] = outcome[e]
        /\ e \in HeldBy(w) => e \in Range(accepted)
  BY DEF CountSent, CountFailed, countVars, HeldBy, HeldInv, KnownEvents, Undelivered
<1>3. Undelivered \subseteq Events
  <2>1. Range(queue) \subseteq Events
    BY NoElement DEF TypeInv, TypeOK
  <2>2. \A v \in Workers : HeldBy(v) \subseteq Events
    <3>1. \A v \in Workers : held[v] \in Seq(Events)
      BY DEF TypeInv, TypeOK
    <3> QED
      BY <3>1, NoElement DEF HeldBy
  <2> QED
    BY <2>1, <2>2 DEF Undelivered
<1>4. Undelivered' = Undelivered \ HeldBy(w)
  BY FinishReleases
<1>5. \A e \in Undelivered : outcome[e] = "none"
  BY DEF HeldInv, HeldOnce
<1>6. HeldOnce'
  <2>1. \A v \in Workers : IsInjective(held'[v]) /\ HeldBy(v)' \cap Range(queue') = {}
    BY <1>1, FinishReleases DEF HeldInv, HeldOnce
  <2>2. \A u, v \in Workers : u # v => HeldBy(u)' \cap HeldBy(v)' = {}
    BY FinishReleases DEF HeldInv, HeldOnce
  <2>3. \A e \in Undelivered' : outcome'[e] = "none"
    BY <1>2, <1>3, <1>4, <1>5
  <2> QED
    BY <1>1, <2>1, <2>2, <2>3 DEF HeldInv, HeldOnce
<1>7. KnownEvents'
  BY <1>1, <1>2, <1>4 DEF HeldInv, KnownEvents
<1> QED
  BY <1>6, <1>7 DEF HeldInv

LEMMA HeldNext ==
  ASSUME TypeInv, HeldInv, [Next]_vars
  PROVE  HeldInv'
<1>1. CASE UNCHANGED <<queue, accepted, held, countVars>>
  BY <1>1 DEF HeldInv, HeldOnce, KnownEvents, Undelivered, HeldBy, countVars
<1> QED
  BY <1>1, StepCases, HeldAccept, HeldDrop, HeldTake, HeldFinish

LEMMA HeldInit == Init => HeldInv
<1> SUFFICES ASSUME Init PROVE HeldInv
  OBVIOUS
<1>1. Range(queue) = {} /\ IsInjective(queue)
  BY NoElement DEF Init
<1>2. \A w \in Workers : HeldBy(w) = {} /\ IsInjective(held[w])
  BY NoElement DEF Init, HeldBy
<1>3. Undelivered = {}
  BY <1>1, <1>2 DEF Undelivered
<1>4. \A e \in Events : outcome[e] = "none"
  BY DEF Init
<1> QED
  BY <1>1, <1>2, <1>3, <1>4 DEF HeldInv, HeldOnce, KnownEvents

LEMMA HeldInvariant == Spec => [](TypeInv /\ HeldInv)
<1>1. TypeInv /\ HeldInv /\ [Next]_vars => HeldInv'
  BY HeldNext
<1> QED
  BY <1>1, HeldInit, TypeInvariant, PTL DEF Spec

\* An event is in the queue or with one worker, once, and is not counted while it
\* is (Enqueue, runBatchWorker, flushBatch, executeWithRetry).
THEOREM EventsHeldOnce == Spec => []HeldOnce
<1>1. HeldInv => HeldOnce
  BY DEF HeldInv
<1> QED
  BY <1>1, HeldInvariant, PTL

-----------------------------------------------------------------------------
(* What an event was counted as is final: a request counts events it holds, *)
(* and those have not been counted.                                         *)

LEMMA OutcomeStep ==
  ASSUME TypeInv, HeldInv, [Next]_vars, NEW e \in Events, outcome[e] # "none"
  PROVE  outcome'[e] = outcome[e]
<1>1. e \notin Undelivered
  BY DEF HeldInv, HeldOnce
<1>2. ASSUME NEW d \in Events, d \notin Offered, EnqueueDrops(d)
      PROVE  outcome'[e] = outcome[e]
  <2>1. outcome' = [outcome EXCEPT ![d] = "dropped"] /\ outcome \in [Events -> Outcomes]
    BY <1>2 DEF EnqueueDrops, TypeInv, TypeOK
  <2>2. outcome[d] = "none"
    BY <1>2, <2>1 DEF Offered, HeldInv, KnownEvents, Outcomes
  <2> QED
    BY <2>1, <2>2
<1>3. ASSUME NEW w \in Workers, CountSent(w) \/ CountFailed(w)
      PROVE  outcome'[e] = outcome[e]
  BY <1>1, <1>3 DEF CountSent, CountFailed, Undelivered, HeldBy
<1> QED
  BY <1>2, <1>3, StepCases DEF countVars, EnqueueAccepts, SelectEvent

\* No retry, refusal or late result ever counts an event a second time
\* (executeWithRetry, Enqueue).
THEOREM OutcomesAreFinal == Spec => OutcomeIsFinal
<1>1. TypeInv /\ HeldInv /\ [Next]_vars
        => [\A e \in Events : outcome[e] # "none" => outcome'[e] = outcome[e]]_vars
  BY OutcomeStep
<1> QED
  BY <1>1, HeldInvariant, PTL DEF Spec, OutcomeIsFinal

-----------------------------------------------------------------------------
(* Nothing is lost silently. A worker stops for one of two reasons, each of  *)
(* which lasts, and returns with empty hands.                               *)

StopsForReason ==
  /\ \A w \in Workers : stopping[w] => ctxDone \/ (queueClosed /\ queue = <<>>)
  /\ \A w \in Workers : pc[w] = "exited" => stopping[w] /\ held[w] = <<>>

LEMMA StopsNext ==
  ASSUME TypeInv, StopsForReason, [Next]_vars
  PROVE  StopsForReason'
<1> USE DEF StopsForReason
<1>1. ASSUME NEW e \in Events, Enqueue(e) PROVE StopsForReason'
  BY <1>1 DEF Enqueue, EnqueueAccepts, EnqueueDrops, queueVars, workerVars
<1>2. CASE CloseQueue \/ CancelContext \/ ReadStatus \/ ClockStep \/ UNCHANGED vars
  BY <1>2 DEF CloseQueue, CancelContext, ReadStatus, ClockStep, vars, queueVars, workerVars
<1>3. ASSUME NEW w \in Workers, SelectStep(w) PROVE StopsForReason'
  <2> USE DEF TypeInv, TypeOK
  <2>1. CASE SelectCtxDone(w) \/ SelectClosed(w)
    BY <2>1 DEF SelectCtxDone, SelectClosed, FlushThenStop, queueVars
  <2>2. CASE SelectTick(w)
    BY <2>2 DEF SelectTick, queueVars
  <2>3. CASE SelectEvent(w)
    BY <2>3 DEF SelectEvent
  <2> QED
    BY <1>3, <2>1, <2>2, <2>3 DEF SelectStep
<1>4. ASSUME NEW w \in Workers, DeliverStep(w) PROVE StopsForReason'
  <2>1. queue' = queue /\ queueClosed' = queueClosed /\ ctxDone' = ctxDone
    BY <1>4, DeliverCases DEF queueVars
  <2>2. stopping' = stopping
    BY <1>4, DeliverCases DEF Finish
  <2>3. \A v \in Workers : pc'[v] = "exited" => stopping[v] /\ held'[v] = <<>>
    <3>1. CASE Finish(w)
      BY <3>1 DEF Finish, TypeInv, TypeOK
    <3>2. CASE /\ UNCHANGED <<held, stopping, countVars>>
               /\ \E next \in {"send", "backoff"} : pc' = [pc EXCEPT ![w] = next]
      BY <3>2 DEF TypeInv, TypeOK
    <3> QED
      BY <1>4, <3>1, <3>2, DeliverCases
  <2> QED
    BY <2>1, <2>2, <2>3
<1> QED
  BY <1>1, <1>2, <1>3, <1>4 DEF Next, WorkerStep

\* Until a cancellation an accepted event is counted or held.
AcceptedIsKept ==
  ~ctxDone => \A e \in Range(accepted) : outcome[e] \in {"sent", "failed"} \/ e \in Undelivered

LEMMA CancelLasts ==
  ASSUME [Next]_vars, ctxDone
  PROVE  ctxDone'
BY DeliverCases
DEF Next, Enqueue, EnqueueAccepts, EnqueueDrops, CloseQueue, CancelContext, ReadStatus,
    ClockStep, WorkerStep, SelectStep, SelectCtxDone, SelectClosed, SelectTick, SelectEvent,
    queueVars, vars

LEMMA KeptNext ==
  ASSUME TypeInv, HeldInv, AcceptedIsKept, [Next]_vars
  PROVE  AcceptedIsKept'
<1> SUFFICES ASSUME ~ctxDone', NEW e \in Range(accepted')
             PROVE  outcome'[e] \in {"sent", "failed"} \/ e \in Undelivered'
  BY DEF AcceptedIsKept
<1>1. \A d \in Range(accepted) : outcome[d] \in {"sent", "failed"} \/ d \in Undelivered
  BY CancelLasts DEF AcceptedIsKept
<1>2. CASE UNCHANGED <<queue, accepted, held, countVars>>
  BY <1>1, <1>2 DEF countVars, Undelivered, HeldBy
<1>3. ASSUME NEW d \in Events, EnqueueAccepts(d)
      PROVE  outcome'[e] \in {"sent", "failed"} \/ e \in Undelivered'
  <2>1. Range(queue') = Range(queue) \cup {d} /\ Range(accepted') = Range(accepted) \cup {d}
    BY <1>3, AppendElement DEF EnqueueAccepts, TypeInv, TypeOK
  <2>2. Undelivered' = Undelivered \cup {d}
    BY <1>3, <2>1 DEF EnqueueAccepts, workerVars, Undelivered, HeldBy
  <2> QED
    BY <1>1, <1>3, <2>1, <2>2 DEF EnqueueAccepts, countVars
<1>4. ASSUME NEW d \in Events, d \notin Offered, EnqueueDrops(d)
      PROVE  outcome'[e] \in {"sent", "failed"} \/ e \in Undelivered'
  BY <1>1, <1>4
  DEF EnqueueDrops, queueVars, workerVars, Undelivered, HeldBy, Offered, TypeInv, TypeOK
<1>5. ASSUME NEW w \in Workers, SelectEvent(w)
      PROVE  outcome'[e] \in {"sent", "failed"} \/ e \in Undelivered'
  BY <1>1, <1>5, HeldTake DEF SelectEvent, countVars
<1>6. ASSUME NEW w \in Workers, Finish(w), UNCHANGED queueVars, CountSent(w) \/ CountFailed(w)
      PROVE  outcome'[e] \in {"sent", "failed"} \/ e \in Undelivered'
  <2>1. accepted' = accepted /\ Undelivered' = Undelivered \ HeldBy(w)
    BY <1>6, FinishReleases DEF queueVars
  <2>2. e \in Events
    BY <2>1, NoElement DEF TypeInv, TypeOK
  <2> QED
    BY <1>1, <1>6, <2>1, <2>2 DEF CountSent, CountFailed, HeldBy
<1> QED
  BY <1>2, <1>3, <1>4, <1>5, <1>6, StepCases, CancelLasts

LEMMA KeptIsNotLost ==
  ASSUME TypeInv, StopsForReason, AcceptedIsKept
  PROVE  NoSilentLoss
<1> SUFFICES ASSUME ~ctxDone, NEW e \in Range(accepted), outcome[e] \notin {"sent", "failed"}
             PROVE  \/ e \in Range(queue) /\ \E w \in Workers : pc[w] # "exited"
                    \/ \E w \in Workers : pc[w] # "exited" /\ e \in HeldBy(w)
  BY DEF NoSilentLoss
<1>1. e \in Undelivered
  BY DEF AcceptedIsKept
<1>2. CASE e \in Range(queue)
  <2>1. queue # <<>>
    BY <1>2, NoElement
  <2> QED
    BY <1>2, <2>1, WorkersAssumption DEF StopsForReason
<1>3. ASSUME NEW w \in Workers, e \in HeldBy(w) PROVE pc[w] # "exited"
  BY <1>3, NoElement DEF StopsForReason, HeldBy
<1> QED
  BY <1>1, <1>2, <1>3 DEF Undelivered

\* However batches are cut, sends fail and queues are closed, an accepted event is
\* counted or in the hands of somebody still at work (runBatchWorker, flushBatch).
THEOREM NothingLostSilently == Spec => []NoSilentLoss
<1>1. Init => StopsForReason /\ AcceptedIsKept
  BY NoElement DEF Init, StopsForReason, AcceptedIsKept
<1>2. TypeInv /\ HeldInv /\ StopsForReason /\ AcceptedIsKept /\ [Next]_vars
        => StopsForReason' /\ AcceptedIsKept'
  BY StopsNext, KeptNext
<1>3. TypeInv /\ StopsForReason /\ AcceptedIsKept => NoSilentLoss
  BY KeptIsNotLost
<1> QED
  BY <1>1, <1>2, <1>3, HeldInvariant, PTL DEF Spec

-----------------------------------------------------------------------------
(* Order. The queue is what is left of accepted beyond the events taken, and *)
(* what a worker holds was taken: an event it takes now comes later.        *)

Taken == Len(accepted) - Len(queue)

QueueIsRest ==
  /\ Taken \in Nat
  /\ \A i \in 1..Len(queue) : queue[i] = accepted[Taken + i]

HeldWasTaken ==
  \A w \in Workers : \A i \in DOMAIN held[w] : \E k \in 1..Taken : accepted[k] = held[w][i]

HeldInOrder ==
  \A w \in Workers : \A i, j \in DOMAIN held[w] : i < j => Precedes(held[w][i], held[w][j])

OrderInv == QueueIsRest /\ HeldWasTaken /\ HeldInOrder

LEMMA OrderAccept ==
  ASSUME TypeInv, OrderInv, NEW e \in Events, EnqueueAccepts(e)
  PROVE  OrderInv'
<1>1. queue \in Seq(Events) /\ accepted \in Seq(Events) /\ held' = held
  BY DEF TypeInv, TypeOK, EnqueueAccepts, workerVars
<1>2. /\ Len(queue') = Len(queue) + 1 /\ Len(accepted') = Len(accepted) + 1
      /\ \A i \in 1..Len(queue) : queue'[i] = queue[i]
      /\ queue'[Len(queue) + 1] = e
      /\ \A i \in 1..Len(accepted) : accepted'[i] = accepted[i]
      /\ accepted'[Len(accepted) + 1] = e
      /\ Len(queue) \in Nat /\ Len(accepted) \in Nat
  BY <1>1, AppendProperties, LenProperties DEF EnqueueAccepts
<1>3. Taken' = Taken
  BY <1>2 DEF Taken
<1>4. QueueIsRest'
  <2>1. \A i \in 1..Len(queue) : Taken + i \in 1..Len(accepted)
    BY <1>2 DEF OrderInv, QueueIsRest, Taken
  <2>2. Taken + (Len(queue) + 1) = Len(accepted) + 1
    BY <1>2 DEF Taken
  <2>3. \A i \in 1..Len(queue) : queue'[i] = accepted'[Taken + i]
    BY <1>2, <2>1 DEF OrderInv, QueueIsRest
  <2>4. queue'[Len(queue) + 1] = accepted'[Taken + (Len(queue) + 1)]
    BY <1>2, <2>2
  <2>5. \A i \in 1..Len(queue') : i \in 1..Len(queue) \/ i = Len(queue) + 1
    BY <1>2
  <2> QED
    BY <1>3, <2>3, <2>4, <2>5 DEF OrderInv, QueueIsRest
<1>5. HeldWasTaken'
  <2>1. \A k \in 1..Taken : k \in 1..Len(accepted)
    BY <1>2 DEF Taken
  <2> QED
    BY <1>1, <1>2, <1>3, <2>1 DEF OrderInv, HeldWasTaken
<1>6. HeldInOrder'
  <2>1. DOMAIN accepted = 1..Len(accepted) /\ DOMAIN accepted' = 1..(Len(accepted) + 1)
    BY <1>1, LenProperties, AppendProperties DEF EnqueueAccepts
  <2>2. \A c, d : Precedes(c, d) => Precedes(c, d)'
    BY <1>2, <2>1 DEF Precedes
  <2> QED
    BY <1>1, <2>2 DEF OrderInv, HeldInOrder
<1> QED
  BY <1>4, <1>5, <1>6 DEF OrderInv

LEMMA OrderTake ==
  ASSUME TypeInv, OrderInv, NEW w \in Workers, SelectEvent(w)
  PROVE  OrderInv'
<1> DEFINE h == held[w]
<1>1. queue \in Seq(Events) /\ accepted \in Seq(Events) /\ h \in Seq(Events)
  BY DEF TypeInv, TypeOK
<1>2. /\ Len(queue) \in Nat \ {0} /\ Len(accepted) \in Nat
      /\ Len(queue') = Len(queue) - 1
      /\ \A i \in 1..(Len(queue) - 1) : queue'[i] = queue[i + 1]
      /\ Head(queue) = queue[1] /\ queue[1] \in Events
      /\ DOMAIN accepted = 1..Len(accepted) /\ accepted' = accepted
  BY <1>1, HeadTailProperties, LenProperties, EmptySeq DEF SelectEvent
<1>3. Taken' = Taken + 1 /\ Taken \in Nat /\ Taken + 1 \in 1..Len(accepted)
  BY <1>2 DEF Taken, OrderInv, QueueIsRest
<1>4. /\ \A v \in Workers : v # w => held'[v] = held[v]
      /\ held'[w] = Append(h, queue[1])
  BY <1>2 DEF SelectEvent, TypeInv, TypeOK
<1>5. /\ DOMAIN held'[w] = 1..(Len(h) + 1) /\ DOMAIN h = 1..Len(h) /\ Len(h) \in Nat
      /\ \A i \in 1..Len(h) : held'[w][i] = h[i]
      /\ held'[w][Len(h) + 1] = queue[1]
  BY <1>1, <1>2, <1>4, AppendProperties, LenProperties
<1>6. queue[1] = accepted[Taken + 1]
  BY <1>2, <1>3 DEF OrderInv, QueueIsRest
<1>7. QueueIsRest'
  <2>1. \A i \in 1..(Len(queue) - 1) : queue[i + 1] = accepted[Taken + (i + 1)]
    BY <1>2 DEF OrderInv, QueueIsRest
  <2> QED
    BY <1>2, <1>3, <2>1 DEF QueueIsRest
<1>8. HeldWasTaken'
  <2>1. ASSUME NEW v \in Workers, NEW i \in DOMAIN held'[v]
        PROVE  \E k \in 1..(Taken + 1) : accepted[k] = held'[v][i]
    <3>1. CASE v # w \/ i # Len(h) + 1
      <4>1. i \in DOMAIN held[v] /\ held'[v][i] = held[v][i]
        BY <1>4, <1>5, <3>1, <2>1
      <4>2. PICK k \in 1..Taken : accepted[k] = held[v][i]
        BY <4>1 DEF OrderInv, HeldWasTaken
      <4> QED
        BY <1>3, <4>1, <4>2
    <3>2. CASE v = w /\ i = Len(h) + 1
      BY <1>3, <1>5, <1>6, <3>2
    <3> QED
      BY <3>1, <3>2
  <2> QED
    BY <1>2, <1>3, <2>1 DEF HeldWasTaken
<1>9. HeldInOrder'
  <2>1. \A c, d : Precedes(c, d)' = Precedes(c, d)
    BY <1>2 DEF Precedes
  <2>2. ASSUME NEW i \in 1..Len(h) PROVE Precedes(h[i], queue[1])
    <3>1. PICK k \in 1..Taken : accepted[k] = h[i]
      BY <1>5, <2>2 DEF OrderInv, HeldWasTaken
    <3>2. k \in DOMAIN accepted /\ Taken + 1 \in DOMAIN accepted /\ k < Taken + 1
      BY <1>2, <1>3
    <3> QED
      BY <1>6, <3>1, <3>2 DEF Precedes
  <2>3. ASSUME NEW i \in DOMAIN held'[w], NEW j \in DOMAIN held'[w], i < j
        PROVE  Precedes(held'[w][i], held'[w][j])
    <3>1. i \in 1..Len(h) /\ held'[w][i] = h[i]
      BY <1>5, <2>3
    <3>2. CASE j = Len(h) + 1
      BY <1>5, <2>2, <3>1, <3>2
    <3>3. CASE j # Len(h) + 1
      <4>1. j \in DOMAIN h /\ i \in DOMAIN h /\ held'[w][j] = h[j]
        BY <1>5, <3>1, <3>3
      <4> QED
        BY <2>3, <3>1, <4>1 DEF OrderInv, HeldInOrder
    <3> QED
      BY <3>2, <3>3
  <2> QED
    BY <1>4, <2>1, <2>3 DEF OrderInv, HeldInOrder
<1> QED
  BY <1>7, <1>8, <1>9 DEF OrderInv

LEMMA OrderNext ==
  ASSUME TypeInv, OrderInv, [Next]_vars
  PROVE  OrderInv'
<1>1. CASE UNCHANGED <<queue, accepted, held, countVars>>
  BY <1>1 DEF OrderInv, QueueIsRest, HeldWasTaken, HeldInOrder, Taken, Precedes
<1>2. ASSUME NEW e \in Events, EnqueueDrops(e) PROVE OrderInv'
  BY <1>2
  DEF EnqueueDrops, queueVars, workerVars, OrderInv, QueueIsRest, HeldWasTaken, HeldInOrder,
      Taken, Precedes
<1>3. ASSUME NEW w \in Workers, Finish(w), UNCHANGED queueVars PROVE OrderInv'
  <2>1. \A v \in Workers : held'[v] = held[v] \/ held'[v] = <<>>
    BY <1>3 DEF Finish, TypeInv, TypeOK
  <2>2. \A v \in Workers : \A i \in DOMAIN held'[v] : held'[v] = held[v]
    BY <2>1
  <2> QED
    BY <1>3, <2>2
    DEF queueVars, OrderInv, QueueIsRest, HeldWasTaken, HeldInOrder, Taken, Precedes
<1> QED
  BY <1>1, <1>2, <1>3, StepCases, OrderAccept, OrderTake

\* However workers take turns at the queue, retry and are refused, each sends what
\* it took in the order Enqueue accepted it (runBatchWorker, flushBatch).
THEOREM EventsStayInOrder == Spec => []InOrder
<1>1. Init => OrderInv
  <2> SUFFICES ASSUME Init PROVE OrderInv
    OBVIOUS
  <2>1. Len(queue) = 0 /\ Len(accepted) = 0 /\ \A w \in Workers : DOMAIN held[w] = {}
    BY DEF Init
  <2> QED
    BY <2>1 DEF OrderInv, QueueIsRest, HeldWasTaken, HeldInOrder, Taken
<1>2. TypeInv /\ OrderInv /\ [Next]_vars => OrderInv'
  BY OrderNext
<1>3. TypeInv /\ OrderInv => InOrder
  <2> SUFFICES ASSUME TypeInv, OrderInv
               PROVE  queue = SubSeq(accepted, Taken + 1, Len(accepted))
    BY DEF OrderInv, HeldInOrder, InOrder, Taken
  <2>1. /\ queue \in Seq(Events) /\ accepted \in Seq(Events)
        /\ Len(queue) \in Nat /\ Len(accepted) \in Nat
    BY LenProperties DEF TypeInv, TypeOK
  <2>2. Taken \in Nat /\ Len(accepted) - (Taken + 1) + 1 = Len(queue)
    BY <2>1 DEF Taken, OrderInv, QueueIsRest
  <2> DEFINE rest == SubSeq(accepted, Taken + 1, Len(accepted))
  <2>3. /\ rest \in Seq(Events) /\ Len(rest) = Len(queue)
        /\ \A i \in 1..Len(queue) : rest[i] = accepted[Taken + i]
    BY <2>1, <2>2, SubSeqProperties DEF Taken
  <2>4. \A i \in 1..Len(queue) : rest[i] = queue[i]
    BY <2>3 DEF OrderInv, QueueIsRest
  <2> HIDE DEF rest
  <2>5. rest = queue
    BY <2>1, <2>3, <2>4, SeqEqual
  <2> QED
    BY <2>5 DEF rest
<1> QED
  BY <1>1, <1>2, <1>3, TypeInvariant, PTL DEF Spec

-----------------------------------------------------------------------------
(* The output implements Delivery. The step that ends a request resolves    *)
(* the events its worker held, of which there is at least one.              *)

RequestsHaveEvents ==
  \A w \in Workers : pc[w] \in {"admit", "send", "backoff"} => held[w] # <<>>

LEMMA RequestsNext ==
  ASSUME TypeInv, RequestsHaveEvents, [Next]_vars
  PROVE  RequestsHaveEvents'
<1> USE DEF RequestsHaveEvents, TypeInv, TypeOK
<1>1. CASE UNCHANGED <<pc, held>>
  BY <1>1
<1>2. ASSUME NEW w \in Workers, SelectStep(w) PROVE RequestsHaveEvents'
  <2>1. CASE SelectEvent(w)
    <3>1. held'[w] # <<>> /\ \A v \in Workers \ {w} : held'[v] = held[v] /\ pc'[v] = pc[v]
      BY <2>1, AppendProperties, HeadTailProperties DEF SelectEvent
    <3> QED
      BY <3>1
  <2>2. CASE SelectCtxDone(w) \/ SelectClosed(w) \/ SelectTick(w)
    BY <2>2 DEF SelectCtxDone, SelectClosed, SelectTick, FlushThenStop
  <2> QED
    BY <1>2, <2>1, <2>2 DEF SelectStep
<1>3. ASSUME NEW w \in Workers, DeliverStep(w) PROVE RequestsHaveEvents'
  <2>1. CASE Finish(w)
    BY <2>1 DEF Finish
  <2>2. CASE held' = held /\ \E next \in {"send", "backoff"} : pc' = [pc EXCEPT ![w] = next]
    BY <1>3, <2>2, DeliverCases
  <2> QED
    BY <1>3, <2>1, <2>2, DeliverCases
<1> QED
  BY <1>1, <1>2, <1>3
  DEF Next, WorkerStep, Enqueue, EnqueueAccepts, EnqueueDrops, CloseQueue, CancelContext,
      ReadStatus, ClockStep, vars, workerVars

DeliveryInv == TypeInv /\ HeldInv /\ RequestsHaveEvents

LEMMA DeliveryInvariant == Spec => []DeliveryInv
<1>1. Init => RequestsHaveEvents
  BY DEF Init, RequestsHaveEvents
<1>2. TypeInv /\ HeldInv /\ RequestsHaveEvents /\ [Next]_vars => RequestsHaveEvents'
  BY RequestsNext
<1>3. TypeInv /\ HeldInv /\ RequestsHaveEvents => DeliveryInv
  BY DEF DeliveryInv
<1> QED
  BY <1>1, <1>2, <1>3, HeldInvariant, PTL DEF Spec

Fates == [e \in Events |-> FateOf(e)]

\* What an event's fate is, case by case.
LEMMA FateCases ==
  ASSUME NEW e \in Events
  PROVE  /\ outcome[e] # "none" => Fates[e] = outcome[e]
         /\ outcome[e] = "none" /\ e \in Undelivered => Fates[e] = "pending"
         /\ outcome[e] = "none" /\ e \notin Undelivered /\ e \in Range(accepted)
              => Fates[e] = "lost"
         /\ outcome[e] = "none" /\ e \notin Undelivered /\ e \notin Range(accepted)
              => Fates[e] = "new"
BY DEF Fates, FateOf

\* Fates are unchanged when nothing they are computed from changes.
LEMMA FatesStay ==
  ASSUME UNCHANGED <<outcome, accepted, Undelivered>>
  PROVE  Fates' = Fates
BY DEF Fates, FateOf

LEMMA AcceptIsOffer ==
  ASSUME DeliveryInv, NEW e \in Events, ~queueClosed, e \notin Offered, EnqueueAccepts(e)
  PROVE  Abstract!Offer(e)
<1>1. /\ Range(accepted') = Range(accepted) \cup {e}
      /\ Range(queue') = Range(queue) \cup {e}
  BY AppendElement DEF EnqueueAccepts, DeliveryInv, TypeInv, TypeOK
<1>2. Undelivered' = Undelivered \cup {e} /\ outcome' = outcome
  BY <1>1 DEF EnqueueAccepts, workerVars, countVars, Undelivered, HeldBy
<1>3. e \notin Undelivered /\ e \notin Range(accepted) /\ outcome[e] = "none"
  BY DEF Offered, DeliveryInv, HeldInv, KnownEvents, TypeInv, TypeOK, Outcomes
<1>4. Fates[e] = "new" /\ Fates'[e] = "pending"
  BY <1>2, <1>3 DEF Fates, FateOf
<1>5. \A d \in Events \ {e} : Fates'[d] = Fates[d]
  BY <1>1, <1>2 DEF Fates, FateOf
<1>6. Fates' = [Fates EXCEPT ![e] = "pending"]
  BY <1>4, <1>5 DEF Fates
<1> QED
  BY <1>4, <1>6 DEF Abstract!Offer, Fates, EnqueueAccepts, countVars

LEMMA DropIsDrop ==
  ASSUME DeliveryInv, NEW e \in Events, ~queueClosed, e \notin Offered, EnqueueDrops(e)
  PROVE  Abstract!Drop(e)
<1>1. /\ UNCHANGED <<accepted, Undelivered>>
      /\ outcome' = [outcome EXCEPT ![e] = "dropped"] /\ outcome \in [Events -> Outcomes]
  BY DEF EnqueueDrops, queueVars, workerVars, Undelivered, HeldBy, DeliveryInv, TypeInv, TypeOK
<1>2. e \notin Undelivered /\ e \notin Range(accepted) /\ outcome[e] = "none"
  BY <1>1 DEF Offered, DeliveryInv, HeldInv, KnownEvents, Outcomes
<1>3. Fates[e] = "new" /\ Fates'[e] = "dropped"
  BY <1>1, <1>2 DEF Fates, FateOf
<1>4. \A d \in Events \ {e} : Fates'[d] = Fates[d]
  BY <1>1 DEF Fates, FateOf
<1>5. Fates' = [Fates EXCEPT ![e] = "dropped"]
  BY <1>3, <1>4 DEF Fates
<1> QED
  BY <1>3, <1>5 DEF Abstract!Drop, Fates, EnqueueDrops, queueVars

\* The end of a request: what it held was pending and has one fate from now on.
LEMMA FinishResolves ==
  ASSUME DeliveryInv, NEW w \in Workers, Finish(w), UNCHANGED queueVars,
         pc[w] \in {"admit", "send", "backoff"}, NEW f \in {"sent", "failed", "lost"},
         outcome' = IF f = "lost" THEN outcome
                    ELSE [e \in Events |-> IF e \in Range(held[w]) THEN f ELSE outcome[e]],
         droppedTotal' = droppedTotal
  PROVE  /\ Abstract!Resolved(HeldBy(w), f)
         /\ HeldBy(w) \in SUBSET Events
         /\ Cardinality(HeldBy(w)) = Len(held[w])
<1>1. held[w] \in Seq(Events) /\ held[w] # <<>> /\ IsInjective(held[w])
  BY DEF DeliveryInv, TypeInv, TypeOK, RequestsHaveEvents, HeldInv, HeldOnce
<1>2. /\ HeldBy(w) # {} /\ HeldBy(w) \subseteq Events
      /\ Cardinality(HeldBy(w)) = Len(held[w])
  BY <1>1, NoElement, LengthIsCardinality DEF HeldBy
<1>3. Undelivered' = Undelivered \ HeldBy(w) /\ accepted' = accepted
  BY FinishReleases DEF DeliveryInv, queueVars
<1>4. \A e \in HeldBy(w) :
        e \in Undelivered /\ outcome[e] = "none" /\ e \in Range(accepted)
  BY DEF DeliveryInv, HeldInv, HeldOnce, KnownEvents, Undelivered
<1>5. \A e \in HeldBy(w) : Fates[e] = "pending" /\ Fates'[e] = f
  <2>1. \A e \in HeldBy(w) : Fates[e] = "pending"
    BY <1>2, <1>4, FateCases
  <2>2. CASE f = "lost"
    BY <1>2, <1>3, <1>4, <2>2, <2>1 DEF Fates, FateOf
  <2>3. CASE f # "lost"
    <3>1. \A e \in HeldBy(w) : outcome'[e] = f
      BY <1>2, <2>3 DEF HeldBy
    <3> QED
      BY <1>2, <2>1, <3>1 DEF Fates, FateOf
  <2> QED
    BY <2>2, <2>3
<1>6. \A e \in Events \ HeldBy(w) : Fates'[e] = Fates[e]
  BY <1>3 DEF Fates, FateOf, HeldBy
<1>7. Fates' = [e \in Events |-> IF e \in HeldBy(w) THEN f ELSE Fates[e]]
  BY <1>5, <1>6 DEF Fates
<1>8. UNCHANGED <<queueClosed, ctxDone>>
  BY DEF queueVars
<1> QED
  BY <1>2, <1>5, <1>7, <1>8 DEF Abstract!Resolved, Abstract!With, Fates

\* Delivery counts with the same Cardinality.
LEMMA SameCardinality == \A S : Abstract!Cardinality(S) = Cardinality(S)
BY Zenon DEF Abstract!Cardinality, Cardinality

LEMMA StepImplements ==
  ASSUME DeliveryInv, [Next]_vars
  PROVE  [Abstract!Next]_(Abstract!vars)
<1> USE DEF Abstract!vars
<1>1. ASSUME UNCHANGED <<queue, accepted, held, countVars>> PROVE Fates' = Fates
  BY <1>1, FatesStay DEF countVars, Undelivered, HeldBy
<1>2. CASE CloseQueue
  BY <1>1, <1>2, IdleCases DEF CloseQueue, countVars, Fates, Abstract!Next, Abstract!Close
<1>3. CASE CancelContext
  BY <1>1, <1>3, IdleCases DEF CancelContext, countVars, Fates, Abstract!Next, Abstract!Cancel
<1>4. CASE UNCHANGED <<queue, accepted, held, countVars, queueClosed, ctxDone>>
  BY <1>1, <1>4 DEF countVars, Fates
<1>5. ASSUME NEW w \in Workers, SelectEvent(w) PROVE [Abstract!Next]_(Abstract!vars)
  BY <1>5, HeldTake, FatesStay DEF DeliveryInv, SelectEvent, countVars, Fates
<1>6. ASSUME NEW w \in Workers, Finish(w), UNCHANGED queueVars,
             pc[w] \in {"admit", "send", "backoff"},
             CountSent(w) \/ CountFailed(w) \/ (ctxDone /\ UNCHANGED countVars)
      PROVE  Abstract!Next
  <2>1. CASE CountSent(w)
    <3>1. /\ Abstract!Resolved(HeldBy(w), "sent") /\ HeldBy(w) \in SUBSET Events
          /\ Cardinality(HeldBy(w)) = Len(held[w])
      BY <1>6, <2>1, FinishResolves DEF CountSent
    <3>2. Abstract!Deliver(HeldBy(w))
      BY <2>1, <3>1, SameCardinality DEF CountSent, Abstract!Deliver
    <3> QED
      BY <3>1, <3>2 DEF Abstract!Next
  <2>2. CASE CountFailed(w)
    <3>1. /\ Abstract!Resolved(HeldBy(w), "failed") /\ HeldBy(w) \in SUBSET Events
          /\ Cardinality(HeldBy(w)) = Len(held[w])
      BY <1>6, <2>2, FinishResolves DEF CountFailed
    <3>2. Abstract!Fail(HeldBy(w))
      BY <2>2, <3>1, SameCardinality DEF CountFailed, Abstract!Fail
    <3> QED
      BY <3>1, <3>2 DEF Abstract!Next
  <2>3. CASE ctxDone /\ UNCHANGED countVars
    <3>1. Abstract!Abandon(HeldBy(w)) /\ HeldBy(w) \in SUBSET Events
      BY <1>6, <2>3, FinishResolves DEF countVars, Abstract!Abandon
    <3> QED
      BY <3>1 DEF Abstract!Next
  <2> QED
    BY <1>6, <2>1, <2>2, <2>3
<1>7. ASSUME NEW e \in Events, Enqueue(e) PROVE Abstract!Next
  BY <1>7, AcceptIsOffer, DropIsDrop DEF Enqueue, Abstract!Next
<1>8. ASSUME NEW w \in Workers, DeliverStep(w) PROVE [Abstract!Next]_(Abstract!vars)
  BY <1>4, <1>6, <1>8, DeliverCases DEF queueVars
<1>9. ASSUME NEW w \in Workers, SelectCtxDone(w) \/ SelectClosed(w) \/ SelectTick(w)
      PROVE  [Abstract!Next]_(Abstract!vars)
  BY <1>4, <1>9 DEF SelectCtxDone, SelectClosed, SelectTick, FlushThenStop, queueVars
<1>10. CASE ReadStatus \/ ClockStep \/ UNCHANGED vars
  BY <1>4, <1>10 DEF ReadStatus, ClockStep, vars, queueVars, workerVars
<1> QED
  BY <1>2, <1>3, <1>5, <1>7, <1>8, <1>9, <1>10 DEF Next, WorkerStep, SelectStep

LEMMA OutputInit == Init => Abstract!Init
<1> SUFFICES ASSUME Init PROVE Abstract!Init
  OBVIOUS
<1>1. Range(accepted) = {} /\ Range(queue) = {} /\ \A w \in Workers : HeldBy(w) = {}
  BY NoElement DEF Init, HeldBy
<1>2. Undelivered = {} /\ \A e \in Events : outcome[e] = "none"
  BY <1>1 DEF Undelivered, Init
<1>3. Fates = [e \in Events |-> "new"]
  BY <1>1, <1>2 DEF Fates, FateOf
<1> QED
  BY <1>3 DEF Init, Abstract!Init, Fates

\* An output with its queue, pool, retries and breaker is a Delivery: the counters
\* count every event once, by what became of it, and only a cancellation abandons
\* any (Enqueue, executeWithRetry).
THEOREM OutputImplementsDelivery == Spec => ImplementsDelivery
<1>1. DeliveryInv /\ [Next]_vars => [Abstract!Next]_(Abstract!vars)
  BY StepImplements
<1> QED
  BY <1>1, OutputInit, DeliveryInvariant, PTL DEF Spec, ImplementsDelivery, Abstract!Spec

-----------------------------------------------------------------------------
(* What every Delivery accounts for, the output accounts for. Its steps are  *)
(* Delivery's, so it is enough that those keep the accounts.                *)

Counting(fate, f) == Cardinality({e \in Events : fate[e] = f})

\* The events of a batch change from fate g to fate f.
LEMMA Recount ==
  ASSUME NEW old \in [Events -> Abstract!Fates], NEW new \in [Events -> Abstract!Fates],
         NEW batch \in SUBSET Events, NEW f \in Abstract!Fates, NEW g \in Abstract!Fates \ {f},
         \A e \in batch : old[e] = g,
         \A e \in Events : new[e] = IF e \in batch THEN f ELSE old[e]
  PROVE  /\ Counting(new, f) = Counting(old, f) + Cardinality(batch)
         /\ \A h \in Abstract!Fates \ {f, g} : Counting(new, h) = Counting(old, h)
<1> DEFINE before == {e \in Events : old[e] = f}
           after == {e \in Events : new[e] = f}
<1>1. after = before \cup batch /\ before \cap batch = {}
  OBVIOUS
<1>2. IsFiniteSet(before) /\ IsFiniteSet(batch)
  BY EventsAssumption, FS_Subset
<1>3. Cardinality(before) \in Nat /\ Cardinality(batch) \in Nat
  BY <1>2, FS_CardinalityType
<1>4. Cardinality(after) = Cardinality(before) + Cardinality(batch)
  <2> HIDE DEF before, after
  <2>1. Cardinality(after) = Cardinality(before) + Cardinality(batch) - Cardinality({})
    BY <1>1, <1>2, FS_Union
  <2> QED
    BY <1>3, <2>1, FS_EmptySet
<1>5. ASSUME NEW h \in Abstract!Fates \ {f, g} PROVE Counting(new, h) = Counting(old, h)
  <2>1. {e \in Events : new[e] = h} = {e \in Events : old[e] = h}
    OBVIOUS
  <2> QED
    BY <2>1 DEF Counting
<1> QED
  BY <1>4, <1>5 DEF Counting

\* The accounts, of Delivery's variables.
Accounts ==
  /\ Fates \in [Events -> Abstract!Fates]
  /\ sentTotal = Counting(Fates, "sent")
  /\ failedTotal = Counting(Fates, "failed")
  /\ droppedTotal = Counting(Fates, "dropped")
  /\ ~ctxDone => Counting(Fates, "lost") = 0

LEMMA StepAccounts ==
  ASSUME Accounts, [Abstract!Next]_(Abstract!vars)
  PROVE  Accounts'
<1>1. PICK old \in [Events -> Abstract!Fates] : old = Fates
  BY DEF Accounts
<1>2. PICK new : new = Fates'
  OBVIOUS
<1>3. /\ sentTotal = Counting(old, "sent") /\ failedTotal = Counting(old, "failed")
      /\ droppedTotal = Counting(old, "dropped")
      /\ ~ctxDone => Counting(old, "lost") = 0
  BY <1>1 DEF Accounts
<1>4. SUFFICES /\ new \in [Events -> Abstract!Fates]
               /\ sentTotal' = Counting(new, "sent") /\ failedTotal' = Counting(new, "failed")
               /\ droppedTotal' = Counting(new, "dropped")
               /\ ~ctxDone' => Counting(new, "lost") = 0
  BY <1>2 DEF Accounts
<1> HIDE DEF Fates
<1>5. \A f \in {"new", "pending", "sent", "failed", "dropped", "lost"} : f \in Abstract!Fates
  BY DEF Abstract!Fates
<1>6. ASSUME NEW e \in Events, NEW f \in {"pending", "dropped"},
             new = [old EXCEPT ![e] = f], old[e] = "new"
      PROVE  /\ new \in [Events -> Abstract!Fates]
             /\ Counting(new, f) = Counting(old, f) + 1
             /\ \A h \in {"sent", "failed", "dropped", "lost"} \ {f} :
                  Counting(new, h) = Counting(old, h)
  <2>1. new \in [Events -> Abstract!Fates]
    BY <1>5, <1>6
  <2>2. /\ {e} \in SUBSET Events /\ "new" \in Abstract!Fates \ {f} /\ f \in Abstract!Fates
        /\ \A d \in {e} : old[d] = "new"
        /\ \A d \in Events : new[d] = IF d \in {e} THEN f ELSE old[d]
    BY <1>5, <1>6
  <2>3. /\ Counting(new, f) = Counting(old, f) + Cardinality({e})
        /\ \A h \in Abstract!Fates \ {f, "new"} : Counting(new, h) = Counting(old, h)
    BY <2>1, <2>2, Recount
  <2>4. Cardinality({e}) = 1
    BY FS_Singleton
  <2> QED
    BY <1>5, <2>1, <2>3, <2>4
<1>7. ASSUME NEW batch \in SUBSET Events, NEW f \in {"sent", "failed", "lost"},
             Abstract!Resolved(batch, f)
      PROVE  /\ new \in [Events -> Abstract!Fates]
             /\ Counting(new, f) = Counting(old, f) + Cardinality(batch)
             /\ \A h \in {"sent", "failed", "dropped", "lost"} \ {f} :
                  Counting(new, h) = Counting(old, h)
             /\ droppedTotal' = droppedTotal /\ ctxDone' = ctxDone
  <2>1. /\ \A e \in batch : old[e] = "pending"
        /\ new = [e \in Events |-> IF e \in batch THEN f ELSE old[e]]
        /\ droppedTotal' = droppedTotal /\ ctxDone' = ctxDone
    BY <1>1, <1>2, <1>7 DEF Abstract!Resolved, Abstract!With, Fates
  <2>2. new \in [Events -> Abstract!Fates]
    BY <1>5, <2>1
  <2>3. /\ Counting(new, f) = Counting(old, f) + Cardinality(batch)
        /\ \A h \in Abstract!Fates \ {f, "pending"} : Counting(new, h) = Counting(old, h)
    BY <1>5, <2>1, <2>2, Recount
  <2> QED
    BY <1>5, <2>1, <2>2, <2>3
<1>8. CASE \E e \in Events : Abstract!Offer(e)
  <2>1. PICK e \in Events : Abstract!Offer(e)
    BY <1>8
  <2>2. new = [old EXCEPT ![e] = "pending"] /\ old[e] = "new"
    BY <1>1, <1>2, <2>1 DEF Abstract!Offer, Fates
  <2> QED
    BY <1>3, <1>6, <2>1, <2>2 DEF Abstract!Offer
<1>9. CASE \E e \in Events : Abstract!Drop(e)
  <2>1. PICK e \in Events : Abstract!Drop(e)
    BY <1>9
  <2>2. new = [old EXCEPT ![e] = "dropped"] /\ old[e] = "new"
    BY <1>1, <1>2, <2>1 DEF Abstract!Drop, Fates
  <2> QED
    BY <1>3, <1>6, <2>1, <2>2 DEF Abstract!Drop
<1>10. CASE \E batch \in SUBSET Events : Abstract!Deliver(batch)
  <2>1. PICK batch \in SUBSET Events : Abstract!Deliver(batch)
    BY <1>10
  <2> QED
    BY <1>3, <1>7, <2>1, SameCardinality DEF Abstract!Deliver
<1>11. CASE \E batch \in SUBSET Events : Abstract!Fail(batch)
  <2>1. PICK batch \in SUBSET Events : Abstract!Fail(batch)
    BY <1>11
  <2> QED
    BY <1>3, <1>7, <2>1, SameCardinality DEF Abstract!Fail
<1>12. CASE \E batch \in SUBSET Events : Abstract!Abandon(batch)
  <2>1. PICK batch \in SUBSET Events : Abstract!Abandon(batch)
    BY <1>12
  <2> QED
    BY <1>3, <1>7, <2>1 DEF Abstract!Abandon
<1>13. CASE Abstract!Close \/ Abstract!Cancel \/ UNCHANGED Abstract!vars
  BY <1>1, <1>2, <1>3, <1>13 DEF Abstract!Close, Abstract!Cancel, Abstract!vars, Fates
<1> QED
  BY <1>8, <1>9, <1>10, <1>11, <1>12, <1>13 DEF Abstract!Next

\* The three totals of GetStatus are, at every moment, the numbers of events that were sent,
\* failed and dropped, each event counted in one of them at most, and nothing is abandoned
\* unless delivery is cancelled (the counters of executeWithRetry and Enqueue).
THEOREM OutputAccounts == Spec => []Abstract!Accounting
<1>1. Init => Accounts
  <2> SUFFICES ASSUME Init PROVE Accounts
    OBVIOUS
  <2>1. Abstract!Init
    BY OutputInit
  <2>2. Fates = [e \in Events |-> "new"]
    BY <2>1 DEF Abstract!Init, Fates
  <2>3. \A g \in {"sent", "failed", "dropped", "lost"} : {e \in Events : Fates[e] = g} = {}
    BY <2>2
  <2>4. \A g \in {"sent", "failed", "dropped", "lost"} : Counting(Fates, g) = 0
    BY <2>3, FS_EmptySet DEF Counting
  <2> QED
    BY <2>1, <2>2, <2>3, <2>4 DEF Abstract!Init, Accounts, Abstract!Fates
<1>2. DeliveryInv /\ Accounts /\ [Next]_vars => Accounts'
  BY StepImplements, StepAccounts
<1>3. Accounts => Abstract!Accounting
  <2>1. IsFiniteSet({e \in Events : Fates[e] = "lost"})
    BY EventsAssumption, FS_Subset
  <2> QED
    BY <2>1, FS_EmptySet, SameCardinality
      DEF Accounts, Abstract!Accounting, Abstract!With, Counting, Fates
<1> QED
  BY <1>1, <1>2, <1>3, DeliveryInvariant, PTL DEF Spec

=============================================================================
