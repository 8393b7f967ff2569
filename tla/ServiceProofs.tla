---------------------------- MODULE ServiceProofs ----------------------------
(***************************************************************************)
(* Proofs about the service, for every set of events, number of outputs    *)
(* and length of the queues: how far main is decides what the requests,    *)
(* the queues and the workers can be doing, an output accounts for every   *)
(* event it is offered, and an event is offered by its priority.           *)
(***************************************************************************)
EXTENDS Service, SequenceTheorems, TLAPS

-----------------------------------------------------------------------------
(* Types *)

MainStates ==
  {"serve", "shutdownServer", "closeQueues", "drain", "closeDrivers", "returned"}

TypeOK ==
  /\ server \in {"starting", "listening", "down"}
  /\ handler \in [Events -> HandlerStates]
  /\ next \in [Events -> Nat]
  /\ queue \in [Outputs -> Seq(Events)]
  /\ queueOpen \in [Outputs -> BOOLEAN]
  /\ worker \in [Outputs -> Events \cup {"idle", "exited"}]
  /\ driverOpen \in [Outputs -> BOOLEAN]
  /\ stored \subseteq Events
  /\ main \in MainStates
  /\ drainTimer \in {"off", "running", "expired"}
  /\ offered \in [Outputs -> SUBSET Events]
  /\ dropped \in [Outputs -> SUBSET Events]
  /\ settled \in [Outputs -> SUBSET Events]

LEMMA InitType == Init => TypeOK
BY EmptySeq DEF Init, TypeOK, HandlerStates, MainStates

LEMMA OfferType ==
  ASSUME TypeOK, NEW e \in Events, NEW o \in Outputs, Offer(e, o)
  PROVE  /\ handler' \in [Events -> HandlerStates]
         /\ queue' \in [Outputs -> Seq(Events)]
         /\ offered' \in [Outputs -> SUBSET Events]
         /\ dropped' \in [Outputs -> SUBSET Events]
<1>1. /\ queue \in [Outputs -> Seq(Events)] /\ handler \in [Events -> HandlerStates]
      /\ offered \in [Outputs -> SUBSET Events] /\ dropped \in [Outputs -> SUBSET Events]
  BY DEF TypeOK
<1>2. Append(queue[o], e) \in Seq(Events)
  BY <1>1, AppendProperties
<1>3. queue' \in [Outputs -> Seq(Events)]
  BY <1>1, <1>2 DEF Offer
<1>4. dropped' \in [Outputs -> SUBSET Events]
  BY <1>1 DEF Offer
<1>5. handler' \in [Events -> HandlerStates]
  BY <1>1 DEF Offer, HandlerStates
<1>6. offered' \in [Outputs -> SUBSET Events]
  BY <1>1 DEF Offer
<1> QED
  BY <1>3, <1>4, <1>5, <1>6

LEMMA NextType == TypeOK /\ [Next]_vars => TypeOK'
<1> SUFFICES ASSUME TypeOK, [Next]_vars PROVE TypeOK'
  OBVIOUS
<1>1. ASSUME NEW e \in Events, Receive(e) PROVE TypeOK'
  BY <1>1 DEF Receive, TypeOK, HandlerStates, outputVars, mainVars
<1>2. ASSUME NEW e \in Events, DispatchEvent(e) PROVE TypeOK'
  <2>1. next[e] \in Outputs /\ next' \in [Events -> Nat]
    BY <1>2 DEF DispatchEvent, TypeOK
  <2>2. CASE Offer(e, next[e])
    BY <1>2, <2>1, <2>2, OfferType DEF DispatchEvent, Offer, TypeOK, mainVars
  <2>3. CASE UNCHANGED <<handler, outputVars>>
    BY <1>2, <2>1, <2>3 DEF DispatchEvent, TypeOK, outputVars, mainVars
  <2> QED
    BY <1>2, <2>2, <2>3 DEF DispatchEvent
<1>3. ASSUME NEW e \in Events, DispatchDone(e) \/ StoreAppend(e) PROVE TypeOK'
  BY <1>3 DEF DispatchDone, StoreAppend, TypeOK, HandlerStates, outputVars, mainVars
<1>4. ASSUME NEW o \in Outputs, Take(o) PROVE TypeOK'
  <2>1. queue[o] \in Seq(Events) /\ queue[o] # <<>>
    BY <1>4 DEF Take, TypeOK
  <2>2. Head(queue[o]) \in Events /\ Tail(queue[o]) \in Seq(Events)
    BY <2>1, HeadTailProperties
  <2>3. /\ queue' \in [Outputs -> Seq(Events)]
        /\ worker' \in [Outputs -> Events \cup {"idle", "exited"}]
    BY <1>4, <2>2 DEF Take, TypeOK
  <2> QED
    BY <1>4, <2>3 DEF Take, TypeOK, requestVars, mainVars
<1>5. ASSUME NEW o \in Outputs, Settle(o) PROVE TypeOK'
  <2>1. /\ settled' \in [Outputs -> SUBSET Events]
        /\ worker' \in [Outputs -> Events \cup {"idle", "exited"}]
    BY <1>5 DEF Settle, TypeOK
  <2> QED
    BY <1>5, <2>1 DEF Settle, TypeOK, requestVars, mainVars
<1>6. ASSUME NEW o \in Outputs, WorkerReturns(o) PROVE TypeOK'
  BY <1>6 DEF WorkerReturns, TypeOK, requestVars, mainVars
<1>7. CASE Listen \/ Signal \/ StopListening \/ ShutdownReturns \/ QueuesClosed \/ Drained
             \/ DrainTimesOut \/ Return \/ TimerExpires
  BY <1>7 DEF Listen, Signal, StopListening, ShutdownReturns, QueuesClosed, Drained,
              DrainTimesOut, Return, TimerExpires, TypeOK, MainStates, requestVars,
              outputVars, mainVars
<1>8. ASSUME NEW o \in Outputs, CloseQueue(o) \/ CloseDriver(o) PROVE TypeOK'
  <2>1. queueOpen' \in [Outputs -> BOOLEAN] /\ driverOpen' \in [Outputs -> BOOLEAN]
    BY <1>8 DEF CloseQueue, CloseDriver, TypeOK
  <2> QED
    BY <1>8, <2>1 DEF CloseQueue, CloseDriver, TypeOK, requestVars, mainVars
<1>9. CASE UNCHANGED vars
  BY <1>9 DEF vars, TypeOK, requestVars, outputVars, mainVars
<1> QED
  BY <1>1, <1>2, <1>3, <1>4, <1>5, <1>6, <1>7, <1>8, <1>9 DEF Next, HandlerStep, MainStep

\* The service's state stays within its types: the queues hold events only, and every
\* request, worker and driver is in one of its states.
THEOREM ServiceTypeCorrect == Spec => []TypeOK
BY InitType, NextType, PTL DEF Spec

-----------------------------------------------------------------------------
(* How far main is decides what the others can be doing. The parts about   *)
(* the requests are what makes closing a queue safe: once a listening      *)
(* server is shut down no handler is left, and none can start.             *)

BeforeDrain == {"serve", "shutdownServer"}

QueuesFollowMain ==
  /\ main \in BeforeDrain => drainTimer = "off" /\ \A o \in Outputs : queueOpen[o]
  /\ main \in {"drain", "closeDrivers", "returned"} => \A o \in Outputs : ~queueOpen[o]

WorkersFollowMain ==
  /\ \A o \in Outputs : worker[o] = "exited" => ~queueOpen[o] /\ queue[o] = <<>>
  /\ main \notin {"closeDrivers", "returned"} => \A o \in Outputs : driverOpen[o]
  /\ main \in {"closeDrivers", "returned"} /\ drainTimer # "expired" =>
       \A o \in Outputs : worker[o] = "exited"

RequestsFollowMain ==
  /\ main = "serve" => server # "down"
  /\ main \notin BeforeDrain /\ server = "down" => \A e \in Events : ~Active(e)
  /\ \A e \in Events : handler[e] = "panicked" => main \notin BeforeDrain /\ server # "down"

MainInv == QueuesFollowMain /\ WorkersFollowMain /\ RequestsFollowMain

LEMMA InitMain == Init => MainInv
BY DEF Init, MainInv, QueuesFollowMain, WorkersFollowMain, RequestsFollowMain, BeforeDrain

LEMMA QueuesFollow == TypeOK /\ QueuesFollowMain /\ [Next]_vars => QueuesFollowMain'
<1> SUFFICES ASSUME TypeOK, QueuesFollowMain, [Next]_vars PROVE QueuesFollowMain'
  OBVIOUS
<1>1. CASE UNCHANGED <<queueOpen, mainVars>>
  BY <1>1 DEF QueuesFollowMain, mainVars
<1>2. ASSUME NEW e \in Events, Receive(e) \/ HandlerStep(e)
      PROVE  UNCHANGED <<queueOpen, mainVars>>
  BY <1>2 DEF Receive, HandlerStep, DispatchEvent, Offer, DispatchDone, StoreAppend,
              outputVars
<1>3. ASSUME NEW o \in Outputs, Take(o) \/ Settle(o) \/ WorkerReturns(o)
      PROVE  UNCHANGED <<queueOpen, mainVars>>
  BY <1>3 DEF Take, Settle, WorkerReturns
<1>4. CASE Listen \/ StopListening
  BY <1>1, <1>4 DEF Listen, StopListening, outputVars
<1>5. CASE Signal \/ ShutdownReturns \/ QueuesClosed \/ Drained \/ DrainTimesOut \/ Return
  BY <1>5 DEF Signal, ShutdownReturns, QueuesClosed, Drained, DrainTimesOut, Return,
              QueuesFollowMain, BeforeDrain, outputVars
<1>6. CASE TimerExpires
  BY <1>6 DEF TimerExpires, QueuesFollowMain, BeforeDrain, outputVars
<1>7. ASSUME NEW o \in Outputs, CloseQueue(o) PROVE QueuesFollowMain'
  BY <1>7 DEF CloseQueue, QueuesFollowMain, BeforeDrain, mainVars
<1>8. ASSUME NEW o \in Outputs, CloseDriver(o) PROVE UNCHANGED <<queueOpen, mainVars>>
  BY <1>8 DEF CloseDriver
<1>9. CASE UNCHANGED vars
  BY <1>1, <1>9 DEF vars, outputVars
<1> QED
  BY <1>1, <1>2, <1>3, <1>4, <1>5, <1>6, <1>7, <1>8, <1>9 DEF Next, MainStep

LEMMA WorkersFollow ==
  TypeOK /\ QueuesFollowMain /\ WorkersFollowMain /\ [Next]_vars => WorkersFollowMain'
<1> SUFFICES ASSUME TypeOK, QueuesFollowMain, WorkersFollowMain, [Next]_vars
             PROVE  WorkersFollowMain'
  OBVIOUS
<1>1. CASE UNCHANGED <<outputVars, mainVars>>
  BY <1>1 DEF WorkersFollowMain, outputVars, mainVars
<1>2. ASSUME NEW e \in Events, NEW o \in Outputs, Offer(e, o), UNCHANGED mainVars
      PROVE  WorkersFollowMain'
  <2>1. \A p \in Outputs : ~queueOpen[p] => queue'[p] = queue[p]
    BY <1>2 DEF Offer, TypeOK
  <2> QED
    BY <1>2, <2>1 DEF Offer, WorkersFollowMain, mainVars
<1>3. ASSUME NEW e \in Events, Receive(e) \/ HandlerStep(e) PROVE WorkersFollowMain'
  BY <1>1, <1>2, <1>3 DEF Receive, HandlerStep, DispatchEvent, DispatchDone, StoreAppend
<1>4. ASSUME NEW o \in Outputs, Take(o) PROVE WorkersFollowMain'
  <2>1. /\ worker[o] = "idle" /\ queue[o] # <<>> /\ queue[o] \in Seq(Events)
        /\ worker' = [worker EXCEPT ![o] = Head(queue[o])]
        /\ \A p \in Outputs \ {o} : queue'[p] = queue[p]
        /\ UNCHANGED <<queueOpen, driverOpen, mainVars>>
    BY <1>4 DEF Take, TypeOK
  <2>2. Head(queue[o]) # "exited"
    BY <2>1, HeadTailProperties, EventsAssumption
  <2>3. \A p \in Outputs : worker'[p] = "exited" => worker[p] = "exited" /\ p # o
    BY <2>1, <2>2 DEF TypeOK
  <2> QED
    BY <2>1, <2>3 DEF WorkersFollowMain, mainVars
<1>5. ASSUME NEW o \in Outputs, Settle(o) PROVE WorkersFollowMain'
  <2>1. worker[o] # "exited"
    BY <1>5, EventsAssumption DEF Settle
  <2>2. \A p \in Outputs : worker'[p] = "exited" => worker[p] = "exited"
    BY <1>5 DEF Settle, TypeOK
  <2> QED
    BY <1>5, <2>1, <2>2 DEF Settle, WorkersFollowMain, mainVars
<1>6. ASSUME NEW o \in Outputs, WorkerReturns(o) PROVE WorkersFollowMain'
  <2>1. \A p \in Outputs : worker'[p] = IF p = o THEN "exited" ELSE worker[p]
    BY <1>6 DEF WorkerReturns, TypeOK
  <2> QED
    BY <1>6, <2>1 DEF WorkerReturns, WorkersFollowMain, mainVars
<1>7. CASE Signal \/ ShutdownReturns \/ QueuesClosed \/ Drained \/ DrainTimesOut \/ Return
  BY <1>7 DEF Signal, ShutdownReturns, QueuesClosed, Drained, DrainTimesOut, Return,
              WorkersFollowMain, outputVars
<1>8. CASE TimerExpires
  BY <1>8 DEF TimerExpires, WorkersFollowMain, outputVars
<1>9. ASSUME NEW o \in Outputs, CloseQueue(o) PROVE WorkersFollowMain'
  <2>1. \A p \in Outputs : ~queueOpen[p] => ~queueOpen'[p]
    BY <1>9 DEF CloseQueue, TypeOK
  <2> QED
    BY <1>9, <2>1 DEF CloseQueue, WorkersFollowMain, mainVars
<1>10. ASSUME NEW o \in Outputs, CloseDriver(o) PROVE WorkersFollowMain'
  BY <1>10 DEF CloseDriver, WorkersFollowMain, mainVars
<1>11. CASE Listen \/ StopListening
  BY <1>1, <1>11 DEF Listen, StopListening
<1>12. CASE UNCHANGED vars
  BY <1>1, <1>12 DEF vars
<1> QED
  BY <1>3, <1>4, <1>5, <1>6, <1>7, <1>8, <1>9, <1>10, <1>11, <1>12 DEF Next, MainStep

LEMMA RequestsFollow ==
  TypeOK /\ QueuesFollowMain /\ RequestsFollowMain /\ [Next]_vars => RequestsFollowMain'
<1> SUFFICES ASSUME TypeOK, QueuesFollowMain, RequestsFollowMain, [Next]_vars
             PROVE  RequestsFollowMain'
  OBVIOUS
<1>1. CASE UNCHANGED <<requestVars, main>>
  BY <1>1 DEF RequestsFollowMain, Active, requestVars
<1>2. ASSUME NEW e \in Events, Receive(e) PROVE RequestsFollowMain'
  BY <1>2 DEF Receive, RequestsFollowMain, Active, mainVars, TypeOK
<1>3. ASSUME NEW e \in Events, DispatchEvent(e) PROVE RequestsFollowMain'
  <2>1. /\ Active(e) /\ UNCHANGED <<server, main>>
        /\ \A d \in Events \ {e} : handler'[d] = handler[d]
        /\ handler'[e] = "panicked" => \E o \in Outputs : ~queueOpen[o]
    BY <1>3 DEF DispatchEvent, Offer, Active, outputVars, mainVars, TypeOK
  <2>2. handler'[e] = "panicked" => main \notin BeforeDrain /\ server # "down"
    BY <2>1 DEF QueuesFollowMain, RequestsFollowMain
  <2> QED
    BY <2>1, <2>2 DEF RequestsFollowMain, Active
<1>4. ASSUME NEW e \in Events, DispatchDone(e) \/ StoreAppend(e) PROVE RequestsFollowMain'
  BY <1>4 DEF DispatchDone, StoreAppend, RequestsFollowMain, Active, mainVars, TypeOK
<1>5. CASE Listen
  BY <1>5 DEF Listen, RequestsFollowMain, Active, mainVars
<1>6. CASE StopListening
  BY <1>6 DEF StopListening, RequestsFollowMain, Active, BeforeDrain, mainVars
<1>7. CASE Signal \/ ShutdownReturns \/ QueuesClosed \/ Drained \/ DrainTimesOut \/ Return
  BY <1>7 DEF Signal, ShutdownReturns, QueuesClosed, Drained, DrainTimesOut, Return,
              RequestsFollowMain, Active, BeforeDrain, requestVars
<1>8. CASE TimerExpires
  BY <1>1, <1>8 DEF TimerExpires
<1>9. ASSUME NEW o \in Outputs,
             Take(o) \/ Settle(o) \/ WorkerReturns(o) \/ CloseQueue(o) \/ CloseDriver(o)
      PROVE  RequestsFollowMain'
  BY <1>1, <1>9 DEF Take, Settle, WorkerReturns, CloseQueue, CloseDriver, mainVars
<1>10. CASE UNCHANGED vars
  BY <1>1, <1>10 DEF vars, mainVars
<1> QED
  BY <1>2, <1>3, <1>4, <1>5, <1>6, <1>7, <1>8, <1>9, <1>10 DEF Next, HandlerStep, MainStep

LEMMA MainInvariant == Spec => [](TypeOK /\ MainInv)
<1>1. TypeOK /\ MainInv /\ [Next]_vars => MainInv'
  BY QueuesFollow, WorkersFollow, RequestsFollow DEF MainInv
<1> QED
  BY <1>1, InitType, NextType, InitMain, PTL DEF Spec

\* No handler sends on a closed channel, if the server was listening when it was shut down:
\* main closes the queues only after Shutdown has returned (main.run).
THEOREM ServiceKeepsQueuesOpen == Spec => []NoSendOnClosedQueue
<1>1. MainInv => NoSendOnClosedQueue
  BY DEF MainInv, RequestsFollowMain, NoSendOnClosedQueue
<1> QED
  BY <1>1, MainInvariant, PTL

\* A driver is closed only when the worker that uses it has returned, or after the drain's
\* time is up (main.run closes the drivers after DrainQueues).
THEOREM ServiceDriversOutliveWorkers == Spec => []DriversOutliveWorkers
<1>1. MainInv => DriversOutliveWorkers
  BY DEF MainInv, WorkersFollowMain, DriversOutliveWorkers
<1> QED
  BY <1>1, MainInvariant, PTL

-----------------------------------------------------------------------------
(* What an output was offered, it settled or dropped or still has. With    *)
(* what the handlers know of their events, that is all that is left to say *)
(* of a clean return.                                                      *)

Queued(o) == {queue[o][i] : i \in DOMAIN queue[o]}
InHand(o) == Queued(o) \cup ({worker[o]} \cap Events)

OffersAccounted == \A o \in Outputs : offered[o] = settled[o] \cup dropped[o] \cup InHand(o)

AnswersStored ==
  \A e \in Events :
    /\ handler[e] = "ok" => e \in stored
    /\ handler[e] \in {"none", "badRequest"} => \A o \in Outputs : e \notin offered[o]

\* The two ends of a queue.
LEMMA QueueEnds ==
  ASSUME NEW s \in Seq(Events)
  PROVE  /\ \A e \in Events :
              {Append(s, e)[i] : i \in DOMAIN Append(s, e)} = {s[i] : i \in DOMAIN s} \cup {e}
         /\ s # <<>> => {s[i] : i \in DOMAIN s}
                          = {Head(s)} \cup {Tail(s)[i] : i \in DOMAIN Tail(s)}
<1>1. DOMAIN s = 1..Len(s) /\ Len(s) \in Nat
  BY LenProperties
<1>2. ASSUME NEW e \in Events
      PROVE  {Append(s, e)[i] : i \in DOMAIN Append(s, e)} = {s[i] : i \in DOMAIN s} \cup {e}
  <2>1. /\ DOMAIN Append(s, e) = 1..(Len(s) + 1) /\ Append(s, e)[Len(s) + 1] = e
        /\ \A i \in 1..Len(s) : Append(s, e)[i] = s[i]
    BY AppendProperties, LenProperties
  <2>2. /\ \A i \in DOMAIN s : i \in DOMAIN Append(s, e) /\ Append(s, e)[i] = s[i]
        /\ \A i \in DOMAIN Append(s, e) : i \in DOMAIN s \/ i = Len(s) + 1
    BY <1>1, <2>1
  <2> QED
    BY <1>1, <2>1, <2>2
<1>3. ASSUME s # <<>>
      PROVE  {s[i] : i \in DOMAIN s} = {Head(s)} \cup {Tail(s)[i] : i \in DOMAIN Tail(s)}
  <2>1. /\ Len(s) \in Nat \ {0} /\ DOMAIN Tail(s) = 1..(Len(s) - 1) /\ Head(s) = s[1]
        /\ \A i \in 1..(Len(s) - 1) : Tail(s)[i] = s[i + 1]
    BY <1>1, <1>3, HeadTailProperties, LenProperties, EmptySeq
  <2>2. /\ \A i \in DOMAIN Tail(s) : i + 1 \in DOMAIN s /\ Tail(s)[i] = s[i + 1]
        /\ \A i \in DOMAIN s : i = 1 \/ (i - 1 \in DOMAIN Tail(s) /\ Tail(s)[i - 1] = s[i])
        /\ 1 \in DOMAIN s
    BY <1>1, <2>1
  <2> QED
    BY <2>1, <2>2
<1> QED
  BY <1>2, <1>3

LEMMA OfferAccounted ==
  ASSUME TypeOK, OffersAccounted, NEW e \in Events, NEW o \in Outputs, Offer(e, o)
  PROVE  OffersAccounted'
<1>1. \A p \in Outputs \ {o} :
        queue'[p] = queue[p] /\ offered'[p] = offered[p] /\ dropped'[p] = dropped[p]
  BY DEF Offer, TypeOK
<1>2. settled' = settled /\ worker' = worker
  BY DEF Offer
<1>3. queue[o] \in Seq(Events)
  BY DEF TypeOK
<1>4. CASE ~queueOpen[o]
  BY <1>2, <1>4 DEF Offer, TypeOK, OffersAccounted, InHand, Queued
<1>5. CASE queueOpen[o] /\ Len(queue[o]) < QueueSize
  <2>1. /\ queue'[o] = Append(queue[o], e) /\ dropped' = dropped
        /\ offered'[o] = offered[o] \cup {e}
    BY <1>5 DEF Offer, TypeOK
  <2>2. InHand(o)' = InHand(o) \cup {e}
    BY <1>2, <1>3, <2>1, QueueEnds DEF InHand, Queued
  <2>3. \A p \in Outputs \ {o} : InHand(p)' = InHand(p)
    BY <1>1, <1>2 DEF InHand, Queued
  <2> QED
    BY <1>1, <1>2, <2>1, <2>2, <2>3 DEF OffersAccounted
<1>6. CASE queueOpen[o] /\ ~(Len(queue[o]) < QueueSize)
  <2>1. /\ queue' = queue /\ dropped'[o] = dropped[o] \cup {e}
        /\ offered'[o] = offered[o] \cup {e}
    BY <1>6 DEF Offer, TypeOK
  <2>2. \A p \in Outputs : InHand(p)' = InHand(p)
    BY <1>2, <2>1 DEF InHand, Queued
  <2> QED
    BY <1>1, <1>2, <2>1, <2>2 DEF OffersAccounted
<1> QED
  BY <1>4, <1>5, <1>6

LEMMA TakeAccounted ==
  ASSUME TypeOK, OffersAccounted, NEW o \in Outputs, Take(o)
  PROVE  OffersAccounted'
<1>1. /\ worker[o] \notin Events /\ queue[o] \in Seq(Events) /\ queue[o] # <<>>
      /\ UNCHANGED <<offered, dropped, settled>>
  BY EventsAssumption DEF Take, TypeOK
<1>2. /\ worker'[o] = Head(queue[o]) /\ queue'[o] = Tail(queue[o])
      /\ \A p \in Outputs \ {o} : worker'[p] = worker[p] /\ queue'[p] = queue[p]
  BY DEF Take, TypeOK
<1>3. Head(queue[o]) \in Events
  BY <1>1, HeadTailProperties
<1>4. Queued(o) = {Head(queue[o])} \cup Queued(o)'
  <2>1. {queue[o][i] : i \in DOMAIN queue[o]}
          = {Head(queue[o])} \cup {Tail(queue[o])[i] : i \in DOMAIN Tail(queue[o])}
    BY <1>1, QueueEnds
  <2> QED
    BY <1>2, <2>1 DEF Queued
<1>5. InHand(o)' = InHand(o)
  BY <1>1, <1>2, <1>3, <1>4 DEF InHand
<1>6. \A p \in Outputs \ {o} : InHand(p)' = InHand(p)
  BY <1>2 DEF InHand, Queued
<1> QED
  BY <1>1, <1>5, <1>6 DEF OffersAccounted

LEMMA SettleAccounted ==
  ASSUME TypeOK, OffersAccounted, NEW o \in Outputs, Settle(o)
  PROVE  OffersAccounted'
<1>1. /\ worker[o] \in Events /\ UNCHANGED <<queue, offered, dropped>>
      /\ worker'[o] = "idle" /\ settled'[o] = settled[o] \cup {worker[o]}
      /\ \A p \in Outputs \ {o} : worker'[p] = worker[p] /\ settled'[p] = settled[p]
  BY DEF Settle, TypeOK
<1>2. InHand(o) = InHand(o)' \cup {worker[o]}
  BY <1>1, EventsAssumption DEF InHand, Queued
<1>3. \A p \in Outputs \ {o} : InHand(p)' = InHand(p)
  BY <1>1 DEF InHand, Queued
<1> QED
  BY <1>1, <1>2, <1>3 DEF OffersAccounted

LEMMA ReturnsAccounted ==
  ASSUME TypeOK, OffersAccounted, NEW o \in Outputs, WorkerReturns(o)
  PROVE  OffersAccounted'
<1>1. /\ worker[o] = "idle" /\ worker'[o] = "exited"
      /\ UNCHANGED <<queue, offered, dropped, settled>>
      /\ \A p \in Outputs \ {o} : worker'[p] = worker[p]
  BY DEF WorkerReturns, TypeOK
<1>2. \A p \in Outputs : InHand(p)' = InHand(p)
  BY <1>1, EventsAssumption DEF InHand, Queued
<1> QED
  BY <1>1, <1>2 DEF OffersAccounted

\* The steps that move no event.
LEMMA OtherSteps ==
  ASSUME \/ Listen \/ Signal \/ StopListening \/ ShutdownReturns \/ QueuesClosed
         \/ Drained \/ DrainTimesOut \/ Return \/ TimerExpires \/ UNCHANGED vars
         \/ \E o \in Outputs : CloseQueue(o) \/ CloseDriver(o)
  PROVE  UNCHANGED <<handler, next, queue, worker, stored, offered, dropped, settled>>
BY DEF Listen, Signal, StopListening, ShutdownReturns, QueuesClosed, Drained, DrainTimesOut,
       Return, TimerExpires, CloseQueue, CloseDriver, vars, requestVars, outputVars

LEMMA NextAccounted == TypeOK /\ OffersAccounted /\ [Next]_vars => OffersAccounted'
<1> SUFFICES ASSUME TypeOK, OffersAccounted, [Next]_vars PROVE OffersAccounted'
  OBVIOUS
<1>1. CASE UNCHANGED <<queue, worker, offered, dropped, settled>>
  BY <1>1 DEF OffersAccounted, InHand, Queued
<1>2. ASSUME NEW e \in Events, Receive(e) \/ HandlerStep(e) PROVE OffersAccounted'
  BY <1>1, <1>2, OfferAccounted
     DEF Receive, HandlerStep, DispatchEvent, DispatchDone, StoreAppend, outputVars
<1>3. ASSUME NEW o \in Outputs, Take(o) \/ Settle(o) \/ WorkerReturns(o)
      PROVE  OffersAccounted'
  BY <1>3, TakeAccounted, SettleAccounted, ReturnsAccounted
<1> QED
  BY <1>1, <1>2, <1>3, OtherSteps DEF Next, MainStep

LEMMA NextAnswers == TypeOK /\ AnswersStored /\ [Next]_vars => AnswersStored'
<1> SUFFICES ASSUME TypeOK, AnswersStored, [Next]_vars PROVE AnswersStored'
  OBVIOUS
<1>1. CASE UNCHANGED <<handler, stored, offered>>
  BY <1>1 DEF AnswersStored
<1>2. ASSUME NEW e \in Events, Receive(e) PROVE AnswersStored'
  BY <1>2 DEF Receive, AnswersStored, TypeOK, outputVars
<1>3. ASSUME NEW e \in Events, DispatchEvent(e) PROVE AnswersStored'
  <2>1. /\ handler[e] = "dispatch" /\ handler'[e] \in {"dispatch", "panicked"}
        /\ \A d \in Events \ {e} : handler'[d] = handler[d]
        /\ \A o \in Outputs : offered'[o] \subseteq offered[o] \cup {e}
        /\ stored' = stored
    BY <1>3 DEF DispatchEvent, Offer, TypeOK, outputVars
  <2> QED
    BY <2>1 DEF AnswersStored
<1>4. ASSUME NEW e \in Events, DispatchDone(e) \/ StoreAppend(e) PROVE AnswersStored'
  BY <1>4 DEF DispatchDone, StoreAppend, AnswersStored, TypeOK, outputVars
<1>5. ASSUME NEW o \in Outputs, Take(o) \/ Settle(o) \/ WorkerReturns(o)
      PROVE  UNCHANGED <<handler, stored, offered>>
  BY <1>5 DEF Take, Settle, WorkerReturns, requestVars
<1> QED
  BY <1>1, <1>2, <1>3, <1>4, <1>5, OtherSteps DEF Next, HandlerStep, MainStep

\* When main returns without having cut the drain short, every event an output was offered
\* is settled or dropped by it, and is in the store (main.run, Output.Close).
THEOREM ServiceReturnsClean == Spec => []CleanReturn
<1>1. Init => OffersAccounted /\ AnswersStored
  <2>1. ASSUME Init PROVE \A o \in Outputs : InHand(o) = {}
    BY <2>1, EventsAssumption DEF Init, InHand, Queued
  <2> QED
    BY <2>1 DEF Init, OffersAccounted, AnswersStored
<1>2. ASSUME TypeOK, MainInv, OffersAccounted, AnswersStored PROVE CleanReturn
  <2> SUFFICES ASSUME main = "returned", drainTimer # "expired", server = "down",
                      NEW o \in Outputs
               PROVE  offered[o] = settled[o] \cup dropped[o] /\ offered[o] \subseteq stored
    BY DEF CleanReturn
  <2>1. worker[o] = "exited" /\ queue[o] = <<>>
    BY <1>2 DEF MainInv, WorkersFollowMain
  <2>2. InHand(o) = {}
    BY <2>1, EventsAssumption DEF InHand, Queued
  <2>3. \A e \in Events : ~Active(e) /\ handler[e] # "panicked"
    BY <1>2 DEF MainInv, RequestsFollowMain, BeforeDrain
  <2>4. \A e \in Events : handler[e] \in {"ok", "none", "badRequest"}
    BY <1>2, <2>3 DEF TypeOK, HandlerStates, Active
  <2>5. offered[o] \subseteq stored
    BY <1>2, <2>4 DEF AnswersStored, TypeOK
  <2> QED
    BY <1>2, <2>2, <2>5 DEF OffersAccounted
<1> QED
  BY <1>1, <1>2, NextAccounted, NextAnswers, MainInvariant, PTL DEF Spec

-----------------------------------------------------------------------------
(* Routing *)

Accepts(e, o) == AcceptsPriority(MinPriority[o], PriorityOf[e])

\* A request that is being dispatched has been through the outputs before the next.
DispatchFollows(e) ==
  /\ handler[e] \in {"none", "badRequest"} =>
       next[e] = 1 /\ \A o \in Outputs : e \notin offered[o]
  /\ handler[e] = "dispatch" =>
       \A o \in Outputs : e \in offered[o] <=> o < next[e] /\ Accepts(e, o)
  /\ handler[e] \in {"store", "ok"} => \A o \in Outputs : e \in offered[o] <=> Accepts(e, o)
  /\ handler[e] \in {"dispatch", "store", "ok"} => Parses(PriorityOf[e])

RouteInv == \A e \in Events : DispatchFollows(e)

LEMMA InitRoute == Init => RouteInv
BY DEF Init, RouteInv, DispatchFollows

LEMMA NextRoute == TypeOK /\ RouteInv /\ [Next]_vars => RouteInv'
<1> SUFFICES ASSUME TypeOK, RouteInv, [Next]_vars PROVE RouteInv'
  OBVIOUS
<1>1. CASE UNCHANGED <<handler, next, offered>>
  BY <1>1 DEF RouteInv, DispatchFollows
<1>2. ASSUME NEW e \in Events, DispatchFollows(e)',
             \A d \in Events \ {e} :
               /\ handler'[d] = handler[d] /\ next'[d] = next[d]
               /\ \A o \in Outputs : d \in offered'[o] <=> d \in offered[o]
      PROVE  RouteInv'
  BY <1>2 DEF RouteInv, DispatchFollows
<1>3. ASSUME NEW e \in Events, Receive(e) PROVE RouteInv'
  <2>1. /\ handler[e] = "none" /\ UNCHANGED <<next, offered>>
        /\ handler'[e] = IF Parses(PriorityOf[e]) THEN "dispatch" ELSE "badRequest"
        /\ \A d \in Events \ {e} : handler'[d] = handler[d]
    BY <1>3 DEF Receive, TypeOK, outputVars
  <2>2. next[e] = 1 /\ \A o \in Outputs : e \notin offered[o] /\ ~(o < next[e])
    BY <2>1 DEF RouteInv, DispatchFollows, Outputs
  <2>3. DispatchFollows(e)'
    BY <2>1, <2>2 DEF DispatchFollows
  <2> QED
    BY <1>2, <2>1, <2>3
<1>4. ASSUME NEW e \in Events, DispatchEvent(e) PROVE RouteInv'
  <2> DEFINE k == next[e]
  <2>1. /\ handler[e] = "dispatch" /\ k \in Outputs /\ next'[e] = k + 1
        /\ Accepts(e, k) => Offer(e, k)
        /\ ~Accepts(e, k) => UNCHANGED <<handler, offered>>
        /\ \A d \in Events \ {e} : next'[d] = next[d]
    BY <1>4 DEF DispatchEvent, TypeOK, Accepts, outputVars
  <2>2. /\ \A d \in Events \ {e} : handler'[d] = handler[d]
        /\ handler'[e] \in {"dispatch", "panicked"}
        /\ handler'[e] = "dispatch" =>
             \A o \in Outputs : offered'[o] = IF o = k /\ Accepts(e, k) THEN offered[o] \cup {e}
                                              ELSE offered[o]
        /\ \A d \in Events \ {e}, o \in Outputs : d \in offered'[o] <=> d \in offered[o]
    <3>1. CASE Accepts(e, k)
      <4>1. /\ handler \in [Events -> HandlerStates] /\ offered \in [Outputs -> SUBSET Events]
            /\ handler' = [handler EXCEPT ![e] = IF queueOpen[k] THEN "dispatch" ELSE "panicked"]
            /\ offered' = [offered EXCEPT ![k] = IF queueOpen[k] THEN @ \cup {e} ELSE @]
        BY <2>1, <3>1 DEF Offer, TypeOK
      <4>2. /\ \A d \in Events \ {e} : handler'[d] = handler[d]
            /\ handler'[e] = IF queueOpen[k] THEN "dispatch" ELSE "panicked"
        BY <4>1
      <4>3. /\ \A o \in Outputs \ {k} : offered'[o] = offered[o]
            /\ offered'[k] = IF queueOpen[k] THEN offered[k] \cup {e} ELSE offered[k]
        BY <2>1, <4>1
      <4> QED
        BY <3>1, <4>2, <4>3
    <3>2. CASE ~Accepts(e, k)
      BY <2>1, <3>2
    <3> QED
      BY <3>1, <3>2
  <2>3. \A o \in Outputs : e \in offered[o] <=> o < k /\ Accepts(e, o)
    BY <2>1 DEF RouteInv, DispatchFollows
  <2>4. \A o \in Outputs : o < k + 1 <=> o < k \/ o = k
    BY <2>1 DEF Outputs
  <2>5. Parses(PriorityOf[e])
    BY <2>1 DEF RouteInv, DispatchFollows
  <2>6. handler'[e] = "dispatch" =>
          \A o \in Outputs : e \in offered'[o] <=> o < k + 1 /\ Accepts(e, o)
    BY <2>2, <2>3, <2>4
  <2>7. DispatchFollows(e)'
    BY <2>1, <2>2, <2>5, <2>6 DEF DispatchFollows, Accepts
  <2> QED
    BY <1>2, <2>1, <2>2, <2>7
<1>5. ASSUME NEW e \in Events, DispatchDone(e) PROVE RouteInv'
  <2>1. /\ handler[e] = "dispatch" /\ next[e] \in Nat /\ next[e] > N
        /\ handler'[e] = "store" /\ UNCHANGED <<next, offered>>
        /\ \A d \in Events \ {e} : handler'[d] = handler[d]
    BY <1>5 DEF DispatchDone, TypeOK, outputVars
  <2>2. \A o \in Outputs : o < next[e]
    BY <2>1, NAssumption DEF Outputs
  <2>3. DispatchFollows(e)'
    BY <2>1, <2>2 DEF RouteInv, DispatchFollows, Accepts
  <2> QED
    BY <1>2, <2>1, <2>3
<1>6. ASSUME NEW e \in Events, StoreAppend(e) PROVE RouteInv'
  <2>1. /\ handler[e] = "store" /\ handler'[e] = "ok" /\ UNCHANGED <<next, offered>>
        /\ \A d \in Events \ {e} : handler'[d] = handler[d]
    BY <1>6 DEF StoreAppend, TypeOK, outputVars
  <2>2. DispatchFollows(e)'
    BY <2>1 DEF RouteInv, DispatchFollows, Accepts
  <2> QED
    BY <1>2, <2>1, <2>2
<1>7. ASSUME NEW o \in Outputs, Take(o) \/ Settle(o) \/ WorkerReturns(o)
      PROVE  UNCHANGED <<handler, next, offered>>
  BY <1>7 DEF Take, Settle, WorkerReturns, requestVars
<1> QED
  BY <1>1, <1>3, <1>4, <1>5, <1>6, <1>7, OtherSteps DEF Next, HandlerStep, MainStep

\* An answered event was offered to exactly the outputs whose filter accepts its priority.
RoutedByFilter ==
  \A e \in Events : handler[e] = "ok" => \A o \in Outputs : e \in offered[o] <=> Accepts(e, o)

\* Whatever the outputs' queues and workers did in the meantime, an answered event was
\* offered to the outputs whose filter accepts its priority string, and to no other
\* (Dispatcher.DispatchEvent).
THEOREM ServiceRoutesByFilter == Spec => []RoutedByFilter
<1>1. RouteInv => RoutedByFilter
  BY DEF RouteInv, DispatchFollows, RoutedByFilter
<1> QED
  BY <1>1, InitRoute, NextRoute, ServiceTypeCorrect, PTL DEF Spec

\* The priorities are spelled as the code's constants are: those of the events whose
\* priority ParsePriority knows, and the outputs' minimum. Nothing in the code makes them so.
CanonicallySpelled ==
  /\ \A e \in Events : Parses(PriorityOf[e]) => PriorityOf[e].canonical
  /\ \A o \in Outputs : MinPriority[o] # EmptyPriority =>
                          MinPriority[o].canonical /\ Parses(MinPriority[o])

\* Then the filter is by severity: an event goes to the outputs whose minimum its severity
\* reaches (acceptsPriority and Priority.GTE).
THEOREM ServiceRoutesBySeverity ==
  ASSUME CanonicallySpelled
  PROVE  Spec => []RoutedBySeverity
<1>1. ASSUME NEW e \in Events, Parses(PriorityOf[e]), NEW o \in Outputs
      PROVE  Accepts(e, o) <=> Reaches(e, o)
  BY <1>1 DEF CanonicallySpelled, Accepts, AcceptsPriority, GTE, Rank, Reaches
<1>2. RouteInv => RoutedBySeverity
  BY <1>1 DEF RouteInv, DispatchFollows, RoutedBySeverity
<1> QED
  BY <1>2, InitRoute, NextRoute, ServiceTypeCorrect, PTL DEF Spec

=============================================================================
