------------------------------ MODULE Service ------------------------------
(***************************************************************************)
(* The service as cmd/falcosidekick/main.go puts it together: the HTTP     *)
(* server and its handlers, the pipeline they call (enrich, dispatch,      *)
(* store), the outputs' queues and workers, and main, which on a signal    *)
(* shuts the server down, drains the queues for a limited time, closes the *)
(* drivers and the store, and returns.                                     *)
(*                                                                         *)
(* An output is reduced here to what this composition depends on: a        *)
(* bounded queue and one worker that takes an event, settles it or hangs   *)
(* in the driver, and returns when the closed queue is empty. Output has   *)
(* the rest.                                                               *)
(*                                                                         *)
(* Shutdown is fiber's: it closes the listener and waits for the requests  *)
(* in progress; called before the server listens, it returns at once.      *)
(***************************************************************************)
EXTENDS Priority, Sequences, FiniteSets

CONSTANTS
  Events,       \* the events posted, one request each
  PriorityOf,   \* PriorityOf[e]: the priority string in the request
  N,            \* number of outputs
  MinPriority,  \* MinPriority[o]: the output's minimum priority
  QueueSize

Outputs == 1..N

ASSUME NAssumption == N \in Nat
ASSUME QueueAssumption == QueueSize \in Nat \ {0}
ASSUME EventsAssumption == {"idle", "exited"} \cap Events = {}
ASSUME PrioritiesAssumption ==
  /\ PriorityOf \in [Events -> PriorityStrings]
  /\ MinPriority \in [Outputs -> PriorityStrings]

VARIABLES
  server,      \* "starting", "listening" or "down"
  handler,     \* the state of each request
  next,        \* the output a dispatching handler offers its event to next
  queue,       \* each output's channel
  queueOpen,
  worker,      \* "idle", "exited" or the event being sent
  driverOpen,
  stored,      \* the events in the store
  main,        \* where main is
  drainTimer,  \* "off", "running" or "expired"
  offered,     \* history: the events Enqueue was called with
  dropped, settled   \* history: what each output dropped, and sent or failed

requestVars == <<server, handler, next>>
outputVars == <<queue, queueOpen, worker, driverOpen, offered, dropped, settled>>
mainVars == <<main, drainTimer>>
vars == <<requestVars, outputVars, stored, mainVars>>

HandlerStates == {"none", "dispatch", "store", "ok", "badRequest", "panicked"}
Active(e) == handler[e] \in {"dispatch", "store"}

Init ==
  /\ server = "starting"
  /\ handler = [e \in Events |-> "none"]
  /\ next = [e \in Events |-> 1]
  /\ queue = [o \in Outputs |-> <<>>]
  /\ queueOpen = [o \in Outputs |-> TRUE]
  /\ worker = [o \in Outputs |-> "idle"]
  /\ driverOpen = [o \in Outputs |-> TRUE]
  /\ stored = {}
  /\ main = "serve"
  /\ drainTimer = "off"
  /\ offered = [o \in Outputs |-> {}]
  /\ dropped = [o \in Outputs |-> {}]
  /\ settled = [o \in Outputs |-> {}]

-----------------------------------------------------------------------------
(* The server and its handlers *)

Listen ==
  /\ server = "starting"
  /\ server' = "listening"
  /\ UNCHANGED <<handler, next, outputVars, stored, mainVars>>

\* handlePostEvent up to ProcessEvent: Validate checks the priority and does not
\* rewrite it. Enrich cannot fail.
Receive(e) ==
  /\ server = "listening"
  /\ handler[e] = "none"
  /\ handler' = [handler EXCEPT ![e] = IF Parses(PriorityOf[e]) THEN "dispatch" ELSE "badRequest"]
  /\ UNCHANGED <<server, next, outputVars, stored, mainVars>>

\* Mutant: Enqueue waits for room in the queue.
OfferWaits(e, o) ==
  /\ Len(queue[o]) < QueueSize
  /\ queue' = [queue EXCEPT ![o] = Append(@, e)]
  /\ handler' = [handler EXCEPT ![e] = "dispatch"]
  /\ offered' = [offered EXCEPT ![o] = @ \cup {e}]
  /\ UNCHANGED <<queueOpen, worker, driverOpen, dropped, settled>>

\* Enqueue. A send on a closed channel panics and the recover middleware ends the
\* request.
Offer(e, o) ==
  /\ IF ~queueOpen[o] THEN UNCHANGED <<queue, dropped>>
     ELSE IF Len(queue[o]) < QueueSize
     THEN queue' = [queue EXCEPT ![o] = Append(@, e)] /\ UNCHANGED dropped
     ELSE dropped' = [dropped EXCEPT ![o] = @ \cup {e}] /\ UNCHANGED queue
  /\ handler' = [handler EXCEPT ![e] = IF queueOpen[o] THEN "dispatch" ELSE "panicked"]
  /\ offered' = [offered EXCEPT ![o] = IF queueOpen[o] THEN @ \cup {e} ELSE @]
  /\ UNCHANGED <<queueOpen, worker, driverOpen, settled>>

\* One round of DispatchEvent's loop.
DispatchEvent(e) ==
  /\ handler[e] = "dispatch"
  /\ next[e] \in Outputs
  /\ IF AcceptsPriority(MinPriority[next[e]], PriorityOf[e])
     THEN Offer(e, next[e])
     ELSE UNCHANGED <<handler, outputVars>>
  /\ next' = [next EXCEPT ![e] = @ + 1]
  /\ UNCHANGED <<server, stored, mainVars>>

DispatchDone(e) ==
  /\ handler[e] = "dispatch"
  /\ next[e] > N
  /\ handler' = [handler EXCEPT ![e] = "store"]
  /\ UNCHANGED <<server, next, outputVars, stored, mainVars>>

StoreAppend(e) ==
  /\ handler[e] = "store"
  /\ stored' = stored \cup {e}
  /\ handler' = [handler EXCEPT ![e] = "ok"]
  /\ UNCHANGED <<server, next, outputVars, mainVars>>

HandlerStep(e) == DispatchEvent(e) \/ DispatchDone(e) \/ StoreAppend(e)

-----------------------------------------------------------------------------
(* The outputs' workers *)

Take(o) ==
  /\ worker[o] = "idle"
  /\ queue[o] # <<>>
  /\ worker' = [worker EXCEPT ![o] = Head(queue[o])]
  /\ queue' = [queue EXCEPT ![o] = Tail(@)]
  /\ UNCHANGED <<queueOpen, driverOpen, offered, dropped, settled, stored, requestVars, mainVars>>

Settle(o) ==
  /\ worker[o] \in Events
  /\ settled' = [settled EXCEPT ![o] = @ \cup {worker[o]}]
  /\ worker' = [worker EXCEPT ![o] = "idle"]
  /\ UNCHANGED <<queue, queueOpen, driverOpen, offered, dropped, stored, requestVars, mainVars>>

\* Mutant: a worker returns as soon as the queue is closed.
WorkerReturnsAtOnce(o) ==
  /\ worker[o] = "idle"
  /\ ~queueOpen[o]
  /\ worker' = [worker EXCEPT ![o] = "exited"]
  /\ UNCHANGED <<queue, queueOpen, driverOpen, offered, dropped, settled, stored,
                 requestVars, mainVars>>

WorkerReturns(o) ==
  /\ worker[o] = "idle"
  /\ ~queueOpen[o] /\ queue[o] = <<>>
  /\ worker' = [worker EXCEPT ![o] = "exited"]
  /\ UNCHANGED <<queue, queueOpen, driverOpen, offered, dropped, settled, stored,
                 requestVars, mainVars>>

-----------------------------------------------------------------------------
(* main *)

Signal ==
  /\ main = "serve"
  /\ main' = "shutdownServer"
  /\ UNCHANGED <<drainTimer, requestVars, outputVars, stored>>

\* app.Shutdown stops a listening server from taking requests...
StopListening ==
  /\ main = "shutdownServer"
  /\ server = "listening"
  /\ server' = "down"
  /\ UNCHANGED <<handler, next, outputVars, stored, mainVars>>

\* Mutant: Shutdown does not wait for the requests in progress.
ShutdownReturnsEarly ==
  /\ main = "shutdownServer"
  /\ server # "listening"
  /\ main' = "closeQueues"
  /\ drainTimer' = "running"
  /\ UNCHANGED <<requestVars, outputVars, stored>>

\* ... and returns once none is in progress. The drain timer starts then.
ShutdownReturns ==
  /\ main = "shutdownServer"
  /\ server # "listening"
  /\ server = "down" => \A e \in Events : ~Active(e)
  /\ main' = "closeQueues"
  /\ drainTimer' = "running"
  /\ UNCHANGED <<requestVars, outputVars, stored>>

CloseQueue(o) ==
  /\ main = "closeQueues"
  /\ queueOpen[o]
  /\ \A p \in Outputs : p < o => ~queueOpen[p]
  /\ queueOpen' = [queueOpen EXCEPT ![o] = FALSE]
  /\ UNCHANGED <<queue, worker, driverOpen, offered, dropped, settled, stored,
                 requestVars, mainVars>>

QueuesClosed ==
  /\ main = "closeQueues"
  /\ \A o \in Outputs : ~queueOpen[o]
  /\ main' = "drain"
  /\ UNCHANGED <<drainTimer, requestVars, outputVars, stored>>

TimerExpires ==
  /\ drainTimer = "running"
  /\ main \in {"closeQueues", "drain"}
  /\ drainTimer' = "expired"
  /\ UNCHANGED <<main, requestVars, outputVars, stored>>

\* Mutant: only one worker pool is waited for.
DrainedEarly ==
  /\ main = "drain"
  /\ \E o \in Outputs : worker[o] = "exited"
  /\ main' = "closeDrivers"
  /\ UNCHANGED <<drainTimer, requestVars, outputVars, stored>>

\* The two cases DrainQueues waits for. The timer's context is a child of
\* drainCtx: its expiry cancels nothing else.
Drained ==
  /\ main = "drain"
  /\ \A o \in Outputs : worker[o] = "exited"
  /\ main' = "closeDrivers"
  /\ UNCHANGED <<drainTimer, requestVars, outputVars, stored>>

DrainTimesOut ==
  /\ main = "drain"
  /\ drainTimer = "expired"
  /\ main' = "closeDrivers"
  /\ UNCHANGED <<drainTimer, requestVars, outputVars, stored>>

CloseDriver(o) ==
  /\ main = "closeDrivers"
  /\ driverOpen[o]
  /\ \A p \in Outputs : p < o => ~driverOpen[p]
  /\ driverOpen' = [driverOpen EXCEPT ![o] = FALSE]
  /\ UNCHANGED <<queue, queueOpen, worker, offered, dropped, settled, stored,
                 requestVars, mainVars>>

\* The store is closed and run returns: its deferred calls cancel the contexts.
Return ==
  /\ main = "closeDrivers"
  /\ \A o \in Outputs : ~driverOpen[o]
  /\ main' = "returned"
  /\ UNCHANGED <<drainTimer, requestVars, outputVars, stored>>

MainStep ==
  \/ StopListening \/ ShutdownReturns
  \/ \E o \in Outputs : CloseQueue(o) \/ CloseDriver(o)
  \/ QueuesClosed \/ Drained \/ DrainTimesOut \/ Return

-----------------------------------------------------------------------------
\* The process ends when main returns.
Next ==
  /\ main # "returned"
  /\ \/ Listen
     \/ \E e \in Events : Receive(e) \/ HandlerStep(e)
     \/ \E o \in Outputs : Take(o) \/ Settle(o) \/ WorkerReturns(o)
     \/ Signal
     \/ MainStep
     \/ TimerExpires

\* Goroutines that can run are run and the timer fires. A driver may hang in a
\* send for ever: nothing is assumed of Settle.
Fairness ==
  /\ WF_vars(MainStep)
  /\ WF_vars(TimerExpires)
  /\ \A e \in Events : WF_vars(HandlerStep(e))

Spec == Init /\ [][Next]_vars
FairSpec == Spec /\ Fairness

-----------------------------------------------------------------------------
(* Properties *)

\* No request finds a queue closed under it, as long as the server had started to
\* listen when it was told to stop: Enqueue panics on a closed channel.
NoSendOnClosedQueue == server = "down" => \A e \in Events : handler[e] # "panicked"

\* A driver is closed under a worker only after the drain has timed out.
DriversOutliveWorkers ==
  \A o \in Outputs : ~driverOpen[o] /\ drainTimer # "expired" => worker[o] = "exited"

\* A drain that is not cut short leaves nothing behind: whatever was accepted for
\* an output was settled by it or dropped, and is in the store as well.
CleanReturn ==
  main = "returned" /\ drainTimer # "expired" /\ server = "down" =>
    \A o \in Outputs : offered[o] = settled[o] \cup dropped[o] /\ offered[o] \subseteq stored

\* An answered event went to exactly the outputs whose minimum its severity
\* reaches, whatever the other outputs' queues and drivers did.
Reaches(e, o) ==
  MinPriority[o] = EmptyPriority \/ Severity(PriorityOf[e].level) >= Severity(MinPriority[o].level)

RoutedBySeverity ==
  \A e \in Events : handler[e] = "ok" => \A o \in Outputs : e \in offered[o] <=> Reaches(e, o)

\* After the signal the process ends, even when a driver hangs and queues are full.
ShutdownTerminates == (main = "shutdownServer") ~> (main = "returned")

=============================================================================
