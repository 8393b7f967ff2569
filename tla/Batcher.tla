------------------------------- MODULE Batcher -------------------------------
(***************************************************************************)
(* The payload batcher of version 2 (src/internal/pkg/batcher/batcher.go). *)
(* Goroutines push events; a batch is handed to the callback when the next *)
(* event does not fit, or by a timer, whose function runs in a goroutine   *)
(* of its own and may have to wait for the mutex. Each action is what one  *)
(* of them does while it holds the mutex.                                  *)
(***************************************************************************)
EXTENDS Naturals, Sequences

CONSTANTS
  Events,
  Size,       \* the length of an event's serialization
  BatchSize   \* in bytes

ASSUME BatcherAssumption == Size \in [Events -> Nat \ {0}] /\ BatchSize \in Nat \ {0}

VARIABLES
  pending,   \* pendingPayloads
  bytes,     \* pending.Len()
  armed,     \* curTimer is running
  late,      \* flushOnTimer goroutines that have not had the mutex yet
  calls,     \* the batches handed to the callback
  pushed,    \* history: the events in the order they were pushed
  handed     \* history: the events of the calls, in order

batcherVars == <<pending, bytes, armed, late, calls, pushed, handed>>

BatcherInit ==
  /\ pending = <<>> /\ bytes = 0
  /\ armed = FALSE /\ late = 0
  /\ calls = <<>> /\ pushed = <<>> /\ handed = <<>>

\* flush hands on what is pending.
Flush ==
  /\ calls' = Append(calls, [payloads |-> pending, bytes |-> bytes])
  /\ handed' = handed \o pending

\* Mutant: the timer's flush resets the buffer and forgets pendingPayloads.
HoldKeepsPayloads(payloads, length) ==
  /\ pending' = IF payloads = <<>> THEN pending ELSE payloads
  /\ bytes' = length

Hold(payloads, length) == pending' = payloads /\ bytes' = length

\* Mutant: the timer is started when there is none yet, and never again.
ScheduleOnce == armed' = (armed \/ pushed = <<>>)

\* scheduleFlushInterval stops the timer and starts another. A timer that has fired
\* already cannot be stopped.
ScheduleFlushInterval == armed' = TRUE

\* Mutant: the size of the event itself is left out of the test.
OverflowsOff(e) == bytes > BatchSize

Overflows(e) == bytes + Size[e] > BatchSize

Push(e) ==
  /\ pushed' = Append(pushed, e)
  /\ \/ /\ bytes = 0
        /\ ScheduleFlushInterval
        /\ Hold(Append(pending, e), Size[e])
        /\ UNCHANGED <<calls, handed>>
     \/ /\ bytes > 0 /\ Overflows(e)
        /\ Flush
        /\ ScheduleFlushInterval
        /\ Hold(<<e>>, Size[e])
     \/ /\ bytes > 0 /\ ~Overflows(e)
        /\ Hold(Append(pending, e), bytes + Size[e])
        /\ UNCHANGED <<armed, calls, handed>>
  /\ UNCHANGED late

TimerFires ==
  /\ armed
  /\ armed' = FALSE
  /\ late' = late + 1
  /\ UNCHANGED <<pending, bytes, calls, pushed, handed>>

\* Whatever is pending by now is flushed, the batch the timer was started for or a later
\* one.
FlushOnTimer ==
  /\ late > 0
  /\ late' = late - 1
  /\ \/ bytes = 0 /\ UNCHANGED <<pending, bytes, calls, handed>>
     \/ bytes > 0 /\ Flush /\ Hold(<<>>, 0)
  /\ UNCHANGED <<armed, pushed>>

BatcherStep == TimerFires \/ FlushOnTimer

-----------------------------------------------------------------------------
\* Whatever mixture of overflows, timers and late timers has flushed, each event pushed
\* was handed on once, or is still pending, in the order of the pushes (Batcher.flush).
HandedOnce == pushed = handed \o pending

\* A batch is no longer than BatchSize, unless it is one event that is: the serialization
\* and the payloads it is resolved with are cut at the same place.
BatchBounded ==
  /\ bytes <= BatchSize \/ Len(pending) = 1
  /\ \A i \in DOMAIN calls : calls[i].bytes <= BatchSize \/ Len(calls[i].payloads) = 1

\* Events that are pending have a timer that is running, or has fired and is about to
\* flush them: they cannot be left behind, also when the timer that flushed was not theirs.
PendingHasTimer == bytes > 0 => armed \/ late > 0

=============================================================================
