------------------------------- MODULE Drivers -------------------------------
(***************************************************************************)
(* An event, or a batch, from the enricher through a driver of the new     *)
(* pipeline (src/internal/outputs) into the hosts it sends to, under the   *)
(* retry loop of executeWithRetry. The drivers differ in how many hosts    *)
(* they ask, in what an answer may say, and in what they make of it.       *)
(*                                                                         *)
(* The hosts are external. One that gives no answer, or whose answer is    *)
(* lost, may have taken any part of the request, each event anew.          *)
(***************************************************************************)
EXTENDS Enricher

CONSTANTS
  Batch,
  Hosts,       \* of Alertmanager; every other driver has one
  MaxAttempts

ASSUME AttemptsAssumption == MaxAttempts \in Nat \ {0}

VARIABLES
  driver,      \* the driver, with the mode that changes what it does
  events,      \* the events of the request
  pc,          \* "send", "wait", or what the pipeline counts the batch as
  attempt,
  asked,       \* the hosts whose answers are awaited
  succeeded,   \* the hosts that have answered this attempt, to the driver's satisfaction
  copies,      \* for each host and event, how often the host has taken it
  buffered,    \* the records Kafka's client keeps to send them later
  unanswered   \* history: for each host, the requests it has given no answer to

driverVars == <<driver, events, pc, attempt, asked, succeeded, copies, buffered, unanswered>>
vars == <<enricherVars, driverVars>>

SingleSenders == {"alertmanager", "slack", "webhook", "elasticsearch"}
BatchSenders == {"elasticsearch bulk", "kafka", "kafka async", "loki"}

HostsOf(d) == IF d = "alertmanager" THEN Hosts ELSE {"host"}

Init ==
  /\ EnricherInit
  /\ driver \in SingleSenders \union BatchSenders
  /\ events \in SUBSET Batch \ {{}}
  /\ driver \in SingleSenders => Cardinality(events) = 1
  /\ pc = "send" /\ attempt = 0
  /\ asked = {} /\ succeeded = {} /\ buffered = {}
  /\ copies = [h \in HostsOf(driver) |-> [e \in events |-> 0]]
  /\ unanswered = [h \in HostsOf(driver) |-> 0]

-----------------------------------------------------------------------------
\* A host answers to a request with the status, a complaint or none in the body, and has
\* taken some events. A status other than 2xx means that it has taken none, but for Loki,
\* which refuses those it does not like.
Answer(taken, status, complains) ==
  [taken |-> taken, status |-> status, complains |-> complains]
Answers ==
  {Answer(events, "2xx", FALSE)}
    \union {Answer(t, "error", FALSE) : t \in IF driver = "loki" THEN SUBSET events ELSE {{}}}
    \union {Answer(t, "2xx", t # events) :
              t \in CASE driver = "slack" -> {{}}
                      [] driver \in {"elasticsearch bulk", "kafka"} -> SUBSET events
                      [] OTHER -> {}}

\* Sender.Do: a success is a 2xx.
Do(answer) == answer.status = "2xx"

\* Mutant: Slack's answer is not read.
CheckSlackResponseStatus(answer) == Do(answer)

\* Slack answers 200 and says what is wrong.
CheckSlackResponse(answer) == Do(answer) /\ ~answer.complains

\* ProduceSync: the first error of a record is the error of the batch.
FirstErr(answer) == ~answer.complains /\ Do(answer)

\* bulkFilterPath asks for the items' status and error alone: the server leaves the field
\* "errors" out of what it sends.
FilterPath(answer) == [status |-> answer.status, errors |-> FALSE, rejected |-> answer.complains]

\* The fast path looks for "errors":true before it looks at any item.
ParseBulkResponse(response) == ~(response.errors /\ response.rejected)

Succeeds(answer) ==
  CASE driver = "slack" -> CheckSlackResponse(answer)
    [] driver = "elasticsearch bulk" -> Do(answer) /\ ParseBulkResponse(FilterPath(answer))
    [] driver = "kafka" -> FirstErr(answer)
    [] OTHER -> Do(answer)

-----------------------------------------------------------------------------
\* One attempt of executeWithRetry. Alertmanager's hosts are asked in parallel.
Send ==
  /\ pc = "send" /\ driver # "kafka async"
  /\ pc' = "wait"
  /\ asked' = HostsOf(driver)
  /\ succeeded' = {}
  /\ UNCHANGED <<driver, events, attempt, copies, buffered, unanswered>>

\* Produce puts the records into the client's buffer and answers at once.
Produce ==
  /\ pc = "send" /\ driver = "kafka async"
  /\ pc' = "sent"
  /\ buffered' = events
  /\ UNCHANGED <<driver, events, attempt, asked, succeeded, copies, unanswered>>

Takes(h, taken) ==
  copies' = [copies EXCEPT ![h] = [e \in events |-> IF e \in taken THEN @[e] + 1 ELSE @[e]]]

HostAnswers(h) ==
  /\ h \in asked
  /\ \E answer \in Answers :
       /\ Takes(h, answer.taken)
       /\ succeeded' = IF Succeeds(answer) THEN succeeded \union {h} ELSE succeeded
  /\ asked' = asked \ {h}
  /\ UNCHANGED <<driver, events, pc, attempt, buffered, unanswered>>

\* A refused connection, a timeout, a body that cannot be read.
NoAnswer(h) ==
  /\ h \in asked
  /\ \E taken \in SUBSET events : Takes(h, taken)
  /\ asked' = asked \ {h}
  /\ unanswered' = [unanswered EXCEPT ![h] = @ + 1]
  /\ UNCHANGED <<driver, events, pc, attempt, succeeded, buffered>>

\* Mutant: the fan-out fails if one host does.
FanOutAll == succeeded = HostsOf(driver)

\* The fan-out is a success if one host's is.
FanOut == succeeded # {}

\* All hosts have answered: the driver returns, and executeWithRetry counts or retries.
Return ==
  /\ pc = "wait" /\ asked = {}
  /\ \/ FanOut /\ pc' = "sent" /\ UNCHANGED attempt
     \/ /\ ~FanOut
        /\ attempt' = attempt + 1
        /\ pc' = IF attempt + 1 < MaxAttempts THEN "send" ELSE "failed"
  /\ UNCHANGED <<driver, events, asked, succeeded, copies, buffered, unanswered>>

\* asyncCallback: a record that could not be sent is logged.
AsyncCallback(e) ==
  /\ e \in buffered
  /\ \/ Takes("host", {e})
     \/ UNCHANGED copies
  /\ buffered' = buffered \ {e}
  /\ UNCHANGED <<driver, events, pc, attempt, asked, succeeded, unanswered>>

DriverStep ==
  \/ Send \/ Produce \/ Return
  \/ \E h \in HostsOf(driver) : HostAnswers(h) \/ NoAnswer(h)
  \/ \E e \in events : AsyncCallback(e)

Next ==
  \/ Enrich /\ UNCHANGED driverVars
  \/ stage = "enriched" /\ DriverStep /\ UNCHANGED enricherVars

Spec == Init /\ [][Next]_vars

-----------------------------------------------------------------------------
\* A host takes an event twice only on account of an answer that never came: what was
\* taken and answered for is not sent again, neither to a host of Alertmanager's beside
\* one that failed nor with the rest of a batch. Of Kafka's and Loki's batches a part may
\* be taken and an error returned for the rest: then the whole is sent again.
DuplicatesNeedLostAnswer ==
  driver \notin {"kafka", "loki"} =>
    \A h \in HostsOf(driver) : \A e \in events : copies[h][e] <= 1 + unanswered[h]

\* What is counted as sent has been taken by a host, all of it, whatever the other hosts
\* or the attempts before had to say. A bulk request to Elasticsearch need not be: see
\* SentIsIndexed. Nor what Kafka's client has in its buffer, which may fail and is lost
\* when the client is closed, with nobody but the log to hear of it.
SentIsTaken ==
  pc = "sent" /\ driver \notin {"elasticsearch bulk", "kafka async"} =>
    \E h \in HostsOf(driver) : \A e \in events : copies[h][e] > 0

-----------------------------------------------------------------------------
\* output.go says that SendBatch parses the "per-item response to report accurate
\* success/failure counts". Every event counted as sent would be in the index.
SentIsIndexed ==
  pc = "sent" /\ driver = "elasticsearch bulk" => \A e \in events : copies["host"][e] > 0

=============================================================================
