# A TLA+ model of Falcosidekick

Falcosidekick receives Falco events over HTTP, enriches them, and forwards them
to outputs (Elasticsearch, Kafka, Loki, ...). The repository holds two programs,
and this directory models both: the version 3 service, which `Makefile` builds
from `cmd/falcosidekick` and `internal/`, and the version 2 program at the root of
the repository (`main.go`, `handlers.go`, `outputs/`), which has some seventy
outputs.

To check it: `tlc -config <run>.cfg <MC module>` and `tlapm <module>`;
`PROJECT.json` lists which run checks what, and the source lines each definition
stands for.

## 1. The system

### The version 3 service

| part | source | state | operations |
|---|---|---|---|
| main | `cmd/falcosidekick/main.go` | two nested contexts, signal channel | start, wait for a signal, shut down |
| HTTP server | `internal/api` | the fiber application | post an event, healthz, metrics, Shutdown |
| pipeline | `pipeline/pipeline.go` | none of its own | ProcessEvent: enrich, dispatch, store |
| enricher | `pipeline/enricher.go` | configuration, templates | rewrite one event |
| dispatcher | `pipeline/dispatcher.go` | the list of outputs | DispatchEvent, DrainQueues, CollectStatus |
| output | `pipeline/output.go`, `worker.go` | a bounded channel, a WaitGroup, five counters, worker buffers | Enqueue, CloseQueue, WaitDone, GetStatus, worker loops, executeWithRetry |
| circuit breaker | `pipeline/circuit_breaker.go` | state, two counts, probing, time of the last failure, under a mutex | GetState, AllowRequest, RecordSuccess, RecordFailure |
| event store | `store/memory.go` | a ring, head, count, five indexes, a GC goroutine, under an RWMutex | Append, removeExpired, Search, Count, CountBy, Close |
| drivers | `internal/outputs/*` | an HTTP or Kafka client | Init, Send, SendBatch, HealthCheck, Close |
| configuration, catalog, metrics, logging | `internal/config`, ... | read-only, or written and never read | |

One fiber handler per request runs ProcessEvent to its end: it offers the event
to every output whose minimum priority it reaches, then appends it to the store.
Enqueue never blocks: a full queue drops the event. Each output has a pool of
workers that share its queue and its breaker; a worker asks the breaker once,
sends up to `max_attempts` times with a backoff in between, reports every attempt
to the breaker, and adds to one counter at the end. On a signal main shuts the
server down, closes the queues, waits for the workers for at most ten seconds,
closes the drivers and the store, and returns.

What is hard to test in this is the order of things: results that arrive in a
breaker state their request was not admitted in; a partial batch at the moment
of a close or a cancellation; a shutdown at any point of a request; a ring whose
holes and indexes depend on a long history; a host that took a part of what it
answered an error to.

### The version 2 program

| part | source | state | operations |
|---|---|---|---|
| start-up | `main.go` | the configuration, a client for each output | init |
| intake | `handlers.go`, `stats_prometheus.go` | counters with fixed labels | mainHandler, testHandler, newFalcoPayload, forwardEvent |
| HTTP client | `outputs/client.go` | a semaphore per client | Post, Put, sendRequest |
| outputs | `outputs/*.go` | the event's map and tags, the statistics | one Post function each |
| batcher | `internal/pkg/batcher` | pending payloads, a buffer, a timer, under a mutex | Push, flushOnTimer |
| Elasticsearch with batching | `outputs/elasticsearch.go` | the batcher's calls | the callback, elasticsearchPost |
| PolicyReport | `outputs/policyreport.go` | reports in Kubernetes | UpdateOrCreatePolicyReport |
| Security Lake | `outputs/awssecuritylake.go` | a log in memory, the worker's offset | EnqueueSecurityLake, processNextBatch |

It has no queues, retries or shutdown. Every request is handled in a goroutine of
net/http, which starts a goroutine for every output that is configured, and each of
those runs the output's Post function to its end. The goroutines of one event share
its map `OutputFields` and the array of its `Tags`; those of one output share its
client; all share the statistics and the process. So what is hard to test is what
they do to each other: writes to the map that others iterate over, tags sorted in
place, a nil client or an assertion that ends the process for all, a destination
that never answers; and what one Post function among seventy forgets to count on
one of its paths.

`PROJECT.json` lists all of these under "hazards", each at its line.

## 2. The modules

| module | models | with |
|---|---|---|
| `CircuitBreaker` | the breaker; one action per method | |
| `Output` | queue, workers, batching, retries, counters, status | extends `CircuitBreaker` |
| `Delivery` | abstract: what an output promises | |
| `OutputProperties` | invariants, action and liveness properties, refinement of `Delivery` | instantiates `Delivery` |
| `OutputProofs` | theorems about `Output`: types, breaker, what becomes of events, refinement of `Delivery` | TLAPS |
| `MemoryStore`, `MemoryStoreProperties` | the event store, its queries and what must hold of them | |
| `MemoryStoreProofs` | theorems about `MemoryStore` | TLAPS |
| `Priority` | severities, parsing, comparison, the routing filter | |
| `Service` | server, handlers, dispatcher, reduced outputs, main and shutdown | extends `Priority` |
| `ServiceProofs` | theorems about `Service` | TLAPS |
| `Enricher` | the enricher, with the iteration orders of its maps | |
| `Drivers` | one batch through a driver of the pipeline, its hosts and the retry loop | extends `Enricher` |
| `DriversProofs` | theorems about `Enricher` and `Drivers` | TLAPS |
| `Post` | what a version 2 Post function is made of | |
| `ChatOutputs`, `StoreOutputs`, `CloudOutputs`, `QueueOutputs` | the Post functions | extend `Post` |
| `Startup` | which client needs which keys, and what happens when it cannot be created | |
| `Enrichment` | newFalcoPayload and the labels of the counter | extends `Post` |
| `Sidekick` | the version 2 program: process, requests, goroutines | extends all of these |
| `SidekickProperties` | what must be true of it | extends `Sidekick` |
| `PostDiscipline` | what each Post function may still have to do, and what every step of it keeps | extends `SidekickProperties` |
| `SidekickProofs` | theorems about `Sidekick` | extends `PostDiscipline`, TLAPS |
| `Batcher` | the payload batcher | |
| `ElasticsearchBatch` | bulk requests of version 2 | extends `Batcher` |
| `BatcherProofs` | theorems about both | TLAPS |
| `PolicyReport`, `PolicyReportProofs` | reports read, changed and written by concurrent goroutines, and theorems | TLAPS |
| `SecurityLake`, `SecurityLakeProofs` | the log, the worker and its uploads, and theorems | TLAPS |
| `MC*` | instances for TLC | |

Definitions written `\* Mutant:` change the one below them the way a bug in the
code might; each property is known to fail on one of them.

### Output and CircuitBreaker

Every breaker method runs under `cb.mu` and is one action; `Output` conjoins it
with the step that calls it. That merges a breaker call with the caller's next
local assignments and counter additions (output.go:196-202, 206-211). The
counters are atomics that no code reads to decide anything, so no other goroutine
behaves differently for their being added a moment later; a reader of GetStatus
might see the moment, and nothing is stated about that.

Time appears as one Boolean, `resetElapsed`, the value of
`time.Since(lastFailure) > ResetTimeout`, which may become TRUE at any moment
after a failure. A worker is in `select`, `admit` (about to call AllowRequest),
`send`, `backoff` or `exited`. `runWorker` and `runBatchWorker` are one loop:
`runWorker` is the batch loop whose buffer is full at one event. A select takes
any ready case, as Go's does, also another than the cancellation. A send may
succeed or fail at any time. `accepted`, `outcome` and `probe` are history
variables.

The action properties and invariants are in `OutputProperties`, each with what it
is about. `Delivery` is the contract: every event offered is pending until one
step sends, fails or abandons its whole request, the three totals count exactly
those, and only a cancellation abandons. `ImplementsDelivery` is the refinement,
with an event's fate computed from `outcome`, the queue and the workers' hands.

### MemoryStore

Append, removeExpired and Close hold the write lock and are one action each;
queries hold the read lock and are operators on the state. The five index maps
are one function from fields and values to sets of positions: an absent key is an
empty set. An event's time is Falco's and not its arrival, so expiry is in no
order. `Labels[e][f]` is the sequence of values an event has in a field, so that
duplicate tags can be told from single ones.

### Service

The handler of each request, the worker of each output, main and the drain timer
interleave freely. An output is reduced to a queue, one worker that takes, settles
or hangs, and a driver that is open or closed; `Output` has the rest. Shutdown of
the server is fiber's, modelled from how main uses it: it stops a listening
server, waits for requests in progress, and returns at once on a server that does
not listen yet. (In that last case the server may start to listen after the queues
are closed, and a request would then panic in Enqueue and be caught by the recover
middleware; `NoSendOnClosedQueue` and `CleanReturn` are stated for a server that
was listening.)

A priority is a record of the level it names and whether it is spelled as the
constants are. The `service` run posts canonical spellings only, `service_spelling`
Falco's own.

### Enricher and Drivers

A value in `OutputFields` is modelled by what it was made from (given, custom, a
template over another, cut), so that two orders of an iteration that give different
values can be told apart. Templates are evaluated over the map they write to, one
per action, in any order; one whose execution fails leaves its field as it is
(`Evaluated`). Which values a template fails over is part of the setup. Replacing
brackets picks any of the values whose names fall together.

The drivers differ in how many hosts they ask (Alertmanager: all, in parallel), in
what an answer can say (Slack complains in a 200; a bulk answer lists items; Kafka
fails single records; Loki takes a part and answers an error), and in what they make
of it. They share the retry loop of `executeWithRetry`. A host may index any part of
a request, refuse it, or give no answer. `FilterPath` is what Elasticsearch does with
the `filter_path` it is sent: it leaves the field `errors` out. Kafka's asynchronous
mode returns before anything is sent; the buffered records are taken or fail later.

### Post, the outputs and Sidekick

A Post function is a sequence of the steps another goroutine, a destination or a
counter can tell: iterate over the map, look a key up, assert its type, write or
delete, read or sort the tags, prepare, send, count. A step that may fail has the
sequences that are left to do then. Whatever is formatting is gone; what is left is
one line for most of the outputs, and exactly what distinguishes the others: PagerDuty
assigns to the shared map, Elasticsearch deletes from it and sends once more, Azure
sends twice, CloudWatch prepares a stream once and sends again what was refused for its
sequence token, Redis reports an error and goes on, Fission without a kubeconfig counts
last through a pointer its client was not given.

Two formats stand for the option of an output that changes its steps: "text" is the
OutputFormat of that name, or RawJSON for SNS, a kubeconfig for the function platforms,
an asynchronous writer for Kafka, FlattenFields for Elasticsearch.

`Sidekick` interprets the sequences. Accesses to the map are not atomic: a write has
a beginning and an end, and an access by another goroutine in between is what the Go
runtime calls a concurrent map access and ends the process for. It may also miss it;
the outcome is a choice. Sorting tags has a beginning and an end likewise, except that
`sort.Strings` moves nothing in a sorted array. A value is its kind (absent, null, string,
number), since json.Number is what numbers become and assertions to string fail on it.
The start creates a client for each output whose keys are given; each client that can
fail may, together with those it is shared with. Alertmanager has a client for each of
its hosts, and an event a goroutine for each of them; a goroutine is therefore named by
event, output and client, and a semaphore belongs to a client (`ClientOf`).

`sendRequest` recovers from a panic of its own and returns no error. Nothing in it
panics on what a Post function gives it, so the recovery is not a step of the model.

### Batcher and ElasticsearchBatch

Each action of `Batcher` is what a goroutine does while it holds the mutex. A timer
that fires starts a goroutine which may have to wait for it (`late`), and stopping
the timer does not stop that one. The buffer's content is its length, the pending
payloads are the events. `ElasticsearchBatch` adds the goroutine the callback starts
for each batch, the client's semaphore, and the three ways an answer is counted:
everything failed, item by item, everything succeeded.

### PolicyReport and SecurityLake

Kubernetes refuses an update of a version that is no longer the last and the creation
of what exists; any call may fail, and the answer to a write may be lost. A version is a
counter, a report the sequence of its results.

The log of Security Lake keeps two segments; a worker whose offset is older than what
it keeps is `OutOfRange`, and stays there, for the new offset is put into a copy. A file
that is uploaded need not hold all of its batch: a record that cannot be decoded again,
or that the Parquet writer refuses, is logged and left out, and so may any be when
WriteStop fails (awssecuritylake.go:340-354). `UploadOK` takes any subset of the batch
and moves past all of it; `skipped` is the history of what was left out.

## 3. The runs

| run | instance | shows |
|---|---|---|
| `output_pool` | 2 workers, 3 events, queue 2, 2 attempts, thresholds 2 and 2, single sends | breaker consistent, never wedged, leaves open only by its timeout |
| `output_batch` | 2 workers, 3 events, queue 2, batches of 2, 2 attempts, thresholds 1 | nothing duplicated, reordered, counted twice or lost silently; implements `Delivery` |
| `output_live` | 2 workers, 2 events, queue 1, batches of 2 | workers return, events are settled, probes answered |
| `store` | ring of 2, 4 events, clock to 4 | indexes, lookups, counts, retention, expiry |
| `service` | 3 requests, 2 outputs, queues of 1 | routing, clean and cut-short shutdown, termination |
| `drivers` | 8 drivers, 2 hosts, batches of 1 or 2, 3 attempts; 120 configurations of the enricher over 3 field names, with templates that never fail, fail over a missing field, or always fail | enrichment does not depend on map order, and a template that fails changes nothing; duplicates only after lost answers; what is sent was taken |
| `sidekick` | every output: with two events, half configured, failing at the start, with fields of every kind, beside PagerDuty and Elasticsearch; Alertmanager with two hosts; unusual requests and names; clients of one slot | counts add up, successes were accepted, nothing is accepted twice, what ends the process, tags intact, a hanging destination holds up no other output and no other host |
| `elasticsearch_batch` | 3 events of lengths 2, 2 and 5, batches of 4, one request at a time | each event handed on and counted once, bounded batches, no batch left behind |
| `policy_report` | 3 events of every namespace and subject, reports of 2 results | no lost update; success means added |
| `security_lake` | 8 events, segments and batches of 2, 2 failed uploads | nothing passed that was not in an upload S3 took or left out of its file; all but the first get there unless overrun |

The bounds are the smallest in which the cases that matter meet. Two workers and
two thresholds of two are enough for a late result to reach the breaker in each
state, three events for a third request to be admitted or refused while two are
being retried, and for a queue of two to fill. Three events and batches of two give a full
and a partial batch at once. A ring of two with four events wraps around twice and
has holes in every place. Queues of one overflow with the second request. Three
events in one report of two results make it drop the oldest while another goroutine holds
a copy; eight events in a log of two segments of two overrun a worker that has not read.

`sidekick` takes the outputs alone and in pairs, not all at once: they meet only
through the map, the tags, the client and the process, and a pair with a writer, or
of two that share a client, shows each of these. Two events are enough for two
goroutines of one output to compete for a client of one slot, and two hosts for one of
them to hang while the other answers.

No run replaces a definition. The bounds in a specification that the code does not
have are `MaxNow`, where the store's clock stops, `MaxEvents` and `MaxFailures` of
`SecurityLake` (the events written and the uploads that fail), `MaxResends` of
`CloudOutputs` (how often in a row CloudWatch refuses a sequence token: the request that
follows is the first one over again), and the sets of events.
Events and workers are interchangeable in the two safety runs of Output and events in
`policy_report`, and declared symmetric there; no run that checks liveness uses
symmetry.

`CHECK_DEADLOCK FALSE` is said where the system comes to a stop: in `service` main
returns, in the others the events come to an end, or the process does.

### Disagreements

Two runs end in a violation of what the repository says of itself:

- `service_spelling`: Validate accepts "Error" and leaves it so; comparisons know
  only "error", so the event is ranked as debug.
- `elasticsearch_sent`: the filter path asks the server to leave out the field the
  fast path looks for. Every 2xx answer is a success and rejected events are
  counted as sent.

Seen while modelling, with no run:

In version 3: AllowRequest's comment says "exactly one probe request at a time"
(circuit_breaker.go:110), but any result clears `probing`, also a late one and the
probe's own first failure, after which it goes on retrying; "CircuitOpen blocks all
requests" (circuit_breaker.go:33), but the breaker is asked before the retry loop and
not in it; main.go:121-123 says that an expired drain timeout cancels the workers,
but it is a child context, and the drivers are closed under workers nobody told to stop;
"franz-go flushes buffered records internally" (kafka/output.go:173), but its Close fails
them. A failed probe leaves the breaker
half-open when a success has reset the failure count and the threshold is above
one; Append overwrites a stored event while expired slots are free (it still keeps
the last `capacity` events, `KeepsRecent`); `count` may exceed the number of stored
events; CountBy with filters counts a repeated tag twice and an empty hostname as a
group, without filters neither (`CountByAgrees` states where they agree); the
comment of ProcessEvent says "stores, and dispatches" and the code dispatches first.

In version 2, the properties of `SidekickProperties`, `PolicyReport` and `SecurityLake`
name their exceptions, each of which is a state TLC reaches if it is left out:
the outputs that miscount (`Miscounting`), that answer success too early or for another
(`Optimistic`), that write to the shared map (`Writers`), that assert a type
(`Asserting`), what else ends the process (`ProcessSurvives`), the event that loses the
race to create a report and is counted as a success (`OkMeansAdded`), the first
event of the log that is never read and those that are left out of a file
(`UploadedBeforePassed`), and the worker that is stuck after an overrun
(`UploadedOrOverrun`). Among them:

- Fission without a kubeconfig ends the process with its first event: the arguments its
  client is made from lack OTLPMetrics (fission.go:56-62), and its successes and errors
  are counted through it (fission.go:102, 113), in a goroutine nobody recovers.
  Logstash's client lacks it too (logstash.go), and does not use it.
- A custom or templated field or an extra label named `k8s.ns.name` or `k8s.pod.name`
  (or `hostname`) names a label the counter has already (stats_prometheus.go:48-56), and
  registering it panics at the start.
- An event whose namespace or pod name is a number panics (handlers.go:135-140) after it
  was counted in the total, and is neither accepted nor rejected.
- Alertmanager counts one total and one result per host, not per event.
- The batch of Security Lake is counted as one success although records were left out
  of the file; where an upload fails the code says "we don't update ReadOffset to retry
  and not skip records" (awssecuritylake.go:289).
- A templated field whose execution fails keeps its value in version 3
  (enricher.go:113-115) and is overwritten in version 2, where only one that cannot be
  parsed is left (handlers.go:149-160).

## 4. Fairness

`Output`: each worker is weakly fair as a whole: the Go scheduler runs a goroutine
that can run, the batch ticker and the backoff timer fire, and a send returns
(drivers have client timeouts; Kafka's synchronous produce is the exception and is
the reason why `Service` assumes less). Nothing is assumed of which ready case a
select takes, of new events, of the reset timeout, or of shutdown.

`MemoryStore`: the GC's ticker fires while its goroutine runs.

`Service`: main and the handlers run on, and the drain timer fires. Nothing is
assumed of the workers: a driver may hang for ever and main must return
nonetheless.

`Sidekick`: the scheduler runs some goroutine that can run, so that all of them stop
only when none can; a destination answers unless it hangs, and one that hangs need
not. Nothing is assumed of new requests.

`ElasticsearchBatch`: a running timer fires, a goroutine that waits for the mutex
gets it, a started one runs, and the server answers or the connection fails.

`SecurityLake`: the worker loops for ever, and S3 takes an upload in the end, since
`MaxFailures` of them fail at most.

## 5. The proofs

TLC's runs show each property on a small instance; the theorems below show it for
every set of events, workers, requests, reports and setups, every queue, batch, ring
and log size, every threshold, retry limit, TTL and labelling. Every invariant and
action property that a passing run checks is the statement of a theorem.

### What they assume

Constants come with named assumptions in the module that declares them, and TLC
evaluates them on every run:

- sizes, thresholds, attempts and limits are positive, as the Validate methods, the
  defaults or the constructors make them (`CircuitBreaker`, `Output`, `MemoryStore`,
  `Service`, `Drivers`, `Batcher`, `PolicyReport`, `SecurityLake`, `Sidekick`);
- the events offered are finitely many and there is a worker (`Output`); a payload
  has a length (`Batcher`); events are told apart from the marks a slot or a worker
  has when it holds none (`MemoryStore`, `Service`);
- the setups and attributes are setups and attributes: what is configured is an
  output, a format or a name that exists, Alertmanager has a host, and for each template
  there is the set of values it fails over, which may be any set (`Enricher`, `Sidekick`,
  `PolicyReport`);
- a name without brackets has none to replace (`ReplacedAssumption` of `Enricher`).

Two theorems have a hypothesis in their statement. `ServiceRoutesBySeverity` has
`CanonicallySpelled`: priorities are written as the constants are. The run
`service` satisfies it; `service_spelling` does not and violates the property, since
the configuration takes `minimumpriority` as it is (config/pipeline.go:67-69).
`ServiceRoutesByFilter` has no such hypothesis and says what is left: an answered
event was offered to exactly the outputs whose filter accepts its string.
`CountsAddUp`, `OkMeansAccepted`, `AtMostOnce` and `ProcessSurvives` exclude, in their
statements, the outputs that do otherwise.

### From one Post function to all that run

The Post functions of version 2 are given: some sixty definitions without a parameter
left open. What each of them does alone is therefore not assumed but decided.
`PostDiscipline` computes, for each output and format, all that a goroutine of it may
still have to do (`Programs`, the closure of its Post function under `After`), and states on it:

| assumption of `PostDiscipline` | says of each output |
|---|---|
| `ProgramsAssumption` | `Programs` is closed under every step, and they are sequences of steps |
| `CountsAssumption` | whichever step fails, one total and one result stay owed until they are counted (not `Miscounting`) |
| `SendsAssumption` | after an answer nothing is sent any more (not Azure Event Hubs, which sends twice) |
| `SuccessAssumption` | a success is counted once and behind an answer (not `Optimistic`) |
| `PanicsAssumption` | only `Writers` write to the map, only `Asserting` outputs assert, and only Fission without a kubeconfig uses metrics its client lacks |
| `ClientsAssumption` | it is forwarded to on account of some key, and has one of four ways to fail at the start |
| `SortAssumption` | sorting the tags of a setup again leaves them as they are |

TLC evaluates all seven on the run `sidekick`, and each set of exceptions is the least
one: without an output it names, TLC finds the assumption false. They say nothing of
goroutines that run together, of the shared map, tags, clients and counters, or of the
start; `SidekickProofs` proves that part for any number of requests and goroutines,
any setups and any limit. `SortAssumption` alone speaks of a constant, the tags of
`Setups`; that `sort.Strings` is idempotent on every sequence is induction over data.

### The theorems

| theorem | states | inductive invariant |
|---|---|---|
| `TypeCorrect` | `TypeOK` | `TypeInv` = `TypeOK` and `RoomToCollect` |
| `BreakerAlwaysConsistent` | `BreakerConsistent` | itself with `TypeInv` |
| `BreakerOpenUntilTimeout` | `OpenUntilTimeout` | `TypeInv` |
| `ProbeAlwaysOutstanding` | `ProbeOutstanding` | itself with `FreshRequests` |
| `EventsHeldOnce`, `OutcomesAreFinal` | `HeldOnce`, `OutcomeIsFinal` | `HeldInv` = `HeldOnce` and `KnownEvents` |
| `NothingLostSilently` | `NoSilentLoss` | `HeldInv`, `StopsForReason`, `AcceptedIsKept` |
| `EventsStayInOrder` | `InOrder` | `OrderInv` = `QueueIsRest`, `HeldWasTaken`, `HeldInOrder` |
| `OutputImplementsDelivery` | `ImplementsDelivery` | `DeliveryInv` = `TypeInv`, `HeldInv`, `RequestsHaveEvents` |
| `OutputAccounts` | `Delivery`'s `Accounting`, of `Output`: each total is the number of events with that fate | `Accounts`, along the refinement |
| `StoreTypeCorrect` | `TypeOK`, `CountCovers` | `CountInv`, both together |
| `IndexAlwaysExact`, `LookupAlwaysExact` | `IndexExact`, `LookupExact` | `IndexExact` with `CountInv` |
| `AlwaysKeepsRecent` | `KeepsRecent` | `RingInOrder` with `CountInv` |
| `CountByAlwaysAgrees` | `CountByAgrees` | `StoredOnce` with `IndexExact` |
| `ServiceTypeCorrect` | `TypeOK` | itself |
| `ServiceKeepsQueuesOpen`, `ServiceDriversOutliveWorkers` | `NoSendOnClosedQueue`, `DriversOutliveWorkers` | `MainInv` = `QueuesFollowMain`, `WorkersFollowMain`, `RequestsFollowMain` |
| `ServiceReturnsClean` | `CleanReturn` | `MainInv`, `OffersAccounted`, `AnswersStored` |
| `ServiceRoutesByFilter`, `ServiceRoutesBySeverity` | `RoutedByFilter`, `RoutedBySeverity` | `RouteInv` |
| `EnricherIsDeterministic` | `EnrichedAlike` | `EnricherInv` = `EvaluatesAlike`, `RenamesAlike` and itself |
| `DriversDuplicateForLostAnswers`, `DriversSendWhatIsTaken` | `DuplicatesNeedLostAnswer`, `SentIsTaken` | `DriverInv` = `AttemptInv`, `SucceededTook`, `CopiesBounded` |
| `BatcherInvariant`, `BatcherHandsOnce`, `BatcherBoundsBatches`, `BatcherKeepsTimer` | `HandedOnce`, `BatchBounded`, `PendingHasTimer` | the three together with `BytesPend` |
| `BulkSuccessesAreIndexed`, `BulkCountsOnce` | `BulkOkMeansIndexed`, `CountedOnce` | `BulkInv` = `BatchesApart`, `CountedOnce`, `IndexedInv` |
| `ReportTypeCorrect`, `ReportsKeepNewest`, `ReportOkMeansAdded` | `TypeOK`, `KeepsNewest`, `OkMeansAdded` | `ReportInv` = `CopiesOld`, `CopiesCurrent`, `HoldsNewest`, `Answered` |
| `LakeTypeCorrect`, `LakeUploadsBeforePassing` | `TypeOK`, `UploadedBeforePassed` | `LakeInv` = `BatchFollows`, `UploadsFollow` |
| `LakeOverrunStops` | a worker out of range with nothing in hand stays so and uploads no more | `LakeInv` |
| `StatisticsAddUp` | `CountsAddUp` | `DoneCounted`, `RequestsAddUp` |
| `SuccessesWereAccepted` | `OkMeansAccepted` | `SuccessInv` = `AnswerFirst`, `SuccessesCovered` |
| `NothingAcceptedTwice` | `AtMostOnce` | `SentOnce` |
| `ProcessEndsForReason` | `ProcessSurvives` | `SurvivalInv` = `NoClient`, `OnlyWriters`, `KeysHold`, and a reason for a dead process |
| `TagsNeverMoved` | `TagsIntact` | `TagsSorted` |

Each of the last five also rests on `ProcessInv`: which goroutines there are, and that what
is left of each is one of its output's `Programs`, or that of a nil client.

Why the strengthenings are needed, in `Output` and `MemoryStore`:

- A full buffer is flushed at once, so a worker that still selects has room
  (`RoomToCollect`); without it the buffer's bound does not survive `SelectEvent`.
- A worker whose request is not yet let through has `attempt` 0 (`FreshRequests`). A
  request let through half-open is therefore in its first attempt, and the result of
  that attempt, or any other that comes first, clears `probing`.
- An event about to be accepted was never offered before. That it is then in nobody's
  hands needs `KnownEvents`: whatever is held or counted was accepted.
- A worker returns for a cancellation or because the queue is closed and empty, and
  both last (`StopsForReason`), so nothing is left in a queue nobody reads.
- `HeldWasTaken` places what workers hold before the part of `accepted` that is
  still queued; an event taken now therefore comes after what its worker holds.
- For the refinement, `FinishResolves` shows the step that ends a request to be
  one Resolve of `Delivery`: the fates that change are those of the worker's
  events (`HeldOnce`), it has at least one (`RequestsHaveEvents`), and the counter
  grows by as many, since without repetition a sequence is as long as its range is
  large (`LengthIsCardinality`). Every other step but Enqueue leaves all fates alone.
  `OutputAccounts` then counts the events that change their fate (`Recount`).
- Append adds one to `count` whenever it is below Capacity, whether it fills a hole
  or overwrites an event while there are holes elsewhere, so `count` drifts above the
  number of occupied slots: it covers them and no equality holds (`CountCovers`).
- The k-th newest event sits k slots behind the head unless it has expired and been
  collected (`RingInOrder`). Expiry comes in any order, since the event's time is
  Falco's, so nothing simpler locates the holes.
- CountBy without filters counts positions in an index, with filters it counts events.
  A stored event is at one position (`StoredOnce`), so where no label is repeated or
  empty there is a bijection between the two.

In the other components of version 3:

- That no queue is closed under a handler depends on how far main is: the queues are
  open before the drain, and after it a server that is down has no handler left
  (`RequestsFollowMain`). A worker that returned left an empty and closed queue, so if
  the drain was not cut short, all that was offered is settled or dropped
  (`OffersAccounted`).
- Routing is about a handler that is between two outputs: what it has been through is
  below `next` (`DispatchFollows`), whatever workers and main did in the meantime.
- While templates are evaluated in any order, those that are done have seen only values
  no template changes (`EvaluatesAlike`, which fails, as it must, when one refers to a
  templated field), so each fails or succeeds as it would on the event that came in;
  renaming then finds at most one value for each new name.
- A host has at most as many copies of an event as requests it left unanswered, and one
  more only if it succeeded or Kafka's client sent it the record (`CopiesBounded`).

And in version 2:

- A batch is empty exactly if its bytes are none (`BytesPend`), since no payload has
  length 0; so a push that stays below the bound leaves a timer running.
- Batches share no event (`BatchesApart`), so a bulk request counts what no other
  request counted, and an index holds an event for one request only.
- Kubernetes takes only a copy of the present version, and such a copy is the report as
  it is with the event added (`CopiesCurrent`), so no write loses another's result. The
  exception in `OkMeansAdded` is the goroutine that lost the race to create a report.
- The batch in the worker's hands begins right behind its offset (`BatchFollows`), so
  an upload leaves no gap that is not in `skipped`; only a failed one leaves anything
  beyond (`UploadsFollow`).
- What a goroutine has counted is what its rest no longer owes, so that the statistics
  are the numbers of goroutines that are done (`DoneCounted`); when none runs, those are
  all. The labels of a request agree as soon as its enrichment cannot panic.
- A goroutine whose event was accepted has nothing left to send (`SentOnce`), and a
  success is counted by one that was accepted (`AnswerFirst`); several goroutines of
  one output count in one statistic, hence a bound on their number (`SuccessesCovered`).
- The keys a goroutine collected when it began to iterate still hold strings when it looks
  them up, unless there is a writer (`KeysHold`); and a label is named twice only if two
  sources give the same name, or one gives a name of `BuiltIn` (`NamedTwiceMeets`).
- newFalcoPayload leaves the tags sorted, so sorting them in place moves nothing
  (`TagsSorted`).

### Model-checked only

- Liveness (`WorkersReturn`, `EventuallySettled`, `ProbeResolves`, `ExpiredLeave`,
  `ShutdownTerminates`, `PostsFinish`, `EventuallyCounted`, `UploadedOrOverrun`):
  fairness and ENABLED are out of the prover's reach.
- What a recursive definition computes for every input: that sorting tags again
  changes nothing is checked for the tags of `Setups`.
- The seven facts of `PostDiscipline`, which are about given definitions and which
  TLC decides once and for all, but for `SortAssumption`.


## 6. What is not modelled

- Reading configuration, in both programs (`internal/config`, `config.go`,
  `types/types.go`): the models start from its result. Per-output overrides
  (`ResolveOutputConfig`) are planned.
- Search's sorting and pagination, the length of backoffs (`ComputeBackoff`), Loki's
  grouping of entries.
- The content of payloads, the conversion to OCSF and Parquet, Elasticsearch's mapping
  template: long, and without state or choice.
- A user's MessageFormat, brackets and truncation in version 2 (in version 3 the last
  two are), the labels of OTLP's metrics, TLS, statsd.
- Catalog, metrics, logging and the UI have no behaviour the rest depends on.

`PROJECT.json` gives the reason for each part.

## 7. Plan

In order of importance; 1 to 6 are done.

1. `CircuitBreaker`, `Output`, `Delivery` with their runs and first theorems.
2. `MemoryStore`.
3. `Priority`, `Service`.
4. `Enricher`, `Drivers`.
5. The version 2 program: `Post`, the outputs, `Startup`, `Enrichment`, `Sidekick`.
6. `Batcher`, `ElasticsearchBatch`, `PolicyReport`, `SecurityLake`.
7. Pure parts checked over bounded inputs: ComputeBackoff with its conversion,
   Search's order and pages, Loki's sorting, ResolveOutputConfig.

Proofs: every safety property the passing runs check has its theorem. Next are the
facts that parts of 7 rest on, where they need no induction over data (that a
backoff is within its bounds, that pages do not overlap).
