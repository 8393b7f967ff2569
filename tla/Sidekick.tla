------------------------------ MODULE Sidekick ------------------------------
(***************************************************************************)
(* The version 2 program (src/main.go, src/handlers.go, src/outputs): init *)
(* creates the clients of the configured outputs, mainHandler receives     *)
(* events, and forwardEvent starts for each event one goroutine per        *)
(* client of the output, which runs the output's Post function: one for    *)
(* each host of Alertmanager, one of every other output. The goroutines of *)
(* an event share its map of fields and its array of tags; those of a      *)
(* client share its semaphore; all share the counters and the process,     *)
(* which a panic of any of them ends.                                      *)
(***************************************************************************)
EXTENDS Startup, Enrichment, ChatOutputs, StoreOutputs, CloudOutputs, QueueOutputs, Bags

CONSTANTS
  Setups,      \* configurations and the events that arrive under them
  MaxRequests  \* MaxConcurrentRequests, for every client

ASSUME MaxRequestsAssumption == MaxRequests \in Nat \ {0}

Outputs == DOMAIN Clients
Posts(format) ==
  ChatPosts(format) @@ StorePosts(format) @@ CloudPosts(format) @@ QueuePosts(format)

\* What is configured are outputs, formats and names there are.
ASSUME SetupsAssumption ==
  \A s \in Setups :
    /\ DOMAIN s.keys \subseteq Outputs /\ IsFiniteSet(DOMAIN s.keys)
    /\ s.format \in Formats
    /\ s.hosts \in Nat \ {0}
    /\ s.custom \union s.templated \union s.extra \subseteq Names

VARIABLES
  setup,     \* a member of Setups
  phase,     \* of the process: "starting", "serving" or "dead"
  clients,   \* the outputs that have a client
  keys,      \* for each output, its configuration keys that are not empty
  requests,  \* the requests' statistics: a bag of "total", "accepted" and "rejected"
  fields,    \* for each event received, the kinds of the values in OutputFields
  tags,      \* for each event received, its Tags
  rest,      \* for each goroutine <<event, output, number of the client>> that was
             \* started, the steps it has still to take
  snapshot,  \* for each goroutine, the keys it has collected
  writing,   \* goroutines in the middle of a write to their event's map
  moving,    \* goroutines in the middle of a sort that moves their event's tags
  garbled,   \* goroutines that read the tags while they were moved
  ready,     \* outputs whose client need not be prepared again
  counts,    \* the statistics: a bag of [stat, result]
  accepted   \* what the destinations took: a bag of goroutines

config == <<setup, clients, keys>>
shared == <<fields, tags, writing, moving, garbled>>
vars == <<config, phase, requests, shared, rest, snapshot, ready, counts, accepted>>

-----------------------------------------------------------------------------
Init ==
  /\ setup \in Setups
  /\ phase = "starting"
  /\ clients = {}
  /\ keys = setup.keys
  /\ fields = <<>> /\ tags = <<>> /\ rest = <<>> /\ snapshot = <<>>
  /\ writing = {} /\ moving = {} /\ garbled = {} /\ ready = {}
  /\ requests = EmptyBag /\ counts = EmptyBag /\ accepted = EmptyBag

\* Mutant: the keys of an output whose client cannot be created are not cleared.
StartUpKeepsKeys ==
  LET wanted == {o \in DOMAIN keys : Clients[o].needs \subseteq keys[o]}
  IN
  /\ phase = "starting"
  /\ \E failing \in SUBSET {o \in wanted : Clients[o].onError # "none"} :
       /\ \A group \in SharedClients : group \intersect wanted \subseteq failing
                                         \/ group \intersect failing = {}
       /\ clients' = wanted \ failing
       /\ keys' = keys
       /\ phase' = IF \/ NamedTwice(setup)
                      \/ \E o \in failing : Clients[o].onError # "cleared"
                   THEN "dead" ELSE "serving"
  /\ UNCHANGED <<setup, requests, shared, rest, snapshot, ready, counts, accepted>>

\* The init of main.go: a client for every output whose keys are given; those whose
\* creation fails have their keys cleared, unless reporting it ends the process.
StartUp ==
  LET wanted == {o \in DOMAIN keys : Clients[o].needs \subseteq keys[o]}
  IN
  /\ phase = "starting"
  /\ \E failing \in SUBSET {o \in wanted : Clients[o].onError # "none"} :
       /\ \A group \in SharedClients : group \intersect wanted \subseteq failing
                                         \/ group \intersect failing = {}
       /\ clients' = wanted \ failing
       /\ keys' = [o \in DOMAIN keys |-> IF o \in failing THEN {} ELSE keys[o]]
       /\ phase' = IF \/ NamedTwice(setup)
                      \/ \E o \in failing : Clients[o].onError # "cleared"
                   THEN "dead" ELSE "serving"
  /\ UNCHANGED <<setup, requests, shared, rest, snapshot, ready, counts, accepted>>

\* NewAlertManagerClient makes a client for each of the configured hosts.
ClientsOf(o) == IF o = "Alertmanager" THEN 1..setup.hosts ELSE {1}

\* The tests forwardEvent makes for an output.
ForwardTo(o) ==
  /\ Clients[o].forwards \subseteq keys[o]
  /\ \/ o = "WebUI"
     \/ setup.priority >= setup.minimum[o]
     \/ setup.test /\ o \notin {"OTLPTraces", "OTLPLogs"}
  /\ o = "OTLPTraces" => setup.source \in {"syscall", "syscalls"}

\* A method of a nil client looks at its fields first of all.
NilClient == <<[op |-> "nil client"]>>

\* What becomes of a request: a panic in newFalcoPayload ends it, and net/http recovers.
Outcome ==
  CASE setup.request \in {"no body", "no POST", "no JSON"} -> "rejected"
    [] EnrichmentPanics(setup, setup.fields) -> "panic"
    [] setup.request = "incomplete" -> "rejected"
    [] OTHER -> "accepted"

\* f with what h adds to it.
Extended(f, h) == [x \in DOMAIN f \union DOMAIN h |-> IF x \in DOMAIN f THEN f[x] ELSE h[x]]

\* forwardEvent starts the goroutines.
ForwardEvent(e) ==
  LET outputs == {o \in DOMAIN keys : ForwardTo(o)}
      started == UNION {{<<e, o, c>> : c \in ClientsOf(o)} : o \in outputs}
  IN /\ rest' = Extended(rest, [g \in started |->
                  IF g[2] \in clients THEN Posts(setup.format)[g[2]] ELSE NilClient])
     /\ snapshot' = Extended(snapshot, [g \in started |-> {}])

\* mainHandler receives event e.
MainHandler(e) ==
  /\ phase = "serving"
  /\ e \notin DOMAIN fields
  /\ fields' = Extended(fields, [new \in {e} |-> OutputFieldsOf(setup, setup.fields)])
  /\ tags' = Extended(tags, [new \in {e} |-> TagsOf(setup.tags)])
  /\ requests' = requests (+) SetToBag({"total"} \union ({Outcome} \ {"panic"}))
  /\ IF Outcome = "accepted" THEN ForwardEvent(e) ELSE UNCHANGED <<rest, snapshot>>
  /\ UNCHANGED <<config, phase, writing, moving, garbled, ready, counts, accepted>>

-----------------------------------------------------------------------------
\* Goroutine g is about to take a step of this kind.
At(g, op) ==
  /\ phase = "serving"
  /\ g \in DOMAIN rest
  /\ rest[g] # <<>>
  /\ Head(rest[g]).op = op

Step(g) == Head(rest[g])
Continue(g) == rest' = [rest EXCEPT ![g] = Tail(@)]

\* Mutant: after a failure the goroutine returns and counts nothing.
GiveUpUncounted(g) == rest' = [rest EXCEPT ![g] = <<>>]

GiveUp(g) == \E left \in Step(g).fails : rest' = [rest EXCEPT ![g] = left]

\* A panic, or an error of the runtime that cannot be recovered from.
Die ==
  /\ phase' = "dead"
  /\ UNCHANGED <<config, requests, shared, rest, snapshot, ready, counts, accepted>>

Others(g, where) == {h \in where : h[1] = g[1]} \ {g}
Value(g) == fields[g[1]][Step(g).field]
Strings(g) == {f \in Fields : fields[g[1]][f] = "string"}

CountMetric(g) ==
  /\ At(g, "count")
  /\ counts' = counts (+) SetToBag({<<Step(g).stat, Step(g).result>>})
  /\ Continue(g)
  /\ UNCHANGED <<config, phase, requests, shared, snapshot, ready, accepted>>

\* A use of the map, which the runtime may find to be written to at the same time.
ReadFields(g) ==
  \/ /\ \/ At(g, "iterate")
        \/ At(g, "look up") /\ snapshot[g] \subseteq Strings(g)
        \/ At(g, "assert") /\ Value(g) \in Step(g).kinds
        \/ At(g, "require") /\ Value(g) \in Step(g).kinds
     /\ Continue(g)
     /\ UNCHANGED <<config, phase, requests, shared, snapshot, ready, counts, accepted>>
  \/ /\ At(g, "keys")
     /\ snapshot' = [snapshot EXCEPT ![g] = Strings(g)]
     /\ Continue(g)
     /\ UNCHANGED <<config, phase, requests, shared, ready, counts, accepted>>
  \/ /\ At(g, "require") /\ Value(g) \notin Step(g).kinds
     /\ GiveUp(g)
     /\ UNCHANGED <<config, phase, requests, shared, snapshot, ready, counts, accepted>>

\* An assertion that fails, a concurrent use of the map, a nil client or nil metrics.
Panic(g) ==
  /\ \/ At(g, "nil client") \/ At(g, "nil metrics")
     \/ At(g, "assert") /\ Value(g) \notin Step(g).kinds
     \/ At(g, "look up") /\ ~(snapshot[g] \subseteq Strings(g))
     \/ /\ \E op \in {"iterate", "keys", "look up", "assert", "require", "begin write"} : At(g, op)
        /\ Others(g, writing) # {}
  /\ Die

BeginWrite(g) ==
  /\ At(g, "begin write")
  /\ writing' = writing \union {g}
  /\ Continue(g)
  /\ UNCHANGED <<config, phase, requests, fields, tags, moving, garbled>>
  /\ UNCHANGED <<snapshot, ready, counts, accepted>>

WriteFields(g) ==
  /\ At(g, "write")
  /\ fields' = [fields EXCEPT ![g[1]] =
                  [f \in Fields |-> IF f \in Step(g).fields THEN Step(g).kind ELSE @[f]]]
  /\ writing' = writing \ {g}
  /\ Continue(g)
  /\ UNCHANGED <<config, phase, requests, tags, moving, garbled>>
  /\ UNCHANGED <<snapshot, ready, counts, accepted>>

\* sort.Strings moves nothing in an array that is sorted.
BeginSort(g) ==
  /\ At(g, "begin sort")
  /\ moving' = IF tags[g[1]] = SortStrings(tags[g[1]]) THEN moving ELSE moving \union {g}
  /\ garbled' = IF Others(g, moving) # {} THEN garbled \union {g} ELSE garbled
  /\ Continue(g)
  /\ UNCHANGED <<config, phase, requests, fields, tags, writing>>
  /\ UNCHANGED <<snapshot, ready, counts, accepted>>

EndSort(g) ==
  /\ At(g, "sort")
  /\ tags' = [tags EXCEPT ![g[1]] = SortStrings(@)]
  /\ moving' = moving \ {g}
  /\ Continue(g)
  /\ UNCHANGED <<config, phase, requests, fields, writing, garbled>>
  /\ UNCHANGED <<snapshot, ready, counts, accepted>>

TagsRead(g) ==
  /\ At(g, "read tags")
  /\ garbled' = IF Others(g, moving) # {} THEN garbled \union {g} ELSE garbled
  /\ Continue(g)
  /\ UNCHANGED <<config, phase, requests, fields, tags, writing, moving>>
  /\ UNCHANGED <<snapshot, ready, counts, accepted>>

Prepared(g) ==
  /\ At(g, "prepare")
  /\ \/ Continue(g) /\ ready' = IF Step(g).once THEN ready \union {g[2]} ELSE ready
     \/ ~(Step(g).once /\ g[2] \in ready) /\ GiveUp(g) /\ UNCHANGED ready
  /\ UNCHANGED <<config, phase, requests, shared, snapshot, counts, accepted>>

\* Mutant: one semaphore for all clients.
InFlightAnywhere(client) ==
  {h \in DOMAIN rest : rest[h] # <<>> /\ Step(h).op = "answer" /\ Step(h).bounded}

\* The client whose Post function goroutine g runs.
ClientOf(g) == <<g[2], g[3]>>

\* The goroutines that hold a slot of the client's semaphore.
InFlight(client) ==
  {h \in DOMAIN rest : /\ ClientOf(h) = client
                       /\ rest[h] # <<>>
                       /\ Step(h).op = "answer"
                       /\ Step(h).bounded}

\* A request waits for its slot as long as it takes, and then for the answer: there is no
\* timeout.
SendRequest(g) ==
  /\ At(g, "send")
  /\ Step(g).bounded => Cardinality(InFlight(ClientOf(g))) < MaxRequests
  /\ rest' = [rest EXCEPT ![g] = <<[Step(g) EXCEPT !.op = "answer"]>> \o Tail(@)]
  /\ UNCHANGED <<config, phase, requests, shared, snapshot, ready, counts, accepted>>

\* Mutant: a refusal is taken for a success.
AnsweredAlwaysOK(g) ==
  /\ At(g, "answer")
  /\ \/ Continue(g) /\ accepted' = accepted (+) SetToBag({g})
     \/ Continue(g) /\ UNCHANGED accepted
  /\ UNCHANGED <<config, phase, requests, shared, snapshot, ready, counts>>

\* Mutant: a request whose answer is lost is sent again.
AnsweredRetries(g) ==
  /\ At(g, "answer")
  /\ \/ Continue(g) /\ accepted' = accepted (+) SetToBag({g})
     \/ /\ rest' = [rest EXCEPT ![g] = <<[Step(g) EXCEPT !.op = "send"]>> \o Tail(@)]
        /\ accepted' = accepted (+) SetToBag({g})
     \/ GiveUp(g) /\ UNCHANGED accepted
  /\ UNCHANGED <<config, phase, requests, shared, snapshot, ready, counts>>

Answered(g) ==
  /\ At(g, "answer")
  /\ \/ Continue(g) /\ accepted' = accepted (+) SetToBag({g})
     \/ \E left \in Step(g).lost : /\ rest' = [rest EXCEPT ![g] = left]
                                   /\ accepted' = accepted (+) SetToBag({g})
     \/ GiveUp(g) /\ UNCHANGED accepted
  /\ UNCHANGED <<config, phase, requests, shared, snapshot, ready, counts>>

Run(g) ==
  \/ CountMetric(g) \/ ReadFields(g) \/ Panic(g) \/ BeginWrite(g) \/ WriteFields(g)
  \/ BeginSort(g) \/ EndSort(g) \/ TagsRead(g) \/ Prepared(g) \/ SendRequest(g)
  \/ Answered(g)

Next ==
  \/ StartUp
  \/ \E e \in setup.events : MainHandler(e)
  \/ \E g \in DOMAIN rest : Run(g)

\* The scheduler runs some goroutine that can run; a destination answers unless it hangs.
Fairness ==
  WF_vars(\E g \in DOMAIN rest :
            ~(At(g, "answer") /\ ClientOf(g) \in setup.hanging) /\ Run(g))

Spec == Init /\ [][Next]_vars /\ Fairness

=============================================================================
