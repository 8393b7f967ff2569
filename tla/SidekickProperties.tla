-------------------------- MODULE SidekickProperties --------------------------
(***************************************************************************)
(* What the goroutines of the version 2 program promise together, and what *)
(* their shared map, array, clients and process let each do to the others. *)
(***************************************************************************)
EXTENDS Sidekick

-----------------------------------------------------------------------------
Copies(x, bag) == IF BagIn(x, bag) THEN bag[x] ELSE 0

Started(o) == {g \in DOMAIN rest : g[2] = o}
Counted(o, result) == Copies(<<o, result>>, counts)
RequestsCounted(result) == Copies(result, requests)
Idle == phase = "serving" /\ \A g \in DOMAIN rest : rest[g] = <<>>

\* The outputs whose Post function leaves a count out, makes it twice, or makes it for
\* another output.
Miscounting ==
  {"Webex", "GrafanaOnCall", "GCPCloudFunctions", "Kafka", "Redis", "AWSS3", "YandexS3",
   "YandexDataStreams", "OTLPTraces", "OTLPLogs", "SMTP"}

\* Once the Post functions have returned, an output's total is the number of events it
\* was given, with Alertmanager that of the events and hosts, and each of them is counted
\* as a success or as an error (the Stats of every Post function), however the goroutines
\* were interleaved and whichever step failed.
OutputsAddUp ==
  Idle /\ DOMAIN keys \intersect Miscounting = {} =>
    \A o \in DOMAIN keys :
      /\ Counted(o, "total") = Cardinality(Started(o))
      /\ Counted(o, "ok") + Counted(o, "error") = Counted(o, "total")

\* Every request is counted as accepted or as rejected (stats.Requests), unless its event
\* has a namespace or pod name that is no string, or the configuration a custom or templated
\* field with dots in its name or an extra label that is none: then every event ends in a
\* panic.
RequestsAddUp ==
  /\ \A f \in K8sNames : setup.fields[f] # "number"
  /\ (setup.custom \union setup.templated) \intersect DottedFields = {}
  /\ BadName \notin setup.extra
  => RequestsCounted("total") = RequestsCounted("accepted") + RequestsCounted("rejected")

\* Both halves of the statistics at /debug/vars add up: what came in, and what each output
\* was given.
CountsAddUp == RequestsAddUp /\ OutputsAddUp

\* These answer success to what was not accepted: another error than the one
\* Elasticsearch is asked about, what NATS, MQTT and an asynchronous Kafka writer send
\* later, an error Redis has reported, an event CloudEvents had refused.
Optimistic == {"Elasticsearch", "Nats", "MQTT", "Kafka", "Redis", "CloudEvents"}

\* The output whose statistics a success of output o is counted in.
CountedFor(o) ==
  CASE o = "Webex" -> "Webhook" [] o = "GrafanaOnCall" -> "Grafana" [] OTHER -> o

\* At any moment a success is counted for no more events than the destination accepted,
\* whatever failed or got lost on the way (setXErrorMetrics and the Stats of each output).
OkMeansAccepted ==
  \A o \in DOMAIN keys \ Optimistic :
    Counted(o, "ok") <= Cardinality({g \in BagToSet(accepted) : CountedFor(g[2]) = o})

\* No destination, be it one of several hosts, accepts an event twice, a retry of
\* Elasticsearch's or CloudWatch's included: only the Event Hub output sends twice.
AtMostOnce ==
  \A g \in BagToSet(accepted) : g[2] # "AzureEventHub" => Copies(g, accepted) = 1

\* The outputs that write to the map of the event all the others read.
Writers == {"Pagerduty", "Elasticsearch"}

\* The outputs that assert a field to be of a type that decoding need not give it.
Asserting == {"Dynatrace", "Spyderbat", "Alertmanager", "OTLPTraces"}

\* The process ends only for one of these: an output that was given some of its keys but
\* not all; a client that could not be created and is used to say so; at the start, a
\* label that is named twice, as the names of the host, namespace and pod are already; a
\* field of an unusual kind, and an output that asserts it; Fission without a kubeconfig,
\* whose client lacks the metrics it uses; an output that writes to the shared map, and
\* another one. No request that is refused or lost, and no other combination of
\* outputs, events and interleavings, ends it.
ProcessSurvives ==
  phase = "dead" =>
    \/ \E o \in DOMAIN setup.keys : ~(Clients[o].needs \subseteq setup.keys[o])
    \/ \E o \in DOMAIN setup.keys : Clients[o].onError \in {"panics", "exits"} /\ rest = <<>>
    \/ rest = <<>> /\ \E f \in Names :
         \/ /\ f \in {"hostname"} \union K8sNames
            /\ f \in setup.custom \union setup.templated \union setup.extra
         \/ f \in setup.custom \intersect setup.templated
         \/ f \in (setup.custom \union setup.templated) \intersect setup.extra
    \/ DOMAIN setup.keys \intersect Asserting # {}
    \/ "Fission" \in DOMAIN setup.keys /\ setup.format = "default"
    \/ DOMAIN setup.keys \intersect Writers # {} /\ Cardinality(DOMAIN setup.keys) > 1

\* No goroutine reads the tags of an event while another one sorts them in place:
\* twelve outputs do sort the shared array, but newFalcoPayload has sorted it before.
TagsIntact == garbled = {}

-----------------------------------------------------------------------------
\* Every event an output was given is dealt with, unless the output's own destination
\* never answers: a destination that hangs keeps its client's only slot for ever, but
\* holds up no other output and no other host.
PostsFinish ==
  <>[](\/ phase = "dead"
       \/ \A g \in DOMAIN rest : ClientOf(g) \notin setup.hanging => rest[g] = <<>>)

=============================================================================
