----------------------------- MODULE MCSidekick -----------------------------
(***************************************************************************)
(* The configurations and events to check the version 2 program on: every  *)
(* output alone, with each of its formats, some of its keys, or an unusual *)
(* event; and pairs of outputs that disturb each other through the event   *)
(* they share.                                                             *)
(***************************************************************************)
EXTENDS PostDiscipline

\* What Falco sends: the numbers are json.Number values.
Usual == [f \in Fields |-> CASE f \in {"n_drops", "span.id"} -> "absent"
                             [] f \in {"evt.time", "proc.pid"} -> "number"
                             [] OTHER -> "string"]

Setup(outputs, format, events) ==
  [keys |-> [o \in outputs |-> Clients[o].needs], format |-> format, events |-> events,
   fields |-> Usual, tags |-> <<2, 1>>, source |-> "syscalls", test |-> FALSE,
   request |-> "complete", custom |-> {}, templated |-> {}, unparsed |-> {}, extra |-> {},
   priority |-> 4, minimum |-> [o \in outputs |-> 4], hosts |-> 1, hanging |-> {}]

Alone(o) == Setup({o}, "default", {"e1"})

Together(outputs) == Setup(outputs, "default", {"e1"})

\* An output has formats if its steps differ.
HaveFormats == {o \in Outputs : Posts("text")[o] # Posts("default")[o]}

\* Two events: they share the client, its semaphore and what it has prepared.
TwoEvents ==
  {Setup({o}, "default", {"e1", "e2"}) : o \in Outputs}
    \union {Setup({o}, "text", {"e1", "e2"}) : o \in HaveFormats}

\* Some of the keys an output needs are empty.
HalfConfigured ==
  UNION {{[Alone(o) EXCEPT !.keys[o] = given] : given \in SUBSET Clients[o].needs} :
           o \in Outputs}

\* One field is of another kind than usual; it matters to the outputs that look.
Looking ==
  {o \in Outputs : \E i \in DOMAIN Posts("default")[o] :
     Posts("default")[o][i].op \in {"look up", "assert", "require"}}
UnusualFields ==
  {[Alone(o) EXCEPT !.fields[f] = kind] : o \in Looking, f \in Fields, kind \in Kinds}

\* An output and one that writes to the event's map, and outputs that share a client.
Pairs ==
  {Together({o, "Pagerduty"}) : o \in Outputs}
    \union {Setup({o, "Elasticsearch"}, "text", {"e1"}) : o \in Outputs}
    \union {Together(pair) : pair \in {{"Slack", "Webhook"}, {"Teams", "Opsgenie"},
                                       {"Webex", "Webhook"}, {"Grafana", "GrafanaOnCall"},
                                       {"AWSLambda", "AWSSQS"}, {"GCPPubSub", "GCPStorage"}}}

\* A destination, or one of two hosts, never answers; another output works.
Hanging ==
  {[Setup({"Opsgenie", "NodeRed"}, "default", {"e1", "e2"}) EXCEPT
      !.hanging = {<<"NodeRed", 1>>}],
   [Setup({"Alertmanager"}, "default", {"e1", "e2"}) EXCEPT
      !.hosts = 2, !.hanging = {<<"Alertmanager", 2>>}],
   [Together({"Alertmanager", "NodeRed"}) EXCEPT !.hosts = 2]}

\* An event below the minimum priority of one output and not of the other; a source that
\* is not forwarded to the traces output.
Filtered ==
  {[Together({"Opsgenie", "NodeRed"}) EXCEPT !.minimum["NodeRed"] = 5],
   [Alone("OTLPTraces") EXCEPT !.source = "k8saudit"]}

\* The event of /test: priority Debug, two fields of its own, source "internal".
TestEvents ==
  {[Alone(o) EXCEPT !.test = TRUE, !.priority = 1, !.source = "internal",
                    !.fields = [f \in Fields |-> "absent"]] : o \in Outputs}

\* Requests that are not taken, and names for custom fields, templated fields and labels.
Requests ==
  {[Alone("NodeRed") EXCEPT !.request = r, !.custom = {"n_drops"}, !.templated = {BadName}] :
     r \in {"no body", "no POST", "no JSON", "incomplete"}}
    \union UNION {{[Alone("Slack") EXCEPT !.custom = names],
                   [Alone("Slack") EXCEPT !.templated = names],
                   [Alone("Slack") EXCEPT !.extra = names],
                   [Alone("Slack") EXCEPT !.custom = names, !.extra = {"n_drops"}]} :
                    names \in {{"n_drops"}, {"container.id"}, {BadName}, {"hostname"},
                               {"k8s.pod.name", "n_drops"}, {"k8s.ns.name"}}}
    \union {[Alone("Alertmanager") EXCEPT !.templated = {"n_drops"}, !.unparsed = {"n_drops"}]}
    \union {[Alone("Slack") EXCEPT !.fields[f] = "number", !.custom = names] :
              f \in K8sNames, names \in {{}, K8sNames}}

Cases == TwoEvents \union HalfConfigured \union UnusualFields \union Pairs
           \union Hanging \union Requests \union Filtered \union TestEvents

=============================================================================
