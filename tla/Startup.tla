------------------------------- MODULE Startup -------------------------------
(***************************************************************************)
(* The start of the version 2 program (src/main.go, init): for each output *)
(* the configuration keys that must be given for a client to be created,   *)
(* the keys forwardEvent asks for (src/handlers.go), and what init does    *)
(* when the client cannot be created. An event forwarded to an output that *)
(* has no client calls a method of a nil client.                           *)
(***************************************************************************)
EXTENDS TLC

\* An output whose keys are all asked for both times, and cleared on failure.
Needs(keys) == [needs |-> keys, forwards |-> keys, onError |-> "cleared"]

\* forwardEvent asks for fewer keys than init.
ForwardsOn(row, keys) == [row EXCEPT !.forwards = keys]

\* Init logs the failure through the client it does not have.
LogsThroughNil(row) == [row EXCEPT !.onError = "panics"]

\* Creating the client connects to nothing, or a failure to is only logged.
NeverFails(row) == [row EXCEPT !.onError = "none"]

\* The library ends the process itself.
Exits(row) == [row EXCEPT !.onError = "exits"]

-----------------------------------------------------------------------------
ChatClients ==
  [o \in {"Slack", "Cliq", "Rocketchat", "Mattermost", "Teams", "Webex", "Discord"} |->
     Needs({"WebhookURL"})]
    @@ [o \in {"Datadog", "DatadogLogs"} |-> Needs({"APIKey"})]
    @@ [Alertmanager |-> Needs({"HostPort"})]

StoreClients ==
  [o \in {"Elasticsearch", "Quickwit", "Loki", "Nats", "Influxdb"} |-> Needs({"HostPort"})]
    @@ [SumoLogic |-> Needs({"ReceiverURL"}),
        Stan |-> Needs({"HostPort", "ClusterID", "ClientID"})]

\* One client for all: if it fails the keys of all of them are cleared.
AWSClients ==
  [AWSLambda |-> Needs({"FunctionName"}), AWSSQS |-> Needs({"URL"}),
   AWSSNS |-> Needs({"TopicArn"}), AWSCloudWatchLogs |-> Needs({"LogGroup"}),
   AWSS3 |-> Needs({"Bucket"}), AWSKinesis |-> Needs({"StreamName"})]

MessageClients ==
  [SMTP |-> ForwardsOn(Needs({"HostPort", "From", "To"}), {"HostPort"}),
   Opsgenie |-> Needs({"APIKey"}), Webhook |-> Needs({"Address"}),
   NodeRed |-> Needs({"Address"}), CloudEvents |-> Needs({"Address"})]

\* Azure's client, and one client for the three outputs of Google Cloud; Cloud Run has
\* its own.
EventHubAndGCPClients ==
  [AzureEventHub |-> NeverFails(Needs({"Name"})), GCPPubSub |-> Needs({"ProjectID", "Topic"}),
   GCPStorage |-> Needs({"Bucket"}), GCPCloudFunctions |-> Needs({"Name"}),
   GCPCloudRun |-> ForwardsOn(Needs({"Endpoint", "JWT"}), {"Endpoint"})]

QueueAndFunctionClients ==
  [Googlechat |-> Needs({"WebhookURL"}),
   Kafka |-> ForwardsOn(Needs({"HostPort", "Topic"}), {"HostPort"}),
   KafkaRest |-> Needs({"Address"}), Pagerduty |-> Needs({"RoutingKey"}),
   Kubeless |-> LogsThroughNil(Needs({"Namespace", "Function"})),
   WebUI |-> Needs({"URL"}),
   Openfaas |-> LogsThroughNil(Needs({"FunctionName"})),
   Tekton |-> LogsThroughNil(Needs({"EventListener"})),
   Rabbitmq |-> Needs({"URL", "Queue"}),
   Wavefront |-> LogsThroughNil(Needs({"EndpointType", "EndpointHost"})),
   Fission |-> LogsThroughNil(Needs({"Function"})),
   Grafana |-> ForwardsOn(Needs({"HostPort", "APIKey"}), {"HostPort"}),
   GrafanaOnCall |-> Needs({"WebhookURL"})]

OtherClients ==
  [YandexS3 |-> Exits(Needs({"Bucket"})), YandexDataStreams |-> Exits(Needs({"StreamName"})),
   Syslog |-> LogsThroughNil(Needs({"Host"})), MQTT |-> NeverFails(Needs({"Broker"})),
   Zincsearch |-> Needs({"HostPort"}), Gotify |-> Needs({"HostPort"}),
   Spyderbat |-> LogsThroughNil(Needs({"OrgUID"})),
   TimescaleDB |-> LogsThroughNil(Needs({"Host"})),
   Redis |-> NeverFails(Needs({"Address"})), Logstash |-> Needs({"Address"}),
   Telegram |-> LogsThroughNil(Needs({"ChatID", "Token"})),
   N8N |-> Needs({"Address"}), OpenObserve |-> Needs({"HostPort"}),
   Dynatrace |-> Needs({"APIToken", "APIUrl"}),
   OTLPTraces |-> Needs({"Endpoint"}), OTLPLogs |-> Needs({"Endpoint"}),
   Talon |-> Needs({"Address"}), Splunk |-> Needs({"Host"})]

Clients ==
  ChatClients @@ StoreClients @@ AWSClients @@ MessageClients @@ EventHubAndGCPClients
    @@ QueueAndFunctionClients @@ OtherClients

\* The outputs that share a client: its failure is the failure of all of them.
SharedClients ==
  {DOMAIN AWSClients, {"GCPPubSub", "GCPStorage", "GCPCloudFunctions"}}

=============================================================================
