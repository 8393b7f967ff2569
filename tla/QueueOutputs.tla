---------------------------- MODULE QueueOutputs ----------------------------
(***************************************************************************)
(* The Post functions of version 2 that hand the event to a queue, a       *)
(* collector or another program: for each file in src/outputs, the payload *)
(* builder and the Post function.                                          *)
(***************************************************************************)
EXTENDS Post

WebhookPost == HTTPPost("Webhook", WholeEvent)
SplunkSend == HTTPPost("Splunk", WholeEvent)
NodeRedPost == HTTPPost("NodeRed", WholeEvent)
WebUIPost == HTTPPost("WebUI", WholeEvent)
N8NPost == HTTPPost("N8N", WholeEvent)
TalonPost == HTTPPost("Talon", WholeEvent)
TektonPost == HTTPPost("Tekton", WholeEvent)
KafkaRestPost == HTTPPost("KafkaRest", WholeEvent)

\* Each event connects. It is counted once it is buffered; closing writes it out, and
\* nobody hears of a failure.
NatsPublish ==
  <<Total("Nats"), Prepare(Fail("Nats"))>> \o WholeEvent
    \o <<Prepare(Fail("Nats")), OK("Nats"), Call({<<>>})>>

\* Each event connects, under the same client ID; the server acknowledges.
StanPublish ==
  <<Total("Stan"), Prepare(Fail("Stan"))>> \o WholeEvent
    \o <<Call(Fail("Stan")), OK("Stan")>>

\* The library calls handleKafkaCompletion, which counts; so does KafkaProduce, for what
\* WriteMessages returns. An Async writer ("text" here) returns nil before it writes.
KafkaProduce(format) ==
  <<Total("Kafka")>> \o WholeEvent \o
    (IF format = "text"
     THEN <<OK("Kafka"), Call(Fail("Kafka")), OK("Kafka")>>
     ELSE <<Call({<<Error("Kafka"), Error("Kafka")>>}), OK("Kafka"), OK("Kafka")>>)

RabbitmqPublish ==
  <<Total("Rabbitmq")>> \o WholeEvent \o <<Call(Fail("Rabbitmq")), OK("Rabbitmq")>>

\* The publication is not waited for: a failure may be known at once or never.
MQTTPublish ==
  <<Total("MQTT"), Prepare(Fail("MQTT"))>> \o WholeEvent
    \o <<Call(Fail("MQTT") \union {<<OK("MQTT")>>}), OK("MQTT")>>

\* After an error is reported the success is counted too.
RedisPost ==
  <<Total("Redis")>> \o WholeEvent
    \o <<Call({<<Error("Redis"), OK("Redis")>>}), OK("Redis")>>

\* An event that was refused is not "undelivered".
CloudEventsSend ==
  <<Total("CloudEvents")>> \o WholeEvent
    \o <<Call(Fail("CloudEvents") \union {<<OK("CloudEvents")>>}), OK("CloudEvents")>>

\* Each event dials; only what reaches the last step is counted in the total.
SMTPPayload == <<ReadTags, Iterate>>
SendMail ==
  SMTPPayload
    \o <<Prepare(Fail("SMTP")), Prepare(Fail("SMTP")),
         Total("SMTP"), Call(Fail("SMTP")), OK("SMTP")>>

\* Two fields must be there, and be numbers; two must be strings.
SpyderbatPayload ==
  LET given == {"string", "number"}
      fails == Fail("Spyderbat")
  IN <<Require("evt.time", given, fails), TypeAssertion("evt.time", {"number"}),
       Require("proc.pid", given, fails), TypeAssertion("proc.pid", {"number"}),
       TypeAssertion("proc.cmdline", {"string"}), TypeAssertion("container.id", {"string"})>>
SpyderbatPost == HTTPPost("Spyderbat", SpyderbatPayload)

OTLPLogsPost == <<ReadTags, Call({<<>>})>>

\* No trace is made of an event without a field to derive its ID from.
GenerateTraceID == <<TypeAssertion("container.id", {"absent", "null", "string"}), Prepare({<<>>})>>
OTLPTracesPost ==
  <<Total("OTLPTraces")>> \o GenerateTraceID \o <<ReadTags, Iterate, Call({<<>>})>>

QueuePosts(format) ==
  [Webhook |-> WebhookPost, Splunk |-> SplunkSend, NodeRed |-> NodeRedPost,
   WebUI |-> WebUIPost, N8N |-> N8NPost, Talon |-> TalonPost, Tekton |-> TektonPost,
   KafkaRest |-> KafkaRestPost, Nats |-> NatsPublish, Stan |-> StanPublish,
   Kafka |-> KafkaProduce(format), Rabbitmq |-> RabbitmqPublish, MQTT |-> MQTTPublish,
   Redis |-> RedisPost, CloudEvents |-> CloudEventsSend, SMTP |-> SendMail,
   Spyderbat |-> SpyderbatPost, OTLPLogs |-> OTLPLogsPost, OTLPTraces |-> OTLPTracesPost]

=============================================================================
