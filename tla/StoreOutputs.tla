---------------------------- MODULE StoreOutputs ----------------------------
(***************************************************************************)
(* The Post functions of version 2 that write to databases, log stores and *)
(* time series: for each file in src/outputs, the payload builder and the  *)
(* Post function.                                                          *)
(***************************************************************************)
EXTENDS Post

QuickwitPost == HTTPPost("Quickwit", WholeEvent)
SumoLogicPost == HTTPPost("SumoLogic", WholeEvent)
ZincsearchPost == HTTPPost("Zincsearch", WholeEvent)
OpenObservePost == HTTPPost("OpenObserve", WholeEvent)

InfluxdbPayload == <<Iterate, ReadTags>>
InfluxdbPost == HTTPPost("Influxdb", InfluxdbPayload)

\* The line is the event itself if Format is json: "text" here.
LokiPayload(format) ==
  <<Iterate>> \o SortTags \o (IF format = "text" THEN WholeEvent ELSE <<>>)
LokiPost(format) == HTTPPost("Loki", LokiPayload(format))

\* Values are asserted to be strings, and span.id to be an int, which decoding never
\* yields; then the fields are encoded too.
DynatracePayload ==
  <<Iterate, TypeAssertion("container.id", {"absent", "null", "string"}),
    TypeAssertion("span.id", {"absent", "null"}), ReadTags>>
DynatracePost == HTTPPost("Dynatrace", DynatracePayload \o WholeEvent)

\* A metric is buffered by the sender, then flushed.
WavefrontPost ==
  <<Iterate, ReadTags, Total("Wavefront"), Prepare(Fail("Wavefront")),
    Call(Fail("Wavefront")), OK("Wavefront")>>

\* Each event dials.
SyslogPost ==
  <<Total("Syslog"), Prepare(Fail("Syslog")), Iterate, ReadTags,
    Call(Fail("Syslog")), OK("Syslog")>>

TimescaleDBPayload == <<ReadTags, Iterate>>
TimescaleDBPost ==
  <<Total("TimescaleDB")>> \o TimescaleDBPayload
    \o <<Call(Fail("TimescaleDB")), OK("TimescaleDB")>>

\* The fields are copied, under other names, before the event is encoded.
LogstashPost ==
  <<Total("Logstash"), Iterate, ReadTags, Call(Fail("Logstash")), OK("Logstash")>>

\* FlattenFields ("text" here) renames the dotted keys of the event's own map.
BuildESPayload(format) ==
  IF format = "text" THEN <<Iterate>> \o Write(DottedFields, "absent") ELSE <<>>

\* The field the answer complains of is deleted from the event's own map, with every
\* other that has its name as a prefix, and the event is sent once more.
RetryWithoutField ==
  <<Iterate>> \o Write({"container.id"}, "absent") \o WholeEvent
    \o <<Request(Fail("Elasticsearch")), OK("Elasticsearch")>>

\* The text of a failed answer is taken for JSON: one that is not, or names no field,
\* is an error; any other type of error is a success.
ElasticsearchAnswers ==
  Fail("Elasticsearch") \union {<<OK("Elasticsearch")>>, RetryWithoutField}

ElasticsearchPost(format) ==
  BuildESPayload(format) \o WholeEvent
    \o <<Total("Elasticsearch"),
         [Request(ElasticsearchAnswers) EXCEPT !.lost = Fail("Elasticsearch")],
         OK("Elasticsearch")>>

StorePosts(format) ==
  [Elasticsearch |-> ElasticsearchPost(format), Quickwit |-> QuickwitPost,
   Influxdb |-> InfluxdbPost, Loki |-> LokiPost(format), SumoLogic |-> SumoLogicPost,
   Zincsearch |-> ZincsearchPost, OpenObserve |-> OpenObservePost,
   Dynatrace |-> DynatracePost, Wavefront |-> WavefrontPost, Syslog |-> SyslogPost,
   TimescaleDB |-> TimescaleDBPost, Logstash |-> LogstashPost]

=============================================================================
