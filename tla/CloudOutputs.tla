---------------------------- MODULE CloudOutputs ----------------------------
(***************************************************************************)
(* The Post functions of version 2 that call a cloud's services or a       *)
(* function platform (src/outputs/aws.go, azure.go, gcp.go, ...).          *)
(***************************************************************************)
EXTENDS Post, Integers

\* The event is encoded, one library call sends it.
SendWhole(s) == WholeEvent \o <<Call(Fail(s)), OK(s)>>

InvokeLambda ==
  WholeEvent \o <<Total("AWSLambda"), Call(Fail("AWSLambda")), OK("AWSLambda")>>
SendMessage == WholeEvent \o <<Total("AWSSQS"), Call(Fail("AWSSQS")), OK("AWSSQS")>>

\* Nothing is counted in the statistics served at /debug/vars.
UploadS3 == WholeEvent \o <<Call({<<>>})>>

\* Without RawJSON ("text" here) tags and fields become attributes.
PublishTopic(format) ==
  (IF format = "text" THEN WholeEvent ELSE <<ReadTags, Iterate>>)
    \o <<Total("AWSSNS"), Call(Fail("AWSSNS")), OK("AWSSNS")>>

\* Without a LogStream one is created, and used from then on. Several events may do so
\* at once: that it exists already is no failure. What is refused for its sequence token
\* is sent again with the one that is expected.
MaxResends == 1  \* bound: how often in a row the token is refused
PutLogEvents ==
  LET fails == Fail("AWSCloudWatchLogs")
      put[n \in 0..MaxResends] ==
        <<[Call(fails \union IF n = 0 THEN {} ELSE {put[n - 1]}) EXCEPT !.lost = fails],
          OK("AWSCloudWatchLogs")>>
  IN put[MaxResends]
SendCloudWatchLog ==
  WholeEvent
    \o <<Total("AWSCloudWatchLogs"), PrepareOnce(Fail("AWSCloudWatchLogs"))>> \o PutLogEvents

PutRecord == <<Total("AWSKinesis")>> \o SendWhole("AWSKinesis")

\* The batch is sent twice: the answer to the first time is not looked at.
EventHubPost ==
  LET fails == Fail("AzureEventHub")
      second == <<Call(fails), OK("AzureEventHub")>>
  IN <<Total("AzureEventHub"), Prepare(fails), Prepare(fails)>> \o WholeEvent
       \o <<Prepare(fails), Call({second})>> \o second

\* A failure is counted as the Pub/Sub output's.
GCPCallCloudFunction ==
  <<Total("GCPCloudFunctions")>> \o WholeEvent
    \o <<Call(Fail("GCPPubSub")), OK("GCPCloudFunctions")>>
GCPPublishTopic == <<Total("GCPPubSub")>> \o SendWhole("GCPPubSub")

\* What was written is stored when the object is closed.
UploadGCS ==
  <<Total("GCPStorage")>> \o WholeEvent
    \o <<Prepare(Fail("GCPStorage")), Call(Fail("GCPStorage")), OK("GCPStorage")>>

CloudRunFunctionPost == HTTPPost("GCPCloudRun", WholeEvent)

\* With a kubeconfig ("text" here) the call goes through the API server.
FunctionCall(s, format) ==
  <<Total(s)>> \o WholeEvent
    \o <<IF format = "text" THEN Call(Fail(s)) ELSE Request(Fail(s)), OK(s)>>
KubelessCall(format) == FunctionCall("Kubeless", format)
OpenfaasCall(format) == FunctionCall("Openfaas", format)

\* Without a kubeconfig the client is made without OTLPMetrics: what is counted last, of a
\* success or a failure, is counted through a nil pointer.
FissionCall(format) ==
  IF format = "text" THEN FunctionCall("Fission", format)
  ELSE <<Total("Fission")>> \o WholeEvent
         \o <<Request({<<Error("Fission"), NilMetrics>>}), OK("Fission"), NilMetrics>>

UploadYandexS3 == WholeEvent \o <<Call({<<>>})>>

\* A success alone is counted.
UploadYandexDataStreams == WholeEvent \o <<Call({<<>>}), OK("YandexDataStreams")>>

CloudPosts(format) ==
  [AWSLambda |-> InvokeLambda, AWSSQS |-> SendMessage, AWSSNS |-> PublishTopic(format),
   AWSCloudWatchLogs |-> SendCloudWatchLog, AWSS3 |-> UploadS3, AWSKinesis |-> PutRecord,
   AzureEventHub |-> EventHubPost, GCPPubSub |-> GCPPublishTopic,
   GCPCloudFunctions |-> GCPCallCloudFunction, GCPCloudRun |-> CloudRunFunctionPost,
   GCPStorage |-> UploadGCS, Kubeless |-> KubelessCall(format),
   Openfaas |-> OpenfaasCall(format), Fission |-> FissionCall(format),
   YandexS3 |-> UploadYandexS3, YandexDataStreams |-> UploadYandexDataStreams]

=============================================================================
