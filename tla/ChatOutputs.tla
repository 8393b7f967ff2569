----------------------------- MODULE ChatOutputs -----------------------------
(***************************************************************************)
(* The Post functions of the chat, alerting and dashboard outputs of       *)
(* version 2: for each file in src/outputs, the payload builder and the    *)
(* Post function.                                                          *)
(***************************************************************************)
EXTENDS Post

\* The OutputFormat "text" leaves fields and tags out.
IfFields(format, steps) == IF format = "text" THEN <<>> ELSE steps

SlackPayload(format) == IfFields(format, SortTags \o StringFields)
SlackPost(format) == HTTPPost("Slack", SlackPayload(format))

RocketchatPayload(format) == IfFields(format, SortTags \o StringFields)
RocketchatPost(format) == HTTPPost("Rocketchat", RocketchatPayload(format))

MattermostPayload(format) == IfFields(format, SortTags \o StringFields)
MattermostPost(format) == HTTPPost("Mattermost", MattermostPayload(format))

CliqPayload(format) == IfFields(format, StringFields)
CliqPost(format) == HTTPPost("Cliq", CliqPayload(format))

TeamsPayload(format) == IfFields(format, StringFields \o SortTags)
TeamsPost(format) == HTTPPost("Teams", TeamsPayload(format))

GooglechatPayload(format) == IfFields(format, StringFields \o SortTags)
GooglechatPost(format) == HTTPPost("Googlechat", GooglechatPayload(format))

\* The result is counted as the webhook output's.
WebexPayload == <<ReadTags, Iterate>>
WebexPost == <<Total("Webex")>> \o WebexPayload \o <<Request(Fail("Webhook")), OK("Webhook")>>

\* The values are formatted, whatever they are: no assertion.
DiscordPayload == <<SortedStringKeys, Iterate>> \o SortTags
DiscordPost == HTTPPost("Discord", DiscordPayload)

TelegramPayload == <<ReadTags, Iterate>>
TelegramPost == HTTPPost("Telegram", TelegramPayload)

GotifyPayload == <<ReadTags, Iterate>>
GotifyPost == HTTPPost("Gotify", GotifyPayload)

OpsgeniePayload == <<Iterate, ReadTags>>
OpsgeniePost == HTTPPost("Opsgenie", OpsgeniePayload)

\* The host name is put into the event's own map, which the library encodes.
PagerdutyEvent == Write({"hostname"}, "string") \o SortTags
PagerdutyPost ==
  <<Total("Pagerduty")>> \o PagerdutyEvent
    \o <<Iterate, Call(Fail("Pagerduty")), OK("Pagerduty")>>

DatadogPayload == <<SortedStringKeys, Iterate>> \o SortTags
DatadogPost == HTTPPost("Datadog", DatadogPayload)

DatadogLogsPayload == SortTags \o WholeEvent
DatadogLogsPost == HTTPPost("DatadogLogs", DatadogLogsPayload)

\* Numbers of dropped events are parsed from strings.
AlertmanagerPayload == <<Iterate, TypeAssertion("n_drops", {"absent", "string"})>> \o SortTags
AlertmanagerPost == HTTPPost("Alertmanager", AlertmanagerPayload)

\* Fields and tags are copied if AllFieldsAsTags is set: "default" here.
GrafanaPayload(format) == IfFields(format, <<Iterate, ReadTags>>)
GrafanaPost(format) == HTTPPost("Grafana", GrafanaPayload(format))

\* The result is counted as the Grafana output's.
GrafanaOnCallPost == <<Total("GrafanaOnCall"), Request(Fail("Grafana")), OK("Grafana")>>

ChatPosts(format) ==
  [Slack |-> SlackPost(format), Cliq |-> CliqPost(format),
   Rocketchat |-> RocketchatPost(format), Mattermost |-> MattermostPost(format),
   Teams |-> TeamsPost(format), Webex |-> WebexPost, Datadog |-> DatadogPost,
   DatadogLogs |-> DatadogLogsPost, Discord |-> DiscordPost,
   Alertmanager |-> AlertmanagerPost, Opsgenie |-> OpsgeniePost,
   Googlechat |-> GooglechatPost(format), Pagerduty |-> PagerdutyPost,
   Grafana |-> GrafanaPost(format), GrafanaOnCall |-> GrafanaOnCallPost,
   Gotify |-> GotifyPost, Telegram |-> TelegramPost]

=============================================================================
