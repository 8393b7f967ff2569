-------------------------------- MODULE Post --------------------------------
(***************************************************************************)
(* What a Post function of the version 2 outputs (src/outputs) is made of. *)
(* forwardEvent starts one goroutine for each output; all of them share    *)
(* the map OutputFields and the array of Tags of the event. A Post         *)
(* function is the sequence of its steps that another goroutine, a         *)
(* destination or a counter can tell: uses of the map and the array, type  *)
(* assertions, requests, counts. A step that may fail has a set "fails" of *)
(* sequences: one of them is what is left to do after a failure, instead   *)
(* of the rest. A MessageFormat of the user's is left out.                 *)
(***************************************************************************)
EXTENDS Sequences

\* The fields a Post function or newFalcoPayload looks at or changes: DottedFields are those whose
\* names hold a dot.
DottedFields ==
  {"container.id", "span.id", "evt.time", "proc.pid", "proc.cmdline", "k8s.ns.name",
   "k8s.pod.name"}
Fields == DottedFields \union {"n_drops", "hostname"}

\* The kinds of value JSON decoding leaves in OutputFields (numbers: json.Number).
Kinds == {"absent", "null", "string", "number"}

\* The option of an output that changes its steps, as the output names it: "text" stands
\* for the value that differs from the default. An output without one has one format.
Formats == {"default", "text"}

-----------------------------------------------------------------------------
Count(s, r) == [op |-> "count", stat |-> s, result |-> r]
Total(s) == Count(s, "total")
OK(s) == Count(s, "ok")
Error(s) == Count(s, "error")

\* The map is iterated over, by a range loop, a template or an encoder.
Iterate == [op |-> "iterate"]

\* A value is looked up and asserted to be of some type: other kinds panic.
TypeAssertion(field, kinds) == [op |-> "assert", field |-> field, kinds |-> kinds]

\* A value is looked up and the Post function gives up if it is not of these kinds.
Require(field, kinds, fails) ==
  [op |-> "require", field |-> field, kinds |-> kinds, fails |-> fails]

\* getSortedStringKeys takes the keys whose values are strings; each is looked up
\* afterwards and asserted to be a string.
SortedStringKeys == [op |-> "keys"]
LookUpStrings == [op |-> "look up"]
StringFields == <<SortedStringKeys, LookUpStrings>>

\* An assignment to the map, or a delete: a goroutine may be caught in the middle.
Write(fields, kind) ==
  <<[op |-> "begin write"], [op |-> "write", fields |-> fields, kind |-> kind]>>

\* The tags are read, or first sorted in place: a goroutine may be caught in the middle.
ReadTags == [op |-> "read tags"]
SortTags == <<[op |-> "begin sort"], [op |-> "sort"]>>

\* A step that delivers nothing and may fail; PrepareOnce is skipped once it succeeded.
Prepare(fails) == [op |-> "prepare", once |-> FALSE, fails |-> fails]
PrepareOnce(fails) == [op |-> "prepare", once |-> TRUE, fails |-> fails]

\* Client.sendRequest, bounded by the client's semaphore, and any other call that
\* delivers. The destination accepts, refuses ("fails"), or accepts and its answer is
\* lost ("lost").
Request(fails) == [op |-> "send", bounded |-> TRUE, fails |-> fails, lost |-> fails]
Call(fails) == [op |-> "send", bounded |-> FALSE, fails |-> fails, lost |-> fails]

\* A metric is looked up in the OTLPMetrics of a client that has none.
NilMetrics == [op |-> "nil metrics"]

\* A failure is counted, and that is the end.
Fail(s) == {<<Error(s)>>}

\* The form of most outputs: count, build the payload, send, count the result.
HTTPPost(s, payload) == <<Total(s)>> \o payload \o <<Request(Fail(s)), OK(s)>>

\* The payload holds the event itself: sendRequest encodes it, map included.
WholeEvent == <<Iterate, ReadTags>>

=============================================================================
