----------------------------- MODULE Enrichment -----------------------------
(***************************************************************************)
(* What newFalcoPayload (src/handlers.go) makes of an event before it is   *)
(* forwarded, and the Prometheus counter it adds to, whose label names are *)
(* fixed at the start (src/stats_prometheus.go). Names are the fields of   *)
(* Post and one that is no label, dots or no dots. A configuration c has   *)
(* the names of the custom fields, templated fields and extra labels, and  *)
(* of the templated fields whose template cannot be parsed.                *)
(***************************************************************************)
EXTENDS Post, Naturals, FiniteSets, TLC

BadName == "bad-name"
Names == Fields \union {BadName}

\* A name as a label, its dots replaced by underscores or kept.
Undotted(f) == [name |-> f, dots |-> FALSE]
AsItIs(f) == [name |-> f, dots |-> f \in DottedFields]

\* regPromLabels.
MatchesLabel(label) == ~label.dots /\ label.name # BadName

\* The labels every event has, of those that have the name of a field.
K8sNames == {"k8s.ns.name", "k8s.pod.name"}
BuiltIn == {Undotted(f) : f \in {"hostname"} \union K8sNames}

\* getFalcoNewCounterVec: one label for each name given, if it matches.
ValidNames(names) == {f \in names : MatchesLabel(Undotted(f))}
LabelNames(c) ==
  BuiltIn \union {Undotted(f) : f \in ValidNames(c.custom \union c.templated \union c.extra)}

\* Registering the counter panics if a label is named twice.
NamedTwice(c) ==
  Cardinality(LabelNames(c))
    < Cardinality(BuiltIn) + Cardinality(ValidNames(c.custom))
        + Cardinality(ValidNames(c.templated)) + Cardinality(ValidNames(c.extra))

\* The labels of an event: they must be those the counter has, or With panics.
PromLabels(c) ==
  BuiltIn \union {AsItIs(f) : f \in {f \in c.custom : MatchesLabel(AsItIs(f))}}
          \union {AsItIs(f) : f \in ValidNames(c.templated)}
          \union {Undotted(f) : f \in c.extra}

\* Custom and templated values are strings, a template whose execution fails included.
AddStrings(fields, names) == [f \in Fields |-> IF f \in names THEN "string" ELSE fields[f]]

\* The names of the namespace and the pod are asserted to be strings, after the custom
\* fields are in.
EnrichmentPanics(c, fields) ==
  \/ \E f \in K8sNames : AddStrings(fields, c.custom)[f] = "number"
  \/ PromLabels(c) # LabelNames(c)

OutputFieldsOf(c, fields) ==
  AddStrings(fields, c.custom \union (c.templated \ c.unparsed))

\* sort.Strings; the tags are numbers here.
SortStrings(given) == SortSeq(given, <)

\* Mutant: the tags are left in the order they came in.
TagsUnsorted(given) == given

\* Customtags are appended, and all are sorted.
TagsOf(given) == SortStrings(given)

=============================================================================
