------------------------------ MODULE MCDrivers ------------------------------
(* An instance of Drivers for TLC: three names, of which one has brackets; the *)
(* enricher's configurations, and the event's fields.                       *)
EXTENDS Drivers

CONSTANTS e1, e2

MCBatch == {e1, e2}
MCHosts == {"h1", "h2"}
MCFieldNames == {"a", "b", "b[0]"}
MCReplaced == [f \in MCFieldNames |-> IF f = "b[0]" THEN "b" ELSE f]

Setup(given, custom, templated, fails, rest) ==
  [given |-> [f \in MCFieldNames |-> IF f \in DOMAIN given THEN given[f] ELSE Absent],
   custom |-> custom, templated |-> templated, fails |-> [t \in DOMAIN templated |-> fails],
   brackets |-> rest \in {"brackets", "both"}, truncates |-> rest \in {"truncates", "both"}]

\* A template of its own field, of a custom one, of a long one, of another template.
Templates ==
  {[t \in {} |-> "a"], [t \in {"a"} |-> "a"], [t \in {"a"} |-> "b[0]"],
   [t \in {"a", "b[0]"} |-> IF t = "a" THEN "b[0]" ELSE "a"]}

\* Templates that never fail, fail over a field that is not there, or always fail.
Failing == {{}, {Absent}, {Absent, Custom, Given(TRUE), Given(FALSE)}}

MCSetups ==
  {Setup(given, custom, templated, fails, rest) :
     given \in {[f \in {"a"} |-> Given(TRUE)],
                [f \in {"b[0]"} |-> Given(TRUE)],
                [f \in {"b", "b[0]"} |-> Given(f = "b")]},
     custom \in {{}, {"b[0]"}},
     templated \in Templates,
     fails \in Failing,
     rest \in {"none", "both"}}

=============================================================================
