----------------------------- MODULE MCService -----------------------------
(* An instance of Service for TLC: two outputs, the second with a minimum   *)
(* priority; three events below, at and above it, or spelled as Falco does. *)
EXTENDS Service

CONSTANTS e1, e2, e3

MCEvents == {e1, e2, e3}

CanonicalPriorities ==
  [e \in MCEvents |-> CASE e = e1 -> Spelled("warning")
                        [] e = e2 -> Spelled("notice")
                        [] e = e3 -> Capitalised("unknown")]

FalcoPriorities ==
  [e \in MCEvents |-> CASE e = e1 -> Capitalised("warning")
                        [] e = e2 -> Spelled("notice")
                        [] e = e3 -> Spelled("error")]

MCMinPriority == <<EmptyPriority, Spelled("warning")>>

=============================================================================
