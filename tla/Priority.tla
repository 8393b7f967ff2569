------------------------------ MODULE Priority ------------------------------
(***************************************************************************)
(* Event priorities (internal/domain/event.go) and the routing filter of   *)
(* the dispatcher. A priority is a string; what matters of it is the level *)
(* it names, if any, and whether it is spelled exactly as the code's       *)
(* constants are (lower case, no blanks).                                  *)
(***************************************************************************)
EXTENDS Integers

Levels == {"debug", "informational", "notice", "warning",
           "error", "critical", "alert", "emergency"}

\* priorityOrder
Severity(level) ==
  CASE level = "debug" -> 0
    [] level = "informational" -> 1
    [] level = "notice" -> 2
    [] level = "warning" -> 3
    [] level = "error" -> 4
    [] level = "critical" -> 5
    [] level = "alert" -> 6
    [] level = "emergency" -> 7

PriorityStrings == [level : Levels \cup {"unknown", "empty"}, canonical : BOOLEAN]

Spelled(level) == [level |-> level, canonical |-> TRUE]
Capitalised(level) == [level |-> level, canonical |-> FALSE]
EmptyPriority == Spelled("empty")

\* ParsePriority ignores case and surrounding blanks.
Parses(p) == p.level \in Levels

\* A lookup in priorityOrder, which yields 0 for a string that is not a key.
Rank(p) == IF p.canonical /\ Parses(p) THEN Severity(p.level) ELSE 0

\* Mutant: the filter excludes the minimum itself.
GreaterThan(p, other) == Rank(p) > Rank(other)

GTE(p, other) == Rank(p) >= Rank(other)

AcceptsPriority(minPriority, p) == minPriority = EmptyPriority \/ GTE(p, minPriority)

=============================================================================
