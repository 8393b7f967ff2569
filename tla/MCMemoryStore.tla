--------------------------- MODULE MCMemoryStore ---------------------------
(* An instance of MemoryStore for TLC: four events that differ in every    *)
(* field, one with an empty hostname, one with a duplicate tag, and         *)
(* timestamps in no relation to the order of appends.                      *)
EXTENDS MemoryStoreProperties

CONSTANTS e1, e2, e3, e4

MCEvents == {e1, e2, e3, e4}
MCFields == {"rule", "hostname", "tags"}
MCValues == {"", "a", "b"}

Event(rule, hostname, tags) ==
  [rule |-> <<rule>>, hostname |-> <<hostname>>, tags |-> tags]

MCLabels ==
  [e \in MCEvents |->
     CASE e = e1 -> Event("a", "b", <<"a", "b">>)
       [] e = e2 -> Event("b", "", <<>>)
       [] e = e3 -> Event("b", "b", <<"b", "b">>)
       [] e = e4 -> Event("a", "a", <<"b">>)]

MCTime ==
  [e \in MCEvents |-> CASE e = e1 -> 2 [] e = e2 -> 0 [] e = e3 -> 1 [] e = e4 -> 0]

=============================================================================
