--------------------------- MODULE MCPolicyReport ---------------------------
(* An instance of PolicyReport for TLC. *)
EXTENDS PolicyReport, TLC

CONSTANTS e1, e2, e3

MCEvents == {e1, e2, e3}
MCAttributes == [namespace : Namespaces, subject : BOOLEAN]
Symmetry == Permutations(MCEvents)

=============================================================================
