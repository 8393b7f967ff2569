--------------------------- MODULE MCSecurityLake ---------------------------
(* An instance of SecurityLake for TLC. *)
EXTENDS SecurityLake

=============================================================================
