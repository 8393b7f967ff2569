------------------------------ MODULE MCOutput ------------------------------
(* Instances of Output for TLC. *)
EXTENDS OutputProperties, TLC

CONSTANTS e1, e2, e3, w1, w2

Events2 == {e1, e2}
Events3 == {e1, e2, e3}
TwoWorkers == {w1, w2}

\* Events and workers are interchangeable; only used where no liveness is checked.
Symmetry == Permutations(Events3) \cup Permutations(TwoWorkers)

=============================================================================
