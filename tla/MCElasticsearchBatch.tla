----------------------- MODULE MCElasticsearchBatch -----------------------
(* An instance of ElasticsearchBatch for TLC: two events fit in a batch, the *)
(* third does not, for it is larger than a batch.                          *)
EXTENDS ElasticsearchBatch

Sizes == [e \in Events |-> IF e = 3 THEN 5 ELSE 2]

=============================================================================
