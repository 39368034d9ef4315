------------------------- MODULE MCCounterReplicas -------------------------
(* Model-checking instance of CounterReplicas: replicas with node ids 0   *)
(* and 1, both counting into a two-slot counter.                          *)
EXTENDS CounterReplicas

MCReplicas == {0, 1}

\* Adds of -2 next to increment (+1) and decrement (-1): both halves move.
MCDeltas == {-2}

\* The largest i64 delta at 3 bits (2^63 - 1 scaled down): three adds of
\* it overflow a u64 entry.
MCWrapDeltas == {3}

=============================================================================
