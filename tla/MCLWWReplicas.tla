--------------------------- MODULE MCLWWReplicas ---------------------------
(* Model-checking instance of LWWReplicas: two replicas (node ids 1 and 2) *)
(* writing two values at two timestamps.                                  *)
EXTENDS LWWReplicas

MCReplicas == {1, 2}

=============================================================================
