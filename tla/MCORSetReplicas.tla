-------------------------- MODULE MCORSetReplicas --------------------------
(* Model-checking instance of ORSetReplicas: two replicas (node ids 1 and *)
(* 2) over two payloads.                                                  *)
EXTENDS ORSetReplicas

MCReplicas == {1, 2}

=============================================================================
