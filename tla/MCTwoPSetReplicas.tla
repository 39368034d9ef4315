------------------------- MODULE MCTwoPSetReplicas -------------------------
(* Model-checking instance of TwoPSetReplicas: two replicas over two      *)
(* payloads.                                                              *)
EXTENDS TwoPSetReplicas

MCReplicas == {1, 2}

=============================================================================
