------------------------------ MODULE MCGateway ------------------------------
(* Gateway with two requests at once, from one address of one user. *)
EXTENDS Gateway
=============================================================================
