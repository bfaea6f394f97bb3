------------------------------ MODULE MCPayment ------------------------------
(* Payment with one booking and a few gateway orders. *)
EXTENDS Payment
=============================================================================
