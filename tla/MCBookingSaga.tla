---------------------------- MODULE MCBookingSaga ----------------------------
(* BookingSaga with one or two bookings of the same seats. *)
EXTENDS BookingSaga, TLC

\* Bookings are told apart only by equality.
Symmetry == Permutations(Bookings)
=============================================================================
