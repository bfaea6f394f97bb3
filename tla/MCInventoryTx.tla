---------------------------- MODULE MCInventoryTx ----------------------------
(* InventoryTx with a few requests in flight. *)
EXTENDS InventoryTx, TLC

\* Workers, seats, users and bookings are told apart only by equality.
Symmetry == Permutations(Workers) \cup Permutations(Seats)
              \cup Permutations(Users) \cup Permutations(Bookings)
=============================================================================
