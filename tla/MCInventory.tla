----------------------------- MODULE MCInventory -----------------------------
(* Inventory on small sets of seats, users and bookings. *)
EXTENDS Inventory, TLC

\* Seats, users and bookings are told apart only by equality.
Symmetry == Permutations(Seats) \cup Permutations(Users) \cup Permutations(Bookings)
=============================================================================
