----------------------------- MODULE MCLockExpiry -----------------------------
(* LockExpiry on one seat, with a clock that stops. *)
EXTENDS LockExpiry
=============================================================================
