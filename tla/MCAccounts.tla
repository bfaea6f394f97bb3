------------------------------ MODULE MCAccounts ------------------------------
(* Accounts with one address, a few codes and two requests at once. *)
EXTENDS Accounts, TLC

\* Codes and requests are alike.
AccountSymmetry == Permutations(CodeIds) \cup Permutations(Calls)
=============================================================================
