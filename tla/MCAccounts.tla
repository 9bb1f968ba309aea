----------------------------- MODULE MCAccounts -----------------------------
(* A small instance of Accounts.  Its requests and its accounts are alike. *)
EXTENDS Accounts, TLC

Symmetry == Permutations(Requests) \cup Permutations(Users)
=============================================================================
