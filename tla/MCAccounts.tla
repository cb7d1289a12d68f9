---------------------------- MODULE MCAccounts ----------------------------
(***************************************************************************)
(* Accounts with two clients and a few addresses of one host.              *)
(***************************************************************************)
EXTENDS Accounts, TLC

CONSTANTS a1, a2, m1, m2, o1, p1, p2

Symmetry == Permutations(Actors) \cup Permutations(Passwords)

============================================================================
