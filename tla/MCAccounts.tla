---------------------------- MODULE MCAccounts ----------------------------
(* Accounts for one address, with two handlers that wait for their key. *)
EXTENDS Accounts, TLC

CONSTANTS a, h, p, q, s1, s2

Symmetry == Permutations(Passwords) \cup Permutations(Slots)
=============================================================================
