---------------------------- MODULE MCMembership ----------------------------
(* Membership on one or two workspaces, two users and one token. *)
EXTENDS Membership, TLC

CONSTANTS w1, w2, u1, u2, t1, s1, s2

Symmetry == Permutations(Users) \cup Permutations(Tokens) \cup Permutations(Workspaces)
            \cup Permutations(Slots)
=============================================================================
