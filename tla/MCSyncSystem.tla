---------------------------- MODULE MCSyncSystem ----------------------------
(* SyncSystem on one or two clients, one or two workspaces. *)
EXTENDS SyncSystem, TLC

CONSTANTS a, b, w1, w2, x, y

InStep == [c \in Clients |-> 0]
AllAhead == [c \in Clients |-> 1]

Symmetry == Permutations(Clients) \cup Permutations(Workspaces)
            \cup Permutations(Ids \ Defaults)
=============================================================================
