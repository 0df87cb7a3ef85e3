--------------------------- MODULE MCSyncSockets ---------------------------
(* SyncSockets: the tab of a user with a workspace of his own, w2, who is     *)
(* invited to another, w1.                                                    *)
EXTENDS SyncSockets

CONSTANTS w1, w2, u1, u2, t1, c1, c2

AllOf == [t \in Tabs |-> u1]

Creators == [w \in Workspaces |-> IF w = w1 THEN u2 ELSE u1]
=============================================================================
