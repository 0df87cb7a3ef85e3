---------------------------- MODULE MCSyncServer ----------------------------
(* SyncServer on two workspaces and users, two collections and one folder.  *)
(* Batches: single changes (c1 in every form, a folder put into c2), and the *)
(* pairs that write the same row twice or a folder right after the          *)
(* collection c1 it is put into.                                            *)
EXTENDS SyncServer, TLC

CONSTANTS w1, w2, u1, u2, c1, c2, e1, f1

MCChanges ==
    {c \in [id : Entities, parent : Collections \cup {None}, at : Times,
            deleted : BOOLEAN, base : {None, 1}] :
        /\ c.id \in Folders <=> c.parent # None
        /\ c.id # c1 => c.at = 1
        /\ c.deleted \/ c.base # None <=> c.at = 2
        /\ c.deleted => c.base = None}

MCBatches ==
    {<<c>> : c \in {x \in MCChanges : x.parent # c1}} \cup
    {<<c, d>> \in {x \in MCChanges : x.id = c1 /\ x.at = 1}
               \X {x \in MCChanges : ~ x.deleted} :
        (d.id = c.id /\ d.at = 2) \/ d.parent = c.id}

Symmetry == Permutations(Workspaces) \cup Permutations(Users)
=============================================================================
