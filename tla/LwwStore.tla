------------------------------ MODULE LwwStore ------------------------------
(***************************************************************************)
(* What the sync server promises about its rows, with no transaction, no   *)
(* request and no role in sight: a store of last-writer-wins registers,    *)
(* partitioned into workspaces.                                            *)
(*                                                                         *)
(*   - one atomic step touches the rows of one workspace only;             *)
(*   - a row that exists keeps its scope and its creator, and is replaced  *)
(*     only by a write that is not older, under a higher version;          *)
(*   - a folder row is always reached through an existing collection, and  *)
(*     its document names a collection of that same workspace;             *)
(*   - rows disappear only together with their whole workspace.            *)
(***************************************************************************)
EXTENDS SyncRows

VARIABLE rows

(* Folder rows hang off collections of one and the same workspace. *)
FoldersAnchored(r) ==
    \A f \in Folders : r[f] # None =>
        /\ r[f].scope \in Collections /\ r[r[f].scope] # None
        /\ r[f].parent \in Collections /\ r[r[f].parent] # None
        /\ r[r[f].parent].scope = r[r[f].scope].scope

Supersedes(new, old) ==
    /\ new.scope = old.scope
    /\ new.createdBy = old.createdBy
    /\ new.at >= old.at
    /\ new.version > old.version

Write(w) ==
    /\ rows' \in Tables
    /\ FoldersAnchored(rows')
    /\ \A id \in Entities : rows'[id] # rows[id] =>
          /\ rows'[id] # None
          /\ Home(rows', id) = w
          /\ rows[id] # None => Supersedes(rows'[id], rows[id])

Drop(w) ==
    rows' = [id \in Entities |-> IF id \in RowsOf(rows, w) THEN None ELSE rows[id]]

Init == rows = [id \in Entities |-> None]
Next == \E w \in Workspaces : Write(w) \/ Drop(w)
Spec == Init /\ [][Next]_rows
=============================================================================
