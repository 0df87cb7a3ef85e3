------------------------------ MODULE SyncRows ------------------------------
(***************************************************************************)
(* The row store of the sync server: the tables collections, environments  *)
(* and folders of sync-server/src/db.ts, and what pushChanges              *)
(* (sync-server/src/sync-engine.ts) does with ONE change of a push.        *)
(*                                                                         *)
(* A row keeps the columns the conflict rules read.  The JSON document is  *)
(* abstracted to `parent', its collectionId: the only field of the         *)
(* document the server looks into (the `name' column is never read back).  *)
(* The tables have separate key spaces, hence the disjoint sets of ids.    *)
(***************************************************************************)
EXTENDS Integers

CONSTANTS
    Workspaces,     \* workspace ids
    Users,          \* user ids
    Collections,    \* ids in table collections
    Environments,   \* ids in table environments
    Folders,        \* ids in table folders
    Times,          \* client timestamps (updatedAt)
    None            \* no row, no collectionId, no baseVersion

Entities == Collections \cup Environments \cup Folders

(* scope is the column workspace_id, or collection_id for a folder *)
Row == [scope : Workspaces \cup Collections,
        parent : Collections \cup {None},
        version : Nat,
        at : Times,
        deleted : BOOLEAN,
        by : Users,
        createdBy : Users]

Tables == [Entities -> Row \cup {None}]

(* one element of the `changes' array of POST /api/sync/push *)
Change == [id : Entities,
           parent : Collections \cup {None},
           at : Times,
           deleted : BOOLEAN,
           base : Nat \cup {None}]

ASSUME SyncRowsAssumption ==
    /\ Times \subseteq Nat
    /\ Collections \cap Environments = {}
    /\ Collections \cap Folders = {}
    /\ Environments \cap Folders = {}
    /\ Workspaces \cap Collections = {}
    /\ None \notin Row \cup Collections \cup Workspaces \cup Nat

-----------------------------------------------------------------------------
(* mutant: any existing collection will do, whatever its workspace *)
BelongsAnyWorkspace(rows, c, w) == c \in Collections /\ rows[c] # None

(* SELECT 1 FROM collections WHERE id = c AND workspace_id = w.  A          *)
(* tombstone still belongs to its workspace.                                *)
Belongs(rows, c, w) ==
    c \in Collections /\ rows[c] # None /\ rows[c].scope = w

(* the entity already lives in another workspace than w *)
Foreign(rows, id, w) ==
    IF id \in Folders THEN ~ Belongs(rows, rows[id].scope, w)
                      ELSE rows[id].scope # w

(* mutant: the timestamp rule is forgotten, the last push to arrive wins *)
RejectedAnyTime(rows, w, c) ==
    \/ c.id \in Folders /\ ~ Belongs(rows, c.parent, w)
    \/ /\ rows[c.id] # None
       /\ \/ Foreign(rows, c.id, w)
          \/ c.base # None /\ c.base # rows[c.id].version

(* a conflict is reported for change c instead of writing it *)
Rejected(rows, w, c) ==
    \/ c.id \in Folders /\ ~ Belongs(rows, c.parent, w)
    \/ /\ rows[c.id] # None
       /\ \/ Foreign(rows, c.id, w)
          \/ c.base # None /\ c.base # rows[c.id].version
          \/ rows[c.id].at > c.at

(* INSERT ... ON CONFLICT(id) DO UPDATE: an update keeps the scope column   *)
(* and created_by of the row it finds.                                      *)
Written(rows, w, u, c) ==
    LET old == rows[c.id]
        new == old = None
    IN  [scope     |-> IF ~ new THEN old.scope
                       ELSE IF c.id \in Folders THEN c.parent ELSE w,
         parent    |-> c.parent,
         version   |-> IF new THEN 1 ELSE old.version + 1,
         at        |-> c.at,
         deleted   |-> c.deleted,
         by        |-> u,
         createdBy |-> IF new THEN u ELSE old.createdBy]

ApplyChange(rows, w, u, c) ==
    IF Rejected(rows, w, c) THEN rows
    ELSE [rows EXCEPT ![c.id] = Written(rows, w, u, c)]

(* the workspace an existing row is reached through *)
Home(rows, id) ==
    IF id \in Folders THEN rows[rows[id].scope].scope ELSE rows[id].scope

(* the rows a query on workspace w ranges over *)
RowsOf(rows, w) ==
    {id \in Entities : rows[id] # None /\ ~ Foreign(rows, id, w)}
=============================================================================
