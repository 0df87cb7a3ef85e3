----------------------------- MODULE SyncServer -----------------------------
(***************************************************************************)
(* pushChanges of sync-server/src/sync-engine.ts: the single write path of *)
(* the collaborative workspaces.  A push is ONE SQLite transaction over    *)
(* the array of changes, taken in order, followed outside of it by a       *)
(* best-effort activity log.  The transaction is modelled change by        *)
(* change: `tx' holds the draft the connection sees, `rows' what is        *)
(* committed.  better-sqlite3 is synchronous and the process has a single  *)
(* thread, so no other handler runs while tx # None; the process may die   *)
(* at any point of it.                                                     *)
(***************************************************************************)
EXTENDS SyncRows, Sequences

CONSTANTS
    Batches,        \* the arrays of changes a client may send
    MaxVersion      \* bound: no push that could take a row past this version

VARIABLES
    owner, role,    \* owners and members of the workspaces: WorkspaceRoles
    rows,           \* committed rows of the three tables
    tx,             \* the push being handled, or None
    activity        \* table activity_log, resource.* entries

vars == <<owner, role, rows, tx, activity>>

Access == INSTANCE WorkspaceRoles

Writers == {"owner", "editor"}

Entry == [ws : Workspaces, action : {"created", "deleted"},
          id : Entities, actor : Users]

(* todo: changes not yet looked at; log: logEntries, with their actor;      *)
(* open: the transaction has not committed                                  *)
Push == [ws : Workspaces, user : Users, todo : Seq(Change),
         draft : Tables, log : SUBSET Entry, open : BOOLEAN]

ASSUME SyncServerAssumption ==
    /\ Batches \subseteq Seq(Change)
    /\ MaxVersion \in Nat
    /\ None \notin Push \cup Access!Roles \cup Users

TypeOK ==
    /\ Access!RolesTypeOK
    /\ rows \in Tables
    /\ tx \in Push \cup {None}
    /\ activity \in SUBSET Entry

Init ==
    /\ \E creator \in [Workspaces -> Users] :
          /\ owner = creator
          /\ role = [w \in Workspaces |->
                       [u \in Users |-> IF u = creator[w] THEN "owner" ELSE None]]
    /\ rows = [id \in Entities |-> None]
    /\ tx = None
    /\ activity = {}

-----------------------------------------------------------------------------
(* mutant: any member may push *)
CanWriteMember(w, u) == role[w][u] # None

CanWrite(w, u) == role[w][u] \in Writers

(* bound on the version column, for the model checker *)
Bounded(batch) ==
    \A id \in Entities : rows[id] # None =>
        rows[id].version + Len(batch) =< MaxVersion

BeginPush(u, w, batch) ==
    /\ tx = None
    /\ CanWrite(w, u)
    /\ Bounded(batch)
    /\ tx' = [ws |-> w, user |-> u, todo |-> batch,
              draft |-> rows, log |-> {}, open |-> TRUE]
    /\ UNCHANGED <<owner, role, rows, activity>>

(* mutant: the log entry is made before the conflict checks *)
LogAll(c) ==
    {[ws |-> tx.ws, action |-> IF c.deleted THEN "deleted" ELSE "created",
      id |-> c.id, actor |-> tx.user]}

(* resource.created for a new row, deleted or not; resource.deleted for a   *)
(* tombstone written over an existing row                                   *)
LogOf(c) ==
    LET entry(action) == [ws |-> tx.ws, action |-> action,
                          id |-> c.id, actor |-> tx.user]
    IN  IF Rejected(tx.draft, tx.ws, c) THEN {}
        ELSE IF tx.draft[c.id] = None THEN {entry("created")}
        ELSE IF c.deleted THEN {entry("deleted")} ELSE {}

(* one iteration of the loop over the changes *)
ApplyNext ==
    /\ tx # None
    /\ tx.open
    /\ tx.todo # <<>>
    /\ tx' = [tx EXCEPT
                !.todo  = Tail(tx.todo),
                !.draft = ApplyChange(tx.draft, tx.ws, tx.user, Head(tx.todo)),
                !.log   = tx.log \cup LogOf(Head(tx.todo))]
    /\ UNCHANGED <<owner, role, rows, activity>>

CommitPush ==
    /\ tx # None
    /\ tx.open
    /\ tx.todo = <<>>
    /\ rows' = tx.draft
    /\ tx' = [tx EXCEPT !.open = FALSE]
    /\ UNCHANGED <<owner, role, activity>>

(* each insert of the activity log may fail, and the failure is swallowed *)
FinishPush ==
    /\ tx # None
    /\ ~ tx.open
    /\ \E logged \in SUBSET tx.log : activity' = activity \cup logged
    /\ tx' = None
    /\ UNCHANGED <<owner, role, rows>>

(* the process dies: SQLite rolls an open transaction back, and what        *)
(* follows a committed one is lost                                          *)
Crash ==
    /\ tx # None
    /\ tx' = None
    /\ UNCHANGED <<owner, role, rows, activity>>

(* DELETE /api/workspaces/:id, one transaction over every table *)
DeleteWorkspace(u, w) ==
    /\ tx = None
    /\ Access!Delete(w, u)
    /\ rows' = [id \in Entities |->
                   IF id \in RowsOf(rows, w) THEN None ELSE rows[id]]
    /\ activity' = {e \in activity : e.ws # w}
    /\ UNCHANGED tx

(* members join, leave, change roles or take the workspace over *)
RolesChange ==
    /\ tx = None
    /\ Access!Change
    /\ UNCHANGED <<rows, tx, activity>>

Next ==
    \/ \E u \in Users, w \in Workspaces, batch \in Batches : BeginPush(u, w, batch)
    \/ ApplyNext
    \/ CommitPush
    \/ FinishPush
    \/ Crash
    \/ \E u \in Users, w \in Workspaces : DeleteWorkspace(u, w)
    \/ RolesChange

Spec == Init /\ [][Next]_vars
-----------------------------------------------------------------------------
Store == INSTANCE LwwStore

(* The push path implements the last-writer-wins store: whatever is pushed  *)
(* by whom, in whatever order, with crashes and workspace deletions in      *)
(* between, a committed step writes one workspace and never goes back.      *)
ImplementsLwwStore == Store!Spec

(* Tenant isolation of folders (sync-engine.ts, first and second check of   *)
(* the loop): whatever pushes create, move and delete, a folder row hangs   *)
(* off an existing collection, and its document names a collection of the   *)
(* same workspace.  Also inside the transaction, where a later change of    *)
(* the batch is checked against the draft of an earlier one.                *)
FolderScope ==
    /\ Store!FoldersAnchored(rows)
    /\ tx # None => Store!FoldersAnchored(tx.draft)

(* The activity log never claims something that did not happen.  An entry   *)
(* is made with the very write it is about: of that row, by that user, in   *)
(* that workspace, "created" when there was no row and "deleted" when it    *)
(* became a tombstone.  It is published once that write is committed, so    *)
(* not when the change was refused or the push rolled back.  And it stays   *)
(* true: until the workspace is deleted, which takes the entry along, the   *)
(* row is there, and keeps its creator.                                     *)
Happened(e, before, after) ==
    /\ after[e.id] \notin {None, before[e.id]}
    /\ after[e.id].by = e.actor
    /\ Home(after, e.id) = e.ws
    /\ e.action = "created" <=> before[e.id] = None
    /\ e.action = "deleted" => after[e.id].deleted

LoggedAsWritten ==
    [][/\ tx' # None =>
             IF tx = None THEN tx'.log = {}
             ELSE \A e \in tx'.log \ tx.log : Happened(e, tx.draft, tx'.draft)
       /\ \A e \in activity' \ activity :
             tx # None /\ e \in tx.log /\ tx.draft = rows]_<<tx, activity>>

Truthful(r, e) ==
    /\ r[e.id] # None
    /\ Home(r, e.id) = e.ws
    /\ e.action = "created" => r[e.id].createdBy = e.actor

EntriesTruthful == \A e \in activity : Truthful(rows, e)

ActivityTruthful == LoggedAsWritten /\ []EntriesTruthful

(* Write access (canWrite): whoever a committed row is attributed to may    *)
(* write in that row's workspace at the moment of the commit, whatever      *)
(* happened to the roles since the rows were last written.                  *)
WritesAuthorised ==
    [][\A id \in Entities : rows'[id] # rows[id] /\ rows'[id] # None =>
          role[Home(rows', id)][rows'[id].by] \in Writers]_rows
=============================================================================
