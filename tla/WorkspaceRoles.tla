--------------------------- MODULE WorkspaceRoles ---------------------------
(***************************************************************************)
(* Who may do what in a shared workspace: the column owner_id of table     *)
(* workspaces and the roles of table memberships (sync-server/src/db.ts),  *)
(* with the steps they can take.  Requests and invitations, which decide   *)
(* WHEN these steps are taken, are in module Membership, which implements  *)
(* this one; SyncServer builds the push path on it.                        *)
(***************************************************************************)
CONSTANTS
    Workspaces,     \* workspace ids
    Users,          \* user ids
    None            \* no workspace, not a member

VARIABLES
    owner,          \* workspaces.owner_id, None when there is no such workspace
    role            \* memberships.role, None when not a member

Roles == {"owner", "editor", "viewer"}
Granted == {"editor", "viewer"}

RolesTypeOK ==
    /\ owner \in [Workspaces -> Users \cup {None}]
    /\ role \in [Workspaces -> [Users -> Roles \cup {None}]]

Create(w, u) ==
    /\ owner[w] = None
    /\ owner' = [owner EXCEPT ![w] = u]
    /\ role' = [role EXCEPT ![w][u] = "owner"]

(* INSERT OR IGNORE INTO memberships, when an invitation is consumed *)
Join(w, u, r) ==
    /\ owner[w] # None
    /\ role[w][u] = None
    /\ role' = [role EXCEPT ![w][u] = r]
    /\ UNCHANGED owner

(* the owner removes another member *)
Remove(w, u) ==
    /\ owner[w] \notin {None, u}
    /\ role[w][u] # None
    /\ role' = [role EXCEPT ![w][u] = None]
    /\ UNCHANGED owner

(* Someone else who owned the workspace when the request came in changes    *)
(* the role of u.  That u may have become the owner since is not checked.   *)
SetRole(w, u, r) ==
    /\ Users # {u}
    /\ role[w][u] \notin {None, r}
    /\ role' = [role EXCEPT ![w][u] = r]
    /\ UNCHANGED owner

(* mutant: the former owner is not demoted *)
TransferKeepsOld(w, o, u) ==
    /\ owner[w] = o
    /\ o # u
    /\ role[w][u] # None
    /\ owner' = [owner EXCEPT ![w] = u]
    /\ role' = [role EXCEPT ![w][u] = "owner"]

(* the owner and both roles change in one transaction *)
Transfer(w, o, u) ==
    /\ owner[w] = o
    /\ o # u
    /\ role[w][u] # None
    /\ owner' = [owner EXCEPT ![w] = u]
    /\ role' = [role EXCEPT ![w][u] = "owner", ![w][o] = "editor"]

Delete(w, u) ==
    /\ owner[w] = u
    /\ owner' = [owner EXCEPT ![w] = None]
    /\ role' = [role EXCEPT ![w] = [m \in Users |-> None]]

(* the steps that leave the set of workspaces alone *)
Change ==
    \E w \in Workspaces, u \in Users :
        \/ \E r \in Granted : Join(w, u, r) \/ SetRole(w, u, r)
        \/ Remove(w, u)
        \/ \E o \in Users : Transfer(w, o, u)

Init ==
    /\ owner = [w \in Workspaces |-> None]
    /\ role = [w \in Workspaces |-> [u \in Users |-> None]]

Next ==
    \/ Change
    \/ \E w \in Workspaces, u \in Users : Create(w, u) \/ Delete(w, u)

Spec == Init /\ [][Next]_<<owner, role>>
=============================================================================
