----------------------------- MODULE Membership -----------------------------
(***************************************************************************)
(* Workspaces, members and invitations of the sync server                  *)
(* (sync-server/src/routes/workspaces.ts and memberships.ts).              *)
(*                                                                         *)
(* The server is one thread: what a handler does without awaiting is one   *)
(* step.  Three handlers check who is asking and THEN await the body of    *)
(* the request: rename (not modelled, it only writes the name), invitation *)
(* and role change.  The last two are split at that point: `requests'      *)
(* holds what has been checked and waits for its body.                     *)
(***************************************************************************)
EXTENDS Naturals

CONSTANTS
    Workspaces,     \* workspace ids, UUIDs that are never drawn twice
    Users,          \* user ids
    Tokens,         \* invitation tokens, UUIDs too
    Slots,          \* bound: requests that wait for their body at one time
    MaxInvites,     \* INVITE_MAX_PER_HOUR
    None            \* no workspace, no member, no invitation, no request

VARIABLES
    owner, role,    \* owners and members of the workspaces: WorkspaceRoles
    invite,         \* table invitations
    requests,       \* requests[s]: checked, waiting for the body
    stamps,         \* inviteTimestamps[u]: invitations of the last hour
    fresh           \* the workspace ids and tokens nobody has drawn yet

vars == <<owner, role, invite, requests, stamps, fresh>>

Access == INSTANCE WorkspaceRoles
Granted == Access!Granted

(* age: usable, past expires_at, or more than 30 days past it *)
Invite == [ws : Workspaces, role : Granted, by : Users, used : BOOLEAN,
           age : {"valid", "expired", "old"}]

Invitation == [kind : {"invite"}, by : Users, ws : Workspaces, role : Granted]
RoleChange ==
    {q \in [kind : {"role"}, by : Users, ws : Workspaces, role : Granted,
            member : Users] : q.member # q.by}

ASSUME MembershipAssumption ==
    /\ MaxInvites \in Nat
    /\ Workspaces \cap Tokens = {}
    /\ None \notin Users \cup Access!Roles \cup Invite \cup Invitation \cup RoleChange

TypeOK ==
    /\ Access!RolesTypeOK
    /\ invite \in [Tokens -> Invite \cup {None}]
    /\ requests \in [Slots -> Invitation \cup RoleChange \cup {None}]
    /\ stamps \in [Users -> 0..MaxInvites]
    /\ fresh \in SUBSET (Workspaces \cup Tokens)

Init ==
    /\ Access!Init
    /\ invite = [t \in Tokens |-> None]
    /\ requests = [s \in Slots |-> None]
    /\ stamps = [u \in Users |-> 0]
    /\ fresh = Workspaces \cup Tokens

-----------------------------------------------------------------------------
(* Workspaces *)

CreateWorkspace(w, u) ==
    /\ w \in fresh
    /\ fresh' = fresh \ {w}
    /\ Access!Create(w, u)
    /\ UNCHANGED <<invite, requests, stamps>>

(* one transaction over every table that refers to the workspace *)
DeleteWorkspace(w, u) ==
    /\ Access!Delete(w, u)
    /\ invite' = [t \in Tokens |->
                     IF invite[t] # None /\ invite[t].ws = w THEN None ELSE invite[t]]
    /\ UNCHANGED <<requests, stamps, fresh>>

(* the body is awaited before anything is checked *)
Transfer(w, o, u) ==
    /\ Access!Transfer(w, o, u)
    /\ UNCHANGED <<invite, requests, stamps, fresh>>

RemoveMember(w, u) ==
    /\ Access!Remove(w, u)
    /\ UNCHANGED <<invite, requests, stamps, fresh>>

-----------------------------------------------------------------------------
(* Requests that are checked first and await their body then *)

Await(s, request) ==
    /\ requests[s] = None
    /\ requests' = [requests EXCEPT ![s] = request]

Finish(s) == requests' = [requests EXCEPT ![s] = None]

(* POST /:id/invitations up to the body: the attempt counts at once *)
BeginInvite(s, w, u, r) ==
    /\ role[w][u] = "owner"
    /\ stamps[u] < MaxInvites
    /\ stamps' = [stamps EXCEPT ![u] = @ + 1]
    /\ Await(s, [kind |-> "invite", by |-> u, ws |-> w, role |-> r])
    /\ UNCHANGED <<owner, role, invite, fresh>>

(* mutant: the foreign key of invitations is not enforced *)
EndInviteUnchecked(s, t) ==
    /\ requests[s] # None
    /\ requests[s].kind = "invite"
    /\ Finish(s)
    /\ t \in fresh
    /\ fresh' = fresh \ {t}
    /\ invite' = [invite EXCEPT ![t] =
          [ws |-> requests[s].ws, role |-> requests[s].role,
           by |-> requests[s].by, used |-> FALSE, age |-> "valid"]]
    /\ UNCHANGED <<owner, role, stamps>>

(* The INSERT fails on its foreign key when the workspace is gone by now    *)
(* (foreign_keys = ON): the answer is a 500 and nothing is written.         *)
EndInvite(s, t) ==
    /\ requests[s] # None
    /\ requests[s].kind = "invite"
    /\ owner[requests[s].ws] # None
    /\ Finish(s)
    /\ t \in fresh
    /\ fresh' = fresh \ {t}
    /\ invite' = [invite EXCEPT ![t] =
          [ws |-> requests[s].ws, role |-> requests[s].role,
           by |-> requests[s].by, used |-> FALSE, age |-> "valid"]]
    /\ UNCHANGED <<owner, role, stamps>>

(* PATCH /:id/members/:memberId up to the body *)
BeginRoleChange(s, w, u, m, r) ==
    /\ owner[w] = u
    /\ m # u
    /\ Await(s, [kind |-> "role", by |-> u, ws |-> w, role |-> r, member |-> m])
    /\ UNCHANGED <<owner, role, invite, stamps, fresh>>

(* mutant: the membership row is inserted when it is not there *)
EndRoleChangeUpserts(s) ==
    /\ requests[s] # None
    /\ requests[s].kind = "role"
    /\ Finish(s)
    /\ role' = [role EXCEPT ![requests[s].ws][requests[s].member] = requests[s].role]
    /\ UNCHANGED <<owner, invite, stamps, fresh>>

(* UPDATE memberships: no row, no change *)
EndRoleChange(s) ==
    /\ requests[s] # None
    /\ requests[s].kind = "role"
    /\ Finish(s)
    /\ LET w == requests[s].ws
           m == requests[s].member
       IN  role' = IF role[w][m] = None THEN role
                   ELSE [role EXCEPT ![w][m] = requests[s].role]
    /\ UNCHANGED <<owner, invite, stamps, fresh>>

(* the body never comes or does not fit the schema, or the insert of an     *)
(* invitation fails                                                         *)
Abort(s) ==
    /\ requests[s] # None
    /\ Finish(s)
    /\ UNCHANGED <<owner, role, invite, stamps, fresh>>

-----------------------------------------------------------------------------
(* Invitations *)

(* mutant: the conditional UPDATE is forgotten *)
JoinKeepsToken(t, u) ==
    /\ invite[t] # None
    /\ invite[t].age = "valid"
    /\ ~ invite[t].used
    /\ LET w == invite[t].ws
       IN  role' = IF role[w][u] = None
                   THEN [role EXCEPT ![w][u] = invite[t].role] ELSE role
    /\ UNCHANGED <<owner, invite, requests, stamps, fresh>>

(* mutant: INSERT OR REPLACE *)
JoinReplaces(t, u) ==
    /\ invite[t] # None
    /\ invite[t].age = "valid"
    /\ ~ invite[t].used
    /\ invite' = [invite EXCEPT ![t].used = TRUE]
    /\ role' = [role EXCEPT ![invite[t].ws][u] = invite[t].role]
    /\ UNCHANGED <<owner, requests, stamps, fresh>>

(* POST /api/memberships, one transaction; a member who consumes a token    *)
(* keeps his role (INSERT OR IGNORE)                                        *)
Join(t, u) ==
    /\ invite[t] # None
    /\ invite[t].age = "valid"
    /\ ~ invite[t].used
    /\ invite' = [invite EXCEPT ![t].used = TRUE]
    /\ LET w == invite[t].ws
       IN  role' = IF role[w][u] = None
                   THEN [role EXCEPT ![w][u] = invite[t].role] ELSE role
    /\ UNCHANGED <<owner, requests, stamps, fresh>>

Age(t) ==
    /\ invite[t] # None
    /\ invite[t].age # "old"
    /\ invite' = [invite EXCEPT ![t].age = IF @ = "valid" THEN "expired" ELSE "old"]
    /\ UNCHANGED <<owner, role, requests, stamps, fresh>>

(* an hour after it was made, an invitation no longer counts *)
Forget(u) ==
    /\ stamps[u] > 0
    /\ stamps' = [stamps EXCEPT ![u] = @ - 1]
    /\ UNCHANGED <<owner, role, invite, requests, fresh>>

(* The server restarts: requests and time stamps are in memory; db.ts       *)
(* deletes the invitations that are used OR old when it is loaded.          *)
Restart ==
    /\ invite' = [t \in Tokens |->
                     IF invite[t] # None /\ (invite[t].used \/ invite[t].age = "old")
                     THEN None ELSE invite[t]]
    /\ requests' = [s \in Slots |-> None]
    /\ stamps' = [u \in Users |-> 0]
    /\ UNCHANGED <<owner, role, fresh>>

-----------------------------------------------------------------------------
Next ==
    \/ \E w \in Workspaces, u \in Users :
          \/ CreateWorkspace(w, u)
          \/ DeleteWorkspace(w, u)
          \/ RemoveMember(w, u)
          \/ \E o \in Users : Transfer(w, o, u)
          \/ \E s \in Slots, r \in Granted :
                \/ BeginInvite(s, w, u, r)
                \/ \E m \in Users : BeginRoleChange(s, w, u, m, r)
    \/ \E s \in Slots :
          \/ \E t \in Tokens : EndInvite(s, t)
          \/ EndRoleChange(s)
          \/ Abort(s)
    \/ \E t \in Tokens : Age(t) \/ \E u \in Users : Join(t, u)
    \/ \E u \in Users : Forget(u)
    \/ Restart

Spec == Init /\ [][Next]_vars
-----------------------------------------------------------------------------
(* Properties *)

(* Whatever requests and invitations do, the roles change only in the ways  *)
(* the rest of the server builds on.                                        *)
ImplementsWorkspaceRoles == Access!Spec

(* owner_id and the role "owner" are two records of one fact, written by    *)
(* different handlers: the owner is a member, and nobody else has the role. *)
(* (A role change that overtakes a transfer can demote the new owner, so    *)
(* that the owner HAS the role is not part of it.)                          *)
OwnershipSound ==
    \A w \in Workspaces :
        /\ owner[w] # None => role[w][owner[w]] # None
        /\ \A u \in Users : role[w][u] = "owner" => owner[w] = u

(* workspaces.ts, DELETE /:id: deleting a workspace leaves no orphaned      *)
(* rows, and no request that was under way brings one back.                 *)
NothingOrphaned ==
    \A w \in Workspaces : owner[w] = None =>
        /\ \A u \in Users : role[w][u] = None
        /\ \A t \in Tokens : invite[t] # None => invite[t].ws # w

Usable(i, w, r) ==
    i # None /\ i.ws = w /\ i.role = r /\ i.age = "valid" /\ ~ i.used

(* memberships.ts: "invitation tokens are SINGLE-USE".  Whoever becomes a   *)
(* member, other than by creating the workspace, spends an invitation to    *)
(* it, for that role, that nobody had spent before and nobody can again.    *)
MembersAreInvited ==
    [][\A w \in Workspaces, u \in Users :
          role[w][u] = None /\ role'[w][u] # None =>
              \/ owner[w] = None /\ owner'[w] = u
              \/ \E t \in Tokens :
                    /\ Usable(invite[t], w, role'[w][u])
                    /\ invite'[t] # None /\ invite'[t].used]_role

(* memberships.ts, INSERT OR IGNORE: an invitation admits, it neither       *)
(* promotes nor demotes someone who is a member, the owner least of all.    *)
InvitationsOnlyAdmit ==
    [][\A t \in Tokens :
          invite[t] # None /\ ~ invite[t].used /\ invite'[t] # None /\ invite'[t].used =>
              \A w \in Workspaces, u \in Users :
                  role[w][u] # None => role'[w][u] = role[w][u]]_<<invite, role>>
=============================================================================
