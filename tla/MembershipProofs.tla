-------------------------- MODULE MembershipProofs --------------------------
(***************************************************************************)
(* What holds of module Membership for any number of workspaces, users,    *)
(* tokens and waiting requests.  The inductive invariant is the            *)
(* conjunction of TypeOK, OwnershipSound and NothingOrphaned: nothing has  *)
(* to be known about a waiting request except its type, because every      *)
(* handler that awaits its body ends in a statement that is harmless       *)
(* whatever happened in between (an UPDATE of an existing row, an INSERT   *)
(* under a foreign key).                                                   *)
(***************************************************************************)
EXTENDS Membership, TLAPS

IInv == TypeOK /\ OwnershipSound /\ NothingOrphaned

-----------------------------------------------------------------------------
(* Owners and roles, seen from WorkspaceRoles *)

LEMMA EndRoleChangeStep ==
    ASSUME TypeOK, NEW s \in Slots, EndRoleChange(s)
    PROVE  Access!Change \/ UNCHANGED <<owner, role>>
<1>. DEFINE q == requests[s]
<1>1. /\ q \in RoleChange
      /\ UNCHANGED owner
      /\ role' = IF role[q.ws][q.member] = None THEN role
                 ELSE [role EXCEPT ![q.ws][q.member] = q.role]
  BY DEF EndRoleChange, Invitation, TypeOK
<1>2. /\ q.ws \in Workspaces /\ q.member \in Users /\ q.role \in Granted
      /\ Users # {q.member}
  BY <1>1 DEF RoleChange
<1>. HIDE DEF q
<1>3. CASE role[q.ws][q.member] \in {None, q.role}
  BY <1>1, <1>2, <1>3 DEF TypeOK, Access!RolesTypeOK
<1>4. CASE role[q.ws][q.member] \notin {None, q.role}
  <2>1. Access!SetRole(q.ws, q.member, q.role)
    BY <1>1, <1>2, <1>4 DEF Access!SetRole
  <2>. QED BY <1>2, <2>1 DEF Access!Change, Granted
<1>. QED BY <1>3, <1>4

LEMMA JoinStep ==
    ASSUME TypeOK, NothingOrphaned, NEW t \in Tokens, NEW u \in Users, Join(t, u)
    PROVE  Access!Change \/ UNCHANGED <<owner, role>>
<1>. DEFINE w == invite[t].ws
            r == invite[t].role
<1>1. /\ invite[t] # None /\ w \in Workspaces /\ r \in Granted
      /\ UNCHANGED owner
      /\ role' = IF role[w][u] = None THEN [role EXCEPT ![w][u] = r] ELSE role
  BY DEF Join, TypeOK, Invite
<1>2. owner[w] # None
  BY <1>1 DEF NothingOrphaned
<1>. HIDE DEF w, r
<1>3. CASE role[w][u] = None
  <2>1. Access!Join(w, u, r)
    BY <1>1, <1>2, <1>3 DEF Access!Join
  <2>. QED BY <1>1, <2>1 DEF Access!Change, Granted
<1>4. CASE role[w][u] # None
  BY <1>1, <1>4
<1>. QED BY <1>3, <1>4

(* Every step of a handler is a step of WorkspaceRoles, or leaves owners    *)
(* and roles alone.                                                         *)
LEMMA RoleSteps ==
    ASSUME IInv, [Next]_vars
    PROVE  [Access!Next]_<<owner, role>>
<1>. USE DEF IInv
<1>1. ASSUME NEW w \in Workspaces, NEW u \in Users,
             \/ CreateWorkspace(w, u)
             \/ DeleteWorkspace(w, u)
             \/ RemoveMember(w, u)
             \/ \E o \in Users : Transfer(w, o, u)
      PROVE  Access!Next
  BY <1>1 DEF CreateWorkspace, DeleteWorkspace, RemoveMember, Transfer, Access!Next,
              Access!Change
<1>2. ASSUME NEW s \in Slots, EndRoleChange(s)
      PROVE  Access!Next \/ UNCHANGED <<owner, role>>
  BY <1>2, EndRoleChangeStep DEF Access!Next
<1>3. ASSUME NEW t \in Tokens, NEW u \in Users, Join(t, u)
      PROVE  Access!Next \/ UNCHANGED <<owner, role>>
  BY <1>3, JoinStep DEF Access!Next
<1>. QED BY <1>1, <1>2, <1>3 DEF Next, BeginInvite, BeginRoleChange, EndInvite, Abort,
                                 Age, Forget, Restart, vars

(* the part of the invariant that speaks of owners and roles only *)
RolesSound ==
    /\ Access!RolesTypeOK
    /\ OwnershipSound
    /\ \A w \in Workspaces : owner[w] = None => \A u \in Users : role[w][u] = None

LEMMA RolesSoundInv ==
    ASSUME RolesSound, [Access!Next]_<<owner, role>>
    PROVE  RolesSound'
<1>1. ASSUME NEW w \in Workspaces, NEW u \in Users, NEW r \in Access!Granted,
             Access!Join(w, u, r) \/ Access!SetRole(w, u, r)
      PROVE  RolesSound'
  <2>1. /\ r \in Access!Roles /\ r # "owner" /\ r # None
        /\ owner' = owner
        /\ role' = [role EXCEPT ![w][u] = r]
    BY <1>1, MembershipAssumption
       DEF Access!Join, Access!SetRole, Access!Granted, Access!Roles
  <2>2. owner[w] # None
    BY <1>1, MembershipAssumption
       DEF Access!Join, Access!SetRole, RolesSound, Access!Granted
  <2>3. Access!RolesTypeOK'
    BY <2>1 DEF RolesSound, Access!RolesTypeOK
  <2>4. OwnershipSound'
    BY <2>1, <2>2 DEF RolesSound, Access!RolesTypeOK, OwnershipSound
  <2>. QED BY <2>1, <2>2, <2>3, <2>4 DEF RolesSound, Access!RolesTypeOK
<1>2. ASSUME NEW w \in Workspaces, NEW u \in Users, Access!Remove(w, u)
      PROVE  RolesSound'
  BY <1>2, MembershipAssumption
     DEF Access!Remove, RolesSound, Access!RolesTypeOK, Access!Roles, OwnershipSound
<1>3. ASSUME NEW w \in Workspaces, NEW u \in Users, NEW o \in Users, Access!Transfer(w, o, u)
      PROVE  RolesSound'
  BY <1>3, MembershipAssumption
     DEF Access!Transfer, RolesSound, Access!RolesTypeOK, Access!Roles, OwnershipSound
<1>4. ASSUME NEW w \in Workspaces, NEW u \in Users, Access!Create(w, u)
      PROVE  RolesSound'
  BY <1>4, MembershipAssumption
     DEF Access!Create, RolesSound, Access!RolesTypeOK, Access!Roles, OwnershipSound
<1>5. ASSUME NEW w \in Workspaces, NEW u \in Users, Access!Delete(w, u)
      PROVE  RolesSound'
  BY <1>5, MembershipAssumption
     DEF Access!Delete, RolesSound, Access!RolesTypeOK, Access!Roles, OwnershipSound
<1>6. CASE UNCHANGED <<owner, role>>
  BY <1>6 DEF RolesSound, Access!RolesTypeOK, OwnershipSound
<1>7. CASE Access!Change
  BY <1>1, <1>2, <1>3, <1>7 DEF Access!Change
<1>. QED BY <1>4, <1>5, <1>6, <1>7 DEF Access!Next

-----------------------------------------------------------------------------
(* Invitations and requests *)

InvitesSound ==
    /\ invite \in [Tokens -> Invite \cup {None}]
    /\ \A t \in Tokens : invite[t] # None => owner[invite[t].ws] # None

LEMMA InvitesSoundInv ==
    ASSUME IInv, [Next]_vars
    PROVE  InvitesSound'
<1>. USE DEF InvitesSound, IInv, TypeOK, NothingOrphaned
<1>0. InvitesSound
  BY DEF Invite
<1>1. ASSUME NEW w \in Workspaces, NEW u \in Users, CreateWorkspace(w, u)
      PROVE  InvitesSound'
  BY <1>0, <1>1, MembershipAssumption DEF CreateWorkspace, Access!Create, Access!RolesTypeOK
<1>2. ASSUME NEW w \in Workspaces, NEW u \in Users, DeleteWorkspace(w, u)
      PROVE  InvitesSound'
  BY <1>0, <1>2 DEF DeleteWorkspace, Access!Delete, Access!RolesTypeOK
<1>3. ASSUME NEW w \in Workspaces, NEW o \in Users, NEW u \in Users, Transfer(w, o, u)
      PROVE  InvitesSound'
  BY <1>0, <1>3, MembershipAssumption DEF Transfer, Access!Transfer, Access!RolesTypeOK
<1>4. ASSUME NEW s \in Slots, NEW t \in Tokens, EndInvite(s, t)
      PROVE  InvitesSound'
  <2>. DEFINE q == requests[s]
              i == [ws |-> q.ws, role |-> q.role, by |-> q.by, used |-> FALSE, age |-> "valid"]
  <2>1. /\ q \in Invitation /\ owner[q.ws] # None /\ UNCHANGED owner
        /\ invite' = [invite EXCEPT ![t] = i]
    BY <1>4 DEF EndInvite, RoleChange
  <2>2. i \in Invite /\ i.ws = q.ws
    BY <2>1 DEF Invitation, Invite
  <2>. HIDE DEF i, q
  <2>. QED BY <1>0, <2>1, <2>2
<1>5. ASSUME NEW t \in Tokens, NEW u \in Users, Join(t, u)
      PROVE  InvitesSound'
  <2>1. /\ invite[t] \in Invite /\ UNCHANGED owner
        /\ invite' = [invite EXCEPT ![t] = [@ EXCEPT !.used = TRUE]]
    BY <1>5 DEF Join
  <2>2. /\ [invite[t] EXCEPT !.used = TRUE] \in Invite
        /\ [invite[t] EXCEPT !.used = TRUE].ws = invite[t].ws
    BY <2>1 DEF Invite
  <2>3. invite[t] # None
    BY <1>5 DEF Join
  <2>. QED BY <1>0, <2>1, <2>2, <2>3
<1>6. ASSUME NEW t \in Tokens, Age(t)
      PROVE  InvitesSound'
  BY <1>0, <1>6 DEF Age, Invite
<1>7. CASE Restart
  BY <1>0, <1>7 DEF Restart
<1>8. CASE UNCHANGED <<owner, invite>>
  BY <1>0, <1>8
<1>. HIDE DEF InvitesSound, IInv, TypeOK, NothingOrphaned
<1>9. ASSUME NEW w \in Workspaces, NEW u \in Users,
             \/ RemoveMember(w, u)
             \/ \E s \in Slots, r \in Granted :
                   \/ BeginInvite(s, w, u, r)
                   \/ \E m \in Users : BeginRoleChange(s, w, u, m, r)
      PROVE  UNCHANGED <<owner, invite>>
  BY <1>9 DEF RemoveMember, Access!Remove, BeginInvite, BeginRoleChange
<1>10. ASSUME NEW s \in Slots, EndRoleChange(s) \/ Abort(s)
       PROVE  UNCHANGED <<owner, invite>>
  BY <1>10 DEF EndRoleChange, Abort
<1>11. ASSUME NEW u \in Users, Forget(u)
       PROVE  UNCHANGED <<owner, invite>>
  BY <1>11 DEF Forget
<1>12. CASE UNCHANGED vars
  BY <1>8, <1>12 DEF vars
<1>. QED BY <1>1, <1>2, <1>3, <1>4, <1>5, <1>6, <1>7, <1>8, <1>9, <1>10, <1>11, <1>12 DEF Next

LEMMA RequestsInv ==
    ASSUME IInv, [Next]_vars
    PROVE  /\ requests' \in [Slots -> Invitation \cup RoleChange \cup {None}]
           /\ stamps' \in [Users -> 0..MaxInvites]
           /\ fresh' \in SUBSET (Workspaces \cup Tokens)
<1>. USE DEF IInv, TypeOK
<1>1. ASSUME NEW s \in Slots, NEW w \in Workspaces, NEW u \in Users, NEW r \in Granted,
             BeginInvite(s, w, u, r)
      PROVE  /\ requests' \in [Slots -> Invitation \cup RoleChange \cup {None}]
             /\ stamps' \in [Users -> 0..MaxInvites]
             /\ UNCHANGED fresh
  <2>1. [kind |-> "invite", by |-> u, ws |-> w, role |-> r] \in Invitation
    BY DEF Invitation
  <2>2. stamps[u] + 1 \in 0..MaxInvites
    BY <1>1, MembershipAssumption DEF BeginInvite
  <2>. QED BY <1>1, <2>1, <2>2 DEF BeginInvite, Await
<1>2. ASSUME NEW s \in Slots, NEW w \in Workspaces, NEW u \in Users, NEW m \in Users,
             NEW r \in Granted, BeginRoleChange(s, w, u, m, r)
      PROVE  /\ requests' \in [Slots -> Invitation \cup RoleChange \cup {None}]
             /\ UNCHANGED <<stamps, fresh>>
  <2>1. [kind |-> "role", by |-> u, ws |-> w, role |-> r, member |-> m] \in RoleChange
    BY <1>2 DEF RoleChange, BeginRoleChange
  <2>. QED BY <1>2, <2>1 DEF BeginRoleChange, Await
<1>3. ASSUME NEW u \in Users, Forget(u)
      PROVE  stamps' \in [Users -> 0..MaxInvites]
  <2>1. stamps[u] - 1 \in 0..MaxInvites
    BY <1>3, MembershipAssumption DEF Forget
  <2>. QED BY <1>3, <2>1 DEF Forget
<1>4. CASE Restart
  BY <1>4, MembershipAssumption DEF Restart
<1>. QED BY <1>1, <1>2, <1>3, <1>4
     DEF Next, vars, CreateWorkspace, DeleteWorkspace, RemoveMember, Transfer, EndInvite,
         EndRoleChange, Abort, Age, Join, Forget, Finish

-----------------------------------------------------------------------------
LEMMA InitInv == Init => IInv
<1>. SUFFICES ASSUME Init PROVE IInv
  OBVIOUS
<1>1. TypeOK
  BY MembershipAssumption DEF Init, Access!Init, TypeOK, Access!RolesTypeOK
<1>2. OwnershipSound /\ NothingOrphaned
  BY MembershipAssumption DEF Init, Access!Init, OwnershipSound, NothingOrphaned, Access!Roles
<1>. QED BY <1>1, <1>2 DEF IInv

LEMMA NextInv == IInv /\ [Next]_vars => IInv'
<1>. SUFFICES ASSUME IInv, [Next]_vars PROVE IInv'
  OBVIOUS
<1>1. RolesSound'
  <2>1. RolesSound
    BY DEF IInv, RolesSound, TypeOK, NothingOrphaned
  <2>. QED BY <2>1, RoleSteps, RolesSoundInv
<1>2. InvitesSound'
  BY InvitesSoundInv
<1>3. TypeOK'
  BY <1>1, <1>2, RequestsInv DEF TypeOK, RolesSound, InvitesSound
<1>4. OwnershipSound' /\ NothingOrphaned'
  BY <1>1, <1>2 DEF RolesSound, InvitesSound, NothingOrphaned
<1>. QED BY <1>3, <1>4 DEF IInv

LEMMA Invariance == Spec => []IInv
<1>. QED BY InitInv, NextInv, PTL DEF Spec

(* Tables, waiting requests and rate limits stay well-typed. *)
THEOREM TypeCorrect == Spec => []TypeOK
<1>1. IInv => TypeOK
  BY DEF IInv
<1>. QED BY <1>1, Invariance, PTL

(* The owner of a workspace is always one of its members, and nobody else   *)
(* ever has the role "owner", although transfer, role change and removal    *)
(* are separate handlers and role changes land late.                        *)
THEOREM OwnershipSoundHolds == Spec => []OwnershipSound
<1>1. IInv => OwnershipSound
  BY DEF IInv
<1>. QED BY <1>1, Invariance, PTL

(* A deleted workspace leaves no membership and no invitation, whatever     *)
(* requests were waiting for their body when it was deleted.                *)
THEOREM NothingOrphanedHolds == Spec => []NothingOrphaned
<1>1. IInv => NothingOrphaned
  BY DEF IInv
<1>. QED BY <1>1, Invariance, PTL

-----------------------------------------------------------------------------
(* How one becomes a member *)

LEMMA JoinSpends ==
    ASSUME TypeOK, NEW t \in Tokens, NEW u \in Users, Join(t, u)
    PROVE  /\ invite[t] \in Invite /\ invite[t].age = "valid" /\ ~ invite[t].used
           /\ invite'[t] # None /\ invite'[t].used
           /\ \A x \in Tokens \ {t} : invite'[x] = invite[x]
<1>1. /\ invite[t] \in Invite
      /\ invite \in [Tokens -> Invite \cup {None}]
      /\ invite' = [invite EXCEPT ![t] = [@ EXCEPT !.used = TRUE]]
      /\ invite[t].age = "valid" /\ ~ invite[t].used
  BY DEF Join, TypeOK
<1>2. [invite[t] EXCEPT !.used = TRUE] \in Invite /\ [invite[t] EXCEPT !.used = TRUE].used
  BY <1>1 DEF Invite
<1>. QED BY <1>1, <1>2, MembershipAssumption

LEMMA GainIsPaidFor ==
    ASSUME IInv, [Next]_vars, NEW w \in Workspaces, NEW u \in Users,
           role[w][u] = None, role'[w][u] # None
    PROVE  \/ owner[w] = None /\ owner'[w] = u
           \/ \E t \in Tokens :
                 /\ Usable(invite[t], w, role'[w][u])
                 /\ invite'[t] # None /\ invite'[t].used
<1>0. /\ Access!RolesTypeOK /\ OwnershipSound /\ TypeOK
      /\ role \in [Workspaces -> [Users -> Access!Roles \cup {None}]]
      /\ owner \in [Workspaces -> Users \cup {None}]
  BY DEF IInv, TypeOK, Access!RolesTypeOK
<1>1. ASSUME NEW v \in Workspaces, NEW m \in Users, CreateWorkspace(v, m)
      PROVE  owner[w] = None /\ owner'[w] = u
  BY <1>0, <1>1 DEF CreateWorkspace, Access!Create
<1>2. ASSUME NEW v \in Workspaces, NEW m \in Users, DeleteWorkspace(v, m)
      PROVE  FALSE
  BY <1>0, <1>2 DEF DeleteWorkspace, Access!Delete
<1>3. ASSUME NEW v \in Workspaces, NEW o \in Users, NEW m \in Users, Transfer(v, o, m)
      PROVE  FALSE
  <2>1. role[v][o] # None
    BY <1>0, <1>3, MembershipAssumption DEF Transfer, Access!Transfer, OwnershipSound
  <2>. QED BY <1>0, <1>3, <2>1 DEF Transfer, Access!Transfer
<1>4. ASSUME NEW v \in Workspaces, NEW m \in Users, RemoveMember(v, m)
      PROVE  FALSE
  BY <1>0, <1>4 DEF RemoveMember, Access!Remove
<1>5. ASSUME NEW s \in Slots, EndRoleChange(s)
      PROVE  FALSE
  <2>. DEFINE v == requests[s].ws
              m == requests[s].member
  <2>1. role' = IF role[v][m] = None THEN role
                ELSE [role EXCEPT ![v][m] = requests[s].role]
    BY <1>5 DEF EndRoleChange
  <2>. HIDE DEF v, m
  <2>. QED BY <1>0, <2>1
<1>6. ASSUME NEW t \in Tokens, NEW m \in Users, Join(t, m)
      PROVE  Usable(invite[t], w, role'[w][u]) /\ invite'[t] # None /\ invite'[t].used
  <2>. DEFINE v == invite[t].ws
  <2>1. role' = IF role[v][m] = None
                THEN [role EXCEPT ![v][m] = invite[t].role] ELSE role
    BY <1>6 DEF Join
  <2>2. v = w /\ m = u
    <3>. HIDE DEF v
    <3>. QED BY <1>0, <2>1
  <2>3. role'[w][u] = invite[t].role
    BY <1>0, <2>1, <2>2
  <2>4. /\ invite[t] \in Invite /\ invite[t].age = "valid" /\ ~ invite[t].used
        /\ invite'[t] # None /\ invite'[t].used
    BY <1>0, <1>6, JoinSpends
  <2>5. invite[t] # None
    BY <1>6 DEF Join
  <2>. QED BY <2>2, <2>3, <2>4, <2>5 DEF Usable
<1>7. role' # role
  OBVIOUS
<1>8. ASSUME NEW v \in Workspaces, NEW m \in Users, NEW s \in Slots, NEW r \in Granted
      PROVE  /\ ~ BeginInvite(s, v, m, r)
             /\ \A x \in Users : ~ BeginRoleChange(s, v, m, x, r)
  BY <1>7 DEF BeginInvite, BeginRoleChange
<1>9. ASSUME NEW s \in Slots
      PROVE  ~ Abort(s) /\ \A t \in Tokens : ~ EndInvite(s, t)
  BY <1>7 DEF Abort, EndInvite
<1>10. /\ \A t \in Tokens : ~ Age(t)
       /\ \A m \in Users : ~ Forget(m)
       /\ ~ Restart /\ ~ UNCHANGED vars
  BY <1>7 DEF Age, Forget, Restart, vars
<1>. QED BY <1>1, <1>2, <1>3, <1>4, <1>5, <1>6, <1>8, <1>9, <1>10 DEF Next

(* Whoever joins a workspace spends an invitation to it, for his role, that *)
(* nobody had spent before: two requests with one token admit one user.     *)
THEOREM MembersAreInvitedHolds == Spec => MembersAreInvited
<1>1. IInv /\ [Next]_vars =>
        [\A w \in Workspaces, u \in Users :
            role[w][u] = None /\ role'[w][u] # None =>
                \/ owner[w] = None /\ owner'[w] = u
                \/ \E t \in Tokens :
                      /\ Usable(invite[t], w, role'[w][u])
                      /\ invite'[t] # None /\ invite'[t].used]_role
  BY GainIsPaidFor
<1>. QED BY <1>1, Invariance, PTL DEF Spec, MembersAreInvited

LEMMA ConsumedByJoin ==
    ASSUME IInv, [Next]_vars, NEW t \in Tokens,
           invite[t] # None, ~ invite[t].used, invite'[t] # None, invite'[t].used
    PROVE  \E u \in Users : Join(t, u)
<1>0. TypeOK /\ invite \in [Tokens -> Invite \cup {None}] /\ invite[t] \in Invite
  BY DEF IInv, TypeOK
<1>1. ASSUME NEW x \in Tokens, NEW m \in Users, Join(x, m)
      PROVE  x = t
  BY <1>0, <1>1, JoinSpends
<1>2. ASSUME NEW s \in Slots, NEW x \in Tokens, EndInvite(s, x)
      PROVE  FALSE
  <2>. DEFINE i == [ws |-> requests[s].ws, role |-> requests[s].role,
                    by |-> requests[s].by, used |-> FALSE, age |-> "valid"]
  <2>1. invite' = [invite EXCEPT ![x] = i] /\ ~ i.used
    BY <1>2 DEF EndInvite
  <2>. HIDE DEF i
  <2>. QED BY <1>0, <2>1
<1>3. ASSUME NEW x \in Tokens, Age(x)
      PROVE  FALSE
  <2>. DEFINE i == [invite[x] EXCEPT !.age = IF @ = "valid" THEN "expired" ELSE "old"]
  <2>1. invite' = [invite EXCEPT ![x] = i] /\ invite[x] \in Invite
    BY <1>0, <1>3 DEF Age
  <2>2. i.used = invite[x].used
    BY <2>1 DEF Invite
  <2>. HIDE DEF i
  <2>. QED BY <1>0, <2>1, <2>2
<1>4. ~ Restart
  BY DEF Restart
<1>5. ASSUME NEW w \in Workspaces, NEW u \in Users
      PROVE  ~ DeleteWorkspace(w, u)
  BY DEF DeleteWorkspace
<1>6. invite' # invite
  OBVIOUS
<1>7. ASSUME NEW w \in Workspaces, NEW u \in Users
      PROVE  /\ ~ CreateWorkspace(w, u) /\ ~ RemoveMember(w, u)
             /\ \A o \in Users : ~ Transfer(w, o, u)
             /\ \A s \in Slots, r \in Granted :
                  /\ ~ BeginInvite(s, w, u, r)
                  /\ \A x \in Users : ~ BeginRoleChange(s, w, u, x, r)
  BY <1>6 DEF CreateWorkspace, RemoveMember, Transfer, BeginInvite, BeginRoleChange
<1>8. /\ \A s \in Slots : ~ EndRoleChange(s) /\ ~ Abort(s)
      /\ \A u \in Users : ~ Forget(u)
      /\ ~ UNCHANGED vars
  BY <1>6 DEF EndRoleChange, Abort, Forget, vars
<1>. QED BY <1>1, <1>2, <1>3, <1>4, <1>5, <1>7, <1>8 DEF Next

(* An invitation admits; it neither promotes nor demotes a member. *)
THEOREM InvitationsOnlyAdmitHolds == Spec => InvitationsOnlyAdmit
<1>1. ASSUME IInv, [Next]_vars, NEW t \in Tokens,
             invite[t] # None, ~ invite[t].used, invite'[t] # None, invite'[t].used,
             NEW w \in Workspaces, NEW u \in Users, role[w][u] # None
      PROVE  role'[w][u] = role[w][u]
  <2>1. PICK m \in Users : Join(t, m)
    BY <1>1, ConsumedByJoin
  <2>. DEFINE v == invite[t].ws
  <2>2. role' = IF role[v][m] = None
                THEN [role EXCEPT ![v][m] = invite[t].role] ELSE role
    BY <2>1 DEF Join
  <2>3. role \in [Workspaces -> [Users -> Access!Roles \cup {None}]]
    BY <1>1 DEF IInv, TypeOK, Access!RolesTypeOK
  <2>. HIDE DEF v
  <2>. QED BY <1>1, <2>2, <2>3
<1>2. IInv /\ [Next]_vars =>
        [\A t \in Tokens :
            invite[t] # None /\ ~ invite[t].used /\ invite'[t] # None /\ invite'[t].used =>
                \A w \in Workspaces, u \in Users :
                    role[w][u] # None => role'[w][u] = role[w][u]]_<<invite, role>>
  BY <1>1
<1>. QED BY <1>2, Invariance, PTL DEF Spec, InvitationsOnlyAdmit

(* Membership implements WorkspaceRoles, on which the push path of the      *)
(* server (module SyncServer) is built.                                     *)
THEOREM Implementation == Spec => ImplementsWorkspaceRoles
<1>1. Init => Access!Init
  BY DEF Init
<1>2. IInv /\ [Next]_vars => [Access!Next]_<<owner, role>>
  BY RoleSteps
<1>. QED BY <1>1, <1>2, Invariance, PTL DEF Spec, ImplementsWorkspaceRoles, Access!Spec
=============================================================================
