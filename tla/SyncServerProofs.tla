-------------------------- MODULE SyncServerProofs --------------------------
(***************************************************************************)
(* Proofs about SyncServer, for every set of workspaces, users, entities,  *)
(* timestamps and batches.                                                 *)
(***************************************************************************)
EXTENDS SyncServer, SequenceTheorems, TLAPS

(* The parts of the inductive invariant.  While a push is open, its draft   *)
(* differs from the committed rows only by writes of the pushing workspace  *)
(* that supersede them; once committed it equals them.                      *)
Follows(d, r, w) ==
    \A id \in Entities : d[id] # r[id] =>
        /\ d[id] # None
        /\ Home(d, id) = w
        /\ r[id] # None => Store!Supersedes(d[id], r[id])

DraftFollows ==
    tx # None => IF tx.open THEN Follows(tx.draft, rows, tx.ws)
                            ELSE tx.draft = rows

LogTruthful ==
    /\ EntriesTruthful
    /\ tx # None => \A e \in tx.log : Truthful(tx.draft, e)

(* An open push comes from a user who may still write, and what it has      *)
(* changed so far is attributed to that user.                               *)
Attributed ==
    tx # None /\ tx.open =>
        /\ role[tx.ws][tx.user] \in Writers
        /\ \A id \in Entities : tx.draft[id] # rows[id] => tx.draft[id].by = tx.user

IInv == TypeOK /\ FolderScope /\ DraftFollows /\ LogTruthful /\ Attributed

-----------------------------------------------------------------------------
(* What one accepted change writes is a row. *)
LEMMA WrittenType ==
    ASSUME NEW r \in Tables, NEW w \in Workspaces, NEW u \in Users,
           NEW c \in Change, ~ Rejected(r, w, c)
    PROVE  Written(r, w, u, c) \in Row
<1>1. r[c.id] \in Row \cup {None} /\ c.id \in Entities
  BY DEF Tables, Change
<1>2. /\ c.parent \in Collections \cup {None} /\ c.at \in Times
      /\ c.deleted \in BOOLEAN
  BY DEF Change
<1>3. c.id \in Folders => c.parent \in Collections
  BY DEF Rejected, Belongs
<1>4. CASE r[c.id] = None
  BY <1>1, <1>2, <1>3, <1>4 DEF Written, Row
<1>5. CASE r[c.id] # None
  <2>1. r[c.id] \in Row
    BY <1>1, <1>5
  <2>2. /\ r[c.id].scope \in Workspaces \cup Collections
        /\ r[c.id].version + 1 \in Nat
        /\ r[c.id].createdBy \in Users
    BY <2>1 DEF Row
  <2>. QED BY <1>1, <1>2, <1>5, <2>2 DEF Written, Row
<1>. QED BY <1>4, <1>5

LEMMA ApplyType ==
    ASSUME NEW r \in Tables, NEW w \in Workspaces, NEW u \in Users,
           NEW c \in Change
    PROVE  ApplyChange(r, w, u, c) \in Tables
<1>1. CASE Rejected(r, w, c)
  BY <1>1 DEF ApplyChange
<1>2. CASE ~ Rejected(r, w, c)
  <2>1. Written(r, w, u, c) \in Row
    BY <1>2, WrittenType
  <2>. QED BY <1>2, <2>1 DEF ApplyChange, Tables
<1>. QED BY <1>1, <1>2

(* The written row stays in its scope and never goes back; a new collection *)
(* or environment row is put into the pushing workspace.                    *)
LEMMA ApplyWrites ==
    ASSUME NEW r \in Tables, NEW w \in Workspaces, NEW u \in Users,
           NEW c \in Change, ~ Rejected(r, w, c),
           NEW d, d = ApplyChange(r, w, u, c)
    PROVE  /\ c.id \in Entities
           /\ d[c.id] # None
           /\ \A id \in Entities : id # c.id => d[id] = r[id]
           /\ d[c.id].parent = c.parent
           /\ r[c.id] # None => Store!Supersedes(d[c.id], r[c.id])
           /\ r[c.id] = None => d[c.id].scope = IF c.id \in Folders THEN c.parent ELSE w
<1>1. d = [r EXCEPT ![c.id] = Written(r, w, u, c)]
  BY DEF ApplyChange
<1>2. c.id \in Entities /\ c.at \in Nat
  BY SyncRowsAssumption DEF Change
<1>3. d[c.id] = Written(r, w, u, c)
  BY <1>1, <1>2 DEF Tables
<1>4. Written(r, w, u, c) # None
  BY WrittenType, SyncRowsAssumption
<1>5. \A id \in Entities : id # c.id => d[id] = r[id]
  BY <1>1 DEF Tables
<1>6. ASSUME r[c.id] # None PROVE Store!Supersedes(d[c.id], r[c.id])
  <2>1. r[c.id] \in Row
    BY <1>2, <1>6 DEF Tables
  <2>2. r[c.id].at \in Nat /\ r[c.id].version \in Nat
    BY <2>1, SyncRowsAssumption DEF Row
  <2>3. ~ (r[c.id].at > c.at)
    BY <1>6 DEF Rejected
  <2>4. /\ d[c.id].scope = r[c.id].scope
        /\ d[c.id].createdBy = r[c.id].createdBy
        /\ d[c.id].at = c.at
        /\ d[c.id].version = r[c.id].version + 1
    BY <1>3, <1>6 DEF Written
  <2>. QED BY <1>2, <2>2, <2>3, <2>4 DEF Store!Supersedes
<1>7. d[c.id].parent = c.parent
  BY <1>3 DEF Written
<1>8. r[c.id] = None => d[c.id].scope = IF c.id \in Folders THEN c.parent ELSE w
  BY <1>3 DEF Written
<1>. QED BY <1>2, <1>3, <1>4, <1>5, <1>6, <1>7, <1>8

(* A collection row is never moved or removed by a change. *)
LEMMA ApplyKeepsCollections ==
    ASSUME NEW r \in Tables, NEW w \in Workspaces, NEW u \in Users,
           NEW c \in Change, NEW k \in Collections, r[k] # None,
           NEW d, d = ApplyChange(r, w, u, c)
    PROVE  d[k] # None /\ d[k].scope = r[k].scope
<1>1. CASE Rejected(r, w, c)
  BY <1>1 DEF ApplyChange
<1>2. CASE ~ Rejected(r, w, c)
  BY <1>2, ApplyWrites DEF Store!Supersedes, Entities
<1>. QED BY <1>1, <1>2

LEMMA ApplyAnchored ==
    ASSUME NEW r \in Tables, NEW w \in Workspaces, NEW u \in Users,
           NEW c \in Change, Store!FoldersAnchored(r),
           NEW d, d = ApplyChange(r, w, u, c)
    PROVE  Store!FoldersAnchored(d)
<1>1. CASE Rejected(r, w, c)
  BY <1>1 DEF ApplyChange
<1>2. CASE ~ Rejected(r, w, c)
  <2>. SUFFICES ASSUME NEW f \in Folders, d[f] # None
                PROVE  /\ d[f].scope \in Collections /\ d[d[f].scope] # None
                       /\ d[f].parent \in Collections /\ d[d[f].parent] # None
                       /\ d[d[f].parent].scope = d[d[f].scope].scope
    BY DEF Store!FoldersAnchored
  <2>. DEFINE anchored(s, p, t) ==
          /\ s \in Collections /\ t[s] # None
          /\ p \in Collections /\ t[p] # None
          /\ t[p].scope = t[s].scope
  <2>1. ASSUME NEW s, NEW p, anchored(s, p, r) PROVE anchored(s, p, d)
    BY <2>1, ApplyKeepsCollections
  <2>2. CASE f # c.id
    <3>1. d[f] = r[f]
      BY <1>2, <2>2, ApplyWrites DEF Entities
    <3>2. anchored(r[f].scope, r[f].parent, r)
      BY <3>1 DEF Store!FoldersAnchored
    <3>. QED BY <2>1, <3>1, <3>2
  <2>3. CASE f = c.id
    <3>1. Belongs(r, c.parent, w)
      BY <1>2, <2>3 DEF Rejected
    <3>2. CASE r[f] = None
      <4>1. d[f].scope = c.parent /\ d[f].parent = c.parent
        BY <1>2, <2>3, <3>2, ApplyWrites
      <4>2. anchored(c.parent, c.parent, r)
        BY <3>1 DEF Belongs
      <4>. QED BY <2>1, <4>1, <4>2
    <3>3. CASE r[f] # None
      <4>1. d[f].scope = r[f].scope /\ d[f].parent = c.parent
        BY <1>2, <2>3, <3>3, ApplyWrites DEF Store!Supersedes
      <4>2. Belongs(r, r[f].scope, w)
        BY <1>2, <2>3, <3>3 DEF Rejected, Foreign
      <4>3. anchored(r[f].scope, c.parent, r)
        BY <3>1, <4>2 DEF Belongs
      <4>. QED BY <2>1, <4>1, <4>3
    <3>. QED BY <3>2, <3>3
  <2>. QED BY <2>2, <2>3
<1>. QED BY <1>1, <1>2

(* Rows that follow others keep what the activity log says about them. *)
LEMMA FollowsKeeps ==
    ASSUME NEW r \in Tables, NEW d \in Tables, NEW w \in Workspaces,
           Store!FoldersAnchored(r), Follows(d, r, w),
           NEW id \in Entities, r[id] # None
    PROVE  /\ d[id] # None
           /\ d[id].createdBy = r[id].createdBy
           /\ Home(d, id) = Home(r, id)
<1>1. \A k \in Entities : r[k] # None =>
         d[k] # None /\ d[k].createdBy = r[k].createdBy /\ d[k].scope = r[k].scope
  BY DEF Follows, Store!Supersedes
<1>2. CASE id \in Folders
  <2>1. r[id].scope \in Collections /\ r[r[id].scope] # None
    BY <1>2 DEF Store!FoldersAnchored
  <2>2. d[r[id].scope].scope = r[r[id].scope].scope
    BY <1>1, <2>1 DEF Entities
  <2>. QED BY <1>1, <1>2, <2>2 DEF Home
<1>3. CASE id \notin Folders
  BY <1>1, <1>3 DEF Home
<1>. QED BY <1>2, <1>3

(* One more change of the push keeps the draft a follower of the rows. *)
LEMMA ApplyFollows ==
    ASSUME NEW r \in Tables, NEW d \in Tables, NEW w \in Workspaces,
           NEW u \in Users, NEW c \in Change,
           Store!FoldersAnchored(d), Follows(d, r, w),
           NEW e, e = ApplyChange(d, w, u, c)
    PROVE  Follows(e, r, w)
<1>1. CASE Rejected(d, w, c)
  BY <1>1 DEF ApplyChange
<1>2. CASE ~ Rejected(d, w, c)
  <2>. SUFFICES ASSUME NEW id \in Entities, e[id] # r[id]
                PROVE  /\ e[id] # None
                       /\ Home(e, id) = w
                       /\ r[id] # None => Store!Supersedes(e[id], r[id])
    BY DEF Follows
  <2>1. CASE id # c.id
    <3>1. e[id] = d[id]
      BY <1>2, <2>1, ApplyWrites
    <3>2. /\ d[id] # None
          /\ Home(d, id) = w
          /\ r[id] # None => Store!Supersedes(d[id], r[id])
      BY <3>1 DEF Follows
    <3>3. Home(e, id) = Home(d, id)
      <4>1. CASE id \in Folders
        <5>1. d[id].scope \in Collections /\ d[d[id].scope] # None
          BY <3>2, <4>1 DEF Store!FoldersAnchored
        <5>. QED BY <3>1, <4>1, <5>1, ApplyKeepsCollections DEF Home
      <4>. QED BY <3>1, <4>1 DEF Home
    <3>. QED BY <3>1, <3>2, <3>3
  <2>2. CASE id = c.id
    <3>1. e[id] # None
      BY <1>2, <2>2, ApplyWrites
    <3>2. Home(e, id) = w
      <4>1. CASE id \notin Folders
        <5>1. d[id] = None => e[id].scope = w
          BY <1>2, <2>2, <4>1, ApplyWrites
        <5>2. d[id] # None => d[id].scope = w /\ e[id].scope = d[id].scope
          BY <1>2, <2>2, <4>1, ApplyWrites DEF Rejected, Foreign, Store!Supersedes
        <5>. QED BY <4>1, <5>1, <5>2 DEF Home
      <4>2. CASE id \in Folders
        <5>1. PICK s : s = e[id].scope /\ Belongs(d, s, w)
          <6>1. d[id] = None => e[id].scope = c.parent /\ Belongs(d, c.parent, w)
            BY <1>2, <2>2, <4>2, ApplyWrites DEF Rejected
          <6>2. d[id] # None => e[id].scope = d[id].scope /\ Belongs(d, d[id].scope, w)
            BY <1>2, <2>2, <4>2, ApplyWrites DEF Rejected, Foreign, Store!Supersedes
          <6>. QED BY <6>1, <6>2
        <5>. QED BY <4>2, <5>1, ApplyKeepsCollections DEF Home, Belongs
      <4>. QED BY <4>1, <4>2
    <3>3. ASSUME r[id] # None PROVE Store!Supersedes(e[id], r[id])
      <4>1. d[id] # None /\ (d[id] = r[id] \/ Store!Supersedes(d[id], r[id]))
        BY <3>3 DEF Follows
      <4>2. Store!Supersedes(e[id], d[id])
        BY <1>2, <2>2, <4>1, ApplyWrites
      <4>3. e \in Tables
        BY ApplyType
      <4>4. /\ r[id].at \in Nat /\ d[id].at \in Nat /\ e[id].at \in Nat
            /\ r[id].version \in Nat /\ d[id].version \in Nat /\ e[id].version \in Nat
        BY <3>1, <3>3, <4>1, <4>3, SyncRowsAssumption DEF Tables, Row
      <4>. QED BY <4>1, <4>2, <4>4 DEF Store!Supersedes
    <3>. QED BY <3>1, <3>2, <3>3
  <2>. QED BY <2>1, <2>2
<1>. QED BY <1>1, <1>2

(* Deleting a workspace leaves nothing hanging: a folder that stays has     *)
(* both of its collections in another workspace.                            *)
LEMMA DropAnchored ==
    ASSUME NEW r \in Tables, NEW w \in Workspaces, Store!FoldersAnchored(r),
           NEW d, d = [id \in Entities |-> IF id \in RowsOf(r, w) THEN None ELSE r[id]]
    PROVE  d \in Tables /\ Store!FoldersAnchored(d)
<1>1. d \in Tables
  BY DEF Tables
<1>2. ASSUME NEW f \in Folders, d[f] # None
      PROVE  /\ d[f] = r[f]
             /\ r[f].scope \in Collections /\ d[r[f].scope] = r[r[f].scope]
             /\ r[f].parent \in Collections /\ d[r[f].parent] = r[r[f].parent]
  <2>1. f \in Entities /\ d[f] = r[f] /\ f \notin RowsOf(r, w)
    BY <1>2 DEF Entities
  <2>2. /\ r[f].scope \in Collections /\ r[r[f].scope] # None
        /\ r[f].parent \in Collections /\ r[r[f].parent] # None
        /\ r[r[f].parent].scope = r[r[f].scope].scope
    BY <1>2, <2>1 DEF Store!FoldersAnchored
  <2>3. r[r[f].scope].scope # w
    BY <1>2, <2>1, <2>2 DEF RowsOf, Foreign, Belongs
  <2>4. \A k \in Collections : r[k] # None /\ r[k].scope # w => d[k] = r[k]
    BY SyncRowsAssumption DEF RowsOf, Foreign, Entities
  <2>. QED BY <2>1, <2>2, <2>3, <2>4
<1>3. Store!FoldersAnchored(d)
  BY <1>2 DEF Store!FoldersAnchored
<1>. QED BY <1>1, <1>3

-----------------------------------------------------------------------------
LEMMA InitInv == Init => IInv
<1>. SUFFICES ASSUME Init PROVE IInv
  OBVIOUS
<1>1. TypeOK
  BY DEF Init, TypeOK, Tables, Access!RolesTypeOK, Access!Roles
<1>2. FolderScope
  BY DEF Init, FolderScope, Store!FoldersAnchored, Entities
<1>3. DraftFollows /\ LogTruthful /\ Attributed
  BY DEF Init, DraftFollows, LogTruthful, EntriesTruthful, Attributed
<1>. QED BY <1>1, <1>2, <1>3 DEF IInv

(* what the log entry of an applied change says is true of the new draft *)
LEMMA LogOfTruthful ==
    ASSUME IInv, tx # None, NEW c \in Change, NEW d,
           d = ApplyChange(tx.draft, tx.ws, tx.user, c)
    PROVE  /\ LogOf(c) \in SUBSET Entry
           /\ \A e \in LogOf(c) : Truthful(d, e) /\ Happened(e, tx.draft, d)
<1>1. /\ tx \in Push /\ tx.draft \in Tables /\ tx.ws \in Workspaces
      /\ tx.user \in Users /\ Store!FoldersAnchored(tx.draft) /\ c.id \in Entities
  BY DEF IInv, TypeOK, Push, FolderScope, Change
<1>2. LogOf(c) \in SUBSET Entry
  BY <1>1 DEF LogOf, Entry
<1>3. ASSUME NEW e \in LogOf(c) PROVE Truthful(d, e) /\ Happened(e, tx.draft, d)
  <2>1. ~ Rejected(tx.draft, tx.ws, c) /\ e.id = c.id /\ e.ws = tx.ws /\ e.actor = tx.user
    BY <1>3 DEF LogOf
  <2>2. /\ e.action = "created" <=> tx.draft[c.id] = None
        /\ e.action = "deleted" => c.deleted
    BY <1>3 DEF LogOf
  <2>3. d[c.id] # None
    BY <1>1, <2>1, ApplyWrites
  <2>4. tx.draft[c.id] = None => d[c.id].createdBy = tx.user
    BY <1>1, <2>1 DEF ApplyChange, Written, Tables
  <2>5. d[c.id] # tx.draft[c.id] /\ Home(d, c.id) = tx.ws
    <3>1. Follows(tx.draft, tx.draft, tx.ws)
      BY DEF Follows
    <3>2. Follows(d, tx.draft, tx.ws)
      BY <1>1, <3>1, ApplyFollows
    <3>3. ASSUME d[c.id] = tx.draft[c.id] PROVE FALSE
      <4>1. Store!Supersedes(d[c.id], tx.draft[c.id])
        BY <1>1, <2>1, <2>3, <3>3, ApplyWrites
      <4>2. d[c.id].version \in Nat
        BY <1>1, <2>3, <3>3 DEF Tables, Row
      <4>. QED BY <3>3, <4>1, <4>2 DEF Store!Supersedes
    <3>. QED BY <1>1, <3>2, <3>3 DEF Follows
  <2>6. d[c.id].by = tx.user /\ d[c.id].deleted = c.deleted
    BY <1>1, <2>1 DEF ApplyChange, Written, Tables
  <2>. QED BY <2>1, <2>2, <2>3, <2>4, <2>5, <2>6 DEF Truthful, Happened
<1>. QED BY <1>2, <1>3

(* Between two pushes the roles may change in any way. *)
LEMMA RolesChangeInv ==
    ASSUME IInv, tx = None, UNCHANGED <<rows, tx, activity>>,
           Access!RolesTypeOK'
    PROVE  IInv'
<1>1. TypeOK'
  BY DEF IInv, TypeOK
<1>2. FolderScope' /\ DraftFollows' /\ LogTruthful' /\ Attributed'
  BY DEF IInv, FolderScope, DraftFollows, LogTruthful, EntriesTruthful, Attributed
<1>. QED BY <1>1, <1>2 DEF IInv

LEMMA NextInv == IInv /\ [Next]_vars => IInv'
<1>. SUFFICES ASSUME IInv, [Next]_vars PROVE IInv'
  OBVIOUS
<1>. USE DEF IInv, Access!RolesTypeOK
<1>1. ASSUME NEW u \in Users, NEW w \in Workspaces, NEW batch \in Batches,
             BeginPush(u, w, batch)
      PROVE  IInv'
  <2>1. batch \in Seq(Change) /\ tx' \in Push
    BY <1>1, SyncServerAssumption DEF BeginPush, TypeOK, Push
  <2>2. TypeOK'
    BY <1>1, <2>1 DEF BeginPush, TypeOK
  <2>3. FolderScope'
    BY <1>1 DEF BeginPush, FolderScope
  <2>4. DraftFollows' /\ LogTruthful'
    BY <1>1 DEF BeginPush, DraftFollows, LogTruthful, EntriesTruthful, Truthful, Home, Follows
  <2>5. Attributed'
    BY <1>1 DEF BeginPush, Attributed, CanWrite
  <2>. QED BY <2>2, <2>3, <2>4, <2>5
<1>2. ASSUME ApplyNext PROVE IInv'
  <2>. DEFINE c == Head(tx.todo)
              d == ApplyChange(tx.draft, tx.ws, tx.user, c)
  <2>1. /\ tx \in Push /\ c \in Change /\ Tail(tx.todo) \in Seq(Change)
        /\ tx.draft \in Tables /\ tx.ws \in Workspaces /\ tx.user \in Users
        /\ Store!FoldersAnchored(tx.draft)
    BY <1>2 DEF ApplyNext, TypeOK, Push, FolderScope
  <2>2. d \in Tables /\ Store!FoldersAnchored(d)
    BY <2>1, ApplyType, ApplyAnchored
  <2>3. LogOf(c) \in SUBSET Entry /\ \A e \in LogOf(c) : Truthful(d, e)
    BY <1>2, <2>1, LogOfTruthful DEF ApplyNext
  <2>4. /\ tx' \in Push /\ tx'.draft = d /\ tx'.open /\ tx'.ws = tx.ws
        /\ tx'.log = tx.log \cup LogOf(c)
    <3>. HIDE DEF c, d
    <3>1. tx' = [tx EXCEPT !.todo = Tail(tx.todo), !.draft = d, !.log = tx.log \cup LogOf(c)]
      BY <1>2 DEF ApplyNext, c, d
    <3>. QED BY <1>2, <2>1, <2>2, <2>3, <3>1 DEF Push, ApplyNext
  <2>5. UNCHANGED <<owner, role, rows, activity>>
    BY <1>2 DEF ApplyNext
  <2>6. TypeOK'
    BY <2>4, <2>5 DEF TypeOK
  <2>7. FolderScope'
    BY <2>2, <2>4, <2>5 DEF FolderScope
  <2>8. DraftFollows'
    <3>1. Follows(tx.draft, rows, tx.ws) /\ rows \in Tables
      BY <1>2 DEF DraftFollows, ApplyNext, TypeOK
    <3>2. Follows(d, rows, tx.ws)
      BY <2>1, <3>1, ApplyFollows
    <3>. QED BY <2>4, <2>5, <3>2 DEF DraftFollows
  <2>9. LogTruthful'
    <3>1. Follows(tx.draft, tx.draft, tx.ws)
      BY DEF Follows
    <3>2. Follows(d, tx.draft, tx.ws)
      BY <2>1, <3>1, ApplyFollows
    <3>3. ASSUME NEW e \in tx.log PROVE Truthful(d, e)
      <4>1. Truthful(tx.draft, e) /\ e.id \in Entities
        BY <1>2, <2>1 DEF LogTruthful, ApplyNext, Push, Entry
      <4>. QED BY <2>1, <2>2, <3>2, <4>1, FollowsKeeps DEF Truthful
    <3>4. EntriesTruthful'
      BY <2>5 DEF LogTruthful, EntriesTruthful
    <3>. QED BY <2>3, <2>4, <3>3, <3>4 DEF LogTruthful
  <2>10. Attributed'
    <3>1. \A id \in Entities : tx.draft[id] # rows[id] => tx.draft[id].by = tx.user
      BY <1>2 DEF Attributed, ApplyNext
    <3>2. \A id \in Entities : d[id] # tx.draft[id] => d[id].by = tx.user
      BY <2>1 DEF ApplyChange, Written, Tables
    <3>3. tx'.user = tx.user /\ role' = role /\ rows' = rows
      BY <1>2 DEF ApplyNext
    <3>. QED BY <1>2, <2>4, <3>1, <3>2, <3>3 DEF Attributed, ApplyNext
  <2>. QED BY <2>6, <2>7, <2>8, <2>9, <2>10
<1>3. ASSUME CommitPush PROVE IInv'
  <2>1. /\ tx \in Push /\ tx.open /\ rows' = tx.draft /\ rows' \in Tables
        /\ tx' \in Push /\ tx'.draft = tx.draft /\ ~ tx'.open
        /\ tx'.log = tx.log /\ tx'.ws = tx.ws
        /\ UNCHANGED <<owner, role, activity>>
    BY <1>3 DEF CommitPush, TypeOK, Push
  <2>2. TypeOK'
    BY <2>1 DEF TypeOK
  <2>3. FolderScope'
    BY <1>3, <2>1 DEF FolderScope, CommitPush
  <2>4. DraftFollows'
    BY <2>1 DEF DraftFollows
  <2>5. ASSUME NEW e \in activity PROVE Truthful(rows', e)
    <3>1. Truthful(rows, e) /\ e.id \in Entities
      BY DEF LogTruthful, EntriesTruthful, TypeOK, Entry
    <3>2. Follows(tx.draft, rows, tx.ws) /\ tx.ws \in Workspaces
      BY <1>3, <2>1 DEF DraftFollows, CommitPush, Push
    <3>. QED BY <2>1, <3>1, <3>2, FollowsKeeps DEF Truthful, FolderScope, TypeOK
  <2>6. LogTruthful'
    BY <1>3, <2>1, <2>5 DEF LogTruthful, EntriesTruthful, CommitPush
  <2>7. Attributed'
    BY <2>1 DEF Attributed
  <2>. QED BY <2>2, <2>3, <2>4, <2>6, <2>7
<1>4. ASSUME FinishPush PROVE IInv'
  <2>1. PICK logged \in SUBSET tx.log : activity' = activity \cup logged
    BY <1>4 DEF FinishPush
  <2>2. tx # None /\ ~ tx.open /\ tx' = None /\ UNCHANGED <<owner, role, rows>>
    BY <1>4 DEF FinishPush
  <2>3. tx.draft = rows /\ tx \in Push
    BY <2>2 DEF DraftFollows, TypeOK
  <2>4. TypeOK'
    BY <2>1, <2>2, <2>3 DEF TypeOK, Push
  <2>5. FolderScope' /\ DraftFollows' /\ Attributed'
    BY <2>2 DEF FolderScope, DraftFollows, Attributed
  <2>6. LogTruthful'
    BY <2>1, <2>2, <2>3 DEF LogTruthful, EntriesTruthful
  <2>. QED BY <2>4, <2>5, <2>6
<1>5. ASSUME Crash PROVE IInv'
  BY <1>5 DEF Crash, TypeOK, FolderScope, DraftFollows, LogTruthful, EntriesTruthful,
              Attributed
<1>6. ASSUME NEW u \in Users, NEW w \in Workspaces, DeleteWorkspace(u, w) PROVE IInv'
  <2>1. /\ rows' = [id \in Entities |-> IF id \in RowsOf(rows, w) THEN None ELSE rows[id]]
        /\ activity' = {e \in activity : e.ws # w}
        /\ tx = None /\ tx' = None
        /\ owner' = [owner EXCEPT ![w] = None]
        /\ role' = [role EXCEPT ![w] = [m \in Users |-> None]]
    BY <1>6 DEF DeleteWorkspace, Access!Delete
  <2>2. rows' \in Tables /\ Store!FoldersAnchored(rows')
    BY <2>1, DropAnchored DEF TypeOK, FolderScope
  <2>3. TypeOK'
    BY <2>1, <2>2 DEF TypeOK
  <2>4. FolderScope' /\ DraftFollows' /\ Attributed'
    BY <2>1, <2>2 DEF FolderScope, DraftFollows, Attributed
  <2>5. ASSUME NEW e \in activity, e.ws # w PROVE Truthful(rows', e)
    <3>1. Truthful(rows, e) /\ e.id \in Entities
      BY DEF LogTruthful, EntriesTruthful, TypeOK, Entry
    <3>2. CASE e.id \in Folders
      <4>1. /\ rows[e.id].scope \in Collections
            /\ rows[rows[e.id].scope] # None
            /\ rows[rows[e.id].scope].scope = e.ws
        BY <3>1, <3>2 DEF Truthful, Home, FolderScope, Store!FoldersAnchored
      <4>2. e.id \notin RowsOf(rows, w) /\ rows[e.id].scope \notin RowsOf(rows, w)
        BY <2>5, <3>2, <4>1, SyncRowsAssumption DEF RowsOf, Foreign, Belongs
      <4>. QED BY <2>1, <3>1, <3>2, <4>1, <4>2 DEF Truthful, Home, Entities
    <3>3. CASE e.id \notin Folders
      <4>1. e.id \notin RowsOf(rows, w)
        BY <2>5, <3>1, <3>3 DEF RowsOf, Foreign, Truthful, Home
      <4>. QED BY <2>1, <3>1, <3>3, <4>1 DEF Truthful, Home
    <3>. QED BY <3>2, <3>3
  <2>6. LogTruthful'
    BY <2>1, <2>5 DEF LogTruthful, EntriesTruthful
  <2>. QED BY <2>3, <2>4, <2>6
<1>7. ASSUME RolesChange PROVE IInv'
  <2>. USE DEF Access!RolesTypeOK, Access!Roles, Access!Granted
  <2>1. Access!RolesTypeOK /\ Access!Change
    BY <1>7 DEF RolesChange, TypeOK
  <2>2. ASSUME NEW u \in Users, NEW w \in Workspaces, NEW r \in Access!Granted,
               Access!Join(w, u, r) \/ Access!SetRole(w, u, r)
        PROVE  Access!RolesTypeOK'
    BY <2>1, <2>2 DEF Access!Join, Access!SetRole
  <2>3. ASSUME NEW u \in Users, NEW w \in Workspaces, Access!Remove(w, u)
        PROVE  Access!RolesTypeOK'
    BY <2>1, <2>3 DEF Access!Remove
  <2>4. ASSUME NEW w \in Workspaces, NEW o \in Users, NEW u \in Users, Access!Transfer(w, o, u)
        PROVE  Access!RolesTypeOK'
    BY <2>1, <2>4 DEF Access!Transfer
  <2>5. Access!RolesTypeOK'
    BY <2>1, <2>2, <2>3, <2>4 DEF Access!Change
  <2>. QED BY <1>7, <2>5, RolesChangeInv DEF RolesChange
<1>9. CASE UNCHANGED vars
  BY <1>9 DEF vars, TypeOK, FolderScope, DraftFollows, LogTruthful, EntriesTruthful,
              Attributed
<1>. QED BY <1>1, <1>2, <1>3, <1>4, <1>5, <1>6, <1>7, <1>9 DEF Next

-----------------------------------------------------------------------------
LEMMA Invariance == Spec => []IInv
<1>. QED BY InitInv, NextInv, PTL DEF Spec

(* The types of the tables, of the push in progress and of the activity     *)
(* log, after any number of pushes, crashes and workspace deletions.        *)
THEOREM TypeCorrect == Spec => []TypeOK
<1>1. IInv => TypeOK
  BY DEF IInv
<1>. QED BY <1>1, Invariance, PTL

(* Folders never hang off a missing collection, nor off one of another      *)
(* workspace: the stale collection_id column of a moved folder is harmless. *)
THEOREM FolderScopeHolds == Spec => []FolderScope
<1>1. IInv => FolderScope
  BY DEF IInv
<1>. QED BY <1>1, Invariance, PTL

(* The activity log says of every entry that what it tells was written,     *)
(* committed, and done by the user it names: nothing refused, nothing       *)
(* rolled back.                                                             *)
THEOREM ActivityTruthfulHolds == Spec => ActivityTruthful
<1>. DEFINE Made ==
        tx' # None => IF tx = None THEN tx'.log = {}
                      ELSE \A e \in tx'.log \ tx.log : Happened(e, tx.draft, tx'.draft)
            Published ==
        \A e \in activity' \ activity : tx # None /\ e \in tx.log /\ tx.draft = rows
<1>1. ASSUME IInv, [Next]_vars PROVE Made /\ Published
  <2>1. ASSUME NEW u \in Users, NEW w \in Workspaces, NEW batch \in Batches,
               BeginPush(u, w, batch)
        PROVE  Made /\ Published
    BY <2>1 DEF BeginPush
  <2>2. CASE ApplyNext
    <3>. DEFINE c == Head(tx.todo)
                d == ApplyChange(tx.draft, tx.ws, tx.user, c)
    <3>1. tx # None /\ tx \in Push /\ c \in Change
      BY <1>1, <2>2 DEF ApplyNext, IInv, TypeOK, Push
    <3>2. \A e \in LogOf(c) : Happened(e, tx.draft, d)
      BY <1>1, <3>1, LogOfTruthful
    <3>3. tx'.draft = d /\ tx'.log = tx.log \cup LogOf(c) /\ activity' = activity
      <4>1. tx' = [tx EXCEPT !.todo = Tail(tx.todo), !.draft = d, !.log = tx.log \cup LogOf(c)]
        BY <2>2 DEF ApplyNext
      <4>. HIDE DEF c, d
      <4>. QED BY <2>2, <3>1, <4>1 DEF Push, ApplyNext
    <3>. QED BY <3>1, <3>2, <3>3
  <2>3. CASE CommitPush
    <3>1. tx # None /\ tx \in Push /\ tx'.log = tx.log /\ activity' = activity
      BY <1>1, <2>3 DEF CommitPush, IInv, TypeOK, Push
    <3>. QED BY <3>1
  <2>4. CASE FinishPush
    <3>1. tx # None /\ tx.draft = rows
      BY <1>1, <2>4 DEF FinishPush, IInv, DraftFollows
    <3>. QED BY <2>4, <3>1 DEF FinishPush
  <2>5. CASE Crash
    BY <2>5 DEF Crash
  <2>6. ASSUME NEW u \in Users, NEW w \in Workspaces, DeleteWorkspace(u, w)
        PROVE  Made /\ Published
    BY <2>6 DEF DeleteWorkspace
  <2>7. CASE RolesChange
    BY <2>7 DEF RolesChange
  <2>8. CASE UNCHANGED vars
    BY <2>8 DEF vars
  <2>. QED BY <1>1, <2>1, <2>2, <2>3, <2>4, <2>5, <2>6, <2>7, <2>8 DEF Next
<1>2. IInv /\ [Next]_vars => [Made /\ Published]_<<tx, activity>>
  BY <1>1
<1>3. IInv => EntriesTruthful
  BY DEF IInv, LogTruthful
<1>4. Spec => LoggedAsWritten
  BY <1>2, Invariance, PTL DEF Spec, LoggedAsWritten
<1>5. Spec => []EntriesTruthful
  BY <1>3, Invariance, PTL
<1>. QED BY <1>4, <1>5 DEF ActivityTruthful

(* Whatever is committed, its author may write there at that moment: the    *)
(* role is read before the transaction, and nothing runs in between.        *)
THEOREM WritesAuthorisedHolds == Spec => WritesAuthorised
<1>. DEFINE Authorised(id) == role[Home(rows', id)][rows'[id].by] \in Writers
<1>1. ASSUME IInv, [Next]_vars, NEW id \in Entities, rows'[id] # rows[id], rows'[id] # None
      PROVE  Authorised(id)
  <2>1. CASE CommitPush
    <3>1. tx # None /\ tx.open /\ rows' = tx.draft
      BY <2>1 DEF CommitPush
    <3>2. Home(rows', id) = tx.ws
      BY <1>1, <3>1 DEF IInv, DraftFollows, Follows
    <3>. QED BY <1>1, <3>1, <3>2 DEF IInv, Attributed
  <2>2. ASSUME NEW u \in Users, NEW w \in Workspaces, DeleteWorkspace(u, w)
        PROVE  FALSE
    BY <1>1, <2>2 DEF DeleteWorkspace
  <2>. QED BY <1>1, <2>1, <2>2 DEF Next, vars, BeginPush, ApplyNext, FinishPush, Crash,
                                   RolesChange
<1>2. IInv /\ [Next]_vars =>
        [\A id \in Entities : rows'[id] # rows[id] /\ rows'[id] # None => Authorised(id)]_rows
  BY <1>1
<1>. QED BY <1>2, Invariance, PTL DEF Spec, WritesAuthorised

(* The push path, transaction by transaction, implements the store of       *)
(* last-writer-wins registers: CommitPush is its Write, DeleteWorkspace its *)
(* Drop, and every other step leaves the committed rows alone.              *)
THEOREM Implementation == Spec => ImplementsLwwStore
<1>1. Init => Store!Init
  BY DEF Init, Store!Init, Store!Entities, Entities
<1>2. IInv /\ IInv' /\ [Next]_vars => [Store!Next]_rows
  <2>. SUFFICES ASSUME IInv, IInv', [Next]_vars, rows' # rows PROVE Store!Next
    OBVIOUS
  <2>1. ASSUME CommitPush PROVE Store!Next
    <3>1. tx \in Push /\ tx.ws \in Workspaces /\ rows' = tx.draft
      BY <2>1 DEF CommitPush, IInv, TypeOK, Push
    <3>2. Follows(rows', rows, tx.ws)
      BY <2>1, <3>1 DEF CommitPush, IInv, DraftFollows
    <3>3. rows' \in Store!Tables /\ Store!FoldersAnchored(rows')
      BY DEF IInv, TypeOK, FolderScope, Tables, Store!Tables, Entities, Store!Entities,
             Row, Store!Row
    <3>4. Store!Write(tx.ws)
      BY <3>2, <3>3 DEF Store!Write, Follows, Home, Store!Home, Entities, Store!Entities
    <3>. QED BY <3>1, <3>4 DEF Store!Next
  <2>2. ASSUME NEW u \in Users, NEW w \in Workspaces, DeleteWorkspace(u, w)
        PROVE  Store!Next
    <3>1. Store!Drop(w)
      BY <2>2 DEF DeleteWorkspace, Store!Drop, RowsOf, Store!RowsOf, Foreign,
                  Store!Foreign, Belongs, Store!Belongs, Entities, Store!Entities
    <3>. QED BY <3>1 DEF Store!Next
  <2>. QED BY <2>1, <2>2 DEF Next, vars, BeginPush, ApplyNext, FinishPush, Crash, RolesChange
<1>. QED BY <1>1, <1>2, Invariance, PTL DEF Spec, Store!Spec, ImplementsLwwStore
=============================================================================
