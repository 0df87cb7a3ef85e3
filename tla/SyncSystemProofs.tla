-------------------------- MODULE SyncSystemProofs --------------------------
(***************************************************************************)
(* Proofs about SyncSystem, for every number of clients, workspaces,       *)
(* entities and concurrent requests, every clock skew and every bound.     *)
(***************************************************************************)
EXTENDS SyncSystem, TLAPS

(* rows r have entity id in workspace w, not older than at *)
OnServer(r, id, w, at) == r[id] # None /\ r[id].ws = w /\ r[id].at >= at

(* What a push in flight must be for its answer to be believed: what its    *)
(* snapshot holds is either among its changes or on the server already, and *)
(* when the answer is "ok" it is on the server; what it deletes is there.   *)
PushSound(r, p) ==
    /\ \A ch \in p.changes : ch.deleted => r[ch.id] # None /\ r[ch.id].ws = p.ws
    /\ \A ch \in p.changes : p.snapshot[ch.id] # None => ch.at = p.snapshot[ch.id]
    /\ \A id \in Ids : p.snapshot[id] # None =>
          \/ \E ch \in p.changes : ch.id = id
          \/ OnServer(r, id, p.ws, p.snapshot[id])
    /\ p.res = "ok" =>
          \A id \in Ids : p.snapshot[id] # None => OnServer(r, id, p.ws, p.snapshot[id])

PushesSound ==
    \A c \in Clients, s \in Slots : pushes[c][s] # None => PushSound(rows, pushes[c][s])

IInv == TypeOK /\ AckedReachesServer /\ PushesSound

(* the rows of the server only move forward, each in its workspace *)
Forward ==
    \A id \in Ids : rows[id] # None =>
        rows'[id] # None /\ rows'[id].ws = rows[id].ws /\ rows'[id].at >= rows[id].at

-----------------------------------------------------------------------------
(* Types *)

LEMMA LocalTime ==
    ASSUME TypeOK, NEW c \in Clients
    PROVE  LocalNow(c) \in Times
BY SyncSystemAssumption DEF TypeOK, LocalNow, Times

LEMMA FirstTime ==
    ASSUME now = 1, NEW c \in Clients
    PROVE  LocalNow(c) \in Times
BY SyncSystemAssumption DEF LocalNow, Times

LEMMA DiffType ==
    ASSUME TypeOK, NEW c \in Clients, NEW base \in Store, NEW next \in Store
    PROVE  Diff(c, base, next) \subseteq Change
<1>1. LocalNow(c) \in Times
  BY LocalTime
<1>2. \A id \in Ids : next[id] # None => next[id] \in Times
  BY DEF Store
<1>3. ASSUME NEW ch \in Diff(c, base, next) PROVE ch \in Change
  <2>1. CASE \E id \in Ids : /\ next[id] # None
                             /\ ch = [id |-> id, at |-> next[id], deleted |-> FALSE]
    BY <1>2, <2>1 DEF Change
  <2>2. CASE \E id \in Ids : ch = [id |-> id, at |-> LocalNow(c), deleted |-> TRUE]
    BY <1>1, <2>2 DEF Change
  <2>. QED BY <1>3, <2>1, <2>2 DEF Diff
<1>. QED BY <1>3

LEMMA MergedType ==
    ASSUME NEW mine \in Times \cup {None}, NEW changes \in SUBSET Change, NEW id \in Ids
    PROVE  Merged(mine, changes, id) \in Times \cup {None}
<1>1. CASE \A ch \in changes : ch.id # id
  BY <1>1 DEF Merged
<1>2. CASE \E ch \in changes : ch.id = id
  <2>. DEFINE it == CHOOSE x \in changes : x.id = id
  <2>1. it \in changes
    BY <1>2
  <2>2. it.at \in Times
    BY <2>1 DEF Change
  <2>. HIDE DEF it
  <2>3. Merged(mine, changes, id) \in {mine, None, it.at}
    BY <1>2 DEF Merged, it
  <2>. QED BY <2>2, <2>3
<1>. QED BY <1>1, <1>2

LEMMA ScheduledType ==
    ASSUME TypeOK, NEW c \in Clients
    PROVE  Scheduled(c) \in Workspaces \cup {None}
BY DEF TypeOK, Scheduled, Spaces

LEMMA TimerType ==
    ASSUME TypeOK, NEW c \in Clients,
           timer' = timer \/ timer' = [timer EXCEPT ![c] = Scheduled(c)]
    PROVE  timer' \in [Clients -> Workspaces \cup {None}]
<1>1. timer \in [Clients -> Workspaces \cup {None}]
  BY DEF TypeOK
<1>2. Scheduled(c) \in Workspaces \cup {None}
  BY ScheduledType
<1>. QED BY <1>1, <1>2

LEMMA PullStartedType ==
    ASSUME TypeOK, NEW c \in Clients, NEW w \in Spaces, PullStarted(c, w)
    PROVE  pulls' \in [Clients -> [Slots -> Pull \cup {None}]]
<1>1. CASE w = Personal
  BY <1>1 DEF PullStarted, TypeOK
<1>2. CASE w # Personal
  <2>. DEFINE p == [ws |-> w, since |-> cursor[c][w], time |-> None, changes |-> {}]
  <2>1. p \in Pull
    BY <1>2 DEF TypeOK, Spaces, Pull
  <2>2. \E s \in Slots : pulls' = [pulls EXCEPT ![c][s] = p]
    BY <1>2 DEF PullStarted
  <2>. HIDE DEF p
  <2>. QED BY <2>1, <2>2 DEF TypeOK
<1>. QED BY <1>1, <1>2

LEMMA PushReplaced ==
    ASSUME TypeOK, NEW c \in Clients, NEW s \in Slots, NEW q \in Push \cup {None},
           pushes' = [pushes EXCEPT ![c][s] = q]
    PROVE  /\ pushes' \in [Clients -> [Slots -> Push \cup {None}]]
           /\ \A d \in Clients, t \in Slots :
                 pushes'[d][t] = IF d = c /\ t = s THEN q ELSE pushes[d][t]
<1>1. pushes \in [Clients -> [Slots -> Push \cup {None}]]
  BY DEF TypeOK
<1>. QED BY <1>1

LEMMA SpendType ==
    ASSUME TypeOK, NEW what \in {"edits", "switches", "losses", "drops", "restarts"}, Spend(what)
    PROVE  budget' \in [edits : Nat, switches : Nat, losses : Nat, drops : Nat, restarts : Nat]
<1>1. budget \in [edits : Nat, switches : Nat, losses : Nat, drops : Nat, restarts : Nat]
  BY DEF TypeOK
<1>2. CASE what = "edits"
  <2>1. budget.edits > 0 /\ budget' = [budget EXCEPT !.edits = budget.edits - 1]
    BY <1>2 DEF Spend
  <2>. QED BY <1>1, <2>1
<1>3. CASE what = "switches"
  <2>1. budget.switches > 0 /\ budget' = [budget EXCEPT !.switches = budget.switches - 1]
    BY <1>3 DEF Spend
  <2>. QED BY <1>1, <2>1
<1>4. CASE what = "losses"
  <2>1. budget.losses > 0 /\ budget' = [budget EXCEPT !.losses = budget.losses - 1]
    BY <1>4 DEF Spend
  <2>. QED BY <1>1, <2>1
<1>5. CASE what = "restarts"
  <2>1. budget.restarts > 0 /\ budget' = [budget EXCEPT !.restarts = budget.restarts - 1]
    BY <1>5 DEF Spend
  <2>. QED BY <1>1, <2>1
<1>6. CASE what = "drops"
  <2>1. budget.drops > 0 /\ budget' = [budget EXCEPT !.drops = budget.drops - 1]
    BY <1>6 DEF Spend
  <2>. QED BY <1>1, <2>1
<1>. QED BY <1>2, <1>3, <1>4, <1>5, <1>6

-----------------------------------------------------------------------------
(* What the server does with a push *)

LEMMA ServeForward ==
    ASSUME TypeOK, NEW c \in Clients, NEW s \in Slots, ServePush(c, s)
    PROVE  rows' \in [Ids -> Row \cup {None}] /\ Forward
<1>. DEFINE p == pushes[c][s]
            valid == \A ch \in p.changes : ch.at =< now + MaxSkew
            done == IF valid THEN Accepted(p.ws, p.changes) ELSE {}
            it(id) == CHOOSE x \in done : x.id = id
            row(id) == [ws |-> p.ws, at |-> it(id).at, deleted |-> it(id).deleted]
<1>1. p \in Push
  BY DEF ServePush, TypeOK
<1>2. /\ p.ws \in Workspaces /\ p.changes \subseteq Change
  BY <1>1 DEF Push
<1>3. rows' = [id \in Ids |-> IF \E ch \in done : ch.id = id THEN row(id) ELSE rows[id]]
  BY DEF ServePush
<1>4. \A ch \in done : ch \in Change /\
         \/ rows[ch.id] = None
         \/ rows[ch.id].ws = p.ws /\ ~ (rows[ch.id].at > ch.at)
  BY <1>2 DEF Accepted
<1>5. ASSUME NEW id \in Ids, \E ch \in done : ch.id = id
      PROVE  /\ row(id) \in Row
             /\ rows[id] # None => rows[id].ws = p.ws /\ it(id).at >= rows[id].at
  <2>. HIDE DEF done
  <2>1. it(id) \in done /\ it(id).id = id
    BY <1>5
  <2>. HIDE DEF it
  <2>2. it(id) \in Change
    BY <1>4, <2>1
  <2>3. it(id).at \in Times /\ it(id).deleted \in BOOLEAN
    BY <2>2 DEF Change
  <2>4. row(id) \in Row
    BY <1>2, <2>3 DEF Row
  <2>5. ASSUME rows[id] # None PROVE rows[id].ws = p.ws /\ it(id).at >= rows[id].at
    <3>1. rows[id] \in Row
      BY <2>5 DEF TypeOK
    <3>2. rows[id].at \in Int /\ it(id).at \in Int
      BY <2>3, <3>1, SyncSystemAssumption DEF Row, Times
    <3>3. rows[id].ws = p.ws /\ ~ (rows[id].at > it(id).at)
      BY <1>4, <2>1, <2>5
    <3>. QED BY <3>2, <3>3
  <2>. QED BY <2>4, <2>5
<1>. HIDE DEF p, done, it
<1>6. rows' \in [Ids -> Row \cup {None}]
  BY <1>3, <1>5 DEF TypeOK
<1>7. ASSUME NEW id \in Ids, rows[id] # None
      PROVE  rows'[id] # None /\ rows'[id].ws = rows[id].ws /\ rows'[id].at >= rows[id].at
  <2>1. CASE \E ch \in done : ch.id = id
    <3>1. rows'[id] = row(id)
      BY <1>3, <2>1
    <3>. QED BY <1>5, <1>7, <2>1, <3>1, SyncSystemAssumption
  <2>2. CASE ~ \E ch \in done : ch.id = id
    <3>1. rows'[id] = rows[id] /\ rows[id] \in Row
      BY <1>3, <1>7, <2>2 DEF TypeOK
    <3>2. rows[id].at \in Int
      BY <3>1, SyncSystemAssumption DEF Row, Times
    <3>. QED BY <1>7, <3>1, <3>2
  <2>. QED BY <2>1, <2>2
<1>. QED BY <1>6, <1>7 DEF Forward

(* what is on the server stays there *)
LEMMA ForwardKeeps ==
    ASSUME NEW id \in Ids, NEW w, NEW at \in Times, rows \in [Ids -> Row \cup {None}],
           rows' \in [Ids -> Row \cup {None}], Forward, OnServer(rows, id, w, at)
    PROVE  OnServer(rows', id, w, at)
<1>1. rows[id] \in Row /\ rows'[id] \in Row
  BY DEF Forward, OnServer
<1>2. rows[id].at \in Int /\ rows'[id].at \in Int /\ at \in Int
  BY <1>1, SyncSystemAssumption DEF Row, Times
<1>. QED BY <1>2 DEF Forward, OnServer

-----------------------------------------------------------------------------
(* The initial states *)

LEMMA InitInv == Init => IInv
<1>. SUFFICES ASSUME Init PROVE IInv
  OBVIOUS
<1>1. 0 \in Times /\ now = 1 /\ 1 \in 1..MaxTime
  BY SyncSystemAssumption DEF Init, Times
<1>2. Empty \in Store /\ \A c \in Clients : Initial(c) \in Store
  BY <1>1, FirstTime DEF Initial, Empty, Store
<1>3. TypeOK
  BY <1>1, <1>2, SyncSystemAssumption DEF Init, TypeOK, Spaces
<1>4. AckedReachesServer
  BY DEF Init, AckedReachesServer, Empty
<1>5. PushesSound
  BY DEF Init, PushesSound
<1>. QED BY <1>3, <1>4, <1>5 DEF IInv

LEMMA JoinedInv == ASSUME NEW w \in Workspaces PROVE Joined(w) => IInv
<1>. SUFFICES ASSUME Joined(w) PROVE IInv
  OBVIOUS
<1>1. 0 \in Times /\ now = 1 /\ 1 \in 1..MaxTime
  BY SyncSystemAssumption DEF Joined, Times
<1>2. Empty \in Store /\ \A c \in Clients : Initial(c) \in Store
  BY <1>1, FirstTime DEF Initial, Empty, Store
<1>3. TypeOK
  BY <1>1, <1>2, SyncSystemAssumption DEF Joined, TypeOK, Spaces, Conn
<1>4. AckedReachesServer
  BY DEF Joined, AckedReachesServer, Empty
<1>5. PushesSound
  BY DEF Joined, PushesSound
<1>. QED BY <1>3, <1>4, <1>5 DEF IInv

-----------------------------------------------------------------------------
(* Every step *)

(* steps that leave the rows, the pushes and lastPushed alone *)
LEMMA Untouched ==
    ASSUME AckedReachesServer, PushesSound, UNCHANGED <<rows, lastPushed, pushes>>
    PROVE  AckedReachesServer' /\ PushesSound'
BY DEF AckedReachesServer, PushesSound, PushSound, OnServer

(* the user, the clock, the socket and the disk *)
LEMMA UserType ==
    ASSUME TypeOK, NEW c \in Clients, NEW id \in Ids,
           Create(c, id) \/ Edit(c, id) \/ Delete(c, id)
    PROVE  TypeOK'
<1>1. Spend("edits") /\ UNCHANGED <<server, disk, active, cursor, lastPushed, network>>
  BY DEF Create, Edit, Delete
<1>2. budget' \in [edits : Nat, switches : Nat, losses : Nat, drops : Nat, restarts : Nat]
  BY <1>1, SpendType
<1>3. \E v \in Times \cup {None} : store' = [store EXCEPT ![c][id] = v]
  BY LocalTime DEF Create, Edit, Delete
<1>4. store' \in [Clients -> Store]
  BY <1>3 DEF TypeOK, Store
<1>5. timer' \in [Clients -> Workspaces \cup {None}]
  <2>1. timer' = [timer EXCEPT ![c] = Scheduled(c)]
    BY DEF Create, Edit, Delete
  <2>. QED BY <2>1, TimerType
<1>6. fresh' \in SUBSET Ids
  BY DEF Create, Edit, Delete, TypeOK
<1>. QED BY <1>1, <1>2, <1>4, <1>5, <1>6 DEF TypeOK, server, network

LEMMA SwitchType ==
    ASSUME TypeOK, NEW c \in Clients, NEW w \in Spaces, Switch(c, w)
    PROVE  TypeOK'
<1>1. budget' \in [edits : Nat, switches : Nat, losses : Nat, drops : Nat, restarts : Nat]
  BY SpendType DEF Switch
<1>2. pulls' \in [Clients -> [Slots -> Pull \cup {None}]]
  BY PullStartedType DEF Switch
<1>3. active' \in [Clients -> Spaces] /\ timer' \in [Clients -> Workspaces \cup {None}]
  BY ScheduledType DEF Switch, TypeOK
<1>4. conn' \in [Clients -> Conn \cup {None}]
  <2>1. (IF w = Personal THEN None ELSE [ws |-> w, up |-> FALSE]) \in Conn \cup {None}
    BY DEF Conn, Spaces
  <2>. QED BY <2>1 DEF Switch, TypeOK
<1>. QED BY <1>1, <1>2, <1>3, <1>4 DEF Switch, TypeOK, server

LEMMA SocketType ==
    ASSUME TypeOK, NEW c \in Clients, OpenWs(c) \/ DropWs(c)
    PROVE  TypeOK'
<1>1. conn[c] \in Conn
  BY DEF OpenWs, DropWs, TypeOK
<1>2. \A b \in BOOLEAN : [conn[c] EXCEPT !.up = b] \in Conn
  BY <1>1 DEF Conn
<1>3. conn' \in [Clients -> Conn \cup {None}]
  <2>1. \E b \in BOOLEAN : conn' = [conn EXCEPT ![c] = [conn[c] EXCEPT !.up = b]]
    BY DEF OpenWs, DropWs
  <2>. QED BY <1>2, <2>1 DEF TypeOK
<1>4. hints' \in [Clients -> SUBSET Workspaces]
  <2>1. \E W \in SUBSET Workspaces :
           hints' = [hints EXCEPT ![c] = hints[c] \ W] \/ hints' = hints
    BY <1>1 DEF OpenWs, DropWs, Conn
  <2>2. hints \in [Clients -> SUBSET Workspaces]
    BY DEF TypeOK
  <2>. QED BY <2>1, <2>2
<1>5. budget' \in [edits : Nat, switches : Nat, losses : Nat, drops : Nat, restarts : Nat]
  BY SpendType DEF OpenWs, DropWs, TypeOK
<1>. QED BY <1>3, <1>4, <1>5 DEF OpenWs, DropWs, TypeOK, server, local

LEMMA RestartType ==
    ASSUME TypeOK, NEW c \in Clients, Restart(c)
    PROVE  TypeOK'
<1>1. budget' \in [edits : Nat, switches : Nat, losses : Nat, drops : Nat, restarts : Nat]
  BY SpendType DEF Restart
<1>2. disk[c] \in [store : Store, active : Spaces]
  BY DEF TypeOK
<1>3. Empty \in Store
  BY DEF Empty, Store
<1>4. /\ store' \in [Clients -> Store] /\ active' \in [Clients -> Spaces]
      /\ lastPushed' \in [Clients -> [Workspaces -> Store]]
      /\ timer' \in [Clients -> Workspaces \cup {None}]
      /\ pushes' \in [Clients -> [Slots -> Push \cup {None}]]
      /\ conn' \in [Clients -> Conn \cup {None}]
      /\ hints' \in [Clients -> SUBSET Workspaces]
  BY <1>2, <1>3 DEF Restart, TypeOK
<1>5. pulls' \in [Clients -> [Slots -> Pull \cup {None}]]
  <2>. DEFINE p == [ws |-> disk[c].active, since |-> cursor[c][disk[c].active],
                    time |-> None, changes |-> {}]
              first == CHOOSE s \in Slots : TRUE
  <2>1. disk[c].active # Personal => p \in Pull
    BY <1>2 DEF TypeOK, Spaces, Pull
  <2>2. pulls' = [pulls EXCEPT ![c] =
           IF disk[c].active = Personal THEN [s \in Slots |-> None]
           ELSE [s \in Slots |-> IF s # first THEN None ELSE p]]
    BY DEF Restart
  <2>. HIDE DEF p, first
  <2>. QED BY <2>1, <2>2 DEF TypeOK
<1>. QED BY <1>1, <1>4, <1>5 DEF Restart, TypeOK, server

(* pushes *)
LEMMA FireInv ==
    ASSUME IInv, NEW c \in Clients, FirePush(c)
    PROVE  IInv'
<1>. DEFINE w == timer[c]
            changes == Diff(c, lastPushed[c][w], store[c])
            p == [ws |-> w, changes |-> changes, snapshot |-> store[c], res |-> "sent"]
<1>. USE DEF IInv
<1>1. /\ w \in Workspaces /\ store[c] \in Store /\ lastPushed[c][w] \in Store
  BY DEF FirePush, TypeOK
<1>2. p \in Push
  BY <1>1, DiffType DEF Push
<1>3. PushSound(rows, p)
  <2>1. ASSUME NEW ch \in changes, store[c][ch.id] # None PROVE ch.at = store[c][ch.id]
    BY <2>1 DEF Diff
  <2>2. ASSUME NEW id \in Ids, store[c][id] # None, \A ch \in changes : ch.id # id
        PROVE  OnServer(rows, id, w, store[c][id])
    <3>1. store[c][id] = lastPushed[c][w][id]
      <4>1. CASE store[c][id] # lastPushed[c][w][id]
        <5>1. [id |-> id, at |-> store[c][id], deleted |-> FALSE] \in changes
          BY <2>2, <4>1 DEF Diff
        <5>. QED BY <2>2, <5>1
      <4>. QED BY <4>1
    <3>. QED BY <1>1, <2>2, <3>1 DEF AckedReachesServer, OnServer
  <2>3. ASSUME NEW ch \in changes, ch.deleted
        PROVE  rows[ch.id] # None /\ rows[ch.id].ws = w
    <3>1. ch.id \in Ids /\ lastPushed[c][w][ch.id] # None
      BY <2>3 DEF Diff
    <3>. QED BY <1>1, <3>1 DEF AckedReachesServer
  <2>. QED BY <2>1, <2>2, <2>3 DEF PushSound
<1>. HIDE DEF p, changes
<1>4. /\ pushes' \in [Clients -> [Slots -> Push \cup {None}]]
      /\ \A d \in Clients, s \in Slots : pushes'[d][s] \in {p, pushes[d][s]}
  <2>1. pushes' = pushes \/ \E s \in Slots : pushes' = [pushes EXCEPT ![c][s] = p]
    BY DEF FirePush, p, changes
  <2>2. CASE pushes' = pushes
    BY <2>2 DEF TypeOK
  <2>3. ASSUME NEW s \in Slots, pushes' = [pushes EXCEPT ![c][s] = p]
        PROVE  /\ pushes' \in [Clients -> [Slots -> Push \cup {None}]]
               /\ \A d \in Clients, t \in Slots : pushes'[d][t] \in {p, pushes[d][t]}
    <3>1. p \in Push \cup {None}
      BY <1>2
    <3>2. /\ pushes' \in [Clients -> [Slots -> Push \cup {None}]]
          /\ \A d \in Clients, t \in Slots :
                pushes'[d][t] = IF d = c /\ t = s THEN p ELSE pushes[d][t]
      BY <2>3, <3>1, PushReplaced
    <3>. QED BY <3>2
  <2>. QED BY <2>1, <2>2, <2>3
<1>5. UNCHANGED <<now, rows, store, disk, active, cursor, lastPushed, fresh, pulls, conn, hints, budget>>
  BY DEF FirePush, server
<1>6. TypeOK'
  <2>1. timer' \in [Clients -> Workspaces \cup {None}]
    BY DEF FirePush, TypeOK
  <2>. QED BY <1>4, <1>5, <2>1 DEF TypeOK
<1>7. AckedReachesServer'
  BY <1>5 DEF AckedReachesServer
<1>8. PushesSound'
  <2>1. ASSUME NEW d \in Clients, NEW s \in Slots, pushes'[d][s] # None
        PROVE  PushSound(rows, pushes'[d][s])
    BY <1>3, <1>4, <2>1 DEF PushesSound
  <2>. QED BY <1>5, <2>1 DEF PushesSound
<1>. QED BY <1>6, <1>7, <1>8

LEMMA ServePushInv ==
    ASSUME IInv, NEW c \in Clients, NEW s \in Slots, ServePush(c, s)
    PROVE  IInv'
<1>. USE DEF IInv
<1>. DEFINE p == pushes[c][s]
            valid == \A ch \in p.changes : ch.at =< now + MaxSkew
            done == IF valid THEN Accepted(p.ws, p.changes) ELSE {}
            answer == IF ~ valid THEN "error" ELSE IF done = p.changes THEN "ok" ELSE "conflict"
<1>1. rows' \in [Ids -> Row \cup {None}] /\ Forward
  BY ServeForward
<1>2. p \in Push /\ PushSound(rows, p)
  BY DEF ServePush, TypeOK, PushesSound
<1>3. /\ pushes' = [pushes EXCEPT ![c][s].res = answer]
      /\ UNCHANGED <<now, local, pulls, conn, budget>>
  BY DEF ServePush
<1>4. hints' \in [Clients -> SUBSET Workspaces]
  BY <1>2 DEF ServePush, TypeOK, Push
<1>5. [p EXCEPT !.res = answer] \in Push
  BY <1>2 DEF Push
<1>6. /\ pushes' \in [Clients -> [Slots -> Push \cup {None}]]
      /\ \A d \in Clients, t \in Slots :
            pushes'[d][t] = IF d = c /\ t = s THEN [p EXCEPT !.res = answer] ELSE pushes[d][t]
  <2>. HIDE DEF answer, p
  <2>1. pushes' = [pushes EXCEPT ![c][s] = [p EXCEPT !.res = answer]]
    BY <1>3 DEF p
  <2>. QED BY <1>5, <2>1, PushReplaced
<1>8. TypeOK'
  BY <1>1, <1>3, <1>4, <1>6 DEF TypeOK, local
<1>9. \A id \in Ids, w \in Workspaces, at \in Times :
         OnServer(rows, id, w, at) => OnServer(rows', id, w, at)
  BY <1>1, ForwardKeeps DEF TypeOK
<1>10. AckedReachesServer'
  <2>1. ASSUME NEW d \in Clients, NEW w \in Workspaces, NEW id \in Ids,
               lastPushed[d][w][id] # None
        PROVE  OnServer(rows', id, w, lastPushed[d][w][id])
    <3>1. lastPushed[d][w][id] \in Times
      BY <2>1 DEF TypeOK, Store
    <3>2. OnServer(rows, id, w, lastPushed[d][w][id])
      BY <2>1 DEF AckedReachesServer, OnServer
    <3>. QED BY <1>9, <3>1, <3>2
  <2>2. lastPushed' = lastPushed
    BY <1>3 DEF local
  <2>. QED BY <2>1, <2>2 DEF AckedReachesServer, OnServer
<1>11. ASSUME NEW d \in Clients, NEW t \in Slots, pushes'[d][t] # None
       PROVE  PushSound(rows', pushes'[d][t])
  <2>. DEFINE q == pushes[d][t]
  <2>1. q # None
    BY <1>2, <1>6, <1>11 DEF ServePush
  <2>2. q \in Push /\ PushSound(rows, q)
    BY <2>1 DEF TypeOK, PushesSound
  <2>3. /\ pushes'[d][t].ws = q.ws /\ pushes'[d][t].changes = q.changes
        /\ pushes'[d][t].snapshot = q.snapshot
        /\ pushes'[d][t].res = IF d = c /\ t = s THEN answer ELSE q.res
    <3>. HIDE DEF answer
    <3>. QED BY <1>2, <1>6, <2>2 DEF Push
  <2>4. /\ q.ws \in Workspaces
        /\ \A id \in Ids : q.snapshot[id] # None => q.snapshot[id] \in Times
    BY <2>2 DEF Push, Store
  <2>5. \A id \in Ids :
           q.snapshot[id] # None /\ OnServer(rows, id, q.ws, q.snapshot[id])
           => OnServer(rows', id, q.ws, q.snapshot[id])
    BY <1>9, <2>4
  <2>6. ASSUME d = c /\ t = s, answer = "ok", NEW id \in Ids, q.snapshot[id] # None
        PROVE  OnServer(rows', id, q.ws, q.snapshot[id])
    <3>1. valid /\ done = p.changes /\ q = p
      BY <2>6
    <3>2. CASE \A ch \in p.changes : ch.id # id
      BY <2>2, <2>5, <2>6, <3>1, <3>2 DEF PushSound
    <3>3. CASE \E ch \in p.changes : ch.id = id
      <4>. DEFINE it == CHOOSE x \in done : x.id = id
      <4>1. rows'[id] = [ws |-> p.ws, at |-> it.at, deleted |-> it.deleted]
        BY <3>1, <3>3 DEF ServePush
      <4>2. it \in p.changes /\ it.id = id
        BY <3>1, <3>3
      <4>. HIDE DEF it
      <4>3. it.at = p.snapshot[id] /\ p.snapshot[id] \in Int
        BY <2>2, <2>4, <2>6, <3>1, <4>2, SyncSystemAssumption DEF PushSound, Times
      <4>4. rows'[id] # None
        BY <1>1, <1>2, <4>1, <4>2, SyncSystemAssumption DEF Push, Change, Row
      <4>. QED BY <3>1, <4>1, <4>3, <4>4 DEF OnServer
    <3>. QED BY <3>2, <3>3
  <2>7. ASSUME NEW ch \in q.changes, ch.deleted
        PROVE  rows'[ch.id] # None /\ rows'[ch.id].ws = q.ws
    <3>1. ch.id \in Ids
      BY <2>2 DEF Push, Change
    <3>. QED BY <1>1, <2>2, <2>7, <3>1 DEF PushSound, Forward
  <2>. QED
    <3>. HIDE DEF answer
    <3>. QED BY <2>2, <2>3, <2>5, <2>6, <2>7 DEF PushSound
<1>. QED BY <1>8, <1>10, <1>11 DEF PushesSound

LEMMA AckInv ==
    ASSUME IInv, NEW c \in Clients, NEW s \in Slots, AckPush(c, s) \/ LosePush(c, s)
    PROVE  IInv'
<1>. USE DEF IInv
<1>. DEFINE p == pushes[c][s]
<1>1. /\ p \in Push /\ PushSound(rows, p)
      /\ pushes' = [pushes EXCEPT ![c][s] = None]
      /\ UNCHANGED <<now, rows, store, disk, active, cursor, fresh, conn, hints>>
  BY DEF AckPush, LosePush, TypeOK, PushesSound, server, local
<1>2. /\ pushes' \in [Clients -> [Slots -> Push \cup {None}]]
      /\ \A d \in Clients, t \in Slots : pushes'[d][t] \in {None, pushes[d][t]}
  BY <1>1, PushReplaced
<1>3. pulls' \in [Clients -> [Slots -> Pull \cup {None}]]
  <2>1. p.ws \in Spaces
    BY <1>1 DEF Push, Spaces
  <2>. QED BY <2>1, PullStartedType DEF AckPush, LosePush, TypeOK
<1>4. budget' \in [edits : Nat, switches : Nat, losses : Nat, drops : Nat, restarts : Nat]
  BY SpendType DEF AckPush, LosePush, TypeOK
<1>5. \/ lastPushed' = lastPushed
      \/ /\ p.res = "ok"
         /\ lastPushed' = [lastPushed EXCEPT ![c][p.ws] = p.snapshot]
  BY DEF AckPush, LosePush, local
<1>6. lastPushed' \in [Clients -> [Workspaces -> Store]]
  <2>1. p.snapshot \in Store /\ lastPushed \in [Clients -> [Workspaces -> Store]]
    BY <1>1 DEF Push, TypeOK
  <2>. HIDE DEF p
  <2>. QED BY <1>5, <2>1
<1>7. timer' \in [Clients -> Workspaces \cup {None}]
  <2>1. timer' = timer \/ timer' = [timer EXCEPT ![c] = Scheduled(c)]
    BY DEF AckPush, LosePush, local
  <2>. QED BY <2>1, TimerType
<1>10. TypeOK'
  BY <1>1, <1>2, <1>3, <1>4, <1>6, <1>7 DEF TypeOK
<1>8. AckedReachesServer'
  <2>1. ASSUME NEW d \in Clients, NEW w \in Workspaces, NEW id \in Ids,
               lastPushed'[d][w][id] # None
        PROVE  OnServer(rows, id, w, lastPushed'[d][w][id])
    <3>1. CASE lastPushed'[d][w] = lastPushed[d][w]
      BY <2>1, <3>1 DEF AckedReachesServer, OnServer
    <3>2. CASE p.res = "ok" /\ w = p.ws /\ lastPushed'[d][w] = p.snapshot
      BY <1>1, <2>1, <3>2 DEF PushSound
    <3>3. lastPushed \in [Clients -> [Workspaces -> Store]]
      BY DEF TypeOK
    <3>. HIDE DEF p
    <3>. QED BY <1>5, <3>1, <3>2, <3>3
  <2>. QED BY <1>1, <2>1 DEF AckedReachesServer, OnServer
<1>9. PushesSound'
  BY <1>1, <1>2 DEF PushesSound
<1>. QED BY <1>8, <1>9, <1>10

(* pulls *)
LEMMA PullType ==
    ASSUME TypeOK, NEW c \in Clients, NEW s \in Slots,
           ServePull(c, s) \/ EndPull(c, s) \/ LosePull(c, s)
    PROVE  TypeOK'
<1>. DEFINE p == pulls[c][s]
<1>1. p \in Pull
  BY DEF ServePull, EndPull, LosePull, TypeOK
<1>2. p.ws \in Workspaces /\ p.changes \subseteq Change
  BY <1>1 DEF Pull
<1>3. CASE ServePull(c, s)
  <2>. DEFINE changes == {[id |-> id, at |-> rows[id].at, deleted |-> rows[id].deleted] :
                             id \in {i \in Ids : rows[i] # None /\ rows[i].ws = p.ws
                                                    /\ rows[i].at > p.since}}
              q == [[p EXCEPT !.time = now] EXCEPT !.changes = changes]
  <2>1. ASSUME NEW ch \in changes PROVE ch \in Change
    <3>1. PICK id \in Ids : /\ rows[id] # None
                            /\ ch = [id |-> id, at |-> rows[id].at, deleted |-> rows[id].deleted]
      OBVIOUS
    <3>2. rows[id] \in Row
      BY <3>1 DEF TypeOK
    <3>. QED BY <3>1, <3>2 DEF Row, Change
  <2>2. now \in Times
    BY SyncSystemAssumption DEF TypeOK, Times
  <2>3. pulls' = [[pulls EXCEPT ![c][s].time = now] EXCEPT ![c][s].changes = changes]
    BY <1>3 DEF ServePull
  <2>. HIDE DEF changes
  <2>4. q \in Pull
    BY <1>1, <2>1, <2>2 DEF Pull
  <2>5. pulls' = [pulls EXCEPT ![c][s] = q]
    BY <2>3 DEF TypeOK
  <2>. HIDE DEF q
  <2>6. pulls \in [Clients -> [Slots -> Pull \cup {None}]]
    BY DEF TypeOK
  <2>7. pulls' \in [Clients -> [Slots -> Pull \cup {None}]]
    BY <2>4, <2>5, <2>6
  <2>. QED BY <1>3, <2>7 DEF ServePull, TypeOK, server, local
<1>4. CASE EndPull(c, s)
  <2>1. p.time \in Times
    BY <1>1, <1>4 DEF EndPull, Pull
  <2>2. [id \in Ids |-> Merged(store[c][id], p.changes, id)] \in Store
    <3>1. ASSUME NEW id \in Ids PROVE Merged(store[c][id], p.changes, id) \in Times \cup {None}
      <4>1. store[c][id] \in Times \cup {None}
        BY DEF TypeOK, Store
      <4>. QED BY <1>2, <4>1, MergedType
    <3>. QED BY <3>1 DEF Store
  <2>3. store' \in [Clients -> Store]
    BY <1>4, <2>2 DEF EndPull, TypeOK
  <2>4. cursor' \in [Clients -> [Workspaces -> Times]]
    BY <1>2, <1>4, <2>1 DEF EndPull, TypeOK
  <2>5. timer' \in [Clients -> Workspaces \cup {None}]
    BY <1>4, ScheduledType DEF EndPull, TypeOK
  <2>6. pulls' \in [Clients -> [Slots -> Pull \cup {None}]]
    BY <1>4 DEF EndPull, TypeOK
  <2>. QED BY <1>4, <2>3, <2>4, <2>5, <2>6 DEF EndPull, TypeOK, server
<1>5. CASE LosePull(c, s)
  <2>1. budget' \in [edits : Nat, switches : Nat, losses : Nat, drops : Nat, restarts : Nat]
    BY <1>5, SpendType DEF LosePull
  <2>. QED BY <1>5, <2>1 DEF LosePull, TypeOK, server, local
<1>. QED BY <1>3, <1>4, <1>5

LEMMA RestartInv ==
    ASSUME IInv, NEW c \in Clients, Restart(c)
    PROVE  IInv'
<1>. USE DEF IInv
<1>1. TypeOK'
  BY RestartType
<1>2. /\ lastPushed' = [lastPushed EXCEPT ![c] = [w \in Workspaces |-> Empty]]
      /\ pushes' = [pushes EXCEPT ![c] = [s \in Slots |-> None]]
      /\ rows' = rows
  BY DEF Restart, server
<1>3. AckedReachesServer'
  <2>1. \A d \in Clients, w \in Workspaces, id \in Ids :
           lastPushed'[d][w][id] \in {None, lastPushed[d][w][id]}
    BY <1>2 DEF TypeOK, Empty
  <2>. QED BY <1>2, <2>1 DEF AckedReachesServer
<1>4. PushesSound'
  BY <1>2 DEF PushesSound, TypeOK
<1>. QED BY <1>1, <1>3, <1>4

LEMMA NextInv == IInv /\ [Next]_vars => IInv'
<1>. SUFFICES ASSUME IInv, [Next]_vars PROVE IInv'
  OBVIOUS
<1>. USE DEF IInv
<1>1. CASE Tick
  <2>1. TypeOK'
    BY <1>1, SyncSystemAssumption DEF Tick, TypeOK, local, network
  <2>. QED BY <1>1, <2>1, Untouched DEF Tick, local, network
<1>2. ASSUME NEW c \in Clients, NEW id \in Ids,
             Create(c, id) \/ Edit(c, id) \/ Delete(c, id)
      PROVE  IInv'
  BY <1>2, UserType, Untouched DEF Create, Edit, Delete, server, network
<1>3. ASSUME NEW c \in Clients, NEW w \in Spaces, Switch(c, w) PROVE IInv'
  BY <1>3, SwitchType, Untouched DEF Switch, server
<1>4. ASSUME NEW c \in Clients, FirePush(c) PROVE IInv'
  BY <1>4, FireInv
<1>5. ASSUME NEW c \in Clients, NEW s \in Slots,
             ServePush(c, s) \/ AckPush(c, s) \/ LosePush(c, s)
      PROVE  IInv'
  BY <1>5, ServePushInv, AckInv
<1>6. ASSUME NEW c \in Clients, NEW s \in Slots,
             ServePull(c, s) \/ EndPull(c, s) \/ LosePull(c, s)
      PROVE  IInv'
  BY <1>6, PullType, Untouched DEF ServePull, EndPull, LosePull, server, local
<1>7. ASSUME NEW c \in Clients, OpenWs(c) \/ DropWs(c) PROVE IInv'
  BY <1>7, SocketType, Untouched DEF OpenWs, DropWs, server, local
<1>8. ASSUME NEW c \in Clients, NEW w \in Workspaces, ReceiveHint(c, w) PROVE IInv'
  <2>1. pulls' \in [Clients -> [Slots -> Pull \cup {None}]]
    BY <1>8, PullStartedType DEF ReceiveHint, Spaces
  <2>2. TypeOK'
    BY <1>8, <2>1 DEF ReceiveHint, TypeOK, server, local
  <2>. QED BY <1>8, <2>2, Untouched DEF ReceiveHint, server, local
<1>9. ASSUME NEW c \in Clients, SaveDisk(c) PROVE IInv'
  <2>1. TypeOK'
    BY <1>9 DEF SaveDisk, TypeOK, server, network
  <2>. QED BY <1>9, <2>1, Untouched DEF SaveDisk, server, network
<1>10. ASSUME NEW c \in Clients, Restart(c) PROVE IInv'
  BY <1>10, RestartInv
<1>11. CASE UNCHANGED vars
  <2>1. TypeOK'
    BY <1>11 DEF vars, TypeOK
  <2>. QED BY <1>11, <2>1, Untouched DEF vars
<1>. QED BY <1>1, <1>2, <1>3, <1>4, <1>5, <1>6, <1>7, <1>8, <1>9, <1>10, <1>11 DEF Next

-----------------------------------------------------------------------------
LEMMA Invariance == Spec => []IInv
<1>. QED BY InitInv, NextInv, PTL DEF Spec

LEMMA JoinedInvariance == JoinedSpec => []IInv
<1>1. (\E w \in Workspaces : Joined(w)) => IInv
  BY JoinedInv
<1>. QED BY <1>1, NextInv, PTL DEF JoinedSpec

(* The types of every store, cursor, request and message, with any number   *)
(* of clients and concurrent requests.                                      *)
THEOREM TypeCorrect == Spec => []TypeOK
<1>1. IInv => TypeOK
  BY DEF IInv
<1>. QED BY <1>1, Invariance, PTL

(* What a client takes for pushed is on the server: requests may overlap,   *)
(* get lost, cross workspace switches and page reloads, and other members   *)
(* may push the same entities.                                              *)
THEOREM AckedReachesServerHolds == (Spec \/ JoinedSpec) => []AckedReachesServer
<1>1. IInv => AckedReachesServer
  BY DEF IInv
<1>. QED BY <1>1, Invariance, JoinedInvariance, PTL

(* A client deletes in a workspace only what the server has there, although *)
(* its store holds the entities of every workspace it has been in.          *)
THEOREM DeletionsAreKnownHolds == (Spec \/ JoinedSpec) => []DeletionsAreKnown
<1>1. IInv => DeletionsAreKnown
  BY DEF IInv, PushesSound, PushSound, DeletionsAreKnown
<1>. QED BY <1>1, Invariance, JoinedInvariance, PTL
=============================================================================
