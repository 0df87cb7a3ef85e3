----------------------------- MODULE SyncSystem -----------------------------
(***************************************************************************)
(* Web clients and the sync server: the engine of reqy-web                 *)
(* (hooks/store/sync.ts, lib/sync/store-sync.ts, lib/sync-client.ts, the   *)
(* commit wrapper and the boot sequence of hooks/use-request-store.ts)     *)
(* talking to GET /poll, POST /push and the WebSocket hub.                 *)
(*                                                                         *)
(* An entity of a client's store is reduced to its updatedAt, which is all *)
(* the diff, the conflict rule and the merge look at.  Entities are        *)
(* collections and environments, which every side treats alike; folders    *)
(* are in SyncServer.  A server row drops the version, which this client   *)
(* never sends back.  Every user is an editor: roles are in SyncServer and *)
(* Membership.  A poll is answered in one page.                            *)
(***************************************************************************)
EXTENDS Integers

CONSTANTS
    Clients,        \* browsers, one signed-in user each
    Workspaces,     \* shared workspaces
    Ids,            \* collections and environments
    Defaults,       \* the ids every client is born with ("env-global")
    Personal,       \* WORKSPACE_PERSONAL_ID, never synchronised
    None,           \* absent
    Ahead,          \* Ahead[c]: how far c's clock runs before the server's
    MaxSkew,        \* the 60 s of clock skew POST /push tolerates
    MaxTime,        \* bound on the server clock, which starts at 1
    MaxEdits,       \* bound on user edits and deletions
    MaxSwitches,    \* bound on workspace switches
    MaxLosses,      \* bound on lost requests and answers
    MaxDrops,       \* bound on broken connections
    MaxRestarts,    \* bound on page reloads
    Slots           \* bound: concurrent pushes, and pulls, of one client

Times == 0..(MaxTime + MaxSkew + 1)
Spaces == Workspaces \cup {Personal}

Row == [ws : Workspaces, at : Times, deleted : BOOLEAN]

ASSUME SyncSystemAssumption ==
    /\ MaxTime \in Nat \ {0} /\ MaxSkew \in Nat
    /\ Ahead \in [Clients -> 0..(MaxSkew + 1)]
    /\ MaxEdits \in Nat /\ MaxSwitches \in Nat
    /\ MaxLosses \in Nat /\ MaxDrops \in Nat /\ MaxRestarts \in Nat
    /\ Defaults \subseteq Ids
    /\ Personal \notin Workspaces
    /\ None \notin Times \cup Spaces \cup Row

VARIABLES
    now,            \* the server's clock
    rows,           \* rows of the server
    store,          \* store[c]: collections and environments in memory
    disk,           \* disk[c]: the last saved store and active workspace
    active,         \* active[c]: activeWorkspaceId
    cursor,         \* cursor[c][w]: localStorage sync cursor
    lastPushed,     \* lastPushed[c][w]: last snapshot the server took
    timer,          \* timer[c]: workspace of the debounced push, or None
    pushes,         \* pushes[c][s]: POST /push in flight
    pulls,          \* pulls[c][s]: GET /poll in flight
    conn,           \* conn[c]: the WebSocket subscription
    hints,          \* hints[c]: workspaces with a "change" message under way
    fresh,          \* ids nobody has generated yet: a new id is a new UUID
    budget          \* what is left of the bounds

server == <<now, rows>>
local == <<store, disk, active, cursor, lastPushed, timer, fresh>>
network == <<pushes, pulls, conn, hints>>
vars == <<now, rows, store, disk, active, cursor, lastPushed, timer,
          pushes, pulls, conn, hints, fresh, budget>>

LocalNow(c) == now + Ahead[c]

Store == [Ids -> Times \cup {None}]
Empty == [id \in Ids |-> None]
Change == [id : Ids, at : Times, deleted : BOOLEAN]

(* res: "sent" while the request is on its way, then the server's answer *)
Push == [ws : Workspaces, changes : SUBSET Change, snapshot : Store,
         res : {"sent", "ok", "conflict", "error"}]
Pull == [ws : Workspaces, since : Times, time : Times \cup {None},
         changes : SUBSET Change]
Conn == [ws : Workspaces, up : BOOLEAN]

TypeOK ==
    /\ now \in 1..MaxTime
    /\ rows \in [Ids -> Row \cup {None}]
    /\ store \in [Clients -> Store]
    /\ disk \in [Clients -> [store : Store, active : Spaces]]
    /\ active \in [Clients -> Spaces]
    /\ cursor \in [Clients -> [Workspaces -> Times]]
    /\ lastPushed \in [Clients -> [Workspaces -> Store]]
    /\ timer \in [Clients -> Workspaces \cup {None}]
    /\ pushes \in [Clients -> [Slots -> Push \cup {None}]]
    /\ pulls \in [Clients -> [Slots -> Pull \cup {None}]]
    /\ conn \in [Clients -> Conn \cup {None}]
    /\ hints \in [Clients -> SUBSET Workspaces]
    /\ fresh \in SUBSET Ids
    /\ budget \in [edits : Nat, switches : Nat, losses : Nat, drops : Nat, restarts : Nat]

(* the store of a client that is opened for the first time *)
Initial(c) == [id \in Ids |-> IF id \in Defaults THEN LocalNow(c) ELSE None]

(* Every client has opened the application for the first time.  The clock   *)
(* starts at 1: a cursor of 0 is behind every edit.                         *)
Init ==
    /\ now = 1
    /\ rows = [id \in Ids |-> None]
    /\ store = [c \in Clients |-> Initial(c)]
    /\ disk = [c \in Clients |-> [store |-> Initial(c), active |-> Personal]]
    /\ active = [c \in Clients |-> Personal]
    /\ cursor = [c \in Clients |-> [w \in Workspaces |-> 0]]
    /\ lastPushed = [c \in Clients |-> [w \in Workspaces |-> Empty]]
    /\ timer = [c \in Clients |-> None]
    /\ pushes = [c \in Clients |-> [s \in Slots |-> None]]
    /\ pulls = [c \in Clients |-> [s \in Slots |-> None]]
    /\ conn = [c \in Clients |-> None]
    /\ hints = [c \in Clients |-> {}]
    /\ fresh = Ids \ Defaults
    /\ budget = [edits |-> MaxEdits, switches |-> MaxSwitches,
                 losses |-> MaxLosses, drops |-> MaxDrops, restarts |-> MaxRestarts]

-----------------------------------------------------------------------------
(* Helpers *)

Spend(what) == budget[what] > 0 /\ budget' = [budget EXCEPT ![what] = @ - 1]

(* every commit schedules a push of the workspace that WAS active; there is *)
(* one timer, so a push scheduled for another workspace is cancelled        *)
Scheduled(c) == IF active[c] = Personal THEN timer[c] ELSE active[c]

(* pullWorkspace: the cursor is read when the pull starts *)
PullStarted(c, w) ==
    IF w = Personal THEN UNCHANGED pulls
    ELSE \E s \in Slots :
            /\ pulls[c][s] = None
            /\ pulls' = [pulls EXCEPT ![c][s] =
                  [ws |-> w, since |-> cursor[c][w], time |-> None, changes |-> {}]]

(* computePushChanges: the whole store, whatever workspace its entities are *)
(* in, against the last snapshot taken by the server for this workspace     *)
Diff(c, base, next) ==
    {[id |-> id, at |-> next[id], deleted |-> FALSE] :
        id \in {i \in Ids : next[i] # None /\ next[i] # base[i]}}
    \cup
    {[id |-> id, at |-> LocalNow(c), deleted |-> TRUE] :
        id \in {i \in Ids : next[i] = None /\ base[i] # None}}

(* mergeChangesIntoStore, for one entity and the change about it, if any *)
Merged(mine, changes, id) ==
    IF \A ch \in changes : ch.id # id THEN mine
    ELSE LET ch == CHOOSE x \in changes : x.id = id
         IN  IF ch.deleted THEN None
             ELSE IF mine = None \/ ch.at > mine THEN ch.at ELSE mine

(* mutant: a version the server has already is a conflict *)
AcceptedNewer(w, changes) ==
    {ch \in changes : \/ rows[ch.id] = None
                      \/ rows[ch.id].ws = w /\ rows[ch.id].at < ch.at}

(* pushChanges on the server: foreign or newer rows are conflicts *)
Accepted(w, changes) ==
    {ch \in changes : \/ rows[ch.id] = None
                      \/ rows[ch.id].ws = w /\ ~ (rows[ch.id].at > ch.at)}

-----------------------------------------------------------------------------
(* The user *)

Tick == now < MaxTime /\ now' = now + 1 /\ UNCHANGED <<rows, local, network, budget>>

Create(c, id) ==
    /\ Spend("edits")
    /\ id \in fresh
    /\ fresh' = fresh \ {id}
    /\ store' = [store EXCEPT ![c][id] = LocalNow(c)]
    /\ timer' = [timer EXCEPT ![c] = Scheduled(c)]
    /\ UNCHANGED <<server, disk, active, cursor, lastPushed, network>>

Edit(c, id) ==
    /\ Spend("edits")
    /\ store[c][id] \notin {None, LocalNow(c)}
    /\ store' = [store EXCEPT ![c][id] = LocalNow(c)]
    /\ timer' = [timer EXCEPT ![c] = Scheduled(c)]
    /\ UNCHANGED <<server, disk, active, cursor, lastPushed, fresh, network>>

Delete(c, id) ==
    /\ Spend("edits")
    /\ store[c][id] # None
    /\ store' = [store EXCEPT ![c][id] = None]
    /\ timer' = [timer EXCEPT ![c] = Scheduled(c)]
    /\ UNCHANGED <<server, disk, active, cursor, lastPushed, fresh, network>>

(* setActiveWorkspace, and the subscriber that pulls and reconnects *)
Switch(c, w) ==
    /\ w # active[c]
    /\ Spend("switches")
    /\ active' = [active EXCEPT ![c] = w]
    /\ timer' = [timer EXCEPT ![c] = Scheduled(c)]
    /\ PullStarted(c, w)
    /\ conn' = [conn EXCEPT ![c] =
                   IF w = Personal THEN None ELSE [ws |-> w, up |-> FALSE]]
    /\ UNCHANGED <<server, store, disk, cursor, lastPushed, fresh, pushes, hints>>

-----------------------------------------------------------------------------
(* Pushing *)

(* the debounce timer fires *)
FirePush(c) ==
    /\ timer[c] # None
    /\ timer' = [timer EXCEPT ![c] = None]
    /\ LET changes == Diff(c, lastPushed[c][timer[c]], store[c])
       IN  IF changes = {} THEN UNCHANGED pushes
           ELSE \E s \in Slots :
                  /\ pushes[c][s] = None
                  /\ pushes' = [pushes EXCEPT ![c][s] =
                        [ws |-> timer[c], changes |-> changes,
                         snapshot |-> store[c], res |-> "sent"]]
    /\ UNCHANGED <<server, store, disk, active, cursor, lastPushed, fresh,
                   pulls, conn, hints, budget>>

(* POST /push: validation, the transaction, and the broadcast to every open *)
(* connection of the workspace, the sender's included                       *)
ServePush(c, s) ==
    /\ pushes[c][s] # None
    /\ pushes[c][s].res = "sent"
    /\ LET w == pushes[c][s].ws
           changes == pushes[c][s].changes
           valid == \A ch \in changes : ch.at =< now + MaxSkew
           done == IF valid THEN Accepted(w, changes) ELSE {}
       IN  /\ rows' = [id \in Ids |->
                 IF \E ch \in done : ch.id = id
                 THEN LET ch == CHOOSE x \in done : x.id = id
                      IN  [ws |-> w, at |-> ch.at, deleted |-> ch.deleted]
                 ELSE rows[id]]
           /\ pushes' = [pushes EXCEPT ![c][s].res =
                 IF ~ valid THEN "error"
                 ELSE IF done = changes THEN "ok" ELSE "conflict"]
           /\ hints' = [d \in Clients |->
                 IF done # {} /\ conn[d] = [ws |-> w, up |-> TRUE]
                 THEN hints[d] \cup {w} ELSE hints[d]]
    /\ UNCHANGED <<now, local, pulls, conn, budget>>

(* mutant: what counts as pushed is the store of the moment of the answer *)
AckCurrentStore(c, s) ==
    /\ pushes[c][s] # None
    /\ pushes' = [pushes EXCEPT ![c][s] = None]
    /\ LET p == pushes[c][s]
       IN  \/ /\ p.res = "ok"
              /\ lastPushed' = [lastPushed EXCEPT ![c][p.ws] = store[c]]
              /\ UNCHANGED <<timer, pulls>>
           \/ /\ p.res = "conflict"
              /\ timer' = [timer EXCEPT ![c] = Scheduled(c)]
              /\ PullStarted(c, p.ws)
              /\ UNCHANGED lastPushed
           \/ /\ p.res = "error"
              /\ UNCHANGED <<lastPushed, timer, pulls>>
    /\ UNCHANGED <<server, store, disk, active, cursor, fresh, conn, hints, budget>>

(* mutant: one snapshot serves all workspaces *)
AckOneSnapshot(c, s) ==
    /\ pushes[c][s] # None
    /\ pushes' = [pushes EXCEPT ![c][s] = None]
    /\ LET p == pushes[c][s]
       IN  \/ /\ p.res = "ok"
              /\ lastPushed' = [lastPushed EXCEPT ![c] = [w \in Workspaces |-> p.snapshot]]
              /\ UNCHANGED <<timer, pulls>>
           \/ /\ p.res = "conflict"
              /\ timer' = [timer EXCEPT ![c] = Scheduled(c)]
              /\ PullStarted(c, p.ws)
              /\ UNCHANGED lastPushed
           \/ /\ p.res = "error"
              /\ UNCHANGED <<lastPushed, timer, pulls>>
    /\ UNCHANGED <<server, store, disk, active, cursor, fresh, conn, hints, budget>>

(* The answer reaches the client.  A conflict adds a notification to the    *)
(* store, which is a commit and so schedules a push of the active           *)
(* workspace, and pulls; an error only shows a toast.                       *)
AckPush(c, s) ==
    /\ pushes[c][s] # None
    /\ pushes' = [pushes EXCEPT ![c][s] = None]
    /\ LET p == pushes[c][s]
       IN  \/ /\ p.res = "ok"
              /\ lastPushed' = [lastPushed EXCEPT ![c][p.ws] = p.snapshot]
              /\ UNCHANGED <<timer, pulls>>
           \/ /\ p.res = "conflict"
              /\ timer' = [timer EXCEPT ![c] = Scheduled(c)]
              /\ PullStarted(c, p.ws)
              /\ UNCHANGED lastPushed
           \/ /\ p.res = "error"
              /\ UNCHANGED <<lastPushed, timer, pulls>>
    /\ UNCHANGED <<server, store, disk, active, cursor, fresh, conn, hints, budget>>

(* the request or its answer is lost: the same catch clause *)
LosePush(c, s) ==
    /\ pushes[c][s] # None
    /\ Spend("losses")
    /\ pushes' = [pushes EXCEPT ![c][s] = None]
    /\ UNCHANGED <<server, local, pulls, conn, hints>>

-----------------------------------------------------------------------------
(* Pulling *)

(* GET /poll *)
ServePull(c, s) ==
    /\ pulls[c][s] # None
    /\ pulls[c][s].time = None
    /\ LET p == pulls[c][s]
           hits == {id \in Ids : rows[id] # None /\ rows[id].ws = p.ws
                                   /\ rows[id].at > p.since}
       IN  pulls' = [pulls EXCEPT ![c][s].time = now,
                                  ![c][s].changes =
               {[id |-> id, at |-> rows[id].at, deleted |-> rows[id].deleted] : id \in hits}]
    /\ UNCHANGED <<server, local, pushes, conn, hints, budget>>

(* mutant: a merge cancels the push that was scheduled *)
EndPullCancels(c, s) ==
    /\ pulls[c][s] # None
    /\ pulls[c][s].time # None
    /\ pulls' = [pulls EXCEPT ![c][s] = None]
    /\ LET p == pulls[c][s]
       IN  /\ store' = [store EXCEPT ![c] =
                 [id \in Ids |-> Merged(store[c][id], p.changes, id)]]
           /\ timer' = [timer EXCEPT ![c] = None]
           /\ cursor' = [cursor EXCEPT ![c][p.ws] = p.time]
    /\ UNCHANGED <<server, disk, active, lastPushed, fresh, pushes, conn, hints, budget>>

(* pullAndMerge: the changes are committed, then the cursor is saved *)
EndPull(c, s) ==
    /\ pulls[c][s] # None
    /\ pulls[c][s].time # None
    /\ pulls' = [pulls EXCEPT ![c][s] = None]
    /\ LET p == pulls[c][s]
       IN  /\ store' = [store EXCEPT ![c] =
                 [id \in Ids |-> Merged(store[c][id], p.changes, id)]]
           /\ timer' = [timer EXCEPT ![c] =
                 IF p.changes = {} THEN @ ELSE Scheduled(c)]
           /\ cursor' = [cursor EXCEPT ![c][p.ws] = p.time]
    /\ UNCHANGED <<server, disk, active, lastPushed, fresh, pushes, conn, hints, budget>>

LosePull(c, s) ==
    /\ pulls[c][s] # None
    /\ Spend("losses")
    /\ pulls' = [pulls EXCEPT ![c][s] = None]
    /\ UNCHANGED <<server, local, pushes, conn, hints>>

-----------------------------------------------------------------------------
(* The WebSocket *)

(* a socket opens, the first time or after a reconnect: nothing is pulled *)
OpenWs(c) ==
    /\ conn[c] # None
    /\ ~ conn[c].up
    /\ conn' = [conn EXCEPT ![c].up = TRUE]
    /\ UNCHANGED <<server, local, pushes, pulls, hints, budget>>

(* the connection breaks, with the messages on it *)
DropWs(c) ==
    /\ conn[c] # None
    /\ conn[c].up
    /\ Spend("drops")
    /\ conn' = [conn EXCEPT ![c].up = FALSE]
    /\ hints' = [hints EXCEPT ![c] = @ \ {conn[c].ws}]
    /\ UNCHANGED <<server, local, pushes, pulls>>

(* a "change" message; disconnect() leaves onmessage of the old socket in   *)
(* place, so it may be about a workspace that is no longer active           *)
ReceiveHint(c, w) ==
    /\ w \in hints[c]
    /\ hints' = [hints EXCEPT ![c] = @ \ {w}]
    /\ PullStarted(c, w)
    /\ UNCHANGED <<server, local, pushes, conn, budget>>

-----------------------------------------------------------------------------
(* The page *)

(* the debounced save (bound: a save is not followed once no reload that    *)
(* could read it is left)                                                   *)
SaveDisk(c) ==
    /\ budget.restarts > 0
    /\ disk[c] # [store |-> store[c], active |-> active[c]]
    /\ disk' = [disk EXCEPT ![c] = [store |-> store[c], active |-> active[c]]]
    /\ UNCHANGED <<server, store, active, cursor, lastPushed, timer, fresh, network, budget>>

(* The page is reloaded.  initStore loads the saved store; the subscriber   *)
(* sees the active workspace change and pulls and connects; initStore then  *)
(* calls connectWebSocket with the workspace it had read BEFORE the load,   *)
(* which is the default one, and so disconnects again.                      *)
Restart(c) ==
    /\ Spend("restarts")
    /\ store' = [store EXCEPT ![c] = disk[c].store]
    /\ active' = [active EXCEPT ![c] = disk[c].active]
    /\ lastPushed' = [lastPushed EXCEPT ![c] = [w \in Workspaces |-> Empty]]
    /\ timer' = [timer EXCEPT ![c] = None]
    /\ pushes' = [pushes EXCEPT ![c] = [s \in Slots |-> None]]
    /\ pulls' = [pulls EXCEPT ![c] =
          IF disk[c].active = Personal THEN [s \in Slots |-> None]
          ELSE LET first == CHOOSE s \in Slots : TRUE
               IN  [s \in Slots |-> IF s # first THEN None ELSE
                      [ws |-> disk[c].active, since |-> cursor[c][disk[c].active],
                       time |-> None, changes |-> {}]]]
    /\ conn' = [conn EXCEPT ![c] = None]
    /\ hints' = [hints EXCEPT ![c] = {}]
    /\ UNCHANGED <<server, disk, cursor, fresh>>

-----------------------------------------------------------------------------
Next ==
    \/ Tick
    \/ \E c \in Clients :
          \/ \E id \in Ids : Create(c, id) \/ Edit(c, id) \/ Delete(c, id)
          \/ \E w \in Spaces : Switch(c, w)
          \/ FirePush(c)
          \/ \E s \in Slots : ServePush(c, s) \/ AckPush(c, s) \/ LosePush(c, s)
          \/ \E s \in Slots : ServePull(c, s) \/ EndPull(c, s) \/ LosePull(c, s)
          \/ OpenWs(c)
          \/ DropWs(c)
          \/ \E w \in Workspaces : ReceiveHint(c, w)
          \/ SaveDisk(c)
          \/ Restart(c)

(* Timers fire, sockets deliver or fail, the server answers every request   *)
(* and its answer is taken.  Nothing obliges the user, the network to fail, *)
(* a broken socket to come back, or the clock to advance.                   *)
Fairness ==
    \A c \in Clients :
        /\ WF_vars(FirePush(c))
        /\ \A s \in Slots : /\ WF_vars(ServePush(c, s) \/ AckPush(c, s))
                            /\ WF_vars(ServePull(c, s) \/ EndPull(c, s))
        /\ \A w \in Workspaces : WF_vars(ReceiveHint(c, w))

Spec == Init /\ [][Next]_vars
FairSpec == Spec /\ Fairness

(* The same, later: every client has switched to workspace w while nothing  *)
(* was in it; its first pull, answered at 0, and its connection have gone   *)
(* through.                                                                 *)
Joined(w) ==
    /\ now = 1
    /\ rows = [id \in Ids |-> None]
    /\ store = [c \in Clients |-> Initial(c)]
    /\ disk = [c \in Clients |-> [store |-> Initial(c), active |-> w]]
    /\ active = [c \in Clients |-> w]
    /\ cursor = [c \in Clients |-> [v \in Workspaces |-> 0]]
    /\ lastPushed = [c \in Clients |-> [v \in Workspaces |-> Empty]]
    /\ timer = [c \in Clients |-> None]
    /\ pushes = [c \in Clients |-> [s \in Slots |-> None]]
    /\ pulls = [c \in Clients |-> [s \in Slots |-> None]]
    /\ conn = [c \in Clients |-> [ws |-> w, up |-> TRUE]]
    /\ hints = [c \in Clients |-> {}]
    /\ fresh = Ids \ Defaults
    /\ budget = [edits |-> MaxEdits, switches |-> MaxSwitches,
                 losses |-> MaxLosses, drops |-> MaxDrops, restarts |-> MaxRestarts]

JoinedSpec == (\E w \in Workspaces : Joined(w)) /\ [][Next]_vars /\ Fairness

-----------------------------------------------------------------------------
(* Properties *)

(* What a client takes for pushed is on the server (schedulePush sets       *)
(* lastPushed only when the answer has no conflict): in that workspace and  *)
(* not older, whatever overlapped, was lost, or was pushed by others since. *)
AckedReachesServer ==
    \A c \in Clients, w \in Workspaces, id \in Ids :
        lastPushed[c][w][id] # None =>
            /\ rows[id] # None
            /\ rows[id].ws = w
            /\ rows[id].at >= lastPushed[c][w][id]

(* A client sends a deletion to a workspace only of what the server has     *)
(* there (computePushChanges takes it from the last snapshot the server     *)
(* took for that workspace): never of an entity of another workspace that   *)
(* was in the store after a switch, nor of one that was never accepted.     *)
DeletionsAreKnown ==
    \A c \in Clients, s \in Slots :
        pushes[c][s] # None =>
            \A ch \in pushes[c][s].changes :
                ch.deleted => rows[ch.id] # None /\ rows[ch.id].ws = pushes[c][s].ws

(* The exchange dies down: merging a pull commits, a commit schedules a     *)
(* push, a push is broadcast to its sender too, a broadcast starts a pull,  *)
(* a conflict pulls and commits a notification; once the user stops, this   *)
(* loop ends.  The exception is a client that holds what the server refuses *)
(* and no pull can settle: the row is in another workspace, or it is newer  *)
(* and the client's cursor has passed it.                                   *)
Idle ==
    \A c \in Clients :
        /\ timer[c] = None
        /\ hints[c] = {}
        /\ \A s \in Slots : pushes[c][s] = None /\ pulls[c][s] = None

Irreconcilable(c, id) ==
    /\ active[c] # Personal
    /\ store[c][id] # None
    /\ rows[id] # None
    /\ \/ rows[id].ws # active[c]
       \/ store[c][id] < rows[id].at /\ rows[id].at =< cursor[c][active[c]]

Quiesces == <>[]Idle \/ <>[](\E c \in Clients, id \in Ids : Irreconcilable(c, id))

(* "Schedule a debounced push of local changes to the server": when a push  *)
(* is scheduled and no message is lost from then on, everything the client  *)
(* holds gets to the server, or a newer version does.  So an edit whose     *)
(* push failed, and is not tried again, is made up for by the next commit.  *)
Reached(c) ==
    \A id \in Ids : store[c][id] # None =>
        rows[id] # None /\ rows[id].at >= store[c][id]

EditsReachServer ==
    \A c \in Clients :
        (timer[c] # None /\ budget.losses = 0) ~> Reached(c)

(* hooks/store/sync.ts, pullWorkspace: the cursor follows the server clock  *)
(* "so changes that landed between server-now and client-now are not        *)
(* skipped forever": a change the server accepts is not behind a poll that  *)
(* a client has already made, unless that client has it.                    *)
LandsAheadOfCursors ==
    [][\A id \in Ids, d \in Clients :
          rows'[id] # rows[id] /\ rows'[id].at < cursor[d][rows'[id].ws] =>
              \/ store[d][id] = rows'[id].at
              \/ store[d][id] = None /\ rows'[id].deleted]_rows
=============================================================================
