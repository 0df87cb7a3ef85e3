---------------------------- MODULE SyncSockets ----------------------------
(***************************************************************************)
(* The sockets that carry hints: the controller of a browser tab           *)
(* (reqy-web/lib/sync/sync-ws.ts), the upgrade and the re-check of         *)
(* sync-server/src/routes/ws.ts, and the hub (ws-hub.ts).  Sessions come   *)
(* from module SessionVersions and members from module WorkspaceRoles,     *)
(* both of which other modules implement.                                  *)
(*                                                                         *)
(* A connection has two ends that learn of each other's closing later.     *)
(***************************************************************************)
EXTENDS Naturals

CONSTANTS
    Workspaces, Users,
    Creator,        \* Creator[w]: who has created the workspace
    Tabs,           \* browser tabs
    UserOf,         \* UserOf[t]: who works in the tab
    Conns,          \* connections, used again when both ends are gone
    MaxVersion,     \* bound: revocations of one user
    MaxFaults,      \* bound: lost connections, failed and late tickets
    None            \* no owner, no role, no token, no controller, no connection

VARIABLES
    version, sessions,  \* SessionVersions
    owner, role,        \* WorkspaceRoles
    token,              \* the token in the session store of the tab
    ctl,                \* the controller of the tab, connectSyncWs
    conns,              \* connections with their two ends
    hub,                \* clients of ws-hub.ts
    faults              \* faults so far

Sessions == INSTANCE SessionVersions
Access == INSTANCE WorkspaceRoles

serverVars == <<version, sessions, owner, role>>
vars == <<serverVars, token, ctl, conns, hub, faults>>

Session == [user : Users, ver : Nat]

(* raw: a session token; otherwise a ticket, with the version of its issue *)
Creds == [raw : BOOLEAN, ver : Nat, late : BOOLEAN]

(* ticket: refreshProtocols is awaited; waiting: for the reconnect timer *)
Controller ==
    {k \in [ws : Workspaces, token : Session, creds : Creds \cup {None},
            phase : {"ticket", "dialing", "open", "waiting"},
            conn : Conns \cup {None}] :
        /\ k.conn # None <=> k.phase = "open"
        /\ k.creds # None <=> k.phase \in {"dialing", "open"}}

Conn == [tab : Tabs, ws : Workspaces, ver : Nat, raw : BOOLEAN,
         server : {"open", "closing", "closed"}, client : {"open", "gone"}]

ASSUME SyncSocketsAssumption ==
    /\ UserOf \in [Tabs -> Users]
    /\ Creator \in [Workspaces -> Users]
    /\ MaxVersion \in Nat
    /\ MaxFaults \in Nat
    /\ None \notin Users \cup Access!Roles \cup Session \cup Controller
                   \cup Creds \cup Conn \cup Conns

TypeOK ==
    /\ Sessions!SessionsTypeOK
    /\ Access!RolesTypeOK
    /\ token \in [Tabs -> Session \cup {None}]
    /\ ctl \in [Tabs -> Controller \cup {None}]
    /\ conns \in [Conns -> Conn \cup {None}]
    /\ hub \in SUBSET Conns
    /\ faults \in 0..MaxFaults

Init ==
    /\ Sessions!Init
    /\ owner = Creator
    /\ role = [w \in Workspaces |->
                 [u \in Users |-> IF u = Creator[w] THEN "owner" ELSE None]]
    /\ token = [t \in Tabs |-> None]
    /\ ctl = [t \in Tabs |-> None]
    /\ conns = [c \in Conns |-> None]
    /\ hub = {}
    /\ faults = 0

-----------------------------------------------------------------------------
(* Helpers *)

Fault ==
    /\ faults < MaxFaults
    /\ faults' = faults + 1

(* the record of a connection whose ends are both gone can be forgotten *)
Settled(conn) ==
    IF conn.server = "closed" /\ conn.client = "gone" THEN None ELSE conn

(* the client side of connection c, when there is one, is left behind *)
LeftBehind(c) ==
    IF c = None THEN conns
    ELSE [conns EXCEPT ![c] = Settled([conns[c] EXCEPT !.client = "gone"])]

IsMember(w, u) == role[w][u] # None

Revoked(conn) == conn.ver # version[UserOf[conn.tab]]

(* the token a cookie or a raw token session was opened with has expired *)
Outlived(conn) ==
    conn.raw /\ [user |-> UserOf[conn.tab], ver |-> conn.ver] \notin sessions

(* may the connection stay? *)
Entitled(conn) ==
    /\ ~ Outlived(conn)
    /\ ~ Revoked(conn)
    /\ IsMember(conn.ws, UserOf[conn.tab])

-----------------------------------------------------------------------------
(* Users: log in, have their sessions revoked, join and leave *)

Login(t) ==
    /\ token[t] = None
    /\ Sessions!Issue(UserOf[t])
    /\ token' = [token EXCEPT ![t] = [user |-> UserOf[t], ver |-> version[UserOf[t]]]]
    /\ UNCHANGED <<owner, role, ctl, conns, hub, faults>>

(* logout of session-store.ts: the socket of the tab is left as it is *)
Logout(t) ==
    /\ token[t] # None
    /\ version[UserOf[t]] < MaxVersion
    /\ Sessions!Revoke(UserOf[t])
    /\ token' = [token EXCEPT ![t] = None]
    /\ UNCHANGED <<owner, role, ctl, conns, hub, faults>>

SessionExpires ==
    /\ \E s \in sessions : Sessions!Expire(s)
    /\ UNCHANGED <<owner, role, token, ctl, conns, hub, faults>>

(* of the steps of WorkspaceRoles, those that make or end a member with a   *)
(* tab; which role it is makes no difference to a socket                    *)
RolesChange ==
    /\ \E w \in Workspaces, t \in Tabs :
          \/ Access!Join(w, UserOf[t], "viewer")
          \/ Access!Remove(w, UserOf[t])
          \/ \E u \in Users : Access!Delete(w, u)
    /\ UNCHANGED <<version, sessions, token, ctl, conns, hub, faults>>

-----------------------------------------------------------------------------
(* The controller of a tab *)

(* mutant: the previous controller is forgotten, not disconnected *)
ConnectBeside(t, w) ==
    /\ token[t] # None
    /\ ctl[t] # None => ctl[t].ws # w
    /\ ctl' = [ctl EXCEPT ![t] = [ws |-> w, token |-> token[t], creds |-> None,
                                  phase |-> "ticket", conn |-> None]]
    /\ UNCHANGED <<serverVars, token, conns, hub, faults>>

(* connectWebSocket, when another workspace becomes active: the previous    *)
(* controller is disconnected, the new one keeps the token of this moment   *)
Connect(t, w) ==
    /\ token[t] # None
    /\ ctl[t] # None => ctl[t].ws # w
    /\ ctl' = [ctl EXCEPT ![t] = [ws |-> w, token |-> token[t], creds |-> None,
                                  phase |-> "ticket", conn |-> None]]
    /\ conns' = IF ctl[t] = None THEN conns ELSE LeftBehind(ctl[t].conn)
    /\ UNCHANGED <<serverVars, token, hub, faults>>

(* connectWebSocket of the personal workspace *)
Disconnect(t) ==
    /\ ctl[t] # None
    /\ ctl' = [ctl EXCEPT ![t] = None]
    /\ conns' = LeftBehind(ctl[t].conn)
    /\ UNCHANGED <<serverVars, token, hub, faults>>

(* the socket is created with the credentials that have come *)
Dial(t, creds) ==
    /\ ctl' = [ctl EXCEPT ![t].phase = "dialing", ![t].creds = creds]
    /\ UNCHANGED <<serverVars, token, conns, hub>>

Fetching(t) == ctl[t] # None /\ ctl[t].phase = "ticket"
Dialing(t) == ctl[t] # None /\ ctl[t].phase = "dialing"

RawToken(t) == [raw |-> TRUE, ver |-> ctl[t].token.ver, late |-> FALSE]

Usable(s) == s \in sessions /\ Sessions!Good(s)

GetTicket(t) ==
    /\ Fetching(t)
    /\ IF Usable(ctl[t].token)
       THEN Dial(t, [raw |-> FALSE, ver |-> version[UserOf[t]], late |-> FALSE])
       ELSE Dial(t, RawToken(t))
    /\ UNCHANGED faults

(* no answer within five seconds: the token itself is used *)
TicketTimesOut(t) ==
    /\ Fetching(t)
    /\ Fault
    /\ Dial(t, RawToken(t))

(* thirty seconds pass between the ticket and the upgrade *)
TicketExpires(t) ==
    /\ Dialing(t)
    /\ ~ ctl[t].creds.raw
    /\ ~ ctl[t].creds.late
    /\ Fault
    /\ ctl' = [ctl EXCEPT ![t].creds.late = TRUE]
    /\ UNCHANGED <<serverVars, token, conns, hub>>

(* onclose schedules a reconnect *)
Retreated(t) == [ctl EXCEPT ![t].phase = "waiting", ![t].conn = None, ![t].creds = None]

(* the server has closed *)
ClientClosed(t) ==
    /\ ctl[t] # None
    /\ ctl[t].phase = "open"
    /\ conns[ctl[t].conn].server # "open"
    /\ ctl' = Retreated(t)
    /\ conns' = LeftBehind(ctl[t].conn)
    /\ UNCHANGED <<serverVars, token, hub, faults>>

(* the network fails and the server does not know yet *)
Drop(t) ==
    /\ ctl[t] # None
    /\ ctl[t].phase = "open"
    /\ Fault
    /\ ctl' = Retreated(t)
    /\ conns' = LeftBehind(ctl[t].conn)
    /\ UNCHANGED <<serverVars, token, hub>>

(* mutant: the ticket of the last connection is used again *)
ReconnectOldTicket(t) ==
    /\ ctl[t] # None
    /\ ctl[t].phase = "waiting"
    /\ ctl' = [ctl EXCEPT ![t].phase = "dialing",
                         ![t].creds = [raw |-> FALSE, ver |-> ctl[t].token.ver, late |-> TRUE]]
    /\ UNCHANGED <<serverVars, token, conns, hub, faults>>

(* the timer of scheduleReconnect *)
Reconnect(t) ==
    /\ ctl[t] # None
    /\ ctl[t].phase = "waiting"
    /\ ctl' = [ctl EXCEPT ![t].phase = "ticket"]
    /\ UNCHANGED <<serverVars, token, conns, hub, faults>>

-----------------------------------------------------------------------------
(* The server *)

Offered(t) ==
    [tab |-> t, ws |-> ctl[t].ws, ver |-> ctl[t].creds.ver, raw |-> ctl[t].creds.raw,
     server |-> "open", client |-> "open"]

(* handleWsUpgrade, and onopen in the tab *)
Upgrade(t, c) ==
    /\ Dialing(t)
    /\ ~ ctl[t].creds.late
    /\ Entitled(Offered(t))
    /\ conns[c] = None
    /\ conns' = [conns EXCEPT ![c] = Offered(t)]
    /\ hub' = hub \cup {c}
    /\ ctl' = [ctl EXCEPT ![t].phase = "open", ![t].conn = c]
    /\ UNCHANGED <<serverVars, token, faults>>

(* 401 or 403, and the error and close events in the tab *)
Refuse(t) ==
    /\ Dialing(t)
    /\ ctl[t].creds.late \/ ~ Entitled(Offered(t))
    /\ ctl' = Retreated(t)
    /\ UNCHANGED <<serverVars, token, conns, hub, faults>>

OpenAtServer(c) == conns[c] # None /\ conns[c].server = "open"

(* mutant: the re-check looks at the session only *)
RecheckSession(c) ==
    /\ OpenAtServer(c)
    /\ Outlived(conns[c]) \/ Revoked(conns[c])
    /\ conns' = [conns EXCEPT ![c].server = "closing"]
    /\ UNCHANGED <<serverVars, token, ctl, hub, faults>>

(* every minute, for each socket *)
Recheck(c) ==
    /\ OpenAtServer(c)
    /\ ~ Entitled(conns[c])
    /\ conns' = [conns EXCEPT ![c].server = "closing"]
    /\ UNCHANGED <<serverVars, token, ctl, hub, faults>>

Closed(c) == [conns EXCEPT ![c] = Settled([conns[c] EXCEPT !.server = "closed"])]

(* mutant: the timers are stopped, the client stays in the hub *)
CleanupTimers(c) ==
    /\ conns[c] # None
    /\ conns[c].server # "closed"
    /\ conns[c].server = "closing" \/ conns[c].client = "gone"
    /\ conns' = Closed(c)
    /\ UNCHANGED <<serverVars, token, ctl, hub, faults>>

(* the close or error event: the other end has gone or has answered *)
Cleanup(c) ==
    /\ conns[c] # None
    /\ conns[c].server # "closed"
    /\ conns[c].server = "closing" \/ conns[c].client = "gone"
    /\ conns' = Closed(c)
    /\ hub' = hub \ {c}
    /\ UNCHANGED <<serverVars, token, ctl, faults>>

Receivers(w) == {c \in hub : OpenAtServer(c) /\ conns[c].ws = w}

(* broadcastToWorkspace: sockets whose buffer is full are terminated; what  *)
(* the others do with the hint is in module SyncSystem                      *)
Broadcast(w) ==
    \E slow \in SUBSET {c \in Receivers(w) : conns[c].client = "gone"} :
        /\ conns' = [c \in Conns |->
              IF c \in slow THEN Settled([conns[c] EXCEPT !.server = "closed"])
              ELSE conns[c]]
        /\ hub' = hub \ slow
        /\ UNCHANGED <<serverVars, token, ctl, faults>>

(* closeAll on a shutdown; the process is started again *)
Shutdown ==
    /\ Fault
    /\ conns' = [c \in Conns |->
          IF conns[c] = None THEN None
          ELSE Settled([conns[c] EXCEPT !.server = "closed"])]
    /\ hub' = {}
    /\ UNCHANGED <<serverVars, token, ctl>>

-----------------------------------------------------------------------------
Next ==
    \/ \E t \in Tabs :
         \/ Login(t)
         \/ Logout(t)
         \/ \E w \in Workspaces : Connect(t, w)
         \/ Disconnect(t)
         \/ GetTicket(t)
         \/ TicketTimesOut(t)
         \/ TicketExpires(t)
         \/ ClientClosed(t)
         \/ Drop(t)
         \/ Reconnect(t)
         \/ \E c \in Conns : Upgrade(t, c)
         \/ Refuse(t)
    \/ \E c \in Conns : Recheck(c) \/ Cleanup(c)
    \/ \E w \in Workspaces : Broadcast(w)
    \/ SessionExpires
    \/ RolesChange
    \/ Shutdown

(* Timers fire and events are delivered on both sides, and an upgrade is    *)
(* answered.  Nobody has to log in, to leave, or to make the network fail.  *)
Fairness ==
    /\ \A t \in Tabs :
          /\ WF_vars(GetTicket(t))
          /\ WF_vars(Reconnect(t))
          /\ WF_vars(ClientClosed(t))
          /\ WF_vars(Refuse(t))
          /\ WF_vars(\E c \in Conns : Upgrade(t, c))
    /\ \A c \in Conns : WF_vars(Recheck(c)) /\ WF_vars(Cleanup(c))

Spec == Init /\ [][Next]_vars /\ Fairness

-----------------------------------------------------------------------------
(* Properties *)

(* The hub and the sockets agree: it knows each socket that is open at the   *)
(* server, so that none misses a hint, and none that is closed, whichever of *)
(* close, error, a full buffer and a shutdown came first.                    *)
HubIsOpenSockets ==
    \A c \in Conns :
        /\ OpenAtServer(c) => c \in hub
        /\ c \in hub => conns[c] # None /\ conns[c].server # "closed"

(* A tab has one connection at a time, sync-ws.ts:6: a socket that is open   *)
(* in the browser is the one of the current controller, however workspaces   *)
(* are switched while tickets and upgrades are on their way.                 *)
OneSocketPerTab ==
    \A c \in Conns : conns[c] # None /\ conns[c].client = "open" =>
        /\ ctl[conns[c].tab] # None
        /\ ctl[conns[c].tab].conn = c
        /\ ctl[conns[c].tab].ws = conns[c].ws

(* Who has left the workspace, or whose session was revoked or has expired,  *)
(* loses the socket at the next re-check, unless he may have it again.       *)
LeaversAreCut ==
    \A c \in Conns :
        (OpenAtServer(c) /\ ~ Entitled(conns[c]))
            ~> (~ OpenAtServer(c) \/ Entitled(conns[c]))

(* The tab asks for w, its controller's token is good, its user a member. *)
Welcome(t, w) ==
    /\ ctl[t] # None
    /\ ctl[t].ws = w
    /\ Usable(ctl[t].token)
    /\ IsMember(w, UserOf[t])

Open(t) == ctl[t] # None /\ ctl[t].phase = "open"

(* A subscription heals: after lost connections, late or missing tickets and *)
(* restarts of the server the tab is connected again, as long as it is       *)
(* welcome and does not ask for another workspace.                           *)
SubscriptionHeals ==
    \A t \in Tabs, w \in Workspaces :
        (Welcome(t, w) /\ ~ Open(t)) ~> (~ Welcome(t, w) \/ Open(t))
=============================================================================
