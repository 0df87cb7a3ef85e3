-------------------------- MODULE SyncRoutesProofs -------------------------
(***************************************************************************)
(* What holds of the two routes of the sync server that a client keeps     *)
(* open or comes back to: its socket, SyncSockets, for any number of tabs, *)
(* users, workspaces and connections, and its pulls, SyncPaging, for any   *)
(* number of rows and pulls and pages of any size.                         *)
(*                                                                         *)
(* HubIsOpenSockets and OneSocketPerTab are inductive once a third part    *)
(* says that the connection a controller holds exists and has not been     *)
(* left in the browser: otherwise the tab would leave somebody else's      *)
(* connection when it leaves its own.                                      *)
(*                                                                         *)
(* What a pull has got is followed from page to page: everything that is   *)
(* due and behind its cursor is in its list, and nothing it has got has    *)
(* changed since but for rows that now come after the cursor, or are late. *)
(***************************************************************************)
EXTENDS SyncSockets, SyncPaging, FiniteSetTheorems, TLAPS

(***************************************************************************)
(* The sockets                                                             *)
(***************************************************************************)

(* a controller holds a connection of its tab that is open in the browser *)
HeldIsOpen ==
    \A t \in Tabs : ctl[t] # None /\ ctl[t].conn # None =>
        /\ conns[ctl[t].conn] # None
        /\ conns[ctl[t].conn].tab = t
        /\ conns[ctl[t].conn].client = "open"

SocketsInv == HubIsOpenSockets /\ OneSocketPerTab /\ HeldIsOpen

IInv == TypeOK /\ SocketsInv

-----------------------------------------------------------------------------
(* The state of the modules this one is built on *)

LEMMA SessionTypes ==
    ASSUME Sessions!SessionsTypeOK, NEW u \in Users, NEW s \in sessions,
           Sessions!Issue(u) \/ Sessions!Revoke(u) \/ Sessions!Expire(s)
    PROVE  Sessions!SessionsTypeOK'
BY DEF Sessions!SessionsTypeOK, Sessions!Session, Sessions!Issue, Sessions!Revoke,
       Sessions!Expire

LEMMA RoleTypes ==
    ASSUME Access!RolesTypeOK, NEW w \in Workspaces, NEW u \in Users,
           Access!Join(w, u, "viewer") \/ Access!Remove(w, u) \/ Access!Delete(w, u)
    PROVE  Access!RolesTypeOK'
BY DEF Access!RolesTypeOK, Access!Roles, Access!Join, Access!Remove, Access!Delete

-----------------------------------------------------------------------------
(* The records of connections *)

LEMMA SettledRecord ==
    ASSUME NEW conn \in Conn
    PROVE  /\ Settled(conn) \in Conn \cup {None}
           /\ Settled(conn) # None => Settled(conn) = conn
           /\ Settled(conn) = None <=> conn.server = "closed" /\ conn.client = "gone"
BY SyncSocketsAssumption DEF Settled

(* what a tab does when it leaves connection c: nothing else changes *)
LEMMA LeftBehindConns ==
    ASSUME TypeOK, NEW c \in Conns \cup {None}, c # None => conns[c] # None
    PROVE  /\ LeftBehind(c) \in [Conns -> Conn \cup {None}]
           /\ \A d \in Conns : d # c => LeftBehind(c)[d] = conns[d]
           /\ c # None /\ LeftBehind(c)[c] # None =>
                 LeftBehind(c)[c] = [conns[c] EXCEPT !.client = "gone"]
           /\ c # None /\ LeftBehind(c)[c] = None => conns[c].server = "closed"
<1>1. CASE c = None
  BY <1>1, SyncSocketsAssumption DEF LeftBehind, TypeOK
<1>2. CASE c # None
  <2>. DEFINE left == [conns[c] EXCEPT !.client = "gone"]
  <2>1. left \in Conn /\ left.server = conns[c].server
    BY <1>2 DEF TypeOK, Conn
  <2>2. LeftBehind(c) = [conns EXCEPT ![c] = Settled(left)]
    BY <1>2 DEF LeftBehind
  <2>. HIDE DEF left
  <2>3. Settled(left) \in Conn \cup {None}
        /\ (Settled(left) # None => Settled(left) = left)
        /\ (Settled(left) = None => left.server = "closed")
    BY <2>1, SettledRecord
  <2>4. LeftBehind(c) \in [Conns -> Conn \cup {None}]
    BY <2>2, <2>3 DEF TypeOK
  <2>5. LeftBehind(c)[c] = Settled(left) /\ \A d \in Conns : d # c => LeftBehind(c)[d] = conns[d]
    BY <1>2, <2>2 DEF TypeOK
  <2>. QED BY <1>2, <2>1, <2>3, <2>4, <2>5 DEF left
<1>. QED BY <1>1, <1>2

-----------------------------------------------------------------------------
(* Steps of a tab *)

ConnOf(k) == IF k = None THEN None ELSE k.conn

(* A controller that keeps its connection and its workspace. *)
LEMMA Keeping ==
    ASSUME IInv, NEW t \in Tabs, NEW k \in Controller,
           ctl[t] # None, k.conn = ctl[t].conn, k.ws = ctl[t].ws,
           ctl' = [ctl EXCEPT ![t] = k], UNCHANGED <<conns, hub>>
    PROVE  SocketsInv' /\ ctl' \in [Tabs -> Controller \cup {None}]
<1>1. ctl' \in [Tabs -> Controller \cup {None}]
  BY DEF IInv, TypeOK
<1>2. k # None
  BY SyncSocketsAssumption
<1>3. \A u \in Tabs : /\ ctl'[u] # None <=> ctl[u] # None
                      /\ ctl'[u] # None => ctl'[u].conn = ctl[u].conn /\ ctl'[u].ws = ctl[u].ws
  BY <1>2 DEF IInv, TypeOK
<1>4. \A c \in Conns : conns[c] # None => conns[c].tab \in Tabs
  BY DEF IInv, TypeOK, Conn
<1>5. HubIsOpenSockets'
  BY DEF IInv, SocketsInv, HubIsOpenSockets, OpenAtServer
<1>6. OneSocketPerTab'
  BY <1>3, <1>4 DEF IInv, SocketsInv, OneSocketPerTab
<1>7. HeldIsOpen'
  BY <1>3 DEF IInv, SocketsInv, HeldIsOpen
<1>. QED BY <1>1, <1>5, <1>6, <1>7 DEF SocketsInv

(* A controller, or none, without a connection: the old one is left. *)
LEMMA Leaving ==
    ASSUME IInv, NEW t \in Tabs, NEW k \in Controller \cup {None}, ConnOf(k) = None,
           ctl' = [ctl EXCEPT ![t] = k],
           conns' = LeftBehind(ConnOf(ctl[t])), UNCHANGED hub
    PROVE  SocketsInv' /\ ctl' \in [Tabs -> Controller \cup {None}]
                 /\ conns' \in [Conns -> Conn \cup {None}]
<1>. DEFINE c == ConnOf(ctl[t])
<1>1. ctl' \in [Tabs -> Controller \cup {None}]
  BY DEF IInv, TypeOK
<1>2. c \in Conns \cup {None}
  BY DEF ConnOf, IInv, TypeOK, Controller
<1>3. c # None => /\ ctl[t] # None /\ ctl[t].conn = c
                  /\ conns[c] # None /\ conns[c].tab = t /\ conns[c].client = "open"
  BY DEF ConnOf, IInv, SocketsInv, HeldIsOpen
<1>4. \A d \in Conns : conns[d] # None => conns[d] \in Conn /\ conns[d].tab \in Tabs
  BY DEF IInv, TypeOK, Conn
<1>5. /\ conns' \in [Conns -> Conn \cup {None}]
      /\ \A d \in Conns : d # c => conns'[d] = conns[d]
      /\ c # None /\ conns'[c] # None => conns'[c] = [conns[c] EXCEPT !.client = "gone"]
      /\ c # None /\ conns'[c] = None => conns[c].server = "closed"
  BY <1>2, <1>3, LeftBehindConns DEF IInv
<1>6. c # None /\ conns'[c] # None => /\ conns'[c].client = "gone"
                                      /\ conns'[c].server = conns[c].server
  BY <1>2, <1>3, <1>4, <1>5 DEF Conn
<1>. HIDE DEF c
<1>7. ASSUME NEW d \in Conns
      PROVE  /\ conns'[d] # None /\ conns'[d].server = "open" => d \in hub
             /\ d \in hub => conns'[d] # None /\ conns'[d].server # "closed"
  <2>1. /\ conns[d] # None /\ conns[d].server = "open" => d \in hub
        /\ d \in hub => conns[d] # None /\ conns[d].server # "closed"
    BY DEF IInv, SocketsInv, HubIsOpenSockets, OpenAtServer
  <2>2. CASE d # c
    BY <1>5, <2>1, <2>2
  <2>3. CASE d = c
    <3>1. c # None
      BY <2>3, SyncSocketsAssumption
    <3>. QED BY <1>3, <1>5, <1>6, <2>1, <2>3, <3>1
  <2>. QED BY <2>2, <2>3
<1>8. ASSUME NEW d \in Conns, conns'[d] # None, conns'[d].client = "open"
      PROVE  d # c /\ conns'[d] = conns[d] /\ conns[d].tab \in Tabs \ {t}
  <2>1. d # c
    BY <1>6, <1>8, SyncSocketsAssumption
  <2>2. conns'[d] = conns[d]
    BY <1>5, <2>1
  <2>3. ctl[conns[d].tab] # None /\ ctl[conns[d].tab].conn = d
    BY <1>8, <2>2 DEF IInv, SocketsInv, OneSocketPerTab
  <2>4. conns[d].tab # t
    BY <2>1, <2>3 DEF c, ConnOf
  <2>. QED BY <1>4, <1>8, <2>1, <2>2, <2>4
<1>9. OneSocketPerTab'
  BY <1>4, <1>8 DEF IInv, SocketsInv, OneSocketPerTab, TypeOK
<1>10. ASSUME NEW u \in Tabs, ctl'[u] # None, ctl'[u].conn # None
       PROVE  /\ conns'[ctl'[u].conn] # None
              /\ conns'[ctl'[u].conn].tab = u
              /\ conns'[ctl'[u].conn].client = "open"
  <2>1. u # t
    BY <1>10 DEF ConnOf, IInv, TypeOK
  <2>2. ctl'[u] = ctl[u] /\ ctl[u].conn \in Conns
    BY <2>1, <1>10 DEF IInv, TypeOK, Controller
  <2>3. conns[ctl[u].conn].tab = u /\ ctl[u].conn # c
    BY <1>3, <1>10, <2>1, <2>2, SyncSocketsAssumption DEF IInv, SocketsInv, HeldIsOpen
  <2>. QED BY <1>5, <1>10, <2>2, <2>3 DEF IInv, SocketsInv, HeldIsOpen
<1>11. HubIsOpenSockets'
  BY <1>7 DEF HubIsOpenSockets, OpenAtServer
<1>. QED BY <1>1, <1>5, <1>9, <1>10, <1>11 DEF SocketsInv, HeldIsOpen
(* Controllers without a connection, by their parts *)
Idle(k, phase, creds) ==
    [ws |-> k.ws, token |-> k.token, creds |-> creds, phase |-> phase, conn |-> None]

LEMMA IdleController ==
    ASSUME NEW k \in Controller, NEW phase \in {"ticket", "dialing", "waiting"},
           NEW creds \in Creds \cup {None}, creds = None <=> phase # "dialing"
    PROVE  /\ Idle(k, phase, creds) \in Controller
           /\ k.conn = None =>
                [k EXCEPT !.phase = phase, !.creds = creds] = Idle(k, phase, creds)
           /\ [k EXCEPT !.phase = phase, !.conn = None, !.creds = creds]
                = Idle(k, phase, creds)
<1>1. Idle(k, phase, creds) \in Controller
  BY DEF Idle, Controller
<1>. DEFINE k1 == [k EXCEPT !.phase = phase]
            k2 == [k1 EXCEPT !.conn = None]
<1>2. PICK w, u, c, p, n :
         k = [ws |-> w, token |-> u, creds |-> c, phase |-> p, conn |-> n]
  <2>1. k = [ws |-> k.ws, token |-> k.token, creds |-> k.creds, phase |-> k.phase,
             conn |-> k.conn]
    BY DEF Controller
  <2>. QED BY <2>1
<1>3. k1 = [ws |-> w, token |-> u, creds |-> c, phase |-> phase, conn |-> n]
  BY <1>2
<1>4. [k EXCEPT !.phase = phase, !.creds = creds] = [k1 EXCEPT !.creds = creds]
      /\ [k EXCEPT !.phase = phase, !.conn = None, !.creds = creds]
            = [k2 EXCEPT !.creds = creds]
  OBVIOUS
<1>. HIDE DEF k1
<1>5. [k1 EXCEPT !.creds = creds]
        = [ws |-> w, token |-> u, creds |-> creds, phase |-> phase, conn |-> n]
  BY <1>3
<1>6. k2 = [ws |-> w, token |-> u, creds |-> c, phase |-> phase, conn |-> None]
  BY <1>3
<1>. HIDE DEF k2
<1>7. [k2 EXCEPT !.creds = creds]
        = [ws |-> w, token |-> u, creds |-> creds, phase |-> phase, conn |-> None]
  BY <1>6
<1>8. k.ws = w /\ k.token = u /\ k.conn = n
  BY <1>2
<1>. QED BY <1>1, <1>4, <1>5, <1>7, <1>8 DEF Idle

LEMMA DialStep ==
    ASSUME IInv, NEW t \in Tabs, Fetching(t), NEW creds \in Creds, Dial(t, creds),
           faults' \in 0..MaxFaults
    PROVE  IInv'
<1>. DEFINE k == Idle(ctl[t], "dialing", creds)
<1>1. ctl[t] # None /\ ctl[t] \in Controller /\ ctl[t].conn = None
  BY DEF Fetching, IInv, TypeOK, Controller
<1>2. ctl' = [ctl EXCEPT ![t] = k]
  <2>1. [ctl[t] EXCEPT !.phase = "dialing", !.creds = creds] = k
    BY <1>1, SyncSocketsAssumption, IdleController
  <2>2. ctl' = [ctl EXCEPT ![t] = [ctl[t] EXCEPT !.phase = "dialing", !.creds = creds]]
    BY DEF Dial, IInv, TypeOK
  <2>. QED BY <2>1, <2>2
<1>3. k \in Controller
  BY <1>1, SyncSocketsAssumption, IdleController
<1>4. k.conn = ctl[t].conn /\ k.ws = ctl[t].ws
  BY <1>1 DEF Idle
<1>. HIDE DEF k
<1>5. SocketsInv' /\ ctl' \in [Tabs -> Controller \cup {None}]
  BY <1>1, <1>2, <1>3, <1>4, Keeping DEF Dial
<1>6. UNCHANGED <<version, sessions, owner, role, token, conns, hub>>
  BY DEF Dial, serverVars
<1>. QED BY <1>5, <1>6 DEF IInv, TypeOK, Sessions!SessionsTypeOK, Access!RolesTypeOK

(* GetTicket and TicketTimesOut *)
LEMMA TicketSteps ==
    ASSUME IInv, NEW t \in Tabs, GetTicket(t) \/ TicketTimesOut(t)
    PROVE  IInv'
<1>1. Fetching(t) /\ ctl[t] \in Controller
  BY DEF GetTicket, TicketTimesOut, Fetching, IInv, TypeOK
<1>2. RawToken(t) \in Creds
  BY <1>1 DEF RawToken, Creds, Controller, Session
<1>3. [raw |-> FALSE, ver |-> version[UserOf[t]], late |-> FALSE] \in Creds
  BY SyncSocketsAssumption DEF IInv, TypeOK, Sessions!SessionsTypeOK, Creds
<1>4. faults' \in 0..MaxFaults
  BY SyncSocketsAssumption DEF GetTicket, TicketTimesOut, Fault, IInv, TypeOK
<1>5. \E creds \in Creds : Dial(t, creds)
  BY <1>2, <1>3 DEF GetTicket, TicketTimesOut
<1>. QED BY <1>1, <1>4, <1>5, DialStep

LEMMA TicketExpiresStep ==
    ASSUME IInv, NEW t \in Tabs, TicketExpires(t)
    PROVE  IInv'
<1>. DEFINE expired == [ctl[t].creds EXCEPT !.late = TRUE]
            k == Idle(ctl[t], "dialing", expired)
<1>1. ctl[t] # None /\ ctl[t] \in Controller /\ ctl[t].conn = None
      /\ ctl[t].phase = "dialing" /\ ctl[t].creds \in Creds
  BY DEF TicketExpires, Dialing, IInv, TypeOK, Controller
<1>2. expired \in Creds /\ expired # None
  BY <1>1, SyncSocketsAssumption DEF Creds
<1>3. ctl' = [ctl EXCEPT ![t] = [ctl[t] EXCEPT !.creds = expired]]
  BY <1>1 DEF TicketExpires, IInv, TypeOK
<1>. HIDE DEF expired
<1>4. [ctl[t] EXCEPT !.creds = expired] = k
  <2>1. ctl[t] = [ws |-> ctl[t].ws, token |-> ctl[t].token, creds |-> ctl[t].creds,
                  phase |-> "dialing", conn |-> None]
    BY <1>1 DEF Controller
  <2>. QED BY <2>1 DEF Idle
<1>5. k \in Controller
  BY <1>1, <1>2, IdleController
<1>6. k.conn = ctl[t].conn /\ k.ws = ctl[t].ws
  BY <1>1 DEF Idle
<1>. HIDE DEF k
<1>7. SocketsInv' /\ ctl' \in [Tabs -> Controller \cup {None}]
  BY <1>1, <1>3, <1>4, <1>5, <1>6, Keeping DEF TicketExpires
<1>8. /\ UNCHANGED <<version, sessions, owner, role, token, conns, hub>>
      /\ faults' \in 0..MaxFaults
  BY SyncSocketsAssumption DEF TicketExpires, Fault, serverVars, IInv, TypeOK
<1>. QED BY <1>7, <1>8 DEF IInv, TypeOK, Sessions!SessionsTypeOK, Access!RolesTypeOK

LEMMA ReconnectStep ==
    ASSUME IInv, NEW t \in Tabs, Reconnect(t)
    PROVE  IInv'
<1>. DEFINE k == Idle(ctl[t], "ticket", None)
<1>1. ctl[t] # None /\ ctl[t] \in Controller /\ ctl[t].conn = None
      /\ ctl[t].phase = "waiting" /\ ctl[t].creds = None
  BY DEF Reconnect, IInv, TypeOK, Controller
<1>2. ctl' = [ctl EXCEPT ![t] = [ctl[t] EXCEPT !.phase = "ticket"]]
  BY DEF Reconnect, IInv, TypeOK
<1>3. [ctl[t] EXCEPT !.phase = "ticket"] = k
  <2>1. ctl[t] = [ws |-> ctl[t].ws, token |-> ctl[t].token, creds |-> None,
                  phase |-> "waiting", conn |-> None]
    BY <1>1 DEF Controller
  <2>. QED BY <2>1 DEF Idle
<1>4. k \in Controller
  BY <1>1, IdleController
<1>5. k.conn = ctl[t].conn /\ k.ws = ctl[t].ws
  BY <1>1 DEF Idle
<1>. HIDE DEF k
<1>6. SocketsInv' /\ ctl' \in [Tabs -> Controller \cup {None}]
  BY <1>1, <1>2, <1>3, <1>4, <1>5, Keeping DEF Reconnect
<1>7. UNCHANGED <<version, sessions, owner, role, token, conns, hub, faults>>
  BY DEF Reconnect, serverVars
<1>. QED BY <1>6, <1>7 DEF IInv, TypeOK, Sessions!SessionsTypeOK, Access!RolesTypeOK
(* A controller retreats: ClientClosed, Drop, Refuse *)
LEMMA RetreatSteps ==
    ASSUME IInv, NEW t \in Tabs, ClientClosed(t) \/ Drop(t) \/ Refuse(t)
    PROVE  IInv'
<1>. DEFINE k == Idle(ctl[t], "waiting", None)
<1>1. ctl[t] # None /\ ctl[t] \in Controller
  BY DEF ClientClosed, Drop, Refuse, Dialing, IInv, TypeOK
<1>2. ctl' = [ctl EXCEPT ![t] =
                [ctl[t] EXCEPT !.phase = "waiting", !.conn = None, !.creds = None]]
  BY DEF ClientClosed, Drop, Refuse, Retreated, IInv, TypeOK
<1>3. k \in Controller
      /\ [ctl[t] EXCEPT !.phase = "waiting", !.conn = None, !.creds = None] = k
  BY <1>1, IdleController
<1>4. k # None /\ ConnOf(k) = None
  BY <1>3, SyncSocketsAssumption DEF ConnOf, Idle
<1>5. conns' = LeftBehind(ConnOf(ctl[t])) /\ UNCHANGED hub
  <2>1. CASE Refuse(t)
    BY <1>1, <2>1 DEF Refuse, Dialing, ConnOf, LeftBehind, Controller
  <2>2. CASE ClientClosed(t) \/ Drop(t)
    BY <1>1, <2>2 DEF ClientClosed, Drop, ConnOf
  <2>. QED BY <2>1, <2>2
<1>. HIDE DEF k
<1>6. /\ SocketsInv'
      /\ ctl' \in [Tabs -> Controller \cup {None}]
      /\ conns' \in [Conns -> Conn \cup {None}]
  BY <1>2, <1>3, <1>4, <1>5, Leaving
<1>7. /\ UNCHANGED <<version, sessions, owner, role, token, hub>>
      /\ faults' \in 0..MaxFaults
  BY SyncSocketsAssumption DEF ClientClosed, Drop, Refuse, Fault, serverVars, IInv, TypeOK
<1>. QED BY <1>6, <1>7 DEF IInv, TypeOK, Sessions!SessionsTypeOK, Access!RolesTypeOK

LEMMA ConnectSteps ==
    ASSUME IInv, NEW t \in Tabs,
           Disconnect(t) \/ \E w \in Workspaces : Connect(t, w)
    PROVE  IInv'
<1>1. PICK k \in Controller \cup {None} :
         ConnOf(k) = None /\ ctl' = [ctl EXCEPT ![t] = k]
  <2>1. ASSUME NEW w \in Workspaces, Connect(t, w)
        PROVE  [ws |-> w, token |-> token[t], creds |-> None,
                phase |-> "ticket", conn |-> None] \in Controller
    BY <2>1 DEF Connect, Controller, IInv, TypeOK
  <2>2. CASE Disconnect(t)
    BY <2>2 DEF Disconnect, ConnOf
  <2>. QED BY <2>1, <2>2 DEF Connect, ConnOf
<1>2. conns' = LeftBehind(ConnOf(ctl[t])) /\ UNCHANGED hub
  BY DEF Connect, Disconnect, ConnOf, LeftBehind
<1>3. /\ SocketsInv'
      /\ ctl' \in [Tabs -> Controller \cup {None}]
      /\ conns' \in [Conns -> Conn \cup {None}]
  BY <1>1, <1>2, Leaving
<1>4. UNCHANGED <<version, sessions, owner, role, token, hub, faults>>
  BY DEF Connect, Disconnect, serverVars
<1>. QED BY <1>3, <1>4 DEF IInv, TypeOK, Sessions!SessionsTypeOK, Access!RolesTypeOK

-----------------------------------------------------------------------------
(* Steps of the server *)

(* Only the server ends of connections change: what is forgotten was left in *)
(* the browser, and the hub follows.                                         *)
LEMMA ServerEnds ==
    ASSUME IInv, UNCHANGED ctl,
           \A c \in Conns :
              /\ conns[c] = None => conns'[c] = None
              /\ conns[c] # None /\ conns'[c] = None => conns[c].client = "gone"
              /\ conns[c] # None /\ conns'[c] # None =>
                    /\ conns'[c].tab = conns[c].tab
                    /\ conns'[c].ws = conns[c].ws
                    /\ conns'[c].client = conns[c].client
              /\ OpenAtServer(c)' => c \in hub'
              /\ c \in hub' => conns'[c] # None /\ conns'[c].server # "closed"
    PROVE  SocketsInv'
<1>1. HubIsOpenSockets'
  BY DEF HubIsOpenSockets
<1>2. OneSocketPerTab'
  BY DEF IInv, SocketsInv, OneSocketPerTab
<1>3. \A t \in Tabs : ctl[t] # None /\ ctl[t].conn # None => ctl[t].conn \in Conns
  BY DEF IInv, TypeOK, Controller
<1>4. HeldIsOpen'
  BY <1>3 DEF IInv, SocketsInv, HeldIsOpen
<1>. QED BY <1>1, <1>2, <1>4 DEF SocketsInv

(* the server end of a record changes *)
LEMMA ServerEnd ==
    ASSUME NEW conn \in Conn, NEW state \in {"open", "closing", "closed"}
    PROVE  /\ [conn EXCEPT !.server = state] \in Conn
           /\ [conn EXCEPT !.server = state].server = state
           /\ [conn EXCEPT !.server = state].client = conn.client
           /\ [conn EXCEPT !.server = state].tab = conn.tab
           /\ [conn EXCEPT !.server = state].ws = conn.ws
BY DEF Conn

LEMMA RecheckStep ==
    ASSUME IInv, NEW c \in Conns, Recheck(c)
    PROVE  IInv'
<1>1. conns[c] \in Conn /\ conns[c] # None /\ conns[c].server = "open"
  BY DEF Recheck, OpenAtServer, IInv, TypeOK
<1>. DEFINE conn == [conns[c] EXCEPT !.server = "closing"]
<1>2. conns' = [conns EXCEPT ![c] = conn]
  BY DEF Recheck, IInv, TypeOK
<1>3. /\ conn \in Conn /\ conn # None /\ conn.server = "closing"
      /\ conn.client = conns[c].client /\ conn.tab = conns[c].tab /\ conn.ws = conns[c].ws
  BY <1>1, ServerEnd, SyncSocketsAssumption
<1>. HIDE DEF conn
<1>4. UNCHANGED <<version, sessions, owner, role, token, ctl, hub, faults>>
  BY DEF Recheck, serverVars
<1>5. \A d \in Conns : /\ OpenAtServer(d) => d \in hub
                       /\ d \in hub => conns[d] # None /\ conns[d].server # "closed"
  BY DEF IInv, SocketsInv, HubIsOpenSockets
<1>6. \A d \in Conns : conns'[d] = IF d = c THEN conn ELSE conns[d]
  BY <1>2 DEF IInv, TypeOK
<1>7. SocketsInv'
  BY <1>1, <1>3, <1>4, <1>5, <1>6, ServerEnds DEF OpenAtServer
<1>8. conns' \in [Conns -> Conn \cup {None}]
  BY <1>2, <1>3 DEF IInv, TypeOK
<1>. QED BY <1>4, <1>7, <1>8 DEF IInv, TypeOK, Sessions!SessionsTypeOK, Access!RolesTypeOK

(* Connections whose server ends close, and leave the hub: Cleanup,         *)
(* Broadcast and Shutdown.                                                  *)
LEMMA Closing ==
    ASSUME IInv, UNCHANGED ctl, NEW gone \in SUBSET Conns,
           \A c \in gone : conns[c] # None,
           conns' = [c \in Conns |->
                       IF c \in gone THEN Settled([conns[c] EXCEPT !.server = "closed"])
                       ELSE conns[c]],
           hub' = hub \ gone
    PROVE  SocketsInv' /\ conns' \in [Conns -> Conn \cup {None}] /\ hub' \in SUBSET Conns
<1>1. ASSUME NEW c \in Conns
      PROVE  /\ conns'[c] \in Conn \cup {None}
             /\ c \notin gone => conns'[c] = conns[c]
             /\ c \in gone => \/ conns'[c] = None /\ conns[c].client = "gone"
                              \/ /\ conns'[c] # None /\ conns'[c].server = "closed"
                                 /\ conns'[c].tab = conns[c].tab
                                 /\ conns'[c].ws = conns[c].ws
                                 /\ conns'[c].client = conns[c].client
  <2>1. CASE c \notin gone
    BY <2>1 DEF IInv, TypeOK
  <2>2. CASE c \in gone
    <3>. DEFINE conn == [conns[c] EXCEPT !.server = "closed"]
    <3>1. conns[c] \in Conn
      BY <2>2 DEF IInv, TypeOK
    <3>2. /\ conn \in Conn /\ conn.server = "closed"
          /\ conn.client = conns[c].client /\ conn.tab = conns[c].tab
          /\ conn.ws = conns[c].ws
      BY <3>1, ServerEnd
    <3>3. conns'[c] = Settled(conn)
      BY <2>2
    <3>. HIDE DEF conn
    <3>4. /\ Settled(conn) \in Conn \cup {None}
          /\ Settled(conn) # None => Settled(conn) = conn
          /\ Settled(conn) = None <=> conn.server = "closed" /\ conn.client = "gone"
      BY <3>2, SettledRecord
    <3>. QED BY <2>2, <3>2, <3>3, <3>4
  <2>. QED BY <2>1, <2>2
<1>2. \A c \in Conns : /\ OpenAtServer(c) => c \in hub
                       /\ c \in hub => conns[c] # None /\ conns[c].server # "closed"
  BY DEF IInv, SocketsInv, HubIsOpenSockets
<1>3. SocketsInv'
  BY <1>1, <1>2, ServerEnds DEF OpenAtServer
<1>4. conns' \in [Conns -> Conn \cup {None}]
  BY <1>1
<1>. QED BY <1>3, <1>4 DEF IInv, TypeOK
LEMMA ClosingSteps ==
    ASSUME IInv,
           \/ \E c \in Conns : Cleanup(c)
           \/ \E w \in Workspaces : Broadcast(w)
           \/ Shutdown
    PROVE  IInv'
<1>. DEFINE Closes(gone) ==
        /\ \A c \in gone : conns[c] # None
        /\ conns' = [c \in Conns |->
                       IF c \in gone THEN Settled([conns[c] EXCEPT !.server = "closed"])
                       ELSE conns[c]]
        /\ hub' = hub \ gone
<1>1. \E gone \in SUBSET Conns : Closes(gone)
  <2>1. ASSUME NEW c \in Conns, Cleanup(c)
        PROVE  \E gone \in SUBSET Conns : Closes(gone)
    <3>1. conns' = [d \in Conns |->
                      IF d \in {c} THEN Settled([conns[d] EXCEPT !.server = "closed"])
                      ELSE conns[d]]
      BY <2>1 DEF Cleanup, Closed, IInv, TypeOK
    <3>2. conns[c] # None /\ hub' = hub \ {c}
      BY <2>1 DEF Cleanup
    <3>. WITNESS {c} \in SUBSET Conns
    <3>. QED BY <3>1, <3>2
  <2>2. ASSUME NEW w \in Workspaces, Broadcast(w)
        PROVE  \E gone \in SUBSET Conns : Closes(gone)
    <3>1. PICK slow \in SUBSET {c \in Receivers(w) : conns[c].client = "gone"} :
            /\ conns' = [c \in Conns |->
                  IF c \in slow THEN Settled([conns[c] EXCEPT !.server = "closed"])
                  ELSE conns[c]]
            /\ hub' = hub \ slow
      BY <2>2 DEF Broadcast
    <3>2. slow \in SUBSET Conns /\ \A c \in slow : conns[c] # None
      BY DEF Receivers, OpenAtServer, IInv, TypeOK
    <3>. QED BY <3>1, <3>2
  <2>3. ASSUME Shutdown
        PROVE  \E gone \in SUBSET Conns : Closes(gone)
    <3>. DEFINE known == {c \in Conns : conns[c] # None}
    <3>1. hub' = hub \ known
      BY <2>3 DEF Shutdown, IInv, TypeOK, SocketsInv, HubIsOpenSockets
    <3>2. conns' = [c \in Conns |->
                      IF c \in known THEN Settled([conns[c] EXCEPT !.server = "closed"])
                      ELSE conns[c]]
      BY <2>3 DEF Shutdown
    <3>. WITNESS known \in SUBSET Conns
    <3>. QED BY <3>1, <3>2
  <2>. QED BY <2>1, <2>2, <2>3
<1>2. /\ UNCHANGED <<version, sessions, owner, role, token, ctl>>
      /\ faults' \in 0..MaxFaults
  BY SyncSocketsAssumption DEF Cleanup, Broadcast, Shutdown, Fault, serverVars, IInv, TypeOK
<1>3. SocketsInv' /\ conns' \in [Conns -> Conn \cup {None}] /\ hub' \in SUBSET Conns
  BY <1>1, <1>2, Closing
<1>. QED BY <1>2, <1>3 DEF IInv, TypeOK, Sessions!SessionsTypeOK, Access!RolesTypeOK

LEMMA UpgradeStep ==
    ASSUME IInv, NEW t \in Tabs, NEW c \in Conns, Upgrade(t, c)
    PROVE  IInv'
<1>. DEFINE k == [ctl[t] EXCEPT !.phase = "open", !.conn = c]
            conn == Offered(t)
<1>1. /\ ctl[t] # None /\ ctl[t] \in Controller /\ ctl[t].conn = None
      /\ ctl[t].phase = "dialing" /\ ctl[t].creds \in Creds /\ ctl[t].creds # None
  BY DEF Upgrade, Dialing, IInv, TypeOK, Controller
<1>2. c # None
  BY SyncSocketsAssumption
<1>3. ctl' = [ctl EXCEPT ![t] = k]
  BY DEF Upgrade, IInv, TypeOK
<1>4. k \in Controller /\ k.conn = c /\ k.ws = ctl[t].ws
  <2>. DEFINE open == [ctl[t] EXCEPT !.phase = "open"]
  <2>1. k = [open EXCEPT !.conn = c]
    OBVIOUS
  <2>2. open = [ws |-> ctl[t].ws, token |-> ctl[t].token, creds |-> ctl[t].creds,
                phase |-> "open", conn |-> None]
    BY <1>1 DEF Controller
  <2>. HIDE DEF open
  <2>3. k = [ws |-> ctl[t].ws, token |-> ctl[t].token, creds |-> ctl[t].creds,
             phase |-> "open", conn |-> c]
    BY <2>1, <2>2
  <2>. HIDE DEF k
  <2>. QED BY <1>1, <1>2, <2>3 DEF Controller
<1>5. /\ conn \in Conn /\ conn.tab = t /\ conn.ws = ctl[t].ws
      /\ conn.server = "open" /\ conn.client = "open"
  BY <1>1 DEF Offered, Conn, Controller, Creds
<1>6. /\ conns[c] = None /\ conns' = [conns EXCEPT ![c] = conn] /\ hub' = hub \cup {c}
      /\ UNCHANGED <<version, sessions, owner, role, token, faults>>
  BY DEF Upgrade, serverVars
<1>7. k # None /\ conn # None
  BY <1>4, <1>5, SyncSocketsAssumption
<1>. HIDE DEF k, conn
<1>8. ctl' \in [Tabs -> Controller \cup {None}]
  BY <1>3, <1>4 DEF IInv, TypeOK
<1>9. conns' \in [Conns -> Conn \cup {None}] /\ hub' \in SUBSET Conns
  BY <1>5, <1>6 DEF IInv, TypeOK
<1>10. \A u \in Tabs : ctl'[u] = IF u = t THEN k ELSE ctl[u]
  BY <1>3 DEF IInv, TypeOK
<1>11. \A d \in Conns : conns'[d] = IF d = c THEN conn ELSE conns[d]
  BY <1>6 DEF IInv, TypeOK
<1>12. HubIsOpenSockets'
  BY <1>5, <1>6, <1>7, <1>11 DEF IInv, SocketsInv, HubIsOpenSockets, OpenAtServer
<1>13. ASSUME NEW d \in Conns, conns'[d] # None, conns'[d].client = "open"
       PROVE  /\ ctl'[conns'[d].tab] # None
              /\ ctl'[conns'[d].tab].conn = d
              /\ ctl'[conns'[d].tab].ws = conns'[d].ws
  <2>1. CASE d = c
    BY <2>1, <1>4, <1>5, <1>7, <1>10, <1>11
  <2>2. CASE d # c
    <3>1. conns'[d] = conns[d] /\ conns[d].tab \in Tabs
      BY <2>2, <1>11, <1>13 DEF IInv, TypeOK, Conn
    <3>2. /\ ctl[conns[d].tab] # None /\ ctl[conns[d].tab].conn = d
          /\ ctl[conns[d].tab].ws = conns[d].ws
      BY <3>1, <1>13 DEF IInv, SocketsInv, OneSocketPerTab
    <3>3. conns[d].tab # t
      BY <3>2, <1>1, SyncSocketsAssumption
    <3>. QED BY <3>1, <3>2, <3>3, <1>10
  <2>. QED BY <2>1, <2>2
<1>14. ASSUME NEW u \in Tabs, ctl'[u] # None, ctl'[u].conn # None
       PROVE  /\ conns'[ctl'[u].conn] # None
              /\ conns'[ctl'[u].conn].tab = u
              /\ conns'[ctl'[u].conn].client = "open"
  <2>1. CASE u = t
    BY <2>1, <1>4, <1>5, <1>7, <1>10, <1>11
  <2>2. CASE u # t
    <3>1. ctl'[u] = ctl[u] /\ ctl[u].conn \in Conns
      BY <2>2, <1>10, <1>14 DEF IInv, TypeOK, Controller
    <3>2. /\ conns[ctl[u].conn] # None /\ conns[ctl[u].conn].tab = u
          /\ conns[ctl[u].conn].client = "open"
      BY <3>1, <1>14 DEF IInv, SocketsInv, HeldIsOpen
    <3>. QED BY <3>1, <3>2, <1>6, <1>11
  <2>. QED BY <2>1, <2>2
<1>15. SocketsInv'
  BY <1>12, <1>13, <1>14 DEF SocketsInv, OneSocketPerTab, HeldIsOpen
<1>. QED BY <1>6, <1>8, <1>9, <1>15
         DEF IInv, TypeOK, Sessions!SessionsTypeOK, Access!RolesTypeOK

-----------------------------------------------------------------------------
(* Steps of users *)

LEMMA UserSteps ==
    ASSUME IInv,
           (\E t \in Tabs : Login(t) \/ Logout(t)) \/ SessionExpires \/ RolesChange
    PROVE  IInv'
<1>1. UNCHANGED <<ctl, conns, hub, faults>>
  BY DEF Login, Logout, SessionExpires, RolesChange
<1>2. Sessions!SessionsTypeOK /\ Access!RolesTypeOK
  BY DEF IInv, TypeOK
<1>. DEFINE Goal == /\ Sessions!SessionsTypeOK' /\ Access!RolesTypeOK'
                   /\ token' \in [Tabs -> Session \cup {None}]
<1>3. Goal
  <2>1. ASSUME NEW t \in Tabs, Login(t) \/ Logout(t)
        PROVE  Goal
    <3>1. UserOf[t] \in Users /\ version[UserOf[t]] \in Nat
      BY <1>2, SyncSocketsAssumption DEF Sessions!SessionsTypeOK
    <3>2. Sessions!SessionsTypeOK'
      BY <2>1, <1>2, <3>1 DEF Login, Logout, Sessions!SessionsTypeOK, Sessions!Session,
                              Sessions!Issue, Sessions!Revoke
    <3>3. Access!RolesTypeOK'
      BY <2>1, <1>2 DEF Login, Logout, Access!RolesTypeOK
    <3>4. token' \in [Tabs -> Session \cup {None}]
      BY <2>1, <3>1 DEF Login, Logout, Session, IInv, TypeOK
    <3>. QED BY <3>2, <3>3, <3>4
  <2>2. CASE SessionExpires
    BY <2>2, <1>2 DEF SessionExpires, Sessions!Expire, Sessions!SessionsTypeOK,
                      Access!RolesTypeOK, IInv, TypeOK
  <2>3. CASE RolesChange
    <3>1. \E w \in Workspaces, u \in Users :
             Access!Join(w, u, "viewer") \/ Access!Remove(w, u) \/ Access!Delete(w, u)
      BY <2>3, SyncSocketsAssumption DEF RolesChange
    <3>2. Access!RolesTypeOK'
      BY <3>1, <1>2, RoleTypes
    <3>3. UNCHANGED <<version, sessions, token>>
      BY <2>3 DEF RolesChange
    <3>. QED BY <1>2, <3>2, <3>3 DEF Sessions!SessionsTypeOK, IInv, TypeOK
  <2>. QED BY <2>1, <2>2, <2>3
<1>4. SocketsInv'
  BY <1>1 DEF IInv, SocketsInv, HubIsOpenSockets, OpenAtServer, OneSocketPerTab, HeldIsOpen
<1>. QED BY <1>1, <1>3, <1>4 DEF IInv, TypeOK

-----------------------------------------------------------------------------
(* The theorems *)

LEMMA InitIInv == Init => IInv
<1>. SUFFICES ASSUME Init PROVE IInv
  OBVIOUS
<1>. USE DEF Init
<1>1. Sessions!SessionsTypeOK
  BY DEF Sessions!Init, Sessions!SessionsTypeOK
<1>2. Access!RolesTypeOK
  BY SyncSocketsAssumption DEF Access!RolesTypeOK, Access!Roles
<1>3. TypeOK
  BY <1>1, <1>2, SyncSocketsAssumption DEF TypeOK
<1>4. SocketsInv
  BY DEF SocketsInv, HubIsOpenSockets, OpenAtServer, OneSocketPerTab, HeldIsOpen
<1>. QED BY <1>3, <1>4 DEF IInv

LEMMA NextIInv == IInv /\ [Next]_vars => IInv'
<1>. SUFFICES ASSUME IInv, [Next]_vars PROVE IInv'
  OBVIOUS
<1>1. CASE UNCHANGED vars
  <2>1. UNCHANGED <<version, sessions, owner, role, token, ctl, conns, hub, faults>>
    BY <1>1 DEF vars, serverVars
  <2>. QED BY <2>1 DEF IInv, TypeOK, Sessions!SessionsTypeOK, Access!RolesTypeOK, SocketsInv,
                       HubIsOpenSockets, OpenAtServer, OneSocketPerTab, HeldIsOpen
<1>2. CASE Next
  BY <1>2, TicketSteps, TicketExpiresStep, ReconnectStep, RetreatSteps, ConnectSteps,
     RecheckStep, ClosingSteps, UpgradeStep, UserSteps DEF Next
<1>. QED BY <1>1, <1>2

(* Every variable keeps its type in every reachable state. *)
THEOREM TypeCorrect == Spec => []TypeOK
<1>. IInv => TypeOK
  BY DEF IInv
<1>. QED BY InitIInv, NextIInv, PTL DEF Spec

(* The hub knows each socket that is open at the server, and none that is    *)
(* closed, in whatever order the ends of a connection learn of its end       *)
(* (register, cleanup, broadcastToWorkspace and closeAll of ws-hub.ts).      *)
THEOREM HubIsOpenSocketsHolds == Spec => []HubIsOpenSockets
<1>. IInv => HubIsOpenSockets
  BY DEF IInv, SocketsInv
<1>. QED BY InitIInv, NextIInv, PTL DEF Spec

(* A tab has at most one socket that is open in the browser, and it is the   *)
(* one of its current controller (connectSyncWs of sync-ws.ts).              *)
THEOREM OneSocketPerTabHolds == Spec => []OneSocketPerTab
<1>. IInv => OneSocketPerTab
  BY DEF IInv, SocketsInv
<1>. QED BY InitIInv, NextIInv, PTL DEF Spec

(***************************************************************************)
(* The pull                                                                *)
(***************************************************************************)

(* The list of a pull is what came before its cursor, nothing twice.        *)
PullSound(p) ==
    /\ IsFiniteSet(p.got)
    /\ p.count = Cardinality(p.got)
    /\ p.after = Nothing <=> p.got = {}
    /\ p.after # Nothing => p.after \in p.got
    /\ \A v \in p.got : v = p.after \/ Before(v, p.after)
    /\ p.time =< now

(* The versions in it are due, and the current ones but for rows that were  *)
(* written since, which are beyond the cursor or late.  The current version *)
(* of a row that is due and behind the cursor, or in the time of a finished *)
(* pull, is in it.                                                          *)
ListSound(p) ==
    /\ \A v \in p.got :
          /\ v.at > p.since
          /\ rows[v.id] # Nothing
          /\ v.at =< rows[v.id].at
          /\ v.id \notin late => v = VersionOf(v.id) \/ v.at < rows[v.id].at
    /\ \A i \in Ids \ late :
          /\ rows[i] # Nothing
          /\ rows[i].at > p.since
          /\ \/ p.after # Nothing /\ ~ Before(p.after, VersionOf(i))
             \/ p.done /\ rows[i].at =< p.time
          => VersionOf(i) \in p.got

PullsSound == \A s \in Polls : polls[s] # Nothing => PullSound(polls[s]) /\ ListSound(polls[s])

CopiesSound ==
    \A i \in Ids : copy[i] # Nothing => rows[i] # Nothing /\ copy[i] =< rows[i].at

PagingIInv == PagingTypeOK /\ PullsSound /\ CopiesSound

(* due and not late, so that a pull from p.since has to deliver it *)
Expected(p) == {i \in Ids \ late : rows[i] # Nothing /\ rows[i].at > p.since}

-----------------------------------------------------------------------------
(* Versions and their order *)

LEMMA VersionTypes ==
    ASSUME NEW i \in Ids, rows[i] \in Row
    PROVE  /\ VersionOf(i) \in Version
           /\ VersionOf(i).id = i
           /\ VersionOf(i).at = rows[i].at
           /\ VersionOf(i).deleted = rows[i].deleted
BY DEF VersionOf, Version, Row

LEMMA BeforeOrder ==
    ASSUME NEW u \in Version, NEW v \in Version, NEW w \in Version
    PROVE  /\ ~ Before(v, v)
           /\ Before(u, v) => ~ Before(v, u) /\ u.at <= v.at
           /\ Before(u, v) /\ Before(v, w) => Before(u, w)
           /\ u.id # v.id => Before(u, v) \/ Before(v, u)
<1>1. \A x \in Version : x.at \in Nat /\ x.id \in Nat
  <2>1. Times \subseteq Nat /\ Ids \subseteq Nat
    BY SyncPagingAssumption DEF Times
  <2>. QED BY <2>1 DEF Version
<1>. QED BY <1>1 DEF Before

(* The last of a page is the one with the fewest beyond it. *)
LEMMA PageHasLast ==
    ASSUME NEW page \in SUBSET Version, IsFiniteSet(page), page # {},
           \A u, v \in page : u.id = v.id => u = v
    PROVE  \E v \in page : Ends(v, page)
<1>. DEFINE Beyond(v) == {u \in page : Before(v, u)}
            T == {Beyond(v) : v \in page}
<1>1. \A v \in page : Beyond(v) \in FiniteSubsetsOf(Version)
  BY FS_Subset DEF FiniteSubsetsOf
<1>2. PICK x \in T : \A y \in T : <<y, x>> \notin StrictSubsetOrdering(Version)
  <2>1. T \subseteq FiniteSubsetsOf(Version) /\ T # {}
    <3>. HIDE DEF Beyond
    <3>. QED BY <1>1
  <2>. HIDE DEF T
  <2>. QED BY <2>1, WFMin, FS_StrictSubsetOrderingWellFounded
<1>3. PICK v \in page : x = Beyond(v)
  OBVIOUS
<1>4. ASSUME NEW u \in page, u # v
      PROVE  Before(u, v)
  <2>1. SUFFICES ASSUME Before(v, u)
                 PROVE  FALSE
    BY <1>4, BeforeOrder
  <2>2. Beyond(u) \subseteq Beyond(v) /\ u \in Beyond(v) /\ u \notin Beyond(u)
    BY <2>1, BeforeOrder
  <2>3. Beyond(u) \in SUBSET Version /\ Beyond(v) \in SUBSET Version /\ Beyond(u) \in T
    OBVIOUS
  <2>. HIDE DEF T, Beyond
  <2>. QED BY <1>2, <1>3, <2>2, <2>3 DEF StrictSubsetOrdering
<1>. QED BY <1>4 DEF Ends

(* What a query can find: one version of each row. *)
LEMMA FoundVersions ==
    ASSUME NEW p, rows \in [Ids -> Row \cup {Nothing}]
    PROVE  /\ Found(p) \in SUBSET Version
           /\ IsFiniteSet(Found(p))
           /\ \A v \in Found(p) : /\ rows[v.id] # Nothing
                                  /\ v = VersionOf(v.id)
                                  /\ v.at = rows[v.id].at
                                  /\ v.at > p.since
                                  /\ p.after # Nothing => Before(p.after, v)
           /\ \A i \in Ids : /\ rows[i] # Nothing
                             /\ rows[i].at > p.since
                             /\ p.after # Nothing => Before(p.after, VersionOf(i))
                             => VersionOf(i) \in Found(p)
<1>1. \A i \in Ids : rows[i] # Nothing => rows[i] \in Row
  OBVIOUS
<1>2. ASSUME NEW v \in Found(p)
      PROVE  /\ v \in Version
             /\ rows[v.id] # Nothing /\ v = VersionOf(v.id)
             /\ v.at = rows[v.id].at /\ v.at > p.since
             /\ p.after # Nothing => Before(p.after, v)
  <2>1. PICK i \in Ids : rows[i] # Nothing /\ v = VersionOf(i)
    BY DEF Found
  <2>2. v.at > p.since /\ (p.after # Nothing => Before(p.after, v))
    BY DEF Found
  <2>. QED BY <1>1, <2>1, <2>2, VersionTypes
<1>3. ASSUME NEW i \in Ids, rows[i] # Nothing, rows[i].at > p.since,
             p.after # Nothing => Before(p.after, VersionOf(i))
      PROVE  VersionOf(i) \in Found(p)
  BY <1>1, <1>3, VersionTypes DEF Found
<1>4. IsFiniteSet(Found(p))
  <2>. DEFINE id == [v \in Found(p) |-> v.id]
  <2>1. \A v \in Found(p) : v.id \in Ids
    BY <1>2 DEF Version
  <2>2. id \in Injection(Found(p), Ids)
    <3>. SUFFICES ASSUME NEW u \in Found(p), NEW v \in Found(p), u.id = v.id
                  PROVE  u = v
      BY <2>1 DEF Injection, IsInjective
    <3>. QED BY <1>2
  <2>. QED BY <2>2, FS_Injection, SyncPagingAssumption
<1>. QED BY <1>2, <1>3, <1>4

(* The sets 1..m, for m in S, are finite, and the strict subset ordering is *)
(* well-founded on finite sets.                                             *)
LEMMA NatMin ==
    ASSUME NEW S \in SUBSET Nat, S # {}
    PROVE  \E m \in S : \A n \in S : m <= n
<1>. DEFINE Below(m) == 1..m
            T == {Below(m) : m \in S}
<1>1. \A m \in S : Below(m) \in FiniteSubsetsOf(Nat)
  BY FS_Interval DEF FiniteSubsetsOf
<1>2. PICK x \in T : \A y \in T : <<y, x>> \notin StrictSubsetOrdering(Nat)
  <2>1. T \subseteq FiniteSubsetsOf(Nat) /\ T # {}
    BY <1>1
  <2>. HIDE DEF T
  <2>. QED BY <2>1, WFMin, FS_StrictSubsetOrderingWellFounded
<1>3. PICK m \in S : x = Below(m)
  OBVIOUS
<1>4. ASSUME NEW n \in S, n < m
      PROVE  <<Below(n), Below(m)>> \in StrictSubsetOrdering(Nat)
  <2>1. Below(n) \subseteq Below(m) /\ Below(n) \in SUBSET Nat /\ Below(m) \in SUBSET Nat
    BY <1>4
  <2>2. m \in Below(m) /\ m \notin Below(n)
    BY <1>4
  <2>. HIDE DEF Below
  <2>. QED BY <2>1, <2>2 DEF StrictSubsetOrdering
<1>5. \A n \in S : Below(n) \in T
  OBVIOUS
<1>6. ASSUME NEW n \in S
      PROVE  m <= n
  <2>1. ~ n < m
    <3>. HIDE DEF T, Below
    <3>. QED BY <1>2, <1>3, <1>4, <1>5
  <2>. QED BY <2>1
<1>. QED BY <1>6

LEMMA NewestVersion ==
    ASSUME NEW got \in SUBSET Version, NEW i, About(got, i) # {}
    PROVE  /\ Newest(got, i) \in About(got, i)
           /\ \A u \in About(got, i) : u.at <= Newest(got, i).at
<1>. DEFINE last == MaxTime + MaxSkew
            T == {last - v.at : v \in About(got, i)}
<1>1. \A v \in About(got, i) : v.at \in 0 .. last
  BY DEF About, Version, Times
<1>2. T \in SUBSET Nat /\ T # {} /\ last \in Nat
  BY <1>1, SyncPagingAssumption
<1>3. PICK t \in T : \A u \in T : t <= u
  <2>. HIDE DEF T
  <2>. QED BY <1>2, NatMin
<1>4. PICK v \in About(got, i) : t = last - v.at
  OBVIOUS
<1>5. ASSUME NEW u \in About(got, i)
      PROVE  u.at <= v.at
  <2>1. t <= last - u.at
    BY <1>3
  <2>. HIDE DEF T, last
  <2>. QED BY <1>1, <1>2, <1>4, <2>1
<1>. QED BY <1>5 DEF Newest

-----------------------------------------------------------------------------
(* A page *)

LEMMA PageVersions ==
    ASSUME rows \in [Ids -> Row \cup {Nothing}],
           NEW p, NEW page \in SUBSET Found(p)
    PROVE  /\ page \in SUBSET Version
           /\ IsFiniteSet(page) /\ Cardinality(page) \in Nat
           /\ page # {} =>
                 Ends(CHOOSE v \in page : Ends(v, page), page)
<1>1. page \in SUBSET Version /\ \A u, v \in page : u.id = v.id => u = v
  BY FoundVersions
<1>2. IsFiniteSet(page) /\ Cardinality(page) \in Nat
  BY FoundVersions, FS_Subset, FS_CardinalityType
<1>3. ASSUME page # {}
      PROVE  Ends(CHOOSE v \in page : Ends(v, page), page)
  BY <1>1, <1>2, <1>3, PageHasLast
<1>. QED BY <1>1, <1>2, <1>3

(* the pull p with a page appended *)
Paged(p, page) ==
    [p EXCEPT !.after = IF page = {} THEN @ ELSE CHOOSE v \in page : Ends(v, page),
              !.got = @ \cup page, !.count = @ + Cardinality(page),
              !.time = now, !.done = Cardinality(page) < PageLimit]

LEMMA PagedFields ==
    ASSUME PagingTypeOK, NEW p \in Pull, NEW page \in SUBSET Found(p)
    PROVE  LET q == Paged(p, page)
               last == CHOOSE v \in page : Ends(v, page)
           IN  /\ q \in Pull
               /\ q.since = p.since /\ q.got = p.got \cup page
               /\ q.count = p.count + Cardinality(page) /\ q.time = now
               /\ q.done => Cardinality(page) < PageLimit
               /\ page = {} => q.after = p.after
               /\ page # {} => Ends(q.after, page) /\ q.after \in Version
<1>. DEFINE after == IF page = {} THEN p.after ELSE CHOOSE v \in page : Ends(v, page)
            done == Cardinality(page) < PageLimit
<1>1. page \in SUBSET Version /\ Cardinality(page) \in Nat
  BY PageVersions DEF PagingTypeOK
<1>2. /\ page = {} => after = p.after
      /\ page # {} => Ends(after, page) /\ after \in Version
  <2>1. CASE page = {}
    BY <2>1
  <2>2. CASE page # {}
    <3>1. after = CHOOSE v \in page : Ends(v, page)
      BY <2>2
    <3>2. Ends(after, page)
      BY <2>2, <3>1, PageVersions DEF PagingTypeOK
    <3>. HIDE DEF after
    <3>. QED BY <1>1, <2>2, <3>2 DEF Ends
  <2>. QED BY <2>1, <2>2
<1>3. now \in Times
  BY SyncPagingAssumption DEF PagingTypeOK, Times
<1>4. Paged(p, page) = [p EXCEPT !.after = after, !.got = p.got \cup page,
                                 !.count = p.count + Cardinality(page),
                                 !.time = now, !.done = done]
  BY DEF Paged
<1>5. done \in BOOLEAN /\ p.count + Cardinality(page) \in Nat
      /\ p.got \cup page \in SUBSET Version /\ p.after \in Version \cup {Nothing}
  BY <1>1 DEF Pull
<1>6. after \in Version \cup {Nothing}
  <2>. HIDE DEF after
  <2>. QED BY <1>2, <1>5
<1>. HIDE DEF after
<1>. QED BY <1>1, <1>2, <1>3, <1>4, <1>5, <1>6 DEF Pull

LEMMA PagedSound ==
    ASSUME PagingTypeOK, NEW p \in Pull, NEW page \in SUBSET Found(p),
           PullSound(p), IsPage(page, Found(p))
    PROVE  PullSound(Paged(p, page))
<1>. DEFINE q == Paged(p, page)
<1>1. /\ q.got = p.got \cup page /\ q.count = p.count + Cardinality(page) /\ q.time = now
      /\ page = {} => q.after = p.after
      /\ page # {} => Ends(q.after, page) /\ q.after \in Version
  BY PagedFields
<1>. HIDE DEF q
<1>2. /\ page \in SUBSET Version /\ IsFiniteSet(page) /\ Cardinality(page) \in Nat
      /\ \A v \in page : p.after # Nothing => Before(p.after, v)
  BY PageVersions, FoundVersions DEF PagingTypeOK
<1>3. /\ p.got \in SUBSET Version /\ p.after \in Version \cup {Nothing}
      /\ IsFiniteSet(p.got) /\ Cardinality(p.got) \in Nat
  BY FS_CardinalityType DEF Pull, PullSound
<1>4. \A v \in p.got, u \in page : Before(v, u)
  BY <1>2, <1>3, BeforeOrder DEF PullSound
<1>5. p.got \cap page = {}
  BY <1>2, <1>3, <1>4, BeforeOrder
<1>6. /\ IsFiniteSet(q.got)
      /\ Cardinality(q.got) = Cardinality(p.got) + Cardinality(page)
  <2>1. Cardinality(p.got \cap page) = 0
    BY <1>5, FS_EmptySet
  <2>2. /\ IsFiniteSet(p.got \cup page)
        /\ Cardinality(p.got \cup page)
              = Cardinality(p.got) + Cardinality(page) - Cardinality(p.got \cap page)
    BY <1>2, <1>3, FS_Union
  <2>. QED BY <1>1, <1>2, <1>3, <2>1, <2>2
<1>7. now \in Nat
  BY SyncPagingAssumption DEF PagingTypeOK
<1>8. q.count = Cardinality(q.got) /\ q.time =< now
  BY <1>1, <1>6, <1>7 DEF PullSound
<1>9. /\ q.after = Nothing <=> q.got = {}
      /\ q.after # Nothing => q.after \in q.got
      /\ \A v \in q.got : v = q.after \/ Before(v, q.after)
  <2>1. CASE page = {}
    BY <1>1, <2>1 DEF PullSound
  <2>2. CASE page # {}
    <3>1. q.after \in page /\ \A v \in page : v = q.after \/ Before(v, q.after)
      BY <1>1, <2>2 DEF Ends
    <3>2. \A v \in q.got : v = q.after \/ Before(v, q.after)
      BY <1>1, <1>4, <3>1
    <3>3. q.after # Nothing /\ q.after \in q.got
      BY <1>1, <2>2, <3>1, SyncPagingAssumption
    <3>. QED BY <3>2, <3>3
  <2>. QED BY <2>1, <2>2
<1>. QED BY <1>6, <1>8, <1>9 DEF q, PullSound

LEMMA PagedComplete ==
    ASSUME PagingTypeOK, NEW p \in Pull, NEW page \in SUBSET Found(p),
           PullSound(p), ListSound(p), ~ p.done, IsPage(page, Found(p))
    PROVE  /\ ListSound(Paged(p, page))
           /\ Paged(p, page).done =>
                 \A i \in Expected(p) : VersionOf(i) \in Paged(p, page).got
<1>. DEFINE q == Paged(p, page)
<1>1. /\ q \in Pull /\ q.since = p.since /\ q.got = p.got \cup page
      /\ q.done => Cardinality(page) < PageLimit
      /\ page = {} => q.after = p.after
      /\ page # {} => Ends(q.after, page) /\ q.after \in Version
  BY PagedFields
<1>. HIDE DEF q
<1>2. rows \in [Ids -> Row \cup {Nothing}] /\ page \in SUBSET Version
      /\ Cardinality(page) \in Nat /\ PageLimit \in Nat
  BY PageVersions, SyncPagingAssumption DEF PagingTypeOK
<1>3. ASSUME NEW v \in q.got
      PROVE  /\ v.at > q.since /\ rows[v.id] # Nothing /\ v.at =< rows[v.id].at
             /\ v.id \notin late => v = VersionOf(v.id) \/ v.at < rows[v.id].at
  <2>1. CASE v \in p.got
    BY <1>1, <2>1 DEF ListSound
  <2>2. CASE v \in page
    <3>1. rows[v.id] # Nothing /\ v = VersionOf(v.id) /\ v.at = rows[v.id].at /\ v.at > p.since
      BY <1>2, <2>2, FoundVersions
    <3>2. v.at =< v.at
      <4>1. v \in Version
        BY <1>2, <2>2
      <4>. QED BY <4>1, SyncPagingAssumption DEF Version, Times
    <3>. QED BY <1>1, <3>1, <3>2
  <2>. QED BY <1>1, <1>3, <2>1, <2>2
<1>4. ASSUME NEW i \in Expected(p), VersionOf(i) \notin q.got
      PROVE  VersionOf(i) \in Found(p) \ page
  BY <1>1, <1>2, <1>4, FoundVersions DEF Expected, ListSound
<1>5. ASSUME NEW i \in Expected(p), q.done
      PROVE  VersionOf(i) \in q.got
  <2>1. page = Found(p)
    BY <1>1, <1>2, <1>5 DEF IsPage
  <2>. QED BY <1>4, <2>1
<1>6. ASSUME NEW i \in Expected(p), q.after # Nothing, ~ Before(q.after, VersionOf(i))
      PROVE  VersionOf(i) \in q.got
  <2>1. SUFFICES ASSUME VersionOf(i) \in Found(p) \ page
                 PROVE  FALSE
    BY <1>4
  <2>2. CASE page = {}
    <3>1. q.after = p.after
      BY <1>1, <2>2
    <3>. QED BY <1>2, <1>6, <2>1, <3>1, FoundVersions
  <2>3. CASE page # {}
    BY <1>1, <1>6, <2>1, <2>3 DEF IsPage, Ends
  <2>. QED BY <2>2, <2>3
<1>7. Expected(q) = Expected(p)
  BY <1>1 DEF Expected
<1>8. ListSound(q)
  BY <1>3, <1>5, <1>6, <1>7 DEF ListSound, Expected
<1>. QED BY <1>5, <1>8 DEF q

-----------------------------------------------------------------------------
(* What is applied *)

LEMMA MergedCopy ==
    ASSUME NEW got \in SUBSET Version, NEW i \in Ids, NEW mine \in Times \cup {Nothing}
    PROVE  LET merged == Merged(mine, got, i)
               last == Newest(got, i)
           IN  /\ About(got, i) = {} => merged = mine
               /\ About(got, i) # {} =>
                     /\ last.deleted => merged = Nothing
                     /\ ~ last.deleted =>
                           \/ merged = last.at
                           \/ /\ merged = mine /\ mine # Nothing /\ mine >= last.at
                              /\ \A v \in About(got, i) : ~ v.deleted
               /\ merged \in Times \cup {Nothing}
<1>. DEFINE last == Newest(got, i)
            merged == Merged(mine, got, i)
            replaced == \/ mine = Nothing \/ last.at > mine
                        \/ \E v \in About(got, i) : v.deleted
<1>1. merged = IF About(got, i) = {} THEN mine
               ELSE IF last.deleted THEN Nothing
               ELSE IF replaced THEN last.at
               ELSE mine
  BY DEF Merged
<1>2. About(got, i) # {} => last.at \in Times
  BY NewestVersion DEF About, Version
<1>3. Times \subseteq Nat
  BY SyncPagingAssumption DEF Times
<1>. HIDE DEF merged, last
<1>4. ASSUME mine # Nothing, About(got, i) # {}, ~ last.at > mine
      PROVE  mine >= last.at
  <2>1. mine \in Nat /\ last.at \in Nat
    BY <1>2, <1>3, <1>4
  <2>. QED BY <1>4, <2>1
<1>. QED BY <1>1, <1>2, <1>4 DEF merged, last

-----------------------------------------------------------------------------
(* The steps *)

LEMMA BudgetSpent ==
    ASSUME budget \in [writes : 0..MaxWrites, pulls : 0..MaxPulls]
    PROVE  /\ budget.writes > 0 =>
                 [budget EXCEPT !.writes = @ - 1] \in [writes : 0..MaxWrites, pulls : 0..MaxPulls]
           /\ budget.pulls > 0 =>
                 [budget EXCEPT !.pulls = @ - 1] \in [writes : 0..MaxWrites, pulls : 0..MaxPulls]
<1>1. budget.writes > 0 => budget.writes - 1 \in 0..MaxWrites
  BY SyncPagingAssumption
<1>2. budget.pulls > 0 => budget.pulls - 1 \in 0..MaxPulls
  BY SyncPagingAssumption
<1>. QED BY <1>1, <1>2

LEMMA TickStep ==
    ASSUME PagingIInv, Tick
    PROVE  PagingIInv'
<1>1. now' \in 0 .. MaxTime /\ now =< now' /\ UNCHANGED <<rows, late, since, copy, polls, budget>>
  BY SyncPagingAssumption DEF Tick, PagingIInv, PagingTypeOK
<1>2. \A s \in Polls : polls[s] # Nothing => polls[s].time =< now'
  <2>. SUFFICES ASSUME NEW s \in Polls, polls[s] # Nothing
                PROVE  polls[s].time =< now'
    OBVIOUS
  <2>1. polls[s].time \in Nat /\ now \in Nat /\ now' \in Nat /\ polls[s].time =< now
    BY <1>1, SyncPagingAssumption DEF PagingIInv, PagingTypeOK, Pull, Times
  <2>. QED BY <1>1, <2>1
<1>. QED BY <1>1, <1>2 DEF PagingIInv, PagingTypeOK, PullsSound, PullSound, ListSound,
     VersionOf, CopiesSound

LEMMA WriteStep ==
    ASSUME PagingIInv, NEW i \in Ids, NEW row \in Row, Write(i, row)
    PROVE  PagingIInv'
<1>1. /\ rows[i] # Nothing => rows[i].at =< row.at
      /\ rows' = [rows EXCEPT ![i] = row]
      /\ late' \in {late \cup {i}, late \ {i}}
      /\ i \notin late' => ~ Passed(row.at)
      /\ UNCHANGED <<now, since, copy, polls>>
  BY DEF Write
<1>2. rows \in [Ids -> Row \cup {Nothing}] /\ row # Nothing
  BY SyncPagingAssumption DEF PagingIInv, PagingTypeOK
<1>3. PagingTypeOK'
  <2>1. budget' \in [writes : 0..MaxWrites, pulls : 0..MaxPulls]
    BY BudgetSpent DEF Write, PagingIInv, PagingTypeOK
  <2>. QED BY <1>1, <1>2, <2>1 DEF PagingIInv, PagingTypeOK
<1>4. rows'[i] = row /\ \A j \in Ids \ {i} : rows'[j] = rows[j] /\ (j \in late' <=> j \in late)
  BY <1>1, <1>2
<1>5. \A n \in Times : n \in Nat
  BY SyncPagingAssumption DEF Times
<1>6. row.at \in Times /\ (rows[i] # Nothing => rows[i].at \in Times)
  BY <1>2 DEF Row
<1>7. CopiesSound'
  <2>. SUFFICES ASSUME NEW j \in Ids, copy[j] # Nothing
                PROVE  rows'[j] # Nothing /\ copy[j] =< rows'[j].at
    BY <1>1 DEF CopiesSound
  <2>1. copy[j] \in Times /\ rows[j] # Nothing /\ copy[j] =< rows[j].at
    BY DEF PagingIInv, PagingTypeOK, CopiesSound
  <2>2. CASE j = i
    BY <1>1, <1>2, <1>4, <1>5, <1>6, <2>1, <2>2
  <2>. QED BY <1>4, <2>1, <2>2
<1>8. ASSUME NEW s \in Polls, polls[s] # Nothing
      PROVE  PullSound(polls[s])' /\ ListSound(polls[s])'
  <2>. DEFINE p == polls[s]
  <2>1. p \in Pull /\ PullSound(p) /\ ListSound(p) /\ p' = p
    BY <1>1, <1>8 DEF PagingIInv, PagingTypeOK, PullsSound
  <2>2. PullSound(p)'
    BY <1>1, <2>1 DEF PullSound
  <2>3. /\ p.after # Nothing => p.after \in Version
        /\ \A v \in p.got : v \in Version /\ v.at \in Times /\ v.id \in Ids
        /\ p.time \in Times /\ p.since \in Times
    BY <2>1 DEF Pull, Version
  <2>4. i \notin late' =>
          /\ p.after # Nothing => p.after.at < row.at
          /\ ~ row.at =< p.time
    <3>1. i \notin late' => ~ row.at =< p.time /\ (p.after # Nothing => ~ row.at =< p.after.at)
      BY <1>1, <1>8 DEF Passed
    <3>2. p.after # Nothing => p.after.at \in Times
      BY <2>3 DEF Version
    <3>. QED BY <1>5, <1>6, <3>1, <3>2
  <2>. HIDE DEF p
  <2>5. ASSUME NEW v \in p.got
        PROVE  /\ v.at > p.since /\ rows'[v.id] # Nothing /\ v.at =< rows'[v.id].at
               /\ v.id \notin late' => v = VersionOf(v.id)' \/ v.at < rows'[v.id].at
    <3>1. /\ v.at > p.since /\ rows[v.id] # Nothing /\ v.at =< rows[v.id].at
          /\ v.id \notin late => v = VersionOf(v.id) \/ v.at < rows[v.id].at
      BY <2>1 DEF ListSound
    <3>2. CASE v.id = i
      <4>1. v.at =< row.at
        BY <1>1, <1>5, <1>6, <2>3, <3>1, <3>2
      <4>2. p.after \in Version /\ v.at =< p.after.at
        <5>1. p.after # Nothing /\ (v = p.after \/ Before(v, p.after))
          BY <2>1 DEF PullSound
        <5>2. p.after \in Version
          BY <2>3, <5>1
        <5>. QED BY <1>5, <2>3, <5>1, <5>2, BeforeOrder DEF Version
      <4>3. p.after.at \in Times /\ p.after # Nothing
        BY <4>2, SyncPagingAssumption DEF Version
      <4>4. i \notin late' => v.at < row.at
        BY <1>5, <1>6, <2>3, <2>4, <4>2, <4>3
      <4>. QED BY <1>2, <1>4, <3>1, <3>2, <4>1, <4>4
    <3>3. CASE v.id # i
      BY <1>4, <2>3, <3>1, <3>3 DEF VersionOf
    <3>. QED BY <3>2, <3>3
  <2>6. ASSUME NEW j \in Ids \ late', rows'[j] # Nothing, rows'[j].at > p.since,
               \/ p.after # Nothing /\ ~ Before(p.after, VersionOf(j)')
               \/ p.done /\ rows'[j].at =< p.time
        PROVE  VersionOf(j)' \in p.got
    <3>1. CASE j = i
      <4>1. p.after # Nothing => Before(p.after, VersionOf(i)')
        BY <1>4, <2>4, <3>1 DEF Before, VersionOf
      <4>. QED BY <1>4, <2>4, <2>6, <3>1, <4>1
    <3>2. CASE j # i
      BY <1>4, <2>1, <2>6, <3>2 DEF ListSound, VersionOf
    <3>. QED BY <3>1, <3>2
  <2>7. ListSound(p)'
    BY <2>1, <2>5, <2>6 DEF ListSound
  <2>. QED BY <2>2, <2>7 DEF p
<1>9. PullsSound'
  BY <1>1, <1>8 DEF PullsSound
<1>. QED BY <1>3, <1>7, <1>9 DEF PagingIInv

(* a pull begins, goes on, fails or ends: the others are not concerned *)
LEMMA PullStep ==
    ASSUME PagingIInv, NEW s \in Polls, NEW p \in Pull \cup {Nothing},
           UNCHANGED <<now, rows, late>>, since' \in 0 .. MaxTime,
           copy' \in [Ids -> Times \cup {Nothing}], CopiesSound',
           polls' = [polls EXCEPT ![s] = p],
           p # Nothing => PullSound(p) /\ ListSound(p),
           budget' \in [writes : 0..MaxWrites, pulls : 0..MaxPulls]
    PROVE  PagingIInv'
<1>1. PagingTypeOK'
  <2>1. \A t \in Polls : polls'[t] # Nothing =>
          polls'[t].time =< now /\ (polls'[t].after = Nothing <=> polls'[t].got = {})
    BY DEF PagingIInv, PagingTypeOK, PullSound
  <2>. QED BY <2>1 DEF PagingIInv, PagingTypeOK
<1>2. \A t \in Polls : polls'[t] # Nothing => PullSound(polls'[t]) /\ ListSound(polls'[t])
  BY DEF PagingIInv, PagingTypeOK, PullsSound
<1>3. PullsSound'
  BY <1>2 DEF PullsSound, PullSound, ListSound, VersionOf
<1>. QED BY <1>1, <1>3 DEF PagingIInv

LEMMA BeginStep ==
    ASSUME PagingIInv, NEW s \in Polls, Begin(s)
    PROVE  PagingIInv'
<1>. DEFINE p == [since |-> since, after |-> Nothing, got |-> {}, count |-> 0,
                  time |-> 0, done |-> FALSE]
<1>1. polls' = [polls EXCEPT ![s] = p] /\ UNCHANGED <<now, rows, late, since, copy>>
  BY DEF Begin
<1>2. since \in Times /\ 0 \in Times /\ now \in Nat
  BY SyncPagingAssumption DEF PagingIInv, PagingTypeOK, Times
<1>3. p \in Pull
  BY <1>2 DEF Pull
<1>4. /\ p.after = Nothing /\ p.got = {} /\ p.count = 0 /\ p.time = 0 /\ ~ p.done
  OBVIOUS
<1>. HIDE DEF p
<1>5. PullSound(p) /\ ListSound(p)
  BY <1>2, <1>4, FS_EmptySet DEF PullSound, ListSound
<1>6. budget' \in [writes : 0..MaxWrites, pulls : 0..MaxPulls]
  BY BudgetSpent DEF Begin, PagingIInv, PagingTypeOK
<1>. QED BY <1>1, <1>3, <1>5, <1>6, PullStep DEF PagingIInv, PagingTypeOK, CopiesSound

(* a page as a step of the pull *)
LEMMA PageSteps ==
    ASSUME PagingIInv, NEW s \in Polls, Page(s)
    PROVE  /\ polls[s] \in Pull /\ ~ polls[s].done
           /\ UNCHANGED <<now, rows, late, since, copy, budget>>
           /\ \E p \in Pull :
                 /\ polls' = [polls EXCEPT ![s] = p]
                 /\ PullSound(p) /\ ListSound(p)
                 /\ p.since = polls[s].since /\ p.time = now
                 /\ p.done => \A i \in Expected(p) : VersionOf(i) \in p.got
<1>. DEFINE p == polls[s]
<1>1. /\ p \in Pull /\ ~ p.done /\ PullSound(p) /\ ListSound(p) /\ PagingTypeOK
      /\ UNCHANGED <<now, rows, late, since, copy, budget>>
  BY DEF Page, PagingIInv, PagingTypeOK, PullsSound
<1>2. PICK page \in SUBSET Found(p) : IsPage(page, Found(p)) /\ NextPage(s, page)
  BY DEF Page
<1>3. polls' = [polls EXCEPT ![s] = Paged(p, page)]
  <2>. DEFINE after == IF page = {} THEN p.after ELSE CHOOSE v \in page : Ends(v, page)
              got == p.got \cup page
              count == p.count + Cardinality(page)
              done == Cardinality(page) < PageLimit
  <2>1. polls' = [polls EXCEPT ![s].after = after, ![s].got = got, ![s].count = count,
                               ![s].time = now, ![s].done = done]
    BY <1>2 DEF NextPage
  <2>2. Paged(p, page) = [p EXCEPT !.after = after, !.got = got, !.count = count,
                                   !.time = now, !.done = done]
    BY DEF Paged
  <2>. HIDE DEF after, got, count, done
  <2>. QED BY <1>1, <2>1, <2>2 DEF PagingIInv, PagingTypeOK
<1>. HIDE DEF p
<1>4. Paged(p, page) \in Pull /\ Paged(p, page).since = p.since /\ Paged(p, page).time = now
  BY <1>1, PagedFields
<1>5. PullSound(Paged(p, page)) /\ ListSound(Paged(p, page))
  BY <1>1, <1>2, PagedSound, PagedComplete
<1>6. Paged(p, page).done =>
        \A i \in Expected(Paged(p, page)) : VersionOf(i) \in Paged(p, page).got
  BY <1>1, <1>2, <1>4, PagedComplete DEF Expected
<1>. QED BY <1>1, <1>3, <1>4, <1>5, <1>6 DEF p

LEMMA EndStep ==
    ASSUME PagingIInv, NEW s \in Polls, End(s)
    PROVE  /\ PagingIInv'
           /\ polls[s] \in Pull /\ polls[s].done /\ PullSound(polls[s]) /\ ListSound(polls[s])
           /\ copy' = [i \in Ids |-> Merged(copy[i], polls[s].got, i)]
           /\ since' = polls[s].time
           /\ polls' = [polls EXCEPT ![s] = Nothing]
           /\ UNCHANGED <<now, rows, late, budget>>
<1>. DEFINE p == polls[s]
<1>1. /\ p \in Pull /\ p.done /\ PullSound(p) /\ ListSound(p)
      /\ copy' = [i \in Ids |-> Merged(copy[i], p.got, i)]
      /\ since' = p.time
      /\ polls' = [polls EXCEPT ![s] = Nothing]
      /\ UNCHANGED <<now, rows, late, budget>>
  BY DEF End, Applied, PagingIInv, PagingTypeOK, PullsSound
<1>. HIDE DEF p
<1>2. p.got \in SUBSET Version /\ \A n \in Times : n \in Nat
  BY <1>1, SyncPagingAssumption DEF Pull, Times
<1>3. since' \in 0 .. MaxTime
  <2>1. p.time \in Nat /\ p.time =< now /\ now \in 0 .. MaxTime
    BY <1>1, <1>2 DEF PullSound, Pull, PagingIInv, PagingTypeOK
  <2>. QED BY <1>1, <2>1, SyncPagingAssumption
<1>4. copy' \in [Ids -> Times \cup {Nothing}]
  BY <1>1, <1>2, MergedCopy DEF PagingIInv, PagingTypeOK
<1>5. ASSUME NEW i \in Ids, copy'[i] # Nothing
      PROVE  rows[i] # Nothing /\ copy'[i] =< rows[i].at
  <2>1. copy'[i] = Merged(copy[i], p.got, i) /\ copy[i] \in Times \cup {Nothing}
    BY <1>1 DEF PagingIInv, PagingTypeOK
  <2>2. copy[i] # Nothing => rows[i] # Nothing /\ copy[i] =< rows[i].at
    BY DEF PagingIInv, CopiesSound
  <2>3. CASE copy'[i] = copy[i]
    BY <1>5, <2>2, <2>3
  <2>4. CASE copy'[i] # copy[i]
    <3>1. About(p.got, i) # {} /\ copy'[i] = Newest(p.got, i).at
      BY <1>2, <1>5, <2>1, <2>4, MergedCopy
    <3>2. Newest(p.got, i) \in p.got /\ Newest(p.got, i).id = i
      BY <1>2, <3>1, NewestVersion DEF About
    <3>. QED BY <1>1, <3>1, <3>2 DEF ListSound
  <2>. QED BY <2>3, <2>4
<1>6. CopiesSound'
  BY <1>1, <1>5 DEF CopiesSound
<1>7. PagingIInv'
  BY <1>1, <1>3, <1>4, <1>6, PullStep DEF PagingIInv, PagingTypeOK
<1>. QED BY <1>1, <1>7 DEF p

LEMMA FailStep ==
    ASSUME PagingIInv, NEW s \in Polls, Fail(s)
    PROVE  PagingIInv'
<1>1. polls' = [polls EXCEPT ![s] = Nothing] /\ UNCHANGED <<now, rows, late, since, copy, budget>>
  BY DEF Fail
<1>. QED BY <1>1, PullStep DEF PagingIInv, PagingTypeOK, CopiesSound

LEMMA PagingInitIInv == PagingInit => PagingIInv
<1>. SUFFICES ASSUME PagingInit PROVE PagingIInv
  OBVIOUS
<1>1. /\ now \in 0 .. MaxTime /\ since \in 0 .. MaxTime /\ late \in SUBSET Ids
      /\ rows \in [Ids -> Row \cup {Nothing}] /\ copy \in [Ids -> Times \cup {Nothing}]
      /\ polls \in [Polls -> Pull \cup {Nothing}]
      /\ \A s \in Polls : polls[s] = Nothing
      /\ budget \in [writes : 0..MaxWrites, pulls : 0..MaxPulls]
  BY SyncPagingAssumption DEF PagingInit
<1>2. PagingTypeOK
  BY <1>1 DEF PagingTypeOK
<1>. QED BY <1>1, <1>2 DEF PagingInit, PagingIInv, PullsSound, CopiesSound

LEMMA PagingNextIInv == PagingIInv /\ [PagingNext]_pagingVars => PagingIInv'
<1>. SUFFICES ASSUME PagingIInv, [PagingNext]_pagingVars PROVE PagingIInv'
  OBVIOUS
<1>1. CASE UNCHANGED pagingVars
  BY <1>1 DEF pagingVars, PagingIInv, PagingTypeOK, PullsSound, PullSound, ListSound,
     VersionOf, CopiesSound
<1>2. ASSUME NEW s \in Polls, Page(s)
      PROVE  PagingIInv'
  <2>1. UNCHANGED <<now, rows, late, since, copy, budget>>
    BY <1>2, PageSteps
  <2>2. PICK p \in Pull : polls' = [polls EXCEPT ![s] = p] /\ PullSound(p) /\ ListSound(p)
    BY <1>2, PageSteps
  <2>. QED BY <2>1, <2>2, PullStep DEF PagingIInv, PagingTypeOK, CopiesSound
<1>3. CASE PagingNext
  BY <1>2, <1>3, TickStep, WriteStep, BeginStep, EndStep, FailStep DEF PagingNext
<1>. QED BY <1>1, <1>3

(* The variables keep to their types, whatever the numbers of rows and of   *)
(* pulls and the size of a page; a pull has a cursor as soon as it has a    *)
(* change, and its time is one the clock of the server has shown.           *)
THEOREM PagingTypeCorrect == PagingSpec => []PagingTypeOK
<1>1. PagingIInv => PagingTypeOK
  BY DEF PagingIInv
<1>. QED BY <1>1, PagingInitIInv, PagingNextIInv, PTL DEF PagingSpec

(* No row comes twice in a pull, whatever is pushed between its pages (the  *)
(* keyset cursor of queryChanges), with any number of pulls.                *)
THEOREM NothingTwiceHolds == PagingSpec => []NothingTwice
<1>1. PagingIInv => NothingTwice
  BY DEF PagingIInv, PullsSound, PullSound, NothingTwice
<1>. QED BY <1>1, PagingInitIInv, PagingNextIInv, PTL DEF PagingSpec

-----------------------------------------------------------------------------
(* What a finished pull says of a row that is not late *)

LEMMA NewestIsCurrent ==
    ASSUME PagingIInv, NEW p \in Pull, ListSound(p),
           NEW i \in Ids \ late, rows[i] # Nothing, VersionOf(i) \in p.got
    PROVE  About(p.got, i) # {} /\ Newest(p.got, i) = VersionOf(i)
<1>. DEFINE last == Newest(p.got, i)
<1>1. rows[i] \in Row
  BY DEF PagingIInv, PagingTypeOK
<1>2. VersionOf(i).id = i /\ VersionOf(i).at = rows[i].at
  BY <1>1, VersionTypes
<1>3. p.got \in SUBSET Version /\ VersionOf(i) \in About(p.got, i)
  BY <1>2 DEF Pull, About
<1>4. last \in About(p.got, i) /\ rows[i].at =< last.at
  BY <1>2, <1>3, NewestVersion
<1>. HIDE DEF last
<1>5. last \in p.got /\ last.id = i /\ last.at \in Times /\ rows[i].at \in Times
  BY <1>1, <1>3, <1>4 DEF About, Version, Row
<1>6. Times \subseteq Nat
  BY SyncPagingAssumption DEF Times
<1>7. ~ last.at < rows[i].at
  <2>1. last.at \in Nat /\ rows[i].at \in Nat
    BY <1>5, <1>6
  <2>. QED BY <1>4, <2>1
<1>8. last = VersionOf(i)
  BY <1>5, <1>7 DEF ListSound
<1>. QED BY <1>3, <1>8 DEF last

LEMMA NotDueNotRead ==
    ASSUME PagingIInv, NEW p \in Pull, ListSound(p), NEW i \in Ids,
           ~ (rows[i] # Nothing /\ rows[i].at > p.since)
    PROVE  About(p.got, i) = {}
<1>. SUFFICES ASSUME NEW v \in p.got, v.id = i
              PROVE  FALSE
  BY DEF About
<1>1. v.at > p.since /\ rows[i] # Nothing /\ v.at =< rows[i].at
  BY DEF ListSound
<1>2. v.at \in Times /\ p.since \in Times /\ rows[i].at \in Times
  BY <1>1 DEF Pull, Version, PagingIInv, PagingTypeOK, Row
<1>3. v.at \in Nat /\ p.since \in Nat /\ rows[i].at \in Nat
  BY <1>2, SyncPagingAssumption DEF Times
<1>4. ~ rows[i].at > p.since
  BY <1>1
<1>. QED BY <1>1, <1>3, <1>4

-----------------------------------------------------------------------------
(* What the cursor has got past *)

LEMMA EndSkipsNothing ==
    ASSUME PagingIInv, Current, NEW s \in Polls, End(s), polls[s].since =< since
    PROVE  Current'
<1>. DEFINE p == polls[s]
<1>1. /\ p \in Pull /\ p.done /\ ListSound(p) /\ p.since =< since
      /\ copy' = [i \in Ids |-> Merged(copy[i], p.got, i)]
      /\ since' = p.time
      /\ UNCHANGED <<rows, late>>
  BY EndStep
<1>. HIDE DEF p
<1>. SUFFICES ASSUME NEW i \in Ids \ late, rows[i] # Nothing, rows[i].at =< p.time
              PROVE  copy'[i] = IF rows[i].deleted THEN Nothing ELSE rows[i].at
  BY <1>1 DEF Current, Reflected
<1>3. /\ rows[i] \in Row /\ copy[i] \in Times \cup {Nothing}
      /\ copy[i] # Nothing => copy[i] =< rows[i].at
      /\ copy'[i] = Merged(copy[i], p.got, i)
  BY <1>1 DEF PagingIInv, PagingTypeOK, CopiesSound
<1>4. rows[i].at \in Nat /\ since \in Nat /\ p.since \in Nat /\ Times \subseteq Nat /\ p.got \in SUBSET Version
  BY <1>1, <1>3, SyncPagingAssumption DEF Row, Times, Pull, PagingIInv, PagingTypeOK
<1>5. CASE rows[i].at > p.since
  <2>1. VersionOf(i) \in p.got
    BY <1>1, <1>5 DEF ListSound
  <2>2. About(p.got, i) # {} /\ Newest(p.got, i) = VersionOf(i)
    BY <1>1, <2>1, NewestIsCurrent
  <2>3. VersionOf(i).at = rows[i].at /\ VersionOf(i).deleted = rows[i].deleted
    BY <1>3, VersionTypes
  <2>4. \/ copy'[i] = rows[i].at /\ ~ rows[i].deleted
        \/ copy'[i] = Nothing /\ rows[i].deleted
        \/ /\ ~ rows[i].deleted /\ copy'[i] = copy[i]
           /\ copy[i] # Nothing /\ copy[i] >= rows[i].at
    BY <1>3, <1>4, <2>2, <2>3, MergedCopy
  <2>5. copy[i] # Nothing => copy[i] \in Nat
    BY <1>3, <1>4
  <2>6. copy[i] # Nothing /\ copy[i] >= rows[i].at => copy[i] = rows[i].at
    BY <1>3, <1>4, <2>5
  <2>. QED BY <2>4, <2>6
<1>6. CASE ~ rows[i].at > p.since
  <2>1. copy'[i] = copy[i]
    BY <1>1, <1>3, <1>4, <1>6, NotDueNotRead, MergedCopy
  <2>2. Reflected(i)
    BY <1>1, <1>4, <1>6 DEF Current
  <2>. QED BY <2>1, <2>2 DEF Reflected
<1>. QED BY <1>5, <1>6

LEMMA WriteSkipsNothing ==
    ASSUME PagingIInv, Current, NEW i \in Ids, NEW row \in Row, Write(i, row)
    PROVE  Current'
<1>1. /\ rows' = [rows EXCEPT ![i] = row] /\ UNCHANGED <<since, copy, polls>>
      /\ i \notin late' => ~ row.at =< since
      /\ \A j \in Ids \ {i} : j \in late' <=> j \in late
  BY DEF Write, Passed
<1>2. rows \in [Ids -> Row \cup {Nothing}]
  BY DEF PagingIInv, PagingTypeOK
<1>3. ASSUME NEW j \in Ids \ late', rows'[j] # Nothing, rows'[j].at =< since'
      PROVE  Reflected(j)'
  BY <1>1, <1>2, <1>3 DEF Current, Reflected
<1>. QED BY <1>3 DEF Current

(* However many pulls overlap, no step leaves the client without a change   *)
(* its cursor has got past, except the end of a pull that had begun at a    *)
(* later cursor than the one it finds.  Nothing in pullWorkspace            *)
(* (hooks/store/sync.ts) keeps two pulls apart, so that the one that read   *)
(* first may end last and put the cursor back.                              *)
THEOREM NothingSkippedHolds == PagingSpec => NothingSkipped
<1>1. ASSUME PagingIInv, [PagingNext]_pagingVars, Current,
             \A s \in Polls : End(s) => polls[s].since =< since
      PROVE  Current'
  <2>1. CASE UNCHANGED <<rows, late, since, copy>>
    BY <1>1, <2>1 DEF Current, Reflected
  <2>2. ASSUME NEW s \in Polls, Begin(s) \/ Page(s) \/ Fail(s)
        PROVE  Current'
    BY <2>1, <2>2 DEF Begin, Page, Fail
  <2>3. CASE PagingNext
    BY <1>1, <2>1, <2>2, <2>3, EndSkipsNothing, WriteSkipsNothing DEF PagingNext, Tick
  <2>. QED BY <1>1, <2>1, <2>3 DEF pagingVars
<1>2. PagingIInv /\ [PagingNext]_pagingVars =>
        [Current /\ (\A s \in Polls : End(s) => polls[s].since =< since) => Current']_pagingVars
  BY <1>1
<1>. QED BY <1>2, PagingInitIInv, PagingNextIInv, PTL DEF PagingSpec, NothingSkipped

-----------------------------------------------------------------------------
(* The pages of a pull amount to one reading: the refinement of ChangeFeed *)

LEMMA FeedPullFields ==
    ASSUME NEW p \in Pull
    PROVE  /\ FeedPull(p) \in Feed!Pull
           /\ FeedPull(p) # Nothing
           /\ FeedPull(p).since = p.since
           /\ ~ p.done => FeedPull(p) = [since |-> p.since, changes |-> Nothing, time |-> 0]
           /\ p.done => FeedPull(p) = [since |-> p.since, changes |-> ChangesOf(p.got),
                                       time |-> p.time]
           /\ p.done => ChangesOf(p.got) # Nothing
<1>1. p # Nothing
  BY SyncPagingAssumption
<1>2. Times \subseteq Nat
  BY SyncPagingAssumption DEF Times
<1>3. p.since \in Nat /\ p.time \in Nat /\ p.got \in SUBSET Version /\ p.done \in BOOLEAN
  BY <1>2 DEF Pull
<1>4. ChangesOf(p.got) \in Feed!Changes
  <2>1. ASSUME NEW i \in Ids, About(p.got, i) # {}
        PROVE  Newest(p.got, i).at \in Nat /\ Newest(p.got, i).deleted \in BOOLEAN
    <3>1. Newest(p.got, i) \in Version
      BY <1>3, <2>1, NewestVersion DEF About
    <3>. QED BY <1>2, <3>1 DEF Version
  <2>. QED BY <2>1 DEF ChangesOf, Feed!Changes, Feed!Row
<1>5. ChangesOf(p.got) # Nothing
  BY <1>4, FeedAssumption
<1>6. FeedPull(p) = [since |-> p.since,
                     changes |-> IF p.done THEN ChangesOf(p.got) ELSE Nothing,
                     time |-> IF p.done THEN p.time ELSE 0]
  BY <1>1 DEF FeedPull
<1>7. FeedPull(p) \in Feed!Pull
  BY <1>3, <1>4, <1>6 DEF Feed!Pull
<1>8. FeedPull(p) # Nothing
  BY <1>7, FeedAssumption
<1>. QED BY <1>3, <1>5, <1>6, <1>7, <1>8

(* a step of one pull *)
LEMMA FeedPollsStep ==
    ASSUME polls \in [Polls -> Pull \cup {Nothing}], NEW s \in Polls,
           NEW p \in Pull \cup {Nothing}, polls' = [polls EXCEPT ![s] = p]
    PROVE  /\ FeedPolls' = [FeedPolls EXCEPT ![s] = FeedPull(p)]
           /\ FeedPolls[s] = FeedPull(polls[s])
           /\ FeedPolls'[s] = FeedPull(p)
BY DEF FeedPolls

LEMMA FeedInit == PagingInit => Feed!Init
<1>1. FeedPull(Nothing) = Nothing
  BY DEF FeedPull
<1>. QED BY <1>1 DEF PagingInit, Feed!Init, FeedPolls

LEMMA WriteIsWrite ==
    ASSUME PagingIInv, NEW i \in Ids, NEW row \in Row, Write(i, row)
    PROVE  Feed!Write(i)
<1>1. /\ rows[i] # Nothing => rows[i].at =< row.at
      /\ rows' = [rows EXCEPT ![i] = row]
      /\ late' \in {late \cup {i}, late \ {i}}
      /\ UNCHANGED <<since, copy, polls>>
  BY DEF Write
<1>2. rows'[i] = row
  BY <1>1 DEF PagingIInv, PagingTypeOK
<1>3. row \in Feed!Row
  BY SyncPagingAssumption DEF Row, Times, Feed!Row
<1>4. FeedPolls' = FeedPolls
  BY <1>1 DEF FeedPolls
<1>. QED BY <1>1, <1>2, <1>3, <1>4 DEF Feed!Write

LEMMA BeginIsBegin ==
    ASSUME PagingIInv, NEW s \in Polls, Begin(s)
    PROVE  Feed!Begin(s)
<1>. DEFINE p == [since |-> since, after |-> Nothing, got |-> {}, count |-> 0,
                  time |-> 0, done |-> FALSE]
<1>1. /\ polls' = [polls EXCEPT ![s] = p] /\ polls[s] = Nothing
      /\ UNCHANGED <<now, rows, late, since, copy>>
  BY DEF Begin
<1>2. since \in Times /\ 0 \in Times
  BY SyncPagingAssumption DEF PagingIInv, PagingTypeOK, Times
<1>3. p \in Pull /\ ~ p.done /\ p.since = since
  BY <1>2 DEF Pull
<1>. HIDE DEF p
<1>4. FeedPull(p) = [since |-> since, changes |-> Nothing, time |-> 0]
  BY <1>3, FeedPullFields
<1>5. FeedPull(Nothing) = Nothing
  BY DEF FeedPull
<1>6. FeedPolls' = [FeedPolls EXCEPT ![s] = FeedPull(p)] /\ FeedPolls[s] = Nothing
  BY <1>1, <1>3, <1>5, FeedPollsStep DEF PagingIInv, PagingTypeOK
<1>. QED BY <1>1, <1>4, <1>6 DEF Feed!Begin

(* the last page is the reading; those before it are not seen *)
LEMMA PageIsRead ==
    ASSUME PagingIInv, NEW s \in Polls, Page(s)
    PROVE  Feed!Read(s) \/ UNCHANGED <<rows, late, since, copy, FeedPolls>>
<1>. DEFINE p == polls[s]
<1>1. p \in Pull /\ ~ p.done /\ UNCHANGED <<now, rows, late, since, copy>>
  BY PageSteps
<1>2. PICK q \in Pull : /\ polls' = [polls EXCEPT ![s] = q]
                        /\ PullSound(q) /\ ListSound(q) /\ q.since = p.since
                        /\ q.done => \A i \in Expected(q) : VersionOf(i) \in q.got
  BY PageSteps
<1>3. /\ FeedPolls' = [FeedPolls EXCEPT ![s] = FeedPull(q)]
      /\ FeedPolls[s] = FeedPull(p)
      /\ FeedPolls'[s] = FeedPull(q)
  BY <1>2, FeedPollsStep DEF PagingIInv, PagingTypeOK
<1>. HIDE DEF p
<1>4. FeedPull(p) = [since |-> p.since, changes |-> Nothing, time |-> 0]
      /\ FeedPull(p) # Nothing
  BY <1>1, FeedPullFields
<1>5. CASE ~ q.done
  <2>1. FeedPull(q) = FeedPull(p)
    BY <1>2, <1>4, <1>5, FeedPullFields
  <2>2. FeedPolls' = FeedPolls
    BY <1>3, <2>1 DEF FeedPolls
  <2>. QED BY <1>1, <2>2
<1>6. CASE q.done
  <2>1. /\ FeedPull(q) \in Feed!Pull /\ FeedPull(q).since = p.since
        /\ FeedPull(q).changes = ChangesOf(q.got) /\ FeedPull(q).changes # Nothing
    BY <1>2, <1>6, FeedPullFields
  <2>2. ASSUME NEW i \in Ids \ late
        PROVE  FeedPull(q).changes[i]
                  = IF Feed!Due(i, FeedPull(p).since) THEN rows[i] ELSE Nothing
    <3>1. FeedPull(q).changes[i] = ChangesOf(q.got)[i] /\ FeedPull(p).since = q.since
      BY <1>2, <1>4, <2>1
    <3>2. CASE rows[i] # Nothing /\ rows[i].at > q.since
      <4>1. About(q.got, i) # {} /\ Newest(q.got, i) = VersionOf(i)
        BY <1>2, <1>6, <3>2, NewestIsCurrent DEF Expected
      <4>2. rows[i] \in Row
        BY <3>2 DEF PagingIInv, PagingTypeOK
      <4>3. ChangesOf(q.got)[i] = [at |-> rows[i].at, deleted |-> rows[i].deleted]
        BY <4>1, <4>2, VersionTypes DEF ChangesOf
      <4>. QED BY <3>1, <3>2, <4>2, <4>3 DEF Row, Feed!Due
    <3>3. CASE ~ (rows[i] # Nothing /\ rows[i].at > q.since)
      <4>1. About(q.got, i) = {}
        BY <1>2, <3>3, NotDueNotRead
      <4>2. ChangesOf(q.got)[i] = Nothing
        BY <4>1 DEF ChangesOf
      <4>. QED BY <3>1, <3>3, <4>2 DEF Feed!Due
    <3>. QED BY <3>2, <3>3
  <2>3. \A i \in Ids \ late : FeedPolls'[s].changes[i]
           = IF Feed!Due(i, FeedPolls[s].since) THEN rows[i] ELSE Nothing
    BY <1>3, <2>2
  <2>4. /\ FeedPolls[s] # Nothing /\ FeedPolls[s].changes = Nothing
        /\ FeedPolls'[s] \in Feed!Pull /\ FeedPolls'[s].since = FeedPolls[s].since
        /\ FeedPolls'[s].changes # Nothing
    BY <1>3, <1>4, <2>1
  <2>5. FeedPolls' = [FeedPolls EXCEPT ![s] = FeedPolls'[s]]
    BY <1>3, Zenon
  <2>6. Feed!Read(s)
    BY <1>1, <2>3, <2>4, <2>5 DEF Feed!Read
  <2>. QED BY <2>6
<1>. QED BY <1>5, <1>6

LEMMA EndIsApply ==
    ASSUME PagingIInv, NEW s \in Polls, End(s)
    PROVE  Feed!Apply(s)
<1>. DEFINE p == polls[s]
<1>1. /\ p \in Pull /\ p.done
      /\ copy' = [i \in Ids |-> Merged(copy[i], p.got, i)]
      /\ since' = p.time
      /\ polls' = [polls EXCEPT ![s] = Nothing]
      /\ UNCHANGED <<rows, late>>
      /\ PagingIInv'
  BY EndStep
<1>2. /\ FeedPolls' = [FeedPolls EXCEPT ![s] = FeedPull(Nothing)]
      /\ FeedPolls[s] = FeedPull(p)
  BY <1>1, FeedPollsStep DEF PagingIInv, PagingTypeOK
<1>. HIDE DEF p
<1>3. FeedPull(Nothing) = Nothing
  BY DEF FeedPull
<1>4. /\ FeedPull(p) # Nothing
      /\ FeedPull(p).changes = ChangesOf(p.got) /\ FeedPull(p).changes # Nothing
      /\ FeedPull(p).time = p.time
  BY <1>1, FeedPullFields
<1>5. copy' \in [Ids -> Nat \cup {Nothing}]
  <2>1. Times \subseteq Nat /\ copy' \in [Ids -> Times \cup {Nothing}]
    BY <1>1, SyncPagingAssumption DEF Times, PagingIInv, PagingTypeOK
  <2>. QED BY <2>1
<1>6. ASSUME NEW i \in Ids
      PROVE  copy'[i] \in Feed!Results(copy[i], ChangesOf(p.got)[i])
  <2>. DEFINE last == Newest(p.got, i)
              row == [at |-> last.at, deleted |-> last.deleted]
  <2>1. /\ p.got \in SUBSET Version /\ copy[i] \in Times \cup {Nothing}
        /\ copy'[i] = Merged(copy[i], p.got, i)
    BY <1>1 DEF Pull, PagingIInv, PagingTypeOK
  <2>2. CASE About(p.got, i) = {}
    <3>1. ChangesOf(p.got)[i] = Nothing /\ copy'[i] = copy[i]
      BY <2>1, <2>2, MergedCopy DEF ChangesOf
    <3>. QED BY <3>1 DEF Feed!Results
  <2>3. CASE About(p.got, i) # {}
    <3>1. ChangesOf(p.got)[i] = row
      BY <2>3 DEF ChangesOf
    <3>2. row # Nothing
      <4>1. last.at \in Times /\ last.deleted \in BOOLEAN
        BY <2>1, <2>3, NewestVersion DEF About, Version
      <4>. HIDE DEF last
      <4>2. row \in Row
        BY <4>1 DEF Row
      <4>. QED BY <4>2, SyncPagingAssumption
    <3>3. /\ last.deleted => copy'[i] = Nothing
          /\ ~ last.deleted => \/ copy'[i] = last.at
                               \/ copy'[i] = copy[i] /\ copy[i] # Nothing /\ copy[i] >= last.at
      BY <2>1, <2>3, MergedCopy
    <3>. HIDE DEF last
    <3>. QED BY <3>1, <3>2, <3>3 DEF Feed!Results
  <2>. QED BY <2>2, <2>3
<1>. QED BY <1>1, <1>2, <1>3, <1>4, <1>5, <1>6 DEF Feed!Apply

LEMMA FailIsFail ==
    ASSUME PagingIInv, NEW s \in Polls, Fail(s)
    PROVE  Feed!Fail(s)
<1>1. /\ polls[s] \in Pull /\ polls' = [polls EXCEPT ![s] = Nothing]
      /\ UNCHANGED <<now, rows, late, since, copy>>
  BY DEF Fail, PagingIInv, PagingTypeOK
<1>2. /\ FeedPolls' = [FeedPolls EXCEPT ![s] = FeedPull(Nothing)]
      /\ FeedPolls[s] = FeedPull(polls[s])
  BY <1>1, FeedPollsStep DEF PagingIInv, PagingTypeOK
<1>3. FeedPull(Nothing) = Nothing
  BY DEF FeedPull
<1>4. FeedPull(polls[s]) # Nothing
  BY <1>1, FeedPullFields
<1>. QED BY <1>1, <1>2, <1>3, <1>4 DEF Feed!Fail

LEMMA FeedStep ==
    ASSUME PagingIInv, [PagingNext]_pagingVars
    PROVE  [Feed!Next]_<<rows, late, since, copy, FeedPolls>>
<1>1. CASE Tick \/ UNCHANGED pagingVars
  BY <1>1 DEF Tick, pagingVars, FeedPolls
<1>2. ASSUME NEW s \in Polls, Begin(s) \/ Page(s) \/ End(s) \/ Fail(s)
      PROVE  [\E t \in Polls : Feed!Begin(t) \/ Feed!Read(t) \/ Feed!Apply(t) \/ Feed!Fail(t)
             ]_<<rows, late, since, copy, FeedPolls>>
  BY <1>2, BeginIsBegin, PageIsRead, EndIsApply, FailIsFail
<1>3. CASE PagingNext
  BY <1>1, <1>2, <1>3, WriteIsWrite DEF PagingNext, Feed!Next
<1>. QED BY <1>1, <1>3

(* With any number of rows, of pulls and of pages, a pull amounts to one    *)
(* reading of the workspace at the moment of its last page, which is        *)
(* applied as a whole or not at all: the loop of pullAndMerge over the      *)
(* pages of queryChanges implements ChangeFeed.                             *)
THEOREM ImplementsFeedHolds == PagingSpec => ImplementsFeed
<1>1. PagingIInv /\ [PagingNext]_pagingVars
        => [Feed!Next]_<<rows, late, since, copy, FeedPolls>>
  BY FeedStep
<1>. QED BY <1>1, FeedInit, PagingInitIInv, PagingNextIInv, PTL
     DEF PagingSpec, ImplementsFeed, Feed!Spec
=============================================================================
