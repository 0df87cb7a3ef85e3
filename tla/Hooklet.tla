------------------------------ MODULE Hooklet ------------------------------
(***************************************************************************)
(* The webhook inbox: requests of foreign services are stored as events    *)
(* of an endpoint and told to the devices of its owner                     *)
(* (sync-server/src/routes/hooklet-hooks.ts, routes/hooklet.ts, push.ts).  *)
(*                                                                         *)
(* The handler of a request waits twice, for the body and for the push     *)
(* service; in between, the owner works on his endpoints.  A sender that   *)
(* gets no answer sends the same webhook again.                            *)
(***************************************************************************)
EXTENDS Naturals, FiniteSets

CONSTANTS
    Users,
    Endpoints,      \* rows of hooklet_endpoints; AUTOINCREMENT: used once
    Devices,        \* push tokens
    Hooks,          \* what foreign services have to deliver
    Slots,          \* requests and replays that are handled at the same time
    MaxEvents,      \* MAX_EVENTS_PER_ENDPOINT
    MaxId,          \* bound: events ever stored
    None            \* not yet created, deleted, no event, no device, no request

VARIABLES
    endpoints,      \* hooklet_endpoints
    created,        \* endpoints created so far
    events,         \* hooklet_events: events[i] is the endpoint of event i
    lastId,         \* the last id given to an event
    devices,        \* hooklet_devices: who has registered the token
    handlers,       \* the handlers that wait
    sender,         \* what the sender of a webhook knows
    stored          \* webhooks that have been stored

tables == <<endpoints, created, events, lastId, devices>>
vars == <<tables, handlers, sender, stored>>

Ids == 1..MaxId
Endpoint == [user : Users, notify : BOOLEAN]

(* at: what is awaited; notify: as it was when the endpoint was read; hook: *)
(* None in a replay                                                         *)
Handler == [at : {"body", "push"}, endpoint : Endpoints, notify : BOOLEAN,
            user : Users, hook : Hooks \cup {None}]

ASSUME HookletAssumption ==
    /\ MaxEvents \in Nat \ {0}
    /\ MaxId \in Nat
    /\ None \notin Users \cup Endpoints \cup Hooks \cup Endpoint \cup Handler

TypeOK ==
    /\ endpoints \in [Endpoints -> Endpoint \cup {None}]
    /\ created \in SUBSET Endpoints
    /\ events \in [Ids -> Endpoints \cup {None}]
    /\ lastId \in 0..MaxId
    /\ devices \in [Devices -> Users \cup {None}]
    /\ handlers \in [Slots -> Handler \cup {None}]
    /\ sender \in [Hooks -> {"idle", "waiting", "acked", "refused"}]
    /\ stored \in SUBSET Hooks
    /\ \A e \in Endpoints \ created : endpoints[e] = None
    /\ \A i \in Ids : i > lastId => events[i] = None

Init ==
    /\ endpoints = [e \in Endpoints |-> None]
    /\ created = {}
    /\ events = [i \in Ids |-> None]
    /\ lastId = 0
    /\ devices = [d \in Devices |-> None]
    /\ handlers = [s \in Slots |-> None]
    /\ sender = [h \in Hooks |-> "idle"]
    /\ stored = {}

-----------------------------------------------------------------------------
(* The tables *)

EventsOf(e, table) == {i \in Ids : table[i] = e}

(* mutant: the foreign key of endpoint_id is not enforced *)
MayInsertUnchecked(e) == lastId < MaxId

(* endpoint_id references hooklet_endpoints *)
MayInsert(e) == lastId < MaxId /\ endpoints[e] # None

Inserted(e) == [events EXCEPT ![lastId + 1] = e]

(* mutant: the offset counts the new event twice *)
PrunedOneMore(e, table) ==
    [i \in Ids |->
        IF /\ table[i] = e
           /\ Cardinality({j \in EventsOf(e, table) : j > i}) >= MaxEvents - 1
        THEN None ELSE table[i]]

(* the events at and below OFFSET 200 of the youngest *)
Pruned(e, table) ==
    [i \in Ids |->
        IF /\ table[i] = e
           /\ Cardinality({j \in EventsOf(e, table) : j > i}) >= MaxEvents
        THEN None ELSE table[i]]

Await(s, handler) ==
    /\ handlers[s] = None
    /\ handlers' = [handlers EXCEPT ![s] = handler]

Answered(h, answer) ==
    IF h # None /\ sender[h] = "waiting" THEN [sender EXCEPT ![h] = answer] ELSE sender

(* sendPushToUser: without a device there is nothing to wait for *)
HasDevice(u) == \E d \in Devices : devices[d] = u

-----------------------------------------------------------------------------
(* Ingest *)

(* handle, up to c.req.text(): the endpoint is read now *)
Arrive(s, h, e) ==
    /\ sender[h] = "idle"
    /\ IF endpoints[e] = None
       THEN /\ sender' = [sender EXCEPT ![h] = "refused"]
            /\ UNCHANGED handlers
       ELSE /\ sender' = [sender EXCEPT ![h] = "waiting"]
            /\ Await(s, [at |-> "body", endpoint |-> e, notify |-> endpoints[e].notify,
                         user |-> endpoints[e].user, hook |-> h])
    /\ UNCHANGED <<tables, stored>>

(* when the push has been sent or need not be, the request is answered *)
Continue(s, handler) ==
    IF handler.notify /\ HasDevice(handler.user)
    THEN /\ handlers' = [handlers EXCEPT ![s] = [handler EXCEPT !.at = "push"]]
         /\ UNCHANGED sender
    ELSE /\ handlers' = [handlers EXCEPT ![s] = None]
         /\ sender' = Answered(handler.hook, "acked")

AwaitsBody(s) == handlers[s] # None /\ handlers[s].at = "body"

(* the body has come: the event is inserted, the oldest are pruned *)
Store(s) ==
    /\ AwaitsBody(s)
    /\ MayInsert(handlers[s].endpoint)
    /\ events' = Pruned(handlers[s].endpoint, Inserted(handlers[s].endpoint))
    /\ lastId' = lastId + 1
    /\ stored' = stored \cup {handlers[s].hook}
    /\ Continue(s, handlers[s])
    /\ UNCHANGED <<endpoints, created, devices>>

(* mutant: the sender is told that all is well *)
StoreFailsQuietly(s) ==
    /\ AwaitsBody(s)
    /\ endpoints[handlers[s].endpoint] = None
    /\ handlers' = [handlers EXCEPT ![s] = None]
    /\ sender' = Answered(handlers[s].hook, "acked")
    /\ UNCHANGED <<tables, stored>>

(* the INSERT fails on the foreign key, 500 *)
StoreFails(s) ==
    /\ AwaitsBody(s)
    /\ endpoints[handlers[s].endpoint] = None
    /\ handlers' = [handlers EXCEPT ![s] = None]
    /\ sender' = Answered(handlers[s].hook, "refused")
    /\ UNCHANGED <<tables, stored>>

(* mutant: the handler waits for the push service for as long as it takes *)
PushEndsWithDevice(s) ==
    /\ handlers[s] # None
    /\ handlers[s].at = "push"
    /\ HasDevice(handlers[s].user)
    /\ handlers' = [handlers EXCEPT ![s] = None]
    /\ sender' = Answered(handlers[s].hook, "acked")
    /\ UNCHANGED <<tables, stored>>

(* the push service answers, fails, or does not answer within five seconds *)
PushEnds(s) ==
    /\ handlers[s] # None
    /\ handlers[s].at = "push"
    /\ handlers' = [handlers EXCEPT ![s] = None]
    /\ sender' = Answered(handlers[s].hook, "acked")
    /\ UNCHANGED <<tables, stored>>

(* the sender does not wait any longer and will try again *)
SenderTimesOut(h) ==
    /\ sender[h] = "waiting"
    /\ sender' = [sender EXCEPT ![h] = "idle"]
    /\ UNCHANGED <<tables, handlers, stored>>

-----------------------------------------------------------------------------
(* The owner *)

CreateEndpoint(u, e) ==
    /\ e \notin created
    /\ endpoints' = [endpoints EXCEPT ![e] = [user |-> u, notify |-> TRUE]]
    /\ created' = created \cup {e}
    /\ UNCHANGED <<events, lastId, devices, handlers, sender, stored>>

ToggleNotify(e, on) ==
    /\ endpoints[e] # None
    /\ endpoints[e].notify # on
    /\ endpoints' = [endpoints EXCEPT ![e].notify = on]
    /\ UNCHANGED <<created, events, lastId, devices, handlers, sender, stored>>

DeleteEndpoint(e) ==
    /\ endpoints[e] # None
    /\ events' = [i \in Ids |-> IF events[i] = e THEN None ELSE events[i]]
    /\ endpoints' = [endpoints EXCEPT ![e] = None]
    /\ UNCHANGED <<created, lastId, devices, handlers, sender, stored>>

DeleteEvent(i) ==
    /\ events[i] # None
    /\ events' = [events EXCEPT ![i] = None]
    /\ UNCHANGED <<endpoints, created, lastId, devices, handlers, sender, stored>>

(* the event is inserted again; nothing is pruned *)
Replay(s, i) ==
    /\ events[i] # None
    /\ lastId < MaxId
    /\ handlers[s] = None
    /\ events' = Inserted(events[i])
    /\ lastId' = lastId + 1
    /\ LET e == events[i]
       IN  Continue(s, [at |-> "push", endpoint |-> e, notify |-> endpoints[e].notify,
                        user |-> endpoints[e].user, hook |-> None])
    /\ UNCHANGED <<endpoints, created, devices, stored>>

(* the token of another account is refused; one's own is only touched *)
RegisterDevice(u, d) ==
    /\ devices[d] = None
    /\ devices' = [devices EXCEPT ![d] = u]
    /\ UNCHANGED <<endpoints, created, events, lastId, handlers, sender, stored>>

UnregisterDevice(u, d) ==
    /\ devices[d] = u
    /\ devices' = [devices EXCEPT ![d] = None]
    /\ UNCHANGED <<endpoints, created, events, lastId, handlers, sender, stored>>

-----------------------------------------------------------------------------
(* The process dies, perhaps right after one of the statements of a handler *)
(* that makes two.                                                          *)
Restart ==
    /\ \/ UNCHANGED <<events, lastId, stored>>
       \/ \E s \in Slots :
             /\ AwaitsBody(s)
             /\ MayInsert(handlers[s].endpoint)
             /\ events' = Inserted(handlers[s].endpoint)
             /\ lastId' = lastId + 1
             /\ stored' = stored \cup {handlers[s].hook}
       \/ \E e \in Endpoints :
             /\ endpoints[e] # None
             /\ events' = [i \in Ids |-> IF events[i] = e THEN None ELSE events[i]]
             /\ UNCHANGED <<lastId, stored>>
    /\ handlers' = [s \in Slots |-> None]
    /\ UNCHANGED <<endpoints, created, devices, sender>>

Next ==
    \/ \E s \in Slots :
         \/ \E h \in Hooks, e \in Endpoints : Arrive(s, h, e)
         \/ Store(s)
         \/ StoreFails(s)
         \/ PushEnds(s)
         \/ \E i \in Ids : Replay(s, i)
    \/ \E h \in Hooks : SenderTimesOut(h)
    \/ \E e \in Endpoints :
         \/ \E u \in Users : CreateEndpoint(u, e)
         \/ \E on \in BOOLEAN : ToggleNotify(e, on)
         \/ DeleteEndpoint(e)
    \/ \E i \in Ids : DeleteEvent(i)
    \/ \E u \in Users, d \in Devices : RegisterDevice(u, d) \/ UnregisterDevice(u, d)
    \/ Restart

(* Bodies arrive or fail, and the wait for the push service is limited. *)
Fairness == \A s \in Slots : WF_vars(Store(s) \/ StoreFails(s)) /\ WF_vars(PushEnds(s))

Spec == Init /\ [][Next]_vars /\ Fairness

-----------------------------------------------------------------------------
(* Properties *)

(* No event is left without its endpoint, although the endpoint may be      *)
(* deleted while the body of a request to it is awaited.                    *)
NothingOrphaned ==
    \A i \in Ids : events[i] # None => endpoints[events[i]] # None

(* Events disappear when the owner deletes them or when MaxEvents younger   *)
(* ones of the same endpoint are there, and a request leaves no more than   *)
(* MaxEvents behind, whatever replays and restarts have left in excess.     *)
KeepsNewest ==
    [][ \A e \in Endpoints :
          /\ (\E s \in Slots : Store(s) /\ handlers[s].endpoint = e) =>
                Cardinality(EventsOf(e, events')) =< MaxEvents
          /\ \A i \in EventsOf(e, events) \ EventsOf(e, events') :
                \/ DeleteEvent(i)
                \/ EventsOf(e, events') = {}
                \/ Cardinality({j \in EventsOf(e, events') : j > i}) >= MaxEvents
      ]_vars

(* What a sender takes for delivered has been stored. *)
AckedIsStored == \A h \in Hooks : sender[h] = "acked" => h \in stored

(* A request does not wait for ever, push.ts:46, not even for a push        *)
(* service that hangs.                                                      *)
HandlersEnd ==
    \A s \in Slots :
        (handlers[s] # None) ~> (handlers[s] = None \/ lastId = MaxId)
=============================================================================
