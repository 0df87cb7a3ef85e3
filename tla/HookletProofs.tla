--------------------------- MODULE HookletProofs ---------------------------
(***************************************************************************)
(* What holds of module Hooklet for any number of endpoints, events and    *)
(* requests.  That a sender is told only what is true needs to be known of *)
(* the handlers that wait for the push service: what they handle has been  *)
(* stored.  Nothing has to be known of those that wait for a body, because *)
(* the foreign key is checked when they go on.  What an ingest prunes is   *)
(* an argument about finite sets: the youngest pruned event has MaxEvents  *)
(* younger ones, and none of these is pruned.                              *)
(***************************************************************************)
EXTENDS Hooklet, FiniteSetTheorems, TLAPS

HandlersSound ==
    \A s \in Slots : handlers[s] # None =>
        /\ handlers[s].at = "body" => handlers[s].hook # None
        /\ handlers[s].at = "push" /\ handlers[s].hook # None => handlers[s].hook \in stored

IInv == TypeOK /\ NothingOrphaned /\ AckedIsStored /\ HandlersSound

-----------------------------------------------------------------------------
(* Events *)

(* the endpoint of an event that is there, in a table and in the next one *)
LEMMA InsertedEvents ==
    ASSUME TypeOK, NEW e \in Endpoints, lastId < MaxId
    PROVE  /\ Inserted(e) \in [Ids -> Endpoints \cup {None}]
           /\ \A i \in Ids : Inserted(e)[i] = IF i = lastId + 1 THEN e ELSE events[i]
           /\ lastId + 1 \in Ids /\ lastId + 1 \in 0..MaxId
BY HookletAssumption DEF TypeOK, Inserted, Ids

LEMMA PrunedEvents ==
    ASSUME NEW e \in Endpoints, NEW table \in [Ids -> Endpoints \cup {None}]
    PROVE  /\ Pruned(e, table) \in [Ids -> Endpoints \cup {None}]
           /\ \A i \in Ids : Pruned(e, table)[i] \in {None, table[i]}
BY DEF Pruned

(* A table of events that only lost some, or got one of an endpoint that is *)
(* there.                                                                   *)
LEMMA EventsSound ==
    ASSUME IInv, UNCHANGED <<endpoints, created>>,
           events' \in [Ids -> Endpoints \cup {None}], lastId' \in 0..MaxId,
           NEW e \in Endpoints, lastId' # lastId => endpoints[e] # None /\ lastId' = lastId + 1,
           \A i \in Ids : events'[i] \in {None, events[i]}
                          \/ (lastId' # lastId /\ i = lastId + 1 /\ events'[i] = e)
    PROVE  /\ NothingOrphaned'
           /\ \A i \in Ids : i > lastId' => events'[i] = None
<1>1. ASSUME NEW i \in Ids, events'[i] # None
      PROVE  endpoints'[events'[i]] # None
  BY <1>1 DEF IInv, NothingOrphaned
<1>2. ASSUME NEW i \in Ids, i > lastId'
      PROVE  events'[i] = None
  <2>1. i > lastId /\ (lastId' # lastId => i # lastId + 1)
    BY <1>2 DEF IInv, TypeOK, Ids
  <2>2. events[i] = None
    BY <2>1 DEF IInv, TypeOK
  <2>. QED BY <2>1, <2>2
<1>. QED BY <1>1, <1>2 DEF NothingOrphaned

-----------------------------------------------------------------------------
(* Handlers and senders *)

LEMMA AnsweredType ==
    ASSUME TypeOK, NEW h \in Hooks \cup {None}, NEW answer \in {"acked", "refused"}
    PROVE  /\ Answered(h, answer) \in [Hooks -> {"idle", "waiting", "acked", "refused"}]
           /\ \A g \in Hooks : Answered(h, answer)[g] = "acked" =>
                 sender[g] = "acked" \/ (g = h /\ answer = "acked")
BY HookletAssumption DEF TypeOK, Answered

(* Continue, when what is handled has been stored *)
LEMMA ContinueStep ==
    ASSUME IInv, NEW s \in Slots, NEW handler \in Handler, Continue(s, handler),
           stored \subseteq stored', stored' \in SUBSET Hooks,
           handler.hook # None => handler.hook \in stored'
    PROVE  /\ handlers' \in [Slots -> Handler \cup {None}]
           /\ sender' \in [Hooks -> {"idle", "waiting", "acked", "refused"}]
           /\ AckedIsStored'
           /\ HandlersSound'
<1>1. CASE handler.notify /\ HasDevice(handler.user)
  <2>. DEFINE next == [handler EXCEPT !.at = "push"]
  <2>1. /\ handlers' = [handlers EXCEPT ![s] = next]
        /\ UNCHANGED sender
    BY <1>1 DEF Continue
  <2>2. next \in Handler /\ next.at = "push" /\ next.hook = handler.hook
    BY DEF Handler
  <2>. HIDE DEF next
  <2>. QED BY <2>1, <2>2 DEF IInv, TypeOK, AckedIsStored, HandlersSound
<1>2. CASE ~ (handler.notify /\ HasDevice(handler.user))
  <2>1. /\ handlers' = [handlers EXCEPT ![s] = None]
        /\ sender' = Answered(handler.hook, "acked")
    BY <1>2 DEF Continue
  <2>2. handler.hook \in Hooks \cup {None}
    BY DEF Handler
  <2>3. AckedIsStored' /\ sender' \in [Hooks -> {"idle", "waiting", "acked", "refused"}]
    BY <2>1, <2>2, AnsweredType, HookletAssumption DEF IInv, AckedIsStored
  <2>. QED BY <2>1, <2>3 DEF IInv, TypeOK, HandlersSound
<1>. QED BY <1>1, <1>2

LEMMA ArriveStep ==
    ASSUME IInv, NEW s \in Slots, NEW h \in Hooks, NEW e \in Endpoints, Arrive(s, h, e)
    PROVE  IInv'
<1>. DEFINE handler == [at |-> "body", endpoint |-> e, notify |-> endpoints[e].notify,
                        user |-> endpoints[e].user, hook |-> h]
<1>1. UNCHANGED <<endpoints, created, events, lastId, devices, stored>>
  BY DEF Arrive, tables
<1>2. CASE endpoints[e] = None
  BY <1>1, <1>2 DEF Arrive, IInv, TypeOK, NothingOrphaned, AckedIsStored, HandlersSound
<1>3. CASE endpoints[e] # None
  <2>1. /\ sender' = [sender EXCEPT ![h] = "waiting"]
        /\ handlers' = [handlers EXCEPT ![s] = handler]
    BY <1>3 DEF Arrive, Await
  <2>2. endpoints[e] \in Endpoint
    BY <1>3 DEF IInv, TypeOK
  <2>3. handler \in Handler /\ handler.at = "body" /\ handler.hook = h /\ h # None
    BY <2>2, HookletAssumption DEF Endpoint, Handler
  <2>. HIDE DEF handler
  <2>. QED BY <1>1, <2>1, <2>3
           DEF IInv, TypeOK, NothingOrphaned, AckedIsStored, HandlersSound
<1>. QED BY <1>2, <1>3
LEMMA StoreStep ==
    ASSUME IInv, NEW s \in Slots, Store(s)
    PROVE  IInv'
<1>. DEFINE e == handlers[s].endpoint
            h == handlers[s].hook
<1>1. /\ handlers[s] # None /\ handlers[s].at = "body" /\ handlers[s] \in Handler
      /\ endpoints[e] # None /\ lastId < MaxId
      /\ events' = Pruned(e, Inserted(e))
      /\ lastId' = lastId + 1
      /\ stored' = stored \cup {h}
      /\ Continue(s, handlers[s])
      /\ UNCHANGED <<endpoints, created, devices>>
  BY DEF Store, AwaitsBody, MayInsert, IInv, TypeOK
<1>2. e \in Endpoints /\ h \in Hooks
  BY <1>1 DEF Handler, IInv, HandlersSound
<1>3. /\ stored' \in SUBSET Hooks
      /\ handlers' \in [Slots -> Handler \cup {None}]
      /\ sender' \in [Hooks -> {"idle", "waiting", "acked", "refused"}]
      /\ AckedIsStored'
      /\ HandlersSound'
  BY <1>1, <1>2, ContinueStep DEF IInv, TypeOK
<1>. HIDE DEF e, h
<1>4. /\ Inserted(e) \in [Ids -> Endpoints \cup {None}]
      /\ \A i \in Ids : Inserted(e)[i] = IF i = lastId + 1 THEN e ELSE events[i]
      /\ lastId' \in 0..MaxId
  BY <1>1, <1>2, InsertedEvents DEF IInv
<1>5. /\ events' \in [Ids -> Endpoints \cup {None}]
      /\ \A i \in Ids : events'[i] \in {None, Inserted(e)[i]}
  BY <1>1, <1>2, <1>4, PrunedEvents
<1>6. lastId' # lastId
  BY <1>1 DEF IInv, TypeOK
<1>7. NothingOrphaned' /\ \A i \in Ids : i > lastId' => events'[i] = None
  BY <1>1, <1>2, <1>4, <1>5, <1>6, EventsSound
<1>. QED BY <1>1, <1>3, <1>4, <1>5, <1>7 DEF IInv, TypeOK

LEMMA ReplayStep ==
    ASSUME IInv, NEW s \in Slots, NEW i \in Ids, Replay(s, i)
    PROVE  IInv'
<1>. DEFINE e == events[i]
            handler == [at |-> "push", endpoint |-> e, notify |-> endpoints[e].notify,
                        user |-> endpoints[e].user, hook |-> None]
<1>1. /\ e # None /\ lastId < MaxId
      /\ events' = Inserted(e)
      /\ lastId' = lastId + 1
      /\ Continue(s, handler)
      /\ UNCHANGED <<endpoints, created, devices, stored>>
  BY DEF Replay
<1>2. e \in Endpoints /\ endpoints[e] # None /\ endpoints[e] \in Endpoint
  BY <1>1 DEF IInv, TypeOK, NothingOrphaned
<1>3. handler \in Handler /\ handler.hook = None
  BY <1>2 DEF Endpoint, Handler
<1>. HIDE DEF handler
<1>4. /\ handlers' \in [Slots -> Handler \cup {None}]
      /\ sender' \in [Hooks -> {"idle", "waiting", "acked", "refused"}]
      /\ AckedIsStored'
      /\ HandlersSound'
  BY <1>1, <1>3, ContinueStep DEF IInv, TypeOK
<1>5. /\ events' \in [Ids -> Endpoints \cup {None}]
      /\ \A j \in Ids : events'[j] = IF j = lastId + 1 THEN e ELSE events[j]
      /\ lastId' \in 0..MaxId /\ lastId' # lastId
  BY <1>1, <1>2, InsertedEvents DEF IInv, TypeOK
<1>. HIDE DEF e
<1>6. NothingOrphaned' /\ \A j \in Ids : j > lastId' => events'[j] = None
  BY <1>1, <1>2, <1>5, EventsSound
<1>. QED BY <1>1, <1>4, <1>5, <1>6 DEF IInv, TypeOK

(* the handler ends without an insert, and the sender times out *)
LEMMA AnswerSteps ==
    ASSUME IInv,
           \/ \E s \in Slots : StoreFails(s) \/ PushEnds(s)
           \/ \E h \in Hooks : SenderTimesOut(h)
    PROVE  IInv'
<1>1. UNCHANGED <<endpoints, created, events, lastId, devices, stored>>
  BY DEF StoreFails, PushEnds, SenderTimesOut, tables
<1>2. ASSUME NEW s \in Slots, StoreFails(s) \/ PushEnds(s)
      PROVE  /\ handlers' \in [Slots -> Handler \cup {None}]
             /\ HandlersSound'
             /\ sender' \in [Hooks -> {"idle", "waiting", "acked", "refused"}]
             /\ AckedIsStored'
  <2>1. handlers' = [handlers EXCEPT ![s] = None]
    BY <1>2 DEF StoreFails, PushEnds
  <2>2. handlers' \in [Slots -> Handler \cup {None}] /\ HandlersSound'
    BY <1>1, <2>1 DEF IInv, TypeOK, HandlersSound
  <2>3. handlers[s] # None /\ handlers[s].hook \in Hooks \cup {None}
    BY <1>2 DEF StoreFails, PushEnds, AwaitsBody, IInv, TypeOK, Handler
  <2>4. CASE StoreFails(s)
    <3>1. sender' = Answered(handlers[s].hook, "refused")
      BY <2>4 DEF StoreFails
    <3>2. /\ sender' \in [Hooks -> {"idle", "waiting", "acked", "refused"}]
          /\ \A g \in Hooks : sender'[g] = "acked" => sender[g] = "acked"
      BY <2>3, <3>1, AnsweredType DEF IInv
    <3>. QED BY <1>1, <2>2, <3>2 DEF IInv, AckedIsStored
  <2>5. CASE PushEnds(s)
    <3>1. sender' = Answered(handlers[s].hook, "acked") /\ handlers[s].at = "push"
      BY <2>5 DEF PushEnds
    <3>2. /\ sender' \in [Hooks -> {"idle", "waiting", "acked", "refused"}]
          /\ \A g \in Hooks : sender'[g] = "acked" =>
                sender[g] = "acked" \/ g = handlers[s].hook
      BY <2>3, <3>1, AnsweredType DEF IInv
    <3>3. handlers[s].hook # None => handlers[s].hook \in stored
      BY <2>3, <3>1 DEF IInv, HandlersSound
    <3>. QED BY <1>1, <2>2, <3>2, <3>3, HookletAssumption DEF IInv, AckedIsStored
  <2>. QED BY <1>2, <2>4, <2>5
<1>3. ASSUME NEW h \in Hooks, SenderTimesOut(h)
      PROVE  /\ handlers' \in [Slots -> Handler \cup {None}]
             /\ HandlersSound'
             /\ sender' \in [Hooks -> {"idle", "waiting", "acked", "refused"}]
             /\ AckedIsStored'
  BY <1>1, <1>3 DEF SenderTimesOut, IInv, TypeOK, AckedIsStored, HandlersSound
<1>. QED BY <1>1, <1>2, <1>3 DEF IInv, TypeOK, NothingOrphaned

-----------------------------------------------------------------------------
(* The owner, and restarts *)

LEMMA OwnerSteps ==
    ASSUME IInv,
           \/ \E e \in Endpoints :
                 \/ \E u \in Users : CreateEndpoint(u, e)
                 \/ \E on \in BOOLEAN : ToggleNotify(e, on)
                 \/ DeleteEndpoint(e)
           \/ \E i \in Ids : DeleteEvent(i)
           \/ \E u \in Users, d \in Devices : RegisterDevice(u, d) \/ UnregisterDevice(u, d)
    PROVE  IInv'
<1>1. /\ UNCHANGED <<lastId, handlers, sender, stored>>
      /\ AckedIsStored' /\ HandlersSound'
  BY DEF CreateEndpoint, ToggleNotify, DeleteEndpoint, DeleteEvent, RegisterDevice,
         UnregisterDevice, IInv, AckedIsStored, HandlersSound
<1>2. ASSUME NEW e \in Endpoints, NEW u \in Users, CreateEndpoint(u, e)
      PROVE  TypeOK' /\ NothingOrphaned'
  <2>. DEFINE endpoint == [user |-> u, notify |-> TRUE]
  <2>1. endpoint \in Endpoint
    BY DEF Endpoint
  <2>2. /\ endpoints' = [endpoints EXCEPT ![e] = endpoint]
        /\ created' = created \cup {e}
        /\ UNCHANGED <<events, devices>>
    BY <1>2 DEF CreateEndpoint
  <2>. HIDE DEF endpoint
  <2>3. endpoint # None
    BY <2>1, HookletAssumption
  <2>. QED BY <1>1, <2>1, <2>2, <2>3 DEF IInv, TypeOK, NothingOrphaned
<1>3. ASSUME NEW e \in Endpoints, NEW on \in BOOLEAN, ToggleNotify(e, on)
      PROVE  TypeOK' /\ NothingOrphaned'
  <2>. DEFINE endpoint == [endpoints[e] EXCEPT !.notify = on]
  <2>1. endpoints[e] \in Endpoint /\ endpoints[e] # None
    BY <1>3 DEF ToggleNotify, IInv, TypeOK
  <2>2. endpoint \in Endpoint /\ endpoint # None
    BY <2>1, HookletAssumption DEF Endpoint
  <2>3. endpoints' = [endpoints EXCEPT ![e] = endpoint]
        /\ UNCHANGED <<created, events, devices>>
    BY <1>3 DEF ToggleNotify, IInv, TypeOK
  <2>. HIDE DEF endpoint
  <2>. QED BY <1>1, <2>1, <2>2, <2>3 DEF IInv, TypeOK, NothingOrphaned
<1>4. ASSUME NEW e \in Endpoints, DeleteEndpoint(e)
      PROVE  TypeOK' /\ NothingOrphaned'
  BY <1>1, <1>4 DEF DeleteEndpoint, IInv, TypeOK, NothingOrphaned
<1>5. ASSUME NEW i \in Ids, DeleteEvent(i)
      PROVE  TypeOK' /\ NothingOrphaned'
  BY <1>1, <1>5 DEF DeleteEvent, IInv, TypeOK, NothingOrphaned
<1>6. ASSUME NEW u \in Users, NEW d \in Devices, RegisterDevice(u, d) \/ UnregisterDevice(u, d)
      PROVE  TypeOK' /\ NothingOrphaned'
  BY <1>1, <1>6 DEF RegisterDevice, UnregisterDevice, IInv, TypeOK, NothingOrphaned
<1>. QED BY <1>1, <1>2, <1>3, <1>4, <1>5, <1>6 DEF IInv

LEMMA RestartStep ==
    ASSUME IInv, Restart
    PROVE  IInv'
<1>1. /\ handlers' = [s \in Slots |-> None]
      /\ UNCHANGED <<endpoints, created, devices, sender>>
  BY DEF Restart
<1>. DEFINE TablesSound ==
        /\ stored \subseteq stored' /\ stored' \in SUBSET Hooks
        /\ events' \in [Ids -> Endpoints \cup {None}] /\ lastId' \in 0..MaxId
        /\ NothingOrphaned'
        /\ \A i \in Ids : i > lastId' => events'[i] = None
<1>2. TablesSound
  <2>1. CASE UNCHANGED <<events, lastId, stored>>
    BY <1>1, <2>1 DEF IInv, TypeOK, NothingOrphaned
  <2>2. ASSUME NEW s \in Slots, AwaitsBody(s), MayInsert(handlers[s].endpoint),
               events' = Inserted(handlers[s].endpoint), lastId' = lastId + 1,
               stored' = stored \cup {handlers[s].hook}
        PROVE  TablesSound
    <3>. DEFINE e == handlers[s].endpoint
    <3>1. /\ e \in Endpoints /\ handlers[s].hook \in Hooks
          /\ endpoints[e] # None /\ lastId < MaxId
      BY <2>2 DEF AwaitsBody, MayInsert, Handler, IInv, TypeOK, HandlersSound
    <3>. HIDE DEF e
    <3>2. /\ events' \in [Ids -> Endpoints \cup {None}]
          /\ \A i \in Ids : events'[i] = IF i = lastId + 1 THEN e ELSE events[i]
          /\ lastId' \in 0..MaxId /\ lastId' # lastId
      BY <2>2, <3>1, InsertedEvents DEF e, IInv, TypeOK
    <3>3. NothingOrphaned' /\ \A i \in Ids : i > lastId' => events'[i] = None
      BY <1>1, <2>2, <3>1, <3>2, EventsSound
    <3>. QED BY <2>2, <3>1, <3>2, <3>3 DEF IInv, TypeOK
  <2>3. ASSUME NEW e \in Endpoints,
               events' = [i \in Ids |-> IF events[i] = e THEN None ELSE events[i]],
               UNCHANGED <<lastId, stored>>
        PROVE  TablesSound
    BY <1>1, <2>3 DEF IInv, TypeOK, NothingOrphaned
  <2>. QED BY <2>1, <2>2, <2>3 DEF Restart
<1>3. AckedIsStored' /\ HandlersSound'
  BY <1>1, <1>2 DEF IInv, AckedIsStored, HandlersSound
<1>. QED BY <1>1, <1>2, <1>3 DEF IInv, TypeOK

-----------------------------------------------------------------------------
(* What is pruned *)

(* The sets 1..m, for m in S, are finite, and the strict subset ordering is *)
(* well-founded on finite sets.                                             *)
LEMMA NatMin ==
    ASSUME NEW S \in SUBSET Nat, S # {}
    PROVE  \E m \in S : \A n \in S : m <= n
<1>. DEFINE Below(m) == 1..m
            T == {Below(m) : m \in S}
<1>1. \A m \in S : Below(m) \in FiniteSubsetsOf(Nat)
  BY FS_Interval DEF FiniteSubsetsOf
<1>2. PICK x \in T : \A y \in T : <<y, x>> \notin StrictSubsetOrdering(Nat)
  <2>1. T \subseteq FiniteSubsetsOf(Nat) /\ T # {}
    BY <1>1
  <2>. HIDE DEF T
  <2>. QED BY <2>1, WFMin, FS_StrictSubsetOrderingWellFounded
<1>3. PICK m \in S : x = Below(m)
  OBVIOUS
<1>4. ASSUME NEW n \in S, n < m
      PROVE  <<Below(n), Below(m)>> \in StrictSubsetOrdering(Nat)
  <2>1. Below(n) \subseteq Below(m) /\ Below(n) \in SUBSET Nat /\ Below(m) \in SUBSET Nat
    BY <1>4
  <2>2. m \in Below(m) /\ m \notin Below(n)
    BY <1>4
  <2>. HIDE DEF Below
  <2>. QED BY <2>1, <2>2 DEF StrictSubsetOrdering
<1>5. \A n \in S : Below(n) \in T
  OBVIOUS
<1>6. ASSUME NEW n \in S
      PROVE  m <= n
  <2>1. ~ n < m
    <3>. HIDE DEF T, Below
    <3>. QED BY <1>2, <1>3, <1>4, <1>5
  <2>. QED BY <2>1
<1>. QED BY <1>6

LEMMA IdSets ==
    ASSUME NEW S \in SUBSET Ids
    PROVE  IsFiniteSet(S) /\ Cardinality(S) \in Nat
<1>1. IsFiniteSet(Ids)
  BY FS_Interval, HookletAssumption DEF Ids
<1>. QED BY <1>1, FS_Subset, FS_CardinalityType

LEMMA OldestId ==
    ASSUME NEW S \in SUBSET Ids, S # {}
    PROVE  \E m \in S : \A n \in S : m <= n
<1>. S \in SUBSET Nat
  BY HookletAssumption DEF Ids
<1>. QED BY NatMin

LEMMA YoungestId ==
    ASSUME NEW S \in SUBSET Ids, S # {}
    PROVE  \E m \in S : \A n \in S : n <= m
<1>. DEFINE T == {MaxId - n : n \in S}
<1>1. T \in SUBSET Nat /\ T # {}
  BY HookletAssumption DEF Ids
<1>2. PICK t \in T : \A u \in T : t <= u
  <2>. HIDE DEF T
  <2>. QED BY <1>1, NatMin
<1>3. PICK m \in S : t = MaxId - m
  OBVIOUS
<1>4. ASSUME NEW n \in S
      PROVE  n <= m
  BY <1>2, <1>3, HookletAssumption DEF Ids
<1>. QED BY <1>4

(* What is left of an endpoint's events, and what is younger than one that is *)
(* lost.                                                                      *)
LEMMA PrunedKeepsNewest ==
    ASSUME NEW e \in Endpoints, NEW table \in [Ids -> Endpoints \cup {None}]
    PROVE  LET kept == EventsOf(e, Pruned(e, table))
           IN  /\ Cardinality(kept) <= MaxEvents
               /\ kept \subseteq EventsOf(e, table)
               /\ \A i \in EventsOf(e, table) \ kept :
                     Cardinality({j \in kept : j > i}) >= MaxEvents
<1>. DEFINE all == EventsOf(e, table)
            kept == EventsOf(e, Pruned(e, table))
            Younger(i) == {j \in all : j > i}
<1>1. kept = {i \in all : ~ Cardinality(Younger(i)) >= MaxEvents}
  BY HookletAssumption DEF EventsOf, Pruned
<1>2. all \subseteq Ids /\ \A i \in Ids : i \in Nat
  BY DEF EventsOf, Ids
<1>. HIDE DEF all, kept
<1>3. kept \subseteq all
  BY <1>1
<1>4. \A i \in Ids : IsFiniteSet(Younger(i)) /\ Cardinality(Younger(i)) \in Nat
  BY <1>2, IdSets
<1>5. Cardinality(kept) <= MaxEvents
  <2>1. CASE kept = {}
    BY <2>1, FS_EmptySet, HookletAssumption
  <2>2. CASE kept # {}
    <3>1. PICK m \in kept : \A n \in kept : m <= n
      BY <1>2, <1>3, <2>2, OldestId
    <3>2. m \in Ids /\ m \notin Younger(m)
      BY <1>2, <1>3
    <3>3. Cardinality(Younger(m)) + 1 <= MaxEvents
      BY <1>1, <1>4, <3>2, HookletAssumption
    <3>4. kept \subseteq Younger(m) \cup {m}
      BY <1>2, <1>3, <3>1
    <3>. HIDE DEF Younger
    <3>5. /\ IsFiniteSet(Younger(m) \cup {m})
          /\ Cardinality(Younger(m) \cup {m}) = Cardinality(Younger(m)) + 1
      BY <1>4, <3>2, FS_AddElement
    <3>6. Cardinality(kept) <= Cardinality(Younger(m) \cup {m})
      BY <3>4, <3>5, FS_Subset
    <3>7. Cardinality(kept) \in Nat
      BY <1>2, <1>3, IdSets
    <3>. QED BY <1>4, <3>2, <3>3, <3>5, <3>6, <3>7, HookletAssumption
  <2>. QED BY <2>1, <2>2
<1>6. ASSUME NEW i \in all \ kept
      PROVE  Cardinality({j \in kept : j > i}) >= MaxEvents
  <2>1. PICK p \in all \ kept : \A n \in all \ kept : n <= p
    BY <1>2, YoungestId
  <2>2. p \in Ids /\ Cardinality(Younger(p)) >= MaxEvents
    BY <1>1, <1>2, <2>1
  <2>3. Younger(p) \subseteq {j \in kept : j > i}
    BY <1>2, <2>1
  <2>4. {j \in kept : j > i} \in SUBSET Ids
    BY <1>2, <1>3
  <2>5. Cardinality(Younger(p)) <= Cardinality({j \in kept : j > i})
    <3>. HIDE DEF Younger
    <3>. QED BY <2>3, <2>4, IdSets, FS_Subset
  <2>6. Cardinality({j \in kept : j > i}) \in Nat
    BY <2>4, IdSets
  <2>. HIDE DEF Younger
  <2>. QED BY <1>4, <2>2, <2>5, <2>6, HookletAssumption
<1>. QED BY <1>3, <1>5, <1>6 DEF all, kept

(* What may become of the events of an endpoint in a step: KeepsNewest,     *)
(* without the box.                                                         *)
NewestKept ==
    \A e \in Endpoints :
      /\ (\E s \in Slots : Store(s) /\ handlers[s].endpoint = e) =>
            Cardinality(EventsOf(e, events')) =< MaxEvents
      /\ \A i \in EventsOf(e, events) \ EventsOf(e, events') :
            \/ DeleteEvent(i)
            \/ EventsOf(e, events') = {}
            \/ Cardinality({j \in EventsOf(e, events') : j > i}) >= MaxEvents

(* an insertion takes an id that no event has *)
LEMMA InsertedKeeps ==
    ASSUME TypeOK, NEW e \in Endpoints, lastId < MaxId, NEW f \in Endpoints
    PROVE  EventsOf(f, events) \subseteq EventsOf(f, Inserted(e))
<1>1. lastId + 1 \in Ids /\ events[lastId + 1] = None
  BY HookletAssumption DEF TypeOK, Ids
<1>2. \A i \in Ids : Inserted(e)[i] = IF i = lastId + 1 THEN e ELSE events[i]
  BY InsertedEvents
<1>3. f # None
  BY HookletAssumption
<1>. QED BY <1>1, <1>2, <1>3 DEF EventsOf

(* what an ingest does to the events of every endpoint *)
LEMMA StoreKeepsNewest ==
    ASSUME IInv, NEW s \in Slots, Store(s), NEW f \in Endpoints
    PROVE  /\ handlers[s].endpoint = f => Cardinality(EventsOf(f, events')) <= MaxEvents
           /\ \A i \in EventsOf(f, events) \ EventsOf(f, events') :
                 Cardinality({j \in EventsOf(f, events') : j > i}) >= MaxEvents
<1>. DEFINE e == handlers[s].endpoint
            table == Inserted(e)
<1>1. e \in Endpoints /\ lastId < MaxId /\ events' = Pruned(e, table)
  BY DEF Store, AwaitsBody, MayInsert, IInv, TypeOK, Handler
<1>. HIDE DEF e
<1>2. /\ table \in [Ids -> Endpoints \cup {None}]
      /\ EventsOf(f, events) \subseteq EventsOf(f, table)
  BY <1>1, InsertedEvents, InsertedKeeps DEF IInv
<1>. HIDE DEF table
<1>3. CASE e = f
  <2>1. /\ Cardinality(EventsOf(f, events')) <= MaxEvents
        /\ \A i \in EventsOf(f, table) \ EventsOf(f, events') :
              Cardinality({j \in EventsOf(f, events') : j > i}) >= MaxEvents
    BY <1>1, <1>2, <1>3, PrunedKeepsNewest
  <2>. QED BY <1>2, <2>1
<1>4. CASE e # f
  <2>1. EventsOf(f, table) \subseteq EventsOf(f, events')
    BY <1>1, <1>4 DEF EventsOf, Pruned
  <2>. QED BY <1>2, <1>4, <2>1 DEF e
<1>. QED BY <1>3, <1>4

(* the steps in which no event of f is lost *)
LEMMA OtherStepsKeep ==
    ASSUME IInv, NEW f \in Endpoints,
           \/ UNCHANGED events
           \/ \E e \in Endpoints : lastId < MaxId /\ events' = Inserted(e)
           \/ \E e \in Endpoints \ {f} :
                 events' = [i \in Ids |-> IF events[i] = e THEN None ELSE events[i]]
    PROVE  EventsOf(f, events) \subseteq EventsOf(f, events')
<1>1. CASE UNCHANGED events
  BY <1>1
<1>2. ASSUME NEW e \in Endpoints, lastId < MaxId, events' = Inserted(e)
      PROVE  EventsOf(f, events) \subseteq EventsOf(f, events')
  BY <1>2, InsertedKeeps DEF IInv
<1>3. ASSUME NEW e \in Endpoints \ {f},
             events' = [i \in Ids |-> IF events[i] = e THEN None ELSE events[i]]
      PROVE  EventsOf(f, events) \subseteq EventsOf(f, events')
  BY <1>3 DEF EventsOf
<1>. QED BY <1>1, <1>2, <1>3

LEMMA EndpointEventsGone ==
    ASSUME NEW e \in Endpoints,
           events' = [i \in Ids |-> IF events[i] = e THEN None ELSE events[i]]
    PROVE  EventsOf(e, events') = {}
BY HookletAssumption DEF EventsOf

-----------------------------------------------------------------------------
(* The theorems *)

LEMMA NextKeepsNewest == IInv /\ [Next]_vars => [NewestKept]_vars
<1>. SUFFICES ASSUME IInv, Next
              PROVE  NewestKept
  OBVIOUS
<1>. SUFFICES ASSUME NEW f \in Endpoints
              PROVE  /\ (\E s \in Slots : Store(s) /\ handlers[s].endpoint = f) =>
                           Cardinality(EventsOf(f, events')) =< MaxEvents
                     /\ \A i \in EventsOf(f, events) \ EventsOf(f, events') :
                           \/ DeleteEvent(i)
                           \/ EventsOf(f, events') = {}
                           \/ Cardinality({j \in EventsOf(f, events') : j > i}) >= MaxEvents
  BY DEF NewestKept
<1>1. (\E s \in Slots : Store(s) /\ handlers[s].endpoint = f) =>
          Cardinality(EventsOf(f, events')) =< MaxEvents
  BY StoreKeepsNewest
<1>. SUFFICES ASSUME NEW i \in EventsOf(f, events) \ EventsOf(f, events')
              PROVE  \/ DeleteEvent(i)
                     \/ EventsOf(f, events') = {}
                     \/ Cardinality({j \in EventsOf(f, events') : j > i}) >= MaxEvents
  BY <1>1
<1>2. ASSUME NEW s \in Slots, Store(s)
      PROVE  Cardinality({j \in EventsOf(f, events') : j > i}) >= MaxEvents
  BY <1>2, StoreKeepsNewest
<1>3. ASSUME NEW n \in Ids, DeleteEvent(n)
      PROVE  DeleteEvent(i)
  <2>1. n = i
    BY <1>3 DEF DeleteEvent, EventsOf, IInv, TypeOK
  <2>. QED BY <1>3, <2>1
<1>4. ASSUME NEW e \in Endpoints,
             events' = [n \in Ids |-> IF events[n] = e THEN None ELSE events[n]]
      PROVE  EventsOf(f, events') = {}
  BY <1>4, EndpointEventsGone, OtherStepsKeep
<1>5. ~ UNCHANGED events
  BY OtherStepsKeep
<1>6. ASSUME NEW e \in Endpoints, lastId < MaxId, events' = Inserted(e)
      PROVE  FALSE
  BY <1>6, OtherStepsKeep
<1>7. ASSUME NEW s \in Slots, NEW n \in Ids, Replay(s, n)
      PROVE  FALSE
  <2>1. events[n] \in Endpoints /\ lastId < MaxId /\ events' = Inserted(events[n])
    BY <1>7 DEF Replay, IInv, TypeOK
  <2>. QED BY <1>6, <2>1
<1>8. CASE Restart
  <2>1. ASSUME NEW s \in Slots, AwaitsBody(s), MayInsert(handlers[s].endpoint),
               events' = Inserted(handlers[s].endpoint)
        PROVE  FALSE
    <3>1. handlers[s].endpoint \in Endpoints /\ lastId < MaxId
      BY <2>1 DEF AwaitsBody, MayInsert, IInv, TypeOK, Handler
    <3>. QED BY <1>6, <2>1, <3>1
  <2>. QED BY <1>4, <1>5, <1>8, <2>1 DEF Restart
<1>9. ASSUME NEW e \in Endpoints, DeleteEndpoint(e)
      PROVE  EventsOf(f, events') = {}
  BY <1>4, <1>9 DEF DeleteEndpoint
<1>10. ASSUME \/ \E s \in Slots :
                    \/ \E h \in Hooks, e \in Endpoints : Arrive(s, h, e)
                    \/ StoreFails(s)
                    \/ PushEnds(s)
              \/ \E h \in Hooks : SenderTimesOut(h)
              \/ \E e \in Endpoints :
                    \/ \E u \in Users : CreateEndpoint(u, e)
                    \/ \E on \in BOOLEAN : ToggleNotify(e, on)
              \/ \E u \in Users, d \in Devices : RegisterDevice(u, d) \/ UnregisterDevice(u, d)
       PROVE  FALSE
  BY <1>5, <1>10 DEF Arrive, StoreFails, PushEnds, SenderTimesOut, CreateEndpoint,
     ToggleNotify, RegisterDevice, UnregisterDevice, tables
<1>. QED BY <1>2, <1>3, <1>7, <1>8, <1>9, <1>10 DEF Next

LEMMA InitIInv == Init => IInv
BY HookletAssumption DEF Init, IInv, TypeOK, NothingOrphaned, AckedIsStored, HandlersSound

LEMMA NextIInv == IInv /\ [Next]_vars => IInv'
<1>. SUFFICES ASSUME IInv, [Next]_vars PROVE IInv'
  OBVIOUS
<1>1. CASE UNCHANGED vars
  BY <1>1 DEF vars, tables, IInv, TypeOK, NothingOrphaned, AckedIsStored, HandlersSound
<1>2. CASE Next
  BY <1>2, ArriveStep, StoreStep, ReplayStep, AnswerSteps, OwnerSteps, RestartStep DEF Next
<1>. QED BY <1>1, <1>2

(* Every variable keeps its type in every reachable state; ids of events are *)
(* not used again.                                                           *)
THEOREM TypeCorrect == Spec => []TypeOK
<1>. IInv => TypeOK
  BY DEF IInv
<1>. QED BY InitIInv, NextIInv, PTL DEF Spec

(* No event is left without its endpoint, although ingest waits for the body *)
(* between the read of the endpoint and the insert (hooklet-hooks.ts).       *)
THEOREM NothingOrphanedHolds == Spec => []NothingOrphaned
<1>. IInv => NothingOrphaned
  BY DEF IInv
<1>. QED BY InitIInv, NextIInv, PTL DEF Spec

(* A webhook that was answered with 200 has been stored.                     *)
THEOREM AckedIsStoredHolds == Spec => []AckedIsStored
<1>. IInv => AckedIsStored
  BY DEF IInv
<1>. QED BY InitIInv, NextIInv, PTL DEF Spec

(* An event disappears only because its owner deletes it or its endpoint, or *)
(* because MaxEvents younger ones are there, and an ingest leaves at most    *)
(* MaxEvents behind: the pruning DELETE of hooklet-hooks.ts, whatever else   *)
(* replays and restarts have left to prune.                                  *)
THEOREM KeepsNewestHolds == Spec => KeepsNewest
<1>1. Spec => [][NewestKept]_vars
  BY InitIInv, NextIInv, NextKeepsNewest, PTL DEF Spec
<1>. QED BY <1>1 DEF KeepsNewest, NewestKept
=============================================================================
