--------------------------- MODULE BrowserProofs ---------------------------
(***************************************************************************)
(* What holds of the two parts of the web application that several owners  *)
(* of one state compete for, BrowserMonitors and AiChat, for any number of *)
(* tabs, monitors, sends and tool calls.                                   *)
(*                                                                         *)
(* A page that leads has its own record in the cache of its tab, and       *)
(* nothing another tab does changes that copy: this is why it leads until  *)
(* it goes away, even beside another tab that has taken a stale record     *)
(* over.                                                                   *)
(*                                                                         *)
(* A send of the chat is followed from one await to the next: what the     *)
(* user said yes to covers whatever the loops of executeTools run, and the *)
(* batch he opened is closed before the next series begins.                *)
(***************************************************************************)
EXTENDS BrowserMonitors, AiChat, FiniteSetTheorems, TLAPS

(***************************************************************************)
(* The monitors                                                            *)
(***************************************************************************)

(* what a page that leads reads when it asks who leads *)
LeadersReadThemselves ==
    \A t \in Tabs : leading[t] => t \in page /\ cache[t] # None /\ cache[t].tab = t

IInv == TypeOK /\ LeadersReadThemselves

-----------------------------------------------------------------------------
(* Elections *)

(* the record of a tab that is closed *)
Disowned(t, r) == IF r # None /\ r.tab = t THEN [r EXCEPT !.tab = Gone] ELSE r

LEMMA RecordTypes ==
    ASSUME NEW r \in Record \cup {None}, NEW t \in Tabs
    PROVE  /\ [tab |-> t, stale |-> FALSE] \in Record
           /\ [tab |-> t, stale |-> FALSE] # None
           /\ Disowned(t, r) \in Record \cup {None}
           /\ r # None => [r EXCEPT !.stale = TRUE] \in Record
<1>1. [tab |-> t, stale |-> FALSE] \in Record
  BY DEF Record
<1>2. [tab |-> t, stale |-> FALSE] # None
  BY <1>1, BrowserMonitorsAssumption DEF Record
<1>3. Disowned(t, r) \in Record \cup {None} /\ (r # None => [r EXCEPT !.stale = TRUE] \in Record)
  BY DEF Disowned, Record
<1>. QED BY <1>1, <1>2, <1>3

LEMMA CompeteStep ==
    ASSUME IInv, NEW t \in Tabs, Compete(t)
    PROVE  /\ leader' \in Record \cup {None}
           /\ cache' \in [Tabs -> Record \cup {None}]
           /\ leading' \in [Tabs -> BOOLEAN]
           /\ leading'[t] => cache'[t] # None /\ cache'[t].tab = t
           /\ leading[t] => leading'[t]
           /\ \A u \in Tabs : u # t => leading'[u] = leading[u] /\ cache'[u] = cache[u]
<1>. DEFINE mine == [tab |-> t, stale |-> FALSE]
<1>1. mine \in Record /\ mine # None
  BY RecordTypes
<1>2. mine.tab = t
  OBVIOUS
<1>3. leading[t] => Free(t)
  BY <1>1, <1>2 DEF IInv, LeadersReadThemselves, Free, Known
<1>. HIDE DEF mine
<1>4. CASE Free(t)
  <2>1. /\ leader' = mine
        /\ cache' = [cache EXCEPT ![t] = mine]
        /\ leading' = [leading EXCEPT ![t] = TRUE]
    BY <1>4 DEF Compete, mine
  <2>. QED BY <2>1, <1>1, <1>2 DEF IInv, TypeOK
<1>5. CASE ~ Free(t)
  <2>1. /\ leading' = [leading EXCEPT ![t] = FALSE]
        /\ UNCHANGED <<leader, cache>>
    BY <1>5 DEF Compete
  <2>. QED BY <2>1, <1>3, <1>5 DEF IInv, TypeOK
<1>. QED BY <1>4, <1>5

LEMMA AgeSharedStep ==
    ASSUME IInv, AgeShared
    PROVE  IInv' /\ UNCHANGED leading
<1>1. /\ leader' = [leader EXCEPT !.stale = TRUE]
      /\ UNCHANGED <<open, page, hidden, cache, removing, leading, stored, list, news,
                     due, runs>>
  BY DEF AgeShared, lists, schedule
<1>2. leader' \in Record
  BY DEF AgeShared, IInv, TypeOK, Record
<1>. QED BY <1>1, <1>2 DEF IInv, TypeOK, LeadersReadThemselves

LEMMA ElectionSteps ==
    ASSUME IInv, NEW t \in Tabs,
           Heartbeat(t) \/ AgeCached(t) \/ EndRemove(t)
    PROVE  IInv' /\ \A u \in Tabs : leading[u] => leading'[u]
<1>1. CASE Heartbeat(t)
  <2>1. Compete(t) /\ t \in page
        /\ UNCHANGED <<open, page, hidden, removing, stored, list, news, due, runs>>
    BY <1>1 DEF Heartbeat, lists, schedule
  <2>. QED BY <2>1, CompeteStep DEF IInv, TypeOK, LeadersReadThemselves
<1>2. CASE AgeCached(t)
  <2>. DEFINE aged == [cache[t] EXCEPT !.stale = TRUE]
  <2>1. /\ cache[t] # None /\ cache[t].tab # t
        /\ cache' = [cache EXCEPT ![t] = aged]
        /\ UNCHANGED <<open, page, hidden, leader, removing, leading, stored, list, news,
                       due, runs>>
    BY <1>2 DEF AgeCached, lists, schedule, IInv, TypeOK
  <2>2. aged \in Record
    BY <2>1, RecordTypes DEF IInv, TypeOK
  <2>3. ~ leading[t]
    BY <2>1 DEF IInv, LeadersReadThemselves
  <2>. HIDE DEF aged
  <2>. QED BY <2>1, <2>2, <2>3 DEF IInv, TypeOK, LeadersReadThemselves
<1>3. CASE EndRemove(t)
  BY <1>3 DEF EndRemove, lists, schedule, IInv, TypeOK, LeadersReadThemselves
<1>. QED BY <1>1, <1>2, <1>3

-----------------------------------------------------------------------------
(* Tabs and pages *)

LEMMA ForgottenStep ==
    ASSUME IInv, NEW t \in Tabs, Forgotten(t)
    PROVE  /\ page' = page \ {t} /\ hidden' \subseteq page' /\ news' \subseteq page'
           /\ leading' \in [Tabs -> BOOLEAN]
           /\ list' \in [Tabs -> List]
           /\ due' \in [Tabs -> [Monitors -> BOOLEAN]]
           /\ runs' \in [Tabs -> [Monitors -> 1 .. MaxAttempts \cup {None}]]
           /\ ~ leading'[t]
           /\ \A u \in Tabs : u # t => leading'[u] = leading[u]
BY DEF Forgotten, IInv, TypeOK, List

LEMMA PageSteps ==
    ASSUME IInv, NEW t \in Tabs,
           OpenTab(t) \/ CloseTab(t) \/ Mount(t) \/ Unmount(t) \/ Hide(t) \/ Show(t)
    PROVE  IInv' /\ \A u \in Tabs : leading[u] /\ u \in page' => leading'[u]
<1>1. CASE OpenTab(t)
  <2>1. ~ leading[t]
    BY <1>1 DEF OpenTab, IInv, TypeOK, LeadersReadThemselves
  <2>. QED BY <1>1, <2>1 DEF OpenTab, lists, schedule, IInv, TypeOK, LeadersReadThemselves
<1>2. CASE CloseTab(t)
  <2>1. /\ open' = open \ {t}
        /\ removing' = removing \ {t}
        /\ leader' = Disowned(t, leader)
        /\ cache' = [u \in Tabs |-> IF u = t THEN None ELSE Disowned(t, cache[u])]
        /\ Forgotten(t)
        /\ UNCHANGED stored
    BY <1>2 DEF CloseTab, Disowned
  <2>2. leader' \in Record \cup {None} /\ cache' \in [Tabs -> Record \cup {None}]
    BY <2>1, RecordTypes DEF IInv, TypeOK
  <2>3. \A u \in Tabs : u # t /\ leading[u] => cache'[u] = cache[u]
    BY <2>1 DEF Disowned, IInv, LeadersReadThemselves
  <2>4. TypeOK'
    BY <2>1, <2>2, ForgottenStep DEF IInv, TypeOK
  <2>. QED BY <2>1, <2>3, <2>4, ForgottenStep DEF IInv, TypeOK, LeadersReadThemselves
<1>3. CASE Mount(t)
  <2>1. /\ t \in open \ page /\ page' = page \cup {t}
        /\ list' = [list EXCEPT ![t] = stored]
        /\ Compete(t)
        /\ UNCHANGED <<open, hidden, removing, stored, news, due, runs>>
    BY <1>3 DEF Mount, schedule
  <2>. QED BY <2>1, CompeteStep DEF IInv, TypeOK, LeadersReadThemselves
<1>4. CASE Unmount(t)
  <2>1. /\ t \in page /\ Forgotten(t) /\ UNCHANGED <<open, leader, stored>>
        /\ cache' \in [Tabs -> Record \cup {None}]
        /\ removing' \subseteq open
        /\ \A u \in Tabs : u # t => cache'[u] = cache[u]
    BY <1>4 DEF Unmount, IInv, TypeOK
  <2>. QED BY <2>1, ForgottenStep DEF IInv, TypeOK, LeadersReadThemselves
<1>5. CASE Hide(t) \/ Show(t)
  BY <1>5 DEF Hide, Show, election, lists, schedule, IInv, TypeOK, LeadersReadThemselves
<1>. QED BY <1>1, <1>2, <1>3, <1>4, <1>5

-----------------------------------------------------------------------------
(* The list and the runs leave the election alone *)

LEMMA MonitorSteps ==
    ASSUME IInv, NEW t \in Tabs,
           \/ StorageEvent(t) \/ Tick(t)
           \/ \E m \in Monitors :
                 \/ AddMonitor(t, m) \/ UpdateMonitor(t, m) \/ RemoveMonitor(t, m)
                 \/ Elapse(t, m) \/ RunNow(t, m) \/ Retry(t, m) \/ EndRun(t, m)
    PROVE  IInv' /\ UNCHANGED leading
<1>1. ASSUME NEW m \in Monitors, NEW enabled \in BOOLEAN \cup {None}, Commit(t, m, enabled)
      PROVE  IInv' /\ UNCHANGED leading
  <2>1. /\ t \in page
        /\ list' = [list EXCEPT ![t][m] = enabled]
        /\ stored' = list'[t]
        /\ news' = news \cup (page \ {t})
        /\ due' = [due EXCEPT ![t][m] = TRUE]
        /\ UNCHANGED <<open, page, hidden, leader, cache, removing, leading, runs>>
    BY <1>1 DEF Commit, election
  <2>2. list' \in [Tabs -> List]
    BY <2>1 DEF IInv, TypeOK, List
  <2>. QED BY <2>1, <2>2 DEF IInv, TypeOK, LeadersReadThemselves
<1>2. ASSUME NEW m \in Monitors,
             AddMonitor(t, m) \/ UpdateMonitor(t, m) \/ RemoveMonitor(t, m)
      PROVE  IInv' /\ UNCHANGED leading
  <2>1. list[t][m] # None => list[t][m] \in BOOLEAN
    BY DEF IInv, TypeOK, List
  <2>. QED BY <1>1, <1>2, <2>1 DEF AddMonitor, UpdateMonitor, RemoveMonitor
<1>3. CASE StorageEvent(t)
  BY <1>3 DEF StorageEvent, election, schedule, IInv, TypeOK, LeadersReadThemselves
<1>4. ASSUME \/ Tick(t)
             \/ \E m \in Monitors :
                   Elapse(t, m) \/ RunNow(t, m) \/ Retry(t, m) \/ EndRun(t, m)
      PROVE  IInv' /\ UNCHANGED leading
  <2>1. UNCHANGED <<open, page, hidden, leader, cache, removing, leading, stored, list, news>>
    BY <1>4 DEF Tick, Elapse, RunNow, Retry, EndRun, election, lists
  <2>. DEFINE Runs == [Tabs -> [Monitors -> 1 .. MaxAttempts \cup {None}]]
              Due == [Tabs -> [Monitors -> BOOLEAN]]
  <2>2. ASSUME Tick(t)
        PROVE  due' \in Due /\ runs' \in Runs
    <3>. DEFINE d == [m \in Monitors |-> due[t][m] /\ m \notin Startable(t)]
                r == [m \in Monitors |-> IF m \in Startable(t) THEN 1 ELSE runs[t][m]]
    <3>1. due' = [due EXCEPT ![t] = d] /\ runs' = [runs EXCEPT ![t] = r]
      BY <2>2 DEF Tick
    <3>2. d \in [Monitors -> BOOLEAN]
      <4>1. \A m \in Monitors : (due[t][m] /\ m \notin Startable(t)) \in BOOLEAN
        OBVIOUS
      <4>. QED BY <4>1, Zenon
    <3>3. r \in [Monitors -> 1 .. MaxAttempts \cup {None}]
      BY BrowserMonitorsAssumption DEF IInv, TypeOK
    <3>. HIDE DEF d, r
    <3>4. due' \in Due
      BY <3>1, <3>2 DEF IInv, TypeOK
    <3>. QED BY <3>1, <3>3, <3>4 DEF IInv, TypeOK
  <2>3. ASSUME NEW m \in Monitors, Elapse(t, m)
        PROVE  due' \in Due /\ runs' \in Runs
    <3>1. due' = [due EXCEPT ![t][m] = TRUE] /\ UNCHANGED runs
      BY <2>3 DEF Elapse
    <3>. QED BY <3>1 DEF IInv, TypeOK
  <2>4. ASSUME NEW m \in Monitors, RunNow(t, m) \/ EndRun(t, m)
        PROVE  due' \in Due /\ runs' \in Runs
    <3>1. PICK a \in {1, None} : runs' = [runs EXCEPT ![t][m] = a] /\ UNCHANGED due
      BY <2>4 DEF RunNow, EndRun
    <3>2. a \in 1 .. MaxAttempts \cup {None}
      BY BrowserMonitorsAssumption
    <3>. QED BY <3>1, <3>2 DEF IInv, TypeOK
  <2>5. ASSUME NEW m \in Monitors, Retry(t, m)
        PROVE  due' \in Due /\ runs' \in Runs
    <3>1. /\ runs[t][m] \in 1 .. MaxAttempts /\ runs[t][m] < MaxAttempts
          /\ runs' = [runs EXCEPT ![t][m] = runs[t][m] + 1]
          /\ UNCHANGED due
      BY <2>5 DEF Retry, IInv, TypeOK
    <3>2. runs[t][m] + 1 \in 1 .. MaxAttempts
      BY <3>1, BrowserMonitorsAssumption
    <3>. QED BY <3>1, <3>2 DEF IInv, TypeOK
  <2>6. due' \in Due /\ runs' \in Runs
    BY <1>4, <2>2, <2>3, <2>4, <2>5
  <2>. QED BY <2>1, <2>6 DEF IInv, TypeOK, LeadersReadThemselves
<1>. QED BY <1>2, <1>3, <1>4

-----------------------------------------------------------------------------
(* The theorems *)

LEMMA InitIInv == Init => IInv
BY DEF Init, IInv, TypeOK, LeadersReadThemselves, List

LEMMA NextIInv ==
    ASSUME IInv, [Next]_vars
    PROVE  IInv' /\ \A t \in Tabs : leading[t] /\ t \in page' => leading'[t]
<1>1. CASE UNCHANGED vars
  BY <1>1 DEF vars, election, lists, schedule, IInv, TypeOK, LeadersReadThemselves
<1>2. CASE AgeShared
  BY <1>2, AgeSharedStep
<1>3. ASSUME NEW t \in Tabs, Heartbeat(t) \/ AgeCached(t) \/ EndRemove(t)
      PROVE  IInv' /\ \A u \in Tabs : leading[u] /\ u \in page' => leading'[u]
  BY <1>3, ElectionSteps
<1>. QED BY <1>1, <1>2, <1>3, PageSteps, MonitorSteps DEF Next

(* Every variable keeps its type in every reachable state. *)
THEOREM TypeCorrect == Spec => []TypeOK
<1>. IInv => TypeOK
  BY DEF IInv
<1>. QED BY InitIInv, NextIInv, PTL DEF Spec

(* A page that leads leads until it goes away: refreshLeadership is answered *)
(* from the cache of the tab (lib/persistence.ts, getItem), which never sees *)
(* that another tab has taken a stale record over (tab-lock.ts:31).          *)
THEOREM LeadersStay == Spec => [][\A t \in Tabs : leading[t] /\ t \in page' => leading'[t]]_vars
<1>1. Init => IInv
  BY InitIInv
<1>2. IInv /\ [Next]_vars => IInv'
  BY NextIInv
<1>3. IInv /\ [Next]_vars => [\A t \in Tabs : leading[t] /\ t \in page' => leading'[t]]_vars
  BY NextIInv
<1>. QED BY <1>1, <1>2, <1>3, PTL DEF Spec

(***************************************************************************)
(* The chat                                                                *)
(***************************************************************************)

(* the calls that a yes was given for, on whatever card *)
Yes(r) == r.agreed \cup r.misled

(* These cover what a plan, a batch or an execution of high impact needs.   *)
YesSound(r) ==
    /\ r.planned => Grave(r) \subseteq Yes(r)
    /\ r.batch => Asking(r) \cap Grave(r) \subseteq Yes(r)
    /\ \A j \in Grave(r) : r.series[j].state \in {"runs", "done"} => j \in Yes(r)

(* A batch is only open in the series it was agreed to, and the call a send *)
(* waits for is there.                                                      *)
PlaceSound(r) ==
    /\ r.pc \in {"stream", "backoff", "tool"} => ~ r.batch
    /\ r.pc \in {"tool", "redo"} => r.at \in DOMAIN r.series /\ r.series[r.at].state = "runs"
    /\ r.pc = "ask" => r.at \in Asking(r)
    /\ r.turns < MaxTurns

ChatIInv ==
    /\ ChatTypeOK
    /\ \A s \in Sends : YesSound(send[s]) /\ PlaceSound(send[s])
    /\ AnswersReachTheAsker

(* the record of a send between two awaits *)
Frame == [
    pc : {"idle", "stream", "backoff", "tool", "ask", "redo", "over"},
    live : BOOLEAN, auto : BOOLEAN, toolless : BOOLEAN,
    attempt : 0 .. MaxRetries, turns : 0 .. MaxTurns,
    series : Seq(Call), at : Nat,
    planned : BOOLEAN, batch : BOOLEAN, agreed : SUBSET Nat, misled : SUBSET Nat]

(* where r may be when it goes on: it waits as next, or is left after its   *)
(* last turn                                                                *)
Lands(r, next) ==
    \/ next.pc = "over" /\ ~ r.turns + 1 < MaxTurns
    \/ /\ next \in Send /\ YesSound(next) /\ PlaceSound(next)
       /\ next.live = r.live /\ next.misled \subseteq r.misled

-----------------------------------------------------------------------------
(* The operators on a record *)

(* The sets 1..m, for m in S, are finite, and the strict subset ordering is *)
(* well-founded on finite sets.                                             *)
LEMMA NatMin ==
    ASSUME NEW S \in SUBSET Nat, S # {}
    PROVE  \E m \in S : \A n \in S : m <= n
<1>. DEFINE Below(m) == 1..m
            T == {Below(m) : m \in S}
<1>1. \A m \in S : Below(m) \in FiniteSubsetsOf(Nat)
  BY FS_Interval DEF FiniteSubsetsOf
<1>2. PICK x \in T : \A y \in T : <<y, x>> \notin StrictSubsetOrdering(Nat)
  <2>1. T \subseteq FiniteSubsetsOf(Nat) /\ T # {}
    BY <1>1
  <2>. HIDE DEF T
  <2>. QED BY <2>1, WFMin, FS_StrictSubsetOrderingWellFounded
<1>3. PICK m \in S : x = Below(m)
  OBVIOUS
<1>4. ASSUME NEW n \in S, n < m
      PROVE  <<Below(n), Below(m)>> \in StrictSubsetOrdering(Nat)
  <2>1. Below(n) \subseteq Below(m) /\ Below(n) \in SUBSET Nat /\ Below(m) \in SUBSET Nat
    BY <1>4
  <2>2. m \in Below(m) /\ m \notin Below(n)
    BY <1>4
  <2>. HIDE DEF Below
  <2>. QED BY <2>1, <2>2 DEF StrictSubsetOrdering
<1>5. \A n \in S : Below(n) \in T
  OBVIOUS
<1>6. ASSUME NEW n \in S
      PROVE  m <= n
  <2>1. ~ n < m
    <3>. HIDE DEF T, Below
    <3>. QED BY <1>2, <1>3, <1>4, <1>5
  <2>. QED BY <2>1
<1>. QED BY <1>6

LEMMA MinIsLeast ==
    ASSUME NEW S \in SUBSET Nat, S # {}
    PROVE  Min(S) \in S /\ \A n \in S : Min(S) <= n
BY NatMin DEF Min

LEMMA SeriesOf ==
    ASSUME NEW r \in Frame
    PROVE  /\ DOMAIN r.series \in SUBSET (Nat \ {0})
           /\ \A j \in DOMAIN r.series : r.series[j] \in Call
           /\ \A F \in [DOMAIN r.series -> Call] :
                 F \in Seq(Call) /\ DOMAIN F = DOMAIN r.series
BY DEF Frame

LEMMA ExecuteStep ==
    ASSUME NEW r \in Frame, YesSound(r), NEW S \in SUBSET DOMAIN r.series,
           NEW source \in {"user", "plan", "autoApply", "none"},
           source \in {"user", "plan"} => S \cap Grave(r) \subseteq Yes(r),
           r.batch => S \cap Grave(r) \subseteq Yes(r)
    PROVE  LET e == Execute(r, S, source)
           IN  /\ e \in Frame /\ YesSound(e)
               /\ DOMAIN e.series = DOMAIN r.series
               /\ e.at # 0 => e.at \in DOMAIN e.series /\ e.series[e.at].state = "runs"
               /\ e.live = r.live /\ e.turns = r.turns /\ e.batch = r.batch
               /\ Yes(e) = Yes(r) /\ e.misled = r.misled /\ Grave(e) = Grave(r)
<1>. DEFINE D(j) == Decision(r.series[j].tool, source)
            going == {j \in S : D(j) = "runs"}
            reached == {j \in S : \A k \in going : j <= k}
            next == [j \in DOMAIN r.series |->
                       IF j \in reached THEN [r.series[j] EXCEPT !.state = D(j)]
                       ELSE r.series[j]]
            here == IF going = {} THEN 0 ELSE Min(going)
            e == [r EXCEPT !.series = next, !.at = here]
<1>1. e = Execute(r, S, source)
  BY DEF Execute
<1>2. ASSUME NEW j \in DOMAIN r.series
      PROVE  /\ D(j) \in {"runs", "asks", "refused"}
             /\ D(j) = "runs" /\ r.series[j].tool \in HighImpact => source \in {"user", "plan"}
  BY DEF Decision
<1>. HIDE DEF D
<1>3. \A j \in DOMAIN r.series :
        /\ next[j] \in Call
        /\ next[j].tool = r.series[j].tool
        /\ j \in reached => next[j].state = D(j)
        /\ j \notin reached => next[j] = r.series[j]
  BY <1>2, SeriesOf DEF Call
<1>4. next \in Seq(Call) /\ DOMAIN next = DOMAIN r.series
  <2>1. next \in [DOMAIN r.series -> Call]
    BY <1>3
  <2>. HIDE DEF next
  <2>. QED BY <2>1, SeriesOf
<1>5. /\ here \in Nat
      /\ here # 0 => here \in DOMAIN r.series /\ here \in reached /\ D(here) = "runs"
  <2>1. going \in SUBSET Nat /\ going \subseteq S /\ S \subseteq DOMAIN r.series
    BY SeriesOf
  <2>2. CASE going = {}
    BY <2>2
  <2>3. CASE going # {}
    <3>1. here = Min(going)
      BY <2>3
    <3>2. here \in going /\ \A k \in going : here <= k
      <4>. HIDE DEF going
      <4>. QED BY <2>1, <2>3, <3>1, MinIsLeast
    <3>. HIDE DEF here
    <3>. QED BY <2>1, <3>2
  <2>. QED BY <2>2, <2>3
<1>6. reached \subseteq S
  OBVIOUS
<1>. HIDE DEF next, here, reached
<1>7. /\ e \in Frame /\ e.series = next /\ e.at = here
      /\ e.live = r.live /\ e.turns = r.turns /\ e.batch = r.batch
      /\ e.planned = r.planned /\ e.agreed = r.agreed /\ e.misled = r.misled
  BY <1>4, <1>5 DEF Frame
<1>. HIDE DEF e
<1>8. Yes(e) = Yes(r) /\ Grave(e) = Grave(r)
  BY <1>3, <1>4, <1>7 DEF Yes, Grave
<1>9. Asking(e) \subseteq Asking(r) \cup S
  BY <1>3, <1>4, <1>6, <1>7 DEF Asking
<1>10. ASSUME NEW j \in Grave(e), e.series[j].state \in {"runs", "done"}
      PROVE  j \in Yes(e)
  <2>1. CASE j \in reached
    BY <1>2, <1>3, <1>4, <1>6, <1>7, <1>10, <1>8, <2>1 DEF Grave
  <2>2. CASE j \notin reached
    BY <1>3, <1>4, <1>7, <1>10, <1>8, <2>2 DEF YesSound, Grave
  <2>. QED BY <2>1, <2>2
<1>11. YesSound(e)
  BY <1>4, <1>7, <1>9, <1>10, <1>8 DEF YesSound
<1>. QED BY <1>1, <1>3, <1>4, <1>5, <1>7, <1>11, <1>8

LEMMA Blank ==
    /\ 0 \in 0 .. MaxRetries /\ 0 \in 0 .. MaxTurns /\ 0 < MaxTurns
    /\ <<>> \in Seq(Call) /\ {} \in SUBSET Nat
BY AiChatAssumption

LEMMA OpenTurnStep ==
    ASSUME NEW r \in Frame, r.turns < MaxTurns
    PROVE  Lands(r, OpenTurn(r)) /\ OpenTurn(r).pc = "stream"
<1>. DEFINE q == OpenTurn(r)
<1>1. /\ q \in Send /\ q.pc = "stream" /\ q.live = r.live /\ q.turns = r.turns
      /\ q.series = <<>> /\ ~ q.planned /\ ~ q.batch /\ q.misled = {}
  BY Blank DEF OpenTurn, Frame, Send
<1>. HIDE DEF q
<1>2. DOMAIN q.series = {}
  BY <1>1
<1>. QED BY <1>1, <1>2 DEF q, Lands, YesSound, PlaceSound, Grave, Asking

LEMMA EndSeriesStep ==
    ASSUME NEW r \in Frame, r.turns < MaxTurns
    PROVE  Lands(r, EndSeries(r)) /\ EndSeries(r).pc # "ask"
<1>1. CASE r.turns + 1 < MaxTurns
  <2>. DEFINE q == [r EXCEPT !.turns = @ + 1]
  <2>1. q \in Frame /\ q.turns < MaxTurns /\ q.live = r.live /\ q.misled = r.misled
    BY <1>1, AiChatAssumption DEF Frame
  <2>2. EndSeries(r) = OpenTurn(q)
    BY <1>1 DEF EndSeries
  <2>. HIDE DEF q
  <2>. QED BY <2>1, <2>2, OpenTurnStep DEF Lands
<1>2. CASE ~ r.turns + 1 < MaxTurns
  BY <1>2 DEF EndSeries, Lands, Frame
<1>. QED BY <1>1, <1>2

LEMMA ConfirmStep ==
    ASSUME NEW r \in Frame, YesSound(r), r.turns < MaxTurns,
           NEW S \in SUBSET DOMAIN r.series, S \cap Grave(r) \subseteq Yes(r)
    PROVE  Lands(r, Confirm(r, S))
<1>. DEFINE e == Execute(r, S, "user")
<1>1. /\ e \in Frame /\ YesSound(e)
      /\ e.at # 0 => e.at \in DOMAIN e.series /\ e.series[e.at].state = "runs"
      /\ e.live = r.live /\ e.turns = r.turns /\ e.misled = r.misled
  BY ExecuteStep
<1>2. Confirm(r, S) = IF e.at # 0 THEN [e EXCEPT !.pc = "redo"]
                      ELSE IF Asking(e) = {} THEN EndSeries(e)
                      ELSE [e EXCEPT !.pc = "ask", !.at = Min(Asking(e))]
  BY DEF Confirm
<1>. HIDE DEF e
<1>3. CASE e.at # 0
  <2>. DEFINE q == [e EXCEPT !.pc = "redo"]
  <2>1. /\ q \in Send /\ q.pc = "redo" /\ q.live = e.live /\ q.turns = e.turns
        /\ q.series = e.series /\ q.at = e.at
        /\ q.planned = e.planned /\ q.batch = e.batch
        /\ q.agreed = e.agreed /\ q.misled = e.misled
    BY <1>1 DEF Frame, Send
  <2>2. q = Confirm(r, S)
    BY <1>2, <1>3
  <2>. HIDE DEF q
  <2>. QED BY <1>1, <1>3, <2>1, <2>2 DEF Lands, YesSound, PlaceSound, Asking, Yes, Grave
<1>4. CASE e.at = 0 /\ Asking(e) = {}
  BY <1>1, <1>2, <1>4, EndSeriesStep DEF Lands
<1>5. CASE e.at = 0 /\ Asking(e) # {}
  <2>. DEFINE q == [e EXCEPT !.pc = "ask", !.at = Min(Asking(e))]
  <2>1. Asking(e) \in SUBSET Nat /\ Min(Asking(e)) \in Asking(e)
    BY <1>1, <1>5, SeriesOf, MinIsLeast DEF Asking
  <2>2. /\ q \in Send /\ q.pc = "ask" /\ q.live = e.live /\ q.turns = e.turns
        /\ q.series = e.series /\ q.at = Min(Asking(e))
        /\ q.planned = e.planned /\ q.batch = e.batch
        /\ q.agreed = e.agreed /\ q.misled = e.misled
    BY <1>1, <2>1 DEF Frame, Send
  <2>3. q = Confirm(r, S)
    BY <1>2, <1>5
  <2>4. Asking(q) = Asking(e)
    BY <2>2 DEF Asking
  <2>. HIDE DEF q
  <2>. QED BY <1>1, <2>1, <2>2, <2>3, <2>4 DEF Lands, YesSound, PlaceSound, Yes, Grave
<1>. QED BY <1>3, <1>4, <1>5

LEMMA ExecuteFromStep ==
    ASSUME NEW r \in Frame, YesSound(r), r.turns < MaxTurns, ~ r.batch, NEW i \in Nat
    PROVE  Lands(r, ExecuteFrom(r, i))
<1>. DEFINE S == {j \in DOMAIN r.series : j >= i}
            e == Execute(r, S, Source(r))
<1>1. /\ Source(r) \in {"user", "plan", "autoApply", "none"}
      /\ Source(r) \in {"user", "plan"} => S \cap Grave(r) \subseteq Yes(r)
  BY DEF Source, YesSound
<1>2. S \in SUBSET DOMAIN r.series
  OBVIOUS
<1>3. ExecuteFrom(r, i) = IF e.at # 0 THEN [e EXCEPT !.pc = "tool"] ELSE Confirm(e, Covered(e))
  BY DEF ExecuteFrom
<1>. HIDE DEF S
<1>4. /\ e \in Frame /\ YesSound(e)
      /\ e.at # 0 => e.at \in DOMAIN e.series /\ e.series[e.at].state = "runs"
      /\ e.live = r.live /\ e.turns = r.turns /\ e.batch = r.batch /\ e.misled = r.misled
  BY <1>1, <1>2, ExecuteStep
<1>. HIDE DEF e
<1>5. CASE e.at # 0
  <2>. DEFINE q == [e EXCEPT !.pc = "tool"]
  <2>1. /\ q \in Send /\ q.pc = "tool" /\ q.live = e.live /\ q.turns = e.turns
        /\ q.series = e.series /\ q.at = e.at
        /\ q.planned = e.planned /\ q.batch = e.batch
        /\ q.agreed = e.agreed /\ q.misled = e.misled
    BY <1>4 DEF Frame, Send
  <2>2. q = ExecuteFrom(r, i)
    BY <1>3, <1>5
  <2>. HIDE DEF q
  <2>. QED BY <1>4, <1>5, <2>1, <2>2 DEF Lands, YesSound, PlaceSound, Asking, Yes, Grave
<1>6. CASE e.at = 0
  <2>1. Covered(e) = {}
    BY <1>4 DEF Covered
  <2>2. Lands(e, Confirm(e, {}))
    BY <1>4, ConfirmStep
  <2>. QED BY <1>3, <1>4, <1>6, <2>1, <2>2 DEF Lands
<1>. QED BY <1>5, <1>6

LEMMA ExecuteToolsStep ==
    ASSUME NEW r \in Frame, r.turns < MaxTurns, ~ r.batch,
           NEW tools \in Offers, NEW planned \in BOOLEAN
    PROVE  Lands(r, ExecuteTools(r, tools, planned))
<1>. DEFINE series == [j \in DOMAIN tools |-> [tool |-> tools[j], state |-> "waiting"]]
            grave == {j \in DOMAIN tools : tools[j] \in HighImpact}
            agreed == IF planned THEN grave ELSE {}
            q == [r EXCEPT !.series = series, !.planned = planned, !.agreed = agreed]
<1>1. tools \in Seq(Tools)
  BY AiChatAssumption
<1>2. /\ series \in Seq(Call) /\ DOMAIN series = DOMAIN tools
      /\ \A j \in DOMAIN series : series[j].state = "waiting" /\ series[j].tool = tools[j]
  <2>1. series \in [DOMAIN tools -> Call]
    BY <1>1 DEF Call
  <2>2. \A j \in DOMAIN series : series[j].state = "waiting" /\ series[j].tool = tools[j]
    OBVIOUS
  <2>. HIDE DEF series
  <2>. QED BY <1>1, <2>1, <2>2
<1>3. agreed \in SUBSET Nat
  BY <1>1
<1>. HIDE DEF series, agreed
<1>4. /\ q \in Frame /\ q.series = series /\ q.planned = planned
      /\ q.agreed = agreed /\ q.misled = r.misled
      /\ q.live = r.live /\ q.turns = r.turns /\ q.batch = r.batch
  BY <1>2, <1>3 DEF Frame
<1>5. ExecuteTools(r, tools, planned) = ExecuteFrom(q, 1)
  BY DEF ExecuteTools, series, agreed
<1>. HIDE DEF q
<1>6. YesSound(q)
  <2>1. Grave(q) = grave
    BY <1>2, <1>4 DEF Grave
  <2>. QED BY <1>2, <1>4, <2>1 DEF YesSound, Yes, Grave, agreed
<1>. QED BY <1>4, <1>5, <1>6, ExecuteFromStep DEF Lands

-----------------------------------------------------------------------------
(* The steps *)

LEMMA SendIsFrame ==
    ASSUME NEW r \in Send
    PROVE  r \in Frame /\ r.pc # "over"
BY DEF Send, Frame

LEMMA IdleSound ==
    /\ Idle \in Send /\ YesSound(Idle) /\ PlaceSound(Idle)
    /\ Idle.pc = "idle" /\ ~ Idle.live /\ ~ Idle.batch /\ Idle.turns = 0
    /\ Idle.series = <<>> /\ DOMAIN Idle.series = {} /\ Idle.misled = {}
BY AiChatAssumption DEF Idle, Send, YesSound, PlaceSound, Asking, Grave

LEMMA FinishStep ==
    ASSUME ChatIInv, NEW s \in Sends, Finish(s), UNCHANGED <<settings, left>>,
           plan' \in Offers \cup {Nothing}
    PROVE  ChatIInv'
<1>1. /\ send' = [send EXCEPT ![s] = Idle]
      /\ loading' \in BOOLEAN /\ resolver' = Nothing
      /\ mode' \in {"act", "plan"} /\ restore' = Nothing
      /\ UNCHANGED <<auto, batchOn, permission, changes, left>>
  BY DEF Finish, settings, ChatIInv, ChatTypeOK
<1>2. ChatTypeOK'
  BY <1>1, IdleSound DEF ChatIInv, ChatTypeOK
<1>3. \A t \in Sends : YesSound(send'[t]) /\ PlaceSound(send'[t])
  BY <1>1, IdleSound DEF ChatIInv, ChatTypeOK
<1>4. AnswersReachTheAsker'
  BY <1>1 DEF AnswersReachTheAsker
<1>. QED BY <1>2, <1>3, <1>4 DEF ChatIInv, YesSound, PlaceSound, Asking, Yes, Grave

(* s, which does not wait for an answer, goes on *)
LEMMA ContinueStep ==
    ASSUME ChatIInv, NEW s \in Sends, send[s].pc # "ask",
           NEW next, Continue(s, next), Lands(send[s], next) \/ next.pc = "over",
           next.pc = "ask" => send[s].live,
           UNCHANGED <<settings, left>>, plan' \in Offers \cup {Nothing}
    PROVE  ChatIInv'
<1>1. CASE next.pc = "over"
  BY <1>1, FinishStep DEF Continue
<1>2. CASE next.pc # "over"
  <2>1. /\ next \in Send /\ YesSound(next) /\ PlaceSound(next) /\ next.live = send[s].live
        /\ send' = [send EXCEPT ![s] = next]
        /\ resolver' = IF next.pc = "ask" THEN s ELSE resolver
        /\ UNCHANGED <<loading, mode, restore, auto, batchOn, permission, changes, left>>
    BY <1>2 DEF Continue, Lands, settings
  <2>2. ChatTypeOK'
    BY <2>1 DEF ChatIInv, ChatTypeOK
  <2>3. \A t \in Sends : YesSound(send'[t]) /\ PlaceSound(send'[t])
    BY <2>1 DEF ChatIInv, ChatTypeOK
  <2>4. AnswersReachTheAsker'
    BY <2>1, AiChatAssumption DEF ChatIInv, ChatTypeOK, AnswersReachTheAsker
  <2>. QED BY <2>2, <2>3, <2>4 DEF ChatIInv, YesSound, PlaceSound, Asking, Yes, Grave
<1>. QED BY <1>1, <1>2

LEMMA OverIsOver == Over.pc = "over"
BY DEF Over, Idle

LEMMA DoneStep ==
    ASSUME ChatIInv, NEW s \in Sends, send[s].pc \in {"tool", "redo"}
    PROVE  /\ Done(s) \in Frame /\ YesSound(Done(s))
           /\ DOMAIN Done(s).series = DOMAIN send[s].series
           /\ Asking(Done(s)) = Asking(send[s])
           /\ Yes(Done(s)) = Yes(send[s]) /\ Grave(Done(s)) = Grave(send[s])
           /\ Done(s).misled = send[s].misled /\ Done(s).live = send[s].live
           /\ Done(s).batch = send[s].batch /\ Done(s).turns = send[s].turns
<1>. DEFINE r == send[s]
            call == [r.series[r.at] EXCEPT !.state = "done"]
            series == [r.series EXCEPT ![r.at] = call]
            done == [r EXCEPT !.series = series]
<1>1. r \in Frame /\ YesSound(r) /\ r.at \in DOMAIN r.series /\ r.series[r.at].state = "runs"
  BY SendIsFrame DEF ChatIInv, ChatTypeOK, PlaceSound
<1>2. done = Done(s)
  BY DEF Done
<1>. HIDE DEF r
<1>3. call \in Call /\ call.state = "done" /\ call.tool = r.series[r.at].tool
  BY <1>1, SeriesOf DEF Call
<1>. HIDE DEF call
<1>4. series \in Seq(Call) /\ DOMAIN series = DOMAIN r.series
  BY <1>1, <1>3 DEF Frame
<1>5. /\ series[r.at] = call
      /\ \A j \in DOMAIN series : j # r.at => series[j] = r.series[j]
  BY <1>1, <1>4
<1>. HIDE DEF series
<1>6. /\ done \in Frame /\ done.series = series /\ done.planned = r.planned
      /\ done.agreed = r.agreed /\ done.misled = r.misled /\ done.live = r.live
      /\ done.batch = r.batch /\ done.turns = r.turns
  BY <1>1, <1>4 DEF Frame
<1>. HIDE DEF done
<1>7. Asking(done) = Asking(r)
  BY <1>1, <1>3, <1>4, <1>5, <1>6 DEF Asking
<1>8. Yes(done) = Yes(r) /\ Grave(done) = Grave(r)
  BY <1>1, <1>3, <1>4, <1>5, <1>6 DEF Yes, Grave
<1>9. YesSound(done)
  BY <1>1, <1>3, <1>4, <1>5, <1>6, <1>7, <1>8 DEF YesSound, Grave
<1>. QED BY <1>2, <1>4, <1>6, <1>7, <1>8, <1>9 DEF r

(* where a send is when what it waited for has come *)
LEMMA WakesLands ==
    ASSUME ChatIInv, NEW s \in Sends, Wakes(s)
    PROVE  /\ send[s].pc \in {"stream", "backoff", "tool", "redo"}
           /\ UNCHANGED <<settings, left>>
           /\ \E next :
                 /\ Continue(s, next)
                 /\ Lands(send[s], next) \/ next.pc = "over"
                 /\ \/ send[s].live /\ plan' \in Offers \cup {Nothing}
                    \/ next.pc = "over" /\ UNCHANGED plan
                    \/ send[s].pc = "backoff" /\ next = [send[s] EXCEPT !.pc = "stream"]
                       /\ UNCHANGED plan
<1>. DEFINE r == send[s]
<1>1. r \in Send /\ r \in Frame /\ YesSound(r) /\ PlaceSound(r) /\ r.turns < MaxTurns
  BY SendIsFrame DEF ChatIInv, ChatTypeOK, PlaceSound
<1>2. plan \in Offers \cup {Nothing}
  BY DEF ChatIInv, ChatTypeOK
<1>. DEFINE Goal ==
        /\ r.pc \in {"stream", "backoff", "tool", "redo"}
        /\ UNCHANGED <<settings, left>>
        /\ \E next :
              /\ Continue(s, next)
              /\ Lands(r, next) \/ next.pc = "over"
              /\ \/ r.live /\ plan' \in Offers \cup {Nothing}
                 \/ next.pc = "over" /\ UNCHANGED plan
                 \/ r.pc = "backoff" /\ next = [r EXCEPT !.pc = "stream"]
                    /\ UNCHANGED plan
<1>3. ASSUME StreamEnds(s)
      PROVE  Goal
  BY <1>3, OverIsOver DEF StreamEnds
<1>4. ASSUME StreamFails(s)
      PROVE  Goal
  <2>. DEFINE next == [r EXCEPT !.pc = "backoff", !.attempt = @ + 1]
  <2>1. /\ r.pc = "stream" /\ r.live /\ r.attempt < MaxRetries
        /\ Continue(s, next) /\ UNCHANGED <<plan, settings, left>>
    BY <1>4 DEF StreamFails
  <2>2. Lands(r, next)
    <3>. r.attempt + 1 \in 0 .. MaxRetries
      BY <1>1, <2>1, AiChatAssumption DEF Send
    <3>1. /\ next \in Send /\ next.pc = "backoff" /\ next.live = r.live
          /\ next.turns = r.turns /\ next.series = r.series
          /\ next.planned = r.planned /\ next.batch = r.batch
          /\ next.agreed = r.agreed /\ next.misled = r.misled
      BY <1>1, <2>1 DEF Send
    <3>. HIDE DEF next, r
    <3>. QED BY <1>1, <2>1, <3>1 DEF Lands, YesSound, PlaceSound, Asking, Yes, Grave
  <2>. HIDE DEF next, r
  <2>. QED BY <1>2, <2>1, <2>2
<1>5. ASSUME StreamRefusesTools(s)
      PROVE  Goal
  <2>. DEFINE q == [r EXCEPT !.toolless = TRUE]
  <2>1. /\ r.pc = "stream" /\ Continue(s, IF r.live THEN OpenTurn(q) ELSE Over)
        /\ UNCHANGED <<plan, settings, left>>
    BY <1>5 DEF StreamRefusesTools
  <2>2. q \in Frame /\ q.turns = r.turns /\ q.live = r.live /\ q.misled = r.misled
    BY <1>1 DEF Frame
  <2>. HIDE DEF q
  <2>3. Lands(r, OpenTurn(q))
    BY <1>1, <2>2, OpenTurnStep DEF Lands
  <2>. HIDE DEF r
  <2>. QED BY <1>2, <2>1, <2>3, OverIsOver
<1>6. ASSUME BackOffEnds(s)
      PROVE  Goal
  <2>. DEFINE next == [r EXCEPT !.pc = "stream"]
  <2>1. /\ r.pc = "backoff" /\ Continue(s, next) /\ UNCHANGED <<plan, settings, left>>
    BY <1>6 DEF BackOffEnds
  <2>2. Lands(r, next)
    BY <1>1, <2>1 DEF Send, Lands, YesSound, PlaceSound, Asking, Yes, Grave
  <2>. HIDE DEF r
  <2>. QED BY <2>1, <2>2
<1>7. ASSUME NEW tools \in Offers, StreamCalls(s, tools)
      PROVE  Goal
  <2>1. r.pc = "stream" /\ UNCHANGED <<settings, left>> /\ ~ r.batch
    BY <1>1, <1>7 DEF StreamCalls, PlaceSound
  <2>2. CASE r.live /\ mode = "plan"
    BY <1>7, <2>1, <2>2, OverIsOver DEF StreamCalls
  <2>3. CASE r.live /\ mode # "plan"
    <3>1. Continue(s, ExecuteTools(r, tools, FALSE)) /\ UNCHANGED plan
      BY <1>7, <2>3 DEF StreamCalls
    <3>2. Lands(r, ExecuteTools(r, tools, FALSE))
      BY <1>1, <2>1, ExecuteToolsStep
    <3>. HIDE DEF r
    <3>. QED BY <1>2, <2>1, <2>3, <3>1, <3>2
  <2>4. CASE ~ r.live
    BY <1>7, <2>1, <2>4, OverIsOver DEF StreamCalls
  <2>. QED BY <2>2, <2>3, <2>4
<1>8. ASSUME ToolReturns(s)
      PROVE  Goal
  <2>1. r.pc = "tool" /\ ~ r.batch /\ r.at \in Nat /\ UNCHANGED <<plan, settings, left>>
        /\ Continue(s, IF r.live THEN ExecuteFrom(Done(s), r.at + 1) ELSE Over)
    BY <1>1, <1>8 DEF ToolReturns, PlaceSound, Send
  <2>2. Lands(r, ExecuteFrom(Done(s), r.at + 1))
    BY <1>1, <2>1, DoneStep, ExecuteFromStep DEF Lands
  <2>. HIDE DEF r
  <2>. QED BY <1>2, <2>1, <2>2, OverIsOver
<1>9. ASSUME ConfirmedReturns(s)
      PROVE  Goal
  <2>1. r.pc = "redo" /\ UNCHANGED <<plan, settings, left>>
        /\ Continue(s, IF r.live THEN Confirm(Done(s), Covered(r)) ELSE Over)
    BY <1>9 DEF ConfirmedReturns
  <2>2. Covered(r) \subseteq DOMAIN r.series /\ Covered(r) \cap Grave(r) \subseteq Yes(r)
    BY <1>1 DEF Covered, Asking, YesSound
  <2>3. Lands(r, Confirm(Done(s), Covered(r)))
    BY <1>1, <2>1, <2>2, DoneStep, ConfirmStep DEF Lands
  <2>. HIDE DEF r
  <2>. QED BY <1>2, <2>1, <2>3, OverIsOver
<1>. QED BY <1>3, <1>4, <1>5, <1>6, <1>7, <1>8, <1>9 DEF Wakes

LEMMA WakesStep ==
    ASSUME ChatIInv, NEW s \in Sends, Wakes(s)
    PROVE  ChatIInv'
<1>1. PICK next :
        /\ Continue(s, next)
        /\ Lands(send[s], next) \/ next.pc = "over"
        /\ \/ send[s].live /\ plan' \in Offers \cup {Nothing}
           \/ next.pc = "over" /\ UNCHANGED plan
           \/ send[s].pc = "backoff" /\ next = [send[s] EXCEPT !.pc = "stream"]
              /\ UNCHANGED plan
  BY WakesLands
<1>2. send[s].pc # "ask" /\ UNCHANGED <<settings, left>>
  BY WakesLands
<1>3. plan' \in Offers \cup {Nothing}
  BY <1>1 DEF ChatIInv, ChatTypeOK
<1>4. next.pc = "ask" => send[s].live
  BY <1>1 DEF ChatIInv, ChatTypeOK, Send
<1>. QED BY <1>1, <1>2, <1>3, <1>4, ContinueStep

(* a send begins, with or without a plan *)
LEMMA BeginStep ==
    ASSUME ChatIInv, NEW s \in Sends, SendMessage(s) \/ ApprovePlan(s)
    PROVE  ChatIInv'
<1>. DEFINE r == [Idle EXCEPT !.live = TRUE, !.auto = auto]
<1>1. r \in Frame /\ r.live /\ r.turns = 0 /\ ~ r.batch
  BY Blank DEF ChatIInv, ChatTypeOK, Idle, Frame
<1>2. CASE SendMessage(s)
  <2>. DEFINE q == [OpenTurn(Idle) EXCEPT !.live = TRUE, !.auto = auto]
  <2>1. /\ q \in Send /\ q.pc = "stream" /\ q.turns = 0 /\ q.series = <<>>
        /\ ~ q.planned /\ ~ q.batch /\ q.misled = {}
    BY Blank DEF ChatIInv, ChatTypeOK, Idle, OpenTurn, Send
  <2>2. /\ send' = [send EXCEPT ![s] = q] /\ send[s].pc = "idle" /\ loading' \in BOOLEAN
        /\ UNCHANGED <<resolver, mode, restore, plan, auto, batchOn, permission, changes, left>>
    BY <1>2 DEF SendMessage, settings
  <2>. HIDE DEF q
  <2>3. YesSound(q) /\ PlaceSound(q)
    BY <2>1, AiChatAssumption DEF YesSound, PlaceSound, Grave, Asking
  <2>4. ChatTypeOK' /\ \A t \in Sends : YesSound(send'[t]) /\ PlaceSound(send'[t])
    BY <2>1, <2>2, <2>3 DEF ChatIInv, ChatTypeOK
  <2>5. AnswersReachTheAsker'
    BY <2>2 DEF ChatIInv, ChatTypeOK, AnswersReachTheAsker
  <2>. QED BY <2>4, <2>5 DEF ChatIInv, YesSound, PlaceSound, Asking, Yes, Grave
<1>3. CASE ApprovePlan(s)
  <2>. DEFINE q == ExecuteTools(r, plan, TRUE)
  <2>1. /\ send' = [send EXCEPT ![s] = q] /\ send[s].pc = "idle" /\ loading' \in BOOLEAN
        /\ plan # Nothing /\ plan' = Nothing /\ restore' = mode /\ mode' = "act"
        /\ UNCHANGED <<resolver, auto, batchOn, permission, changes, left>>
    BY <1>3 DEF ApprovePlan, TakePlan, settings
  <2>2. plan \in Offers
    BY <2>1 DEF ChatIInv, ChatTypeOK
  <2>. HIDE DEF r
  <2>3. r.turns < MaxTurns /\ r.turns + 1 < MaxTurns
    BY <1>1, AiChatAssumption
  <2>4. Lands(r, q)
    BY <1>1, <2>2, <2>3, ExecuteToolsStep
  <2>5. q \in Send /\ YesSound(q) /\ PlaceSound(q)
    BY <2>3, <2>4 DEF Lands
  <2>. HIDE DEF q
  <2>6. ChatTypeOK' /\ \A t \in Sends : YesSound(send'[t]) /\ PlaceSound(send'[t])
    BY <2>1, <2>5 DEF ChatIInv, ChatTypeOK
  <2>7. AnswersReachTheAsker'
    BY <2>1 DEF ChatIInv, ChatTypeOK, AnswersReachTheAsker
  <2>. QED BY <2>6, <2>7 DEF ChatIInv, YesSound, PlaceSound, Asking, Yes, Grave
<1>. QED BY <1>2, <1>3

(* a yes, on the card of the send that asks or on another *)
LEMMA AgreeStep ==
    ASSUME ChatIInv, NEW own \in BOOLEAN, NEW all \in BOOLEAN, Agree(own, all)
    PROVE  /\ ChatIInv'
           /\ \/ Finish(resolver)
              \/ \E next \in Send :
                    /\ send' = [send EXCEPT ![resolver] = next] /\ UNCHANGED loading
                    /\ own => next.misled \subseteq send[resolver].misled
<1>. DEFINE s == resolver
            r == send[s]
            whole == all \/ batchOn
            yes == IF whole THEN Asking(r) ELSE {r.at}
            agreed == IF own THEN r.agreed \cup (yes \cap Grave(r)) ELSE r.agreed
            misled == IF own THEN r.misled ELSE r.misled \cup (yes \cap Grave(r))
            q == [r EXCEPT !.batch = whole, !.agreed = agreed, !.misled = misled]
            next == Confirm(q, yes)
<1>1. /\ s \in Sends /\ r \in Frame /\ YesSound(r) /\ r.turns < MaxTurns
      /\ r.live /\ r.at \in Asking(r) /\ batchOn \in BOOLEAN
      /\ r.series \in Seq(Call)
  BY SendIsFrame DEF Agree, ChatIInv, ChatTypeOK, AnswersReachTheAsker, PlaceSound, Send
<1>2. /\ IF next.pc = "over" THEN Finish(s)
         ELSE /\ send' = [send EXCEPT ![s] = next]
              /\ resolver' = IF next.pc = "ask" THEN s ELSE Nothing
              /\ UNCHANGED <<loading, mode, restore>>
      /\ UNCHANGED <<plan, auto, batchOn, permission, changes, left>>
  BY DEF Agree, settings
<1>. HIDE DEF r
<1>3. yes \subseteq Asking(r) /\ yes \subseteq DOMAIN r.series /\ whole \in BOOLEAN
      /\ (whole => yes = Asking(r)) /\ yes \in SUBSET Nat
  BY <1>1, SeriesOf DEF Asking, Frame
<1>. HIDE DEF yes, whole
<1>4. /\ agreed \in SUBSET Nat /\ misled \in SUBSET Nat
      /\ agreed \cup misled = Yes(r) \cup (yes \cap Grave(r))
      /\ own => misled = r.misled
  BY <1>1, <1>3 DEF Frame, Yes
<1>. HIDE DEF agreed, misled
<1>5. /\ q \in Frame /\ q.series = r.series /\ q.live = r.live /\ q.turns = r.turns
      /\ q.planned = r.planned /\ q.batch = whole /\ q.agreed = agreed /\ q.misled = misled
  BY <1>1, <1>3, <1>4 DEF Frame
<1>6. /\ Asking(q) = Asking(r) /\ Grave(q) = Grave(r)
      /\ yes \cap Grave(q) \subseteq Yes(q) /\ Yes(r) \subseteq Yes(q)
  BY <1>4, <1>5 DEF Asking, Grave, Yes
<1>. HIDE DEF q
<1>7. YesSound(q)
  BY <1>1, <1>3, <1>5, <1>6 DEF YesSound
<1>8. Lands(q, next)
  BY <1>1, <1>3, <1>5, <1>6, <1>7, ConfirmStep
<1>. HIDE DEF next
<1>9. CASE next.pc = "over"
  BY <1>1, <1>2, <1>9, FinishStep DEF settings, ChatIInv, ChatTypeOK
<1>10. CASE next.pc # "over"
  <2>1. /\ next \in Send /\ YesSound(next) /\ PlaceSound(next) /\ next.live
        /\ next.misled \subseteq misled
    BY <1>1, <1>5, <1>8, <1>10 DEF Lands
  <2>2. ChatTypeOK' /\ \A t \in Sends : YesSound(send'[t]) /\ PlaceSound(send'[t])
    BY <1>1, <1>2, <1>10, <2>1 DEF ChatIInv, ChatTypeOK
  <2>3. AnswersReachTheAsker'
    BY <1>1, <1>2, <1>10, <2>1 DEF ChatIInv, ChatTypeOK, AnswersReachTheAsker
  <2>4. own => next.misled \subseteq r.misled
    BY <1>4, <2>1
  <2>. QED BY <1>2, <1>10, <2>1, <2>2, <2>3, <2>4
           DEF ChatIInv, YesSound, PlaceSound, Asking, Yes, Grave, r
<1>. QED BY <1>9, <1>10

LEMMA StopStep ==
    ASSUME ChatIInv, Stop
    PROVE  ChatIInv'
<1>. DEFINE Left(s) == IF s = resolver THEN Idle ELSE [send[s] EXCEPT !.live = FALSE]
<1>1. /\ send' = [s \in Sends |-> Left(s)]
      /\ loading' \in BOOLEAN /\ resolver' = Nothing
      /\ mode' \in {"act", "plan"} /\ restore' \in {"act", "plan", Nothing}
      /\ UNCHANGED <<plan, auto, batchOn, permission, changes>> /\ left' = TRUE
  BY DEF Stop, settings, ChatIInv, ChatTypeOK
<1>2. ASSUME NEW s \in Sends
      PROVE  Left(s) \in Send /\ YesSound(Left(s)) /\ PlaceSound(Left(s))
  <2>. DEFINE q == [send[s] EXCEPT !.live = FALSE]
  <2>1. /\ q \in Send /\ q.pc = send[s].pc /\ q.turns = send[s].turns
        /\ q.series = send[s].series /\ q.at = send[s].at
        /\ q.planned = send[s].planned /\ q.batch = send[s].batch
        /\ q.agreed = send[s].agreed /\ q.misled = send[s].misled
    BY DEF ChatIInv, ChatTypeOK, Send
  <2>2. Left(s) \in {Idle, q}
    OBVIOUS
  <2>3. YesSound(send[s]) /\ PlaceSound(send[s])
    BY DEF ChatIInv
  <2>. HIDE DEF q, Left
  <2>4. YesSound(q) /\ PlaceSound(q)
    BY <2>1, <2>3 DEF YesSound, PlaceSound, Asking, Yes, Grave
  <2>. QED BY <2>1, <2>2, <2>4, IdleSound
<1>. HIDE DEF Left
<1>3. ChatTypeOK' /\ \A s \in Sends : YesSound(send'[s]) /\ PlaceSound(send'[s])
  BY <1>1, <1>2 DEF ChatIInv, ChatTypeOK
<1>4. AnswersReachTheAsker'
  BY <1>1 DEF AnswersReachTheAsker
<1>. QED BY <1>3, <1>4 DEF ChatIInv, YesSound, PlaceSound, Asking, Yes, Grave

(* plans that come to nothing, modes and settings *)
LEMMA SettingSteps ==
    ASSUME ChatIInv,
           \/ ApproveInVain \/ DropPlan \/ TakeUpSession \/ SetAutoApply \/ SetBatchConfirm
           \/ \E m \in {"act", "plan"} : SetMode(m)
           \/ \E t \in Tools, p \in {"allow", "ask", "deny"} : SavePermission(t, p)
    PROVE  ChatIInv'
<1>1. UNCHANGED <<send, loading, resolver>>
  BY DEF ApproveInVain, TakePlan, DropPlan, TakeUpSession, SetAutoApply, SetBatchConfirm,
         SetMode, SavePermission, chat
<1>2. ASSUME ApproveInVain \/ DropPlan \/ TakeUpSession
      PROVE  ChatTypeOK'
  BY <1>1, <1>2 DEF ApproveInVain, TakePlan, DropPlan, TakeUpSession, chat, settings, ChatIInv, ChatTypeOK
<1>3. Change => changes' \in 0 .. MaxChanges
  BY AiChatAssumption DEF Change, ChatIInv, ChatTypeOK
<1>4. ASSUME SetAutoApply \/ SetBatchConfirm \/ \E m \in {"act", "plan"} : SetMode(m)
      PROVE  ChatTypeOK'
  BY <1>1, <1>3, <1>4 DEF SetAutoApply, SetBatchConfirm, SetMode, chat, ChatIInv, ChatTypeOK
<1>5. ASSUME NEW t \in Tools, NEW p \in {"allow", "ask", "deny"}, SavePermission(t, p)
      PROVE  ChatTypeOK'
  BY <1>1, <1>3, <1>5 DEF SavePermission, chat, ChatIInv, ChatTypeOK
<1>6. ChatTypeOK'
  BY <1>2, <1>4, <1>5
<1>. QED BY <1>1, <1>6 DEF ChatIInv, YesSound, PlaceSound, Asking, Yes, Grave,
   AnswersReachTheAsker

LEMMA ChatInitIInv == ChatInit => ChatIInv
<1>. SUFFICES ASSUME ChatInit PROVE ChatIInv
  OBVIOUS
<1>1. \A s \in Sends : send[s] = Idle
  BY DEF ChatInit
<1>2. send \in [Sends -> Send]
  BY IdleSound DEF ChatInit
<1>3. /\ permission \in [Tools -> {"allow", "ask", "deny"}]
      /\ \A t \in HighImpact : permission[t] # "allow"
  BY AiChatAssumption DEF ChatInit
<1>4. changes \in 0 .. MaxChanges
  BY AiChatAssumption DEF ChatInit
<1>5. ChatTypeOK
  BY <1>2, <1>3, <1>4 DEF ChatInit, ChatTypeOK
<1>. QED BY <1>1, <1>5, IdleSound DEF ChatInit, ChatIInv, AnswersReachTheAsker

LEMMA ChatNextIInv == ChatIInv /\ [ChatNext]_chatVars => ChatIInv'
<1>. SUFFICES ASSUME ChatIInv, [ChatNext]_chatVars PROVE ChatIInv'
  OBVIOUS
<1>1. CASE UNCHANGED chatVars
  BY <1>1 DEF chatVars, chat, settings, ChatIInv, ChatTypeOK, YesSound, PlaceSound, Asking,
     Yes, Grave, AnswersReachTheAsker
<1>2. ASSUME Refuse
      PROVE  ChatIInv'
  BY <1>2, FinishStep DEF Refuse, ChatIInv, ChatTypeOK
<1>3. CASE ChatNext
  BY <1>2, <1>3, BeginStep, WakesStep, AgreeStep, StopStep, SettingSteps DEF ChatNext
<1>. QED BY <1>1, <1>3

-----------------------------------------------------------------------------
(* Whose card is clicked *)

(* Until the first Stop, and while no stored session was taken up, there is *)
(* one send at a time, so no other card than its own.                       *)
OneCard ==
    ~ left =>
        /\ \A s \in Sends : send[s].pc # "idle" => loading
        /\ \A s, t \in Sends : send[s].pc # "idle" /\ send[t].pc # "idle" => s = t
        /\ \A s \in Sends : send[s].misled = {}

(* the send that is under way goes on as next *)
LEMMA OneCardGoesOn ==
    ASSUME ChatIInv, OneCard, NEW s \in Sends, send[s].pc # "idle",
           NEW next, send' = [send EXCEPT ![s] = next], UNCHANGED <<loading, left>>,
           ~ left => next.misled \subseteq send[s].misled
    PROVE  OneCard'
BY DEF OneCard, ChatIInv, ChatTypeOK

LEMMA OneCardFinish ==
    ASSUME ChatIInv, OneCard, NEW s \in Sends, send[s].pc # "idle", Finish(s),
           UNCHANGED left
    PROVE  OneCard'
BY IdleSound DEF OneCard, Finish, ChatIInv, ChatTypeOK

LEMMA OneCardBegins ==
    ASSUME ChatIInv, OneCard, NEW s \in Sends, ~ loading, loading' = TRUE,
           NEW next, send' = [send EXCEPT ![s] = next], next.misled = {}, UNCHANGED left
    PROVE  OneCard'
BY DEF OneCard, ChatIInv, ChatTypeOK

LEMMA ChatNextOneCard == ChatIInv /\ OneCard /\ [ChatNext]_chatVars => OneCard'
<1>. SUFFICES ASSUME ChatIInv, OneCard, [ChatNext]_chatVars PROVE OneCard'
  OBVIOUS
<1>1. ASSUME UNCHANGED <<send, loading>>, left' = left \/ left' = TRUE
      PROVE  OneCard'
  BY <1>1 DEF OneCard
<1>2. ASSUME NEW s \in Sends, SendMessage(s)
      PROVE  OneCard'
  <2>. DEFINE q == [OpenTurn(Idle) EXCEPT !.live = TRUE, !.auto = auto]
  <2>1. q.misled = {}
    BY DEF Idle, OpenTurn
  <2>2. ~ loading /\ loading' = TRUE /\ send' = [send EXCEPT ![s] = q] /\ UNCHANGED left
    BY <1>2 DEF SendMessage
  <2>. HIDE DEF q
  <2>. QED BY <2>1, <2>2, OneCardBegins
<1>3. ASSUME NEW s \in Sends, ApprovePlan(s)
      PROVE  OneCard'
  <2>. DEFINE r == [Idle EXCEPT !.live = TRUE, !.auto = auto]
              q == ExecuteTools(r, plan, TRUE)
  <2>1. /\ ~ loading /\ loading' = TRUE /\ send' = [send EXCEPT ![s] = q]
        /\ plan # Nothing /\ UNCHANGED left
    BY <1>3 DEF ApprovePlan, TakePlan
  <2>2. plan \in Offers
    BY <2>1 DEF ChatIInv, ChatTypeOK
  <2>3. r \in Frame /\ r.turns = 0 /\ ~ r.batch /\ r.misled = {}
    BY Blank DEF ChatIInv, ChatTypeOK, Idle, Frame
  <2>. HIDE DEF r
  <2>4. r.turns < MaxTurns /\ r.turns + 1 < MaxTurns
    BY <2>3, AiChatAssumption
  <2>5. Lands(r, q)
    BY <2>2, <2>3, <2>4, ExecuteToolsStep
  <2>6. q.misled = {}
    BY <2>3, <2>4, <2>5 DEF Lands
  <2>. HIDE DEF q
  <2>. QED BY <2>1, <2>6, OneCardBegins
<1>4. ASSUME NEW s \in Sends, Wakes(s)
      PROVE  OneCard'
  <2>1. PICK next : Continue(s, next) /\ (Lands(send[s], next) \/ next.pc = "over")
    BY <1>4, WakesLands
  <2>2. send[s].pc # "idle" /\ UNCHANGED left
    BY <1>4, WakesLands
  <2>3. CASE next.pc = "over"
    BY <2>1, <2>2, <2>3, OneCardFinish DEF Continue
  <2>4. CASE next.pc # "over"
    <3>1. /\ next.misled \subseteq send[s].misled
          /\ send' = [send EXCEPT ![s] = next] /\ UNCHANGED loading
      BY <2>1, <2>4 DEF Continue, Lands
    <3>. QED BY <2>2, <3>1, OneCardGoesOn
  <2>. QED BY <2>3, <2>4
<1>5. ASSUME NEW own \in BOOLEAN, NEW all \in BOOLEAN, Agree(own, all)
      PROVE  OneCard'
  <2>1. resolver \in Sends /\ send[resolver].pc # "idle" /\ UNCHANGED left
    BY <1>5 DEF Agree, ChatIInv, ChatTypeOK, AnswersReachTheAsker
  <2>2. ~ left => own
    BY <1>5, <2>1 DEF Agree, AnotherCard, OneCard
  <2>3. CASE Finish(resolver)
    BY <2>1, <2>3, OneCardFinish
  <2>4. CASE ~ Finish(resolver)
    <3>1. PICK next \in Send :
            /\ send' = [send EXCEPT ![resolver] = next] /\ UNCHANGED loading
            /\ own => next.misled \subseteq send[resolver].misled
      BY <1>5, <2>4, AgreeStep
    <3>. QED BY <2>1, <2>2, <3>1, OneCardGoesOn
  <2>. QED BY <2>3, <2>4
<1>6. ASSUME Refuse
      PROVE  OneCard'
  <2>1. resolver \in Sends /\ send[resolver].pc # "idle" /\ UNCHANGED left
    BY <1>6 DEF Refuse, ChatIInv, ChatTypeOK, AnswersReachTheAsker
  <2>. QED BY <1>6, <2>1, OneCardFinish DEF Refuse
<1>7. ASSUME Stop
      PROVE  OneCard'
  BY <1>7 DEF Stop, OneCard
<1>8. ASSUME \/ ApproveInVain \/ DropPlan \/ TakeUpSession \/ SetAutoApply
             \/ SetBatchConfirm \/ \E m \in {"act", "plan"} : SetMode(m)
             \/ \E t \in Tools, p \in {"allow", "ask", "deny"} : SavePermission(t, p)
      PROVE  UNCHANGED <<send, loading>> /\ (left' = left \/ left' = TRUE)
  BY <1>8 DEF ApproveInVain, TakePlan, DropPlan, TakeUpSession, SetAutoApply,
     SetBatchConfirm, SetMode, SavePermission, chat
<1>9. CASE UNCHANGED chatVars
  BY <1>1, <1>9 DEF chatVars, chat
<1>. QED BY <1>1, <1>2, <1>3, <1>4, <1>5, <1>6, <1>7, <1>8, <1>9 DEF ChatNext

-----------------------------------------------------------------------------
(* What a stopped send does *)

SilentStep ==
    \A s \in Sends : Stopped(s) =>
        /\ Executed(s)' \subseteq Executed(s)
        /\ send'[s].pc = "ask" => send[s].pc = "ask"
        /\ send'[s].pc = "idle" => plan' \in {plan, Nothing}

(* a send that ends, or keeps its series and its place *)
LEMMA SilentSend ==
    ASSUME NEW s \in Sends, Stopped(s),
           \/ send'[s] = Idle /\ plan' \in {plan, Nothing}
           \/ /\ send'[s].series = send[s].series
              /\ send'[s].pc \in {"stream", send[s].pc}
    PROVE  /\ Executed(s)' \subseteq Executed(s)
           /\ send'[s].pc = "ask" => send[s].pc = "ask"
           /\ send'[s].pc = "idle" => plan' \in {plan, Nothing}
BY IdleSound DEF Stopped, Executed

LEMMA ChatNextSilent == ChatIInv /\ [ChatNext]_chatVars => [SilentStep]_chatVars
<1>. SUFFICES ASSUME ChatIInv, ChatNext, NEW s \in Sends, Stopped(s)
              PROVE  \/ send'[s] = Idle /\ plan' \in {plan, Nothing}
                     \/ /\ send'[s].series = send[s].series
                        /\ send'[s].pc \in {"stream", send[s].pc}
  BY SilentSend DEF SilentStep
<1>. DEFINE Kept == send'[s] = send[s]
            Quiet == \/ send'[s] = Idle /\ plan' \in {plan, Nothing}
                     \/ /\ send'[s].series = send[s].series
                        /\ send'[s].pc \in {"stream", send[s].pc}
<1>1. Kept => Quiet
  OBVIOUS
<1>2. send \in [Sends -> Send] /\ send[s].pc # "idle" /\ ~ send[s].live
  BY DEF Stopped, ChatIInv, ChatTypeOK
<1>3. ASSUME NEW t \in Sends, Finish(t), UNCHANGED plan
      PROVE  Quiet
  BY <1>2, <1>3 DEF Finish
<1>4. ASSUME NEW t \in Sends, t # s, NEW next, Continue(t, next)
      PROVE  Kept
  BY <1>2, <1>4 DEF Continue, Finish
<1>5. ASSUME NEW t \in Sends, SendMessage(t) \/ ApprovePlan(t)
      PROVE  Kept
  BY <1>2, <1>5 DEF SendMessage, ApprovePlan
<1>6. ASSUME NEW t \in Sends, Wakes(t)
      PROVE  Quiet
  <2>1. PICK next :
          /\ Continue(t, next)
          /\ \/ send[t].live
             \/ next.pc = "over" /\ UNCHANGED plan
             \/ send[t].pc = "backoff" /\ next = [send[t] EXCEPT !.pc = "stream"]
    BY <1>6, WakesLands
  <2>2. CASE t # s
    BY <1>1, <1>4, <2>1, <2>2
  <2>3. CASE t = s /\ next.pc = "over" /\ UNCHANGED plan
    BY <1>3, <2>1, <2>3 DEF Continue
  <2>4. CASE t = s /\ next = [send[s] EXCEPT !.pc = "stream"]
    <3>1. next.pc = "stream" /\ next.series = send[s].series
      BY <1>2, <2>4 DEF Send
    <3>2. send' = [send EXCEPT ![s] = next]
      BY <2>1, <2>4, <3>1 DEF Continue
    <3>. QED BY <1>2, <3>1, <3>2
  <2>. QED BY <1>2, <2>1, <2>2, <2>3, <2>4
<1>7. ASSUME NEW own \in BOOLEAN, NEW all \in BOOLEAN, Agree(own, all)
      PROVE  Kept
  BY <1>2, <1>7 DEF Agree, Finish, ChatIInv, AnswersReachTheAsker
<1>8. ASSUME Refuse
      PROVE  Quiet
  BY <1>3, <1>8 DEF Refuse, ChatIInv, ChatTypeOK
<1>9. ASSUME Stop
      PROVE  Quiet
  <2>1. send'[s] \in {Idle, [send[s] EXCEPT !.live = FALSE]} /\ UNCHANGED plan
    BY <1>9 DEF Stop
  <2>2. /\ [send[s] EXCEPT !.live = FALSE].series = send[s].series
        /\ [send[s] EXCEPT !.live = FALSE].pc = send[s].pc
    BY <1>2 DEF Send
  <2>. QED BY <2>1, <2>2
<1>10. ASSUME \/ ApproveInVain \/ DropPlan \/ TakeUpSession \/ SetAutoApply \/ SetBatchConfirm
              \/ \E m \in {"act", "plan"} : SetMode(m)
              \/ \E t \in Tools, p \in {"allow", "ask", "deny"} : SavePermission(t, p)
       PROVE  Kept
  BY <1>10 DEF ApproveInVain, TakePlan, DropPlan, TakeUpSession, SetAutoApply,
     SetBatchConfirm, SetMode, SavePermission, chat
<1>. QED BY <1>1, <1>5, <1>6, <1>7, <1>8, <1>9, <1>10 DEF ChatNext

-----------------------------------------------------------------------------
(* The theorems *)

(* Every variable keeps its type in every reachable state, and no tool of   *)
(* high impact is ever allowed for good (permissions.ts, canSavePermission).*)
THEOREM ChatTypeCorrect == ChatSpec => []ChatTypeOK
<1>. ChatIInv => ChatTypeOK
  BY DEF ChatIInv
<1>. QED BY ChatInitIInv, ChatNextIInv, PTL DEF ChatSpec

(* A tool of high impact runs only after a yes of the user to that call, for *)
(* any number of sends and of calls in a series, whatever the user toggles   *)
(* meanwhile; and the yes was on the card of that call as long as no Stop or *)
(* stored session left another one.  confirmAction ignores which card it is. *)
THEOREM HighImpactIsAgreedHolds == ChatSpec => []HighImpactIsAgreed
<1>1. ChatInit => OneCard
  BY DEF ChatInit, OneCard, Idle
<1>2. ChatIInv /\ OneCard => HighImpactIsAgreed
  BY DEF ChatIInv, OneCard, YesSound, Yes, HighImpactIsAgreed, Executed
<1>. QED BY <1>1, <1>2, ChatInitIInv, ChatNextIInv, ChatNextOneCard, PTL DEF ChatSpec

(* The resolver of a confirmation belongs to a send that waits for it and    *)
(* was not stopped, although all sends share it.                             *)
THEOREM AnswersReachTheAskerHolds == ChatSpec => []AnswersReachTheAsker
<1>. ChatIInv => AnswersReachTheAsker
  BY DEF ChatIInv
<1>. QED BY ChatInitIInv, ChatNextIInv, PTL DEF ChatSpec

(* A send that was stopped executes, asks and proposes nothing any more.     *)
THEOREM StoppedIsSilentHolds == ChatSpec => StoppedIsSilent
<1>1. ChatSpec => [][SilentStep]_chatVars
  BY ChatInitIInv, ChatNextIInv, ChatNextSilent, PTL DEF ChatSpec
<1>. QED BY <1>1 DEF StoppedIsSilent, SilentStep
=============================================================================
