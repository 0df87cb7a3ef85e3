-------------------------- MODULE BrowserMonitors --------------------------
(***************************************************************************)
(* The monitors that run inside the web application (hooks/use-monitors.ts)*)
(* in several tabs of one browser.  Every page that shows the monitors has *)
(* its own list, schedule and runs in flight; the list is kept in          *)
(* localStorage, whose storage event tells the other pages.  One tab is to *)
(* be the leader that schedules (lib/monitors/tab-lock.ts): a record in    *)
(* the persistence layer, refreshed by a heartbeat, that anybody may take  *)
(* over once it is 15 s old.                                               *)
(*                                                                         *)
(* Reads of the persistence layer are answered by a cache each tab fills   *)
(* when it starts (lib/persistence.ts, getItem), so the record is modelled *)
(* twice: shared, and as each tab has it.  IndexedDB and localStorage hold *)
(* the same record and are one storage here.  The age of a record is fresh *)
(* or stale.  History, alerts and the evaluation of checks are left out.   *)
(***************************************************************************)
EXTENDS Naturals

CONSTANTS
    Tabs,           \* tabs of the browser
    Monitors,       \* monitor ids
    MaxAttempts,    \* MAX_ATTEMPTS
    Throttled,      \* whether the timers of a page may be late by STALE_MS
    Gone,           \* the tab id of a tab that was closed
    None

ASSUME BrowserMonitorsAssumption ==
    /\ MaxAttempts \in Nat \ {0}
    /\ Throttled \in BOOLEAN
    /\ Gone \notin Tabs
    /\ None \notin BOOLEAN \cup Nat \cup [tab : Tabs \cup {Gone}, stale : BOOLEAN]

VARIABLES
    open,       \* tabs whose script runs
    page,       \* those that show the monitors (the hook is mounted)
    hidden,     \* those that are in the background (document.hidden)
    leader,     \* the shared record under LEADER_KEY
    cache,      \* the record as each tab has it in memory
    removing,   \* tabs whose removeItem has not reached localStorage yet
    leading,    \* isLeader of each page
    stored,     \* the list in localStorage: monitor -> enabled, or None
    list,       \* the list of each page (monitorsRef)
    news,       \* pages with a storage event to come
    due,        \* nextRunAt of each page: never planned, or passed
    runs        \* inFlightRef of each page: the attempt a run is at, or None

election == <<leader, cache, removing, leading>>
schedule == <<due, runs>>
lists == <<stored, list, news>>
vars == <<open, page, hidden, election, lists, schedule>>

Record == [tab : Tabs \cup {Gone}, stale : BOOLEAN]
List == [Monitors -> BOOLEAN \cup {None}]

TypeOK ==
    /\ open \subseteq Tabs
    /\ page \subseteq open /\ hidden \subseteq page
    /\ leader \in Record \cup {None}
    /\ cache \in [Tabs -> Record \cup {None}]
    /\ removing \subseteq open
    /\ leading \in [Tabs -> BOOLEAN]
    /\ stored \in List /\ list \in [Tabs -> List]
    /\ news \subseteq page
    /\ due \in [Tabs -> [Monitors -> BOOLEAN]]
    /\ runs \in [Tabs -> [Monitors -> 1 .. MaxAttempts \cup {None}]]

Init ==
    /\ open = {} /\ page = {} /\ hidden = {} /\ removing = {} /\ news = {}
    /\ leader = None
    /\ cache = [t \in Tabs |-> None]
    /\ leading = [t \in Tabs |-> FALSE]
    /\ stored = [m \in Monitors |-> None]
    /\ list = [t \in Tabs |-> stored]
    /\ due = [t \in Tabs |-> [m \in Monitors |-> TRUE]]
    /\ runs = [t \in Tabs |-> [m \in Monitors |-> None]]

-----------------------------------------------------------------------------
(* The lock *)

(* read(): the cache of the tab first, localStorage only when it has none *)
Known(t) == IF cache[t] # None THEN cache[t] ELSE leader

(* mutant: a record of somebody else stands whatever its age *)
FreeForever(t) == Known(t) = None \/ Known(t).tab = t

Free(t) ==
    \/ Known(t) = None
    \/ Known(t).tab = t
    \/ Known(t).stale

(* acquireLeadership and refreshLeadership come to the same *)
Compete(t) ==
    IF Free(t)
    THEN LET mine == [tab |-> t, stale |-> FALSE] IN
         /\ leader' = mine
         /\ cache' = [cache EXCEPT ![t] = mine]
         /\ leading' = [leading EXCEPT ![t] = TRUE]
    ELSE /\ leading' = [leading EXCEPT ![t] = FALSE]
         /\ UNCHANGED <<leader, cache>>

(* the interval of LEADER_HEARTBEAT_MS *)
Heartbeat(t) ==
    /\ t \in page
    /\ Compete(t)
    /\ UNCHANGED <<open, page, hidden, removing, lists, schedule>>

(* STALE_MS pass without a refresh of the shared record: its page is gone,  *)
(* or its timers are held back ...                                          *)
Abandoned == leader # None /\ leader.tab \notin page

AgeShared ==
    /\ leader # None
    /\ Abandoned \/ Throttled
    /\ leader' = [leader EXCEPT !.stale = TRUE]
    /\ UNCHANGED <<open, page, hidden, cache, removing, leading, lists, schedule>>

(* ... or of the copy of another tab's record, which nothing refreshes *)
AgeCached(t) ==
    /\ cache[t] # None /\ cache[t].tab # t
    /\ cache' = [cache EXCEPT ![t].stale = TRUE]
    /\ UNCHANGED <<open, page, hidden, leader, removing, leading, lists, schedule>>

(* removeItem: localStorage is cleared after the await of IndexedDB,        *)
(* whoever has written the record by then                                   *)
EndRemove(t) ==
    /\ t \in removing
    /\ removing' = removing \ {t}
    /\ leader' = None
    /\ UNCHANGED <<open, page, hidden, cache, leading, lists, schedule>>

-----------------------------------------------------------------------------
(* Tabs and pages *)

OpenTab(t) ==
    /\ t \notin open
    /\ open' = open \cup {t}
    /\ cache' = [cache EXCEPT ![t] = leader]
    /\ UNCHANGED <<page, hidden, leader, removing, leading, lists, schedule>>

(* what a page loses when it goes away *)
Forgotten(t) ==
    /\ page' = page \ {t}
    /\ hidden' = hidden \ {t}
    /\ news' = news \ {t}
    /\ leading' = [leading EXCEPT ![t] = FALSE]
    /\ list' = [list EXCEPT ![t] = [m \in Monitors |-> None]]
    /\ due' = [due EXCEPT ![t] = [m \in Monitors |-> TRUE]]
    /\ runs' = [runs EXCEPT ![t] = [m \in Monitors |-> None]]

(* the tab is closed or crashes: no cleanup runs, and the tab id is not     *)
(* used again                                                               *)
CloseTab(t) ==
    LET Disowned(r) == IF r # None /\ r.tab = t THEN [r EXCEPT !.tab = Gone] ELSE r
    IN  /\ t \in open
        /\ open' = open \ {t}
        /\ removing' = removing \ {t}
        /\ leader' = Disowned(leader)
        /\ cache' = [u \in Tabs |-> IF u = t THEN None ELSE Disowned(cache[u])]
        /\ Forgotten(t)
        /\ UNCHANGED stored

(* the user navigates to the monitors: the effects load and compete *)
Mount(t) ==
    /\ t \in open \ page
    /\ page' = page \cup {t}
    /\ list' = [list EXCEPT ![t] = stored]
    /\ Compete(t)
    /\ UNCHANGED <<open, hidden, removing, stored, news, schedule>>

(* ... and away: releaseLeadership.  Runs under way go on, but the page     *)
(* that is mounted next knows nothing of them.                              *)
Unmount(t) ==
    /\ t \in page
    /\ Forgotten(t)
    /\ IF Known(t) # None /\ Known(t).tab = t
       THEN cache' = [cache EXCEPT ![t] = None] /\ removing' = removing \cup {t}
       ELSE UNCHANGED <<cache, removing>>
    /\ UNCHANGED <<open, leader, stored>>

Hide(t) ==
    /\ t \in page \ hidden
    /\ hidden' = hidden \cup {t}
    /\ UNCHANGED <<open, page, election, lists, schedule>>

Show(t) ==
    /\ t \in hidden
    /\ hidden' = hidden \ {t}
    /\ UNCHANGED <<open, page, election, lists, schedule>>

-----------------------------------------------------------------------------
(* The list *)

(* commitMonitors, and nextRunAt of the monitor forgotten *)
Commit(t, m, enabled) ==
    /\ t \in page
    /\ list' = [list EXCEPT ![t][m] = enabled]
    /\ stored' = list'[t]
    /\ news' = news \cup (page \ {t})
    /\ due' = [due EXCEPT ![t][m] = TRUE]
    /\ UNCHANGED <<open, page, hidden, election, runs>>

AddMonitor(t, m) == list[t][m] = None /\ Commit(t, m, TRUE)
UpdateMonitor(t, m) == list[t][m] # None /\ Commit(t, m, ~ list[t][m])
RemoveMonitor(t, m) == list[t][m] # None /\ Commit(t, m, None)

(* onStorage: what localStorage holds by now *)
StorageEvent(t) ==
    /\ t \in news
    /\ news' = news \ {t}
    /\ list' = [list EXCEPT ![t] = stored]
    /\ UNCHANGED <<open, page, hidden, election, stored, schedule>>

-----------------------------------------------------------------------------
(* Runs *)

Enabled(t, m) == list[t][m] = TRUE

(* overdue and not in flight *)
Startable(t) == {m \in Monitors : Enabled(t, m) /\ due[t][m] /\ runs[t][m] = None}

(* the scheduler of SCHEDULER_TICK_MS, for all monitors of the page *)
Tick(t) ==
    /\ t \in page \ hidden
    /\ leading[t]
    /\ Startable(t) # {}
    /\ due' = [due EXCEPT ![t] = [m \in Monitors |-> due[t][m] /\ m \notin Startable(t)]]
    /\ runs' = [runs EXCEPT ![t] =
                  [m \in Monitors |-> IF m \in Startable(t) THEN 1 ELSE runs[t][m]]]
    /\ UNCHANGED <<open, page, hidden, election, lists>>

(* intervalSec later *)
Elapse(t, m) ==
    /\ ~ due[t][m]
    /\ due' = [due EXCEPT ![t][m] = TRUE]
    /\ UNCHANGED <<open, page, hidden, election, lists, runs>>

(* the button: any page may, and joins a run that is in flight *)
RunNow(t, m) ==
    /\ t \in page
    /\ list[t][m] # None
    /\ runs[t][m] = None
    /\ runs' = [runs EXCEPT ![t][m] = 1]
    /\ UNCHANGED <<open, page, hidden, election, lists, due>>

(* a failed attempt is made again after RETRY_DELAY_MS ... *)
Retry(t, m) ==
    /\ runs[t][m] # None /\ runs[t][m] < MaxAttempts
    /\ runs' = [runs EXCEPT ![t][m] = @ + 1]
    /\ UNCHANGED <<open, page, hidden, election, lists, due>>

(* mutant: only a verdict takes the run out of inFlightRef, and the last    *)
(* attempt has none when the network fails                                  *)
EndRunOnVerdict(t, m) ==
    /\ runs[t][m] # None /\ runs[t][m] < MaxAttempts
    /\ runs' = [runs EXCEPT ![t][m] = None]
    /\ UNCHANGED <<open, page, hidden, election, lists, due>>

(* ... the verdict of the last one, a pass, and an error of the network end *)
(* the run (finally)                                                        *)
EndRun(t, m) ==
    /\ runs[t][m] # None
    /\ runs' = [runs EXCEPT ![t][m] = None]
    /\ UNCHANGED <<open, page, hidden, election, lists, due>>

-----------------------------------------------------------------------------
Next ==
    \/ AgeShared
    \/ \E t \in Tabs :
          \/ Heartbeat(t) \/ AgeCached(t) \/ EndRemove(t)
          \/ OpenTab(t) \/ CloseTab(t) \/ Mount(t) \/ Unmount(t)
          \/ Hide(t) \/ Show(t)
          \/ StorageEvent(t)
          \/ Tick(t)
          \/ \E m \in Monitors :
                \/ AddMonitor(t, m) \/ UpdateMonitor(t, m) \/ RemoveMonitor(t, m)
                \/ Elapse(t, m) \/ RunNow(t, m) \/ Retry(t, m) \/ EndRun(t, m)

Spec == Init /\ [][Next]_vars

(* Timers fire, time passes and requests end (they have time limits); what  *)
(* the user does is not promised, nor that an attempt fails.                *)
Fairness ==
    /\ WF_vars(Abandoned /\ AgeShared)
    /\ \A t \in Tabs :
        /\ WF_vars(Heartbeat(t)) /\ WF_vars(AgeCached(t)) /\ WF_vars(EndRemove(t))
        /\ WF_vars(StorageEvent(t))
        /\ WF_vars(Tick(t))
        /\ \A m \in Monitors : WF_vars(Elapse(t, m)) /\ WF_vars(EndRun(t, m))

FairSpec == Spec /\ Fairness

-----------------------------------------------------------------------------
(* Properties *)

(* tab-lock.ts: "reprise automatique par un autre onglet".  Whatever tabs   *)
(* are opened, closed without cleanup or navigated away meanwhile, as long  *)
(* as some page stays there is a leader again and again.                    *)
LeaderReturns ==
    \A t \in Tabs :
        <>[](t \in page) => []<>(\E u \in page : leading[u])

(* a run of m begins, planned or by hand *)
Started(m) == \E u \in Tabs : runs[u][m] = None /\ runs'[u][m] # None

(* A monitor that stays enabled on a page is run again and again, there or  *)
(* on another page, once the user leaves pages and list as they are and no  *)
(* page is in the background: a leader that is hidden runs nothing.         *)
StaysWatched ==
    \A t \in Tabs, m \in Monitors :
        /\ <>[](t \in page /\ hidden = {} /\ Enabled(t, m))
        /\ <>[][UNCHANGED <<page, stored>>]_vars
        => []<><<Started(m)>>_vars
=============================================================================
