------------------------------ MODULE Monitors ------------------------------
(***************************************************************************)
(* Monitors of the sync server: the scheduler of monitors-runner.ts, the   *)
(* tables it writes and the handlers of routes/monitors.ts.                *)
(*                                                                         *)
(* The server is one thread; code between two awaits is one step.          *)
(* runDueMonitors awaits the answers of the monitored requests, PATCH the  *)
(* body of its own request: everything else may happen in between.  Each   *)
(* SQL statement commits by itself, so the process can also die between    *)
(* recording a run and recording its status.                               *)
(*                                                                         *)
(* Time has no end: next_run_at is kept as the time that is left until     *)
(* then, and of what is overdue only the order, which is all the scheduler *)
(* looks at.                                                               *)
(***************************************************************************)
EXTENDS Integers, Sequences, FiniteSets

CONSTANTS
    Monitors,       \* monitor ids, UUIDs that are never drawn twice
    Intervals,      \* interval_sec
    Definitions,    \* the definitions a POST brings
    Patches,        \* what a PATCH brings
    Statuses,       \* what a run can end with
    Timers,         \* scheduler callbacks that could overlap
    Slots,          \* bound: PATCH requests waiting for their body
    MaxPerTick,     \* MAX_MONITORS_PER_TICK
    MaxRunsKept,    \* MAX_RUNS_KEPT
    MaxPatches,     \* bound on the PATCH requests ever made
    None            \* no monitor, no status, no request, field not given

ASSUME MonitorsAssumption ==
    /\ Intervals \subseteq Nat \ {0}
    /\ "pass" \in Statuses
    /\ MaxPerTick \in Nat \ {0}
    /\ MaxRunsKept \in Nat \ {0}
    /\ MaxPatches \in Nat

VARIABLES
    monitors,       \* table monitors
    runs,           \* runs[m]: how many rows of m table monitor_runs holds
    batches,        \* batches[b]: rows selected by callback b and not yet run;
                    \* the requests of the first one are out
    running,        \* the flag of monitors-runner.ts
    requests,       \* requests[s]: the PATCH that waits, and the row it read
    told,           \* told[m]: history, the status sendWebhook was last called
                    \* with for m, in a stretch of runs that all had a webhook
    fresh,          \* the ids nobody has drawn yet
    patches         \* the PATCH requests made so far

tables == <<monitors, runs, told, fresh>>
vars == <<monitors, runs, batches, running, requests, told, fresh, patches>>

(* the JSON column: of its contents, what scheduler and handlers look at    *)
Definition == [enabled : BOOLEAN, interval : Intervals, hook : BOOLEAN]

(* enabled and interval are columns too, and can differ from definition     *)
Monitor == [enabled : BOOLEAN, interval : Intervals, definition : Definition,
            due : Int, last : Statuses \cup {None}]

Row == [id : Monitors, definition : Definition, interval : Intervals,
        last : Statuses \cup {None}]

(* the fields a PATCH may give; content: requests or checks                 *)
Patch == [enabled : BOOLEAN \cup {None}, interval : Intervals \cup {None},
          hook : BOOLEAN \cup {None}, content : BOOLEAN]

Request == [id : Monitors, row : Monitor]

ASSUME FiniteAssumption == IsFiniteSet(Monitors) /\ IsFiniteSet(Slots)

ASSUME InputAssumption == Definitions \subseteq Definition /\ Patches \subseteq Patch

ASSUME NoneAssumption ==
    /\ None \notin Statuses
    /\ None \notin BOOLEAN
    /\ None \notin Intervals
    /\ None \notin Monitor \cup Request

TypeOK ==
    /\ monitors \in [Monitors -> Monitor \cup {None}]
    /\ runs \in [Monitors -> 0..MaxRunsKept]
    /\ batches \in [Timers -> Seq(Row)]
    /\ running \in BOOLEAN
    /\ requests \in [Slots -> Request \cup {None}]
    /\ told \in [Monitors -> Statuses \cup {None}]
    /\ fresh \in SUBSET Monitors
    /\ patches \in 0..MaxPatches

Init ==
    /\ monitors = [m \in Monitors |-> None]
    /\ runs = [m \in Monitors |-> 0]
    /\ batches = [b \in Timers |-> <<>>]
    /\ running = FALSE
    /\ requests = [s \in Slots |-> None]
    /\ told = [m \in Monitors |-> None]
    /\ fresh = Monitors
    /\ patches = 0

-----------------------------------------------------------------------------
(* Handlers *)

Create(m, d) ==
    /\ m \in fresh
    /\ fresh' = fresh \ {m}
    /\ monitors' = [monitors EXCEPT ![m] =
          [enabled |-> d.enabled, interval |-> d.interval, definition |-> d,
           due |-> d.interval, last |-> None]]
    /\ UNCHANGED <<runs, batches, running, requests, told, patches>>

(* PATCH /:id up to the body: the row it will work on is read here (and of  *)
(* that row last_status is not used)                                        *)
BeginPatch(s, m) ==
    /\ patches < MaxPatches
    /\ patches' = patches + 1
    /\ monitors[m] # None
    /\ requests[s] = None
    /\ requests' = [requests EXCEPT ![s] = [id |-> m, row |-> [monitors[m] EXCEPT !.last = None]]]
    /\ UNCHANGED <<batches, running, tables>>

Given(field, default) == IF field = None THEN default ELSE field

(* the patch laid over the JSON column, which also overrides the columns    *)
Merged(d, p) ==
    [enabled |-> Given(p.enabled, d.enabled),
     interval |-> Given(p.interval, d.interval),
     hook |-> Given(p.hook, d.hook)]

Redefines(p) == p.content \/ p.hook # None

(* the row that PATCH p makes of the row it read                            *)
Patched(row, p) ==
    LET d == IF Redefines(p) THEN Merged(row.definition, p) ELSE row.definition
        base == IF Redefines(p) THEN d ELSE row
        interval == Given(p.interval, base.interval)
    IN  [enabled |-> Given(p.enabled, base.enabled),
         interval |-> interval,
         definition |-> d,
         due |-> IF Redefines(p) \/ p.interval # None THEN interval ELSE row.due]

(* The UPDATE does not write last_status; it finds no row when the monitor  *)
(* was deleted meanwhile.                                                   *)
EndPatch(s, p) ==
    /\ requests[s] # None
    /\ requests' = [requests EXCEPT ![s] = None]
    /\ LET m == requests[s].id
           q == Patched(requests[s].row, p)
       IN  monitors' = IF monitors[m] = None THEN monitors
                       ELSE [monitors EXCEPT ![m] =
                               [enabled |-> q.enabled, interval |-> q.interval,
                                definition |-> q.definition, due |-> q.due,
                                last |-> monitors[m].last]]
    /\ UNCHANGED <<runs, batches, running, told, fresh, patches>>

(* the body never comes or does not fit the schema                          *)
AbortPatch(s) ==
    /\ requests[s] # None
    /\ requests' = [requests EXCEPT ![s] = None]
    /\ UNCHANGED <<batches, running, tables, patches>>

(* mutant: the runs of the monitor are left                                 *)
DeleteKeepsRuns(m) ==
    /\ monitors[m] # None
    /\ monitors' = [monitors EXCEPT ![m] = None]
    /\ UNCHANGED <<runs, batches, running, requests, told, fresh, patches>>

(* ON DELETE CASCADE takes the runs along                                   *)
Delete(m) ==
    /\ monitors[m] # None
    /\ monitors' = [monitors EXCEPT ![m] = None]
    /\ runs' = [runs EXCEPT ![m] = 0]
    /\ told' = [told EXCEPT ![m] = None]
    /\ UNCHANGED <<batches, running, requests, fresh, patches>>

-----------------------------------------------------------------------------
(* Scheduler *)

Due(m) ==
    /\ monitors[m] # None
    /\ monitors[m].enabled
    /\ monitors[m].due =< 0

RowOf(m) ==
    [id |-> m, definition |-> monitors[m].definition,
     interval |-> monitors[m].interval, last |-> monitors[m].last]

(* mutant: LIMIT without an ORDER BY                                        *)
SelectionUnordered(ids) ==
    LET n == Len(ids) IN
    /\ n =< MaxPerTick
    /\ \A i \in 1..n : Due(ids[i])
    /\ \A i, j \in 1..n : i < j => ids[i] # ids[j]
    /\ \A m \in Monitors : Due(m) /\ (\A i \in 1..n : ids[i] # m) => n = MaxPerTick

(* ORDER BY next_run_at LIMIT MaxPerTick, equal times in any order          *)
Selection(ids) ==
    LET n == Len(ids) IN
    /\ n =< MaxPerTick
    /\ \A i \in 1..n : Due(ids[i])
    /\ \A i, j \in 1..n : i < j =>
          ids[i] # ids[j] /\ monitors[ids[i]].due =< monitors[ids[j]].due
    /\ \A m \in Monitors : Due(m) /\ (\A i \in 1..n : ids[i] # m) =>
          /\ n = MaxPerTick
          /\ \A i \in 1..n : monitors[ids[i]].due =< monitors[m].due

(* table monitors once the first row of a batch has its next run reserved   *)
Reserved(rows, table) ==
    IF rows = <<>> \/ table[Head(rows).id] = None THEN table
    ELSE [table EXCEPT ![Head(rows).id].due = Head(rows).interval]

(* mutant: a callback does not ask whether a batch is under way             *)
StartBatchAnyway(b, ids) ==
    /\ batches[b] = <<>>
    /\ b = CHOOSE c \in Timers : batches[c] = <<>>
    /\ ids # <<>>
    /\ Selection(ids)
    /\ running' = TRUE
    /\ batches' = [batches EXCEPT ![b] = [i \in 1..Len(ids) |-> RowOf(ids[i])]]
    /\ monitors' = Reserved(batches'[b], monitors)
    /\ UNCHANGED <<runs, requests, told, fresh, patches>>

(* A callback (b only names it, any free name does) finds work, selects it, *)
(* reserves the next run of the first row and sends its first request.      *)
StartBatch(b, ids) ==
    /\ ~ running
    /\ batches[b] = <<>>
    /\ b = CHOOSE c \in Timers : batches[c] = <<>>
    /\ ids # <<>>
    /\ Selection(ids)
    /\ running' = TRUE
    /\ batches' = [batches EXCEPT ![b] = [i \in 1..Len(ids) |-> RowOf(ids[i])]]
    /\ monitors' = Reserved(batches'[b], monitors)
    /\ UNCHANGED <<runs, requests, told, fresh, patches>>

(* one more run, of which the oldest beyond MaxRunsKept are deleted         *)
Recorded(m) == [runs EXCEPT ![m] = IF @ < MaxRunsKept THEN @ + 1 ELSE @]

(* The webhook goes out on a transition.  A monitor that never ran has no   *)
(* status, so that its first run is one.                                    *)
Alerts(row, status) == row.definition.hook /\ row.last # status

ToldAfter(row, status) ==
    [told EXCEPT ![row.id] = IF Alerts(row, status) THEN status
                             ELSE IF row.definition.hook THEN @ ELSE None]

(* The last request of a row is answered or has timed out: run, webhook and *)
(* status are recorded, and the next row is started.                        *)
EndRun(b, status) ==
    /\ batches[b] # <<>>
    /\ LET row == Head(batches[b])
           rest == Tail(batches[b])
       IN  /\ monitors[row.id] # None
           /\ runs' = Recorded(row.id)
           /\ told' = ToldAfter(row, status)
           /\ batches' = [batches EXCEPT ![b] = rest]
           /\ running' = (rest # <<>>)
           /\ monitors' = Reserved(rest, [monitors EXCEPT ![row.id].last = status])
    /\ UNCHANGED <<requests, fresh, patches>>

(* what is in memory is gone                                                *)
Forgotten ==
    /\ batches' = [b \in Timers |-> <<>>]
    /\ running' = FALSE
    /\ requests' = [s \in Slots |-> None]

(* The monitor was deleted while its requests were out: the INSERT into     *)
(* monitor_runs fails on its foreign key, nobody handles the rejection of   *)
(* runDueMonitors, and Node ends the process.                               *)
FailRun(b) ==
    /\ batches[b] # <<>>
    /\ monitors[Head(batches[b]).id] = None
    /\ Forgotten
    /\ UNCHANGED <<tables, patches>>

(* the process is killed after the run was inserted                         *)
DieRecording(b) ==
    /\ batches[b] # <<>>
    /\ monitors[Head(batches[b]).id] # None
    /\ runs' = Recorded(Head(batches[b]).id)
    /\ Forgotten
    /\ UNCHANGED <<monitors, told, fresh, patches>>

Restart ==
    /\ Forgotten
    /\ UNCHANGED <<tables, patches>>

Dues == {monitors[m].due : m \in {x \in Monitors : monitors[x] # None}}
            \cup {requests[s].row.due : s \in {x \in Slots : requests[x] # None}}

(* One unit later: what is overdue keeps its place among all that is.       *)
Aged(due) ==
    IF due > 0 THEN due - 1
    ELSE - Cardinality({d \in Dues : due < d /\ d =< 1})

Tick ==
    /\ monitors' = [m \in Monitors |->
          IF monitors[m] = None THEN None
          ELSE [monitors[m] EXCEPT !.due = Aged(@)]]
    /\ requests' = [s \in Slots |->
          IF requests[s] = None THEN None
          ELSE [requests[s] EXCEPT !.row.due = Aged(@)]]
    /\ UNCHANGED <<runs, batches, running, told, fresh, patches>>

-----------------------------------------------------------------------------
Schedule(b) ==
    \E n \in 1..MaxPerTick : \E ids \in [1..n -> Monitors] : StartBatch(b, ids)

Next ==
    \/ \E m \in Monitors :
          \/ \E d \in Definitions : Create(m, d)
          \/ \E s \in Slots : BeginPatch(s, m)
          \/ Delete(m)
    \/ \E s \in Slots : AbortPatch(s) \/ \E p \in Patches : EndPatch(s, p)
    \/ \E b \in Timers :
          \/ Schedule(b)
          \/ \E status \in Statuses : EndRun(b, status)
          \/ FailRun(b)
          \/ DieRecording(b)
    \/ Restart
    \/ Tick

Spec == Init /\ [][Next]_vars

(* The scheduler fires every 30 seconds, and every request of a run ends:   *)
(* it is aborted after ten seconds.                                         *)
Fairness ==
    /\ WF_vars(\E b \in Timers : Schedule(b))
    /\ WF_vars(\E b \in Timers :
                    FailRun(b) \/ \E status \in Statuses : EndRun(b, status))

FairSpec == Spec /\ Fairness
-----------------------------------------------------------------------------
(* Properties *)

(* monitor_runs refers to monitors with ON DELETE CASCADE: a run that ends  *)
(* after its monitor was deleted leaves nothing behind.                     *)
NoOrphanRuns ==
    \A m \in Monitors : monitors[m] = None => runs[m] = 0

(* "Webhook sur transition uniquement": as long as a monitor runs with its  *)
(* webhook, the status it was last sent is the status of the monitor, so    *)
(* that silence means that nothing has changed.  The comparison is made     *)
(* with the status read when the batch was selected, several awaits         *)
(* earlier.                                                                 *)
WebhookUpToDate ==
    \A m \in Monitors :
        monitors[m] # None /\ told[m] # None => told[m] = monitors[m].last

(* What is due gets its turn: it is started and its next run reserved (or   *)
(* it is disabled, deleted or rescheduled).  More can be due for ever than  *)
(* the MaxPerTick of one batch, batches fail and the server restarts.       *)
DueIsRun == \A m \in Monitors : Due(m) ~> ~ Due(m)
=============================================================================
