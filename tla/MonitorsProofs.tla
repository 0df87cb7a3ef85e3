--------------------------- MODULE MonitorsProofs ---------------------------
(***************************************************************************)
(* What holds of module Monitors for any number of monitors, callbacks and *)
(* requests.  That the webhook is up to date needs to be known of the rows *)
(* that wait in a batch: only one batch is under way, no monitor is in it  *)
(* twice, and the status a row was selected with is the one the table      *)
(* still has.                                                              *)
(***************************************************************************)
EXTENDS Monitors, SequenceTheorems, FiniteSetTheorems, TLAPS

OneBatch ==
    /\ \A b \in Timers : batches[b] # <<>> => running
    /\ \A b, c \in Timers : batches[b] # <<>> /\ batches[c] # <<>> => b = c

(* no monitor is twice in a batch, and no row is older than its status      *)
RowsCurrent ==
    \A b \in Timers : \A i \in 1..Len(batches[b]) :
        LET m == batches[b][i].id IN
        /\ \A j \in 1..Len(batches[b]) : batches[b][j].id = m => j = i
        /\ monitors[m] # None => batches[b][i].last = monitors[m].last

FreshUnused ==
    \A m \in fresh :
        /\ monitors[m] = None
        /\ told[m] = None
        /\ \A b \in Timers : \A i \in 1..Len(batches[b]) : batches[b][i].id # m

IInv ==
    /\ TypeOK
    /\ NoOrphanRuns
    /\ WebhookUpToDate
    /\ OneBatch
    /\ RowsCurrent
    /\ FreshUnused

Tables == [Monitors -> Monitor \cup {None}]

-----------------------------------------------------------------------------
(* Helpers *)

LEMMA IntervalType ==
    ASSUME NEW interval \in Intervals
    PROVE  interval \in Int
<1>. QED BY MonitorsAssumption

LEMMA BatchRows ==
    ASSUME TypeOK, NEW b \in Timers
    PROVE  /\ batches[b] \in Seq(Row)
           /\ \A i \in 1..Len(batches[b]) : batches[b][i] \in Row /\ batches[b][i].id \in Monitors
<1>1. batches[b] \in Seq(Row)
  BY DEF TypeOK
<1>2. \A i \in 1..Len(batches[b]) : batches[b][i] \in Row
  BY <1>1
<1>. QED BY <1>1, <1>2 DEF Row

LEMMA ReservedType ==
    ASSUME NEW rows \in Seq(Row), NEW table \in Tables
    PROVE  /\ Reserved(rows, table) \in Tables
           /\ \A m \in Monitors :
                /\ table[m] = None <=> Reserved(rows, table)[m] = None
                /\ table[m] # None => Reserved(rows, table)[m].last = table[m].last
<1>1. CASE rows = <<>> \/ table[Head(rows).id] = None
  BY <1>1 DEF Reserved
<1>2. CASE rows # <<>> /\ table[Head(rows).id] # None
  <2>. DEFINE h == Head(rows)
              new == [table[h.id] EXCEPT !.due = h.interval]
  <2>1. h \in Row
    BY <1>2
  <2>2. h.id \in Monitors /\ h.interval \in Int
    <3>1. h.id \in Monitors /\ h.interval \in Intervals
      BY <2>1 DEF Row
    <3>. HIDE DEF h
    <3>. QED BY <3>1, IntervalType
  <2>3. Reserved(rows, table) = [table EXCEPT ![h.id] = new]
    BY <1>2 DEF Reserved
  <2>4. table[h.id] \in Monitor
    BY <1>2, <2>2 DEF Tables
  <2>5. new \in Monitor /\ new.last = table[h.id].last
    BY <2>2, <2>4 DEF Monitor
  <2>6. new # None
    BY <2>5, NoneAssumption
  <2>7. table[h.id] # None
    BY <1>2
  <2>. HIDE DEF h, new
  <2>. QED BY <2>2, <2>3, <2>4, <2>5, <2>6, <2>7 DEF Tables
<1>. QED BY <1>1, <1>2

LEMMA RecordedType ==
    ASSUME NEW m \in Monitors, runs \in [Monitors -> 0..MaxRunsKept]
    PROVE  /\ Recorded(m) \in [Monitors -> 0..MaxRunsKept]
           /\ \A x \in Monitors \ {m} : Recorded(m)[x] = runs[x]
<1>. DEFINE new == IF runs[m] < MaxRunsKept THEN runs[m] + 1 ELSE runs[m]
<1>1. new \in 0..MaxRunsKept
  BY MonitorsAssumption
<1>2. Recorded(m) = [runs EXCEPT ![m] = new]
  BY DEF Recorded
<1>. HIDE DEF new
<1>. QED BY <1>1, <1>2

(* a row that EndPatch writes *)
LEMMA PatchedType ==
    ASSUME NEW row \in Monitor, NEW p \in Patch
    PROVE  /\ Patched(row, p).enabled \in BOOLEAN
           /\ Patched(row, p).interval \in Intervals
           /\ Patched(row, p).definition \in Definition
           /\ Patched(row, p).due \in Int
<1>. DEFINE d == IF Redefines(p) THEN Merged(row.definition, p) ELSE row.definition
            interval == IF p.interval = None THEN (IF Redefines(p) THEN d ELSE row).interval
                        ELSE p.interval
            enabled == IF p.enabled = None THEN (IF Redefines(p) THEN d ELSE row).enabled
                       ELSE p.enabled
<1>1. /\ row.definition \in Definition /\ row.enabled \in BOOLEAN
      /\ row.interval \in Intervals /\ row.due \in Int
  BY DEF Monitor
<1>2. /\ p.enabled = None \/ p.enabled \in BOOLEAN
      /\ p.interval = None \/ p.interval \in Intervals
      /\ p.hook = None \/ p.hook \in BOOLEAN
  BY DEF Patch
<1>3. Merged(row.definition, p) \in Definition
  BY <1>1, <1>2 DEF Merged, Given, Definition
<1>4. d \in Definition /\ d.enabled \in BOOLEAN /\ d.interval \in Intervals
  BY <1>1, <1>3 DEF Definition
<1>5. interval \in Intervals
  BY <1>1, <1>2, <1>4
<1>6. enabled \in BOOLEAN
  BY <1>1, <1>2, <1>4
<1>7. interval \in Int
  BY <1>5, IntervalType
<1>8. /\ Patched(row, p).enabled = enabled
      /\ Patched(row, p).interval = interval
      /\ Patched(row, p).definition = d
      /\ Patched(row, p).due \in {interval, row.due}
  BY DEF Patched, Given
<1>. HIDE DEF d, interval, enabled
<1>. QED BY <1>1, <1>4, <1>5, <1>6, <1>7, <1>8

-----------------------------------------------------------------------------
(* Steps *)

LEMMA CreateInv ==
    ASSUME IInv, NEW m \in Monitors, NEW d \in Definition, Create(m, d)
    PROVE  IInv'
<1>. DEFINE new == [enabled |-> d.enabled, interval |-> d.interval, definition |-> d,
                    due |-> d.interval, last |-> None]
<1>1. /\ TypeOK /\ NoOrphanRuns /\ WebhookUpToDate /\ OneBatch /\ RowsCurrent /\ FreshUnused
  BY DEF IInv
<1>2. new \in Monitor /\ new # None /\ new.last = None
  <2>1. d.enabled \in BOOLEAN /\ d.interval \in Intervals /\ d.interval \in Int
    <3>1. d.enabled \in BOOLEAN /\ d.interval \in Intervals
      BY DEF Definition
    <3>. QED BY <3>1, IntervalType
  <2>2. new \in Monitor
    BY <2>1 DEF Monitor
  <2>. QED BY <2>2, NoneAssumption
<1>3. /\ monitors' = [monitors EXCEPT ![m] = new]
      /\ m \in fresh /\ fresh' = fresh \ {m}
      /\ UNCHANGED <<runs, batches, running, requests, told, patches>>
  BY DEF Create
<1>. HIDE DEF new
<1>4. TypeOK'
  BY <1>1, <1>2, <1>3 DEF TypeOK
<1>5. NoOrphanRuns' /\ WebhookUpToDate' /\ OneBatch'
  BY <1>1, <1>2, <1>3 DEF TypeOK, NoOrphanRuns, WebhookUpToDate, OneBatch, FreshUnused
<1>6. \A b \in Timers : \A i \in 1..Len(batches[b]) : batches[b][i].id # m
  BY <1>1, <1>3 DEF FreshUnused
<1>7. RowsCurrent'
  BY <1>1, <1>3, <1>6 DEF TypeOK, RowsCurrent
<1>8. FreshUnused'
  BY <1>1, <1>3 DEF TypeOK, FreshUnused
<1>. QED BY <1>4, <1>5, <1>7, <1>8 DEF IInv

(* handlers that write the row of one monitor, or delete it, and keep last  *)
LEMMA RowWriteInv ==
    ASSUME IInv,
           monitors' \in Tables,
           \A m \in Monitors :
               /\ monitors[m] = None => monitors'[m] = None
               /\ monitors'[m] # None => monitors'[m].last = monitors[m].last
               /\ runs'[m] = IF monitors'[m] = None THEN 0 ELSE runs[m]
               /\ told'[m] \in {None, told[m]},
           runs' \in [Monitors -> 0..MaxRunsKept],
           told' \in [Monitors -> Statuses \cup {None}],
           requests' \in [Slots -> Request \cup {None}],
           UNCHANGED <<batches, running, fresh, patches>>
    PROVE  IInv'
<1>1. /\ TypeOK /\ NoOrphanRuns /\ WebhookUpToDate /\ OneBatch /\ RowsCurrent /\ FreshUnused
  BY DEF IInv
<1>2. TypeOK'
  BY <1>1 DEF TypeOK, Tables
<1>3. NoOrphanRuns' /\ WebhookUpToDate' /\ OneBatch'
  BY <1>1 DEF NoOrphanRuns, WebhookUpToDate, OneBatch
<1>4. ASSUME NEW b \in Timers, NEW i \in 1..Len(batches[b])
      PROVE  batches[b][i].id \in Monitors
  BY <1>1, BatchRows
<1>5. RowsCurrent'
  BY <1>1, <1>4 DEF RowsCurrent
<1>6. FreshUnused'
  BY <1>1 DEF FreshUnused, TypeOK
<1>. QED BY <1>2, <1>3, <1>5, <1>6 DEF IInv

LEMMA EndPatchInv ==
    ASSUME IInv, NEW s \in Slots, NEW p \in Patch, EndPatch(s, p)
    PROVE  IInv'
<1>. DEFINE m == requests[s].id
            q == Patched(requests[s].row, p)
            new == [enabled |-> q.enabled, interval |-> q.interval,
                    definition |-> q.definition, due |-> q.due, last |-> monitors[m].last]
<1>1. TypeOK /\ NoOrphanRuns
  BY DEF IInv
<1>2. requests[s] \in Request /\ m \in Monitors /\ requests[s].row \in Monitor
  BY <1>1 DEF EndPatch, TypeOK, Request
<1>3. /\ monitors' = IF monitors[m] = None THEN monitors ELSE [monitors EXCEPT ![m] = new]
      /\ requests' = [requests EXCEPT ![s] = None]
      /\ UNCHANGED <<runs, batches, running, told, fresh, patches>>
  BY DEF EndPatch
<1>4. /\ q.enabled \in BOOLEAN /\ q.interval \in Intervals
      /\ q.definition \in Definition /\ q.due \in Int
  BY <1>1, <1>2, PatchedType DEF TypeOK
<1>. HIDE DEF q
<1>5. ASSUME monitors[m] # None PROVE new \in Monitor /\ new.last = monitors[m].last
  <2>1. monitors[m].last \in Statuses \cup {None}
    BY <1>1, <1>2, <1>5 DEF TypeOK, Monitor
  <2>. HIDE DEF m
  <2>. QED BY <1>4, <2>1 DEF Monitor
<1>. HIDE DEF m, new
<1>6. monitors' \in Tables
  BY <1>1, <1>2, <1>3, <1>5 DEF TypeOK, Tables
<1>7. \A x \in Monitors :
        /\ monitors[x] = None => monitors'[x] = None
        /\ monitors'[x] # None => monitors'[x].last = monitors[x].last
        /\ monitors'[x] = None => monitors[x] = None
  BY <1>1, <1>2, <1>3, <1>5, NoneAssumption DEF TypeOK
<1>8. \A x \in Monitors : runs'[x] = IF monitors'[x] = None THEN 0 ELSE runs[x]
  BY <1>1, <1>3, <1>7 DEF NoOrphanRuns
<1>9. /\ runs' \in [Monitors -> 0..MaxRunsKept] /\ requests' \in [Slots -> Request \cup {None}]
      /\ told' \in [Monitors -> Statuses \cup {None}] /\ \A x \in Monitors : told'[x] = told[x]
  BY <1>1, <1>3 DEF TypeOK
<1>. QED BY <1>3, <1>6, <1>7, <1>8, <1>9, RowWriteInv

LEMMA DeleteInv ==
    ASSUME IInv, NEW m \in Monitors, Delete(m)
    PROVE  IInv'
<1>1. TypeOK /\ NoOrphanRuns
  BY DEF IInv
<1>2. /\ monitors' = [monitors EXCEPT ![m] = None]
      /\ runs' = [runs EXCEPT ![m] = 0]
      /\ told' = [told EXCEPT ![m] = None]
      /\ UNCHANGED <<batches, running, requests, fresh, patches>>
  BY DEF Delete
<1>3. monitors' \in Tables
  BY <1>1, <1>2 DEF TypeOK, Tables
<1>4. \A x \in Monitors :
        /\ monitors[x] = None => monitors'[x] = None
        /\ monitors'[x] # None => monitors'[x].last = monitors[x].last
        /\ runs'[x] = IF monitors'[x] = None THEN 0 ELSE runs[x]
        /\ told'[x] \in {None, told[x]}
  BY <1>1, <1>2 DEF TypeOK, NoOrphanRuns
<1>5. /\ runs' \in [Monitors -> 0..MaxRunsKept]
      /\ told' \in [Monitors -> Statuses \cup {None}]
      /\ requests' \in [Slots -> Request \cup {None}]
  BY <1>1, <1>2, MonitorsAssumption DEF TypeOK
<1>. QED BY <1>2, <1>3, <1>4, <1>5, RowWriteInv

LEMMA ImageIsFinite ==
    ASSUME NEW S, IsFiniteSet(S), NEW f, f \in [S -> {f[x] : x \in S}]
    PROVE  IsFiniteSet({f[x] : x \in S})
<1>. DEFINE T == {f[x] : x \in S}
<1>1. f \in Surjection(S, T)
  BY DEF Surjection
<1>. QED BY <1>1, FS_Surjection

(* next_run_at in a relative form stays a number *)
LEMMA AgedType ==
    ASSUME TypeOK, NEW due \in Int
    PROVE  Aged(due) \in Int
<1>. DEFINE stored == {x \in Monitors : monitors[x] # None}
            waiting == {x \in Slots : requests[x] # None}
            f == [m \in stored |-> monitors[m].due]
            g == [s \in waiting |-> requests[s].row.due]
            later == {d \in Dues : due < d /\ d =< 1}
<1>1. IsFiniteSet(stored) /\ IsFiniteSet(waiting)
  BY FiniteAssumption, FS_Subset
<1>2. IsFiniteSet({f[m] : m \in stored}) /\ IsFiniteSet({g[s] : s \in waiting})
  <2>0. /\ f \in [stored -> {f[m] : m \in stored}]
        /\ g \in [waiting -> {g[s] : s \in waiting}]
    OBVIOUS
  <2>. HIDE DEF f, g, stored, waiting
  <2>1. IsFiniteSet({f[m] : m \in stored})
    BY <1>1, <2>0, ImageIsFinite
  <2>2. IsFiniteSet({g[s] : s \in waiting})
    BY <1>1, <2>0, ImageIsFinite
  <2>. QED BY <2>1, <2>2
<1>3. Dues = {f[m] : m \in stored} \cup {g[s] : s \in waiting}
  BY DEF Dues
<1>4. IsFiniteSet(Dues)
  <2>. HIDE DEF f, g, stored, waiting
  <2>. QED BY <1>2, <1>3, FS_Union
<1>5. Cardinality(later) \in Nat
  <2>1. IsFiniteSet(later)
    BY <1>4, FS_Subset
  <2>. HIDE DEF later
  <2>. QED BY <2>1, FS_CardinalityType
<1>6. Aged(due) = IF due > 0 THEN due - 1 ELSE - Cardinality(later)
  BY DEF Aged
<1>. HIDE DEF later
<1>. QED BY <1>5, <1>6

LEMMA TickInv ==
    ASSUME IInv, Tick
    PROVE  IInv'
<1>. DEFINE aged(row) == [row EXCEPT !.due = Aged(@)]
<1>1. TypeOK /\ NoOrphanRuns
  BY DEF IInv
<1>2. ASSUME NEW row \in Monitor
      PROVE  aged(row) \in Monitor /\ aged(row).last = row.last
  <2>1. row.due \in Int
    BY DEF Monitor
  <2>2. Aged(row.due) \in Int
    BY <1>1, <2>1, AgedType
  <2>. QED BY <2>2 DEF Monitor
<1>3. ASSUME NEW m \in Monitors, monitors[m] # None
      PROVE  /\ monitors[m] \in Monitor /\ monitors'[m] = aged(monitors[m])
  BY <1>1, <1>3 DEF TypeOK, Tick
<1>4. ASSUME NEW s \in Slots, requests[s] # None
      PROVE  /\ requests[s].row \in Monitor /\ requests[s] \in Request
             /\ requests'[s] = [requests[s] EXCEPT !.row = aged(requests[s].row)]
  BY <1>1, <1>4 DEF TypeOK, Request, Tick
<1>. HIDE DEF aged
<1>5. ASSUME NEW m \in Monitors
      PROVE  /\ monitors'[m] \in Monitor \cup {None}
             /\ monitors'[m] = None <=> monitors[m] = None
             /\ monitors'[m] # None => monitors'[m].last = monitors[m].last
  <2>1. CASE monitors[m] = None
    BY <2>1 DEF Tick
  <2>2. CASE monitors[m] # None
    BY <2>2, <1>2, <1>3, NoneAssumption
  <2>. QED BY <2>1, <2>2
<1>6. monitors' \in Tables
  BY <1>5 DEF Tables, Tick
<1>7. ASSUME NEW s \in Slots PROVE requests'[s] \in Request \cup {None}
  <2>1. CASE requests[s] = None
    BY <2>1 DEF Tick
  <2>2. CASE requests[s] # None
    <3>1. aged(requests[s].row) \in Monitor
      BY <2>2, <1>2, <1>4
    <3>. QED BY <2>2, <3>1, <1>4 DEF Request
  <2>. QED BY <2>1, <2>2
<1>8. requests' \in [Slots -> Request \cup {None}]
  BY <1>7 DEF Tick
<1>9. UNCHANGED <<runs, batches, running, told, fresh, patches>>
  BY DEF Tick
<1>10. /\ runs' \in [Monitors -> 0..MaxRunsKept] /\ told' \in [Monitors -> Statuses \cup {None}]
       /\ \A m \in Monitors : runs'[m] = IF monitors'[m] = None THEN 0 ELSE runs[m]
  BY <1>1, <1>5, <1>9 DEF TypeOK, NoOrphanRuns
<1>. QED BY <1>5, <1>6, <1>8, <1>9, <1>10, RowWriteInv

LEMMA StartBatchInv ==
    ASSUME IInv, NEW b \in Timers, NEW n \in 1..MaxPerTick, NEW ids \in [1..n -> Monitors],
           StartBatch(b, ids)
    PROVE  IInv'
<1>. DEFINE rows == [i \in 1..n |-> RowOf(ids[i])]
<1>1. /\ TypeOK /\ NoOrphanRuns /\ WebhookUpToDate /\ OneBatch /\ RowsCurrent /\ FreshUnused
  BY DEF IInv
<1>2. n \in Nat /\ Len(ids) = n
  BY MonitorsAssumption
<1>3. /\ ~ running /\ running' = TRUE
      /\ batches' = [batches EXCEPT ![b] = rows]
      /\ monitors' = Reserved(batches'[b], monitors)
      /\ UNCHANGED <<runs, requests, told, fresh, patches>>
  BY <1>2 DEF StartBatch
<1>4. \A i \in 1..n : monitors[ids[i]] # None
  BY <1>2 DEF StartBatch, Selection, Due
<1>5. \A i, j \in 1..n : ids[i] = ids[j] => i = j
  BY <1>2 DEF StartBatch, Selection
<1>6. ASSUME NEW i \in 1..n
      PROVE  /\ rows[i] \in Row /\ rows[i].id = ids[i]
             /\ rows[i].last = monitors[ids[i]].last
  <2>1. ids[i] \in Monitors /\ monitors[ids[i]] \in Monitor
    BY <1>1, <1>4 DEF TypeOK
  <2>2. RowOf(ids[i]) \in Row
    BY <2>1 DEF RowOf, Row, Monitor
  <2>. QED BY <2>2 DEF RowOf
<1>7. rows \in Seq(Row) /\ Len(rows) = n
  BY <1>2, <1>6
<1>8. \A c \in Timers : c # b => batches'[c] = <<>>
  BY <1>1, <1>3 DEF OneBatch, TypeOK
<1>9. batches'[b] = rows /\ batches' \in [Timers -> Seq(Row)]
  <2>. HIDE DEF rows
  <2>. QED BY <1>1, <1>3, <1>7 DEF TypeOK
<1>10. /\ monitors' \in Tables
       /\ \A m \in Monitors :
             /\ monitors[m] = None <=> monitors'[m] = None
             /\ monitors[m] # None => monitors'[m].last = monitors[m].last
  <2>1. monitors \in Tables
    BY <1>1 DEF TypeOK, Tables
  <2>. HIDE DEF rows
  <2>. QED BY <1>3, <1>7, <1>9, <2>1, ReservedType
<1>. HIDE DEF rows
<1>11. TypeOK'
  BY <1>1, <1>3, <1>9, <1>10 DEF TypeOK, Tables
<1>12. NoOrphanRuns' /\ WebhookUpToDate'
  BY <1>1, <1>3, <1>10 DEF NoOrphanRuns, WebhookUpToDate
<1>13. OneBatch'
  BY <1>3, <1>8 DEF OneBatch
<1>14. ASSUME NEW c \in Timers, NEW i \in 1..Len(batches'[c])
       PROVE  c = b /\ i \in 1..n /\ batches'[c] = rows
  BY <1>7, <1>8, <1>9
<1>15. RowsCurrent'
  BY <1>4, <1>5, <1>6, <1>7, <1>10, <1>14 DEF RowsCurrent
<1>16. FreshUnused'
  <2>1. \A m \in fresh : m \in Monitors /\ monitors[m] = None /\ told[m] = None
    BY <1>1 DEF FreshUnused, TypeOK
  <2>. QED BY <1>3, <1>4, <1>6, <1>10, <1>14, <2>1 DEF FreshUnused
<1>. QED BY <1>11, <1>12, <1>13, <1>15, <1>16 DEF IInv

LEMMA EndRunInv ==
    ASSUME IInv, NEW b \in Timers, NEW status \in Statuses, EndRun(b, status)
    PROVE  IInv'
<1>. DEFINE row == Head(batches[b])
            rest == Tail(batches[b])
            m == row.id
            table == [monitors EXCEPT ![m] = [@ EXCEPT !.last = status]]
<1>1. /\ TypeOK /\ NoOrphanRuns /\ WebhookUpToDate /\ OneBatch /\ RowsCurrent /\ FreshUnused
  BY DEF IInv
<1>2. /\ batches[b] # <<>> /\ monitors[m] # None
      /\ runs' = Recorded(m)
      /\ told' = ToldAfter(row, status)
      /\ batches' = [batches EXCEPT ![b] = rest]
      /\ running' = (rest # <<>>)
      /\ monitors' = Reserved(rest, table)
      /\ UNCHANGED <<requests, fresh, patches>>
  BY DEF EndRun
<1>3. /\ batches[b] \in Seq(Row) /\ Len(batches[b]) \in Nat \ {0}
      /\ 1 \in 1..Len(batches[b]) /\ row = batches[b][1]
      /\ row \in Row /\ m \in Monitors
  <2>1. batches[b] \in Seq(Row) /\ Len(batches[b]) \in Nat \ {0} /\ row = batches[b][1]
    BY <1>1, <1>2 DEF TypeOK
  <2>2. 1 \in 1..Len(batches[b])
    BY <2>1
  <2>. QED BY <1>1, <2>1, <2>2, BatchRows
<1>4. /\ rest \in Seq(Row) /\ Len(rest) = Len(batches[b]) - 1
      /\ \A i \in 1..Len(rest) : rest[i] = batches[b][i + 1] /\ i + 1 \in 1..Len(batches[b])
  <2>. DEFINE all == batches[b]
  <2>1. all \in Seq(Row) /\ all # <<>> /\ rest = Tail(all) /\ Len(all) \in Nat \ {0}
    BY <1>2, <1>3
  <2>. HIDE DEF all, rest
  <2>2. rest \in Seq(Row) /\ Len(rest) = Len(all) - 1
    BY <2>1
  <2>3. ASSUME NEW i \in 1..Len(rest)
        PROVE  rest[i] = all[i + 1] /\ i + 1 \in 1..Len(all)
    BY <2>1, <2>2
  <2>. QED BY <2>2, <2>3 DEF all
<1>5. row.last = monitors[m].last
  BY <1>1, <1>2, <1>3 DEF RowsCurrent
<1>6. \A i \in 1..Len(rest) :
        /\ rest[i].id \in Monitors /\ rest[i].id # m
        /\ \A j \in 1..Len(rest) : rest[j].id = rest[i].id => j = i
        /\ monitors[rest[i].id] # None => rest[i].last = monitors[rest[i].id].last
  <2>1. ASSUME NEW i \in 1..Len(rest)
        PROVE  /\ i + 1 \in 1..Len(batches[b]) /\ rest[i] = batches[b][i + 1]
               /\ i + 1 # 1
               /\ \A j \in 1..Len(rest) : j + 1 = i + 1 => j = i
    BY <1>3, <1>4
  <2>2. ASSUME NEW i \in 1..Len(rest) PROVE rest[i].id \in Monitors
    BY <1>1, <2>1, BatchRows
  <2>3. ASSUME NEW i \in 1..Len(batches[b])
        PROVE  /\ \A j \in 1..Len(batches[b]) : batches[b][j].id = batches[b][i].id => j = i
               /\ monitors[batches[b][i].id] # None =>
                     batches[b][i].last = monitors[batches[b][i].id].last
    BY <1>1 DEF RowsCurrent
  <2>4. m = batches[b][1].id
    BY <1>3
  <2>. HIDE DEF rest, row, m
  <2>5. ASSUME NEW i \in 1..Len(rest)
        PROVE  /\ rest[i].id # m
               /\ monitors[rest[i].id] # None => rest[i].last = monitors[rest[i].id].last
    <3>. DEFINE all == batches[b]
    <3>1. /\ i + 1 \in 1..Len(all) /\ 1 \in 1..Len(all) /\ i + 1 # 1
          /\ rest[i] = all[i + 1] /\ m = all[1].id
      BY <1>3, <2>1, <2>4
    <3>2. all[1].id = all[i + 1].id => 1 = i + 1
      BY <2>3, <3>1
    <3>3. monitors[all[i + 1].id] # None => all[i + 1].last = monitors[all[i + 1].id].last
      BY <2>3, <3>1
    <3>. HIDE DEF all
    <3>. QED BY <3>1, <3>2, <3>3
  <2>6. ASSUME NEW i \in 1..Len(rest), NEW j \in 1..Len(rest), rest[j].id = rest[i].id
        PROVE  j = i
    <3>1. batches[b][j + 1].id = batches[b][i + 1].id
      BY <2>1, <2>6
    <3>. QED BY <2>1, <2>3, <3>1
  <2>. QED BY <2>2, <2>5, <2>6
<1>7. \A c \in Timers : c # b => batches[c] = <<>> /\ batches'[c] = <<>>
  BY <1>1, <1>2 DEF OneBatch, TypeOK
<1>8. batches'[b] = rest /\ batches' \in [Timers -> Seq(Row)]
  <2>. HIDE DEF rest
  <2>. QED BY <1>1, <1>2, <1>4 DEF TypeOK
<1>9. /\ table \in Tables
      /\ table[m] # None /\ table[m].last = status
      /\ \A x \in Monitors \ {m} : table[x] = monitors[x]
  <2>1. monitors[m] \in Monitor /\ monitors \in Tables
    BY <1>1, <1>2, <1>3 DEF TypeOK, Tables
  <2>. DEFINE new == [monitors[m] EXCEPT !.last = status]
  <2>2. new \in Monitor /\ new.last = status
    BY <2>1 DEF Monitor
  <2>3. new # None
    BY <2>2, NoneAssumption
  <2>4. table = [monitors EXCEPT ![m] = new]
    OBVIOUS
  <2>. HIDE DEF new, table, m
  <2>. QED BY <1>3, <2>1, <2>2, <2>3, <2>4 DEF Tables
<1>. HIDE DEF table
<1>10. /\ monitors' \in Tables
       /\ \A x \in Monitors : monitors[x] = None <=> monitors'[x] = None
       /\ monitors'[m].last = status
       /\ \A x \in Monitors \ {m} : monitors[x] # None => monitors'[x].last = monitors[x].last
  <2>. HIDE DEF m, rest
  <2>. QED BY <1>2, <1>3, <1>4, <1>9, ReservedType
<1>11. /\ told' \in [Monitors -> Statuses \cup {None}]
       /\ told'[m] \in {None, status}
       /\ \A x \in Monitors \ {m} : told'[x] = told[x]
  <2>1. told \in [Monitors -> Statuses \cup {None}]
    BY <1>1 DEF TypeOK
  <2>2. told[m] = None \/ told[m] = monitors[m].last
    BY <1>1, <1>2, <1>3 DEF WebhookUpToDate
  <2>. DEFINE new == IF Alerts(row, status) THEN status
                     ELSE IF row.definition.hook THEN told[m] ELSE None
  <2>3. told' = [told EXCEPT ![m] = new]
    BY <1>2 DEF ToldAfter
  <2>4. new \in {None, status}
    BY <1>5, <2>2 DEF Alerts
  <2>. HIDE DEF new, m
  <2>. QED BY <1>3, <2>1, <2>3, <2>4
<1>12. /\ runs' \in [Monitors -> 0..MaxRunsKept]
       /\ \A x \in Monitors \ {m} : runs'[x] = runs[x]
  <2>. HIDE DEF m
  <2>. QED BY <1>1, <1>2, <1>3, RecordedType DEF TypeOK
<1>. HIDE DEF row, rest, m
<1>13. TypeOK'
  BY <1>1, <1>2, <1>8, <1>10, <1>11, <1>12 DEF TypeOK, Tables
<1>14. NoOrphanRuns'
  BY <1>1, <1>2, <1>10, <1>12 DEF NoOrphanRuns
<1>15. WebhookUpToDate'
  BY <1>1, <1>10, <1>11 DEF WebhookUpToDate
<1>16. OneBatch'
  BY <1>2, <1>7, <1>8 DEF OneBatch
<1>17. ASSUME NEW c \in Timers, NEW i \in 1..Len(batches'[c])
       PROVE  c = b /\ i \in 1..Len(rest) /\ batches'[c] = rest
  BY <1>7, <1>8
<1>18. RowsCurrent'
  BY <1>6, <1>10, <1>17 DEF RowsCurrent
<1>19. FreshUnused'
  <2>1. \A x \in fresh : x \in Monitors /\ x # m /\ monitors[x] = None /\ told[x] = None
    BY <1>1, <1>2 DEF FreshUnused, TypeOK
  <2>2. ASSUME NEW x \in fresh, NEW i \in 1..Len(rest) PROVE rest[i].id # x
    BY <1>1, <1>4 DEF FreshUnused
  <2>. QED BY <1>2, <1>10, <1>11, <1>17, <2>1, <2>2 DEF FreshUnused
<1>. QED BY <1>13, <1>14, <1>15, <1>16, <1>18, <1>19 DEF IInv

(* the process ends, with or without a run that was just recorded           *)
LEMMA ForgottenInv ==
    ASSUME IInv, Forgotten, UNCHANGED <<monitors, told, fresh, patches>>,
           runs' \in [Monitors -> 0..MaxRunsKept],
           \A m \in Monitors : monitors[m] = None => runs'[m] = runs[m]
    PROVE  IInv'
<1>1. /\ TypeOK /\ NoOrphanRuns /\ WebhookUpToDate /\ FreshUnused
  BY DEF IInv
<1>2. /\ batches' = [b \in Timers |-> <<>>] /\ running' = FALSE
      /\ requests' = [s \in Slots |-> None]
  BY DEF Forgotten
<1>3. TypeOK'
  <2>1. batches' \in [Timers -> Seq(Row)] /\ running' \in BOOLEAN
    <3>1. <<>> \in Seq(Row)
      OBVIOUS
    <3>. QED BY <1>2, <3>1, Zenon
  <2>2. requests' \in [Slots -> Request \cup {None}]
    BY <1>2
  <2>3. /\ monitors' \in [Monitors -> Monitor \cup {None}]
        /\ told' \in [Monitors -> Statuses \cup {None}]
        /\ fresh' \in SUBSET Monitors /\ patches' \in 0..MaxPatches
    BY <1>1 DEF TypeOK
  <2>. QED BY <2>1, <2>2, <2>3 DEF TypeOK
<1>4. NoOrphanRuns' /\ WebhookUpToDate' /\ OneBatch'
  BY <1>1, <1>2 DEF NoOrphanRuns, WebhookUpToDate, OneBatch
<1>5. RowsCurrent' /\ FreshUnused'
  BY <1>1, <1>2 DEF RowsCurrent, FreshUnused
<1>. QED BY <1>3, <1>4, <1>5 DEF IInv

LEMMA DieRecordingInv ==
    ASSUME IInv, NEW b \in Timers, DieRecording(b)
    PROVE  IInv'
<1>. DEFINE m == Head(batches[b]).id
<1>1. TypeOK /\ batches[b] # <<>> /\ monitors[m] # None /\ Forgotten
      /\ runs' = Recorded(m)
      /\ UNCHANGED <<monitors, told, fresh, patches>>
  BY DEF IInv, DieRecording
<1>2. m \in Monitors
  <2>1. Head(batches[b]) \in Row
    BY <1>1 DEF TypeOK
  <2>. QED BY <2>1 DEF Row
<1>. HIDE DEF m
<1>3. /\ runs' \in [Monitors -> 0..MaxRunsKept]
      /\ \A x \in Monitors \ {m} : runs'[x] = runs[x]
  BY <1>1, <1>2, RecordedType DEF TypeOK
<1>. QED BY <1>1, <1>3, ForgottenInv

(* steps that leave tables and batches alone                                *)
LEMMA QuietInv ==
    ASSUME IInv, UNCHANGED <<tables, batches, running>>,
           patches' \in 0..MaxPatches,
           requests' \in [Slots -> Request \cup {None}]
    PROVE  IInv'
<1>1. /\ TypeOK /\ NoOrphanRuns /\ WebhookUpToDate /\ OneBatch /\ RowsCurrent /\ FreshUnused
  BY DEF IInv
<1>2. TypeOK'
  BY <1>1 DEF TypeOK, tables
<1>3. NoOrphanRuns' /\ WebhookUpToDate' /\ OneBatch' /\ RowsCurrent' /\ FreshUnused'
  BY <1>1 DEF NoOrphanRuns, WebhookUpToDate, OneBatch, RowsCurrent, FreshUnused, tables
<1>. QED BY <1>2, <1>3 DEF IInv

LEMMA BeginPatchInv ==
    ASSUME IInv, NEW s \in Slots, NEW m \in Monitors, BeginPatch(s, m)
    PROVE  IInv'
<1>1. TypeOK
  BY DEF IInv
<1>2. patches + 1 \in 0..MaxPatches
  BY <1>1, MonitorsAssumption DEF TypeOK, BeginPatch
<1>3. [id |-> m, row |-> [monitors[m] EXCEPT !.last = None]] \in Request
  <2>1. monitors[m] \in Monitor
    BY <1>1 DEF TypeOK, BeginPatch
  <2>2. [monitors[m] EXCEPT !.last = None] \in Monitor
    BY <2>1 DEF Monitor
  <2>. QED BY <2>2 DEF Request
<1>4. requests' \in [Slots -> Request \cup {None}]
  BY <1>1, <1>3 DEF TypeOK, BeginPatch
<1>. QED BY <1>2, <1>4, QuietInv DEF BeginPatch, tables

-----------------------------------------------------------------------------
LEMMA InitInv == Init => IInv
<1>. SUFFICES ASSUME Init PROVE IInv
  OBVIOUS
<1>1. TypeOK
  <2>1. batches \in [Timers -> Seq(Row)] /\ running \in BOOLEAN
    <3>1. <<>> \in Seq(Row)
      OBVIOUS
    <3>. QED BY <3>1, Zenon DEF Init
  <2>2. runs \in [Monitors -> 0..MaxRunsKept]
    BY MonitorsAssumption DEF Init
  <2>3. /\ requests \in [Slots -> Request \cup {None}]
        /\ told \in [Monitors -> Statuses \cup {None}]
        /\ monitors \in [Monitors -> Monitor \cup {None}]
    BY DEF Init
  <2>4. patches \in 0..MaxPatches /\ fresh \in SUBSET Monitors
    BY MonitorsAssumption DEF Init
  <2>. QED BY <2>1, <2>2, <2>3, <2>4 DEF TypeOK
<1>2. NoOrphanRuns /\ WebhookUpToDate /\ OneBatch /\ RowsCurrent /\ FreshUnused
  BY DEF Init, NoOrphanRuns, WebhookUpToDate, OneBatch, RowsCurrent, FreshUnused
<1>. QED BY <1>1, <1>2 DEF IInv

LEMMA NextInv == IInv /\ [Next]_vars => IInv'
<1>. SUFFICES ASSUME IInv, [Next]_vars PROVE IInv'
  OBVIOUS
<1>0. TypeOK
  BY DEF IInv
<1>1. ASSUME NEW b \in Timers, Schedule(b) PROVE IInv'
  BY <1>1, StartBatchInv DEF Schedule
<1>2. ASSUME NEW s \in Slots, AbortPatch(s) PROVE IInv'
  <2>1. /\ UNCHANGED <<tables, batches, running, patches>>
        /\ requests' = [requests EXCEPT ![s] = None]
    BY <1>2 DEF AbortPatch
  <2>2. /\ patches' \in 0..MaxPatches
        /\ requests' \in [Slots -> Request \cup {None}]
    BY <1>0, <2>1 DEF TypeOK
  <2>. QED BY <2>1, <2>2, QuietInv
<1>3. ASSUME Restart \/ \E b \in Timers : FailRun(b) PROVE IInv'
  <2>1. Forgotten /\ UNCHANGED <<tables, patches>>
    BY <1>3 DEF Restart, FailRun
  <2>2. /\ runs' \in [Monitors -> 0..MaxRunsKept]
        /\ \A m \in Monitors : runs'[m] = runs[m]
    BY <1>0, <2>1 DEF TypeOK, tables
  <2>. QED BY <2>1, <2>2, ForgottenInv DEF tables
<1>4. CASE UNCHANGED vars
  <2>1. /\ patches' \in 0..MaxPatches
        /\ requests' \in [Slots -> Request \cup {None}]
    BY <1>0, <1>4 DEF TypeOK, vars
  <2>. QED BY <1>4, <2>1, QuietInv DEF vars, tables
<1>. QED BY <1>1, <1>2, <1>3, <1>4, CreateInv, BeginPatchInv, DeleteInv, EndPatchInv,
            EndRunInv, DieRecordingInv, TickInv, InputAssumption DEF Next

LEMMA Invariance == Spec => []IInv
<1>. QED BY InitInv, NextInv, PTL DEF Spec

(* Tables, batches and requests stay well-typed, and no more than           *)
(* MaxRunsKept runs of a monitor are kept.                                  *)
THEOREM TypeCorrect == Spec => []TypeOK
<1>1. IInv => TypeOK
  BY DEF IInv
<1>. QED BY <1>1, Invariance, PTL

(* A deleted monitor leaves no runs, not even the one that was under way.   *)
THEOREM NoOrphanRunsHolds == Spec => []NoOrphanRuns
<1>1. IInv => NoOrphanRuns
  BY DEF IInv
<1>. QED BY <1>1, Invariance, PTL

(* While a monitor runs with its webhook, the webhook knows its status,     *)
(* whatever patches, deletions and restarts happen while runs are under     *)
(* way.                                                                     *)
THEOREM WebhookUpToDateHolds == Spec => []WebhookUpToDate
<1>1. IInv => WebhookUpToDate
  BY DEF IInv
<1>. QED BY <1>1, Invariance, PTL
=============================================================================
