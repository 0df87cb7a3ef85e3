----------------------------- MODULE SyncPaging -----------------------------
(***************************************************************************)
(* A pull reads the changes of a workspace page by page: queryChanges of   *)
(* sync-server/src/sync-engine.ts with its keyset cursor, and the loop     *)
(* around it in pollAllSyncChanges and pullAndMerge of the client.  Rows   *)
(* are pushed between the pages.                                           *)
(*                                                                         *)
(* Which rows are in the workspace does not change (module SyncServer), so *)
(* the three tables are one set of ids here.                               *)
(***************************************************************************)
EXTENDS Integers, FiniteSets

CONSTANTS
    Ids,            \* ids of rows, in their order
    Polls,          \* pulls that run at the same time
    PageLimit,      \* POLL_PAGE_LIMIT_DEFAULT
    MaxTime,        \* bound: the clock of the server
    MaxSkew,        \* bound: how far a clock of a client is ahead
    MaxWrites,      \* bound: rows pushed
    MaxPulls,       \* bound: pulls started
    Nothing         \* no row, no copy, no pull, no cursor

VARIABLES
    now,            \* the clock of the server
    rows,           \* the rows of the workspace
    late,           \* rows last written at a time some pull had got past
    since,          \* syncCursors of the workspace
    copy,           \* updatedAt of the entities of the client
    polls,          \* the pulls under way
    budget          \* how many more rows are pushed and pulls started

pagingVars == <<now, rows, late, since, copy, polls, budget>>

Times == 0..(MaxTime + MaxSkew)
Row == [at : Times, deleted : BOOLEAN]
Version == [id : Ids, at : Times, deleted : BOOLEAN]

(* since: of the request; after: the row the last page ended with; got: the *)
(* list of changes, count its length; time: serverTime of the last page     *)
Pull == [since : Times, after : Version \cup {Nothing}, got : SUBSET Version,
         count : Nat, time : Times, done : BOOLEAN]

ASSUME SyncPagingAssumption ==
    /\ Ids \subseteq Nat
    /\ IsFiniteSet(Ids)
    /\ PageLimit \in Nat \ {0}
    /\ MaxTime \in Nat \ {0}
    /\ MaxSkew \in Nat
    /\ MaxWrites \in Nat
    /\ MaxPulls \in Nat
    /\ Nothing \notin Row \cup Nat \cup Pull \cup Version

PagingTypeOK ==
    /\ now \in 0..MaxTime
    /\ rows \in [Ids -> Row \cup {Nothing}]
    /\ late \in SUBSET Ids
    /\ since \in 0..MaxTime
    /\ copy \in [Ids -> Times \cup {Nothing}]
    /\ polls \in [Polls -> Pull \cup {Nothing}]
    /\ budget \in [writes : 0..MaxWrites, pulls : 0..MaxPulls]
    /\ \A s \in Polls : polls[s] # Nothing =>
          /\ polls[s].time =< now
          /\ polls[s].after = Nothing <=> polls[s].got = {}

PagingInit ==
    /\ now = 1
    /\ rows = [i \in Ids |-> Nothing]
    /\ late = {}
    /\ since = 0
    /\ copy = [i \in Ids |-> Nothing]
    /\ polls = [s \in Polls |-> Nothing]
    /\ budget = [writes |-> MaxWrites, pulls |-> MaxPulls]

-----------------------------------------------------------------------------
(* The order of a poll: updatedAt, then id *)

(* mutant: the last row of a page is on the next one, too *)
BeforeOrAt(a, b) == a.at < b.at \/ (a.at = b.at /\ a.id =< b.id)

Before(a, b) == a.at < b.at \/ (a.at = b.at /\ a.id < b.id)

VersionOf(i) == [id |-> i, at |-> rows[i].at, deleted |-> rows[i].deleted]

(* mutant: the cursor is the time alone *)
FoundByTime(p) ==
    {v \in {VersionOf(i) : i \in {j \in Ids : rows[j] # Nothing}} :
        /\ v.at > p.since
        /\ p.after # Nothing => v.at > p.after.at}

(* queryChanges without its limit *)
Found(p) ==
    {v \in {VersionOf(i) : i \in {j \in Ids : rows[j] # Nothing}} :
        /\ v.at > p.since
        /\ p.after # Nothing => Before(p.after, v)}

(* ORDER BY and LIMIT *)
IsPage(page, found) ==
    /\ page \subseteq found
    /\ \A v \in page, other \in found \ page : Before(v, other)
    /\ \/ Cardinality(page) = PageLimit
       \/ Cardinality(page) < PageLimit /\ page = found

(* the row the cursor is made of *)
Ends(last, page) == last \in page /\ \A v \in page \ {last} : Before(v, last)

-----------------------------------------------------------------------------
(* Others *)

Tick ==
    /\ now < MaxTime
    /\ now' = now + 1
    /\ UNCHANGED <<rows, late, since, copy, polls, budget>>

(* Has the pull p, or the cursor, got past time t?  *)
Passed(t) ==
    \/ t =< since
    \/ \E s \in Polls : polls[s] # Nothing /\
          \/ t =< polls[s].since
          \/ t =< polls[s].time
          \/ polls[s].after # Nothing /\ t =< polls[s].after.at

(* a change that pushChanges accepts, whenever the client stamped it *)
Write(i, row) ==
    /\ budget.writes > 0
    /\ budget' = [budget EXCEPT !.writes = @ - 1]
    /\ row.at \in 1..(now + MaxSkew)
    /\ rows[i] # Nothing => rows[i].at =< row.at
    /\ rows' = [rows EXCEPT ![i] = row]
    /\ late' = IF Passed(row.at) THEN late \cup {i} ELSE late \ {i}
    /\ UNCHANGED <<now, since, copy, polls>>

-----------------------------------------------------------------------------
(* The pull *)

(* pullWorkspace *)
Begin(s) ==
    /\ budget.pulls > 0
    /\ budget' = [budget EXCEPT !.pulls = @ - 1]
    /\ polls[s] = Nothing
    /\ polls' = [polls EXCEPT ![s] =
          [since |-> since, after |-> Nothing, got |-> {}, count |-> 0,
           time |-> 0, done |-> FALSE]]
    /\ UNCHANGED <<now, rows, late, since, copy>>

(* mutant: an empty page does not end the loop *)
NextPageUntilForever(s, page) ==
    polls' = [polls EXCEPT
        ![s].after = IF page = {} THEN @ ELSE CHOOSE v \in page : Ends(v, page),
        ![s].got = @ \cup page, ![s].count = @ + Cardinality(page),
        ![s].time = now, ![s].done = FALSE]

(* mutant: the cursor of a last page is dropped before it is compared *)
NextPageNoCursor(s, page) ==
    polls' = [polls EXCEPT
        ![s].got = @ \cup page, ![s].count = @ + Cardinality(page),
        ![s].time = now, ![s].done = Cardinality(page) < PageLimit]

(* the page is appended, its serverTime replaces the previous one, and the  *)
(* loop goes on when the page was full                                      *)
NextPage(s, page) ==
    polls' = [polls EXCEPT
        ![s].after = IF page = {} THEN @ ELSE CHOOSE v \in page : Ends(v, page),
        ![s].got = @ \cup page, ![s].count = @ + Cardinality(page),
        ![s].time = now, ![s].done = Cardinality(page) < PageLimit]

(* a GET /poll, its answer, and the iteration of pollAllSyncChanges *)
Page(s) ==
    /\ polls[s] # Nothing
    /\ ~ polls[s].done
    /\ \E page \in SUBSET Found(polls[s]) :
          /\ IsPage(page, Found(polls[s]))
          /\ NextPage(s, page)
    /\ UNCHANGED <<now, rows, late, since, copy, budget>>

About(got, i) == {v \in got : v.id = i}

(* the change about id i that comes last in the list *)
Newest(got, i) == CHOOSE v \in About(got, i) : \A u \in About(got, i) : u.at =< v.at

(* mergeChangesIntoStore, the changes about id i in the order of the list:  *)
(* a tombstone removes the entity                                           *)
Merged(mine, got, i) ==
    LET last == Newest(got, i)
    IN  IF About(got, i) = {} THEN mine
        ELSE IF last.deleted THEN Nothing
        ELSE IF \/ mine = Nothing \/ last.at > mine
                \/ \E v \in About(got, i) : v.deleted
             THEN last.at
        ELSE mine

Applied(s) ==
    /\ copy' = [i \in Ids |-> Merged(copy[i], polls[s].got, i)]
    /\ since' = polls[s].time
    /\ polls' = [polls EXCEPT ![s] = Nothing]
    /\ UNCHANGED <<now, rows, late, budget>>

(* pullAndMerge returns, and the cursor is saved *)
End(s) ==
    /\ polls[s] # Nothing
    /\ polls[s].done
    /\ Applied(s)

(* mutant: what has come before a failure is applied *)
FailApplies(s) ==
    /\ polls[s] # Nothing
    /\ Applied(s)

(* a page that fails fails the pull; nothing is applied *)
Fail(s) ==
    /\ polls[s] # Nothing
    /\ ~ polls[s].done
    /\ polls' = [polls EXCEPT ![s] = Nothing]
    /\ UNCHANGED <<now, rows, late, since, copy, budget>>

-----------------------------------------------------------------------------
PagingNext ==
    \/ Tick
    \/ \E i \in Ids, row \in Row : Write(i, row)
    \/ \E s \in Polls : Begin(s) \/ Page(s) \/ End(s) \/ Fail(s)

(* the server answers and the client goes on *)
PagingFairness == \A s \in Polls : WF_pagingVars(Page(s)) /\ WF_pagingVars(End(s))

PagingSpec == PagingInit /\ [][PagingNext]_pagingVars /\ PagingFairness

-----------------------------------------------------------------------------
(* Properties *)

(* Rows with one and the same updatedAt are never delivered twice, whatever *)
(* is pushed between two pages (sync-engine.ts:119).                        *)
NothingTwice ==
    \A s \in Polls : polls[s] # Nothing => polls[s].count = Cardinality(polls[s].got)

Reflected(i) ==
    copy[i] = IF rows[i] = Nothing \/ rows[i].deleted THEN Nothing ELSE rows[i].at

(* What the cursor of the client has got past, the client has, deletions    *)
(* included; rows that were pushed late are not counted.                    *)
Current ==
    \A i \in Ids \ late :
        rows[i] # Nothing /\ rows[i].at =< since => Reflected(i)

(* ... nor skipped: no step leaves a client without a change its cursor has *)
(* got past, however many pulls overlap, except the end of a pull that had  *)
(* begun at a later cursor than the one it finds: another pull, which had   *)
(* read earlier, has put the cursor back in the meantime.                   *)
NothingSkipped ==
    [][Current /\ (\A s \in Polls : End(s) => polls[s].since =< since) => Current']_pagingVars

(* A pull, as module ChangeFeed sees it: nothing is read before the last page. *)
ChangesOf(got) ==
    [i \in Ids |->
        IF About(got, i) = {} THEN Nothing
        ELSE LET last == Newest(got, i)
             IN  [at |-> last.at, deleted |-> last.deleted]]

FeedPull(p) ==
    IF p = Nothing THEN Nothing
    ELSE [since |-> p.since,
          changes |-> IF p.done THEN ChangesOf(p.got) ELSE Nothing,
          time |-> IF p.done THEN p.time ELSE 0]

FeedPolls == [s \in Polls |-> FeedPull(polls[s])]

Feed == INSTANCE ChangeFeed WITH None <- Nothing, polls <- FeedPolls

ASSUME FeedAssumption == Nothing \notin Feed!Pull \cup Feed!Changes

(* The pages of a pull amount to one reading of the whole workspace, at the  *)
(* moment of the last page: a row that changes between two pages comes again *)
(* in a later one, and a pull that fails half-way applies nothing.           *)
ImplementsFeed == Feed!Spec

(* A pull ends: the cursor moves on with every page. *)
PullEnds == \A s \in Polls : polls[s] # Nothing ~> polls[s] = Nothing
=============================================================================
