# Reqly: specifications, model checks and proofs

Reqly is an API client (web, desktop, command line) with shared workspaces.
What makes it hard to get right is not the sending of a request but the state
several people share: a SQLite server that takes pushes of whole stores from
clients with their own clocks, workspaces whose members come and go, sessions
and sockets that outlive what they were granted for, handlers that wait between
a check and a write, and schedulers that run next to the people who edit what
they run.  This directory specifies those parts in TLA+, checks them with TLC on
small instances, and proves their main invariants with TLAPS for all instances.

Paths below are relative to the repository (`sync-server/`, `reqy-web/`, ...).

## 1. The system and its parts

| Part | State | Operations | Talks to | Modelled |
|---|---|---|---|---|
| sync engine, `sync-server/src/sync-engine.ts`, `db.ts` | tables `collections`, `environments`, `folders`, `activity_log` | `pushChanges`, `queryChanges` | routes | yes; not: migrations, reads of the log |
| sync routes and hub, `routes/sync.ts`, `routes/ws.ts`, `ws-hub.ts`, `ws-ticket.ts` | open sockets by workspace, tickets | `/push`, `/poll`, ticket, upgrade, re-check, broadcast, cleanup | engine, clients, sessions, members | yes; not: status route, pings |
| web sync engine, `hooks/store/sync.ts`, `lib/sync/*`, `lib/sync-client.ts`, `hooks/use-request-store.ts` | store, cursors, `lastPushed`, debounce timer, controller of the socket | commit, push, pull in pages, merge, switch workspace, reconnect, boot | routes, hub, persistence | yes; not: folders, status shown |
| client persistence, `hooks/store/persistence.ts`, `lib/persistence.ts` | saved store, cache of a tab, localStorage | debounced save, load, `getItem`, `removeItem` | store, monitors | what a reload finds, and the cached reads; not: retries, BroadcastChannel |
| workspaces and members, `routes/workspaces.ts`, `routes/memberships.ts` | `workspaces`, `memberships`, `invitations`, rate limits | create, delete, transfer, invite, join, remove, change role | engine, sockets | yes; not: renaming, reads |
| accounts and sessions, `auth.ts`, `routes/auth.ts`, `routes/admin.ts`, `ttl-map.ts` | `users`, `password_resets`, counters and cooldowns in memory, tokens | sign-up, verify, resend, login, OAuth login, logout, forgotten and reset password, disable, revoke | all routes, sockets | yes; not: profile, exchange with the provider, mail |
| webhook inbox, `routes/hooklet*.ts`, `push.ts` | `hooklet_endpoints`, `hooklet_events`, `hooklet_devices` | ingest, prune, replay, delete, register | foreign services, push service | yes; not: reads, texts |
| monitors of the server, `monitors-runner.ts`, `routes/monitors.ts` | `monitors`, `monitor_runs`, the flag `running` | scheduler batch, create, patch, delete | foreign servers, webhook | yes; not: address guard, checks |
| monitors of the browser, `hooks/use-monitors.ts`, `lib/monitors/tab-lock.ts` | leader record, list, schedule and runs of each page | compete, release, tick, run, retry, edit | other tabs, persistence | yes; not: history, alerts |
| chat of the AI sidebar, `src/ai/hooks/use-ai-sidebar-chat.ts`, `src/ai/agent/permissions.ts`, `lib/llm-tools.ts` | sends under way, `isLoading`, `confirmResolverRef`, mode, pending plan, permissions | send, tool turns, confirm, approve a plan, stop, change settings | model services, store, proxy | yes; not: prompts, messages, sessions, what tools do |
| infrastructure, `index.ts`, `rate-limiter.ts`, `cors.ts`, `email.ts`, `activity.ts` | counters | shutdown, restart, middleware | all routes | shutdown and restart only |
| offline queue; request execution and proxy; test runner; import and export; modal of the AI assistant; mock engine; analyser; CLI; desktop shell; admin; landing page | none that is shared | | | no, see section 6 |

**How the parts interact.**  A client commits every edit to its store in memory;
a commit schedules one debounced push (500 ms).  The push compares the whole
store with the last snapshot the server acknowledged for that workspace and
sends the difference.  The server checks the role of the sender, runs the changes
in one transaction, logs activity, and tells every open socket of the workspace,
the sender's too.  A hint starts a pull: page by page everything with
`updated_at` beyond the client's cursor; the merge commits, which schedules a
push again.  Roles come from `memberships`, which the workspace handlers write;
sessions carry the version of the account, which logging out, a reset and an
administrator raise.  Both are asked when a socket is opened and once a minute
after.  The inbox and the monitors of the server share the process, the
database and the event loop with the rest; the monitors of the browser share
localStorage with other tabs.

**Which behaviours are hard.**

- Handlers of the server interleave wherever they await: the body of a request,
  the derivation of a key, the push service, a monitored server.  What they read
  before may be stale after.
- Several pushes and pulls of one client overlap, and their answers arrive in any
  order, while the store, the active workspace and the timer move on.
- Client time decides conflicts, server time decides what a pull asks for, and
  each page of a pull is a query of its own.
- A socket has two ends that learn of each other's closing later, and a tab asks
  for the next workspace while a ticket for the last one is on its way.
- Messages, sockets and pages are lost at any moment; a server process dies
  between two statements that commit by themselves, and forgets its counters.
- Everything a user does restarts a loop of push, broadcast, pull and commit
  that has to die down, and so does a conflict, which commits a notification.
- Tabs elect a leader through storage that each of them reads from a cache.
- A chat that was stopped goes on until the stream or tool it awaits returns, next
  to the one the user has started since, with the same state and the same buttons.

`PROJECT.json` lists these as hazards, each with its line and the properties
that cover it.

## 2. Modules

```
  LwwStore  <-refines-  SyncServer  --INSTANCE-->  WorkspaceRoles  <-refines-  Membership
                            |                            ^
                         SyncRows                        | INSTANCE
                                                    SyncSockets
  ChangeFeed  <-refines-  SyncPaging                     | INSTANCE
                                                         v
  SyncSystem     Monitors                         SessionVersions  <-refines-  Accounts
  Hooklet        BrowserMonitors        AiChat
```

`WorkspaceRoles` and `SessionVersions` are the joints of the composition: the
modules that need roles or sessions are built on them, and the modules of the
handlers that write them are shown to implement them.

| Module | Models | Its TLC and proof modules |
|---|---|---|
| `SyncRows` | one change against the tables: conflict rules and upsert of `pushChanges` | |
| `SyncServer` | the push transaction change by change, commit, activity log, crash, deletion of a workspace | `MCSyncServer`, `SyncServerProofs` |
| `LwwStore` | what the push path promises: a committed step writes rows of one workspace, never goes back in version or time, and keeps folders anchored | refined by `SyncServer` |
| `WorkspaceRoles` | what the membership handlers promise: atomic role changes | refined by `Membership` |
| `Membership` | the handlers of workspaces, invitations and joining, split where they await | `MCMembership`, `MembershipProofs` |
| `SyncSystem` | web clients, network, sockets and the server's rows | `MCSyncSystem`, `SyncSystemProofs` |
| `ChangeFeed` | what a pull promises: one reading of the workspace, applied whole or not at all | refined by `SyncPaging` |
| `SyncPaging` | keyset cursor, pages, the loop of the client, writes in between | `MCSyncPaging`, `SyncRoutesProofs` |
| `SessionVersions` | what the account handlers promise: sessions are issued with the current version, versions only rise | refined by `Accounts` |
| `Accounts` | the handlers of accounts, codes and sessions, split where they await scrypt | `MCAccounts`, `AccountsProofs` |
| `SyncSockets` | controller of a tab, tickets, both ends of a connection, hub, re-check, shutdown | `MCSyncSockets`, `SyncRoutesProofs` |
| `Hooklet` | ingest with its awaits, pruning, replay, owner's operations, retrying sender, restart | `MCHooklet`, `HookletProofs` |
| `Monitors` | scheduler, history, webhook rule, `POST`, `PATCH` and `DELETE` of monitors | `MCMonitors`, `MonitorsProofs` |
| `BrowserMonitors` | leader election between tabs, scheduler and runs of a page, shared list | `MCBrowserMonitors`, `BrowserProofs` |
| `AiChat` | the loop of the AI sidebar: sends, turns, permissions, confirmations, plans, Stop | `MCAiChat`, `BrowserProofs` |

Operators whose comment begins with *mutant* are not part of the specification.
Each is the changed form of one definition, with the sort of mistake that could
be made in that code, and shows that a property can fail: `PROJECT.json` says
which property of which run must find it.

### SyncServer and SyncRows

A row keeps the columns that conflict rules read; the JSON document is reduced to
its `collectionId`, the only field the server looks into.  `BeginPush` is the
route up to the transaction, `ApplyNext` one iteration of the loop, `CommitPush`
the commit, `FinishPush` the activity log, whose inserts may each fail silently.
better-sqlite3 is synchronous, so no other handler runs while a push is under
way, but the process may die at each point (`Crash`).  `DeleteWorkspace` is one
transaction over all tables, the activity log of the workspace included.

Left out: names and documents, the limits on array length and document size
(rejected before anything is written), migrations of old database files, and
the activity entries of the workspace handlers.

### SyncSystem

An entity of a client is reduced to its `updatedAt`, which is all that the
difference, the conflict rule and the merge look at.  Entities are collections
and environments; folders are in `SyncServer`.  Each client has its clock, a
fixed distance before the server's, its store in memory and on disk, a cursor
and the last acknowledged snapshot for each workspace, one timer, pushes and
pulls in flight, one socket and the hints on it.

| Action | Code |
|---|---|
| `Create`, `Edit`, `Delete` | commit wrapper of the store |
| `Switch` | `setActiveWorkspace` and the subscriber that pulls and reconnects |
| `FirePush`, `AckPush`, `LosePush` | `schedulePush`: timer, answer, catch clause; an answer with conflicts starts a pull and commits a notification, which arms the timer again |
| `ServePush` | validation of `/push`, `pushChanges`, broadcast |
| `ServePull`, `EndPull`, `LosePull` | `/poll`, `pullAndMerge` and the saving of the cursor |
| `OpenWs`, `DropWs`, `ReceiveHint` | `sync-ws.ts` and `ws-hub.ts` |
| `SaveDisk`, `Restart` | the debounced save; `initStore` after a reload |

Simplifications: a synchronous stretch of code is one step; the entities a client
is born with carry `updatedAt` 0; the collection created at the first boot is
not special; every client may write (roles are in `SyncServer`); versions are
not sent back by this client, so rows drop theirs; a poll is one page
(`SyncPaging` shows that pages amount to that) and a socket is up or down
(`SyncSockets` has its two ends).  Deletion of a workspace is not part of this
module.

### SyncPaging and ChangeFeed

`Page` is one `GET /poll` with the iteration of `pollAllSyncChanges` that takes
its answer: the rows beyond `since` and after the row the last page ended with,
ordered by `updatedAt` and id, up to the limit.  `Write` is any accepted change
between two pages, stamped by a client before, at or ahead of the server's
clock.  `late` is a history variable: rows stamped at a time that the cursor or
a pull under way had got past already, of which a pull promises nothing
(section 5, `sync_cursor`).  Pulls overlap as they like: `Begin` needs no other to
have ended, and each `End` takes the cursor to its own time.  `ChangeFeed` reads the whole workspace in one step,
at the moment of the last page.

### Accounts and SessionVersions

Sign-up, login and reset derive a key with scrypt and await it, and are split
there (`BeginLogin`, `EndLogin`, ...); `pending` holds what they have read.  The
other handlers await only their body, before they read anything, and are one
step.  Codes are numbered by age; mistakes are counted by code in memory
(`TtlMap`), and are lost in a `Restart`; `written` is a history variable that
counts the passwords a code has set.  A session is the account and the version
it was signed with.

### SyncSockets

The controller of a tab (`connectSyncWs`) fetches a ticket, dials, is open, or
waits for its reconnect timer; a connection has a client and a server end.
`Recheck` is the timer of `ws.ts` for one socket, `Cleanup` its close or error
event, `Broadcast` ends sockets whose buffer is full, `Shutdown` is `closeAll` and
the next start.  Lost connections, late tickets, tickets that time out and
restarts are faults, bounded together.  Tickets and the back-off are timed by
fairness only.

### Hooklet

`Arrive` looks the endpoint up and awaits the body, `Store` inserts and prunes
and may go on to await the push service, `StoreFails` is a body that fails or
an endpoint that was deleted meanwhile, `PushEnds` the answer or the time limit.
The sender of a webhook repeats it when it gets no answer (`SenderTimesOut`, the
one external definition).  `Replay` inserts a copy and does not prune.

### Membership

`BeginInvite`/`EndInvite` and `BeginRoleChange`/`EndRoleChange` are handlers that
check, await their body, and write; the other handlers write in the same step
they check in.  `Join` consumes a token; `Age` lets an invitation expire, `Forget`
is the passing of the rate-limit window and `Restart` the clean-up at the start
of the server.  `MaxInvites` is `INVITE_MAX_PER_HOUR`.  The token is spent in the
same step in which the member is inserted, as in the code.  Left out: renaming,
the activity entries of these handlers, and the reading routes.

### Monitors

The callback of the scheduler is split at its awaits: `StartBatch` selects rows
and reserves the first, `EndRun` is the stretch between the last answer for one
row and the first request of the next.  `due` is the time left to the next run
rather than a time of day, so that `Tick` may happen for ever: what is overdue keeps
its order only, which is what the selection looks at.  `PATCH` is split where it awaits its
body: `BeginPatch` reads the row that `EndPatch` will write over.  A batch whose
monitor was deleted meanwhile fails on the foreign key of `monitor_runs`; nobody
handles the rejection, so Node ends the process (`FailRun`).  `DieRecording` is a
death between the statements that commit by themselves.  `told` is a history
variable: the status `sendWebhook` was last called with.

Left out: the address guard, the evaluation of checks (its outcome is any
status), stored definitions that no longer fit the schema, who owns a monitor,
and whether a webhook arrives (one attempt is made and never repeated).

### BrowserMonitors

The record of the leading tab is there twice: shared, and as each tab has it in
the cache of `lib/persistence.ts`, which `getItem` answers from.  `Compete` is
`acquireLeadership` and `refreshLeadership`, `Heartbeat` the interval; a record is
fresh or stale (15 s).  `AgeShared` is the time that passes for a record whose
page is gone, or for any record when timers may be late (`Throttled`); `AgeCached`
is the time that passes for the copy of another tab's record.  `CloseTab` is a tab
that goes without cleanup, `Unmount` calls `releaseLeadership`, whose removal of
the localStorage record comes later (`EndRemove`).  Every page has its own list,
schedule and runs in flight.

### AiChat

A send is one call of `sendMessage`; its record says what it awaits (`pc`) and
holds the locals of `sendMessage`, `runTurn` and `executeTools`.  What runs between
two awaits is one step: the stream returns (`StreamCalls`, `StreamEnds`,
`StreamFails`, `StreamRefusesTools`), a back-off ends, a tool is back
(`ToolReturns`, or `ConfirmedReturns` after a question), the user answers (`Agree`,
`Refuse`).  `Execute` walks through calls as `executeAuthorizedToolCall` decides on
them, up to the first that has to be waited for; `Confirm` is the loop over those
that ask.  `Stop` makes every send stale and answers the open question with no;
`Finish` is the `finally` block, which a stale send runs too.

Every message shows the buttons of its own first call that waits for a
confirmation, and `confirmAction` resolves the one resolver whichever button it
was.  `Agree(own, all)` tells the two apart: history variables hold the calls of
high impact that a yes was given to on their own card or in a plan (`agreed`), and
those that were run on a yes clicked on another card (`misled`).  Another card is
there when another send asks; or when one that was stopped has left its own, or a
session that was stored in the middle of a question is taken up
(`TakeUpSession`), which `left` remembers.

Left out: prompts, messages, sessions, usage and artefacts; what a tool does,
delegated agents among them; read-only tools, which never ask; the idempotency
key, whose refusal looks like a call that is done; the abort signal, since a
stream may fail at any time; and the cards of code, which are executed outside a
send.

## 3. What TLC checks

| Run | Question | Bounds |
|---|---|---|
| `sync_server` | Does the push transaction implement `LwwStore`, keep folders inside their workspace, write only for those who may, and log only what happened, with a crash at any point? | 2 workspaces, 2 users whose roles change, 2 collections, 1 folder, 2 times, pushes of up to 2 changes, versions up to 2 |
| `sync_pair` | Does every scheduled push get the store to the server once nothing is lost any more, and does the loop of push, conflict, broadcast and pull end? | 2 clients, 1 workspace, 1 entity, 2 edits, 1 lost message, clock up to 2 |
| `sync_spaces` | Is what a client takes for pushed on the server, and does it delete in a workspace only what is there, although it pushes its whole store to whichever is active, with losses, reloads and a clock that is ahead? | 1 client, 2 workspaces, 2 entities (one a default), 1 edit, 2 switches, 1 loss, 1 lost socket, 1 reload, 2 pushes and pulls in flight |
| `sync_paging` | Do the pages of a pull amount to one reading (`ChangeFeed`), is nothing delivered twice or skipped, and does a pull end? | 2 rows, pages of 1, 2 pulls that overlap or not, 3 writes, clock up to 2, stamps up to 1 ahead |
| `sync_sockets` | Do hub and sockets agree, has a tab one socket, are leavers cut off, and does a subscription heal? | 1 tab, 2 workspaces, 2 users, 2 connections, 1 revocation, 1 fault |
| `accounts` | Do sessions belong to confirmed addresses, does a reset code set one password, and do the handlers implement `SessionVersions`? | 1 address, 2 passwords, 2 handlers at a time, 2 codes, 2 revocations, limits of 1 mistake and 2 failed logins |
| `hooklet` | Is what is acknowledged stored, does only the oldest go, and does every handler end? | 2 endpoints that keep 2 events, 4 events, 1 webhook and its repetitions, 2 handlers |
| `membership` | Do owners, members and invitations agree, and do the handlers implement `WorkspaceRoles`? | 2 workspaces, 2 users, 1 token, 2 waiting requests |
| `monitors` | Do history, webhook and schedule agree, and is what is due run? | 3 monitors, 2 callbacks, batches of 2, 1 run kept, 1 `PATCH`, no end of time |
| `browser_monitors` | Is there a leader again and again, and is an enabled monitor run again and again? | 2 tabs, 1 monitor, 2 attempts, late timers |
| `ai_chat` | Is nothing executed after Stop, is nothing of high impact executed without a yes to it, whichever card is clicked, do answers reach the send that asked, and does the chat come to rest? | 2 sends, 2 turns of 1 or 2 calls, 1 tool of high impact and 1 other, 1 retry, 1 change of mode, switch or permission, automatic approval on or off from the start |
| `sync_cursor` | the disagreement of section 5 | as small as shows it |

The type invariants of `SyncServer`, `SyncSystem`, `Membership`, `Monitors`, `Hooklet`,
`SyncSockets` and `BrowserMonitors` are proved (section 4) and not checked once more
by a run; those of `Accounts`, `SyncPaging` (`PagingTypeOK`) and `AiChat` (`ChatTypeOK`)
hold the limit on mistakes, the cursor and the rule on what may be allowed for ever.

**Why these bounds.**  Two workspaces, two members and two collections are enough
for every check that compares one with another (isolation, foreign rows,
transfer); a push of two changes is the smallest in which a later change is
checked against an earlier one.  Two clients are enough for a conflict, a
broadcast that comes back to its sender, and an answer overtaken by a foreign
write; two edits allow an edit during a push.  Two waiting requests allow each
pair of handlers to race, in `Membership`, `Accounts` and `Hooklet` alike.  Pages
of one row make every row a page boundary.  Two connections are what one tab
needs to have left one and opened another.  An endpoint that keeps two of four
events prunes, with gaps that replays and deletions make.  Two monitors in a batch make the second
row's status stale while the first is run, and with a third the limit of a batch
binds: all three may be due again and again for ever; `MaxRunsKept = 1` lets the
trimming happen.  Two pulls are enough for one that ends in the other, before it and
after it.  Two tabs are enough for a leader that is replaced.  Two sends are one that
was stopped and one that was started since; two turns of two calls are enough for
a yes that could leak to another call or turn, and for the limit of turns
(`MAX_TOOL_TURNS`, 100 in the code).  Bounds on time,
edits, switches, losses, reloads, patches, codes, ids, versions and faults only
limit how long a behaviour is; each is a constant named in the guard that
applies it.

The largest instances have 2.8 million states (`sync_server`, `sync_spaces`) and 1.0
million (`accounts`); of those with liveness properties, `ai_chat` has 0.9 million,
and `monitors`, `browser_monitors`, `sync_pair` and `sync_paging` 0.3 million each.  Symmetry is used for safety only.

`CHECK_DEADLOCK FALSE` is set everywhere: users may stop, and then nothing has to
happen; clocks and budgets run out in the model.

**Fairness.**  Only weak fairness is assumed, and only of callbacks of a running
event loop and of requests with a time limit:

- `SyncSystem`: timers fire, a socket that is open delivers, the server answers each
  request, and its answer is taken.  Saves, reloads and broken sockets are left to
  chance.
- `SyncPaging`: a page is answered and the client goes on; it may also fail.
- `SyncSockets`: ticket, upgrade and refusal are answered, the re-check, the
  reconnect timer and close events come.
- `Hooklet`: bodies arrive or fail; the push service answers or the limit of
  `push.ts` passes.
- `Monitors`: the scheduler fires every 30 seconds and each run ends because
  requests are aborted after 10 seconds.  A server that restarts again and again is
  assumed to stay up for one callback now and then.
- `BrowserMonitors`: heartbeats, ticks and storage events come, a record nobody
  refreshes gets old, and a run ends.
- `AiChat`: a stream ends, fails, or is aborted by the stall timer, a back-off is a
  timer, tools are operations on the store or requests with a time limit.  A
  delegated agent is assumed to end, though its stream has no timer (section 5).
  `ChatFairness` is weak fairness of `Wakes`, spelt out without `ENABLED`.

Nothing obliges a user to act, the network to fail, a clock to advance in
`SyncSystem`, or an attempt to fail.  `SyncServer`, `Membership` and `Accounts`
assume nothing.

**Scope of the liveness results.**  `EditsReachServer` starts from a scheduled push
after the last loss: a push that is lost is not repeated (section 5), so what it
carried is made up for by the next commit, which is what the run with one loss
checks.  It also leaves out ids every client is born with: `env-global` exists in
every workspace, so a second workspace refuses it for ever.  `Quiesces` has the
same exception, and needs it: a conflict adds a notification, which is a commit,
which arms the push timer (`use-request-store.ts:127`).  If the refused entity is in
another workspace, or its newer version is behind the client's cursor so that no
pull brings it, push and conflict go on for ever (section 5).  `Quiesces` says that
this is the only way: the loop dies down, or from some point on there is always an
entity that is refused for good (`Irreconcilable`).  `sync_pair` reaches both, the
second by an edit that is pushed after the other client's poll.

In `DueIsRun`, restarts and failing batches may happen any number of times; patches
are bounded.  `SubscriptionHeals` and `LeaversAreCut` hold while sessions, members
and faults change as they like within their bounds.  `HandlersEnd` excuses a handler
once the ids of the model have run out.  `PullEnds` is about finitely many writes:
others who write without end may keep a pull asking for pages.  `LoadingEnds`
excuses a question nobody answers.  `StaysWatched` asks that no page is in the
background and that pages and list are left alone in the end: a leader that is
hidden runs nothing (section 5).

## 4. What is proved

Every safety property of the passing runs is proved: each invariant, each action
property and each of the four refinements, for any sets of workspaces, users,
rows, clients, tabs, connections, monitors, sends, codes and so on, under the
assumptions named in the modules: kinds of ids are disjoint, `None` (`Nothing`
where two modules are proved about together) is none of the values, bounds are
natural numbers, and the monitors and handlers of `Monitors` are finitely many.
`SyncRoutesProofs` and `BrowserProofs` are about two modules
each, whose variables have nothing in common.

| Module | Inductive invariant | Theorems |
|---|---|---|
| `SyncServerProofs` | `TypeOK`, `FolderScope`, `DraftFollows`, `LogTruthful`, `Attributed` | `TypeCorrect`, `FolderScopeHolds`, `ActivityTruthfulHolds`, `WritesAuthorisedHolds`, `Implementation` (of `LwwStore`) |
| `SyncSystemProofs` | `TypeOK`, `AckedReachesServer`, `PushesSound` | `TypeCorrect`, `AckedReachesServerHolds`, `DeletionsAreKnownHolds` |
| `SyncRoutesProofs` (`SyncSockets`) | `TypeOK`, `HubIsOpenSockets`, `OneSocketPerTab`, `HeldIsOpen` | `TypeCorrect`, `HubIsOpenSocketsHolds`, `OneSocketPerTabHolds` |
| `SyncRoutesProofs` (`SyncPaging`) | `PagingTypeOK`, `PullsSound`, `CopiesSound` | `PagingTypeCorrect`, `NothingTwiceHolds`, `NothingSkippedHolds`, `ImplementsFeedHolds` (of `ChangeFeed`) |
| `AccountsProofs` | `TypeOK`, `HandlersSound`, `CodesSound`, `VerifiedSessions` | `TypeCorrect`, `VerifiedSessionsHolds`, `PasswordNeedsFreshCodeHolds`, `Implementation` (of `SessionVersions`) |
| `HookletProofs` | `TypeOK`, `NothingOrphaned`, `AckedIsStored`, `HandlersSound` | `TypeCorrect`, `NothingOrphanedHolds`, `AckedIsStoredHolds`, `KeepsNewestHolds` |
| `MembershipProofs` | `TypeOK`, `OwnershipSound`, `NothingOrphaned` | `TypeCorrect`, `OwnershipSoundHolds`, `NothingOrphanedHolds`, `MembersAreInvitedHolds`, `InvitationsOnlyAdmitHolds`, `Implementation` (of `WorkspaceRoles`) |
| `MonitorsProofs` | `TypeOK`, `NoOrphanRuns`, `WebhookUpToDate`, `OneBatch`, `RowsCurrent`, `FreshUnused` | `TypeCorrect`, `NoOrphanRunsHolds`, `WebhookUpToDateHolds` |
| `BrowserProofs` (`BrowserMonitors`) | `TypeOK`, `LeadersReadThemselves` | `TypeCorrect`, `LeadersStay` |
| `BrowserProofs` (`AiChat`) | `ChatTypeOK`, `YesSound`, `PlaceSound`, `AnswersReachTheAsker`; `OneCard` on top | `ChatTypeCorrect`, `HighImpactIsAgreedHolds`, `AnswersReachTheAskerHolds`, `StoppedIsSilentHolds` |

Why the properties need strengthening:

- *SyncServer.*  The activity log is about committed rows, but is filled from a
  draft.  `DraftFollows` says that the draft of an open transaction is something
  `LwwStore` may reach from the committed rows in one step, `LogTruthful` that
  the pending entries are true of the draft, and `Attributed` that what the draft
  changed is attributed to the sender, who may write until the commit because
  no other handler runs.  That an entry is made with the very write it is about
  is a property of the step (`ActivityTruthful`), read off what one accepted change
  writes; that the log gains entries after the commit only, and of nothing that was
  rolled back, is read off the draft being the rows when they are published.
- *SyncSystem.*  An acknowledged snapshot is on the server because the answered push
  was: `PushesSound` says so of each answered push still in flight.  It stays
  true when others push later, because the server only moves forward
  (`ServeForward`: a row keeps its workspace and never gets older).  It must be
  said of the answered push and not of the store, which has moved on.
  `DeletionsAreKnown` follows: a push deletes what the snapshot of its workspace has
  and the store has not, and what the snapshot has is on the server, there.
- *SyncSockets.*  `HeldIsOpen`: the connection a controller holds exists, is its
  own, and has not been left in the browser.  Without it a controller could
  leave somebody else's connection when it leaves its own.
- *SyncPaging.*  `PullSound`: the list of a pull is what comes before its cursor, so
  the next page, which comes after it, adds nothing twice.  `ListSound`: a version
  in the list is current, unless its row was written since, and is then beyond the
  cursor or late; and the current version of a row that is due, not late, and
  behind the cursor is in the list.  A page is a beginning of what is found, hence
  keeps this; a page that is not full is all of it, so that the last one
  completes the list to what `ChangeFeed` reads at that moment.  The last row of a
  page exists because pages are finite, and so does the newest version
  (`PageHasLast`, `NewestVersion`).  `CopiesSound` says that an entity of the client
  is not younger than its row: an entity that survives the comparison of the merge
  is then the row itself.  All this holds for overlapping pulls.  `NothingSkipped`
  is about the cursor of the client, which each pull overwrites when it ends, and
  follows step by step: the pull that ends has all that is due beyond the cursor it
  began at, so nothing is missing between the two unless another pull has put the
  cursor back below it meanwhile (`EndSkipsNothing`, section 5); a write is ahead of
  the cursor or late (`WriteSkipsNothing`).
- *Accounts.*  A handler writes after an await what it has read before.
  `HandlersSound` says what of that nobody takes back meanwhile: the account
  exists, and is verified if it was.  `CodesSound` says that a code a reset waits
  with is marked, belongs to the account, has not written yet, and that no other
  handler waits with it.  Every handler is then a step of `SessionVersions` or
  a stutter; the version is that of the account, or 0 before there is one.
- *Hooklet.*  `HandlersSound`: what a handler that awaits the push service handles
  has been stored.  Nothing needs to be known of handlers that await a body,
  because the foreign key is checked when they go on.  `KeepsNewest` is about the set
  the pruning `DELETE` leaves behind: of the events of an endpoint, the youngest
  `MaxEvents` (`PrunedKeepsNewest`, by the order of ids, which are never used again).
- *Membership.*  The owner is a member and nobody else has the role owner; a waiting
  request of a deleted workspace finds its workspace gone when it is checked
  again.  The action properties and the refinement follow step by step.
- *Monitors.*  `WebhookUpToDate` depends on a comparison with a row read long
  before.  `RowsCurrent` says that a selected row still has the last status of
  its monitor, which is true because only the scheduler writes that column
  and, by `OneBatch`, only one batch is under way; the rows of a batch are
  different monitors.  `FreshUnused` says that ids are not reused, so that a
  row of a deleted monitor never meets a new one.
- *BrowserMonitors.*  A page that leads has its own record in the cache of its tab,
  and no step of another tab changes that copy.  So a page that leads leads
  until it goes away (`LeadersStay`), which is also why two of them, once there,
  both stay.
- *AiChat.*  `YesSound` says that the calls a plan or an open batch approves of have
  been agreed to, and so has each call of high impact that runs or has run; every
  stretch of `executeTools` between two awaits keeps it (`ExecuteStep`).
  `PlaceSound` says where a send waits: a batch is open only while the loop over
  the questions of its series goes on, and the call a send awaits is there and is
  the one that runs or asks.  `AnswersReachTheAsker` is needed with them: a yes is
  one to the call that asks only because the resolver is that of a send that asks.
  `OneCard` is about whose card it was given on: until the first Stop there is one
  send at a time, which the `finally` of a stopped one and the input it enables put
  an end to, so that there is no other card to click.

Only model-checked: all liveness (`EditsReachServer`, `Quiesces`, `PullEnds`,
`LeaversAreCut`, `SubscriptionHeals`, `HandlersEnd`, `DueIsRun`, `LeaderReturns`,
`StaysWatched`, `LoadingEnds`), since TLAPS proves neither fairness nor `ENABLED`.

## 5. Where the code and its documentation disagree

Kept as a run that finds a violation:

- `sync_cursor`: the cursor of a pull is server time and rows carry client time, so
  a change made before a pull and pushed after it is skipped for ever
  (`hooks/store/sync.ts:100`, against the comment at line 97).

Seen while modelling; the models do what the code does, and no run is kept:

*Synchronisation*

- An entity deleted while the push that creates it is in flight stays on the
  server, as no difference shows its deletion (`lib/sync/store-sync.ts:107`,
  against line 72).
- `mergeChangesIntoStore` applies a tombstone whatever the age of the local entity
  (`store-sync.ts:148`), although its comment speaks of last-writer-wins (`:133`).
- A failed push only shows a toast (`sync.ts:135`); the comment below it speaks of
  a retry every 500 ms (`:139`).  The next edit pushes the difference.
- A conflict adds a notification, which commits and so arms the push timer
  (`sync.ts:128`, `notifications.ts:21`, `use-request-store.ts:127`).  If nothing settles
  the conflict the client pushes, is refused and notifies every 500 ms for ever:
  an entity another workspace has (`env-global`, with which every client is born), or
  one whose newer version is behind the cursor.  `SyncSystem` with `<>[]Idle` in
  `SyncPair.cfg` shows the second.
- Nothing keeps two pulls of one workspace apart (`sync.ts:96`, started at `:133` and
  `:179` too), and each takes the cursor to its own time when it ends.  A slow pull A
  that has read the tombstone of a row at 1, ends after a pull B that has read the
  revived row at 2: it removes the copy and puts the cursor back to 1.  A pull C that
  began at 2, after B, ends at 3 and moves the cursor past the row, which the client
  does not have and is never sent again.  That is the case `NothingSkipped` excepts.
- A pull's cursor is the `serverTime` of its last page in milliseconds; a row
  written in the same millisecond after that page is behind it.  The keyset
  cursor (`sync-engine.ts:119`) orders by time and id over three tables, so its
  promise needs ids that differ across the tables.
- The cursor is saved at once, the store after the debounce
  (`persistence.ts:42`): a reload in between does not fetch the entities again.
- The upsert of a folder writes a new document but leaves the column
  `collection_id` (`sync-engine.ts:299`), which the isolation check of the next
  push reads (`:244`): after a folder is moved, its column and its document name
  different collections.  Both are in the same workspace, which is what
  `FolderScope` says and `SyncServerProofs` proves, so isolation does not suffer.

*Sockets and the boot*

- After a reload in a shared workspace the socket is closed again, since the boot
  sequence connects the workspace it read before the store was loaded
  (`hooks/use-request-store.ts:221`, against line 220).
- `onStatus("closed")` stands beside the `onclose` handler and runs while the
  socket is wired up (`sync-ws.ts:173`), so a lost connection is not reported; the
  states that `components/api-header.tsx` shows as reconnecting are never set.
- The heartbeat pings but never ends a socket that does not answer
  (`routes/ws.ts:121`, against its comment).
- A controller keeps the token it was created with (`hooks/store/sync.ts:173`).

*Client storage*

- The generation counters of the broadcast between tabs start at 0 with each page,
  so a tab ignores a reloaded one until that has caught up (`persistence.ts:350`).
- A broadcast is sent before the save it announces has ended (`:330`), and the
  repetition of a failed save may write an older snapshot over a newer one
  (`:312`).

*Accounts, members, inbox*

- A role change checked before a transfer and written after it demotes the new
  owner (`routes/workspaces.ts:299`, against line 278).  `OwnershipSound` says what is
  left: the owner is a member, and nobody else has the role owner.
- An invitation checked before a transfer is created after it in the name of
  somebody who may no longer invite (`routes/workspaces.ts:143`, against `:117`).
- The clean-up at start deletes used invitations at once (`db.ts:338`); its comment
  gives them a retention (`:333`).
- Failed logins are counted from the row read before the key was derived
  (`auth.ts:821`): two that overlap count as one.
- The latest unused reset code is the active one, so an older one becomes active
  again once the latest has been used (`auth.ts:512`).
- A replay stores an event without pruning (`routes/hooklet.ts:243`), so the cap of
  `hooklet-hooks.ts:7` is restored by the next request only; `KeepsNewest` says
  what holds.
- The limiter counts in fixed windows; its comment speaks of a sliding one
  (`rate-limiter.ts:4`).

*Monitors*

- Two tabs lead at the same time although no timer is late: each reads the leader
  record from the cache of its own tab, so the heartbeat of the other one never
  reaches it (`lib/monitors/tab-lock.ts:31`, against line 4, "un seul onglet").
  `BrowserMonitors` with `Throttled = FALSE` shows it in a few steps.
- A `PATCH` that only toggles a monitor writes back the `next_run_at` it read before
  its body was awaited, so that a monitor that ran meanwhile is due again
  (`routes/monitors.ts:120`, against line 115).
- A `PATCH` with requests, checks or webhook takes `enabled` and the interval from
  the stored JSON, which patches of the plain columns do not update
  (`routes/monitors.ts:102`): a disabled monitor is enabled again.
- The first run of a monitor sends a webhook even if it passes, because the column is
  `null` and the code compares with `undefined` (`monitors-runner.ts:334`), although
  webhooks are meant for transitions (`:7`).
- A page in the background runs nothing, while its heartbeat keeps the other tabs
  out (`use-monitors.ts:287`): nothing is run as long as the leader is hidden.
- Runs go on after their page was left, and save a history that the page mounted
  next does not know; `removeItem` clears localStorage after its await, whoever
  has written the record by then (`lib/persistence.ts:230`).

*Chat of the AI sidebar*

- The `finally` block of a send that was stopped runs when its await returns, and
  resets what the next send uses by then (`use-ai-sidebar-chat.ts:1076`, `:1081`).
  If that one asks a question meanwhile, the input is enabled again (against the
  comment at line 866), and the resolver is lost, so that the question can no
  longer be answered and the send never ends.  `AiChat` shows both in a few steps
  (`send[s].pc = "ask" => loading`, and `=> resolver = s`); what holds is that an
  answer never reaches a send that did not ask (`AnswersReachTheAsker`).
- The buttons of every message answer the one question that is open, whichever it is:
  the sidebar drops the id of the step (`ai-sidebar.tsx:533`, `use-ai-sidebar-chat.ts:1104`).
  The renderer takes care that one step of a message is active, "c'est elle dont le
  resolver est en attente" (`assistant-steps-renderer.tsx:681`), but a message of a send
  that was stopped while its tools ran keeps its buttons, and so does one of a stored
  session: a yes clicked there runs a call of the current send.
  `HighImpactIsAgreed` says what holds.
- `autoApply` is the one `sendMessage` closed over: switched off, it still approves
  the calls of a send under way (`:795`), while `batchConfirm` is read from a ref.
- A plan that is approved when no message or no model is there leaves the mode at
  "act" until the next send ends (`:1124`).
- The turns of a send are stored with its message only when it ends by itself
  (`:1001`): what a stopped or failed send has executed is not in the history of the
  next one, against the "mémoire d'actions" of the comment at `:998`.
- The key of a call that failed counts as committed if its handler returned the error
  (`llm-tools.ts:2340`), so that a repetition of it is refused.
- The stream of a delegated agent has neither the stall timer nor the signal of
  Stop (`src/ai/agent/subagent.ts:57`).

## 6. Not modelled, and what is left

- *Folders in `SyncSystem`, and the deletion of a workspace with clients connected.*
  Folders would add a third kind of entity whose parent is looked up in the
  store; the server side of both is in `SyncServer`.
- *The BroadcastChannel between tabs and the repetition of failed saves*
  (`persistence.ts`): one handler each, described above; a module would state
  that tabs agree in the end, which they do not promise.
- *Offline queue* (`lib/offline/queue.ts`): a loop over a local table that nothing
  else writes while it runs.
- *Infrastructure*: the rate limiter, CORS, mail and statistics have no state that
  another part reads.
- *The rest of the AI assistant*: the modal (`AIModal.tsx`) has a loop of its own over
  the same permissions, without plans and with one question at a time; prompts,
  sessions and what the tools do are data or one request each.
- *Request execution, proxy, test runner, command line runner*: one
  request after the other to foreign servers, whose answers decide everything.
- *Import, export, OpenAPI, static analyser, mock engine*: conversions of whole
  documents, too large in data for a model checker, with no protocol around them.
  They make up most of the lines of the repository, with the views.
- *Web views, desktop shell, admin console, landing page, documentation*: views of
  state that is modelled, static pages, tooling.

No theorem about a checked safety property is left.  What a further one would be
about are statements no run makes yet, such as what holds of the copies of a
client whose pulls overlap.

## 7. Running

```
tlc -config SyncPair.cfg MCSyncSystem.tla       # one run
tlapm SyncServerProofs.tla                      # one proof module
```
