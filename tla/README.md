# poplar in TLA+

A verification project for poplar, a terminal mail client for JMAP servers. It
models the parts whose correctness lies in the order of things: the durable
intent queue and its dispatcher, the store's writer and its mail tables, the sync
cycle, the push loop over its transport, startup, recovery and shutdown, and the
terminal shell.

* TLC checks the models on small instances (`MC*.tla`, `MC*.cfg`).
* TLAPS proves theorems about them for every value of the constants (`*Proofs.tla`).
* `PROJECT.json` maps each definition to the code it stands for, and lists the
  runs, the mutants that show each property can fail, the findings and the
  hazards.

Run a check with `tlc -config MCOutbox_fill.cfg MCOutbox.tla`, a proof with
`tlapm OutboxProofs.tla`.

## 1. The system

poplar is one process per account and data directory. Inside it:

| Component | Where | State it keeps | Operations | What makes it correct |
|---|---|---|---|---|
| Outbox | `internal/outbox` | the `outbox` table: one row per intent (kind, payload, state, attempts, next attempt, error class); per pass: the claimed rows, their outcomes, the server ids of creates | `EnqueueCreateMailbox`, `EnqueueRenameMailbox`, `EnqueueDeleteMailbox`, `EnqueueMoveMessagesBulk`, `Undo`, `DispatchOnce`, `ReclaimOrphaned` | no intent lost or doubled; claimed rows untouched by others; replay harmless; references between intents resolved; every intent ends |
| Store writer | `internal/store/writer.go` | two lanes of jobs (interactive, bulk), the idle timer, the revision | `Interactive`, `Bulk`, `Close`; checkpoints after bulk work and when idle | jobs serial and atomic; interactive first; a caller's answer tells the truth; the revision is never ahead of what is committed |
| Store reads | `internal/store/read.go` | the read pool | list, get, probe | a result is never labelled with a revision later than its data |
| Store mail | `message_write.go`, `mailbox_write.go`, `mailbox_role.go`, `queries.go` | messages, mailboxes, the association between them, roles | upsert, delete, repair of associations, role resolution, keyset listing | memberships converge whatever order records arrive in; one mailbox per role; a window skips and doubles nothing |
| Store recovery | `recovery.go`, `migrate.go` | the database file, its sidecars, the quarantined copy, the clean-shutdown marker | `Open`, `CheckIntegrity`, `Recover`, `MarkCleanShutdown`, migrations | nothing only this machine knows is dropped; the marker attests to the run that just ended |
| Sync worker | `internal/sync/{sync,apply,resync,bulk}.go` | a watermark (server state, local revision) per kind | `SyncKind`, `fullResync`, `applyChangeSet` | the watermark never runs ahead of the records; a resync deletes exactly what is gone |
| Push loop | `internal/sync/push.go`, `jmap/eventsource.go`, `jmapsource/push.go` | stream health, backoff, a one-slot notification channel | `RunPush`, `Listen`, `consumePush`, `reconnect` | no change stays unsynced; an outage is reported once; no hot loop |
| Backend and JMAP client | `internal/backend`, `jmap` | session, capabilities | `ApplyBatch`, `CreateMailbox`, `FindMailboxes`, `Changes`, `Listen` | failures land in the right class; per-object results stay with their object |
| Process | `cmd/poplar`, `internal/platform/lock.go` | the instance lock, the goroutines | startup order, connect retry, dispatch loop, shutdown order | nothing touches the store before the lock; the sweep precedes the dispatcher |
| UI shell | `internal/ui` | screen stack, dialogs, toasts, status line | key and message handlers | a dialog's answer goes to what asked; a toast expires once |
| Errors, theme, keyring, tools | `internal/uerr`, `theme`, `keyring`, `tools`, `scripts` | a log file | -- | -- |

How they meet. The UI and the sync worker never write to the server: they
enqueue intents and read the store. The outbox and the sync worker write through
the store's single writer, each write being one transaction. The dispatcher and
the sync worker talk to the server through `internal/backend`. The dispatch
loop (`runDispatchLoop`) calls `DispatchOnce` once per interval, the push loop
calls the sync worker. All of it dies at once when the process does; the database
and the server stay.

What is hard. A dispatch pass is not one transaction: it claims rows, makes one
or more requests, records server ids as it goes, and finalizes; callers, the
sweep, other clients, lost answers, failed transactions and a crash can come
between any two of these. Intents refer to each other by row id, and row ids are
given again. The sync cycle reads a server that changes between pages. The push
loop must tell a broken stream from a quiet one. Recovery replaces the database
while other state names its rows. `PROJECT.json` lists these as hazards, each at
its line, with the property that watches it or why none does.

## 2. Modules

| Module | What it is | Component |
|---|---|---|
| `Outbox` | the intent queue, its callers, the dispatcher, the server it talks to | Outbox, part of Backend, the dispatch loop |
| `IntentQueue` | the abstract specification: what the outbox promises of an intent | Outbox |
| `MCOutbox` | the requests, delays and server of the instances TLC checks | -- |
| `StoreWriter` | the two lanes, the goroutine that serves them, the revision and what readers label with it | Store writer, Store reads |
| `StoreWriterProofs` | types, true answers, labels, the end of the writer, precedence of interactive jobs | -- |
| `ChangeLog` | an account as its server keeps it: the changes to one kind of record, in order | the server (external) |
| `SyncWorker` | `SyncKind`, its fallback `fullResync`, and the listings of the JMAP source they read | Sync worker, part of Backend and of Store mail |
| `Replica` | the abstract specification: what the sync worker promises of the local copy | Sync worker |
| `MCSyncWorker` | what the server holds before the first sync, in the instances TLC checks | -- |
| `PushTransport` | the event source and the JMAP source's `Push`: one connection, its silence, the notification slot, the stop handed on | Push loop, JMAP client, Backend; the server (external) |
| `PushLoop` | `RunPush` over it: streams, coalescing, polls, backoff, health | Push loop |
| `PushLoopProofs` | types, the stall window, that reopening backs off, that every change is owed a sync | -- |
| `StoreMail`, `MCStoreMail` | the mail tables, roles, paging, and intents that name rows | Store mail |
| `Startup`, `MCStartup` | processes around one store file, from the lock to the marker | Store recovery, Process |
| `ShellLayout` | the formulas of what a terminal of a given size shows | UI shell |
| `Shell`, `MCShell` | the root model and the messages under way | UI shell |
| `ShellProofs` | the panes fit and the bands tile, at every size; screens and timers | -- |
| `OutboxProofs` | type correctness of `Outbox` | -- |
| `OutboxSafetyProofs` | every safety invariant of the outbox, and that it implements `IntentQueue` | -- |
| `SyncWorkerProofs` | types, the honest watermark, deletes, and that `SyncWorker` implements `Replica` | -- |
| `StartupProofs` | types, engines and store, the marker, intents across recovery | -- |
| `StoreMailProofs` | types, memberships, roles, and paged windows | -- |

### 2.1 Outbox and the code

State. `rows` is the table (`Row`: the columns a decision depends on). `log` is
history, no part of the program: each intent ever enqueued with what was asked
and its fate. `handle` is what enqueues have returned to callers, `bulk` the
`EnqueueMoveMessagesBulk` call each goroutine of `Caller` is making: calls overlap, and
single enqueues and Undos come between two chunks of one. `phase`, `claim`, `decided`,
`resolved`, `stopped`, `newSid`, `out` and `after` are the locals of
`DispatchOnce` and what it calls: the claimed rows, the `finalizeAction` owed to
each, `resolvedCreates`, whether a connection failure ended the attempts, the
server id at hand, the outcomes of a batch, and the page cursor of
`resolveDependentRefs`. `up`, `polled` and `stranded` belong to the process.
`boxes`, `nextSid`, `at`, `mover` and `applied` are the server's; `known` and
`knownMsgs` say what the local copy holds.

Actions. A pass is cut exactly where something else can come between:

| Action | Code |
|---|---|
| `EnqueueSingle`, `BulkStart`, `BulkChunk`, `BulkFails`, `Compensate` | `enqueue.go`: one transaction per intent or chunk, and the compensation of a failed call |
| `Undo` | `undo.go`: annihilates those of the ids still queued |
| `Probe`, `Claim`, `ClaimFails` | `HasEligibleIntents` on a read connection; then the claiming transaction with its row and message budgets |
| `Abandon`, `FailUnsent`, `CallFails` | a stopped pass; rows refused without a request; a request that fails whole |
| `MoveCall`, `CreateCall`, `CreateRefused`, `RenameCall`, `DeleteCall` | the requests, with per-object refusals and lost answers |
| `Adopt`, `Refile` | `adoptMailbox` after a refused create, and the moves again |
| `Replay`, `Persist`, `ResolvePage`, `ResolveEnd`, `RecordFails` | recording a create's server id and rewriting the rows that name it, page by page |
| `Finalize`, `FinalizeFails`, `Recover`, `RecoverFails` | the finalizing transaction and the one that recovers from its failure |
| `Tick`, `Crash`, `Restart` | the dispatch interval; the end of the process; startup with `ReclaimOrphaned` |
| `SyncPull`, `OtherClient` | external: the local copy catches up; another client changes the account |

Data is abstracted. Time is counted in dispatch intervals, and a pass is one
instant of it. A backoff table `Delays` stands for `backoff(attempt)`; its last
entry repeats as the 30 s cap does. Messages and names are model values;
`Fold` says which names the server refuses as siblings (the server ignores
case, `FindMailboxes` does not). Budgets (`ChunkSize`, `WireBatch`, `ClaimRows`,
`ClaimMessages`, `RefPage`) are constants, small in the instances so that they
are reached. Row ids are those SQLite gives to an `INTEGER PRIMARY KEY` without
`AUTOINCREMENT`: one more than the greatest in the table, so the id of a deleted
last row is given again. `Trim`-like conversions, logging and error texts are
left out.

`Name_Variant` definitions are slips of the code kept beside the definition they
would replace; `PROJECT.json` pairs each with the property that notices it.

### 2.2 IntentQueue

An intent is enqueued once; it can be undone while it waits and never once
claimed; the server makes its effect only while it is claimed; it is delivered
only if the effect was made; else it is given up or waits again. `Outbox`
implements it with `life` (the row's state, or the fate the history records) and
`effect` (`applied`).

### 2.3 SyncWorker and the code

One behaviour syncs one kind, chosen in `Init`: a flush runs the kinds one after
the other in one goroutine and they share no row.

State. `rows` and `wm` are the store's: the kind's rows by internal id, and the
state token of its watermark. `pc`, `tok`, `resync`, `page`, `keep`, `after` and
`stale` are the locals of `SyncKind`, `fullResync`, `applyChangeSet` and
`deleteStale`: the token asked from, the page at hand less what is applied, the
server ids listed, the scan's cursor, the rows of a scan page yet to delete. `log`,
`oldest` and `stuck` are the server's. `from`, `torn` and `buried` are history.

A state token is a position in `log`, a record's version the position of the
change that gave it. A record fetched by id is fetched as it is *then*, so a page
about older states carries newer versions, and a record destroyed since is in none
of its lists but the destroyed one. The server may answer a changes request up to
any state between the one asked from and its own, and may leave out a record both
made and destroyed since. A baseline listing goes newest first by received date:
records are numbered by it, and may be made in any other order.

| Action | Code |
|---|---|
| `Begin` | `SyncKind`, `loadWatermark` |
| `Fetch`, `FetchRefused`, `FetchReset` | one `Changes` call: a page; a page with more to come and no new state, which `checkStateAdvanced` refuses; an expired state, which starts `fullResync` |
| `ApplyCreated`, `ApplyUpdated`, `ApplyDestroyed` | one `bulkChunk` of one list of `applyChangeSet`, one transaction each |
| `Scan`, `DeleteStale` | a page of `scanStale` on a read connection; one chunk of deletes of what it found |
| `Save` | the watermark's transaction; a changes cycle goes on while there is more |
| `Stop` | a request or transaction fails, the context is cancelled, or the process ends: all leave the committed rows and watermark and lose the locals |
| `Change`, `Forget`, `Wedge`, `Unwedge` | external: the server changes, forgets old states, answers without moving |

Left out: the watermark's local revision, which nothing in the cycle reads; the
wait for a quiet interactive lane between chunks, which delays a chunk and changes
nothing; the set of self-made changes to skip, which nothing fills; associations
between messages and mailboxes (they are `StoreMail`'s). A request is one instant
at the server, though the JMAP request of a listing holds two calls.

### 2.4 Replica

Each record is absent from the copy or held at a version it has had. A step moves
records to later versions, or drops records the server has destroyed; what is
dropped never returns. `SyncWorker` implements it with `Copy`, the version of each
record's row.

### 2.5 StoreWriter and the code

State. `pc` and `told` are the callers': where each is in `enqueue` and the answers it
has had. `lane` holds, in order, the callers that stand in the `select` on each
unbuffered channel. `writer` and `job` are where `run` is and whose job it has; a
transaction is its caller's call number in `committed`. `recent` is
`RecentInteractiveActivity`. `closing`, `rev`, `stamp` are the call of `Close`, the
revision counter, and the revision a read captured before its query. `results` and
`passed` are history.

| Action | Code |
|---|---|
| `Submit`; `Yield`, `SubmitBulk` | `submit`; `runBulkChunks`, which waits for a quiet interactive lane, and `submitBulk` |
| `GiveUp`, `TurnedAway` | the cases of `enqueue`'s select on the context and on stop (and the wait in `runBulkChunks`) |
| `Check`, `Select`, `IdleCheckpoint`, `Exit` | `run`: the non-blocking check, then the blocking select |
| `Commit`, `Advance`, `Fail`, `Passive` | `execute`, the answer, and the checkpoint after a bulk job; the commit and the count that follows it are two steps, as a reader can come between |
| `Close`, `Closed` | `Close` stops the writer; it returns once the writer has exited. A later call of `Close` only waits for the same end |
| `Stamp`, `Query` | `listMailbox`, `MailboxRowDetails`: the label, then the rows of one snapshot |
| `Quiet` | the quiet window passes |

`Outbox` and `SyncWorker` take transactions as atomic, serial and truthfully answered;
`AnswersAreTrue` is what they rely on.

### 2.6 PushTransport, PushLoop and the code

`PushLoop` EXTENDS `PushTransport`: two goroutines, joined by the channels of one
`Listen` call.

State. `transport` is what the backend has: no push, the JMAP source's, or one that
ends without saying why, which the seam allows. `conn`, `alive`, `event`, `quiet` and
`window` are the connection: where `eventsource.go` is with it, whether the network
still carries it, whether a state event is on its way, the silence so far and the stall
window. `stream` is the `Listen` call's: its slot, and whether `ch`, `opened` and
`stopped` are closed. `stop` is `pushSource.stopped`. `pc`, `after`, `todo`, `gathering`
and `proving` are where `RunPush` is, `push` its `pushState`, `failing` its
`syncFlushState`, `status` what it last reported. `behind` is the server's: the kinds with
a change the store has not pulled. `reopens` is history.

| Action | Code |
|---|---|
| `DialFails`, `Refused`, `Accepted`, `Connected`, `Lost`, `Stall`, `Redial`, `ContextSeen` | `Client.Listen` and its read loop: a connection refused for good ends it, anything else is dialled again |
| `StateEvent`, `PingEvent` | what the read loop decodes; a ping sets the stall window by its clamped figure |
| `NoteStop`, `CloseChannel`, `CloseStopped` | the last steps of the goroutine of `pushSource.Listen` |
| `Listen`, `Opened`, `NotOpened` | `pushSource.Listen`, which reports the last stop first, and `reconnect` |
| `Take`, `WindowOver`, `Proved`, `ChannelClosed`, `Stopped` | `consumePush` and what follows it |
| `KindSynced`, `KindFails`, `KindCancelled`, `FlushOver` | a flush: one `SyncKind` per kind, mailboxes first |
| `WaitOver`, `Poll`, `PollKinds` | `sleepBackoff` with its poll ticks, and the loop of a backend with no push |
| `ServerChange`, `WireDies`, `Silence`, `Cancel` | external: the server, the network, time, and the end of the program |

Time is counted in half minutes of silence on the open connection, which is where a
duration decides something. A server pings at least as often as it says it does
(`ServerPings`); it may say zero, a figure too large for a Duration, or a cadence slower
or faster than what was asked.

### 2.7 StoreMail and the code

State. `boxes` and `msgs` are the `mailbox` and `message` tables by row id, `members` is
`message_mailbox` with the date and unread mark it repeats, `walk` a reader's window with
the history of what stayed put since it opened, `intents` queued intents, of which only the
row named and the message meant matter.

`InsertMailbox`, `UpdateMailbox` and `DeleteMailbox` are one record of a sync's
transaction: the row, role resolution over the account, and `RepairMailboxAssociations`
for a new row. `UpsertMessage` and `DeleteMessage` write the row and `SyncMessageMailboxes`,
or the cascade. `OpenWalk`, `ListMailboxForward` and `ListMailboxBackward` are pages by
keyset. Roles are computed by `classifyMailboxRole` and `resolveMailboxRoles` over a small
table of spellings: folded, declared, guessed, and declared as something that is none of the
special uses.

### 2.8 Startup and the code

State. `db` is the store at the path, with its schema version, whether it is sound, its
rows by id and the intents that name them; `aside` the file `Recover` has moved away,
`archived` the intents of files nobody moves back, `marker` the clean-shutdown marker,
`lock` the flock. `pc`, `mode` and `engines` are each process's. `kept` is what
`extractPreserved` read, and before that the version `prepareStore` noted. `net` is what a
connect made now would meet: a server that accepts the token, one that denies it, one that is
busy, or a captive portal's page that no layer recognises. `Raw`, `Class` and `Fatal` are the
class `Dial` gives each, `classifyConnect` with its default, and `isFatalConnect`.

Each action is a step of `run`, `prepareStore`, `Recover`, `runInteractive`, `retryConnect` or the
deferred cleanups, in the order of the code, with a step for each early return (`StartFails`,
`MigrateFails`, `TooNew`, `CheckFails`, `QuarantineFails`, `RebuildFails`, `CloseFails`,
`MarkFails`). `Kill` may come at any of them and may damage a store a write connection was using
(`Writing`): `prepareStore`'s while a migration is owed and while it checks, `rebuildAt`'s, and
the writer's. A kill stands for a power loss as well. The kernel drops the lock of a dead process.
The database file moves together with its WAL and shared-memory files. Damage is found by the
check, and a damaged table is read up to where the damage is. Whether `--rebuild-index` was asked
is nondeterministic. Local drafts, which recovery also preserves, are left out: they are preserved
as the intents are.

### 2.9 ShellLayout, Shell and the code

One action per message of `App.Update`. State: the layout and theme, what the surface screens were
last told of them, the stack of pushed screens (help with its scroll, or the quit dialog), the
banner, the outbox count, the spinner, the toast with its undo offer, the wheel gesture, and
`inbox`: how often each message the program has asked of its runtime is under way. Messages come
in any order; a timer may be late by anything. A key is looked up as `handleKey` does, and does
nothing when nothing claims it; a click is the key its cell stands for (`Painted`). That the
terminal answers the background query once (`~bgAnswered`) is an assumption about the terminal:
the handler would take a second answer. `ShellLayout` has `classifyWidth`, `classifyHeight`,
`dropPanes`, `readerCard` and `ComputeLayout` as they are, over numbers of rows and columns.

No code of the repository sends an undoable `ToastMsg` or a backfill's progress yet; the
shell's handlers for both are there and are modelled.

## 3. Runs

| Run | Properties | What it asks |
|---|---|---|
| `outbox_fill` | `TypeOK`, `NothingLost`, `RefsResolved`, `FiledAsAsked`, `OnlyACrashOrphans`, `ImplementsIntentQueue` | creates of a new folder and of one whose name is taken, and two-chunk moves into them by two goroutines, undo and reuse of row ids, one lost answer, failed transaction, crash or act of another client anywhere |
| `outbox_live` | `ClaimDiscipline`, `DeliveredWasApplied`, `LandedCreateSucceeds`, `Drains` | a create, a rename, a delete, a move to a mailbox and an undoable one into the create, any three refusals, failures, lost answers, failed transactions or crashes, under fairness |
| `outbox_moveoutlives` | `MoveOutlivesItsCreate` violated | see findings |
| `sync_cycle` | `TypeOK`, `WatermarkHonest`, `StaleIsGone`, `ImplementsReplica`, `CycleEnds`, `Converges` | three records, of which two exist at the first sync, messages or mailboxes, pages and chunks of one, a draft only this machine knows, two changes and three stops, forgotten states or stuck servers anywhere |
| `sync_message` | `NothingForgotten` violated | see findings |
| `writer_lanes` | `TypeOK`, `AnswersAreTrue`, `LabelNeverAhead`, `ClosedIsQuiet`, `PassedOnce`, `AllAnswered` | two interactive and two bulk callers, cancellation, failed transactions and `Close` anywhere, and a reader |
| `push` | `TypeOK`, `StallWindowFits`, `ChangeCovered`, `ReopensBackOff`, `ChangePulled` | no push, the JMAP source's, and one that never explains a stop; a server that refuses, drops, goes silent, misreports its pings and changes at any moment; cancellation anywhere |
| `startup_life` | `TypeOK`, `StoreOutlivesEngines`, `RunsSoundUnlessStale`, `IntentsSurvive`, `FolderIntentsKeep`, `RetrySettles` | two builds started over one store file up to three times and killed up to twice, at any step, with a network that accepts, denies or is a portal |
| `startup_stale` | `RunsSound` violated | see findings |
| `mail` | `TypeOK`, `MembershipTrue`, `RoleHeldOnce`, `WindowWhole` | mailboxes and messages made, changed and deleted in every order while a reader pages |
| `mail_reuse` | `ReferentsKeep` violated | see findings |
| `shell_keys` | `ScreensFit`, `TimersLive` | keys, clicks, wheel, resizes and engine messages against the timers and answers under way |

The properties:

* `ClaimDiscipline` -- while a process runs, the rows in `dispatching` are its
  pass's claim and the rows a failed recovery stranded, disjoint, and each claimed
  row is still the intent claimed.
* `NothingLost` -- an intent with no fate has exactly one row.
* `DeliveredWasApplied` -- `delivered` is never said of an effect the server did
  not make whole.
* `LandedCreateSucceeds` -- a mailbox that was made is never reported as failed:
  the replay adopts it.
* `RefsResolved` -- once a create is delivered no row that named it while it was
  queued still holds its row id.
* `FiledAsAsked` -- a moved message is in the mailbox its own move asked for, by
  id or by the name its create asked for, if that create was still queued under its id when
  the move's chunk was enqueued. A chunk enqueued later than that is exempt, and rightly:
  between two chunks the create can be delivered or undone and its row id given to another
  caller's create, into whose mailbox the chunk then goes (`ChunksFiledTogether`, section 5).
* `OnlyACrashOrphans` -- no step but the end of the process leaves an intent still to be
  settled that no caller knows: neither returned to one nor in the hands of a bulk call that
  has yet to compensate, whatever other calls and passes do meanwhile.
* `ImplementsIntentQueue` -- section 2.2.
* `Drains` -- every intent ends, unless a failed recovery has stranded its row.
* `WatermarkHonest` -- a record alive at the watermark's state, and still, has a row,
  and no row is behind that state, but for the records listed in `torn`: those that
  changed during the listing the watermark rests on, or that a stopped cycle made rows
  of and no saved watermark has seen. `NothingForgotten` is the claim without them.
* `StaleIsGone` -- only rows of destroyed records are deleted: the listing of a resync
  never misses a record that lives, and rows only this machine knows are left alone.
* `CycleEnds` -- a cycle ends whatever the server answers.
* `Converges` -- once the server answers properly for good, copy and watermark come
  to equal what the server has and stay so, but for `torn`.
* `AnswersAreTrue` -- a job told `ok` is in the store, once; one told anything else is not
  and never will be.
* `LabelNeverAhead` -- a result is not labelled with a revision its rows have not seen.
* `ClosedIsQuiet` -- once `Close` has returned no job is under way and each commit counted.
* `PassedOnce` -- at most one bulk job goes before an interactive one that waits.
* `AllAnswered` -- every interactive offer is answered, and after `Close` every offer.
* `StallWindowFits` -- a connection that works is never aborted as silent, and a dead one
  is noticed, whatever cadence the server advertises.
* `ChangeCovered` -- while a stream is in force each change the server holds is owed a
  sync: a state event, a notification, an open window or the flush under way has it. And no
  coalescing window outlives its stream.
* `ReopensBackOff` -- every call of `Listen` since a stream last proved itself has moved
  the schedule on, and from the third the user has been told.
* `ChangePulled` -- every change is pulled, or its sync was tried and failed, or the
  program is leaving.
* `StoreOutlivesEngines` -- no engine runs once the store is being closed, one the connect
  retry started late included.
* `RunsSoundUnlessStale` -- a store a kill may have damaged is never run on, except after a
  run wrote it with an earlier run's marker still in place (killed in its migrations, gone into
  recovery from a failed one, or unable to remove the marker), until a run has ended cleanly on a
  sound store. `RunsSound` is the claim without the exception (section 5).
* `IntentsSurvive` -- whatever fails, an intent the server has not had is in the store or
  in a quarantined file.
* `FolderIntentsKeep` -- an intent on a folder means the folder the user saw, across a
  recovery and the sync after it, unless a damaged mailbox table was read in part.
* `RetrySettles` -- a process that runs without engines, while the server is there and keeps
  accepting or refusing its credential, gets its engines or gives up; and it gives up only over a
  refusal it has met itself, of the credential or of the account row, never over a failure that
  may pass, a portal's unrecognised page included.
* `MembershipTrue` -- a message is listed in exactly the mailboxes with a row that the
  server put it in, once, under its current date and unread mark.
* `RoleHeldOnce` -- a role has one holder, and nobody holds one they do not claim.
* `WindowWhole` -- a window paged both ways shows each message that stayed put between its
  edges once and in order.
* `ScreensFit` -- whatever resize, `Esc` or engine message came last, every screen, pushed
  or out of sight, knows the layout and theme in force and scrolls within it, and a banner
  is kept just where it can have a row; at most one screen is pushed.
* `TimersLive` -- an open toast, a turning spinner and an open wheel gesture have exactly
  one timer under way each.

### Bounds, and why they are enough

Two or three intents are enough for every pair that matters: a create and a move
into it, a parent and a child, an intent and the one that gets its row id, two
chunks of one call. Two messages fill two chunks, and let one be refused while
the other goes. `ChunkSize`, `ClaimMessages` and `RefPage` are 1 or 2, so
each page or budget ends in the middle. Two goroutines are the fewest whose bulk
calls overlap. `MaxFaults` bounds the adverse events of
a behaviour: one where callers and requests are many (each fault may come at any
point), three in the liveness run, where faults must combine (a lost answer, then
a failed finalize, then a failed recovery). So a bulk call whose chunk fails and whose
compensation fails too is beyond `outbox_fill`: `NoChunkIsOrphaned` covers it for any number of
faults. `MaxIntents` bounds the history: three in `outbox_fill`, two in `outbox_live`. The
deadlock check is off because an idle client with nothing left to ask stops, a
state the program really reaches. Messages and callers are symmetric in `outbox_fill`, which
has no liveness property.

What `outbox_live` leaves out, because the property then fails by what the code does: with
another client at work a mailbox that landed can be gone or doubled before the replay, and
`LandedCreateSucceeds` does not hold; and a rename to a name that is taken, or a move into a
mailbox another client removed, is refused as a server failure and tried again for ever
(`isRetriable`), so `Drains` does not hold of either. The rename asked for there is to a free
name. The acts of another client are in `outbox_fill`; one of them makes a folder whose name
differs from the asked one in case only, which refuses the create and which its reconcile does
not adopt.

For `SyncWorker`, pages, chunks and scan pages of one make every step its own
transaction. Three records are the fewest where a listing of two can have one made
before, between or after; two changes beyond the genesis allow a shift of positions
together with a later update. Three adverse events allow a forgotten state, a stop
inside the resync that follows, and another. The deadlock check is off: with
`MaxLog` changes made and no faults left, nothing but the worker moves, and a worker
that keeps finding the server stuck only repeats itself.

For `StoreWriter`, two bulk callers are needed for one to be passed twice, two
interactive ones to wait for each other. One call each is enough for the lanes. The
deadlock check is off: when all calls are made and the writer has exited nothing is left
to do.

For `PushLoop`, two kinds let a flush be half done; figures of nothing, the real cadence,
one longer than the ceiling and one no Duration holds are the cases of the clamp; backoff
bounds of two and four make the delay zero or not and reach the cap. `ReopenCap` caps the
attempt, whose delay is capped long before, and the history; three is where the user must
have been told. The deadlock check is off: a cancelled loop ends.

For `Startup`, two builds give an upgrade, a downgrade and two instances at once. Three starts and
two kills allow a damaged store, a recovery that is killed, and the start after it. A busy server
and a portal differ only in the class `Dial` gives them; the run has the portal, whose class comes
from `classifyConnect`'s default. One message and two folders are enough for a row id to be given
to another folder. The deadlock check is off: with no start left all processes end.

For `StoreMail`, two mailboxes and two messages, two row ids each, pages of one and windows
of three rows. `Focus` keeps apart what does not meet: spellings and intents vary with one
message and no window, unread marks vary with no window, and windows are opened over
mailboxes of one spelling. It is a constraint of the run, not of the model. No deadlock.

For `Shell`, the four sizes are one below the floor, one short, one full and narrow, one
full and wide. An undo window of two seconds lets it tick and expire; two timers in all let
one be replaced by another; at most two equal messages are under way. `Focus` lets one of
the spinner, the wheel, the theme, the surface in front and the outbox count stir in a
behaviour: no handler reads two of them. Help's text has the number of lines the registry
gives it, and the footer's hints fit wherever a footer is painted. The deadlock check is
off: the program leaves. There is no type invariant: the properties mention every
variable.

### Fairness

`FairSpec` assumes weak fairness of `Dispatch` (the dispatch loop is a goroutine
that runs until the process ends; each step of a pass follows the one before, and
each request answers or times out), of `Tick` (its ticker), of `Restart` (the
program is started again), and of `BulkChunk` and `Compensate` (a bulk call is a
loop that returns). Nothing is assumed of callers starting calls, of sync, of
other clients, or of any fault; faults are finite by `MaxFaults`, which is the
usual assumption that the network is not down for ever.

`SyncWorker` assumes weak fairness of `Work` only: the push loop, or its poll, calls
`SyncKind` again and again, and a cycle is one goroutine whose requests answer or
time out. Nothing is assumed of the server; `Converges` has its getting unstuck as a
premise, and stops are finite by `MaxFaults`.

`StoreWriter` assumes weak fairness of `Run` (the writer's goroutine, whose
transactions end) and of `TurnedAway` (a select takes a case that stays ready). Bulk
callers are promised nothing before `Close`: they yield to interactive use by design.

`PushLoop` assumes that the goroutines run and timers fire (weak fairness of `RunPush`,
`WindowOver` and the transport's steps), that a state event arrives on a connection that
works and silence passes on one that carries nothing. It assumes strong fairness of `Waits`
and `Poll`: jittered delays are not zero for ever, and a wait whose ticker keeps ticking
polls some time. No sync, dial or refusal is promised to go one way. `ChangePulled` has as
its premise that one `Listen` does not dial for the rest of the run (section 5).

`Startup` assumes weak fairness of a process's own steps while it starts and leaves, and of
`Retry`, the next attempt of `retryConnect`, whichever way it goes: `SleepBackoff` pauses no
longer than its ceiling. Nothing is assumed of the network, which is `RetrySettles`' premise, nor
of starting, killing, syncing or quitting. `StoreMail` and `Shell` state no liveness: their steps
are other components' or the user's.

## 4. Proofs

`OutboxProofs` proves `TypeCorrect == Spec => []TypeOK`. The invariant is
inductive; there is a lemma for each action, resting on frame lemmas for the
parts of the state a step leaves alone, on lemmas for the helpers (`Put`,
`Over`, `Min`, `Max` over sets of naturals, sequences rewritten in place) and on
`NextIdFresh`, that the id the table gives next belongs to no row.

`OutboxSafetyProofs` proves every other safety property of the outbox. In the order in
which they rest on each other:

* `NothingIsLost == Spec => []NothingLost`. Every step either adds one row of a
  new intent (`Added`) or drops rows together with the `live` fate of exactly
  their intents (`Dropped`); both keep the one-to-one match of live intents and
  rows. It needs `TypeOK` for the freshness of ids and of intent numbers.
* `ClaimsAreDisciplined == Spec => []ClaimDiscipline`. Not inductive alone: that
  `Finalize` and `Recover` return exactly what was claimed needs `decided` and
  `claim` to have the same rows then, and that the sweep finds nothing claimed
  needs a dead process to hold nothing. `PassShape` states both, and
  `Disciplined == PassShape /\ ClaimDiscipline` is inductive under `TypeOK`.
* `DeliveriesAreReal == Spec => []DeliveredWasApplied`. `Honest` adds that a decision or
  a batch answer "delivered" is of an applied intent, that the create under way is applied
  once the pass records it, and that a row carrying a server id is of an applied create:
  the last is what a replay after a crash relies on.
* `OutboxIsAnIntentQueue == Spec => ImplementsIntentQueue`, the refinement, step by step:
  `Life` is read off the table and the history (`Lives`), and each action is an `Enqueue`,
  `Undo`, `Claim`, `Act` or `Settle` of `IntentQueue`, or a stutter. From it follows
  `OutcomesAreFinal`: what is delivered, given up or undone stays so, and the server makes
  no more of it.
* `NoChunkIsOrphaned == Spec => OnlyACrashOrphans`, for any callers and any overlap of their
  calls: no step adds to `Orphans` except the death of a process, which forgets all handles. It
  needs `RowsNamed`: a row still has the id its enqueue returned.
* `ReferencesAreResolved == Spec => []RefsResolved`. `Resolved` has four parts: `References`
  (what a payload says of the create it names), `ParentsHeld` (the id a row refers to is
  below its own, so it is not given again while the row lives), `Underway` (the create of a
  pass that records is a create) and `Walked` (no row the paged walk has passed still
  waits). That a page passes every row up to its last one, and that an empty page ends the
  walk, are the cardinality lemmas `PagePasses` and `WalkEnds`; `NoNewWaiter`, that a
  claimed create gets no new dependents, is `Nameable`'s guard.
* `MessagesAreFiledAsAsked`: `FiledAsAsked`, if no caller renames mailboxes, and with the
  property's own exemption of chunks enqueued after their create left the queue. `Fitting`
  follows a reference from the request through row, claim, `resolved` and `newSid` to
  the messages: each mailbox id on that way bears the name the create asked for. A rename
  changes that name and falsifies the property, rightly.
* `LandedCreatesSucceed`: `LandedCreateSucceeds`, under `Undisturbed`: requests are creates
  in mailboxes of the store and moves, no other client acts, and no request is answered
  "not found". `Landed` (the server has exactly one mailbox of the name and parent of an
  applied create) is what makes the replay's adoption sure; `PlanKeeps` carries it to the
  finalize. Each hypothesis is needed: a rename, a delete or another client takes the
  mailbox away from the replay, a child of an unresolved parent is replayed elsewhere
  (`ChildUnderItsParent`), and "not found" ends an intent whatever it did.

`outbox_fill` satisfies the hypothesis of `MessagesAreFiledAsAsked`. `outbox_live` checks
`LandedCreateSucceeds` beyond the hypotheses of its theorem: with a rename and a delete, of two
intents. The proofs made `Outbox`'s assumption on requests say
that only a create or a move refers to another intent: `EnqueueRenameMailbox` and
`EnqueueDeleteMailbox` take a mailbox id and nothing else.

`StoreWriterProofs` proves every invariant of `writer_lanes`, for any callers, readers
and numbers of calls. `Shape` (types, who stands where, and that the writer has a job
exactly while it executes) is inductive. On it rest `Truth` (a commit is of an answered
call, or of the one whose count is yet to follow), `Counted` (the revision lags the
commits by that one, and no label is ahead of it) and `Passing` (in the blocking select
nothing has been passed yet): without the writer's place in them none of the three is
preserved by the two-step commit.

`ShellProofs` proves three facts about every terminal size, which tests sample:

* `NothingIsDropped` -- wherever a class of width wants a pane, all the panes it wants
  fit: `dropPanes` never drops, and the drop order decides nothing.
* `PanesFit` -- the rail, the content and the reader card lie side by side inside the
  terminal, none empty, and the card stays within its cap.
* `BandsTile` -- status row, banner, main band and footer tile the rows, and the main band
  has thirteen at least wherever chrome is painted.

They are case splits over the classes with linear arithmetic, and rest on no assumption.
Of `Shell`, for any sizes, surfaces and bounds (`ShellInputs`):

* `EveryScreenFits == Spec => []ScreensFit`. `Fitting` states the layout as the function
  `ComputeLayout` of the last size and of whether a banner wants its row, and the stack as
  empty or one screen that knows both layout and theme; `ScreensFit` alone forgets where
  the layout came from.
* `TimersRunOnce == Spec => []TimersLive`. `Timed` counts the ticks under way: those of an
  older generation are harmless, there is one of the present generation exactly while the
  timer is on, and none of a later one.
`PushLoopProofs` proves the four invariants of `push`, for any kinds, failure classes, server
figures and bounds; `TypeOK` is inductive and under the others.

* `StallWindowsFit == Spec => []StallWindowFits`. The property speaks of the window and the
  silence; `Watched` adds, for an open connection, that the window exceeds the real cadence
  and that a working one is never silent longer than that cadence. A ping that says
  anything else (zero, a negative figure, one no Duration holds) must leave it so.
* `ReopeningBacksOff == Spec => []ReopensBackOff`. What one stop counts depends on why it
  came and on where the loop is, so two strengthenings go under it. `StopKnown`: a stream
  that never opened has a reason by the time its end is seen, and that reason is
  cancellation only if the context ended. `Tally`: the reopenings are bounded by the
  attempt and, until the user is told, by the unproved stops, with one owed in between
  a stop and the wait that follows; a proof clears the count before the next stop.
* `ChangesAreOwed == Spec => []ChangeCovered`. Like the property it speaks of the time in which a
  stream is open and its connection works, exempts kinds whose sync failed and a run being
  cancelled, and says nothing of changes made while no stream is open: those are
  `ChangePulled`'s, which TLC checks. `Covering` says who owes each kind its sync
  while the connection works: an event or notification, a recorded failure, the flush
  that still has the kind to do, or a window gathering outside a flush. A window whose own
  flush is under way is no debt (the flush may be past the kind), which the property
  leaves open and the induction cannot.

They assume `ServerPings` (a server pings at least as often as it says, and more often than
twice the cadence asked for), `ClassesAreFailures` and `LoopInputs`.

`SyncWorkerProofs` proves the safety properties of `sync_cycle`, for any account, page,
chunk and scan sizes. They share one invariant, `Cycling` (`CyclingAlways`): `Typed`,
`Placed` (how a cycle's locals go together), `Truthful` (a row's version is one its record
has had, a page speaks of the state it was asked at, what was dropped is dead),
`ListingKept` (a resume token with `n` listed stands for the `n` newest records, in the
keep set, unless one was made or destroyed since), `Fresh` (listed rows are no older than
the listing's start), `Scanning` (rows behind the cursor are listed, or of dead records),
`Changing` (what a page of changes has yet to do) and `Seen` (between pages the watermark
has seen each row's record). From it:

* `TypeCorrect`, `WatermarkIsHonest == Spec => []WatermarkHonest` and
  `OnlyTheGoneAreDeleted == Spec => StaleIsGone`, the action property that no row of a
  living record is deleted;
* `RowsAreAReplica == Spec => ImplementsReplica`: an upsert is a `Refresh` forward, a
  delete a `Refresh` that drops dead records, and the rest stutters.

It assumes `SyncSizes` and `SyncInputs`, of which `Final(Genesis)` (a destroyed record
never returns under its id) is what makes a drop final.

`StartupProofs` proves the safety properties of `startup_life`, for any processes, builds
and numbers of starts and kills, from `StartupInputs` and `NobodyIsNone`:

* `TypeCorrect`, which includes that a process past `AcquireInstanceLock` holds the lock,
  and `EnginesEndFirst == Spec => []StoreOutlivesEngines`.
* `Stage` ties the files to where the lock's holder is (`Where`): which steps have a store,
  which have one moved aside, and what `kept` then is. The other three rest on it.
* `DamageIsChecked == Spec => []RunsSoundUnlessStale`, with `Vouched`: unless a marker has gone
  stale, a damaged store has no marker, none is left past the step that consumes it, and from the
  check to the next marker the store is sound. A kill inside a migration, before the marker is
  consumed, is one of the ways it goes stale. The attempt to prove it showed that the harm of a
  stale marker is handed on: a run on a damaged store that ends well leaves a marker of its own.
  The history variable `outlived` is therefore cleared by a marker only if the store it attests to
  is sound.
* `NoIntentIsLost == Spec => []IntentsSurvive`, from `Held`, the intents of all files.
* `FoldersKeepTheirIntents == Spec => []FolderIntentsKeep`, with `FoldersNamed`: each file's
  folder intents name rows of that file, and `kept` names nothing more than the file it was
  read from. Runs after a recovery that read the mailbox table in part are exempt.

`StoreMailProofs` proves the invariants of `mail`, for any looks, dates, pages and bounds,
from `MailInputs`:

* `MembershipsAreTrue` and `OneHolderPerRole`, from `Data`: the membership table is at every
  moment the one the mailboxes and messages call for, and a role is held once. A repair for
  one new mailbox and a rewrite for one message both yield that table.
* `WindowsAreWhole == Spec => []WindowWhole`. `Windowed` adds to the
  property that the window's rows are in order whether their messages stayed put or not, and
  that those which did are shown at their present key: so a page that begins at an edge
  joins it without gap or overlap. That a page is the first rows of one order is a rank argument
  (rows are counted by those before them); the proof needs that a page is not longer than a
  window may grow, `Page <= MaxWalk`, which the run had by its numbers: the code has no such
  bound, and takes a first page whole.
* `TypeCorrect`, from both.

Apart from the hypotheses named, the `Outbox` theorems assume the named `ASSUME`s of
`Outbox` (sizes positive, delays natural, requests and the initial server well formed).
TLC evaluates the assumptions of every module in its runs.

Every invariant, and every action property or refinement, of the passing runs is so proved, two of
them under the hypotheses said. Out of the prover's reach, and left to TLC: `Drains`, `CycleEnds`,
`Converges`, `AllAnswered`, `ChangePulled`, `RetrySettles` (liveness, `ENABLED`), and what a
recursive function computes for every input (`Group`'s running budget is kept opaque in the
proofs, which use only that its members are claimed).

## 5. Where documentation and code differ

Four have a run:

* `outbox_moveoutlives`. A move claimed without its create in the same pass, its create
  still waiting for another attempt, has no destination and is deleted as not found
  (`dispatch.go:1063`); `outbox.go:12` says it "resolves instead against the server id the
  create persisted".
* `sync_message`. A resync of messages lists them page by page and saves the state of the
  last page (`resync.go`); a record that changed after its own page and before the last one
  is not asked about again, though the doc has the watermark attest to what was applied. The
  run shows a row left behind with no fault at all.
* `mail_reuse`. Message ids are an `INTEGER PRIMARY KEY` without `AUTOINCREMENT`
  (`0001_initial.sql:42`): once the newest row is deleted its id goes to the next message
  synced, and a queued move of the deleted message then moves that one. The technical
  design says (line 395) that "a referent that no longer exists fails the intent into
  `not-found`".
* `startup_stale`. `prepareStore` migrates the store (`main.go:365`) before it consumes the marker
  of the run before (`main.go:375`), of which `recovery.go:40` says "it attests to the run that
  just ended". In the run an older build ends cleanly, a newer one is killed in its first
  migration and leaves the store damaged, and the older one, with nothing to migrate and a marker
  on disk, skips the check and runs on it. The same build does so too if the kill comes after the
  last migration. Two more ways to a stale marker end alike: a start that fails to migrate and
  recovers leaves it, and one that cannot remove it.

More are stated as properties of the modules that no run lists. Each is violated as soon as
it takes the place of the properties of the configuration named, changed as noted:

| Property | Configuration | What the code does | What the text says |
|---|---|---|---|
| `ChildUnderItsParent` | `MCOutbox_fill`, `Requests <- ReqNested` | a child create whose parent was undone, or failed in the same pass, is made at the root (`dispatch.go:813`) | `outbox.go:40`: the parent reference holds until the parent dispatches |
| `ChunksFiledTogether` | `MCOutbox_fill` | each chunk of a bulk move commits on its own (`enqueue.go:188`), by then the create it names can be delivered or undone and its id another create's, and the chunk is filed into that one's folder | `enqueue.go:126`: "destRef (a queued KindCreateMailbox intent's own id)" |
| `UndoTakesOnlyItsOwn` | `MCOutbox_fill` | a dispatched intent's row id goes to a later intent (`0001_initial.sql:222`), which a late `Undo` of the first deletes | `undo.go:11`: an id already gone "is left untouched" |
| `LaterRevisionLaterRows` | `StoreWriter_lanes`, one caller of two calls, two readers | a read takes its revision first and its snapshot later (`read.go:134`), so two concurrent reads can carry revisions in one order and rows in the other | `revision.go:6`: callers "order them with < or > instead of re-querying"; none does yet |
| `NothingForgotten` | `MCSyncWorker_cycle`, mailboxes only | a cycle stopped between its rows and its watermark has given a row to a record that a server may then leave out of the changes, as RFC 8620 allows of one made and destroyed since; the row stays (`sync.go:226`) | `sync.go:197`: a stopped cycle "re-runs the page from the watermark it already had" |
| `RolesFollowNames` | `MCStoreMail_mail` | deleting the mailbox that holds a role leaves another claimant without it until some mailbox changes its name (`mailbox_write.go:133`) | `mailbox_write.go:32`: roles are reclassified "on every write that can change a role" |
| `DiscardIsTold` | `MCShell_keys` | `q` with nothing to lose asks bubbletea for the end; an undo offer that comes in before the end does is lost unasked (`app.go:476`) | `app.go:472`: "quitting never discards either in silence" |
| `NoStreamStillPulls` | `PushLoop_push` | while the JMAP source's `Listen` keeps redialling, `RunPush` takes the stream to be on its way and never polls (`jmapsource/push.go:167`) | `sync/push.go:151`: a transport "polls through every window where it holds no open stream" |

Met while modelling, without a property: a create whose answer was lost and whose
mailbox was then renamed makes a second mailbox when replayed; a chunk of a bulk
move enqueued after its create was delivered keeps a reference nothing resolves
and is failed as not found; undoing or giving up a parent create leaves a child
naming a missing row; a move whose answer was lost can be undone though the
server has made it; a move that backed off can come after, and so undo, a later
move of the same message; a rename to a name that is taken is tried again for ever.

Of the push loop: a stream that proves itself and a poll's flush report `Synced` even while a
kind's sync fails; a failed flush is not tried again while the stream stays quiet. Of startup: a
kill between quarantine and rebuild leaves the intents in the quarantined file only, where no
start looks for them; a mailbox table read in part lets a restored intent name another folder; an
intent on messages names others once the rebuilt store has synced them in another order
(`recovery.go:514`), and no property covers it. Of the shell: below full height the log-fallback
banner, sent before the first resize, is shown as a toast; on a terminal tall enough but too
narrow a banner stays active unpainted and the next `Esc` dismisses it unseen; a second answer to
one dialog pops whatever is on top by then; keys still answer a dialog the floor leaves unpainted;
the quit dialog's text is of the moment it was pushed, and an offer or a count that comes in while
it stands is discarded by its yes unnamed; a count that comes in after `q` was answered with the
end is left behind unasked; the first outbox count and the bridge's next can cross; two loads of
the placeholder's counts carry nothing to order them by (`placeholder.go:183`).

## 6. Not modelled

In `Outbox`: a request that reaches the server after the client has given up on
it; rows of a kind or payload this build does not know; the prior-mailbox record
kept for a reverse move; a create the server accepts without returning an id. In
`SyncWorker`: see the end of 2.3. In `StoreWriter`: what a checkpoint moves, the busy
timeout lowered for a truncating one and restored, and reads that carry no revision. In
`PushLoop`: the fields of a health report, and how far apart poll ticks are. In `StoreMail`:
the full-text index, counts and sort order. In `Startup`: flags that only read or measure,
the read pool's own failures, and local drafts. In `Shell`: rendering, and the loads of the
placeholder screens.

Components without a module are listed in `PROJECT.json`. Theme, keyring and
development tools keep no state worth a model; wire encoding (`jmap`, `convert.go`) is not
about order; the test corpus of `storetest` is not part of the program.

## 7. Plan

Done: the modules of section 2, their runs, and a proof of each safety property. Next:

1. `MessagesAreFiledAsAsked` with renames: the mailbox bears the name asked for, or one a
   later rename of it asked for; and `LandedCreatesSucceed` with deletes of other mailboxes.
2. `RunsSoundUnlessStale` from what a marker attests to, without the history variable.
3. `ChangePulled`'s safety core: a kind leaves `behind` only by its own sync.
4. A composition of `Outbox`, `SyncWorker` and `StoreMail` on one store, where a message
   row's id is given again under a queued intent, as `mail_reuse` shows for the tables alone.
