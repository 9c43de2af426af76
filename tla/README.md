# codex-radar: specification and proofs

codex-radar watches Codex coding sessions.  Codex runs `codex-radar hook` at
every lifecycle event; the hook keeps one entry per session in
`sessions.json`.  A terminal dashboard, a VS Code extension and an Android
phone (over SSH) show that index.  An experimental thread host drives a
`codex app-server` child process, and a helper manager installs runtimes and
edits Codex' `hooks.json`.

This directory specifies the parts of the program in which several actors
touch shared state or in which a process may fail half way, checks the
specifications with TLC on small instances, and proves the main results about
them with TLAPS for every instance.

Run `tlc -config <cfg> <module>` for a run of the table below and
`tlapm <module>` for a module of proofs.

## Inventory

| Component | State | Operations | Interacts with | What is hard |
|---|---|---|---|---|
| Session store (`store.py`, `hook.py`) | `sessions.json`, `sessions.json.tmp`, `.lock`, `config.json`, a legacy `events.jsonl` | record a hook event, prune, set retention, load | Codex (starts hooks), every reader of the index | concurrent one-shot processes, death between two file operations, one temporary name for all writers |
| Reconciliation (`reconcile.py`) | none of its own | compare active-looking entries with the rollout file, correct and save | the store under its lock, Codex' rollout files | evidence older than what a hook recorded; its stamps have fractions of a second, the hooks' have none |
| Watch (`watch.py`) | the stamps already alerted | reconcile, read, alert, sleep | the store | a watcher that never stops beside one-shot processes; alert deduplication |
| Thread host (`thread_rpc.py`) | pending requests, completed turns, worker pool, child counts, depths | start, list, read, send; answer tool calls | the app-server child (stdin/stdout), an RPC client | nested calls, late answers, timeouts, pool exhaustion, a reader that ends before the child |
| App-server controller (`codexAppServerController.js`) | child process, start promise, pending requests, stdout buffer | start, request, reset, dispose | app-server child, thread catalog, usage bar | callbacks of a replaced process, reset during start, several settings changed at once |
| Dashboard controller (`extension.js`, `readState.js`) | serial of the latest refresh, list shown, read marks, preview panel | refresh, mark read/unread, select, preview | index watchers, webviews, VS Code's memento | awaits between read and use, out-of-order refreshes |
| Read protocol (`mobile_rpc.py`) | negotiated version, attention baseline, event sequence | initialize, state, preview, poll, shutdown | the index, the phone | transitions between polls, sequences across polls |
| Android cockpit (`ForegroundSshProtocolClient.kt`, `BoundedJsonlSession.kt`, `CockpitDomain.kt`, `MainActivity.kt`) | generation, transport, tasks, posted events, screen state | connect, approve host, poll, preview, disconnect | the read protocol over SSH, the UI thread | events posted by an executor after the connection failed or was replaced; reads without a timeout |
| SSH transport and identity (`JschForegroundTransport.kt`, keystore, profile store) | one connection | connect, host-key check, exchange, close | JSch, the phone's keystore | a close while the connection is being opened |
| Helper manager (`helper_manager.py`) | versions, `current` selector, install state, shims, `hooks.json` and its backups | install, rollback, apply hook config, diagnose | Codex' configuration, the operator | death between the selector and its record, concurrent edits |
| Terminal dashboard (`tui.py`) | list drawn, selected index | draw, move, resume, quit | the store, Codex | the index changes between the drawing and the key |
| Display state and export (`display_state.py`, `export_adapter.py`) | none | read the index, list rollout files, look each session up | every surface, Codex' rollout files | files that move between two listings |
| View models of the extension | none | derive titles, groups, counts | the dashboard | precedence and fallbacks (pure functions) |
| Transcript and usage readers | none | parse rollout files | previews, usage bar | parsing (pure functions) |
| Command line, watchers and links, paths | none | dispatch | everything | nothing that is shared |
| Android smoke tools | none | drive adb and ssh in tests | a phone | no part of the program |

What makes each component correct:

* **Store**: no event a finished hook recorded is lost or counted twice; a
  session leaves the index only through retention; a reader never finds a torn
  index; stamps are in order; a hook that waits for the lock ends.
* **Reconciliation**: it changes only entries that look active and only with
  evidence newer than they are.
* **Thread host**: child and depth limits; each request is answered once, by its
  own answer, an error or a timeout; a completed turn is never missed; the
  worker pool does not starve itself.
* **App-server controller**: no process runs without an owner, and none after
  dispose; no answer of an old process reaches a new request; a process is asked
  nothing before its handshake; every call ends; the status bar catches up with a
  change of the executable that the host acted on.
* **Dashboard**: no refresh takes it back to an older list; a preview stays with
  the session it was opened for.
* **Terminal dashboard and watch**: what the return key resumes is what the screen
  marks; a poll alerts, once each, just the watched sessions whose stamp is not the
  one it last alerted.
* **Export**: an archive state that is exported was true during the export.
* **Read protocol and cockpit**: the client accepts whatever the protocol answers;
  nothing of an old connection or of another thread is shown; the key approved is
  the key shown; polling goes on as long as the host answers; a connection ends with
  its generation.
* **Helper manager**: `current` always names a complete runtime; a switch does
  everything or nothing; what the user wrote to `hooks.json` is never lost.

## Modules

| Module | What it is |
|---|---|
| `SessionRecords` | index entries and the pure functions of `store.py` and `reconcile.py` on them |
| `SessionStore` | the processes that share a state directory: hooks, reconcilers, prune |
| `SessionIndex` | the abstract store: an index that changes in whole steps |
| `SessionStoreProperties` | type invariant, safety, refinement and liveness of the store |
| `SessionStoreProofs` | the store's inductive invariants and theorems |
| `MCSessionStore` | its instances for TLC |
| `ThreadHost` | the host process of `thread_rpc.py`: main thread, reader, pool; the app-server as its environment |
| `ThreadHostProperties` | type invariant, safety, action property and liveness of the host |
| `ThreadHostProofs` | the host's inductive invariant and theorems |
| `ThreadHostLineageProofs` | its theorems about turns and lineages |
| `MCThreadHost` | its instances for TLC |
| `HelperCommands` | helper processes: a command, the stage it is at, its end |
| `HelperRuntime` | install, rollback: versions, selector, record, shims |
| `HookConfig` | `hook-config --apply`: merge, backup, replacement, undo; the user's editor |
| `HelperManager` | both halves together, and the diagnosis that reads the results |
| `HelperProperties` | type invariant and properties of the helper |
| `HelperProofs` | the inductive invariants and theorems of both halves, and what merging does |
| `MCHelper` | its instance for TLC |
| `ReadProtocol` | the process of `mobile_rpc.py` as a function, and the client's checks of its answers |
| `Cockpit` | the phone's three threads, composed with one `ReadProtocol` process per connection |
| `CockpitProperties`, `CockpitProofs`, `MCCockpit` | its properties, theorems and instances for TLC |
| `Ordering` | sorting a set and filtering a sequence, for the readers and the helper |
| `OrderingProofs` | lemmas on both |
| `SessionListing` | the index as its readers see it, changed by everything that writes it |
| `TerminalViews` | `tui` and `watch` |
| `ExportAdapter` | `export` and the reads of `mobile rpc`, beside Codex moving rollout files |
| `Dashboard` | the extension's dashboard: refreshes, read marks, preview panel |
| `Viewers` | one of these readers beside the changing index |
| `ViewersProperties`, `ViewersProofs`, `MCViewers` | their properties, theorems and instance for TLC |
| `AppServerController` | the extension's app-server child and its callers: the thread catalog and the status bar |
| `AppServerProperties`, `AppServerProofs`, `MCAppServer` | its properties, theorems and instance for TLC |

`Ordering` takes the place of `SortSeq` and `SelectSeq`, which are recursions: what
a recursion computes can be proved by induction only, and that is out of the
prover's reach.  `Sorted` puts at place `i` the element with `i - 1` others below it,
and `Picked` takes the positions that are kept in ascending order; both give the
sequences that Python's `sorted` and list comprehensions do, and can be reasoned
about by counting.

Where a `CASE` has several arms they exclude each other, or it is written as
`IF ... ELSE IF` in the order of the code: TLC takes the first arm that holds, but
the meaning of an overlapping `CASE` is any of them, and a proof must treat all.

`SessionIndex` is the abstract specification of the store; `SessionListing` is the
same view for readers, with the causes of each change told apart.

### The session store

A process is a program counter that walks through the file operations of its
function.  Each step is one operation another process can observe.

| Action | Code |
|---|---|
| `Normalize` | `normalize_event`, before the lock: the event gets its stamp |
| `AcquireLock`, `LockTimeout` | `_state_lock` (`flock`, or `msvcrt.locking` for four seconds) |
| `UpdateCache` | `update_session_cache`: load, merge, prune at the event's stamp |
| `OpenTmp`, `WriteTmp`, `ReplaceFile`, `ReplaceMissing` | `save_sessions`: open truncates, the write goes through the handle, the rename |
| `FinishHook` | unlink `events.jsonl`, leave the `with` block |
| `StartReconcile` … `FinishReconcile` | `reconcile_sessions`, one `Examine` per entry |
| `LoadPrune`, `FinishPrune` | `prune_sessions`, without the lock |
| `Crash` | a kill at any point: handles close, the lock is released |
| `Tick`, `AppendRollout`, `SetRetention` | the clock, Codex' rollout file, `codex-radar config set` |

Files are `missing`, `torn` or hold an index.  A file handle follows its file
through renames (`fd`), which is what makes the unlocked prune dangerous: its
handle on `sessions.json.tmp` may have become `sessions.json` when it writes.

The clock is finer than what a hook records: `utc_now` (`store.py:54`) drops the
fraction of the second, the events of a rollout file keep theirs
(`reconcile.py:87`).  A tick is a fraction, `Second` is the number of ticks in a
second, and `Stamp(t)` is what a hook of the moment `t` is stamped with.  So an
event of T.3 does overrule a hook of T.8, which is stamped T, and a hook that
follows within the second takes the entry back to T.  `ReconcileKeepsNewer`
therefore claims that reconciliation never touches an entry whose stamp is as
late as its evidence, and that a hook it overrules is less than a second newer;
`TimelineOrdered` claims the order of stamps, for the start of the displayed state
to the second.  `first_seen_at` never passes `last_seen_at`, because a hook has
set it and so it has no fraction.

Abstractions.  Timestamps are natural numbers up to `MaxTime`, one writer
changes `config.json` and does so atomically, the existence test and unlink of
`events.jsonl` are one step, a hook and a prune run once per process (a
reconciler runs for ever), dry runs only read and are left out, the tail of a
rollout file is its latest lifecycle event, and the sessions with a trusted
transcript path are the constant `Transcribed`.  Renaming a file that another
process holds open is what POSIX does; the sharing errors of Windows are not
modelled, the lock's deadline is.  A longer text left behind a shorter one is a
torn file; `Overwrites` allows both outcomes.

`SerialHooks` says that Codex waits for the hooks of a session (`NoHookOf`): before
the session's next event, and before it completes the turn.  The repository does
not make Codex do so.  It is a constant, and only what is said of stamps needs it.

Fairness (store).  A running process is scheduled (weak fairness of its steps).  The
lock needs strong fairness: a hook competes with a watcher that takes the lock
again and again, but the watcher sleeps between two polls, so the lock is free
again and again while the hook waits.  Nothing is assumed of crashes, of
timeouts, of new invocations, of prune, or of the order in which waiting processes
get the lock.

### The thread host

`ThreadHost` is one host process (`run_thread_rpc`, or `run_thread_action` with
`OneShot`).  An *actor* is the main thread or a tool call in the pool; `stage`
says what it is about to do, or waits for.  The four operations share the
request path, so their steps are written once for any actor:

| Action | Code |
|---|---|
| `Send`, `SendFails` | `AppServerClient.request` up to the wait; a broken pipe ends the main thread, and a tool call fails |
| `Timeout` | the event is not set after `request_timeout`: the entry of `_pending` is popped |
| `Reserve` | `start_thread` under `_limits_lock`: depth and child limit, then the slot |
| `ThreadStarted` | `thread/start` answered: `depths` gets the thread, and the prompt is sent if there is one |
| `Accepted` | `list_threads`, `read_thread`, `thread/resume`: the next request or the end |
| `TurnStarted`, `TurnCompletes`, `TurnFails` | `send_message` and `wait_turn` |
| `Refused`, and `Raise` in it, in `SendFails` and in `Timeout` | the exception path of `start_thread`, which gives the slot back |
| `TakeCall`, `ReplyCall` | a worker of the pool runs `_handle_server_request` |
| `Begin`, `Shutdown`, `Terminate`, `CancelQueue` | `run_thread_rpc` and `close` |
| `ReadAnswer`, `ReadTurnCompleted`, `ReadCall`, `ReadEof` | `_handle_message`, and `_fail_all` at the end of the output |
| `ReaderFails` | `_fail_all` while the app-server lives: `_handle_message` has raised, or only stdout was closed |
| `StartThread`, `StartTurn`, `Accept`, `Refuse`, `Ignore`, `MakeCall`, `EndTurn`, `Exit` | the app-server (external): it answers in any order, late, with an error or not at all, and dies at any point |

`born` is not in the code: it records which thread's tool call a thread was
started for, so that the limits can be compared with real lineages.

Abstractions.  Request ids and turn ids come from finite sets, and one that
nothing refers to any more stands for a new one; the app-server's lines reach
the reader in any order, which is weaker than the pipe's order.  An app-server
that dies can be written to no more; what it wrote may still be read, and the
reader ends after that or, with `ReaderFails`, before.  An `_pending` entry that a
failed write leaves behind is nobody's and is dropped at once.  The answer to
the RPC client and a request that is refused before it does anything are no
steps.  Lengths of messages and of tool output, and the fields of threads, are
left out.  With `NamesUnrecorded = FALSE` callers name only threads that the
host has recorded; with `TRUE` also those which only the app-server knows yet.

What the model shows and no property forbids: `request()` (`thread_rpc.py:155`)
does not look at `_closed_error`.  Once the reader has ended while the app-server
lives, each later request is written, nobody reads its answer, and it sits out its
timeout of 30 seconds.  No doc promises more, so `ClosedFailsAll` speaks of the
requests that wait when the reader ends, and `CallsEnd` of all of them.

Fairness (host).  Threads are scheduled, waits end in their timeouts, and the
reader reads until it ends (weak fairness; none of `ReaderFails`).  The app-server
owes nothing: it need not answer, end a turn or call.  `Send` has strong fairness,
and `Ignore` weak fairness, only because ids are finite in the model: the code
always has a next id, the model must free one and must not let others take it for
ever.

### The helper manager

Helper processes run one command each; nothing but the file system stands
between two of them.  `stage` is the file operation a command is about to
perform, and every operation can fail or be the last one before a kill.

| Action | Code |
|---|---|
| `BeginInstall`, `LoadState`, `ReadCurrent`, `Preflight`, `CheckDestination` | `install_bundle` up to the publication |
| `Publish`, `PublishFails` | the rename of the staging directory; it fails on a directory that has appeared, and on a wheel that holds no runtime |
| `BeginRollback`, `ChooseTarget` | `rollback_runtime` up to the switch |
| `FindMissingShims`, `LinkShim`, `LinkFails` | `_ensure_shims`, one link per step |
| `Select`, `SelectFails`, `Record`, `RecordFails` | `_select_current`, `_record_switch` |
| `Restore`, `Reselect`, `ReselectFails` | the way back: `_restore_current` |
| `CheckShim`, `UnlinkShim`, `UnlinkFails`, `FinishCleanup` | `_cleanup_created_shims`: the look at a link (`is_symlink`, `readlink`), then `unlink`, which removes whatever is there by then |
| `BeginApply`, `Unchanged`, `PlanChange`, `WriteBackup`, `Recheck`, `Replace`, `ReplaceFails`, `Readback`, `Undo` | `apply_hook_config`, with `_merge_hook_config` as `Merge` |
| `ExitSwitch`, `ExitApply`, `KillSwitch`, `KillApply` | the end of the process |
| `PlaceForeign`, `Edit` | the user: a file of his own under a command's name, his editor on `hooks.json` |
| `Diagnosis` | `diagnose_helper` |

`found`, `undisturbed`, `overtaken`, `user`, `raced` and `alone` are not in the
code.  They record what a command found, whether commands overlapped or one died
between the selector and its record, the names at which the user placed his file
just between a command's look and its unlink, what the user wrote last, whether an
edit fell between a command's last look and its end, and whether a command ran by
itself.  The properties are conditioned on them where the code promises nothing
more: two overlapping installs do lose an entry of the history, an edit that
falls between the recheck and the rename is overwritten, and a file placed between
`readlink` and `unlink` (`helper_manager.py:414-421`) is removed with that unlink
(`ForeignShimsKept` leaves out such a name until the user places a file there
again).

Abstractions.  POSIX only: the selector of Windows and its launchers are left
out.  A command that is refused before it does anything (an unverified bundle,
no current runtime, an invalid `hooks.json`) is no step.  Staging directories
and temporary files have unique names, so that what a killed command leaves
under one is never read, and is left out.  Versions never disappear, so that
a rollback's look at the state and at the version's marker is one step.  A
configuration is, per event, a sequence of groups of entries, and a group has
further fields or not.

### The read protocol and the cockpit

`ReadProtocol` is the process as a function: `Outcomes` gives what a request may
make of the process and of the answer, so that the composition needs no
variables of its own for it.  `Cockpit` has the three threads of the app (main
thread, executor, connection monitors) and one process per connection.

| Action | Code |
|---|---|
| `TapConnect`, `TapApprove`, `TapDisconnect`, `RepairPin` | `MainActivity` and `ForegroundSshProtocolClient.connect`, `disconnect`, `updateProfile` |
| `TapRefresh`, `TimerFires` | `requestRefresh`, by hand and by `scheduleNextPoll` |
| `OpenThread`, `OpenHome`, `ReadPreview` | `openThread`, the back key, `readSelectedPreview` |
| `Deliver` | the main looper runs a posted event: `post`, then `dispatch` and the reducer (`Reduce`, `Repoll`) |
| `Begin` | the executor takes the next task |
| `OwnTransport`, `OpenSsh`, `Handshake`, `ReadState`, `TakeBaseline`, `Conclude` | the task of `connect` and `JschForegroundTransport.connect` |
| `PollAttention`, `RereadState` | the task of `pollAttention` |
| `CallPreview` | the task of `readPreview` |
| `Post` | `post`, on the executor's side |
| `Lose`, `ReportLoss` | the end of a connection, and `startCloseMonitor` that notices it |
| `Change`, `Rekey` | the host (external): sessions change, another key is presented |

Every task goes through `Exchange`: one request on the running connection
(`BoundedJsonlSession.call`), with the process' answer, an error, an answer the
client refuses, or a connection that has ended.

Abstractions.  A list is its statuses with the time at which the host had them
(`at`).  The reducer keeps the fields that the properties tell apart: error
codes, `resumeRequired`, `lastRefresh` and the preview's error are left out,
`NO_CHANGE` and `UPDATED` are one, and every screen without a thread or a key
under review is `list`.  A task interrupted before it opens its socket opens
none, which is what JSch does.  The fixture client, creating and deleting a
profile and replacing the identity are left out.  `EventLimit` is the number of
events that the client takes in one poll (256, `BoundedJsonlSession.kt:12`); the
process has no such bound.  The phone sends no bad or oversized request, no second
`initialize` and no `shutdown`: `ReadProtocol` has them, the runs do not.  The
sizes of frames are left out: the client refuses a frame of more than 1 MiB
(`BoundedJsonlSession.kt:138`) and the process sends a state of any length, so
`NothingRejected` is about lists that fit into a frame.  A preview is the thread it
is of and the generation it was read over (`over`); its text is left out.

Fairness (cockpit).  The monitors run, the main looper takes what is posted and what
is due, and the executor runs except while it is `Asking`, that is blocked in a read
(weak fairness of each).  Nothing ends such a read but an answer or the end of the
connection: the app sets a timeout of ten seconds for opening the session and its
channel (`JschForegroundTransport.kt:215,229`), and neither a read timeout nor a
keepalive.  That the host answers is therefore no fairness of the app but the premise
`HostAnswers` of `ListCatchesUp`.  Without it polling may stop for good: the poll in
flight never ends, and the next one is asked for only when it has, until the user
disconnects.

### The readers of the index

`SessionListing` is the index as a reader finds it, one whole state per read
(`IndexReadable` and `SavesAreAtomic` of the store say so), with hooks,
reconciliation, staleness and pruning as the causes of its changes.  `latest` is the
latest stamp there has been; the next one may be later, and so may a cutoff.
Stamps may go back: a hook is stamped before it waits for the lock
(`store.py:428`) and may be merged behind a later one, and prune reads the index
(`LoadPrune`) and writes that copy back (`SavePrune`), whatever has been recorded
in between.  One prune runs at a time.
`Viewers` composes it with one reader per behaviour; readers do not know of each
other.

| Action | Code |
|---|---|
| `Draw` | `run_tui`: `visible_sessions`, grouping, `_selected_index`, `_view_window` |
| `Redraw`, `Move`, `Resume`, `Quit` | the keys, and the refresh interval |
| `StartWatch`, `Poll`, `Interrupt` | `run_watch`: `seed_seen`, `watch_alerts`, Ctrl-C |
| `Begin`, `List` (twice), `Resolve`, `Build`, `OpenCandidate`, `Again` | `export_display_state` and `export_transcript_preview`: the source, `_candidate_files` of both roots, `_candidate_for_session` |
| `MoveRollout` | Codex (external) archives, unarchives or deletes a rollout file |
| `StartRefresh`, `ExportRead`, `ExportUnused`, `Decorate`, `Finish`, `Fail` | `refresh` of `RadarWebviewController`, cut at its awaits |
| `OpenPreview`, `ClosePanel`, `PreviewArrives`, `PreviewReady` | the preview panel |
| `MarkRead`, `MarkUnread` | the read marks |

`before`, `held`, `moved` and `shown.at` are not in the code: the stamps there were
when a watch began, where each file has been since the export began and how often it
moved, and how old the list is that the dashboard shows.

What the model shows and no property forbids: an automatic redraw moves the
highlight to another session, because the selection is an index; a change to
another watched status at the same stamp raises no alert; a stamp that was alerted,
replaced by another one and written back (by prune, or by a hook that was stamped
earlier) is alerted again, because `watch.py:40` remembers one stamp per session; a
refresh may prune a read mark by a list older than the one on the screen; two
previews of one session may arrive in either order.

Abstractions.  The detail pane and a terminal of at most three lines are left out
(with three, `_safe_addstr` drops the first row of the list).
Of an export the sanitized labels, `semantic_usage`, the project classification
and the status `partial` are left out.  Usage, thread catalog and links are
calls that succeed or fail.  A follow-up refresh of an interaction is a
`StartRefresh` at any time.

### The app-server controller

The extension runs in one JavaScript event loop.  A callback runs to its end, and
so do the promise continuations it makes ready, before the next event: `Quiet`
says that none is left, and every event needs it.  A call at `called` is the part
of a callback that still runs.  `start` is `startPromise`, a call's `stage` the
await it stands at, and `procs` holds the processes with the answers in their
pipes.

| Action | Code |
|---|---|
| `EnsureStarted`, `StartProcess` | `ensureStarted` and `startProcess` up to their awaits; `spawn` throws, or returns a process that could not be started, or one that runs |
| `Initialized`, `StartFails` | the two continuations of the start, and of the calls that joined it |
| `Proceed` | `listThreads` (two requests, `Promise.all`) and `readRateLimits` after `ensureStarted` |
| `TimedOut` | the timer of a request |
| `Data` | `handleStdout`: any number of lines, and perhaps the beginning of another; `handleMessage` of each |
| `Ended` | the `error` or `exit` event and `detachProcess` |
| `Dispose`, `ChangeExecutable` with `StopProcess` | `dispose`, `reset` and `stopProcess`, which rejects what is pending |
| `ChangeSeveral` | one configuration event that affects `stateDir` or `readSource` as well (`extension.js:1025-1034`): an earlier arm of the `else if` chain takes it |
| `RefreshList`, `UsageDue`, `RefreshUsage`, `Finish` | the callers: `loadCodexThreadCatalog` in a refresh, and `UsageStatusBar.refresh`, which coalesces |
| `Answer`, `Exit` | the app-server (external) |

`shown` and `handled` are not in the code: for which executable the status bar's
last refresh was begun, and the last change of the executable that the host acted
on.

What the model shows and no property forbids: after a change of the executable
the status bar's new call can join the start that the reset has just doomed.  It
fails with it, and the bar shows the usage of the rollout files until the next
refresh.  And after `ChangeSeveral` the process of the earlier executable stays, and
so does what the bar shows, until something else stops that process: `reset` and the
bar's refresh are in the arm that was not taken.  No doc says what one event with
several settings must do; `PresentIsCurrent` and `UsageCatchesUp` are about changes
that were acted on.

Abstractions.  The buffer is empty, holds the beginning of one process' line, or
parts of two processes' lines; a line of which a part is missing is not parsed.
An answer is an id, and whether it is a result or an error is chosen when it is
read.  Standard error and the wording of errors are left out.  The streams of a
child are taken to exist and their own error events are left out (Node may return
a child without streams when descriptors run out).  The timer of five minutes and
the watcher of the rollout files are a `UsageDue` at any time.

Fairness (controller).  Continuations run and timers fire (weak fairness).
Nothing is assumed of the app-server, of the user, or of a process' events.

## Runs

| Run | Expectation | Question |
|---|---|---|
| `store_locked` | pass | Do hooks and a watcher, killed anywhere, implement `SessionIndex`; is the index always readable; do sessions leave only by retention; does reconciliation keep what is newer, but for the fraction of a second that hooks do not record? |
| `store_wait` | pass | If Codex waits for a thread's hook, beside a watcher and the unlocked prune: do the stamps of an entry stay in order (to the second), and does each waiting hook end? |
| `store_prune` | violation | Do sessions leave only by retention when prune runs beside hooks?  No. |
| `host_limits` | pass | Do concurrent `create_thread` calls respect both limits for the real lineages; is every slot accounted for; does each operation take its own answer; is no completion missed? |
| `host_waits` | pass | Does every tool call end, even if the whole pool waits for turns whose calls are queued behind it, or if the reader has ended and the app-server lives? |
| `host_recursion` | violation | Does the recursion limit hold if callers name threads the host has not recorded?  No. |
| `helper` | pass | Two commands of any kind at once, failing or killed at any file operation, beside a user: does the selector name a complete runtime; does a switch do everything or nothing; does the history lose nothing; do the user's files and hooks survive? |
| `cockpit` | pass | With answers and posted events on their way: does the client accept whatever the protocol answers; is the key approved the key shown; is nothing of a replaced connection or another thread shown; does polling go on if the host answers? |
| `cockpit_close` | violation | Does every connection end with its generation?  No. |
| `viewers` | pass | While the index and the rollout files change: does the tui resume what it marked; does each poll alert just what differs from what was last said, though stamps go back; was an exported archive state true; does the dashboard never go back; does a preview stay with its session? |
| `controller` | pass | Whatever is reset, disposed, times out or exits while a process starts: is none left without an owner; does every call end; does the status bar come to show a reading begun after the last change of the executable that was acted on? |
| `controller_mixed` | violation | Does every answer of a present process reach the request that waits for it?  No. |

Bounds (store).  Two hooks are the least that can overlap, and in `store_wait`,
where one session's hooks follow each other, the least in which an entry is
merged again; a watcher and prune run beside them there.  Two sessions are the
least in which one session's update can lose another.  In `store_locked` a second
has three ticks and the clock ends at the third, the beginning of the next second:
a hook and the evidence fall into one second in either order, and a hook's stamp is
one second before the next.  In `store_wait` and `store_prune` a second has two
ticks and the clock ends at the second one, which leaves a fraction and the
following second.  Either way a retention of one tick expires.  Retentions `{0, 1}` are "off"
and "on".  In `store_wait` the hooks report `running` and `done` and the rollout
file the end of a turn, which are the least that puts a hook's stamp and a
correction's in question.  `HookSymmetry` is used only where no liveness is checked:
hooks differ only in the event they take.

Bounds (host).  Two calls and the main thread are the least for which a limit
can be raced and an answer can reach the wrong actor; two ids make one actor
wait while another's late answer is on its way.  With `MaxChildren = 1` and
`MaxDepth = 1` the second child and the grandchild are the first refused, and
three threads hold a lineage one too long.  Two turns and one worker are the
least in which a call waits for a turn whose own call is queued.  Turns, calls
and ids are symmetric; threads are numbered in order and are not.

Bounds (helper).  Two processes and two commands are the least that can overlap,
or follow each other after a kill.  The host is fresh, or has v2 after v1, so
that a rollback has a target; the bundles are a good one of each of three
versions, a rebuilt v1, a v2 that holds no runtime and a v3 that is not
verified.  Two shim names let a switch fail between two links, and one of them
may be the user's.  One edit of the user can fall at every point of a command.
`Samples` are all configurations of one event with up to two groups of up to two
entries: `_merge_hook_config` treats events one by one, and duplicates, legacy
and mixed groups need no more.

Bounds (cockpit).  A move is a tap, a change of the host or a loss, and the app's
own steps are not counted.  Five moves hold a connection, its loss or its end, a
second one, and a change between two polls; two threads are the least of which
the wrong one can be shown, and two keys the least for a wrong pin.  A preview of an
earlier connection that comes late needs a sixth move, and there the run covers the
thread of a preview and the theorem `PreviewOfThread` its connection.
`cockpit_close` needs six moves.

Bounds (viewers).  The list of three sessions in two projects, in windows of one
to three rows, is the least in which the window is cut and a header falls out of
it; session 3 has no id of its own.  The other readers see two sessions.  The
changes of the index beside each reader are in `MCChanges`: two for the tui (a
reordering or a removal under the marked row), three for the watch (a stamp is
alerted, replaced, and written back), one for the export and for the dashboard,
which read it several times.  A limit of one file makes the second listing fall
beyond it; two moves of a file take it there and back.  Of the dashboard
`MaxRounds = 3` allows two refreshes and a panel, or a refresh and two panels, which
are the least that can overtake each other, and three refreshes.

Bounds (controller).  A move is a call that a caller makes, or a change of the
executable.  Two moves after the activation's first reading allow a change while
a start is under way and a call during another one's; with them there are three
processes, so that the end of an earlier one can come beside two later ones.  One
caller of `listThreads` and the status bar are the two kinds there are.  In
`controller` output comes in whole lines, since the finding below would break
nothing but the answers; in `controller_mixed` a chunk may end within a line.

Deadlock is not checked where the system may come to rest: all commands done, a
reader that has quit, an app whose user does nothing.

### Finding: prune does not take the lock

`docs/SPEC.md:78` calls `.lock` the lock used while the session index is
updated, and `docs/SPEC.md:249` gives age as the one reason for which a session
leaves the index.  `prune_sessions` (`store.py:388`) loads and saves the index
without the lock, under the same temporary name as the hooks.  In
`store_prune` a hook records a session between prune's load and its save, and
prune writes its older copy back: a session seen a moment ago is gone.

### Finding: the depth of a thread the host has not recorded

`docs/REQUIREMENTS.md:222` asks for "thread-scoped recursion/child limits".
`start_thread` computes a child's depth with `depths.get(parent, 0)`
(`thread_rpc.py:324`), but a thread is in `depths` only after its `thread/start`
was answered in time (`thread_rpc.py:353`), while the app-server lists it from
the moment it exists.  In `host_recursion` a caller sends a message to a child
whose start has not been recorded; the child's turn creates a thread at depth 1
instead of 2, beyond the limit.

### Finding: a connection that nobody closes

`apps/android/README.md:23` says that "Backgrounding, disconnect, EOF, and SSH
loss close all resources."  `ForegroundSshProtocolClient.disconnect` cancels the
task in `work` and closes the transport.  `submitConnected`
(`ForegroundSshProtocolClient.kt:154`), like `pollAttention`, overwrites `work`
with a task that is queued behind the one that runs.  In `cockpit_close` a
connection is lost and its list stays on the screen; the user connects anew and,
while the socket is being opened, asks for the preview of a thread; then
disconnects.  Only the preview is cancelled, the transport has nothing to
close yet, and the connection comes up under an old generation and stays.

### Finding: the output of a replaced process

`docs/SPEC.md:272` says that the app-server controller manages the initialize
handshake, the routing of request ids, timeouts and reset/dispose.
`stopProcess` (`codexAppServerController.js:229`) leaves the `data` listener of
the process it stops, and all processes share `stdoutBuffer`
(`codexAppServerController.js:170`).  In `controller_mixed` the executable is
changed while an answer is in the old process' pipe, a new process is started,
and a chunk of the old one ends within that answer.  The beginning of the line
stands in front of the new process' answer, which is no JSON any more and is
dropped; its request waits for its timeout, and if it was `initialize`, the start
fails.

## Proofs

Every invariant and every action property that a passing run checks is stated by
a theorem; what is left to TLC is liveness (last part of this section).  Before an
invariant was proved inductive, TLC checked it as an invariant of a run.

### The session store

`SessionStoreProofs` proves, for any numbers of processes and sessions and any
bounds:

| Theorem | Property | Assumption |
|---|---|---|
| `TypeCorrect` | `TypeOK` | |
| `LockExclusion` | `LockExclusive` | |
| `IndexStaysReadable` | `IndexReadable` | no prune (`Pruners = {}`) |
| `StoreImplementsIndex` | `SavesAreAtomic` | no prune |
| `RetentionOnly` | `SessionsLeaveOnlyByRetention` | no prune |
| `ReconcileIsForward` | `ReconcileKeepsNewer` | no prune |
| `TimelinesAreOrdered` | `TimelineOrdered` | `SerialHooks`; no event of an unknown kind |

What is known of `Second` is that it is a positive number; `StampIs` has the facts
about `Stamp` that the proofs use.

The inductive invariant has four parts.  `TypeInv` is `TypeOK` and the fact
that what a reconciler has still to examine looks active in its copy;
`LockExclusive` says that whoever is between load and release holds the lock;
`SaveInv` says that a handle is open only in the `write` state, that it then
refers to the temporary file, and that this file holds the writer's copy when
it is renamed;
`WorkInv` relates the copy in a process' memory to `sessions.json`: while the
process works under the lock, the copy is the index plus its own change, and
nobody else can change the file.  Without `WorkInv` the rename could be
anything, and the refinement would not follow.  A rename maps to `RecordEvent`
or `Reconcile` of `SessionIndex`, a tick to a tick, and every other step,
crashes included, to a stutter.

`TimelinesAreOrdered` holds beside any number of prunes, although prune puts
older copies back, and so it needs an invariant of its own.  `CopiesOrdered` says
of every copy of the index, in both files and in every memory, that the stamps of
its entries are in order, and that `first_seen_at` is a whole second; `SerialInv`,
that a session has one running hook, which took its stamp in the past; `RolloutInv`,
that a turn was not completed while one of its hooks is pending.  `HookStatuses`
without `"unknown"` is what `EVENT_STATUS` gives for the events of `HOOK_EVENTS`.
An event it does not know gets the status "unknown", which is also what
reconciliation gives an aborted turn: a hook that was stamped before and stored
after it would keep the later start of the state that the reconciler has set.
Without `SerialHooks` two hooks that took their stamps in one order may get the lock
in the other.

`LockExclusive` is a part of the invariant of the detailed store and no run
repeats it.

### The thread host

`ThreadHostProofs` proves, for any threads, turns, calls, ids, limits and size
of the pool, and with callers that may name unrecorded threads:

| Theorem | Property |
|---|---|
| `Invariant` | `IInv`, the inductive invariant |
| `TypeCorrect` | `TypeOK` |
| `OperationsTakeTheirAnswers` | `AnswersMatch` |
| `SlotsAreAccounted` | `SlotsAccounted` |
| `ChildrenAreBounded` | `ChildrenBounded` |
| `ClosedIsNoticed` | `ClosedFailsAll` |

None of the invariants is inductive.  `IInv` adds to `TypeOK`

* `PendingInv`: an id is pending for exactly the actor that waits for it and has
  no answer yet, and no two actors wait for one id; so the reader, which fails what
  is pending when it ends, fails every actor that waits without an answer;
* `QueueInv`: the calls in the queue are queued, each once, so a call that a
  worker takes is in no request;
* `MatchInv`: as long as a request is pending, the app-server holds it, or its
  answer, as it was sent; a late answer has no pending id and so reaches nobody;
* `TransitInv`: a thread the host has not recorded is in one answer only, so
  recording it adds a child and never counts one twice;
* `SlotInv`: the account of the slots, and that no count exceeds the limit.

Each part has a lemma for `Init` and one for `Next`, with one step per action;
the lemmas `PendingKept`, `QueueKept`, `MatchKept`, `TransitKept` and
`SlotsKept` say what a step must leave alone for the part to survive it.

`ThreadHostLineageProofs` proves, for the same:

| Theorem | Property | Assumption |
|---|---|---|
| `CompletionsAreNotMissed` | `NoCompletionMissed` | |
| `RecursionIsBounded` | `RecursionBounded` | `~NamesUnrecorded` |

`NoCompletionMissed` rests on three facts that hold only together.  `TargetInv`: who
resumes a thread, or starts a turn of it, names a thread.  `SettledInv`: a turn that
an actor awaits, or that is on its way to one in a reply or in an answer, runs, or
its completion is under way or recorded, or the app-server or the reader is gone.
`OwnTurnInv`: no turn is awaited or on its way twice, so that no actor takes the
completion another one waits for.

`RecursionBounded` speaks of lineages, that is of chains of `born`, and `depths`
only counts.  `RecordedInv` says that turns run in recorded threads and operations
name such threads only; `LineageInv`, that a child is started only below a thread
that may have one, and is recorded one deeper than its parent.  The length of a
lineage is then at most the depth of its last thread (`LinesAreShort`), which the
limit bounds.  The assumption is the negation of what `host_recursion` shows to
break it.

### The helper

`HelperProofs` proves, for any numbers of processes, commands, versions, names and
edits, and for every configuration:

| Theorem | Property |
|---|---|
| `HelperIsTyped` | `TypeOK` |
| `CurrentIsInstalled` | `CurrentInstalled` |
| `VersionsAreImmutable` | `VersionsImmutable` |
| `ForeignShimsAreKept` | `ForeignShimsKept` |
| `SwitchesAreAllOrNothing` | `SwitchAllOrNothing` |
| `SwitchesAreRecorded` | `SwitchRecorded` |
| `MergingIsRight` | `MergedRight(c)` for every configuration `c` |
| `MergesAreSound` | `MergeSound` |
| `UserConfigIsRecoverable` | `UserConfigRecoverable` |
| `FailedApplyIsUndone` | `FailedApplyUndone` |
| `UserHooksAreKept` | `UserHooksKept` |

The invariant of the runtime half has three parts: types; `InstalledInv`, that
every version directory came from a verified bundle and that whatever a command
will select, or select again, is installed; and `SwitchInv`, that as long as
nothing disturbed it at most one command is switching, the selector agrees with
the record when none is, and at each stage the files differ from what the
command found by exactly what it has done.  The last is what makes the way back
lead to where the command came from; the property alone speaks of its end only.

The invariant of the other half has three parts as well: types (`PlanInv`);
`BackupInv`, that commands have different numbers (so that one removes no other's
backup) and that a command past its recheck has what the user wrote in a backup;
and `AloneInv`, that the file of a lone command is what it read, or what the user
has written since.  `UserHooksAreKept` adds `FaithfulInv`: the file, and every
original a command may write back, is the user's text or its merge.  It is
inductive because a merged configuration merges to itself (`MergedTwice`).

`MergingIsRight` is about `_merge_hook_config` alone.  `Stripped` and `Retained` pick
positions (`Ordering`), so that a merged configuration is described by which
position of the original each of its entries has: `RetainedIs` gives the groups,
`StrippedIs` the entries.  This correspondence is one-to-one between the places of
a user's entry before and after (`UserEntriesStay`), and between the groups with
further fields (`ExtrasStay`); all that a merge appends is found by
`_hook_wiring_diagnostics` as the only entry of Radar's (`OneRadarEntry`).  That a
second merge changes nothing follows from the same descriptions: everything kept
is foreign already, and what the first merge appended is dropped and appended
again (`RetainedAgain`).  `Samples` bounds what TLC looks at; the theorem has any
number of events, groups and entries.  It needs `Events # {}`: without an event
there would be nothing to be ready.

`TypeOK` is inductive as it stands.  What a history is picked from is a sequence of
versions, so it is one (`PickedIsSequence`), and merging gives a configuration.

### The readers of the index

`ViewersProofs` proves, for any finite set of sessions, any bounds, filters and
windows:

| Theorem | Property |
|---|---|
| `ViewersAreTyped` | `TypeOK` |
| `MarkedIsResumed` | `ResumedWasMarked` |
| `ChangesAreAlertedOnce` | `AlertedOnce` |
| `DashboardGrowsNoOlder` | `DashboardNeverOlder` |
| `PreviewIsKept` | `PreviewStays` |
| `ArchiveStateWasHeld` | `ArchiveStateHeld` |

`ListingInv` is about the index and what changes it: the types of the index and of
prune's copy, and that the latest stamp grows only with the changes.  It says nothing about
the order of stamps, which may go back.  The other parts are about one reader each.

`TuiInv` says that while keys are read the selection is a place of the list that was
drawn, and that the row marked on the screen is that session's.  Its step at `Draw`
is about the list: `Grouped` is a total order of the sessions shown (by the group's
latest session, then by their own stamps), so `Sorted` lists each of them once
(`SortedLists`), the row of the selected one exists, and the window contains it.

`SeenInv` relates the one stamp per session that a watch keeps to all it has said:
the stamp is that of the session's last alert, or, before the first, the one there
was when the watch began (`SaidIsSeen`).  Nothing is needed about the order of
stamps.  `AlertedOnce` is an action property: it says of each poll what it alerts.

For the dashboard, `RefreshInv` says that refreshes have different serials, and
that a refresh with a later serial has a source no older than what is shown; only
so is the latest refresh never older than what an earlier one has shown.
`PanelInv` says that a panel has been given a session only once it is ready.  For
the export, `ExportInv` relates what has been listed so far to where each file has
been, stage by stage, and counts the moves that a file not listed must have made;
`ExportBound` says that the two listings together stay within the limit of files.

### The cockpit

`CockpitProofs` proves, for any sessions, keys and hosts and any number of moves:

| Theorem | Property | Assumption |
|---|---|---|
| `PreviewOfThread` | `PreviewIsOfThread` | |
| `ReviewedKey` | `ReviewedKeyIsPinned` | |
| `ConnectionOfScreen` | `ConnectedHasConnection` | |
| `CockpitIsTyped` | `TypeOK` | |
| `PeersAgree` | `NothingRejected` | `Cardinality(Sessions) <= EventLimit` |

`Steps` first maps every action to one of the steps the invariant tells apart: all
taps and timers that at most queue a task are `Tapped`, a connect or disconnect is
`Restarted`, and every request of the running task is `Exchanged`.  The invariant
`Inv` has four parts.  `TypeInv` says which task may be at which stage, and that a
thread's screen is about that thread.  `QueueInv` says that tasks are queued in
the order of their generations and a connect is the first of its own; with it, a
key that has been posted is `Settled` (`ReviewInv`): no task is left that
could find another one before the user answers.  `ConnectionInv` says of the news
that a connection is there, in the worker, at its place among the posted events
and on the screen, that it is true or that word of the end comes after it.

`PreviewInv`, proved beside it, says that a preview on its way carries the generation
of the task that read it, so that one that is shown was read over the connection of
this generation.

`TypingInv` is proved on top of `Inv`.  `ProcessInv` says that the client counts events
as the process does (`heard`), and that a process whose attention was not polled
has reported nothing; only with both is every answer what the client expects.
`PollingInv` bounds the timers: what a generation does for its list, a connect or a
poll, is at one place at most, queued, running or posted; while the screen is
connected it is the poll in flight; and there are fewer timers than moves while one
is in flight.  A bound on the timers alone is not inductive: each answer starts one,
and it takes the rest to see that each answer had taken one.  `FieldsInv` has the
types of the remaining fields.

The assumption of `PeersAgree` is one that the code does not enforce: a poll brings
one event per changed session and `mobile_rpc.py` puts no bound on them, while
`BoundedJsonlSession.kt:87` refuses an answer with more than `MAX_EVENTS_PER_CALL`.
With at most 256 sessions the peers agree; beyond it the client may end the
connection.  The size of a frame, the other limit of the client, is not modelled:
the theorem is about states of at most 1 MiB.

### The app-server controller

`AppServerProofs` proves, for any callers and any number of moves, whatever
chunks the output comes in:

| Theorem | Property |
|---|---|
| `Invariance` | `IInv`, the inductive invariant |
| `TypeCorrect` | `TypeOK` |
| `NothingOrphaned` | `NoOrphan` |
| `OwnAnswers` | `AnswersAreOwn` |
| `CurrentExecutable` | `PresentIsCurrent` |
| `HandshakeFirst` | `AskedWhenReady` |
| `ProcessAtContinuations` | `ContinuationsHaveProcess` |

Only `NoOrphan` is checked by a run as well; the others hold of every instance by
their theorems.  `CurrentExecutable` compares the present process with `handled`, the
last change that was acted on, and not with `command`: after a `ChangeSeveral` the
process is of an earlier executable than the configured one.  `IInv` adds to them
that what is pending was asked of the present process (`PendingPresent`); that a
start under way waits for its own request and a start that was answered still has
its process (`StartPending`, `StartPresent`); that a process nobody is starting is
ready, and a call that was promised a process has it (`PresentReady`,
`StartedPresent`); and that an id which any process was asked or has answered is
older than `nextRequestId` and pending for no other process (`SaidBefore`).  The
last is why the late output of a stopped process, as long as its lines are whole,
does no harm.  The lemma `Emptied` treats the steps that stop a process,
`SettledKeeps` those that answer or reject requests.

### What stays with TLC

| Property | Run |
|---|---|
| `WaitingHookEnds` | `store_wait` |
| `CallsEnd` of the host | `host_waits` |
| `ListCatchesUp` | `cockpit` |
| `UsageCatchesUp`, `CallsEnd` of the controller | `controller` |

All five are liveness under fairness, which needs `ENABLED` and is out of the
prover's reach.

## Not modelled

* Transcript and usage readers, view models: functions of their input that keep
  nothing.
* Command line, watchers, links, platform paths: they dispatch.
* Android smoke tools: drivers of tests.
* Of the modelled parts: what each section above lists under Abstractions.

## Plan

What is here covers the parts in which processes, threads and files of this
program meet.  What is left, in this order:

1. An abstract specification of the app-server controller, which it implements: a
   slot that owns at most one process and settles each request once, from the
   process it was sent to.
2. The test and the unlink of `events.jsonl` as two steps of a hook.
3. Pure functions against reference definitions: display state, the source
   fallback and the thread catalog's precedence.
