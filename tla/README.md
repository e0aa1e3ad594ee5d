# TLA+ verification of the data viewer

The data viewer (Tauri 2, Rust backend in `src-tauri/src`, React frontend in
`src`) opens Parquet, CSV and HDF5 files, pages through them, queries them with
DuckDB and copies selections to the clipboard.  This directory holds TLA+ models
of the parts of it where threads, limits and failures meet, TLC runs that check
them on small instances, and TLAPS proofs for every value of the constants.

Contents: [the system](#the-system), [the modules](#the-modules),
[the runs](#the-runs), [disagreements found](#disagreements-found),
[the proofs](#the-proofs), [what is not modelled](#what-is-not-modelled),
[the plan](#the-plan).

## The system

Paths are below `src-tauri/src` unless they start with `src/`.

Tauri runs a synchronous command on the main thread, one at a time, and an
asynchronous one on a pool, concurrently with everything else.  Work that takes
long runs on threads of its own: source preparation, queries, CSV preparation,
CSV indexing, profile validation, copies, cache migration.  All of it shares one
`AppState` (`commands/mod.rs`), whose parts each have their own mutex.

| Component | State | Operations | What is hard | What makes it correct |
|---|---|---|---|---|
| Document registry, `platform/session.rs` | path index, reservations, documents, tombstones under one mutex; session, source and page cache of each document under its own mutex | `reserve_path`, `cancel_reservation`, `commit`, `with_source`, `get_or_load_page`, `replace_source`, `close`, `trim_cache` | reads, replacements and closes overlap; a reservation is waited for on a condition variable; page budget counted one document at a time | one document per path; limit; no stale page; a closed document stays closed; every command returns |
| Open batches, `commands/mod.rs` 113–191, 589–815, 1188–1223 | the plan of each batch, request FIFOs, prepare permits | `open_paths`, `cancel_open` | batches share files, permits and request ids; cancellation at any point; partial failure | no reservation or permit leaks; a cancelled request commits at most the item in hand; every batch responds |
| Copy manager, `copy/mod.rs` | entries with status and cancel flag, current and previous attempts of each session, commit gate | `start`, `cancel`, `cancel_session`, `cancel_all`, the thread `run_copy` | cancellation against the one write to the clipboard; dropped sources; ids used again | a cancelled or dropped copy never writes; the outcome says what the clipboard has |
| Query service, `query/engine.rs` | epochs, tasks, statuses, results, permits | `execute`, `cancel`, `drop_session`, `shutdown`, the worker `run_query` | late workers against newer queries and drops; limits with eviction | readable results are current; a dropped session is quiet |
| CSV preparation, `query/engine.rs` 689–1271, 1799–1951, 3669–3750 | one task per session with state, artifact, condition variable | `prepare_csv_session`, `cancel_csv_preparation`, its worker, the queries that wait for it | replaced workers publish late; waiters of a task that goes away | only the current task publishes; every waiter is woken |
| Column values, `query/column_values.rs` | operations with status, cancel flag, snapshot and commit gate; permits shared with queries | start, status, page, copy, cancel, release | a build that ends after its cancellation; a copy inside two commit gates; workers that outlive their panel | an operation that was given up keeps no snapshot and writes no copy; workers are bounded |
| CSV source, `data/csv_source.rs` | index state shared with its worker, boundary cache | `open`, `cancel_index`, `read_page`, `prepare` (takeover) | index worker and preparation write the same state | one writer of the final state |
| Settings store, `storage/settings.rs` | the settings file, backups, temporary files | `load`, `save`, recovery | crash between two renames; a load during a save | one valid settings file after any crash |
| CSV cache, `storage/csv_cache.rs` | entries on disk, lease files, a global lock, several processes | lookup, publish, evict, clear | eviction against leases, unlinked lock files | no leased entry is removed; within budget |
| Cache migration, `commands/cache_migration.rs`, `storage/csv_cache/migration*` | journal, two directories with owner, redirect and marker, the setting; control lock, global locks, service mutex | start, cancel, the thread, recovery, `query_service`, `update_settings` | a crash after each step; two windows; commands admitted meanwhile; three locks | the entries follow the saved setting; leased entries stay; the selected directory opens again |
| Temporary storage, `storage/temp.rs` | leases with reservations, process directories with lock file and marker | `open`, `allocate`, `commit_usage`, drop, `clear_inactive`, the janitor | reservations against usage measured file by file; janitors of other processes; crash at any point | promises fit into the limit; live directories are kept |
| Commands of one document, `commands/mod.rs` | previews, validations, boundary navigations, each a map of tasks | `configure_csv`, `apply_csv_profile`, preview, validation, `close` | the order of `replace_source`, `cancel_session`, `drop_session` | a newer generation wins |
| Viewer shell, `src/App.tsx`, `src/backend.ts`, `src/query/state.ts` | tabs, placeholders, request counters, close barriers, deferred opens | open, close, page, query, preparation | answers arrive late, a tab closes while it opens | no document without a tab, no tab without a document |
| Data grid, `src/VirtualDataGrid.tsx`, `src/gridScrollScheduler.ts`, `src/gridSelection.ts` | scroll mode, pending page, selection | scrolling, navigation, copying | late pages while scrolling | the page shown is the one scrolled to |
| Formats and values, `data/*`, `domain/*`, `query/sql.rs` | none shared | parsing, inference, formatting, SQL | | data, not control |

How they interact: `open_paths` reserves and commits through the registry;
`close` cancels the copies of the document, drops its queries and then removes it;
`execute_query` starts a query and cancels the copies of the older one;
`configure_csv` and `apply_csv_profile` drop the queries of the old session and
then replace the source; copies and queries read sources through the registry or from
a query result; queries wait for CSV preparation; preparation uses the cache and
the temporary storage; migration stops the query service and moves the cache.

`PROJECT.json` lists the hazards of this code one by one, each at its line, with
the properties that would catch it, or the reason why none does yet.

## The modules

### DocumentRegistry (with OpenDocuments)

`platform/session.rs`.  A thread runs one command at a time; each critical
section of a lock is one action and everything between two sections is local to
the thread (`pc`, `local`).  Only `close` holds a document's mutex while it takes
the registry's, so only that mutex is a variable (`docLock`).

| Code | Model |
|---|---|
| `RegistryState` | `documents`, `paths`, `reservations`, `closed_documents`, `next_document_id` |
| `DocumentState` (behind an `Arc`, outlives its removal) | `entry` |
| `reserve_path`: first check and wakeups | `CallOpen`, `Reserve`, `SpuriousWakeup` |
| `commit`, `cancel_reservation`, `identity` | `Commit`, `CancelReservation`, `Identity` |
| `with_source`, `get_or_load_page` | `CallSource`/`CallPage`, `LockSource`, `PageHit`, `PageMiss`, `InsertPage`, `LoadFails`, then `ValidateEntry`, `ValidateSession` |
| `replace_source` | `CallReplace`, `AllocateSession`, `Swap` |
| `close` | `CallClose`, `CloseTombstone`, `CloseLock`, `CloseStale`, `CloseRemove` |
| `trim_cache` | `TrimSnapshot`, `TrimCount`, `TrimPop`, `TrimStop` |

A source is the generation it was opened for, a page is its key and the source
it was read from; rows and bytes are left out, so the limit of a cache is its
number of pages.  Clients send only sessions they were given (`issued`).

`OpenDocuments` is the abstract specification: one map from documents to a file
and a session, changed by `Open`, `Replace` and `Close`, each at one instant.
`DocumentRegistry!Atomic` says that the registry implements it.

### OpenPaths

`AppState::open_paths`.  A batch goes through *reserving* (one item after the
other, in request order, keeping what it has), *preparing* (a chunk of worker
threads at a time, each of which takes a permit) and *settling* (commit, cancel
or join, in request order).  Registry calls are atomic here: `DocumentRegistry`
checks their sections, and `ImplementsOpenDocuments` is the reason why a caller
may see them so.  `completed_requests` and `cancelled_requests` are the FIFOs of
`register_request` and `cancel_open`.

An item whose source is ready is settled in two steps: `CheckRequest` looks for a
cancellation under the lock of the cancellations, `CommitPrepared` commits under
that of the registry, and `CancelOpen` may come in between.  So a cancelled request
may still commit the item it has in hand (`CancelledCommitsNothing` is violated, see below) and no other
(`CancelledCommitsOne`); `spared` are the items committed after their request was
cancelled.  That holds as long as the cancellation is remembered: at the 256th
further request the code forgets the oldest, running or not.

### CopyManager

`CopyManager` and its thread.  `BeginCopy` to `EndCopy` are the steps of
`run_copy` and `execute_copy`: a look at the flag before each batch, the gate, a
second look and the validation of the reader under it, the write, the outcome.
`Drop` and `Replace` are the commands around it: a close or a new query cancels
the copies first and lets their source go afterwards (`dropping`), a replaced CSV
source goes without any cancellation.  Rows and staging file are one step that
succeeds or fails.

### QueryTasks and ColumnValues

`QueryService::execute`, `cancel`, `drop_session`, `run_query`, `finish_task`.
Sessions have an epoch counter in a map; `drop_session` raises and removes it, so
a later query of the same session gets another counter and an old worker sees
that its own has moved.  Merged: the results and statuses cleared together by
`clear`, the wait for a CSV preparation with the wait in the queue of the
limiter; both merge steps between which nothing the properties read can change.
Left out: shutdown, the CSV preparations (a module of their own), interrupts of a
statement, the occupancy cache, reads of a result.

`ColumnValues` extends it with the operations of `query/column_values.rs`, which
use the epochs and the permits of the queries (`QueryNext` is the next-state
relation of the queries with the permits that builds leave).

| Code | Model |
|---|---|
| `start_column_values` up to the registry lock, and under it | `StartColumnValues`, `RegisterColumn` |
| the worker: permit and first check, state Running, snapshot under the gate, error or interrupt | `AdmitColumn`, `RunColumn`, `StoreSnapshot`, `EndFailed` |
| `cancel_task` (flag, status and snapshot under the gate) | `CancelTask`, called by `CancelColumnValues`, `ReleaseColumnValues`, `CloseColumn` |
| `drop_session`: the operations it finds, then the queries | `CloseColumns`, `CloseColumn`, `CloseQueries` |
| `ColumnValuesClipboard`, inside the gate of the copy manager | `CommitColumnCopy`, `EndColumnCopy` |

start, cancel, release and status are commands of the main thread, so one of them
runs at a time.  A copy is the set `copying` of operations whose gate one holds: a
reader keeps the snapshot it opened, and only its commit is compared with the
operation.  Left out: pages and searches of a snapshot with their cursors, the wait
for a CSV preparation, the fingerprint of the source file, shutdown.

### CsvPreparation

`prepare_csv_session` and the thread it spawns never act at the same time, so a
task is one actor: `PrepareCall`, `Insert`, `Lookup`, then `Restore` on a cache hit
or `AcquirePermit`, `StartBuild`, `FinishBuild`, `PublishEntry`, `Reopen` on the
worker, and on both ways `commit_csv_preparation_ready` as `Commit`,
`StoreArtifact`, `SetReady` under the lock of the map (`locked`).  The cancellation
flag, the artifact and the state are not under that lock, so readers, cancellations
and the cancellation of a drop may act between these three.  A query goes through
`source_after_csv_preparation` (`Look`, `Check`, `Wait`, `Recheck`, `Check` again,
`Fetch`), a page or copy through `source_with_ready_csv_artifact`, which is the
same without the wait; `Check` and `TakeArtifact` are also the place where a query
that finds the file changed cancels the task and takes its artifact away.

A file version is what `source_fingerprint_matches` compares; a build during which
the file changed holds no version at all.  Left out: `build_csv_cached_database` and
the allowances (they succeed or fail), errors of reading a fingerprint by a query,
the boundary search, which waits like a query and reads like a page, shutdown, and
the CSV index whose worker a preparation takes over.

### SettingsStore

`SettingsStore::load` and `save`.  Every operation on a file is one action:
`Exists`, `ReadDirectory`, `RestoreBackup`, `RemoveStale`, `Read`, `Quarantine` of
a load; `WriteTemporary`, `LookForFile`, `BackUp`, `Publish`, `Undo`,
`RemoveBackup`, `PublishNew` of a save.  A load that migrates an earlier format or
has quarantined an invalid file goes through the same save (`then` says what it
does afterwards).  `Update` is `update_settings`, a load and a save under the lock
of `lock_csv_cache_control`; `Load` takes no lock, like `query_service` and
`CsvCache::lock_global`.  A file holds the number of the write that made it, which
is also its modification time; formats are "current", "old" and "broken".
`durable` and `attempted` are what the user may rely on: the last save that
returned Ok and the one that was under way when the process ended.  `Fault` bounds
the operations of a save that fail although their files are there; transient
failures of a load's own operations and names that repeat with a process id are
left out.

### CacheMigration

`migrate_to`, its recovery and their callers, on a disk that several windows share.
The disk is the saved setting, the journal and, for each of two roots, whether the
directory is there and owned, the redirect, the transaction marker and the entries;
the target also has staged entries.  A window has a thread that moves the cache and
callers; they exclude each other with the control lock, the global lock of a root,
the mutex of the query service (one per window) and the leases of entries.  Every
file operation that a crash could separate from the next one is an action, except in
evictions: one removes the directory of an entry whole, and one that fails or is cut
short has removed some of its entries.  (A move does remove its entries file by file.)

| Code | Model |
|---|---|
| `start_migration`, `migrate_to` up to the saved setting | `StartMove`, `Preview`, `TakeControl`, `Check`, `CreateTarget`, `OwnTarget`, `LockTarget`, `WriteJournal`, `MarkSource`, `MarkTarget`, `Copy`, `Copied`, `Abandon`, `Unredirect`, `Redirect`, `Commit` |
| `rollback` and `finish_committed`, by the mover or by a recovery | `RollBack`, `UndoRedirect`, `RestoreRedirect`, `Verify`, `Clean`, `RemoveDirectory`, `Untag`, `UnmarkOne`, `UnmarkOther`, `DropJournal`, `Prune`, `PruneOwner`, `PruneDirectory` |
| `query_service` with `recover_interrupted` | `BeginQuery`, `TakeMutex`, `Recover`, `Inspect`, `Read`, `Open` |
| `update_settings` | `BeginUpdate`, `UpdateControl`, `UpdateMutex`, `UpdateLimit` |
| the new service after a move | `Reopen`, `Install` |
| `lookup`, a lease that is dropped, `publish`, `reclaim`, `clear_inactive` | `Lookup`, `Release`, `Publish`, `Reclaim`, `ClearInactive` |

`Crash` ends a window at any step: its locks and leases go, the disk stays.  A key
identifies a source file and its parser, so a whole entry of a key is the right one.
Left out: the replacement of a location whose drive is offline, sizes, progress and
the cancellation inside the copy of one entry, damaged manifests.

### ViewerTabs

The tabs of `src/App.tsx` over the backend as `OpenDocuments` describes it.
JavaScript runs one task at a time, so an event handler or the continuation after
an `await` is one action.  What it sets is `tabs`; what it reads through
`documentsRef.current` is `rendered`, which follows with some delay (`Render`).
Synchronous commands run on the main thread in the order they were sent (`main`),
the dialog opens on the pool, and answers (`replies`) arrive in any order.

| Code | Model |
|---|---|
| `openPaths`, `openFile`, `applyOpenResponse`, their catch | `OpenPaths`, `OpenFile`, `ApplyOpenResponse`, `FailOpen` |
| `closeDocument` of a placeholder, of a tab | `ClosePending`, `CloseTab` |
| `resolveDeferredOpened`, `cleanupOpenedFile` | `Unretained`, `Cleanup` |
| `registerPathClose` and the opens that wait for it | `Barriers`, `Settle`, `Freed` |
| `loadPage`, `configureCsv` | `LoadPage`, `PageArrives`, `ConfigureCsv`, `ConfigureArrives`, `FirstPageArrives` |
| the commands behind them | `ServeItem`, `ServeRejection`, `ServeCancel`, `ServeClose`, `ServeConfigure`, `ServeRead`, `ServeError` |

Left out: queries and preparation of a tab, CSV profiles, polling, order and
activation of tabs, settings, `cancelCsvScan`, which also clears the error of a tab.
The map of barriers is not a variable: an open keeps the promise it has read, which
is over when the calls it stands for are, so `Barriers` are the calls under way.

### TempDirectories and TempReservations

`storage/temp.rs`, proved for every instance and not among the runs: each has a
configuration of its own (`TempDirectories_processes.cfg`,
`TempReservations_leases.cfg`) that TLC checks by hand.

`TempDirectories`: a process creates its directory, its lock file, locks it, writes
the marker and sweeps the directories of others; each of these operations and each
of the janitor's (open the lock file, try the lock, read the marker, unlock, remove)
is an action, and a process may end between any two.  A directory is named by the
process that made it.

`TempReservations`: `allocate` computes the budget under the mutex, one measured
directory at a time (`BeginBudget`, `Charge`, `Grant`, `Refuse`, `BudgetFails`), and
then creates the directory and activates the lease without it; `commit_usage`, the
drop of a lease and `clear_inactive` are taken apart in the same way, and queries
write all the time.  Left out: pinned source files, the usage that is only shown.

## The runs

| Run | Question | Bounds |
|---|---|---|
| `registry` | do the maps stay consistent, does every reservation have an owner, can a page of an old source be cached or returned, is the page budget kept, is the registry atomic? | 2 threads, 2 files, 2 keys, 2 document ids, 3 sessions, 2 reads, limit 2, one-page caches and a total of one page |
| `registry_liveness` | does every command return? | 2 threads, 2 files, 1 key, 1 read, limit 1 |
| `open_batches` | do overlapping batches leak, deadlock, or ignore a cancellation? | 3 batches over 3 files, one duplicate, one bad path, one id used twice, 1 permit, FIFO of 2 |
| `open_opposite` | violation, see below | 2 batches, opposite orders |
| `copies` | cancellation, outcome, drops, and does every copy end? | 2 ids, 2 sessions, 4 starts, history of 0 (an id is used again as soon as its session starts the next copy) |
| `query_service` | which results and snapshots are readable, is a dropped session quiet, do cancelled operations give up, are workers accounted for? | 2 sessions, 2 queries, 2 column-values operations, a drop and a cancellation, three of these commands together, every limit 1 |
| `csv_preparations` | do stale workers publish, can a query read an old or mixed file, does anybody wait for ever? | 1 session, 2 preparations, 1 query or page, 1 cancellation, 1 drop, 2 versions of the file, 1 permit |
| `settings_crashes` | what does a load return after crashes and failures of a save? | 1 caller, 6 writes, 4 loads, 2 crashes, 2 failing operations; no, current, old and damaged file at first |
| `settings_threads` | violation, see below | 2 callers, 3 writes, 1 load, nothing fails |
| `cache_migration` | where are the entries and does the cache open after a move, a failing file operation, a window that ends? | 2 windows with 1 caller each, 1 key, 1 move, 2 crashes, 1 failing operation |
| `cache_settings` | violation, see below | 1 window, 2 callers, no move, 1 failing operation |
| `viewer_tabs` | do tabs and open documents agree, does an open wait for ever? | 1 file, 2 drops and 1 dialog, 2 documents, 3 sessions, 1 change of the header mode, 1 page, 1 failure, two of these three together |

Why these bounds are enough for the cases to happen: two threads are the fewest
that overlap and every race of the registry is between two commands on one
document or one path (a third thread only adds waiters, and the proofs cover any
number); two document ids and three sessions let a document be replaced while
another one is open, or be closed and opened again; every limit (documents, pages,
permits, FIFO, history, tasks, results, worker slots) is reached within the run,
which the mutants that move a limit by one confirm.  Page budget and limit are
properties of counts, so small limits exercise them as large ones do.

Two crashes and two failures are the fewest that leave two backups of different age
and no settings file, the case where `restore_interrupted_save` has to choose.  A
move treats its keys one after the other and in the same way, recovery too, so one
key shows every state of an entry that a crash can leave; two crashes let a recovery
be interrupted as well.  Two drops of one file are a placeholder, its close and the
reopen that waits for it or takes over what it opened; the dialog adds the open that
waits for nothing.

Counters bound how often the user acts and how often something goes wrong:
`MaxDocId`, `MaxSessionId`, `MaxReads`, `MaxStarts`, `MaxBatches`, `MaxExecutes`,
`MaxEpochs`, `MaxDrops`, `MaxCancels`, `MaxCommands`, `MaxTasks`, `MaxVersions`,
`MaxWrites`, `MaxLoads`, `MaxMoves`, `MaxCrashes`, `MaxFaults`, `MaxDocument`,
`MaxSession`, `MaxConfigures`, `MaxPages`, `MaxFailures`, `MaxTurns`.

`CHECK_DEADLOCK FALSE` appears in each configuration because the system may
really stop: when no command is running and the user issues none, which the
counters force at the end of every behaviour.  A deadlock of commands is what
`CommandsReturn`, `WaitersProceed`, `BatchesRespond`, `CopiesEnd` and `CallsReturn`
rule out or show.  `PreparationsGoOn` and `OpensGoOn` do so without fairness:
whoever is waited for has a thread, or a call under way, that can go on.

Symmetry is used over threads, paths, keys, ids, sessions, operations and windows,
which the modules only compare, and never with a liveness property.

Fairness: weak fairness of each thread's own steps (`Step(t)`, `Work(b)`,
`Worker(b, i)`, a copy's `Step(o)`): the operating system schedules every thread
that can run, and a mutex or permit that stays free is obtained.  No fairness for
users: commands, cancellations, closes and replacements may never come.  Where a
thread could be overtaken for ever (a permit that is taken again and again) the
number of competitors is finite.  Strong fairness appears once, in
`CacheMigration!FairSpec`, where windows may take a lock again and again; it makes
the deadlock of `cache_settings` the fault of the order of locks and not of the
scheduler.  Reading a source and the clipboard call are assumed to end, in success
or in failure.

## Disagreements found

* `open_opposite`.  A batch keeps its reservations while it waits for its next
  path, so two batches that name the same two files in opposite orders wait for
  each other for ever; any later open of one of these files waits too, on the main
  thread if it came from `open_data_paths`.  The comment of `reserve_path`
  promises that concurrent opens "wait for the first reservation to commit or
  fail, then reuse or retry deterministically".  The batches need two concurrent
  entry points, which exist: `open_data_paths` runs on the main thread and
  `select_data_file_paths` on the pool.  `open_batches` shows that batches which
  name common files in one order always respond.
* `settings_threads`.  `load` takes a missing settings file for an interrupted
  save, which `docs/PROJECT_SPEC.md` (462) describes for a process that ended, but
  it is missing during every save as well and `load` takes no lock.  A load that
  sees the backup of a running save moves it over the file the save has just
  published; `update_settings` has answered Ok and the old settings are back.
  With no second thread the recovery is right: `settings_crashes`.
* `cache_settings`.  When the storage could not be opened at the start, settings
  shall stay reachable (`commands/mod.rs`, 475).  But then `query_service` holds the
  mutex of the service while its recovery waits for the control lock, and
  `update_settings` holds the control lock while it waits for that mutex.  One
  command of the pool and one change of the settings at the same time, and neither
  returns; the second is on the main thread.

Observed while modelling, without a run of its own.

Requests, sessions, settings and cache (the first two with a configuration of their own,
in which TLC violates the statement of the document):

* `is_request_cancelled` and the commit of an item take different locks
  (`commands/mod.rs`, 695 and 701), so a cancellation between them is too late for this
  item; `artifacts/phase-8/30-platform-design.md` (230) has every item cancelled that is
  not committed yet (`CancelledCommitsNothing`, `OpenPaths_cancelled.cfg`).  It takes a
  batch on the pool whose request the client cancels: commands of the main thread cannot
  overlap, and the shell cancels only requests of placeholders, whose opens run there; so
  today nobody meets it.
* `docs/PROJECT_SPEC.md` (185) lets a query that finds a preparation scan the file itself
  "only" if the preparation failed or was explicitly cancelled.  The code does so too when
  the file has changed (`query/engine.rs`, 1880 and 1923): it flags the preparation and
  goes on alone, while that may still be reading the file (`FallbackAfterFailure`,
  `CsvPreparation_fallback.cfg`).  The query reads the file as it is now, which is right;
  but the second scan beside the first, which the document rules out, can happen.  That
  these three are the only reasons is `FallbackJustified`, a part of the proved invariant.
* `drop_session` clears the statuses of its session once no task of it is active,
  but `execute` removes tasks in a terminal state from that map before their worker
  has stored its status, so the status of a dropped session can stay behind.
  `DropQuiesces` holds all the same: what is left is one small record.
* A query admitted while its session is being dropped can register after the
  cleanup; its result stays until it is evicted.  The FIFO of request ids forgets
  the oldest of 256, running or not, and its cancellation with it.
* A build of column values takes a query permit before it waits for a CSV
  preparation, although `docs/PROJECT_SPEC.md` (181) says that waiters hold none.
  Its status can go from Cancelled to Running and back.  An operation that registers
  between the first step of `drop_session` and the change of the epoch becomes Ready
  although it is outdated and keeps its slot until it is released.
* A marker or journal that a crash left empty (`write_new_json` creates the file and
  then writes it) makes every later recovery fail; so does a target directory
  without its owner file, which is refused as foreign.  The commit of a move saves
  the settings it loaded at its start, so settings changed meanwhile by another
  window are lost.
* `clear_inactive` takes a snapshot of the active leases and then lists the
  directories, so it removes that of a lease allocated in between.  The drop of a
  lease removes the empty parent directory while an allocation of the same document
  creates it.  A janitor that probes the lock file of a directory under construction
  makes its owner's `try_lock` fail and leaves a directory without a marker, which
  nobody collects.  What a query writes beyond its reservation is counted only once
  it is measured: only the promises are proved to fit (`GrantsWithinLimit`).

Frontend:

* `loadPage` is guarded by `pageRequests` and a query by `queryRequests` only
  (`App.tsx`, 2056–2109 and 2728–2900).  A page asked for before a query, or for
  the result of an older one, that arrives after the new result was committed
  replaces the first page of that result; `docs/DEVELOPMENT_PLAN.md` (669) lists
  "query replace/cancel" among what must leave no stale page.
* The catch of `cancelDocumentQuery` does not look whether the query is still the
  current one and marks a newer one failed.
* Changing the header mode raises `pageRequests`, so a page under way is dropped
  without clearing its loading state until the next page arrives.
* A tab closed while another open that joined its document is under way comes back
  without a document behind it; the cleanup of a closed placeholder compares
  sessions with what was rendered (`App.tsx`, 1753–1756), so after a change of the
  header mode it closes a document that a tab shows.

CSV index (`data/csv_source.rs`):

* `restore_prepared_state` (1895–1926) publishes a complete index without stopping
  the worker of a smaller file, which then overwrites the number of rows
  (2966–3019) while the state stays Complete.  A poll that reads it in between
  stops polling with too few rows, against `docs/PROJECT_SPEC.md` (196–198).
* `preparation_aborted` (1849–1869) restarts the index with a detached worker for
  each provider, resets a cancellation, and its outcome is dropped when the state
  is Cancelled.  A preparation of a large file that fails before its task exists
  leaves the index Calculating with no worker.

## The proofs

`DocumentRegistryProofs` proves, for any threads, paths, keys and limits satisfying
`BoundsAssumption`:

* `TypeCorrect`: `TypeOK` and `ArgumentsOK`, what the locals of a command hold at
  each control point.
* `RegistryConsistent`: `RegistryInvariant`.  `OneDocumentPerPath` alone is not
  inductive: `commit` would break it if its reservation had been given away or its
  id were open already.  `IdentifiersOwned` adds who owns an id: an id below
  `next_document_id` is reserved by one command for one path, or open under one
  path, or closed, or given up.  From it follow `OneDocumentPerPathAlways` and
  `ReservationsOwnedAlways` (the early return of `commit` is never taken).
* `PagesCorrect`: `PageInvariant`.  A cached page belongs to the current source
  because the reader compared the session under the document's mutex before and
  after its load; `ReadsHoldTheirSource` says that between the two it holds the
  source of the session it was asked for.  From it follow
  `CachedPagesCurrentAlways` and `ResultsMatchRequestAlways`.
* `WithinDocumentLimitAlways`, by counting documents and reservations together:
  `commit` moves one from the second to the first, and only `reserve_path` adds.
* `ReservationsHeldAlways` and `NoLostWakeupAlways`: every reservation has a command
  that is going to commit or cancel it, and whoever waits on the condition variable
  waits for such a command.  `notify_all` wakes everybody, so a waiter that sleeps
  has looked since the last reservation ended; the proof needs that the look and the
  wait are one critical section.
* `WithinPageBudgetAlways`, by a ledger.  `trim_cache` counts one document after the
  other while others insert, so what it has counted says nothing of the pages there are.
  The invariant `BudgetInvariant` keeps a ledger (`Balanced`): every cached page is one
  of those that the last pass to stop had counted, no more than the capacity, or was
  inserted since that pass began by a command that still owes its trim; for each pass
  under way the ledger says the same of what it has counted so far.  A command
  that leaves without a trim, because its validation failed, leaves no page: the document
  has another source by then and the page is gone with the old one.  Counting is by sets
  of named pages, so that no induction over data is needed.
* `ClosedForGoodAlways`, an action property, from `RegistryInvariant`.
* `ImplementsOpenDocuments`: `Spec => Atomic`, by forward simulation with the
  mapping in `DocumentRegistry!Documents`.  `Commit` is `Open`, `Swap` is
  `Replace`, `CloseRemove` is `Close`, every other step stutters; that the new
  session of a document is fresh and larger needs the invariant `Generations` of
  the allocated sessions.

`CopyManagerProofs` (assuming `CopyAssumption`: `None` is no operation, request, drop
or outcome, and the bounds are numbers), for any operation ids, sessions and history:

* `CopiesAgree`: `CopyInvariant`.  `CancelHonoured` alone is not inductive: a thread
  writes when it is past the second look at the flag, and nothing in the property
  says that a cancellation cannot still come.  `ThreadsAgree` adds what each control
  point says of the entry, the outcome and the gate (who writes holds the gate, is
  Committing and not cancelled), `ThreadsRegistered` and `HistoryOwned` that a thread
  and its entry belong together although ids are used again, `WrittenCompletes` that
  a written text ends Complete, `DroppedCancelled` that what a command is about to
  drop has been cancelled before.
* `CopiesTyped`, `CancelHonouredAlways`, `OutcomeMatchesClipboardAlways` and the action
  property `DroppedNeverWrittenAlways` follow from it.

`OpenPathsProofs` (assuming `RequestAssumption`: requests are sequences of paths, and
there is a permit), for any batches, paths in any order, limits and request ids:

* `ItemsHoldAlways`: `BatchInvariant`.  A batch forgets what it plans as it settles
  one item after the other, so `ReservationsAccounted` is made inductive by counting
  from the items: an item that has reserved and is not settled has its reservation,
  two such items never have the same path, every reservation has one, and
  `PhasesOrdered` says that a batch responds only when nothing is left unsettled.
* `ReservationsAccountedAlways` follows.  It holds also for the opposite orders of
  `open_opposite`, which block but leak nothing.
* `PermitsCountedAlways`: the permits of the prepare limiter are those of the running
  workers, counted, so they never exceed the limit and none is lost.
* `CancelledCommitsOneAlways`: a cancelled batch commits at most one more document, the
  one whose check came before the cancellation.  `RequestsKept` makes it inductive: a
  batch that has started is registered and is the only one with its id, each list holds
  an id once, a cancellation is remembered until the batch with its id has responded,
  and a batch with a spared item is not about to commit another.  The theorem
  assumes that the lists have a place for every id in use (`IsFiniteSet(RequestIds)`,
  `Cardinality(RequestIds) <= RequestCapacity`, 256 in the code): a longer history drops
  the oldest ids from the front, and then a cancellation may be forgotten.
* `TypesAlways`: `TypeOK`, with the bounds of the lists and of what a batch plans.

`ColumnValuesProofs` (assuming `QueryAssumption` and `ColumnAssumption`: `None` is no
session or operation, the limits are positive), for any sessions, operations, queries and
drops, for the queries and the column values beside them:

* `ServiceAgrees`: `ServiceInvariant`, with `QueryInvariant` for the queries.
  `ResultsCurrent` alone is not inductive: nothing in it says why a late worker cannot
  publish after its successor has cleared the session.  `WorkersFound` says that a worker
  which may still publish is in the map of tasks and that every newer execution either has
  raised its flag or has not yet come to it; `EpochsOwned` that a counter serves one
  session, so that a drop makes stale only what it clears afterwards; `EpochsCount` that a
  counter never comes back to a generation that a task has taken; `DoomedAgree` that what
  a drop waited for stays finished.
* From it follow `ServiceTyped` (the limits of the maps, and the permits counted over
  queries and builds together), `ResultsCurrentAlways`, `CompleteReadableAlways`,
  `DropQuiescesAlways`, `CancelledGivesUpAlways` and `WorkersAccountedAlways`.

`CsvPreparationProofs` (assuming `PreparationAssumption`: `None` is no task, session or
version, and there is a permit), for any sessions, queries, drops, tasks and versions:

* `PreparationsAgree`: `PreparationInvariant`.  `PreparedIsFresh` alone is not
  inductive: a query compares the fingerprints, then the state, then takes the
  artifact, and another thread may act between any two of them.  `QueriesAgree` says
  what each of these looks has found out and why it stays true (a state that is not
  Preparing never changes, a fingerprint that no longer matches never matches again,
  an artifact is taken away only after that); `ArtifactMatches` and
  `CommitsCurrently` say the same of the worker.
* From it follow `TypeOK` (the limiter never exceeds its permits, by counting the
  workers that hold one), the safety invariants and the action property
  `ReadyIsCurrent`, whose proof is that only `SetReady` makes a task Ready and that
  the map cannot change while a task is between its look and that step.

`CacheMigrationProofs` (assuming `MigrationAssumption` and that `None` is no journal), for
any windows, threads, entries and two roots:

* `MigrationTyped`: `TypeOK`, and `ControlHeld`: the control lock has one holder and that
  thread is at a point that needs it.
* `CacheFollowsSettingAlways`, `LeasedWholeAlways` and `SelectedOpensAlways`, from one
  invariant, `MoveInvariant`.  `CacheFollowsSetting` alone is not inductive: a commit
  would break it if an entry of the target were not whole yet, a cleanup if it worked on
  the selected root.  `FilesKept` says what the journal stands for at each stage,
  `HolderKeeps` what the thread that holds the control lock has done so far at each
  control point, `LeasesKept` that entries are leased only from the selected root.
  Before the settings are saved nobody leases and nothing of the source is touched; a
  rollback works on the root that is not selected; afterwards only the source is cleaned,
  and the journal goes last, so that what an ended window leaves behind is always named
  by it.

`ViewerTabsProofs` (assuming `TabsAssumption`: finitely many paths and requests, `None` is
no request, the bounds are numbers; and `NoneAssumption`: `None` is not an entry kept for
a reopen), for any files, requests, documents, sessions, failures
and renders:

* `TabsTypedAlways`: `TypeOK`, and `OpensGoOnAlways`: `OpensGoOn`, from one invariant,
  `PageInvariant`.  Neither is inductive alone.  A barrier goes when the call it stands
  for is answered (`Settle`), so that an open keeps waiting only for calls under way needs
  to know which calls these can be (`SentCalls`), and that a cleanup is remembered exactly
  as long as it is under way needs `CleanupsOnce`: two cleanups under way are never of the
  same document and session.  `ResultsAgree` says that a document has one path, whichever
  requests opened or joined it, and that what is kept for a reopen was opened by some
  request.
* `TabsConsistentAlways`: `TabsConsistent`, from `SessionInvariant`, which adds to
  `PageInvariant` what relates tabs, calls and sessions.  `TabsConsistent` speaks of tabs
  only, and whether an answer may be applied to a tab was decided when its call was sent,
  perhaps several renders and header modes ago.  `CallsNumbered` says that no call has a
  number the page has not given yet, and that the newest call of a document still has its
  tab; `TurnsOnce` that a header mode and the first page it asks for never are under way
  together, so the number alone tells whether an answer is the newest.  `CallsFit` and
  `AnswersFit` say which session such a call or answer carries: that of the tab, or one
  that the tab is about to take.  The last of them holds because the main thread is a queue
  (`ConfiguresFirst`): a page asked for after a new header mode is read after it, and
  then from the new session or not at all, so the answer of the header mode cannot find a
  page of the old session on its way.  `SessionsGrow` says that sessions of a document only
  grow, `TabsOpened` that a rendered tab, whose session the next call takes, is at most
  older than that of the state.  One lemma per action shows that it keeps both halves,
  `TabsAgree` and `CallsAgree`; the lemmas `CallsStay`, `CallsChange` and `TabsUpdated` do
  so for whole groups of actions.
* `NothingForgottenAlways`: `NothingForgotten`, from `KeptInvariant`, which adds
  `DocumentsAgree` to `SessionInvariant`.  A close only works if it names the current or
  the previous session of the document, so "a close of it is sent" is not enough to stay
  true: the close could be executed and find nothing, because header modes in the queue
  before it have renewed the session twice.  `DocumentsKept` therefore distinguishes how
  an open document can be found again: `CloseComes`, a close in the queue that will find
  it whatever is executed before; `TabCloses`, a tab, rendered or not, whose session a
  close would find, now and after every header mode in the queue; `NeverShown`, no tab and
  no header mode yet, and every request that opened or joined it knows its only session.
  `ConfiguresOrdered` (header modes of a document are executed in the order they were
  chosen) shows that the tab that takes the session of its newest header mode takes the
  current one, `ClosesDone` that a close that was executed and left the document open
  named neither session, and `NothingNewer` that nobody names a session the backend has
  not given yet.  The lemmas `PageStepKeeps`, `CallForgets` and `ServedForgets` show it for
  the tasks of the page, the commands of the main thread and the opens.

`StorageProofs` proves about three modules, two of them as instances.  Of `SettingsStore`
(assuming `SettingsAssumption`: `None` is no file and the bounds are numbers):

* `SettingsTyped`: `TypeOK` and `FilesNamed`, for any callers.  A step reads the backup
  that the locals of its caller name, so the types need that they name one.
* `LoadReturnsSavedAlways`, for one caller and any number of saves, loads, failed file
  operations and ends of the process.  `LoadInvariant` makes it inductive: it speaks of
  what a load *would* find if it began now (settings.json, or the newest backup, or the
  defaults) and says that it is always something the load may return.  `FilesOrdered`
  orders the files by the writes that made them: every backup is older than
  settings.json, no two are equal, and only the first file can be damaged, so a rename
  that moves a file away or back leaves what would be found.  `PointAgrees` says what
  each control point knows.  With two callers the statement is false (TLC violates it on the instance of
  `settings_threads`, as it does `SavedSettingsStay`): a load that runs between the two
  renames of a save takes the save for interrupted.  The theorem says that this overlap
  is needed: with one caller no end of the process and no failure loses settings.

Of `TempDirectories` (assuming that `None` is no process):

* `LiveDirectoriesKept`: the directory, lock file and marker of a live process stay
  until it gives them up.  The inductive invariant `DirectoryInvariant` adds who
  holds which lock: a janitor that removes a directory got the lock of its lock file
  and saw the marker, and a live owner with a marker holds that lock.

Of `TempReservations` (assuming that the amounts are natural numbers):

* `BudgetAlways`: `BudgetInvariant`, which is `GrantsWithinLimit` made inductive:
  one thread at a time computes a budget, what it has charged covers what is
  reserved for the leases it has seen, and every live lease is reserved.
* `GrantsWithinLimitAlways`: whenever a reservation is granted, all reservations
  together fit into the limit.  Sums over leases are cardinalities of sets of units,
  so no induction over data is needed.

TLC checked the invariants of these proofs before they were proved: those of the
registry in `registry` and `registry_liveness` (the ledger of the page budget in over ten
million states of two instances, not to the end), `MoveInvariant` on the instance of
`cache_migration` and on a larger one (699 643 and 1 755 071 states), `RequestsKept` on
that of `open_batches` (266 631), `PageInvariant`, `SessionInvariant` and `KeptInvariant` on that
of `viewer_tabs` (1 275 228; the last two also on others with more pages and header modes,
the third with two files),
`LoadInvariant` on that of `settings_crashes` (1 260 316), the others by their own configurations.  `ReservationsOwned`,
`ClosedForGood`, `NoLostWakeup`, `PermitsCounted`, the inductive invariants and the
properties of `TempDirectories` and `TempReservations` are proved and in no run.

Only model-checked: liveness and everything about `ENABLED`, which are outside the
prover's reach.  Every type invariant and every safety invariant of the runs above that
pass is a theorem.

## What is not modelled

File formats, parsing, inference, value formatting, SQL text and rendering are
data: no property here depends on them.  Poisoned mutexes (a panic inside a
critical section) and failing allocations are left out.  Of the control:

* the index worker of a CSV source and its takeover by a preparation
  (`data/csv_source.rs`); what reading the code showed is under
  [disagreements found](#disagreements-found);
* the previews, validations and boundary navigations of a document
  (`commands/mod.rs`): maps of tasks with a generation each;
* the queries and the preparation of a tab (`App.tsx`, `query/state.ts`), and the
  scroll scheduler and selection of the grid;
* the order of shutdown: the windows of these models end at any step, which is
  harder on the disk, but nobody joins their threads;
* the pages, searches and cursors of a column-values snapshot and the wait of its
  build for a CSV preparation;
* the replacement of a cache location whose drive is offline.

The remaining components of the first table are listed in `PROJECT.json` with the
reason.

## The plan

In this order; each module is written to be proved about (no `RECURSIVE`).

1. `CsvIndex` next to `CsvPreparation`: the worker, its permit, `cancel_index`, the
   takeover, and the polls of the frontend.  To check: a state that says Complete
   has its final number of rows; a state that says Calculating has a worker.
2. `DocumentTasks`: previews, validations and boundary navigations.  To check: the
   active preview is the newest one; a cancelled validation gives its slot back; a
   cancellation that comes before its begin is not lost.
3. The queries of a tab next to `ViewerTabs`: no page of an older result replaces
   the first page of a newer one.
4. Shutdown: every thread joined, every lock of the disk given back.
5. Pure algorithms against reference definitions over bounded inputs: the scroll
   scheduler, boundary search, checkpoint compaction of the CSV index.
