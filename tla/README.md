# A TLA+ model of excalidraw-desktop

excalidraw-desktop is a Tauri application: a Rust backend (`src-tauri/src`) that
owns files, a SQLite database and native windows, and one web frontend (`src`)
per window. The modules here model the parts of it whose correctness depends on
the order in which things happen: several windows that share Workspaces, drawings,
one database and one process; commands that await between their steps; a file
watcher that looks at files other programs write; a history of versions with its
objects and its collector; a quit that asks all windows; crashes and what the next
launch makes of them. Line numbers below are those of the source tree.

## 1. Inventory

`src-tauri/src` is abbreviated `T`. Components that are modelled, in whole or in part, are
marked * and followed by their modules.

### Windows and ownership

| Component | State | Operations | Interacts with |
|---|---|---|---|
| * Window registry, `T/window/registry.rs` — WindowRegistry | registered windows, their Workspace and drawings, two reverse indexes, reported tabs, pending opened paths; all under one mutex | `register`, `unregister`, `claim`, `rollback_claim`, `release_workspace`, `claim_document`, `release_document`, `set_session_tabs`, `session_snapshot` | every command of every window |
| * Workspace commands, `T/commands/workspace.rs`, `T/lib.rs` — WorkspaceCommands | the `mounted` column, the table of watcher tasks | `claim_for_window`, `release_for_window`, `window_release_workspace`, the Destroyed handler | registry, database, watcher |
| * Quit coordinator, `T/window/quit.rs`, `src/app/exitCheckpoint.ts` — QuitCoordinator | idle, collecting (request, pending windows, deadline), exiting | `request`, `ready`, `window_destroyed`, `check_deadline` | registry, all frontends, the Destroyed handler |
| * Window Session, `T/window/session.rs`, `T/window/mod.rs`, `T/commands/session.rs`, `src/app/windowSession.ts` — WindowSession, SessionRestore | hold, freeze, scheduled flag; table `window_session` | `persist_session`, `schedule_session_write`, `restore_session`, `finish_recovery` | registry, quit, database queue |
| * Peer close, `T/window/peer_close.rs` — WindowMessages | one pending request per window | ask a peer to give a Workspace up, wait, claim | registry, frontends |
| * Router and bootstrap, `T/window/router.rs`, `src/app/openFileHandler.ts` — WindowMessages | pending paths per window | `plan_routes`, `route_open_paths`, the bootstrap command | registry |
| * Native menu, `T/native_menu.rs`, `T/native_menu_spec.rs`, `T/lib.rs` — NativeMenu | labels, what each window reported, the window shown; the menu itself | `sync_native_menu`, `set_native_menu_enabled`, `show_window_state`, `forget_window_state`, `handle_menu_event` | window events, registry, all frontends |
| * Geometry and placement, `T/window/{geometry,placement}.rs` — WindowPlacement | displays, window rectangles, pending placements, table `workspace_window_state` | `record`, `flush`, `remembered_plan`, `restored_rect`, `staggered_rect` | window events, registry, exit |

*Hard*: a claim is committed under the mutex and written to the database outside it;
a window may be destroyed while its own command still runs; answers of an earlier quit
arrive during a later one; events to a window that does not listen yet are lost; several writers of the session,
some of which run while the exit tears windows down; a restored window that cannot be built.
*Correct means*: indexes agree with windows; no two windows own overlapping folders or one
drawing; the database and the watchers follow the registry; the app exits exactly when all
windows of this very request have saved; a quit ends; a window that waits for another is answered; a drawing asked for gets
to a window; the menu shows, and serves, the window in front; a stored session is lost neither to Recovery nor to the exit, and comes back.

### Documents

| Component | State | Operations | Interacts with |
|---|---|---|---|
| * Document service, `T/commands/documents.rs` — DocumentService | per drawing: the file, the draft row, recovery snapshots, conflict flag, lock | `open`, `save_draft`, `checkpoint`, `resolve_conflict`, `close`, orphan discard; create, save as, import (in SceneImages and DocumentIdentity only) | database, history, watcher, atomic write |
| * File watcher, `T/watcher/mod.rs` — WatcherEvents, DocumentService | debounce table, table of known files, expected echoes, conflict registry | `run_workspace_watch`, `resolve_batch`, `process_change`, `note_own_write`, `begin_entry_operation` | file system, draft rows, windows |
| * Atomic write, `T/documents/atomic_write.rs`, `T/history/objects.rs`, `T/workspace_entries/mod.rs` — AtomicWrite | a temporary file and the directory | write, sync, guarded rename or link, sync of the directory | file system |
| * Recovery, `T/documents/recovery.rs`, `T/commands/recovery.rs`, `T/documents/session_lock.rs`, `src/documents/recoveryManager.ts` — Recovery | snapshot slots per drawing, the session's lock | write a slot, list offers, apply or discard an offer, finish | draft rows, frontends |
| * Document manager of a window, `src/documents/{documentStore,draftScheduler,conflictDetector}.ts` — DocumentSession | sessions with a revision, scheduler, queue of operations | open, update, checkpoint, close, delete, reload, resolve, save as | document service, watcher events, editor |
| * Scene images, `T/documents/assets.rs`, `T/commands/asset_scope.rs`, `src/editor/assetResolver.ts` — SceneImages | image stores, references in drawings, what the webview may read | externalise, re-embed, resolve, grant | document service, history, Recovery |
| Validation, export | none | checks and conversions | file system |

*Hard*: the conflict check comes before the lock; the watcher never takes the lock and looks at
the app's own writes, too; notices are merged, paired and swallowed; the process may end at every await; other programs
edit, replace and remove the file at any time; where an image is stored depends on whether a Workspace is mounted.
*Correct means*: file, draft row, snapshot and history identity agree whenever no command runs; a
change by another program is flagged against unsaved edits and told to the window; no edit is dropped unsaved, by a closing, a crash or
Recovery; a reader never finds half a file; a drawing's images are there for whoever reads it.

### History, entries, database

| Component | State | Operations |
|---|---|---|
| * History identity, `T/history/identity.rs` — DocumentIdentity, DocumentService, EntryMutations | rows: path, inode, state | resolve for open, establish, detach, reactivate, record a self write, move, delete |
| * Replacement, operations, reconciliation, `T/history/{replacement,operation,reconcile}.rs` — HistoryReplacement, ReplacementOutcome | operation records with phases, the version that protects | execute a protected replacement, answer about it, reconcile at launch |
| * Objects and garbage collection, `T/history/{objects,gc,store,repository}.rs` — HistoryObjects | content-addressed files, their rows, references and pins in memory | put, publish, pin, list candidates, collect |
| * Versions, `T/history/{automatic,query}.rs`, `T/commands/history.rs` — VersionList, HistoryObjects | version rows, baseline, receipts | automatic and manual versions, marks, deletions, pages |
| * History in the frontend, `src/history/*` (in part) — DocumentSession | a replacement under way per session | protect, replace, adopt |
| * Workspace entries, `T/workspace_entries/*`, `T/commands/entries.rs` — EntryMutations | mutation records, journal | create, rename, delete an entry; replay |
| * Database queue, rows as needed, `T/database/*` | one writer thread and its queue, SQLite tables | `execute`, migrations |
| Index, `T/indexing/mod.rs` | rows of files of a Workspace | scan, refresh |

*Hard*: several stores (file, object files, two databases' worth of rows) change one after the other,
and reconciliation has to recognise each intermediate state after a crash; objects are collected while versions,
replacements and readers come and go; a list is read page by page while it changes.
*Correct means*: reconciliation ends with either the old or the new state; what is answered as failed has not happened; no object that
is referenced is deleted; rows and history follow files that are renamed and deleted.

### The rest

Locale, themes, translations, error and transfer types, IPC client, editor adapter, shell components,
end-to-end harnesses and scripts are not modelled. `PROJECT.json` lists each with its reason.

## 2. Modules

```
WindowRegistry          <-- WorkspaceCommands  (EXTENDS; calls the registry's methods)
                            WorkspaceProofs (both, and EntryMutations; over MCWorkspaceCommands and MCEntryMutations)
QuitCoordinator         <-- WindowSession      (EXTENDS; a whole app run with its exit)
                            WindowSessionProofs (both; over MCWindowSession)
ReplacementOutcome      <-- HistoryReplacement (INSTANCE; implements its Spec)
                              HistoryReplacementProofs
DocumentService    one drawing, its lock, watcher, other programs, crash
DocumentSession    one drawing in one window
                     DocumentProofs (both; over MCDocumentServiceSettings)
Recovery, HistoryObjects, EntryMutations, WindowMessages, NativeMenu
  with RecoveryProofs, HistoryObjectsProofs, WorkspaceProofs, WindowMessagesProofs (the last two)
AtomicWrite, DocumentIdentity, VersionList, WatcherEvents, SceneImages,
WindowPlacement, SessionRestore                (side by side in MCStores)
  StoresProofs, over MCStores: all of them
MC*                     values of the constants for TLC, history variables; one .cfg per run
  MCDocumentServiceSettings, MCWindowSession, MCStores: several settings in one run
```

Operators introduced by "A slip of X" are variants of `X` with one plausible mistake. No
specification uses them; each shows for one property that it notices that mistake.
Each module states a type invariant. Some are proved (section 4); the others were checked while the
modules were written and leave the runs to properties that say more.

### WindowRegistry

Every method of `WindowRegistry` locks the one mutex for its whole body, so each is one action.
`open` is the set of records; `workspace`, `documents` are fields of `WindowRecord`; `workspaceOwner`,
`documentOwner` are the reverse indexes. A path is a point and `Inside` the relation
`starts_with` among the points; `Overlap` is what `decide` looks for. `undo[c]` is the `ClaimRollback`
a call of `claim_for_window` keeps between the commit and the answer of its write: `MountWritten` drops
it, `RollbackClaim` is `rollback_claim`. Labels are never reused by the code; a model label may be
registered again once nothing names it any more, which stands for a fresh one.
The next module adds the commands that call these methods, so that what is said of the registry holds whoever calls.

### WorkspaceCommands

A call of `claim_for_window`, `release_for_window` or the Destroyed handler's task is a slot of
`calls`; every stretch between two awaits or two acquisitions of the mutex is one action, so that
commands of all windows interleave as they do on the runtime. `mounted`, `watched` and `leaked` are the
database column, the table of watcher tasks, and tasks the table has lost (`spawn_for_workspace`
replaces a handle without aborting it). `gone` are windows whose native window is destroyed while their
records are still registered. Writes may fail: `MountFails`, `UnmountFails` are the error paths.
MCWorkspaceCommands adds two history variables: `past` says whether calls have overlapped or writes have failed, `apart` whether those that overlapped
were about different Workspaces, or a window's clean-up and a call of its own. `LiveOwnersAreServed` asks of every behaviour that nothing is left to a destroyed
window (`OwnersLive`), and under `apart` that every held Workspace has its row and watcher (`HeldIsServed`); `StoresFollowInTurn` asks more of calls that come one at a time.
What is left for Workspaces that nobody holds is asked for only there.

### QuitCoordinator and WindowSession

`windows[w]` is a window's life: booting (created, no listener yet), open, closing (its own checkpoint has
succeeded and it goes on to destroy itself), destroyed, gone (unregistered). `quit` is `QuitState` with the number
of the last request. `answers[r][w]` is what the window has made of request r, `reports` the answers on their way,
which may arrive late and in any order, and `timers` the deadlines.

WindowSession adds the session and the end of the process. `persist_session` is `Persist`: check of
hold and freeze, snapshot, and the write's entry into the queue of the single database thread (`writes`).
Another thread may run between the snapshot and the queue (`taken`, `Send`). `scheduled`, `delayed` are the
two moments of `schedule_session_write`. `exit` follows `QuitStep::Exit` and `RunEvent::Exit`. A window has one
tab: new (not reported), shown or closed. `kept` remembers what the exit's own write stored, as far as the windows still had it at the freeze.

### SessionRestore

What the stored session becomes at the next launch: `plan_restore`, the windows created one by one with
their claims, the handshake that hands each its tabs, the reports that store them again, Recovery's hold, a build that fails,
Workspaces and drawings that have gone. The stored session and the plan are tables with a place per label, `Nothing` where there is no entry: their order is that of the places. Windows carry sets of tabs; their order and the active tab are left out. A write of the
session is one step here (its queue is in WindowSession).

### WindowMessages

Paths opened from outside and their routes, a window's startup data and listeners, the openings they end in, peer close
requests and their answers, tabs and windows closed by a user. Events are lost if nobody listens when they are emitted; which window was
used last is a choice; releasing and unregistering a window is one step (WorkspaceCommands has the detail); one path per request;
tabs restored from the last session are in SessionRestore.

### NativeMenu

One menu for all windows. Its model (labels, what each window reported, the window shown) is behind a lock; the menu belongs to the main thread.
Commands and focus events run on the main thread and cannot overlap, but the clean-up of a destroyed window runs beside them, and each reads which
window is in front before it takes the lock. So every handler is two steps, `main` and `cleanup` say between which ones they are, and
`LockFree` is the lock: only the clean-up can be seen holding it, while it waits for the main thread. A change of the menu may fail before or after it took effect;
`failed` and `behind` note what it then shows of an older state. That menus are changed on the main thread only is taken from how Tauri is used here (external).
Left out: the wording of labels and the validation channel of the test harness.

### WindowPlacement

Rectangles on one axis, which both axes obey alike. The tracker records a window's bounds when it is noticed to have moved,
queues a delayed write and flushes at the exit; the next start places windows by the rows and the displays there are then.
Maximized and full screen are one mode; the close of a window and the release of its Workspace are one step.

### DocumentService

One drawing. Contents are model values, drawn locally (`LocalScene`) or written by other programs
(`ExternalScene`); equal contents stand for equal hashes and equal (mtime, size, hash) triplets. `Call`
are slots for commands in flight. A command is requested (conflict check, canonicalisation), waits for
the drawing's lock, then runs step by step, each step ending at an await; `AwaitFails` is any `?` on the
way. `identity` says whether the history's active row names the inode at the path. The watcher consists of the pending change with its
merged kind (`pending`), the known triplet (`known`) and `process_change` between its awaits (`watch`).
`EditInPlace`, `Replace` and `Remove` are other programs; `RawKind` are the kinds under which the system may
report a replaced file, as platforms differ. `Crash` ends the process at any point and starts it again
with the durable state. Left out: assets, thumbnails and index rows; older recovery snapshots.

### DocumentSession

One drawing in one window: revisions, the scheduler's timers, the queue of operations, saving, closing, conflicts,
reloads, protected replacements and their lost answers, against a backend reduced to its draft row, file and refusals. Two settings:
alone, or with another program and failing calls. Left out: several drawings, the activation of tabs, renames of the open drawing, the restoring
of tabs, watcher echoes of own writes, discards that snapshots authorise.

### Recovery

Two drawings with draft rows and a ring of snapshot slots, the session's lock, the offers of a start, their decisions, the window that adopts a restored scene;
crashes, terminations, quits and other programs' writes (to drawings no window shows, and not while offers are decided). The clock is
monotone; malformed slots, renames and what journals hide from the list are left out.

### HistoryReplacement and ReplacementOutcome

One protected replacement beside drafts, checkpoints and other programs: phases of `replacement.rs`, the record of
`operation.rs` and its transitions, the stores changed after the rename, the crash between any two, and `reconcile.rs` at the next launch.
ReplacementOutcome is what a caller is promised: asked once, then old or new, never back, and an answer that agrees. Recovery's dialog is left out: a draft an
earlier run left is only announced.

### HistoryObjects

Objects are files with perhaps a row; `committed`, `operationPins` and `hydrationPins` are the reachability gate's references in memory,
rebuilt by a restart. `task[x]` is what runs with, or without, the lock of a drawing: an automatic version, a mark, a preview, a replacement, a collection
that lists its candidates before it takes the gate. Whether an hourly version is due is a choice.

### VersionList

The rows of one document's versions: automatic, protecting and manual ones, retention, marks with the receipts that answer a repeated request,
deletions, and a reader that goes from page to page by a cursor, with a clock that may be set back.

### DocumentIdentity

Rows that tie a path and an inode to a document; the commands that resolve them, write the file and note the new inode; renames whose
history follows later; other programs that replace, move and remove files. An inode's number is not reused. One checkpoint of a drawing at a time.

### EntryMutations

Create, rename and delete of drawings in a Workspace with the journal's record written first, the stores that follow, and every replay of the journal. Two settings:
one worker at a time with faults, crashes and other programs; or two workers in two Workspaces whose replays overtake each other. Left out: directories, records of
older formats, drafts that are dirty when their drawing is deleted, a rename or Trash that takes over a minute, watcher echoes (in WatcherEvents).

### WatcherEvents

Several paths: notices of the system in the forms platforms give them, the debounce that merges them, the batch with its pairing of renames, echoes of
the app's own operations and the table of known files. `told` is the file that the session at each path has been brought to: an event is sent to the owner
of its path (`owned`) if there is one; a modification is reloaded or made a conflict, a removal makes an orphan, a renaming takes the session
to the new path with the scene it has, and a creation is ignored. Left out: the hash of the last reload, by which the front end skips an event (it is
`seen` in DocumentSession). Two sessions that come to one path are taken as one and excused.

### AtomicWrite

Four ways to publish a file, call by call, each writer's file named after it; failing calls; other programs; a power loss after which unsynced names and bytes may or may
not be there.

### SceneImages

Two drawings, one inside a Workspace: image stores of the Workspace and of a drawing's own folder, scenes that hold bytes or references, and each command that reads or
writes a drawing, up to the versions of the history. A file and its rows are one step; data URLs that are not base64, renames and other programs that remove images are left out.

## 3. Runs

Every run passes. A behaviour that departs from what a document or a comment says is not a property of a run; it is listed below.

| Run | What it shows |
|---|---|
| registry | three windows, a folder, one inside it and one beside it, a drawing: entries and indexes agree, only rollbacks make owned folders overlap |
| commands | two windows, their claims, closings and clean-ups interleaved, with failing writes: nothing is left to a destroyed window; what is held has its row and watcher as long as only windows on different Workspaces, or a clean-up and what it has interrupted, have overlapped, or calls have come one at a time; if these were all well, rows and watchers are exactly those of held Workspaces |
| document | two commands and the watcher at once, while nothing fails and nobody else writes: file, clean row, snapshot and identity agree between commands. The run has two more settings (unwatched, with failures and crashes; one command at a time, with other programs too), in which the rest of the module is explored, but which no property speaks of |
| document_flags | another program's change is flagged against unsaved edits if the system reports a modification (liveness) |
| windows_end | an exit is unanimous, somebody is waited for, a quit cancels for its own reason and ends (liveness); what the exit stored stays and every report is sent, unless threads overtake each other |
| replacement | a protected replacement implements ReplacementOutcome; a refusal is honest, edits are kept |
| objects | what versions and replacements refer to is never collected, a reader reads to the end, what is marked or protects goes only by its user's deletion or a later replacement; in behaviours of its own, NativeMenu: the window in front sees the labels sent last and its own flags, whichever windows report, close or fail beside it |
| entries | rows, snapshots and history follow the files; no other drawing's history is deleted |
| doc_session | no write that was scheduled before a reload is stored after it; the file gets what a closing tab showed and had to save, unless its checkpoint was passed over; each edit is stored (liveness) |
| recovery | an edit the app has answered for is somewhere, but for restored scenes that only memory holds; a start offers what is not in the files |
| windows | sessions and ownership agree; each drawing asked for gets somewhere, the window that waits is answered (liveness) |
| stores | seven components side by side: whole files and true answers over a power loss; a file keeps its document; a paged list is complete; windows are told of changes, but for the losses listed below; no image is referred to before it is stored, and a granted one is shown; placements arrive and windows come back within reach; the session comes back and mounted Workspaces have windows |

`past` and `apart` (commands), `sent` and `overtaken` (windows_end), `unsaved` (replacement) are history variables. Properties whose names end in
"InTurn" or "InOrder" are claimed only of the behaviours such variables single out; the others are in the same run, but the code breaks the property there.
A run with several settings lets a behaviour choose one and stay in it, because all of it at once has too many states. In `stores` the components share no
state; they take turns at the variables `s1` to `s16`.

Stated in modules and not among the runs' properties: the type invariants; `RootsDisjoint`, `WatchedIsClaimed`, `ConflictBlocksWrites`, `OpensAfterCrash`, `QuitLosesNoEdits`,
`QuitKeepsTabs`, `AssetsStand`, `MarkedStay`, `NothingStuck`, `ConflictStaysOpen`, `ReloadKeepsEdits`, `OffersCanBeRetried`, `FocusAppliesFlags`, `ClosedAreNotShown`, `FocusReachesTheMenu` (each broken by a departure below), and
`GateAgrees`, `CompletedAgrees`, `DecidedStays`, `HeldSessionStays`, `CloseKeepsDraft`, `OnlySavingAsStrands`, `RetriesAgree`, `NoTakeover`, `CommandsGoToTheShown` (which hold; the last two are proved).

### Known departures

The models have these behaviours. Each departs from what one would expect of the code or from a sentence of its documents; properties exempt them by name.

Windows:
- A rolled back claim gives its window the old Workspace although an enclosing one was claimed meanwhile (`registry.rs:271`; `RootsDisjoint`).
- A Workspace is granted around a drawing that another window holds by itself (`registry.rs:479`).
- A claim and another window's release write their `mounted` rows in the other order than the registry took them (`workspace.rs:300`).
- A watcher is started after its window was released, or replaces a handle without stopping it (`watcher/mod.rs:247`; `WatchedIsClaimed`).
- A claim that goes on while its window is destroyed and cleaned up leaves a row and a watcher for a Workspace that nobody holds (`lib.rs:474`).
- An edit made after a window's answer is lost to the quit (`quit.rs:115`; `QuitLosesNoEdits`). A window that opens while answers are collected is not asked (`quit.rs:89`).
- A tab whose report is still paused is not in what the quit stores (`windowSession.ts:50`; `QuitKeepsTabs`). A snapshot taken before the freeze may enter the queue after the exit's (`window/mod.rs:158`).
- Paths routed between the handshake and the listener, or pushed after the handshake (`router.rs:94`), or taken by a handshake that fails, are lost; closing a starting window drops its paths.
- A `destroy()` that fails leaves its window marked as going (`exitCheckpoint.ts:59`), and later peers are never answered; nor is a request made of a window that does not listen yet or has finished.
- Two openings of one drawing at once in one window give it two sessions (`documentStore.ts:152`), contrary to `README.md:25` and `docs/architecture.md:357`. A drawing stays owned by a window whose opening failed after the read.
- A restored window that cannot be built leaves its Workspace mounted and watched: its label is unregistered (`window/mod.rs:123`) before the release looks for it (`window/mod.rs:264`).
- The session is stored before restored windows have reported (`window/mod.rs:322`): a crash or quit then loses their tabs. A Workspace that is not reachable at one start is dropped from the next stored session. A list that cannot be read restores nothing and is overwritten.
- A slow flush of placements overwrites a later one; a flush is cut off by the exit; a claim reads the row before a pending placement has been flushed.
- A title bar may be out of reach though some of its window is on a display (`geometry.rs:121`); a staggered window is checked to the right and below only.
- The menu does not follow a window that is shown already: what it reported while another program was in front is put on the menu only by its next report or by another window's focus (`native_menu.rs:457`; `docs/adr/ADR-010-multi-window.md:42`; `FocusAppliesFlags`). Enabling the history item of a window that was not shown sets that one item among another window's.
- The window to show next is read before the lock is taken (`native_menu.rs:473`): it may be destroyed, and cleaned up, in between, and the menu shows a window that is gone (`ClosedAreNotShown`).
- The clean-up holds the menu's lock while it waits for the main thread; a focus event there that waits for the lock waits for ever (`native_menu.rs:474`; `lib.rs:448`; `FocusReachesTheMenu`).

Documents:
- The conflict check comes before the lock (`documents.rs:559`): a draft or checkpoint may be past it when the conflict is flagged (`ConflictBlocksWrites`).
- A crash between the rename and `record_self_write` leaves a drawing that cannot be opened (`documents.rs:602`; `OpensAfterCrash`); so does another program's replacement of a clean drawing (`documents.rs:1090`; `README.md:18`).
- The watcher sees a checkpoint's file before it has been noted: a conflict of the app with itself (`documents.rs:646`; `docs/architecture.md:204`). A change flagged while a conflict is being resolved loses its flag (`documents.rs:906`). A replaced file that is reported as created is not flagged (`watcher/mod.rs:512`).
- An unrelated removal and creation in one batch are taken for a rename: the window's session goes on at the other file with the scene it had (`documentStore.ts:796`), as it does when the renamed file was written too, or is gone again; an orphan comes back as if edited. A file replaced in a way that is reported as a creation is sent as one, which the front end ignores (`watcher/mod.rs:493`; `conflictDetector.ts:76`). A renaming does not move the registry's claim, so what happens at the new path is sent to nobody until the drawing is written there (`window/events.rs:36`; `documents.rs:1334`).
- A change merged into the echo of an own operation is swallowed; echoes that do not come are expected for 10 s; the window is not told when a file comes back that the table still knows.
- A checkpoint that finds the window at a later revision than its own returns as if it had saved (`documentStore.ts:1032`), and a closing goes on: an edit made before the tab was closed, whose checkpoint waits behind a draft, and one made during the closing are both lost if that draft fails.
- A reload drops an edit made meanwhile (`documentStore.ts:869` against `conflictDetector.ts:27`; `ReloadKeepsEdits`). Saving a conflict under another name takes the stored draft for the scene (`documentStore.ts:940`). A conflicted drawing whose edits never reached a draft loses them when it is closed (`draftScheduler.ts:193`). A conflict without a draft row cannot be resolved (`documents.rs:771`). keepLocal followed at once by a closing loses edits (`ConflictStaysOpen`). A drawing opened with a newer draft cannot be closed unedited (`documents.rs:927`). A status error releases the freeze of a replacement although the outcome is unknown.
- Recovery: a restored scene is lost by a crash before its first draft (`commands/recovery.rs:311`); a snapshot drafted in the second of the file's mtime is not offered (`commands/recovery.rs:168`); another program's later write makes an offer "older"; a quit in the middle drops what is undecided (`lib.rs:423`); a retry after a failed deletion finds no snapshot (`documents/recovery.rs:195`; `OffersCanBeRetried`).
- The plain write answers "failed" although the file is published, when the sync of its folder fails (`atomic_write.rs:340`); a writer of an object that finds another's unsynced one answers as if it stood; temporary files of drawings are never cleaned up.
- Whether images go to the Workspace's store depends on whether it is mounted now; a reference written down under the other store dangles, contrary to `assets.rs:8`. A drawing restored outside the home folder gets no grant for its images. Assets are never collected.

History and entries:
- Marking takes a version out of the pool of automatic and protecting ones (`docs/design/local-version-history/interaction.md:85`), but a replacement's retention counts it and may evict it (`commands/history.rs:1430`; `MarkedStay`).
- A publication verifies its scene under the gate, not its assets (`repository.rs:75`; `AssetsStand`).
- A replacement whose record ends in conflict answers "not committed" although the file was renamed; reconciliation's old-state branch overwrites a dirty draft; a mark during the deletion of a history publishes a version of a deleted document.
- A store failure while a drawing is resolved, then a successful save, establishes a second document (`documents.rs:1183`); a rename onto a path with a stale active row gives two active rows; a crash between detach and persist of a save as leaves the drawing unopenable.
- The next number is read outside the publication, and repeats after deletions; with the clock set back, automatic versions stop until it catches up.
- Renames and deletions: the gate is per Workspace but replays are global, with copies of records that may be stale; a deletion that was not committed is dropped when another program puts a file at the path; the file is verified before, not while, it goes to the Trash; a record may stay for ever (`mutation_journal.rs:441`; `NothingStuck`).

### Bounds, and why they are enough

- Windows: three for the registry and the restoration (an owner, a claimer, one in between), two elsewhere. The registry's decisions compare a window with each other one; no operation looks at three at once.
- Workspaces: a folder, one inside it and one apart: the three ways two folders can lie. Drawings: one or two; nothing relates three.
- `Call` = 2 in flight (document): the lost updates found here all need two. Contents: one or two local, one or two external.
- `MaxRequest` = 2: a quit and one after it, so that everything left over from the first meets the second. The quit's theorems hold for every bound. In the session setting no quit is asked for: the exit may come at any time anyway.
- `MaxQueue` = 1: session writes waiting or on their way, the exit's not counted, so that two may be pending and come in either order; each replaces the table as a whole.
- objects: two scenes sharing an asset, two versions, one retained, one request, one restart: an object outlives one reference and is wanted by the next. The theorems hold for every bound.
- replacement: one request, one crash, failing stores. entries: one fault or two workers. recovery: two slots, which the ring fills and overwrites, two faults.
- the menu (objects): two windows (one shown, one to come; a third is to both like the other), two languages, one report, one command. The theorems hold for every bound.
- stores: two writers and two other files with one failing call; two paths, three inodes and three documents, one step of other programs and one failure; three versions, a page of one, retention of one, two clock values; four contents and three changes on two paths; two images and two drawings; two windows on one of two display arrangements and three moves; three windows of a run with two events.
- `RawKind`: "Modified" in document_flags, see the departures; "Created" or "Modified" in document.
- `CHECK_DEADLOCK FALSE` where the app exits, the counted steps run out, or the menu waits for itself (objects, see the departures); registry, commands and documents never stop.
- Symmetry only in runs whose properties are invariants, action properties or a refinement without fairness.

### Fairness

- `SpecShared` (document_flags): weak fairness of the watcher's task and of each step of a command, as the runtime polls what is ready; strong
  fairness of `Acquire`, since a tokio mutex serves its waiters in the order they came. Nothing is assumed of users, other programs or failures.
- QuitCoordinator: weak fairness of each deadline's timer only. Windows may stay silent for ever.
- DocumentSession: weak fairness of its timers, of beginning a queued operation and of a call's answer.
- WindowMessages: `WF_vars(Progress)`: some step of a message or a command that is under way. Users' steps between them are bounded, so that none is overtaken for ever.

## 4. Proofs

All for every value of the constants, under the named assumptions on them; tlapm checks every leaf.

- `WorkspaceProofs`, first of the registry. `IInv` = `TypeOK` and `IndexesInStep`: the indexes can be kept in step only if
  they are so already, because a claim consults the windows (`Conflicting`) and then updates the index. The key is
  `ClaimableIsFree`: the index names nobody else for what may be claimed. From it `TypeCorrect`, `IndexesStayInStep` and
  `NothingIsTakenOver` follow; `OverlapsNeedARollback` adds that a claimable folder overlaps no other window's.
  Then of the commands: `CInv` = `CommandsTypeOK` and the registry's `IInv`: a call has, at each place, the record of that place.
  each step of a call is a method of the registry or leaves it alone (`StepsAreMethods`), so that `CommandsKeepIndexes` draws the registry's theorem over.
  `DestroyedOwnNothing` is the first part of `LiveOwnersAreServed`: as long as a destroyed window is still registered, the clean-up that will unregister it is under way
  (`CleaningInv`), and what is owned has a registered owner. `StoresFollowInTurnHolds` is about `PastSpec` of MCWorkspaceCommands, with its
  history variable. `StoresFollowInTurn` speaks of states without a call only, so `TurnInv` says what holds within one: the only call
  there is has its own part of the work left to do and all else is done. What a claim replaced stays mounted and watched
  until its write has answered, so that a failed write can put it back, and likewise for what a release released; the target of a claim
  has no watcher yet, so none is lost when one is spawned. `TurnInv` was checked on all states of run `commands` first.
  Last of the entries (`EntryMutations`, in the settings of MCEntryMutations). `EntryBase` has that files are apart (`FilesAreApart`) and that every copy of a record there is,
  in a journal's file, in a list that is worked through or in a command's hand (`Copies`), is numbered and no further than its commit allows (`Numbered`, `TaskFollows`).
  `GoneInv` is what `HistoryIsKept` rests on: what the record of a deletion names is not on the disk as long as any copy of it is left, since inodes that something remembers
  are not given out again. Two at once (`AtOnceInv`): a history that has not followed yet has a record which does not tick it off (`Told`), in every copy. One at a time: what
  a worker has in hand is what the journal's file says, but for a marker that was not saved (`TakenInTurn`); a store's entry is the file at its path or is covered by a record
  whose phase for that store is open (`StoresFollow`); a command begins its mutation only after all records there are have proved never to have happened (`PhaseFollows`), so no two records
  are committed at a path. `EntryInv` was checked on all states of run `entries` first. Theorems: `EntriesAreTyped`, `StoresFollowFilesHolds`, `HistoryIsKeptHolds`. Assumed are `FirstDrawing`
  and `FewWorkers`: `f` and `p1` are a file and a path, and the workers are finitely many, which `Cardinality` in the setting needs.
- `WindowSessionProofs`, first of the quit (`QuitCoordinator`). `IInv` adds to the properties what they rest on: nobody is asked before being created or
  for a later request, an answer under way is one that was given, a window not pending any more has saved for this
  request or was not there (`PassedOver`), the deadline of a collecting quit stands, and whoever is pending has not answered or the
  answer is on its way (`PendingIsOpen`). Proved: `TypeCorrect`, `ExitsUnanimously`, `WaitsForSomebody`, `CancelsForItsOwnReason`.
  Then of the run's own specification (`SettingSpec`: it has the history variables). `SInv`: a report is of the tab as
  it is or was (`TabsFollow`), the exit has one write of its own and nothing but a freeze after it (`ExitFollows`), and, unless a thread
  has overtaken another between snapshot and queue, whatever the exit's write stores of windows still there is in each write behind
  it (`InOrder`). From it `OutlivesExitInOrderHolds`, `ReportsAreSentHolds`; `HeldSessionHolds` is the action property that a session held for Recovery stays stored.
- `HistoryReplacementProofs`. `IInv` ties each phase to what the record says and whether the drawing has been renamed (`PhasesFollow`,
  `ReconciliationFollows`), orders the identities seen (`SeenIsPast`) and says where an edit is at each moment: stored by the last draft or
  protected with its request (`EditsStored`), in the session's answer if not (`EditsShown`). Theorems: `TypeCorrect`, `FailureIsHonestHolds`, `EditsKeptHolds` and
  `ImplementsOutcome`, where each step of phases, crashes and reconciliation maps to a step of ReplacementOutcome or a stutter.
- `HistoryObjectsProofs`. `ReferencedStand` is not inductive: a collection takes candidates listed earlier, so it needs that the gate in memory knows
  every row's references (`GateFollows`), that recorded targets are pinned (`TargetsPinned`), that a reader holds what it found (`ReadsWhatIsPinned`) and that no
  two tasks work on one request. Theorems: `TypeCorrect`, `ReferencedStandHolds`, `ReadsCompleteHolds`, `GateAgreesHolds` and the action property `KeptStayHolds`,
  for which each deletion takes only rows of the drawing it is about (`ProtectionsBelong`, `BeginningsBelong`).
- `StoresProofs`, over MCStores. First of the atomic write: in `IInv` what stands at a target, or would after a power loss, was synced to the end by its writer
  (`PublishedIsStable`), and what was answered for is kept or was replaced (`AnsweredIsKept`). Theorems: `TypeCorrect`, `TargetsAreWholeHolds`, `AnswersHoldHolds`;
  `StoresWrite` has that a behaviour of any setting is one of AtomicWrite. Then of the six components beside it, each with an inductive invariant of its own module:
  - `IdentityInv`: a row names a file its document was found at or written to (`RowsAreKnown`), and a save between two steps stores a row it has resolved for a file it
    has written (`CommandsAreResolved`). `FilesKeepTheirHistoryHolds`. The lemmas about resolving say what a lookup finds, so that each command needs only one argument.
  - `ImageInv`: the property holds of files and drafts, and in addition of what a window shows (`SessionStands`) and of the scene that a command has in hand
    (`WorkStands`), since images are stored steps before the reference to them is written. `ImagesStandHolds`, `ImagesAreShownHolds`.
  - `PlacementInv`: a row is what was recorded last unless that is queued or with a flush; what was recorded last is what its window looks like, but for events on their way (`LastIsWhere`,
    `HeardAreLast`). `PlacementsArriveHolds`. `WindowsComeBackReachableHolds` is arithmetic about `restored_rect` for any displays; assumed is that a display, and a window at its
    narrowest, is at least as wide as what a hand needs of it (`PlacementAssumption`).
  - `RestoreInv`: windows in use have labels given out and no two have one Workspace (`WindowsAreApart`); what is mounted has a window since the end of Recovery (`MountedInTime`); what is handed to a
    window is put by, being opened or shown, at one place (`HandedOnce`); the session is held until the restoration ends, then what was reported is stored or a write is due
    (`ReportedAreStored`). Key lemmas: `PlanCovers` (the plan loses nothing that is stored) and `SnapshotTypes`. `SessionComesBackHolds`, `MountedAreOpenHolds`, for at least one window.
  - `ListInv`: while there is more to read, what the reader was given of the rows there are does not lie before its cursor, and of those there from the start it was given all that do not
    (`ReadAreListed`). Key lemma `NewestAreFirst`: what is later than a row of a page is on that page too, whatever the page's size. `ListIsCompleteHolds`.
  - `WatchInv`: a change nobody was told of has a notice on its way — in the queue, in the debounce table or in the batch (`ChangesAreComing`) — and the table of known files
    does not know its file, or it would be taken for an own write (`KnownAreTold`), since a write makes a triplet of its own (`TripletsAreMade`). `ChangesAreToldHolds`.
    The lemmas go by what a step does: change files (`FilesChange`), carry notices on (`CarriedOn`), take a change from the batch (`ChangesAreTaken`).
- `RecoveryProofs`. `EditsKept` alone says nothing of snapshots behind the newest, nor of which is newer than the file. `IInv` has for each
  drawing: a tab has every edit answered for (`TabHolds`); so has the offer under way (`OfferHolds`); otherwise the newest snapshot has what the file
  lacks and is newer than it (`OnDisk`), and what Recovery would put in the file's place takes nothing away (`LatestHolds`). The last one holds through a
  closing cut off between two removals only because a close is refused while the row is dirty (`UncoveredHold`): else the removals could uncover
  an older snapshot, newer than the file, without edits that the file has. While decisions are applied nothing is drawn, so a tab, its snapshots and the
  offer are one scene (`ScenesAgree`). Each action has a lemma; `OthersKeep` covers the other drawings. Theorems: `TypeCorrect` (a ring has no more
  snapshots than slots, as its slots differ), `EditsKeptHolds`, `NothingOverlookedHolds`. `DecidedStaysHolds` needs that nothing writes into a ring
  while an offer removes it (`SettledInv`): a drawing with snapshots has no draft left to write, as long as decisions are applied.
- `WindowMessagesProofs`. `SessionsAreOwned` says nothing of an opening between claim and session. `IInv` has that a window opens a drawing once at
  a time, while it has no session for it (`OpensOnce`), that what is claimed stays owned till it is shown or fails (`ClaimsHold`), that only
  windows which listen open and show (`OnlyListenersOpen`), that a closing has released what is no longer owned (`OneSession`), and that a claim finds
  a drawing already its window's only after a failure leaked it (`AlreadyIsLeaked`). Theorems: `SessionsAreOwnedHolds`, `OpeningsAreExclusive`.
  Then of NativeMenu: `MenuIInv` has that the window in front is shown, or its focus is still to be handled, or it is the target of what the main thread has begun (`FrontIsKnown`);
  that a clean-up begins only when its window is gone, so that nobody else's report is dropped (`CleanupOfTheClosed`); that the menu shows the flags of the window it is said to show
  but for what `failed`, `behind` or a chosen item note (`ShownIsApplied`); and that labels agree (`LabelsAgree`). Theorems: `FrontIsShownHolds`, `CommandsGoToTheShownHolds`.
- `DocumentProofs`, first of DocumentSession. `IInv` is about the queue of any length: one closing's operations at most (`Alone`), and, while a closing has an
  edit to save that the file never had and no checkpoint was passed over, its checkpoint is still to come and carries what the tab showed (`Saves`), and nothing before it rebases the session (`Ahead`). The call under way is the
  head of the queue and of the session's generation (`WritingIsCurrent`), since every operation that starts a new one rejects the writes queued before it. Theorems: `TypeCorrect`,
  `WritesAreCurrentHolds`, `CloseKeepsEditsHolds`. `OnlySavingStrands` needs in addition (`SInv`) that a draft's timer never runs without the idle timer, that a checkpoint which has counted every change carries the payload (`Counts`), and that the session shows as checkpointing while one is under way.
  Then of DocumentService, in the setting of its run where nothing fails and no other program writes (`setting = "undisturbed"`): `VersionsAgree` speaks of states in which nobody has the lock.
  `ServiceInv` has that the lock is with the call past it (`LocksAreHeld`), what a call at each step has made of the drawing so far (`StepFollows`), and that file, row, snapshot and identity
  agree but for the stretch of a call that brings each about (`Agrees`): a checkpoint's file is ahead of its row from `written` to the row's own write, a snapshot follows its row. The watcher and waiting calls leave all that alone
  (`AsideKeeps`, `WatcherStays`), and a step of the call that has the lock is about its own record (`HeldSteps`); so each command is one chain of steps. `VersionsAgreeHolds`. The other two settings are TLC's.

The constants are assumed to be what the modules' ASSUMEs say: numbers are numbers, `None` is none of the records it is compared with. TLC evaluates each assumption.

The inductive invariants were checked by TLC on the settings of their runs, and of Recovery also on one drawing with more edits and faults, before they were proved.


Only model-checked is liveness (`ChangesAreFlagged`, `QuitSettles`, `EditsAreStored`, `RequestsSettle`, `PeersAreAnswered`), which is beyond the prover. Of `LiveOwnersAreServed` only
the first part is proved, the one that depends on `apart` is TLC's alone. The other invariants and action properties of the runs have theorems, which `PROJECT.json` lists.

## 5. What could come next

1. The Workspace index beside checkpoints and the watcher (`indexing/mod.rs`); the assets of versions from payload to validation (`history/validation.rs`).
2. Several drawings in a window: activation of tabs, restoring, renames of an open drawing.

Not modelled, and not planned: what has no state of its own (path checks, conversions, error and transfer types, wording), views, the drawing SDK, and test harnesses.
