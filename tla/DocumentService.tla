--------------------------- MODULE DocumentService ---------------------------
(***************************************************************************)
(* The backend's care for one drawing: DocumentService                     *)
(* (src-tauri/src/commands/documents.rs) with the drawing's file, draft    *)
(* row, recovery snapshots and history identity, and the file watcher      *)
(* (src-tauri/src/watcher/mod.rs) that flags conflicts.                    *)
(*                                                                         *)
(* A command is one slot of `calls`. It is checked against the conflict    *)
(* registry, waits for the drawing's lock, and then runs to its end or to  *)
(* its first error with the lock held; each step is the stretch between    *)
(* two awaits. The watcher never takes the lock. Contents stand for their  *)
(* hashes, and for the (mtime, size, hash) triplets the watcher compares.  *)
(***************************************************************************)
CONSTANTS
  LocalScene,      \* contents drawn in the app
  ExternalScene,   \* contents written by other programs
  Missing,         \* no content: no file, or no entry in a table
  NoDraft,         \* no draft row
  Call,            \* slots for commands in flight
  Free,            \* no command holds the lock
  RawKind,         \* the kinds the system reports a replaced file with
  HistoryMayFail   \* whether the history store may be unavailable

Content == LocalScene \union ExternalScene

ASSUME SceneAssumption ==
  /\ LocalScene \intersect ExternalScene = {}
  /\ Missing \notin Content
  /\ Free \notin Call
  /\ NoDraft \notin [scene : Content, base : Content \union {Missing}, dirty : BOOLEAN]
  /\ RawKind \subseteq {"Created", "Modified", "Removed"}
  /\ HistoryMayFail \in BOOLEAN

VARIABLES
  file,        \* what the drawing's path holds
  identity,    \* does the active history row name the file at the path?
  draft,       \* the drawing's row of `drafts`
  snapshot,    \* the latest recovery snapshot
  conflicted,  \* is the path in the ConflictRegistry?
  lock,        \* the call that holds the drawing's lock
  calls,       \* what each call is doing
  known,       \* the watcher's KnownFileTable entry
  pending,     \* the DebounceEngine's pending change
  watch        \* what process_change is doing

durable == <<file, identity, draft, snapshot>>
watcherVars == <<known, pending, watch>>
serviceVars == <<durable, conflicted, lock, calls, watcherVars>>

MaybeContent == Content \union {Missing}
DraftRow == [scene : Content, base : MaybeContent, dirty : BOOLEAN]
ConflictResolution == {"takeExternal", "keepLocal", "saveAsNew"}
Command == {"open", "draft", "checkpoint", "close", "discard"} \union ConflictResolution
HeldStep == {"locked", "based", "stored", "ready", "written", "identified",
             "committed", "read", "resolved", "clean", "cleared"}

Idle == [op |-> "open", step |-> "idle", scene |-> Missing, base |-> Missing]

ServiceTypeOK ==
  /\ file \in MaybeContent
  /\ identity \in {"none", "current", "stale"}
  /\ draft \in DraftRow \union {NoDraft}
  /\ snapshot \in MaybeContent
  /\ conflicted \in BOOLEAN
  /\ lock \in Call \union {Free}
  /\ calls \in [Call -> [op : Command, step : HeldStep \union {"idle", "waiting"},
                         scene : MaybeContent, base : MaybeContent]]
  /\ known \in MaybeContent
  /\ pending \in {"none", "Created", "Modified", "Removed"}
  /\ watch \in [at : {"idle", "read", "changed", "dirty"},
                kind : {"Created", "Modified"}, scene : MaybeContent]

WatchIdle == [at |-> "idle", kind |-> "Modified", scene |-> Missing]
Dirty == draft # NoDraft /\ draft.dirty

\* A drawing the app has not opened before; the index may know it.
ServiceInit ==
  /\ file \in ExternalScene
  /\ identity = "none" /\ draft = NoDraft /\ snapshot = Missing
  /\ conflicted = FALSE
  /\ lock = Free /\ calls = [c \in Call |-> Idle]
  /\ known \in {file, Missing}
  /\ pending = "none" /\ watch = WatchIdle

-----------------------------------------------------------------------------
At(c, op, step) == calls[c].op = op /\ calls[c].step = step
Resolving(c, step) == calls[c].op \in ConflictResolution /\ calls[c].step = step
Goto(c, step) == calls' = [calls EXCEPT ![c].step = step]

\* Returning drops the guard, in an answer as in an error.
Return(c) == calls' = [calls EXCEPT ![c] = Idle] /\ lock' = Free
Go(c, step) == Goto(c, step) /\ UNCHANGED lock

\* Saving is refused while a conflict is open. A path is canonicalised before
\* the lock is taken, so the file must exist, except to save or to discard it.
Request(c, op, s) ==
  /\ calls[c] = Idle
  /\ op \in {"draft", "checkpoint"} => ~conflicted
  /\ CASE op = "checkpoint" -> TRUE
       [] op = "discard" -> file = Missing /\ (draft # NoDraft \/ snapshot # Missing)
       [] OTHER -> file # Missing
  /\ calls' = [calls EXCEPT ![c] = [Idle EXCEPT !.op = op, !.step = "waiting", !.scene = s]]
  /\ UNCHANGED <<durable, conflicted, lock, watcherVars>>

\* A slip of Acquire: two commands on one drawing do not wait for each other.
AcquireUnlocked(c) ==
  /\ calls[c].step = "waiting"
  /\ lock' = c
  /\ Goto(c, "locked")
  /\ UNCHANGED <<durable, conflicted, watcherVars>>

Acquire(c) ==
  /\ calls[c].step = "waiting"
  /\ lock = Free
  /\ lock' = c
  /\ Goto(c, "locked")
  /\ UNCHANGED <<durable, conflicted, watcherVars>>

\* An await that fails ends the call with what it has done so far.
AwaitFails(c) ==
  /\ calls[c].step \in HeldStep
  /\ Return(c)
  /\ UNCHANGED <<durable, conflicted, watcherVars>>

\* The identity of an existing file: established when there is none. An
\* unreachable history store is an issue to show, never an error.
IdentityResolved ==
  \/ identity # "stale" /\ identity' = "current"
  \/ HistoryMayFail /\ UNCHANGED identity

IdentityRefused == file = Missing \/ identity = "stale"

-----------------------------------------------------------------------------
\* open: the file is read, its identity resolved, the draft compared.
Open(c) ==
  /\ At(c, "open", "locked")
  /\ file # Missing
  /\ IdentityResolved
  /\ Return(c)
  /\ UNCHANGED <<file, draft, snapshot, conflicted, watcherVars>>

OpenRefused(c) ==
  /\ At(c, "open", "locked")
  /\ IdentityRefused
  /\ Return(c)
  /\ UNCHANGED <<durable, conflicted, watcherVars>>

-----------------------------------------------------------------------------
\* save_draft: the base is the row's, or else the file's.
DraftBase(c) ==
  /\ At(c, "draft", "locked")
  /\ \/ IdentityRefused /\ Return(c) /\ UNCHANGED identity
     \/ /\ file # Missing
        /\ IdentityResolved
        /\ calls' = [calls EXCEPT ![c].step = "based",
                                  ![c].base = IF draft = NoDraft THEN file ELSE draft.base]
        /\ UNCHANGED lock
  /\ UNCHANGED <<file, draft, snapshot, conflicted, watcherVars>>

DraftUpsert(c) ==
  /\ At(c, "draft", "based")
  /\ draft' = [scene |-> calls[c].scene, base |-> calls[c].base, dirty |-> TRUE]
  /\ Go(c, "stored")
  /\ UNCHANGED <<file, identity, snapshot, conflicted, watcherVars>>

DraftSnapshot(c) ==
  /\ At(c, "draft", "stored")
  /\ snapshot' = calls[c].scene
  /\ Return(c)
  /\ UNCHANGED <<file, identity, draft, conflicted, watcherVars>>

-----------------------------------------------------------------------------
\* merge_kinds of watcher/mod.rs.
Merge(previous, incoming) ==
  CASE previous = "Removed" /\ incoming = "Created" -> "Modified"
    [] previous = "Created" /\ incoming = "Modified" -> "Created"
    [] OTHER -> incoming

\* A rename onto the path: a file of another inode takes the place of the old.
Published(s) ==
  /\ file' = s
  /\ identity' = IF identity = "current" THEN "stale" ELSE identity
  /\ \E kind \in RawKind : pending' = Merge(pending, kind)

\* checkpoint_at: the identity is resolved only if there is a file to have one.
CheckpointIdentity(c) ==
  /\ At(c, "checkpoint", "locked")
  /\ \/ file = Missing /\ Go(c, "ready") /\ UNCHANGED identity
     \/ file # Missing /\ IdentityResolved /\ Go(c, "ready")
     \/ file # Missing /\ identity = "stale" /\ Return(c) /\ UNCHANGED identity
  /\ UNCHANGED <<file, draft, snapshot, conflicted, watcherVars>>

CheckpointWrite(c) ==
  /\ At(c, "checkpoint", "ready")
  /\ Published(calls[c].scene)
  /\ Go(c, "written")
  /\ UNCHANGED <<draft, snapshot, conflicted, known, watch>>

\* record_self_write looks at the file again, which has to be there.
CheckpointSelfWrite(c) ==
  /\ At(c, "checkpoint", "written")
  /\ \/ file = Missing /\ Return(c) /\ UNCHANGED identity
     \/ file # Missing /\ Go(c, "identified") /\ identity' = "current"
     \/ file # Missing /\ HistoryMayFail /\ Go(c, "identified") /\ UNCHANGED identity
  /\ UNCHANGED <<file, draft, snapshot, conflicted, watcherVars>>

\* document_checkpoint_commit: the draft row turns clean.
CheckpointCommit(c) ==
  /\ At(c, "checkpoint", "identified")
  /\ IF file = Missing
     THEN Return(c) /\ UNCHANGED draft
     ELSE /\ draft' = [scene |-> calls[c].scene, base |-> calls[c].scene, dirty |-> FALSE]
          /\ Go(c, "committed")
  /\ UNCHANGED <<file, identity, snapshot, conflicted, watcherVars>>

\* note_own_write
CheckpointNote(c) ==
  /\ At(c, "checkpoint", "committed")
  /\ known' = calls[c].scene
  /\ Return(c)
  /\ UNCHANGED <<durable, conflicted, pending, watch>>

-----------------------------------------------------------------------------
\* resolve_conflict: there must be a draft to resolve, and a file to read.
ResolveRead(c) ==
  /\ Resolving(c, "locked")
  /\ IF draft = NoDraft \/ file = Missing
     THEN Return(c)
     ELSE calls' = [calls EXCEPT ![c].step = "read", ![c].scene = file] /\ UNCHANGED lock
  /\ UNCHANGED <<durable, conflicted, watcherVars>>

\* The choice is applied to the draft row. SaveAsNew writes the draft to
\* another path first, which is another drawing.
ResolveApply(c) ==
  LET external == calls[c].scene IN
  /\ Resolving(c, "read")
  /\ draft' = CASE calls[c].op = "takeExternal" ->
                     [scene |-> external, base |-> external, dirty |-> FALSE]
                [] calls[c].op = "keepLocal" -> [draft EXCEPT !.base = external]
                [] OTHER -> NoDraft
  /\ Go(c, "resolved")
  /\ UNCHANGED <<file, identity, snapshot, conflicted, watcherVars>>

ResolveClear(c) ==
  /\ Resolving(c, "resolved")
  /\ conflicted' = FALSE
  /\ Return(c)
  /\ UNCHANGED <<durable, watcherVars>>

-----------------------------------------------------------------------------
\* close: a dirty draft is refused, unless it is an orphan's to discard.
CloseCheck(c) ==
  /\ At(c, "close", "locked") \/ At(c, "discard", "locked")
  /\ IF calls[c].op = "close" /\ Dirty THEN Return(c) ELSE Go(c, "clean")
  /\ UNCHANGED <<durable, conflicted, watcherVars>>

CloseSnapshots(c) ==
  /\ calls[c].step = "clean"
  /\ snapshot' = Missing
  /\ Go(c, "cleared")
  /\ UNCHANGED <<file, identity, draft, conflicted, watcherVars>>

CloseDraft(c) ==
  /\ calls[c].step = "cleared"
  /\ draft' = NoDraft
  /\ Return(c)
  /\ UNCHANGED <<file, identity, snapshot, conflicted, watcherVars>>

-----------------------------------------------------------------------------
\* process_change on what the debounce window collected.
WatchRead ==
  /\ watch = WatchIdle
  /\ pending # "none"
  /\ pending' = "none"
  /\ IF file = Missing
     THEN known' = Missing /\ conflicted' = FALSE /\ UNCHANGED watch
     ELSE /\ watch' = [at |-> "read", scene |-> file,
                       kind |-> IF pending = "Created" THEN "Created" ELSE "Modified"]
          /\ UNCHANGED <<known, conflicted>>
  /\ UNCHANGED <<durable, lock, calls>>

\* A slip of WatchCompare: what came in while the file was read is dropped.
WatchCompareForgets ==
  /\ watch.at = "read"
  /\ known' = watch.scene
  /\ pending' = "none"
  /\ watch' = IF known # watch.scene /\ watch.kind = "Modified"
              THEN [watch EXCEPT !.at = "changed"] ELSE WatchIdle
  /\ UNCHANGED <<durable, conflicted, lock, calls>>

\* The triplet is compared with the last one known, and replaces it.
WatchCompare ==
  /\ watch.at = "read"
  /\ known' = watch.scene
  /\ watch' = IF known # watch.scene /\ watch.kind = "Modified"
              THEN [watch EXCEPT !.at = "changed"] ELSE WatchIdle
  /\ UNCHANGED <<durable, conflicted, lock, calls, pending>>

WatchDraft ==
  /\ watch.at = "changed"
  /\ watch' = IF Dirty THEN [watch EXCEPT !.at = "dirty"] ELSE WatchIdle
  /\ UNCHANGED <<durable, conflicted, lock, calls, known, pending>>

WatchMark ==
  /\ watch.at = "dirty"
  /\ conflicted' = TRUE
  /\ watch' = WatchIdle
  /\ UNCHANGED <<durable, lock, calls, known, pending>>

-----------------------------------------------------------------------------
\* Another program writes to the file, replaces it, or removes it.
EditInPlace(s) ==
  /\ file # Missing
  /\ file' = s
  /\ pending' = Merge(pending, "Modified")
  /\ UNCHANGED <<identity, draft, snapshot, conflicted, lock, calls, known, watch>>

Replace(s) ==
  /\ Published(s)
  /\ UNCHANGED <<draft, snapshot, conflicted, lock, calls, known, watch>>

Remove ==
  /\ file # Missing
  /\ file' = Missing
  /\ identity' = IF identity = "current" THEN "stale" ELSE identity
  /\ pending' = "Removed"
  /\ UNCHANGED <<draft, snapshot, conflicted, lock, calls, known, watch>>

\* The process ends at any point and starts again; seed_known reads the index,
\* which may hold whatever the file once held.
Crash ==
  /\ conflicted' = FALSE
  /\ lock' = Free /\ calls' = [c \in Call |-> Idle]
  /\ known' \in MaybeContent
  /\ pending' = "none" /\ watch' = WatchIdle
  /\ UNCHANGED durable

-----------------------------------------------------------------------------
Asked(c) ==
  \/ \E op \in {"draft", "checkpoint"}, s \in LocalScene : Request(c, op, s)
  \/ \E op \in Command \ {"draft", "checkpoint"} : Request(c, op, Missing)

Runs(c) ==
  \/ Open(c) \/ OpenRefused(c)
  \/ DraftBase(c) \/ DraftUpsert(c) \/ DraftSnapshot(c)
  \/ CheckpointIdentity(c) \/ CheckpointWrite(c) \/ CheckpointSelfWrite(c)
  \/ CheckpointCommit(c) \/ CheckpointNote(c)
  \/ ResolveRead(c) \/ ResolveApply(c) \/ ResolveClear(c)
  \/ CloseCheck(c) \/ CloseSnapshots(c) \/ CloseDraft(c)

Watches == WatchRead \/ WatchCompare \/ WatchDraft \/ WatchMark

OtherPrograms ==
  \/ \E s \in ExternalScene : EditInPlace(s) \/ Replace(s)
  \/ Remove

\* Nothing fails, nobody else touches the file, and the process stays up.
NextUndisturbed == Watches \/ \E c \in Call : Asked(c) \/ Acquire(c) \/ Runs(c)

\* A file opened by itself, outside every Workspace, has no watcher.
NextUnwatched ==
  \/ \E c \in Call : Asked(c) \/ Acquire(c) \/ Runs(c) \/ AwaitFails(c)
  \/ OtherPrograms
  \/ Crash

ServiceNext == Watches \/ NextUnwatched
ServiceSpec == ServiceInit /\ [][ServiceNext]_serviceVars

\* Other programs share the file with a process that stays up.
NextShared ==
  \/ NextUndisturbed
  \/ \E c \in Call : AwaitFails(c)
  \/ OtherPrograms

\* The runtime polls the watcher's task and every command that can go on; a
\* tokio mutex serves its waiters in order.
SpecShared ==
  /\ ServiceInit /\ [][NextShared]_serviceVars
  /\ WF_serviceVars(Watches)
  /\ \A c \in Call : SF_serviceVars(Acquire(c)) /\ WF_serviceVars(Runs(c))

-----------------------------------------------------------------------------
\* Commands that race leave the file and its clean draft row on one version:
\* the row never says that something was saved which the file does not hold.
OneVersion ==
  lock = Free /\ draft # NoDraft /\ ~draft.dirty => file = draft.scene

\* Whatever draft was acknowledged last is also what recovery would offer.
DraftIsRecoverable == lock = Free /\ Dirty => snapshot = draft.scene

\* The history identity follows the app's own writes, so that its next
\* command on the drawing is not refused as somebody else's file.
StaysOpenable == lock = Free => identity # "stale"

\* Closing a drawing never removes a draft that was not saved, nor leaves its
\* snapshots behind: what save_draft stored meanwhile is kept.
CloseKeepsDraft ==
  [][\A c \in Call : CloseDraft(c) =>
       snapshot = Missing /\ (Dirty => calls[c].op = "discard")]_serviceVars

\* A change by another program that stays in the file is flagged as a
\* conflict, as long as a dirty draft stands against it.
ChangesAreFlagged ==
  \A s \in ExternalScene :
    (Dirty /\ file = s /\ known # s /\ pending # "none")
      ~> (conflicted \/ ~Dirty \/ file # s)

-----------------------------------------------------------------------------
\* What the code's documents say, and the code does not do.

\* "`Conflicted` documents must not accept automatic draft or checkpoint
\* writes until the user resolves": the flag is read before the lock is taken
\* and never again, so a write already past that check goes through.
ConflictBlocksWrites ==
  [][\A c \in Call : conflicted => ~DraftUpsert(c) /\ ~CheckpointWrite(c)]_serviceVars

\* After a crash at any point the drawing can be opened, so that its recovered
\* draft can be adopted: between the rename and record_self_write it cannot.
OpensAfterCrash == StaysOpenable
=============================================================================
