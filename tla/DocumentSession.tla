--------------------------- MODULE DocumentSession ---------------------------
(***************************************************************************)
(* One drawing in a window: its session (documents/documentStore.ts), the  *)
(* scheduler that drafts and checkpoints it and the queue that every       *)
(* operation on it goes through (draftScheduler.ts), other programs'       *)
(* changes (conflictDetector.ts) and protected replacements                *)
(* (history/historyCoordinator.ts).  The backend answers a call in one     *)
(* step, by the rules of DocumentService; between the beginning of a call  *)
(* and its answer the window goes on.                                      *)
(***************************************************************************)
EXTENDS Integers, Sequences

CONSTANTS External,       \* contents that other programs write
          None,
          MaxEdits,       \* bound: edits of the user
          MaxWrites,      \* bound: steps of other programs
          MaxFailures,    \* bound: calls that fail without a reason of their own
          MaxGenerations, \* bound: a session this old is not replaced again
          MaxQueue        \* bound: the user asks for nothing beyond this queue

\* Scenes are numbers: an edit is its ordinal, and no edits are what the tab
\* was opened with, what an earlier launch left, and what others write.
Opened == 0
Earlier == -1

ASSUME ExternalAssumption == External \subseteq Int /\ \A x \in External : x < Earlier
ASSUME BoundsAssumption == {MaxEdits, MaxWrites, MaxFailures, MaxGenerations, MaxQueue} \subseteq Nat
ASSUME NoneAssumption ==
    /\ None \notin Int /\ None \notin [scene : Int, gen : Nat, rev : Nat]
    /\ None \notin [shown : Int, saving : BOOLEAN, overtaken : BOOLEAN]

VARIABLES
    disk,      \* the file at the session's path
    row,       \* its row of `drafts`
    flagged,   \* is it in the backend's ConflictRegistry?
    changed,   \* what the watcher has yet to look at
    event,     \* the file-changed event under way to the window
    seen,      \* lastReloadedHash
    tab,       \* is there a session?
    doc,       \* the session
    sched,     \* its DraftScheduler
    queue,     \* its DocumentOperationQueue, the running operation first
    calling,   \* whether the first operation waits for its answer
    frozen,    \* historyFrozen and historyPending
    context,   \* the version that was replaced, of pendingContexts
    closing,   \* closingById: what the tab showed then, whether there is that to save,
               \* and history: whether its checkpoint was passed over for another scene
    made, writes, failures, \* so far
    kept       \* the latest edit that the file, or a version kept of it, has ever had

backend == <<disk, row, flagged>>
watcher == <<changed, event, seen>>
session == <<tab, doc, sched, queue, calling, frozen, context, closing>>
bounds == <<made, writes, failures, kept>>
vars == <<disk, row, flagged, changed, event, seen, tab, doc, sched, queue,
          calling, frozen, context, closing, made, writes, failures, kept>>

Scene == External \cup Earlier..MaxEdits
Version == [scene : Scene, gen : Nat, rev : Nat]
Unsaving == {"dirty", "savingDraft", "draftSaved", "checkpointing"}
SaveState == Unsaving \cup {"clean", "conflicted", "orphaned", "error"}
Writing == {"draft", "checkpoint"}
Resolution == {"takeExternal", "keepLocal", "saveAsNew"}
Kind == Writing \cup Resolution
            \cup {"close", "discard", "delete", "reload", "saveHere", "saveElsewhere", "replace", "status"}
Operation == [kind : Kind, version : Version, count : Nat, caller : {"timer", "user", "close", "replace"}]

TypeOK ==
    /\ disk \in Scene \cup {None}
    /\ row = None \/ row \in [scene : Scene, dirty : BOOLEAN]
    /\ flagged \in BOOLEAN
    /\ changed \in {"none", "created", "modified", "removed"}
    /\ event = None \/ event \in [kind : {"modified", "removed"}, scene : Scene \cup {None}]
    /\ seen \in Scene \cup {None}
    /\ tab \in {"open", "closed"}
    /\ doc \in [scene : Scene, gen : Nat, rev : Nat, state : SaveState]
    /\ sched.payload = None \/ sched.payload \in Version
    /\ sched.count \in Nat /\ sched.held \in BOOLEAN
    /\ sched.timers \in SUBSET {"draft", "idle", "maxWait"}
    /\ \A i \in DOMAIN queue : queue[i] \in Operation
    /\ calling \in BOOLEAN /\ (calling => queue # <<>>)
    /\ frozen \in {"no", "preparing", "running", "pending", "pendingDone"}
    /\ context = None \/ context \in Version
    /\ closing = None \/ closing \in [shown : Scene, saving : BOOLEAN, overtaken : BOOLEAN]
    /\ made \in 0..MaxEdits /\ kept \in 0..made
    /\ writes \in 0..MaxWrites /\ failures \in 0..MaxFailures

\* An opened drawing, for which an earlier launch may have left a newer draft.
Init ==
    /\ disk = Opened
    /\ row \in {None, [scene |-> Earlier, dirty |-> TRUE]}
    /\ flagged = FALSE /\ changed = "none" /\ event = None /\ seen = None
    /\ tab = "open"
    /\ doc = [scene |-> Opened, gen |-> 0, rev |-> 0,
              state |-> IF row = None THEN "clean" ELSE "draftSaved"]
    /\ sched = [payload |-> None, count |-> 0, held |-> FALSE, timers |-> {}]
    /\ queue = <<>> /\ calling = FALSE
    /\ frozen = "no" /\ context = None /\ closing = None
    /\ made = 0 /\ writes = 0 /\ failures = 0 /\ kept = 0

-----------------------------------------------------------------------------
\* The scheduler.
VersionOf(d) == [scene |-> d.scene, gen |-> d.gen, rev |-> d.rev]
Saved(scene) == [scene |-> scene, dirty |-> FALSE]
Keep(scene) == kept' = IF scene > kept THEN scene ELSE kept

Op(kind) == [kind |-> kind, version |-> VersionOf(doc), count |-> made, caller |-> "user"]

\* recordChange
Recorded(s, version) ==
    [s EXCEPT !.payload = version, !.count = @ + 1,
              !.timers = IF s.held THEN @ \ {"draft", "idle"} ELSE {"draft", "idle", "maxWait"}]

\* setConflicted
Hold(s) == [s EXCEPT !.held = TRUE, !.timers = {}]
Release(s) ==
    LET t == [s EXCEPT !.held = FALSE] IN
    IF t.payload = None THEN t ELSE Recorded(t, t.payload)

HasWork == ~sched.held /\ sched.payload # None

Scheduled(kind, caller) ==
    [kind |-> kind, version |-> sched.payload, count |-> sched.count, caller |-> caller]

\* checkpoint: with nothing to write, or nothing it may write, it succeeds.
Checkpoint(caller) ==
    /\ queue' = Append(queue, Scheduled("checkpoint", caller))
    /\ sched' = [sched EXCEPT !.timers = {}]

\* flushDraft
DraftTimer ==
    /\ "draft" \in sched.timers
    /\ sched' = [sched EXCEPT !.timers = @ \ {"draft"}]
    /\ queue' = IF HasWork THEN Append(queue, Scheduled("draft", "timer")) ELSE queue
    /\ UNCHANGED <<backend, watcher, tab, doc, calling, frozen, context, closing, bounds>>

CheckpointTimer(timer) ==
    /\ timer \in sched.timers
    /\ timer = "idle" => "draft" \notin sched.timers
    /\ IF HasWork THEN Checkpoint("timer")
       ELSE sched' = [sched EXCEPT !.timers = @ \ {timer}] /\ UNCHANGED queue
    /\ UNCHANGED <<backend, watcher, tab, doc, calling, frozen, context, closing, bounds>>

\* The queue after a checkpoint that has succeeded for its caller.
After(op) ==
    CASE op.caller = "close" -> Append(Tail(queue), Op("close"))
      [] op.caller = "replace" -> Append(Tail(queue), Op("replace"))
      [] OTHER -> Tail(queue)

\* A slip of Settled: a payload that came meanwhile is forgotten with the old.
SettledWithNewer(s, op) == [s EXCEPT !.payload = None]

Settled(s, op) ==
    IF s.count = op.count THEN [s EXCEPT !.payload = None]
    ELSE IF s.held THEN s ELSE [s EXCEPT !.timers = @ \cup {"maxWait"}]

-----------------------------------------------------------------------------
\* The user.
Asks(kind) ==
    /\ tab = "open"
    /\ Len(queue) < MaxQueue
    /\ queue' = Append(queue, Op(kind))
    /\ UNCHANGED <<backend, watcher, tab, doc, sched, calling, frozen, context, bounds>>

\* A dialog asks for one thing at a time.
Queued(kinds) == \E i \in DOMAIN queue : queue[i].kind \in kinds

\* The newest edit would be written by a checkpoint; the decision of an earlier
\* conflict that is still under way, or a save of an orphan, may forget it.
Renaming == {"saveAsNew", "saveHere", "saveElsewhere"}
Saving == HasWork /\ sched.payload = VersionOf(doc) /\ ~Queued(Renaming \cup Resolution)

\* updateScene; a few settings can be changed in a conflict too.
Edit ==
    /\ tab = "open" /\ frozen = "no"
    /\ made < MaxEdits
    /\ made' = made + 1
    /\ doc' = [doc EXCEPT !.scene = made + 1, !.rev = @ + 1,
                          !.state = IF @ \in {"orphaned", "conflicted"} THEN @ ELSE "dirty"]
    /\ sched' = Recorded(sched, VersionOf(doc'))
    /\ UNCHANGED <<backend, watcher, tab, queue, calling, frozen, context, closing, writes, failures, kept>>

\* Manual save, tab switch, exit.
SaveNow ==
    /\ tab = "open" /\ frozen = "no"
    /\ HasWork /\ Len(queue) < MaxQueue
    /\ Checkpoint("user")
    /\ UNCHANGED <<backend, watcher, tab, doc, calling, frozen, context, closing, bounds>>

Close ==
    /\ tab = "open" /\ closing = None /\ frozen = "no"
    /\ doc.state # "orphaned"
    /\ closing' = [shown |-> doc.scene, saving |-> Saving, overtaken |-> FALSE]
    /\ IF HasWork THEN Checkpoint("close") ELSE queue' = Append(queue, Op("close")) /\ UNCHANGED sched
    /\ UNCHANGED <<backend, watcher, tab, doc, calling, frozen, context, bounds>>

\* confirmOrphanClose
DiscardOrphan ==
    /\ closing = None /\ frozen = "no" /\ doc.state = "orphaned"
    /\ closing' = [shown |-> doc.scene, saving |-> Saving, overtaken |-> FALSE]
    /\ Asks("discard")

SaveOrphan(kind) ==
    /\ kind \in {"saveHere", "saveElsewhere"}
    /\ doc.state = "orphaned"
    /\ ~Queued({"saveHere", "saveElsewhere"})
    /\ Asks(kind) /\ UNCHANGED closing

Resolve(resolution) ==
    /\ resolution \in Resolution
    /\ doc.state = "conflicted"
    /\ ~Queued(Resolution)
    /\ Asks(resolution) /\ UNCHANGED closing

\* coordinateCleanEntryDelete
DeleteEntry ==
    /\ doc.state = "clean"
    /\ Asks("delete") /\ UNCHANGED closing

\* replace: the scene is frozen first, then checkpointed.
AskReplacement ==
    /\ tab = "open" /\ frozen = "no" /\ doc.state # "conflicted"
    /\ doc.gen < MaxGenerations /\ Len(queue) < MaxQueue
    /\ IF HasWork THEN frozen' = "preparing" /\ Checkpoint("replace")
       ELSE frozen' = "running" /\ queue' = Append(queue, Op("replace")) /\ UNCHANGED sched
    /\ UNCHANGED <<backend, watcher, tab, doc, calling, context, closing, bounds>>

\* resolvePending
AskStatus ==
    /\ frozen \in {"pending", "pendingDone"}
    /\ ~Queued({"status"})
    /\ Asks("status") /\ UNCHANGED closing

-----------------------------------------------------------------------------
\* The queue begins its first operation.
First == Head(queue)

\* A slip of Rejected: the revision and the scene are compared, the
\* generation is not.
RejectedByRevision(version) == version.rev # doc.rev \/ version.scene # doc.scene

\* historyAutosaveProbeRejection
Rejected(version) == version # VersionOf(doc)

SkipWrite ==
    /\ queue # <<>> /\ ~calling
    /\ First.kind \in Writing /\ Rejected(First.version)
    /\ queue' = After(First)
    /\ sched' = IF First.kind = "checkpoint" THEN Settled(sched, First) ELSE sched
    /\ frozen' = IF First.caller = "replace" THEN "running" ELSE frozen
    /\ closing' = IF First.caller = "close"
                  THEN [closing EXCEPT !.overtaken = First.version.scene # doc.scene] ELSE closing
    /\ UNCHANGED <<backend, watcher, tab, doc, calling, context, bounds>>

BeginWrite ==
    /\ queue # <<>> /\ ~calling
    /\ First.kind \in Writing /\ ~Rejected(First.version)
    /\ calling' = TRUE
    /\ doc' = [doc EXCEPT !.state = IF First.kind = "draft" THEN "savingDraft" ELSE "checkpointing"]
    /\ UNCHANGED <<backend, watcher, tab, sched, queue, frozen, context, closing, bounds>>

\* The other operations look at the session when their turn comes.
BeginCall ==
    /\ queue # <<>> /\ ~calling
    /\ First.kind \notin Writing
    /\ calling' = TRUE
    /\ queue' = IF First.kind = "delete" THEN queue
                ELSE <<[First EXCEPT !.version = VersionOf(doc)]>> \o Tail(queue)
    /\ UNCHANGED <<backend, watcher, tab, doc, sched, frozen, context, closing, bounds>>

-----------------------------------------------------------------------------
\* The backend answers.
Answered(kind) == calling /\ First.kind = kind
Done == calling' = FALSE /\ queue' = Tail(queue)

Fail == failures < MaxFailures /\ failures' = failures + 1
Refused(reason) == IF reason THEN UNCHANGED failures ELSE Fail

DraftLands ==
    /\ Answered("draft") /\ ~flagged /\ disk # None
    /\ row' = [scene |-> First.version.scene, dirty |-> TRUE]
    /\ doc' = IF doc.scene = First.version.scene THEN [doc EXCEPT !.state = "draftSaved"] ELSE doc
    /\ Done
    /\ UNCHANGED <<disk, flagged, watcher, tab, sched, frozen, context, closing, bounds>>

\* onError
DraftFails ==
    /\ Answered("draft")
    /\ Refused(flagged \/ disk = None)
    /\ doc' = [doc EXCEPT !.state = "error"]
    /\ Done
    /\ UNCHANGED <<backend, watcher, tab, sched, frozen, context, closing, made, writes, kept>>

CheckpointLands ==
    /\ Answered("checkpoint") /\ ~flagged
    /\ disk' = First.version.scene
    /\ row' = Saved(First.version.scene)
    /\ Keep(First.version.scene)
    /\ doc' = [doc EXCEPT !.state = IF doc.scene = First.version.scene THEN "clean" ELSE "dirty"]
    /\ sched' = Settled(sched, First)
    /\ calling' = FALSE
    /\ queue' = After(First)
    /\ frozen' = IF First.caller = "replace" THEN "running" ELSE frozen
    /\ UNCHANGED <<flagged, watcher, tab, context, closing, made, writes, failures>>

\* A slip of CheckpointFails: closing goes on after an error.
CheckpointFailsQuietly ==
    /\ Answered("checkpoint")
    /\ Refused(flagged)
    /\ doc' = [doc EXCEPT !.state = "error"]
    /\ frozen' = IF First.caller = "replace" THEN "running" ELSE frozen
    /\ calling' = FALSE /\ queue' = After(First)
    /\ UNCHANGED <<backend, watcher, tab, sched, context, closing, made, writes, kept>>

\* The error is thrown at whoever asked; the timers' onError shows it always.
CheckpointFails ==
    /\ Answered("checkpoint")
    /\ Refused(flagged)
    /\ doc' = IF doc.state = "checkpointing" \/ First.caller = "timer"
              THEN [doc EXCEPT !.state = "error"] ELSE doc
    /\ closing' = IF First.caller = "close" THEN None ELSE closing
    /\ frozen' = IF First.caller = "replace" THEN "no" ELSE frozen
    /\ Done
    /\ UNCHANGED <<backend, watcher, tab, sched, context, made, writes, kept>>

\* dropSession: the queue rejects what is still in it.
Drop ==
    /\ tab' = "closed"
    /\ sched' = [sched EXCEPT !.payload = None, !.timers = {}]
    /\ queue' = <<>> /\ calling' = FALSE
    /\ frozen' = "no" /\ context' = None /\ closing' = None

CloseRefused ==
    \/ First.kind = "close" /\ (disk = None \/ (row # None /\ row.dirty))
    \/ First.kind = "discard" /\ (disk # None \/ row = None)

CloseLands ==
    /\ Answered("close") \/ Answered("discard")
    /\ ~CloseRefused
    /\ row' = None
    /\ Drop
    /\ UNCHANGED <<disk, flagged, watcher, doc, bounds>>

CloseFails ==
    /\ Answered("close") \/ Answered("discard")
    /\ Refused(CloseRefused)
    /\ closing' = None
    /\ Done
    /\ UNCHANGED <<backend, watcher, tab, doc, sched, frozen, context, made, writes, kept>>

\* entry_delete wants the file as the session knew it, and no dirty draft.
DeleteRefused == disk # First.version.scene \/ (row # None /\ row.dirty)

DeleteLands ==
    /\ Answered("delete") /\ ~DeleteRefused
    /\ disk' = None /\ row' = None
    /\ Drop
    /\ UNCHANGED <<flagged, watcher, doc, bounds>>

\* What an operation that only answers its caller leaves when it fails.
CallFails(kind, reason) ==
    /\ Answered(kind)
    /\ Refused(reason)
    /\ Done
    /\ UNCHANGED <<backend, watcher, tab, doc, sched, frozen, context, closing, made, writes, kept>>

\* The session shows another scene ...
Adopt(scene, version) ==
    doc' = [scene |-> scene, gen |-> version.gen + 1, rev |-> version.rev + 1, state |-> "clean"]

\* ... or its own, on a new base or under another name.
Rebase(state) == doc' = [doc EXCEPT !.gen = First.version.gen + 1, !.state = state]

ReloadLands ==
    /\ Answered("reload") /\ disk # None
    /\ Adopt(disk, First.version)
    /\ sched' = Release(sched)
    /\ Done
    /\ UNCHANGED <<backend, watcher, tab, frozen, context, closing, bounds>>

ResolveRefused == row = None \/ disk = None

TakeExternalLands ==
    /\ Answered("takeExternal") /\ ~ResolveRefused
    /\ row' = Saved(disk) /\ flagged' = FALSE
    /\ Adopt(disk, First.version)
    /\ sched' = Release(sched)
    /\ Done
    /\ UNCHANGED <<disk, watcher, tab, frozen, context, closing, bounds>>

KeepLocalLands ==
    /\ Answered("keepLocal") /\ ~ResolveRefused
    /\ flagged' = FALSE
    /\ Rebase("dirty")
    /\ sched' = Recorded(Release(sched), VersionOf(doc'))
    /\ Done
    /\ UNCHANGED <<disk, row, watcher, tab, frozen, context, closing, bounds>>

\* From here on the session's path is another one, which nobody has touched.
Follow(scene) ==
    /\ disk' = scene /\ row' = Saved(scene) /\ flagged' = FALSE
    /\ changed' = "none" /\ event' = None /\ seen' = None

\* The backend writes what it has as a draft, not what the session shows.
SaveAsNewLands ==
    /\ Answered("saveAsNew") /\ ~ResolveRefused
    /\ Follow(row.scene)
    /\ Keep(row.scene)
    /\ Rebase("clean")
    /\ sched' = Release(sched)
    /\ Done
    /\ UNCHANGED <<tab, frozen, context, closing, made, writes, failures>>

SaveHereLands ==
    /\ Answered("saveHere") /\ ~flagged
    /\ disk' = First.version.scene /\ row' = Saved(First.version.scene)
    /\ Keep(First.version.scene)
    /\ Rebase("clean")
    /\ sched' = Release(sched)
    /\ Done
    /\ UNCHANGED <<flagged, watcher, tab, frozen, context, closing, made, writes, failures>>

\* Saved at another path, the old one is closed as an orphan.
SaveElsewhereLands ==
    /\ Answered("saveElsewhere") /\ disk = None /\ row # None
    /\ Follow(First.version.scene)
    /\ Keep(First.version.scene)
    /\ Rebase("clean")
    /\ sched' = Release(sched)
    /\ Done
    /\ UNCHANGED <<tab, frozen, context, closing, made, writes, failures>>

-----------------------------------------------------------------------------
\* The backend of a protected replacement, which keeps the scene as a version.
Replaced ==
    /\ disk' = Earlier /\ row' = Saved(Earlier)
    /\ Keep(doc.scene)

\* adoptHistoryScene
Adopts(version) ==
    /\ version.gen = doc.gen /\ version.rev = doc.rev
    /\ Adopt(Earlier, version)
    /\ sched' = Release(sched)
    /\ frozen' = "no" /\ context' = None

\* The window shows another tab, or the assets cannot be adopted.
Defers(version) == frozen' = "pendingDone" /\ context' = version /\ UNCHANGED <<doc, sched>>

ReplaceLands ==
    /\ Answered("replace") /\ ~flagged /\ disk # None
    /\ Replaced
    /\ Adopts(First.version) \/ Defers(First.version)
    /\ Done
    /\ UNCHANGED <<flagged, watcher, tab, closing, made, writes, failures>>

\* The answer is lost, or tells that the outcome is not known yet.
ReplaceUncertain ==
    /\ Answered("replace") /\ ~flagged /\ disk # None
    /\ Fail
    /\ \/ Replaced /\ frozen' = "pendingDone"
       \/ frozen' = "pending" /\ UNCHANGED <<disk, row, kept>>
    /\ context' = First.version
    /\ Done
    /\ UNCHANGED <<flagged, watcher, tab, doc, sched, closing, made, writes>>

ReplaceFails ==
    /\ Answered("replace")
    /\ Refused(flagged \/ disk = None)
    /\ frozen' = "no"
    /\ Done
    /\ UNCHANGED <<backend, watcher, tab, doc, sched, context, closing, made, writes, kept>>

StatusLands ==
    /\ Answered("status")
    /\ IF frozen = "pendingDone" THEN Adopts(context) \/ Defers(context)
       ELSE frozen' = "no" /\ context' = None /\ UNCHANGED <<doc, sched>>
    /\ Done
    /\ UNCHANGED <<backend, watcher, tab, closing, bounds>>

\* clearPending: whatever the error, unless the answer was lost.
StatusFails ==
    /\ Answered("status")
    /\ Fail
    /\ frozen' = "no" /\ context' = None
    /\ Done
    /\ UNCHANGED <<backend, watcher, tab, doc, sched, closing, made, writes, kept>>

-----------------------------------------------------------------------------
\* Other programs, the backend's watcher, and the window's listeners.
ExternalStep(content) ==
    /\ writes < MaxWrites /\ writes' = writes + 1
    /\ content # disk
    /\ disk' = content
    /\ changed' = CASE content = None -> "removed"
                    [] disk = None /\ changed # "removed" -> "created"
                    [] OTHER -> "modified"
    /\ UNCHANGED <<row, flagged, event, seen, session, made, failures, kept>>

\* process_change; the window does nothing about a created file.
Watch ==
    /\ changed # "none" /\ event = None
    /\ changed' = "none"
    /\ event' = CASE disk = None -> [kind |-> "removed", scene |-> None]
                  [] changed = "created" -> None
                  [] OTHER -> [kind |-> "modified", scene |-> disk]
    /\ flagged' = CASE disk = None -> FALSE
                    [] changed # "created" /\ row # None -> flagged \/ row.dirty
                    [] OTHER -> flagged
    /\ UNCHANGED <<disk, row, seen, session, bounds>>

\* handleFileRemoved
HandleRemoved ==
    /\ event # None /\ event.kind = "removed"
    /\ event' = None
    /\ IF tab = "open"
       THEN doc' = [doc EXCEPT !.state = "orphaned"] /\ sched' = Hold(sched)
       ELSE UNCHANGED <<doc, sched>>
    /\ UNCHANGED <<backend, changed, seen, tab, queue, calling, frozen, context, closing, bounds>>

\* handleFileChanged: unsaved work is a conflict, a clean drawing is reloaded.
HandleModified ==
    /\ event # None /\ event.kind = "modified"
    /\ event' = None
    /\ CASE tab = "open" /\ doc.state \in Unsaving ->
              /\ doc' = [doc EXCEPT !.state = "conflicted"]
              /\ sched' = Hold(sched)
              /\ UNCHANGED <<seen, queue>>
         [] tab = "open" /\ doc.state \notin Unsaving \cup {"conflicted"} /\ seen # event.scene ->
              /\ seen' = event.scene
              /\ queue' = Append(queue, Op("reload"))
              /\ UNCHANGED <<doc, sched>>
         [] OTHER -> UNCHANGED <<doc, sched, seen, queue>>
    /\ UNCHANGED <<backend, changed, tab, calling, frozen, context, closing, bounds>>

-----------------------------------------------------------------------------
Timers == DraftTimer \/ CheckpointTimer("idle") \/ CheckpointTimer("maxWait")

User ==
    \/ Edit \/ SaveNow \/ Close \/ DiscardOrphan \/ DeleteEntry
    \/ \E kind \in {"saveHere", "saveElsewhere"} : SaveOrphan(kind)
    \/ \E resolution \in Resolution : Resolve(resolution)
    \/ AskReplacement \/ AskStatus

Begin == SkipWrite \/ BeginWrite \/ BeginCall

Answer ==
    \/ DraftLands \/ DraftFails \/ CheckpointLands \/ CheckpointFails
    \/ CloseLands \/ CloseFails \/ DeleteLands \/ CallFails("delete", DeleteRefused)
    \/ ReloadLands \/ CallFails("reload", disk = None)
    \/ TakeExternalLands \/ KeepLocalLands \/ SaveAsNewLands
    \/ \E resolution \in Resolution : CallFails(resolution, ResolveRefused)
    \/ SaveHereLands \/ CallFails("saveHere", flagged)
    \/ SaveElsewhereLands \/ CallFails("saveElsewhere", disk # None \/ row = None)
    \/ ReplaceLands \/ ReplaceUncertain \/ ReplaceFails \/ StatusLands \/ StatusFails

Others == \E content \in External \cup {None} : ExternalStep(content)
Listen == Watch \/ HandleRemoved \/ HandleModified

Next == Timers \/ User \/ Begin \/ Answer \/ Others \/ Listen

\* The timers fire, the queue goes on by itself, and every call is answered.
Fairness ==
    /\ WF_vars(DraftTimer)
    /\ \A timer \in {"idle", "maxWait"} : WF_vars(CheckpointTimer(timer))
    /\ WF_vars(Begin) /\ WF_vars(Answer)

Spec == Init /\ [][Next]_vars /\ Fairness

-----------------------------------------------------------------------------
\* What the window shows is an edit that no file has ever had ...
Unsaved == tab = "open" /\ doc.scene > kept

\* ... although a timer will take it up, or the queue holds it.
OnItsWay ==
    /\ sched.payload = VersionOf(doc)
    /\ \/ sched.timers # {}
       \/ \E i \in DOMAIN queue :
             queue[i].kind = "checkpoint" /\ queue[i].version = VersionOf(doc)

Stranded == Unsaved /\ ~sched.held /\ ~OnItsWay

AnswerOf(kinds) == calling /\ ~calling' /\ First.kind \in kinds

\* Whatever timers, saves, conflicts and replacements do to the scheduler, an
\* edit that it may write stays on its way, unless its failure is shown; but the
\* answer to a save under another name, or of an orphan, forgets what was edited
\* meanwhile, or what was never drafted before (setConflicted, recordChange).
OnlySavingAsStrands ==
    [][Stranded' => \/ Stranded
                    \/ AnswerOf(Renaming)
                    \/ doc'.state = "error"]_vars

\* No draft or checkpoint that was scheduled before the session was reloaded,
\* resolved or replaced is stored after it (historyAutosaveProbeRejection).
WritesAreCurrent ==
    [][AnswerOf(Writing) /\ row' # row => First.version.gen = doc.gen]_vars

\* What a tab showed when it was asked to close (closeExclusive), and had the
\* scheduler write, the file has by the time the tab is closed, or had before it
\* was replaced; a draft does not count, since the closing deletes it.  Exempt is
\* what a conflict holds back, what a save under another name or a decision that
\* is under way may forget, and a checkpoint that is passed over because the
\* window shows something else when its turn comes: then the closing goes on,
\* and both the edit it was for and the later one may be lost.
CloseKeepsEdits ==
    [][AnswerOf({"close"}) /\ tab' = "closed" /\ closing.saving /\ ~closing.overtaken =>
         closing.shown <= kept]_vars

\* "A clean document is reloaded automatically, a document with unsaved changes
\* enters the Conflicted state": but a reload takes what was edited while it was
\* waiting, and a drawing whose save the conflict has refused counts as clean.
ReloadKeepsEdits ==
    [][AnswerOf({"reload"}) /\ doc' # doc => ~Unsaved]_vars

\* "A conflict stays open until the user decides": but a draft that was already
\* in the queue, and the answer to a checkpoint, overwrite the state, and the
\* scheduler goes on holding every later edit back.
ConflictStaysOpen ==
    [][doc.state = "conflicted" /\ doc'.state \notin {"conflicted", "orphaned"} =>
         AnswerOf(Resolution)]_vars
=============================================================================
