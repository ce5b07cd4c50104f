------------------------- MODULE HistoryReplacement -------------------------
(***************************************************************************)
(* Replacing a drawing by a version of its history, an imported scene or   *)
(* the empty scene: the phases of one replacement (history/replacement.rs  *)
(* and its adapter in commands/history.rs), the durable record of each     *)
(* request (history/operation.rs) and the reconciliation of unfinished     *)
(* requests at the next launch (history/reconcile.rs), for one drawing.    *)
(* A phase is one durable step: the process may end and another program    *)
(* may write the drawing between any two of them.                          *)
(***************************************************************************)
EXTENDS Naturals, FiniteSets

CONSTANTS Requests, Scenes,
          Target,        \* Target[r]: the scene request r asks for
          NoScene,       \* no file, no snapshot, a column that is NULL
          None,          \* no record, no task
          MaxWrites,     \* bound: writes of the file that give it a new identity
          MaxExternal,   \* bound: how many of them another program makes
          MaxCrashes     \* bound: ends of the process

ASSUME BoundsAssumption ==
    MaxWrites \in Nat \ {0} /\ MaxExternal \in Nat /\ MaxCrashes \in Nat
ASSUME TargetAssumption == Target \in [Requests -> Scenes]
ASSUME NoSceneAssumption == NoScene \notin Scenes

VARIABLES
    file,        \* the drawing on disk: its scene and filesystem identity
    draft,       \* main database: the drawing's draft
    recovery,    \* the newest snapshot of the Recovery store, or NoScene
    protected,   \* history: the version published to protect each request
    ops,         \* history: the operation of each request, or None
    identity,    \* history: the drawing's identity and last self-written scene
    process,     \* "down", "startup" (reconciling) or "up"
    todo,        \* requests that startup has yet to reconcile
    task,        \* the replacement or reconciliation that is running, or None
    session,     \* the window's document: scene, base, and the request it waits for
    reply,       \* what each request was answered
    external, crashes,  \* counters of the bounds
    renamed, held,      \* history variables: see ReplacementOutcome
    unsaved             \* the edit that was drafted and has not been saved since

durable == <<file, draft, recovery, protected, ops, identity>>
volatile == <<process, todo, task, session, reply>>
counters == <<external, crashes, renamed, held, unsaved>>
vars == <<file, draft, recovery, protected, ops, identity, process, todo, task,
          session, reply, external, crashes, renamed, held, unsaved>>

Terminal == {"completed", "aborted", "conflict"}
Linear == <<"preparing", "protected", "intent_committed", "target_observed",
            "target_published", "metadata_committed", "completed">>
OperationStates == {Linear[i] : i \in 1..7} \cup {"aborted", "conflict", "reconcile"}

Draft == [scene : Scenes, base : Scenes, dirty : BOOLEAN]
File == [scene : Scenes \cup {NoScene}, ident : 1..MaxWrites]
Operation ==
    [state : OperationStates, oldScene : Scenes, oldIdent : 1..MaxWrites,
     target : Scenes \cup {NoScene},
     newScene : Scenes \cup {NoScene}, newIdent : 0..MaxWrites]
ReplaceSteps == {"protect", "begin", "preparing", "protected", "intent_committed",
                 "target_observed", "rename", "sync", "record", "finalize", "forget",
                 "identify", "target_published", "metadata_committed"}
ReconcileSteps == {"recheck", "restore", "settle", "resync", "repair", "reobserve",
                   "describe", "final", "reopen", "replay"}
Task == [request : Requests, step : ReplaceSteps \cup ReconcileSteps, seen : File]
Session == [scene : Scenes, base : Scenes, pending : Requests \cup {None}]
ASSUME NoneAssumption == None \notin Operation \cup Task \cup Session

TypeOK ==
    /\ file \in File /\ draft \in Draft
    /\ recovery \in Scenes \cup {NoScene}
    /\ protected \in [Requests -> Scenes \cup {NoScene}]
    /\ ops \in [Requests -> Operation \cup {None}]
    /\ identity \in File
    /\ process \in {"down", "startup", "up"}
    /\ todo \subseteq Requests
    /\ task \in Task \cup {None}
    /\ session \in Session \cup {None}
    /\ reply \in [Requests -> {"none", "completed", "pending", "failed"}]
    /\ external \in 0..MaxExternal /\ crashes \in 0..MaxCrashes
    /\ renamed \subseteq Requests /\ held \subseteq Requests
    /\ unsaved \in Scenes \cup {NoScene}

-----------------------------------------------------------------------------
(* The durable record of a request. *)

Incomplete == {r \in Requests : ops[r] # None /\ ops[r].state \notin Terminal}

IsAllowedTransition(from, to) ==
    \/ to \in {"aborted", "conflict", "reconcile"} /\ from \notin Terminal
    \/ \E i \in 1..6 : from = Linear[i] /\ to = Linear[i + 1]
    \/ from = "reconcile" /\ to \in {Linear[i] : i \in 4..7}

(* One monotonic transition; it keeps what an absent column would not set. *)
CanTransition(r, to) ==
    ops[r] # None /\ (ops[r].state = to \/ IsAllowedTransition(ops[r].state, to))
Transition(r, to) == ops' = [ops EXCEPT ![r].state = to]

(* A transition whose failure the caller ignores. *)
BestEffort(r, to) ==
    \/ CanTransition(r, to) /\ Transition(r, to)
    \/ UNCHANGED ops

-----------------------------------------------------------------------------
(* The file. Every write of it gives the path a new identity. *)

Writable == file.ident < MaxWrites
Written(s) == [scene |-> s, ident |-> file.ident + 1]
Write(s) ==
    /\ file' = Written(s)
    /\ held' = held \cup {r \in Incomplete : Target[r] = s}

OldStateMatchesByContent(r, seen) == seen.scene = ops[r].oldScene

OldStateMatches(r, seen) ==
    seen.scene = ops[r].oldScene /\ seen.ident = ops[r].oldIdent
NewStateMatches(r, seen) ==
    seen.scene = ops[r].newScene /\ seen.ident = ops[r].newIdent
DurableTargetMatches(r, seen) ==
    /\ ops[r].target # NoScene /\ seen.scene = ops[r].target
    /\ ops[r].newScene \in {NoScene, seen.scene}
    /\ ops[r].newIdent \in {0, seen.ident}
TargetMatches(r, seen) == NewStateMatches(r, seen) \/ DurableTargetMatches(r, seen)

-----------------------------------------------------------------------------
Init ==
    /\ \E s \in Scenes :
        /\ file = [scene |-> s, ident |-> 1]
        /\ identity = file
        /\ draft = [scene |-> s, base |-> s, dirty |-> FALSE]
    /\ recovery = NoScene
    /\ protected = [r \in Requests |-> NoScene]
    /\ ops = [r \in Requests |-> None]
    /\ process = "up" /\ todo = {} /\ task = None /\ session = None
    /\ reply = [r \in Requests |-> "none"]
    /\ external = 0 /\ crashes = 0 /\ renamed = {} /\ held = {}
    /\ unsaved = NoScene

-----------------------------------------------------------------------------
(* The window's document, as far as replacements depend on it. The drawing's
   lock keeps it apart from a running replacement. *)

Free == process = "up" /\ task = None
Editing == Free /\ session # None /\ session.pending = None

\* The file is shown; a draft that an earlier run left is only announced.
Open ==
    /\ Free /\ session = None /\ file.scene # NoScene
    /\ session' = [scene |-> file.scene, base |-> file.scene, pending |-> None]
    /\ unsaved' = NoScene
    /\ UNCHANGED <<durable, process, todo, task, reply, external, crashes, renamed, held>>

\* Closing a drawing removes its snapshots, closing the window does not.
Close ==
    /\ Editing /\ session.scene = session.base
    /\ session' = None /\ unsaved' = NoScene
    /\ \/ ~draft.dirty /\ recovery' = NoScene
       \/ UNCHANGED recovery
    /\ UNCHANGED <<file, draft, protected, ops, identity, process, todo, task, reply,
                   external, crashes, renamed, held>>

SaveDraft ==
    /\ Editing
    /\ \E s \in Scenes \ {session.scene} :
        /\ session' = [session EXCEPT !.scene = s]
        /\ draft' = [scene |-> s, base |-> draft.base, dirty |-> TRUE]
        /\ recovery' = s /\ unsaved' = s
    /\ UNCHANGED <<file, protected, ops, identity, process, todo, task, reply,
                   external, crashes, renamed, held>>

Checkpoint ==
    /\ Editing /\ session.scene # session.base /\ Writable
    /\ Write(session.scene)
    /\ draft' = [scene |-> session.scene, base |-> session.scene, dirty |-> FALSE]
    /\ identity' = Written(session.scene)
    /\ session' = [session EXCEPT !.base = session.scene]
    /\ unsaved' = NoScene
    /\ UNCHANGED <<recovery, protected, ops, process, todo, task, reply, external, crashes, renamed>>

(* Another program, or the user in another program. *)
ExternalWrite ==
    /\ external < MaxExternal /\ Writable
    /\ \E s \in Scenes \cup {NoScene} : s # file.scene /\ Write(s)
    /\ external' = external + 1
    /\ UNCHANGED <<draft, recovery, protected, ops, identity, volatile, crashes, renamed, unsaved>>

-----------------------------------------------------------------------------
(* One replacement: ProtectedReplacementEngine.execute over its adapter. *)

Running(step) == process = "up" /\ task # None /\ task.step = step
Step(step) == task' = [task EXCEPT !.step = step]

Answer(r, what) ==
    /\ task' = None
    /\ reply' = [reply EXCEPT ![r] = what]
    /\ session' = CASE session = None -> None
                    [] what = "completed" -> [scene |-> Target[r], base |-> Target[r],
                                              pending |-> None]
                    [] OTHER -> [session EXCEPT !.pending =
                                    IF what = "pending" THEN r ELSE None]

(* A failure before the rename leaves the drawing as it was. *)
Abort(r) ==
    /\ BestEffort(r, "aborted")
    /\ Answer(r, "failed")
    /\ UNCHANGED <<file, draft, recovery, protected, identity, process, todo, counters>>

AbortAfterRename(r) == Abort(r)

(* A failure after it leaves the record for the next launch. *)
MarkReconcile(r) ==
    /\ BestEffort(r, "reconcile")
    /\ Answer(r, "pending")
    /\ UNCHANGED <<file, draft, recovery, protected, identity, process, todo, counters>>

(* The window checkpoints first, so that scene and base are one; the service
   refuses a base that the file no longer has. *)
BaseIsCurrent == session.scene = session.base /\ session.base = file.scene

(* A request already recorded is answered from its record instead. *)
Replace(r) ==
    /\ Editing /\ BaseIsCurrent
    /\ ops[r] = None /\ reply[r] = "none"
    /\ task' = [request |-> r, step |-> "protect", seen |-> file]
    /\ session' = [session EXCEPT !.pending = r]
    /\ UNCHANGED <<durable, process, todo, reply, counters>>

PublishProtection ==
    /\ Running("protect")
    /\ protected' = [protected EXCEPT ![task.request] = session.scene]
    /\ Step("begin")
    /\ UNCHANGED <<file, draft, recovery, ops, identity, process, todo, session, reply, counters>>

BeginOperation ==
    LET r == task.request IN
    /\ Running("begin")
    /\ ops' = [ops EXCEPT ![r] =
                [state |-> "preparing", oldScene |-> task.seen.scene,
                 oldIdent |-> task.seen.ident, target |-> NoScene,
                 newScene |-> NoScene, newIdent |-> 0]]
    /\ held' = held \cup {x \in {r} : Target[r] = file.scene}
    /\ Step("preparing")
    /\ UNCHANGED <<file, draft, recovery, protected, identity, process, todo, session,
                   reply, external, crashes, renamed, unsaved>>

(* begin_operation's last step, then mark_target_observed's two. *)
Advance ==
    LET r == task.request IN
    /\ \E i \in 1..3 :
        /\ Running(Linear[i])
        /\ ops' = [ops EXCEPT ![r].state = Linear[i + 1],
                              ![r].target = IF i = 2 THEN Target[r] ELSE @]
        /\ Step(Linear[i + 1])
    /\ UNCHANGED <<file, draft, recovery, protected, identity, process, todo, session,
                   reply, counters>>

FailBeforeRename ==
    /\ \E s \in {"protect", "begin", "preparing", "protected", "intent_committed",
                 "target_observed", "rename"} : Running(s)
    /\ Abort(task.request)

(* The validator right before the rename: the file must still be the one the
   request was made for. An in-place rewrite of the same bytes passes it. *)
ValidateExpectedTarget ==
    LET r == task.request IN
    /\ Running("target_observed")
    /\ \/ /\ file.scene = task.seen.scene
          /\ Step("rename")
          /\ UNCHANGED <<ops, session, reply>>
       \/ /\ file # task.seen
          /\ BestEffort(r, "conflict")
          /\ Answer(r, "failed")
    /\ UNCHANGED <<file, draft, recovery, protected, identity, process, todo, counters>>

Rename ==
    /\ Running("rename") /\ Writable
    /\ Write(Target[task.request])
    /\ renamed' = renamed \cup {task.request}
    /\ Step("sync")
    /\ UNCHANGED <<draft, recovery, protected, ops, identity, process, todo, session, reply,
                   external, crashes, unsaved>>

SyncParent ==
    /\ Running("sync")
    /\ Step("record")
    /\ UNCHANGED <<durable, process, todo, session, reply, counters>>

MarkTargetPublished ==
    LET r == task.request IN
    /\ Running("record")
    /\ file.scene = Target[r]
    /\ ops' = [ops EXCEPT ![r].state = "target_published",
                          ![r].newScene = file.scene, ![r].newIdent = file.ident]
    /\ Step("finalize")
    /\ UNCHANGED <<file, draft, recovery, protected, identity, process, todo, session, reply,
                   counters>>

(* finalize_published_target: the lease commits draft and index, forgets the
   snapshots and stores the identity; then the two last transitions. *)
FinalizeDraft ==
    LET r == task.request IN
    /\ Running("finalize")
    /\ NewStateMatches(r, file)
    /\ draft' = [scene |-> file.scene, base |-> file.scene, dirty |-> FALSE]
    /\ Step("forget")
    /\ UNCHANGED <<file, recovery, protected, ops, identity, process, todo, session, reply,
                   counters>>

FinalizeRecovery ==
    /\ Running("forget")
    /\ recovery' = NoScene
    /\ Step("identify")
    /\ UNCHANGED <<file, draft, protected, ops, identity, process, todo, session, reply,
                   counters>>

FinalizeIdentity ==
    /\ Running("identify")
    /\ identity' = [scene |-> draft.scene, ident |-> file.ident]
    /\ Step("target_published")
    /\ UNCHANGED <<file, draft, recovery, protected, ops, process, todo, session, reply,
                   counters>>

CommitMetadata ==
    /\ Running("target_published")
    /\ Transition(task.request, "metadata_committed")
    /\ Step("metadata_committed")
    /\ UNCHANGED <<file, draft, recovery, protected, identity, process, todo, session, reply,
                   counters>>

Complete ==
    /\ Running("metadata_committed")
    /\ Transition(task.request, "completed")
    /\ Answer(task.request, "completed")
    /\ UNCHANGED <<file, draft, recovery, protected, identity, process, todo, counters>>

FailAfterRename ==
    /\ \E s \in {"sync", "record", "finalize", "forget", "identify",
                 "target_published", "metadata_committed"} : Running(s)
    /\ MarkReconcile(task.request)

Replacing ==
    \/ PublishProtection \/ BeginOperation \/ Advance \/ ValidateExpectedTarget \/ Rename
    \/ SyncParent \/ MarkTargetPublished \/ FinalizeDraft \/ FinalizeRecovery
    \/ FinalizeIdentity \/ CommitMetadata \/ Complete

-----------------------------------------------------------------------------
(* history_operation_status, and history_replace asked again. *)
AnswerOf(r) ==
    CASE ops[r].state = "completed" -> "completed"
      [] ops[r].state \in {"aborted", "conflict"} -> "failed"
      [] OTHER -> "pending"

OperationStatus(r) ==
    /\ Free /\ session # None /\ ops[r] # None
    /\ reply[r] # AnswerOf(r)
    /\ reply' = [reply EXCEPT ![r] = AnswerOf(r)]
    /\ session' = [session EXCEPT !.pending =
                     IF @ = r /\ AnswerOf(r) # "pending" THEN None ELSE @]
    /\ UNCHANGED <<durable, process, todo, task, counters>>

-----------------------------------------------------------------------------
(* The process ends; the next launch reconciles before it shows a window. *)

Crash ==
    /\ process # "down" /\ crashes < MaxCrashes
    /\ process' = "down" /\ crashes' = crashes + 1
    /\ todo' = {} /\ task' = None /\ session' = None
    /\ UNCHANGED <<durable, reply, external, renamed, held, unsaved>>

Launch ==
    /\ process = "down"
    /\ process' = "startup"
    /\ todo' = Incomplete
    /\ UNCHANGED <<durable, task, session, reply, counters>>

(* An operation of the list is done, whatever became of it. *)
Done(r) == task' = None /\ todo' = todo \ {r}
Reconciling(step) == process = "startup" /\ task # None /\ task.step = step
Keep == UNCHANGED <<file, recovery, protected, process, session, reply, counters>>

Conflict(r) == Transition(r, "conflict") /\ Done(r) /\ UNCHANGED <<draft, identity>>
MarkPending(r) == Transition(r, "reconcile") /\ Done(r) /\ UNCHANGED <<draft, identity>>

(* The target is taken for published only when its pinned objects still pass
   their strict validation. *)
Published(r, seen, intact) == TargetMatches(r, seen) /\ intact

ReconcileOne(r) ==
    /\ process = "startup" /\ task = None /\ r \in todo
    /\ \E intact \in BOOLEAN :
        \/ /\ file.scene # NoScene
           /\ OldStateMatches(r, file) \/ Published(r, file, intact)
           /\ task' = [request |-> r, seen |-> file,
                       step |-> IF OldStateMatches(r, file) THEN "recheck" ELSE "resync"]
           /\ UNCHANGED <<draft, identity, ops, todo>>
        \/ /\ file.scene = NoScene
              \/ ~(OldStateMatches(r, file) \/ Published(r, file, intact))
           /\ Conflict(r)
        \/ file.scene # NoScene /\ MarkPending(r)
    /\ Keep

RecheckOld ==
    LET r == task.request IN
    /\ Reconciling("recheck")
    /\ \/ /\ OldStateMatches(r, file)
          /\ Step("restore")
          /\ UNCHANGED <<draft, identity, ops, todo>>
       \/ file.scene # NoScene /\ ~OldStateMatches(r, file) /\ Conflict(r)
       \/ MarkPending(r)
    /\ Keep

RepairDraftForgetting ==
    LET r == task.request IN
    /\ \E s \in {"restore", "repair"} : Reconciling(s)
    /\ draft' = [scene |-> task.seen.scene, base |-> task.seen.scene, dirty |-> FALSE]
    /\ recovery' = NoScene
    /\ Step(IF task.step = "restore" THEN "settle" ELSE "reobserve")
    /\ UNCHANGED <<file, protected, ops, identity, process, todo, session, reply, counters>>

(* repair_main_metadata makes draft and index those of the scene just seen. *)
RepairDraft ==
    LET r == task.request IN
    /\ \E s \in {"restore", "repair"} : Reconciling(s)
    /\ \/ /\ draft' = [scene |-> task.seen.scene, base |-> task.seen.scene, dirty |-> FALSE]
          /\ Step(IF task.step = "restore" THEN "settle" ELSE "reobserve")
          /\ UNCHANGED <<identity, ops, todo>>
       \/ MarkPending(r)
    /\ Keep

SettleAborted ==
    LET r == task.request IN
    /\ Reconciling("settle")
    /\ ops' = [ops EXCEPT ![r].state = "aborted", ![r].newScene = task.seen.scene]
    /\ Done(r)
    /\ UNCHANGED <<draft, identity>>
    /\ Keep

ResyncTarget ==
    LET r == task.request IN
    /\ Reconciling("resync")
    /\ \/ /\ TargetMatches(r, file)
          /\ task' = [task EXCEPT !.step = "repair", !.seen = file]
          /\ UNCHANGED <<draft, identity, ops, todo>>
       \/ file.scene # NoScene /\ ~TargetMatches(r, file) /\ Conflict(r)
       \/ MarkPending(r)
    /\ Keep

(* The file is observed again after the repair of the main database, and again
   after that of the history database. *)
Reobserve ==
    LET r == task.request IN
    /\ \E s \in {"reobserve", "final"} : Reconciling(s)
    /\ \/ /\ file = task.seen
          /\ Step(IF task.step = "final" THEN "reopen" ELSE "describe")
          /\ UNCHANGED <<draft, identity, ops, todo>>
       \/ file # task.seen /\ MarkPending(r)
    /\ Keep

RepairDocumentMetadata ==
    LET r == task.request IN
    /\ Reconciling("describe")
    /\ \/ /\ file.ident = task.seen.ident
          /\ identity' = task.seen
          /\ Step("final")
          /\ UNCHANGED <<draft, ops, todo>>
       \/ MarkPending(r)
    /\ Keep

(* transition_to_completed, one transaction at a time. *)
TransitionToCompleted ==
    LET r == task.request IN
    /\ \/ /\ Reconciling("reopen")
          /\ Transition(r, "reconcile")
          /\ Step("replay")
          /\ UNCHANGED todo
       \/ /\ Reconciling("replay")
          /\ \/ /\ ops[r].state = "reconcile"
                /\ ops' = [ops EXCEPT ![r].state = "target_observed",
                             ![r].newScene = task.seen.scene, ![r].newIdent = task.seen.ident]
                /\ UNCHANGED <<task, todo>>
             \/ \E i \in {4, 5} :
                /\ ops[r].state = Linear[i]
                /\ Transition(r, Linear[i + 1])
                /\ UNCHANGED <<task, todo>>
             \/ /\ ops[r].state = "metadata_committed"
                /\ Transition(r, "completed")
                /\ Done(r)
    /\ UNCHANGED <<draft, identity>>
    /\ Keep

(* A transaction that fails ends the whole reconciliation, which is only
   logged: the rest of the list waits for the next launch. *)
ReconciliationFails ==
    /\ process = "startup" /\ (task # None \/ todo # {})
    /\ task' = None /\ todo' = {}
    /\ UNCHANGED <<durable, process, session, reply, counters>>

FinishStartup ==
    /\ process = "startup" /\ task = None /\ todo = {}
    /\ process' = "up"
    /\ UNCHANGED <<durable, todo, task, session, reply, counters>>

Reconciliation ==
    \/ \E r \in Requests : ReconcileOne(r)
    \/ RecheckOld \/ RepairDraft \/ SettleAborted \/ ResyncTarget \/ Reobserve
    \/ RepairDocumentMetadata \/ TransitionToCompleted \/ FinishStartup

-----------------------------------------------------------------------------
Next ==
    \/ Open \/ Close \/ SaveDraft \/ Checkpoint \/ ExternalWrite
    \/ \E r \in Requests : Replace(r) \/ OperationStatus(r)
    \/ Replacing \/ FailBeforeRename \/ FailAfterRename
    \/ Crash \/ Launch \/ Reconciliation \/ ReconciliationFails

Spec == Init /\ [][Next]_vars

-----------------------------------------------------------------------------
(* Properties *)

(* An edit that was drafted and not saved since is never gone, whatever draft a
   replacement or the repair of one at the next launch overwrites: it is in the
   draft, a Recovery snapshot, the file or the version that protects a request
   (until the drawing is opened without it). *)
EditsKept ==
    unsaved # NoScene =>
        \/ draft.dirty /\ draft.scene = unsaved
        \/ unsaved \in {file.scene, recovery} \cup {protected[r] : r \in Requests}

(* A request is completed, by its own run or by a later launch, only together
   with the main database: the draft is the target, clean, so that no launch
   and no open can put a stale draft back over the drawing. *)
CompletedAgrees ==
    [][\A r \in Requests :
         ops[r] # None /\ ops'[r].state = "completed" /\ ops[r].state # "completed" =>
            /\ draft' = [scene |-> Target[r], base |-> Target[r], dirty |-> FALSE]
            /\ identity'.scene = Target[r]
            /\ protected'[r] # NoScene]_vars

(* A request answered as failed never touched the drawing, whether its record
   could be aborted or not and whatever the next launch makes of it. *)
FailureIsHonest ==
    \A r \in Requests : reply[r] = "failed" /\ r \in renamed =>
        ops[r].state = "conflict"

(* The refinement: what the phases, their failures, crashes and reconciliation
   amount to. *)
Outcome == INSTANCE ReplacementOutcome WITH
    drawing <- file.scene, replaced <- renamed, held <- held,
    settled <- [r \in Requests |->
        IF ops[r] = None THEN "none"
        ELSE IF ops[r].state \in Terminal THEN ops[r].state ELSE "open"]
OutcomeSpec == Outcome!Spec
=============================================================================
