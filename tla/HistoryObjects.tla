--------------------------- MODULE HistoryObjects ---------------------------
(***************************************************************************)
(* The history's content-addressed objects (history/objects.rs), the rows  *)
(* that refer to them (history/store.rs, history/repository.rs), the       *)
(* reachability gate and its collector (history/gc.rs) and their users:    *)
(* automatic versions, marks, protected replacements, previews, deletions. *)
(* Objects are written before the gate is taken; a version is committed    *)
(* under it; a collection lists its candidates before it takes it.         *)
(***************************************************************************)
EXTENDS Naturals, FiniteSets

CONSTANTS Documents, Scenes, Assets, Requests,
          AssetsOf,     \* AssetsOf[s]: the assets that scene s refers to
          None,
          Limit,        \* RETAINED_VERSION_LIMIT, 20 in the code
          Slots,        \* bound: the commands that may run at once, see below
          MaxVersions,  \* bound: versions ever recorded
          MaxRestarts   \* bound: restarts of the process

ASSUME AssetsOfAssumption == AssetsOf \in [Scenes -> SUBSET Assets]
ASSUME LimitAssumption == Limit \in Nat /\ MaxVersions \in Nat /\ MaxRestarts \in Nat
ASSUME KindsAssumption == Scenes \cap Assets = {} /\ None \notin Scenes \cup Assets \cup Requests

Objects == Scenes \cup Assets
Refs(s) == {s} \cup AssetsOf[s]
Ids == 1..MaxVersions

VARIABLES
    files,       \* the objects that have a file
    graced,      \* those of them without a row and younger than the grace
    rows,        \* objects with a metadata row; the row outlives the file
    versions,    \* version rows, numbered in the order they are recorded
    ops,         \* operation rows of replacements
    forgotten,   \* documents whose history was deleted with the drawing
    committed,   \* gate: references of the committed versions
    operationPins, hydrationPins,  \* gate: the pins
    task,        \* what runs with (or without) the lock of each document
    starting,    \* the launch reconciles operations
    restarts

gate == <<committed, operationPins, hydrationPins>>
vars == <<files, graced, rows, versions, ops, forgotten, committed, operationPins, hydrationPins,
          task, starting, restarts>>

(* The lock of a drawing admits one command; marks, previews and the deletion
   of a history with its drawing run without it. *)
ASSUME SlotsAssumption == Slots \subseteq Documents \X {"locked", "free"}
Doc(x) == x[1]

Sources == {"automatic", "manual", "protected"}
Version == [doc : Documents, scene : Scenes, source : Sources, marked : BOOLEAN]
Operation == [doc : Documents, protection : Ids, target : Scenes \cup {None},
              state : {"open", "completed", "expired", "failed"}]
Steps == {"find", "pin", "read", "put", "begin", "resolve", "restorePin", "register",
          "observe", "settle", "list", "collect"}
Task == [kind : {"automatic", "mark", "preview", "replace", "collect"}, step : Steps,
         scene : Scenes \cup {None}, target : Scenes \cup {None},
         request : Requests \cup {None}, version : Ids \cup {0},
         left : SUBSET Objects, known : SUBSET Objects, kept : SUBSET Objects]
ASSUME NoneAssumption == None \notin Version \cup Operation \cup Task
Nothing == [kind |-> "collect", step |-> "list", scene |-> None, target |-> None,
            request |-> None, version |-> 0, left |-> {}, known |-> {}, kept |-> {}]

TypeOK ==
    /\ files \subseteq Objects /\ graced \subseteq files \ rows
    /\ rows \subseteq Objects
    /\ versions \in [Ids -> Version \cup {None}]
    /\ ops \in [Requests -> Operation \cup {None}]
    /\ forgotten \subseteq Documents
    /\ committed \in [Ids -> SUBSET Objects]
    /\ operationPins \in [Requests -> SUBSET Objects]
    /\ hydrationPins \in [Slots -> SUBSET Objects]
    /\ task \in [Slots -> Task \cup {None}]
    /\ starting \in BOOLEAN /\ restarts \in 0..MaxRestarts

-----------------------------------------------------------------------------
Committed == {v \in Ids : versions[v] # None}
Incomplete == {r \in Requests : ops[r] # None /\ ops[r].state = "open"}
Protecting == {ops[r].protection : r \in Incomplete}
Live == UNION ({committed[v] : v \in Ids} \cup {operationPins[r] : r \in Requests}
               \cup {hydrationPins[x] : x \in Slots})

(* Versions are numbered in the order in which they are recorded; no number is
   given again while an operation, or the task that is to begin one, names it. *)
Fresh == {v \in Ids : /\ \A w \in Committed : w < v
                      /\ \A r \in Requests : ops[r] # None => ops[r].protection # v
                      /\ \A x \in Slots : task[x] # None => task[x].version # v}
NextId == CHOOSE v \in Fresh : TRUE

Beyond(pool) == {v \in pool : Cardinality({w \in pool : w > v}) >= Limit}

(* A slip of PruneUnmarked: what protects an incomplete replacement is not spared. *)
PruneAnyUnmarked(table, d) ==
    Beyond({v \in Ids : table[v] # None /\ table[v].doc = d /\ ~table[v].marked})

(* What retention takes out of a table of versions: of the unmarked ones but for
   those that protect an incomplete replacement ... *)
PruneUnmarked(table, d) ==
    Beyond({v \in Ids : table[v] # None /\ table[v].doc = d /\ ~table[v].marked}) \ Protecting

(* ... and when it is a replacement that publishes: of all but manual ones. *)
PruneSnapshot(table, d) ==
    Beyond({v \in Ids : table[v] # None /\ table[v].doc = d /\ table[v].source # "manual"})

Without(table, gone, nothing) == [v \in Ids |-> IF v \in gone THEN nothing ELSE table[v]]

Init ==
    /\ files = {} /\ graced = {} /\ rows = {}
    /\ versions = [v \in Ids |-> None] /\ ops = [r \in Requests |-> None]
    /\ forgotten = {}
    /\ committed = [v \in Ids |-> {}]
    /\ operationPins = [r \in Requests |-> {}] /\ hydrationPins = [x \in Slots |-> {}]
    /\ task = [x \in Slots |-> None]
    /\ starting = FALSE /\ restarts = 0

-----------------------------------------------------------------------------
(* Commands begin. *)

Idle(x) == x \in Slots /\ ~starting /\ task[x] = None /\ Doc(x) \notin forgotten
Start(x, t) == task' = [task EXCEPT ![x] = t]
Step(x, s) == task' = [task EXCEPT ![x].step = s]
End(x) ==
    /\ task' = [task EXCEPT ![x] = None]
    /\ hydrationPins' = [hydrationPins EXCEPT ![x] = {}]
At(x, s) == task[x] # None /\ task[x].step = s

(* A checkpoint finds an automatic version due. *)
AfterCheckpoint(d) ==
    LET x == <<d, "locked">> IN
    /\ Idle(x)
    /\ \E s \in Scenes : Start(x, [Nothing EXCEPT !.kind = "automatic", !.step = "put",
                                                  !.scene = s, !.left = Refs(s)])
    /\ UNCHANGED <<files, graced, rows, versions, ops, forgotten, gate, starting, restarts>>

Mark(d) ==
    LET x == <<d, "free">> IN
    /\ Idle(x)
    /\ \E s \in Scenes : Start(x, [Nothing EXCEPT !.kind = "mark", !.step = "put",
                                                  !.scene = s, !.left = Refs(s)])
    /\ UNCHANGED <<files, graced, rows, versions, ops, forgotten, gate, starting, restarts>>

(* A preview and the restoration of a version first find its rows. *)
Preview(d) ==
    LET x == <<d, "free">> IN
    /\ Idle(x)
    /\ \E v \in Committed :
        /\ versions[v].doc = d
        /\ Start(x, [Nothing EXCEPT !.kind = "preview", !.step = "pin",
                                    !.target = versions[v].scene])
    /\ UNCHANGED <<files, graced, rows, versions, ops, forgotten, gate, starting, restarts>>

(* The drawing's current scene is s; the target is a version's or, of an import
   or a clearing, given with the request. *)
Replace(d, r) ==
    LET x == <<d, "locked">>
        t == [Nothing EXCEPT !.kind = "replace", !.request = r] IN
    /\ Idle(x) /\ ops[r] = None /\ \A y \in Slots : task[y] # None => task[y].request # r
    /\ \E s \in Scenes :
        \/ \E v \in Committed :
            /\ versions[v].doc = d
            /\ Start(x, [t EXCEPT !.step = "pin", !.scene = s, !.target = versions[v].scene])
        \/ \E s2 \in Scenes : Start(x, [t EXCEPT !.step = "put", !.scene = s, !.target = s2,
                                                 !.left = Refs(s)])
    /\ UNCHANGED <<files, graced, rows, versions, ops, forgotten, gate, starting, restarts>>

-----------------------------------------------------------------------------
(* load_history_scene and hydrate_preview: pin, then read. *)

AcquireScenePin(x) ==           \* a slip of AcquireHydrationPin: the assets are not pinned
    /\ At(x, "pin")
    /\ hydrationPins' = [hydrationPins EXCEPT ![x] = {task[x].target}]
    /\ task' = [task EXCEPT ![x].step = "read",
                            ![x].known = Refs(task[x].target) \cap files]
    /\ UNCHANGED <<files, graced, rows, versions, ops, forgotten, committed, operationPins, starting,
                   restarts>>

AcquireHydrationPin(x) ==
    /\ At(x, "pin")
    /\ hydrationPins' = [hydrationPins EXCEPT ![x] = Refs(task[x].target)]
    /\ task' = [task EXCEPT ![x].step = "read",
                            ![x].known = Refs(task[x].target) \cap files]
    /\ UNCHANGED <<files, graced, rows, versions, ops, forgotten, committed, operationPins, starting,
                   restarts>>

(* A restoration keeps the pin until it ends. *)
ReadPinned(x) ==
    /\ At(x, "read")
    /\ IF task[x].kind = "replace" /\ Refs(task[x].target) \subseteq files
         THEN /\ task' = [task EXCEPT ![x].step = "put", ![x].left = Refs(task[x].scene)]
              /\ UNCHANGED hydrationPins
         ELSE End(x)
    /\ UNCHANGED <<files, graced, rows, versions, ops, forgotten, committed, operationPins, starting,
                   restarts>>

-----------------------------------------------------------------------------
(* Objects and versions. *)

(* write_immutable: an object that is there is used as it is. *)
PutObject(x) ==
    /\ At(x, "put") \/ At(x, "resolve")
    /\ \E o \in task[x].left :
        /\ files' = files \cup {o}
        /\ graced' = IF o \in files \cup rows THEN graced ELSE graced \cup {o}
        /\ task' = [task EXCEPT ![x].left = @ \ {o},
                                ![x].step = IF @ = "resolve" /\ task[x].left = {o}
                                              THEN "restorePin" ELSE @]
    /\ UNCHANGED <<rows, versions, ops, forgotten, gate, starting, restarts>>

PublishesUnverified(x, kind) == \* a slip of Publishes: nobody looks at the scene again
    /\ At(x, "put") /\ task[x].left = {} /\ task[x].kind = kind
    /\ Fresh # {}

Publishes(x, kind) ==
    /\ At(x, "put") /\ task[x].left = {} /\ task[x].kind = kind
    /\ Fresh # {}
    /\ task[x].scene \in files     \* verify_scene, under the gate

WithVersion(x, source, marked) ==
    [versions EXCEPT ![NextId] = [doc |-> Doc(x), scene |-> task[x].scene,
                                  source |-> source, marked |-> marked]]

(* One mutation under the gate: the rows, then the gate's references. *)
CommitVersion(x, table, gone) ==
    /\ rows' = rows \cup Refs(task[x].scene)
    /\ graced' = graced \ rows'
    /\ versions' = Without(table, gone, None)
    /\ committed' = Without([committed EXCEPT ![NextId] = Refs(task[x].scene)], gone, {})

PublishAutomatic(x) ==
    /\ Publishes(x, "automatic")
    /\ LET table == WithVersion(x, "automatic", FALSE)
       IN CommitVersion(x, table, PruneUnmarked(table, Doc(x)))
    /\ End(x)
    /\ UNCHANGED <<files, ops, forgotten, operationPins, starting, restarts>>

(* A scene that is marked already is not marked twice. *)
ReusableMarked(d, s) ==
    {v \in Committed : versions[v].doc = d /\ versions[v].scene = s /\ versions[v].marked}

PublishMark(x) ==
    /\ Publishes(x, "mark")
    /\ IF ReusableMarked(Doc(x), task[x].scene) # {}
         THEN UNCHANGED <<graced, rows, versions, committed>>
         ELSE CommitVersion(x, WithVersion(x, "manual", TRUE), {})
    /\ End(x)
    /\ UNCHANGED <<files, ops, forgotten, operationPins, starting, restarts>>

PublishSnapshot(x) ==
    /\ Publishes(x, "replace")
    /\ LET table == WithVersion(x, "protected", FALSE)
       IN CommitVersion(x, table, PruneSnapshot(table, Doc(x)))
    /\ task' = [task EXCEPT ![x].step = "begin", ![x].version = NextId]
    /\ UNCHANGED <<files, ops, forgotten, operationPins, hydrationPins, starting, restarts>>

(* The command ends: the scene is gone, or a write fails. *)
PublishFails(x) ==
    /\ At(x, "put")
    /\ End(x)
    /\ UNCHANGED <<files, graced, rows, versions, ops, forgotten, committed, operationPins, starting,
                   restarts>>

-----------------------------------------------------------------------------
(* The operation of a replacement. *)

BeginOperation(x) ==
    LET r == task[x].request IN
    /\ At(x, "begin")
    /\ ops' = [ops EXCEPT ![r] = [doc |-> Doc(x), protection |-> task[x].version,
                                  target |-> None, state |-> "open"]]
    /\ operationPins' = [operationPins EXCEPT ![r] = Refs(task[x].scene)]
    /\ task' = [task EXCEPT ![x].step = "resolve", ![x].left = Refs(task[x].target)]
    /\ UNCHANGED <<files, graced, rows, versions, forgotten, committed, hydrationPins, starting, restarts>>

RestoreOperationPin(x) ==
    /\ At(x, "restorePin")
    /\ operationPins' = [operationPins EXCEPT ![task[x].request] =
                            Refs(task[x].scene) \cup Refs(task[x].target)]
    /\ Step(x, "register")
    /\ UNCHANGED <<files, graced, rows, versions, ops, forgotten, committed, hydrationPins, starting,
                   restarts>>

(* register_scene_object and register_asset_object verify under the gate. *)
RegisterTarget(x) ==
    /\ At(x, "register")
    /\ Refs(task[x].target) \subseteq files
    /\ rows' = rows \cup Refs(task[x].target)
    /\ graced' = graced \ rows'
    /\ Step(x, "observe")
    /\ UNCHANGED <<files, versions, ops, forgotten, gate, starting, restarts>>

MarkTargetObserved(x) ==
    /\ At(x, "observe")
    /\ ops' = [ops EXCEPT ![task[x].request].target = task[x].target]
    /\ Step(x, "settle")
    /\ UNCHANGED <<files, graced, rows, versions, forgotten, gate, starting, restarts>>

ReleaseOperationPin(r) == operationPins' = [operationPins EXCEPT ![r] = {}]

(* Aborted before the target is published, or in conflict. *)
AbortOperation(x) ==
    LET r == task[x].request IN
    /\ \E s \in {"resolve", "restorePin", "register", "observe", "settle"} : At(x, s)
    /\ ops' = [ops EXCEPT ![r].state = "failed"]
    /\ ReleaseOperationPin(r)
    /\ End(x)
    /\ UNCHANGED <<files, graced, rows, versions, forgotten, committed, starting, restarts>>

(* Completed, its pin kept for status requests; or left for the next launch. *)
FinishReplacement(x) ==
    LET r == task[x].request IN
    /\ At(x, "settle")
    /\ \E s \in {"completed", "open"} : ops' = [ops EXCEPT ![r].state = s]
    /\ End(x)
    /\ UNCHANGED <<files, graced, rows, versions, forgotten, committed, operationPins, starting, restarts>>

-----------------------------------------------------------------------------
(* Marking, unmarking, deleting, and the collection that follows. *)

SetMarked(d) ==
    LET x == <<d, "locked">> IN
    /\ Idle(x)
    /\ \E v \in Committed, marked \in BOOLEAN :
        /\ versions[v].doc = d /\ v \notin Protecting
        /\ LET table == [versions EXCEPT ![v].marked = marked]
               gone == IF marked THEN {} ELSE PruneUnmarked(table, d)
           IN /\ versions' = Without(table, gone, None)
              /\ committed' = Without(committed, gone, {})
              /\ IF gone = {} THEN UNCHANGED task ELSE Start(x, Nothing)
    /\ UNCHANGED <<files, graced, rows, ops, forgotten, operationPins, hydrationPins, starting, restarts>>

DeleteVersion(d) ==
    LET x == <<d, "locked">> IN
    /\ Idle(x)
    /\ \E v \in Committed :
        /\ versions[v].doc = d /\ v \notin Protecting
        /\ versions' = Without(versions, {v}, None)
        /\ committed' = Without(committed, {v}, {})
    /\ Start(x, Nothing)
    /\ UNCHANGED <<files, graced, rows, ops, forgotten, operationPins, hydrationPins, starting, restarts>>

(* The drawing has been moved to the Trash. *)
DeleteDocumentHistory(d) ==
    LET x == <<d, "free">> IN
    /\ Idle(x)
    /\ \A r \in Incomplete : ops[r].doc # d
    /\ LET gone == {v \in Committed : versions[v].doc = d}
       IN /\ versions' = Without(versions, gone, None)
          /\ committed' = Without(committed, gone, {})
    /\ forgotten' = forgotten \cup {d}
    /\ Start(x, Nothing)
    /\ UNCHANGED <<files, graced, rows, ops, operationPins, hydrationPins, starting, restarts>>

(* expire_completed_operation_pins and enumerate_object_candidates: what has a
   row, or is older than the grace, may go unless it is reachable. *)
ListCandidates(x) ==
    /\ At(x, "list")
    /\ operationPins' = [r \in Requests |->
                            IF ops[r] # None /\ ops[r].state = "expired" THEN {}
                            ELSE operationPins[r]]
    /\ task' = [task EXCEPT ![x].step = "collect",
                            ![x].known = files \ graced]
    /\ UNCHANGED <<files, graced, rows, versions, ops, forgotten, committed, hydrationPins, starting,
                   restarts>>

(* ReachabilityGate::collect; a deletion may fail. *)
Collect(x) ==
    /\ At(x, "collect")
    /\ \E gone \in SUBSET (task[x].known \ Live) :
        files' = files \ gone /\ graced' = graced \ gone
    /\ End(x)
    /\ UNCHANGED <<rows, versions, ops, forgotten, committed, operationPins, starting, restarts>>

-----------------------------------------------------------------------------
(* Time, and restarts. *)

GraceEnds ==
    /\ \E o \in graced : graced' = graced \ {o}
    /\ UNCHANGED <<files, rows, versions, ops, forgotten, gate, task, starting, restarts>>

RetentionEnds(r) ==
    /\ ops[r] # None /\ ops[r].state = "completed"
    /\ ops' = [ops EXCEPT ![r].state = "expired"]
    /\ UNCHANGED <<files, graced, rows, versions, forgotten, gate, task, starting, restarts>>

VersionReferences(v) == IF versions[v] = None THEN {} ELSE Refs(versions[v].scene)
TargetReferences(r) == IF ops[r].target = None THEN {} ELSE Refs(ops[r].target)

(* The process ends anywhere; HistoryStore::open rebuilds the gate from rows. *)
Restart ==
    /\ restarts < MaxRestarts
    /\ restarts' = restarts + 1 /\ starting' = TRUE
    /\ task' = [x \in Slots |-> None]
    /\ hydrationPins' = [x \in Slots |-> {}]
    /\ committed' = [v \in Ids |-> VersionReferences(v)]
    /\ operationPins' = [r \in Requests |->
            IF r \in Incomplete
              THEN TargetReferences(r) \cup VersionReferences(ops[r].protection)
            ELSE IF ops[r] # None /\ ops[r].state = "completed" THEN TargetReferences(r)
            ELSE {}]
    /\ UNCHANGED <<files, graced, rows, versions, ops, forgotten>>

(* A published target is completed if its objects validate; the pin of what is
   aborted or in conflict is released; what cannot be decided stays open. *)
Reconcile(r) ==
    /\ starting /\ r \in Incomplete
    /\ \/ /\ ops[r].target # None /\ Refs(ops[r].target) \subseteq files
          /\ ops' = [ops EXCEPT ![r].state = "completed"]
          /\ UNCHANGED operationPins
       \/ /\ ops' = [ops EXCEPT ![r].state = "failed"]
          /\ ReleaseOperationPin(r)
    /\ UNCHANGED <<files, graced, rows, versions, forgotten, committed, hydrationPins, task, starting,
                   restarts>>

FinishStartup ==
    /\ starting /\ starting' = FALSE
    /\ UNCHANGED <<files, graced, rows, versions, ops, forgotten, gate, task, restarts>>

-----------------------------------------------------------------------------
Next ==
    \/ \E d \in Documents :
        \/ AfterCheckpoint(d) \/ Mark(d) \/ Preview(d) \/ \E r \in Requests : Replace(d, r)
        \/ SetMarked(d) \/ DeleteVersion(d) \/ DeleteDocumentHistory(d)
    \/ \E x \in Slots :
        \/ AcquireHydrationPin(x) \/ ReadPinned(x)
        \/ PutObject(x) \/ PublishAutomatic(x) \/ PublishMark(x) \/ PublishSnapshot(x)
        \/ PublishFails(x)
        \/ BeginOperation(x) \/ RestoreOperationPin(x) \/ RegisterTarget(x)
        \/ MarkTargetObserved(x) \/ AbortOperation(x) \/ FinishReplacement(x)
        \/ ListCandidates(x) \/ Collect(x)
    \/ GraceEnds \/ \E r \in Requests : RetentionEnds(r) \/ Reconcile(r)
    \/ Restart \/ FinishStartup

Spec == Init /\ [][Next]_vars

-----------------------------------------------------------------------------
(* Properties *)

(* A committed version has its scene: no collection that listed the object
   before the commit, in this process or after a restart, takes it away. *)
ScenesStand == \A v \in Committed : versions[v].scene \in files

(* A replacement whose target is recorded can be finished, reconciled and
   answered again from the objects until its result has expired. *)
TargetsStand ==
    \A r \in Requests : ops[r] # None /\ ops[r].target # None /\ ops[r].state \in {"open", "completed"}
        => Refs(ops[r].target) \subseteq files

(* Whatever is collected, the scenes of versions and the targets of replacements
   are there (publish_with_assets, register_scene_object, the operation pins). *)
ReferencedStand == ScenesStand /\ TargetsStand

(* The collector keeps what the rows refer to, and keeps nothing back for rows
   that are gone: gate and tables agree whatever commits, prunes and restarts. *)
GateAgrees ==
    /\ \A v \in Ids : committed[v] = VersionReferences(v)
    /\ \A r \in Incomplete : TargetReferences(r) \subseteq operationPins[r]

(* A reader that found the objects when it pinned them reads them all. *)
ReadsComplete == \A x \in Slots : At(x, "read") => task[x].known \subseteq files

(* A committed version has its assets (repository.rs:75). *)
AssetsStand == \A v \in Committed : AssetsOf[versions[v].scene] \subseteq files

(* What was marked goes by its user's own doing, and what protects an incomplete
   replacement by nobody's, but for the retention of a later replacement, which
   counts and takes whatever is not manual (commands/history.rs:1430). *)
KeptStay ==
    [][\A v \in Committed :
         LET d == versions[v].doc IN
         versions'[v] = None =>
            \/ v \notin Protecting /\ ~versions[v].marked
            \/ v \notin Protecting /\ (SetMarked(d) \/ DeleteVersion(d) \/ DeleteDocumentHistory(d))
            \/ versions[v].source # "manual" /\ PublishSnapshot(<<d, "locked">>)]_vars

(* "Marking takes a version out of the pool of automatic and protecting ones"
   (docs/design/local-version-history/interaction.md:85): not when a replacement
   publishes. *)
MarkedStay ==
    [][\A v \in Committed : versions[v].marked /\ PublishSnapshot(<<versions[v].doc, "locked">>)
         => versions'[v] # None]_vars
=============================================================================
