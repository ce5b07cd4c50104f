------------------------- MODULE HistoryObjectsProofs -------------------------
(***************************************************************************)
(* Proofs about HistoryObjects, for any documents, scenes and requests.    *)
(***************************************************************************)
EXTENDS HistoryObjects, TLAPS

\* The steps of a replacement once its operation has begun.
Begun == {"resolve", "restorePin", "register", "observe", "settle"}

\* A task that publishes, reads or replaces knows its scene, its target and
\* its request; a replacement holds the lock of its drawing.
KnowsItsPart(x) ==
    /\ task[x].kind = "replace" => x = <<Doc(x), "locked">>
    /\ task[x].kind = "replace" => task[x].request \in Requests
    /\ task[x].kind = "replace" => task[x].target \in Scenes /\ task[x].scene \in Scenes
    /\ task[x].step \in {"pin", "read"} => task[x].target \in Scenes
    /\ task[x].step = "put" => task[x].scene \in Scenes
    /\ task[x].step \in Begun \cup {"begin"} => task[x].kind = "replace"
    /\ task[x].step = "begin" => task[x].version \in Ids

\* How far the operation of a replacement has come.
FollowsItsOperation(x) ==
    LET r == task[x].request IN
    task[x].kind = "replace" =>
        /\ task[x].step \notin Begun => ops[r] = None
        /\ task[x].step \in Begun => ops[r] # None /\ ops[r].state = "open"
        /\ task[x].step \in Begun \ {"settle"} => ops[r].target = None
        /\ task[x].step \in {"register", "observe"} => Refs(task[x].target) \subseteq operationPins[r]
        /\ task[x].step = "observe" => Refs(task[x].target) \subseteq files

\* What a reader found it has pinned, and it is there.
ReadsWhatIsPinned(x) ==
    task[x].step = "read" => task[x].known \subseteq hydrationPins[x] \cap files

TasksStand ==
    \A x \in Slots : task[x] # None =>
        KnowsItsPart(x) /\ FollowsItsOperation(x) /\ ReadsWhatIsPinned(x)

\* No two tasks work on one request.
RequestsAreOwn ==
    \A x, y \in Slots :
        /\ task[x] # None /\ task[y] # None
        /\ task[x].kind = "replace" /\ task[y].kind = "replace"
        /\ task[x].request = task[y].request
        => x = y

\* Nothing runs while the launch reconciles.
StartsAlone == starting => \A x \in Slots : task[x] = None

\* The gate knows what the rows refer to.
GateFollows == \A v \in Ids : committed[v] = VersionReferences(v)

\* Recorded targets are pinned until their result has expired.
TargetsPinned ==
    \A r \in Requests : ops[r] # None /\ ops[r].target # None /\ ops[r].state \in {"open", "completed"}
        => Refs(ops[r].target) \subseteq operationPins[r]

\* A version that protects a replacement is one of its drawing, for as long as
\* the number is not free ...
ProtectionsBelong ==
    \A r \in Requests : ops[r] # None =>
        versions[ops[r].protection] = None \/ versions[ops[r].protection].doc = ops[r].doc

\* ... and so is the one that a replacement is about to name.
BeginningsBelong ==
    \A x \in Slots : task[x] # None /\ task[x].step = "begin" =>
        versions[task[x].version] = None \/ versions[task[x].version].doc = Doc(x)

IInv ==
    /\ TypeOK
    /\ TasksStand
    /\ RequestsAreOwn
    /\ StartsAlone
    /\ GateFollows
    /\ ScenesStand
    /\ TargetsStand
    /\ TargetsPinned
    /\ ProtectionsBelong
    /\ BeginningsBelong

-----------------------------------------------------------------------------
(* The operators. *)

LEMMA RefsAreObjects ==
    ASSUME NEW s \in Scenes
    PROVE  Refs(s) \subseteq Objects /\ s \in Refs(s)
BY AssetsOfAssumption DEF Refs, Objects

LEMMA NextIdIsFresh ==
    ASSUME Fresh # {}
    PROVE  NextId \in Fresh /\ NextId \in Ids
BY DEF NextId, Fresh

LEMMA SlotTyped ==
    ASSUME NEW x \in Slots
    PROVE  Doc(x) \in Documents /\ x = <<Doc(x), x[2]>>
BY SlotsAssumption DEF Doc

LEMMA TaskTyped ==
    ASSUME TypeOK, NEW x \in Slots, task[x] # None
    PROVE  task[x] \in Task
BY DEF TypeOK

LEMMA OperationTyped ==
    ASSUME TypeOK, NEW r \in Requests, ops[r] # None
    PROVE  ops[r] \in Operation
BY DEF TypeOK

LEMMA VersionTyped ==
    ASSUME TypeOK, NEW v \in Ids, versions[v] # None
    PROVE  versions[v] \in Version
BY DEF TypeOK

LEMMA NoneIsNoRecord ==
    /\ \A t \in Task : t # None
    /\ \A o \in Operation : o # None
    /\ \A v \in Version : v # None
BY NoneAssumption

LEMMA NothingIsATask == Nothing \in Task
BY DEF Nothing, Task, Steps

-----------------------------------------------------------------------------
LEMMA InitHolds == Init => IInv
<1> SUFFICES ASSUME Init PROVE IInv
  OBVIOUS
<1>1. TypeOK
  BY LimitAssumption, 0 \in 0..MaxRestarts DEF Init, TypeOK
<1>2. TasksStand /\ RequestsAreOwn /\ StartsAlone /\ BeginningsBelong
  BY DEF Init, TasksStand, RequestsAreOwn, StartsAlone, BeginningsBelong
<1>3. GateFollows /\ ScenesStand
  BY DEF Init, GateFollows, ScenesStand, VersionReferences, Committed
<1>4. TargetsStand /\ TargetsPinned /\ ProtectionsBelong
  BY DEF Init, TargetsStand, TargetsPinned, ProtectionsBelong
<1> QED
  BY <1>1, <1>2, <1>3, <1>4 DEF IInv

-----------------------------------------------------------------------------
(* What the others' steps leave of a task, of the requests and protections. *)

LEMMA TaskStays ==
    ASSUME IInv, NEW y \in Slots, task[y] # None,
           task'[y] = task[y], hydrationPins'[y] = hydrationPins[y],
           \A r \in Requests : task[y].kind = "replace" /\ task[y].request = r =>
               /\ ops'[r] = ops[r] /\ operationPins'[r] = operationPins[r]
               /\ files \cap operationPins[r] \subseteq files',
           files \cap hydrationPins[y] \subseteq files'
    PROVE  KnowsItsPart(y)' /\ FollowsItsOperation(y)' /\ ReadsWhatIsPinned(y)'
<1>1. KnowsItsPart(y) /\ FollowsItsOperation(y) /\ ReadsWhatIsPinned(y)
  BY DEF IInv, TasksStand
<1>2. KnowsItsPart(y)'
  BY <1>1 DEF KnowsItsPart
<1>3. FollowsItsOperation(y)'
  <2>1. CASE task[y].kind = "replace"
    <3>1. task[y].request \in Requests
      BY <1>1, <2>1 DEF KnowsItsPart
    <3>2. /\ ops'[task[y].request] = ops[task[y].request]
          /\ operationPins'[task[y].request] = operationPins[task[y].request]
          /\ files \cap operationPins[task[y].request] \subseteq files'
      BY <2>1, <3>1
    <3> QED
      BY <1>1, <2>1, <3>2 DEF FollowsItsOperation
  <2>2. CASE task[y].kind # "replace"
    BY <2>2 DEF FollowsItsOperation
  <2> QED
    BY <2>1, <2>2
<1>4. ReadsWhatIsPinned(y)'
  BY <1>1 DEF ReadsWhatIsPinned
<1> QED
  BY <1>2, <1>3, <1>4

\* A step of x that leaves every other task alone leaves the requests their own.
LEMMA RequestsStay ==
    ASSUME IInv, NEW x \in Slots,
           \A y \in Slots : y # x => task'[y] = task[y],
           \/ task'[x] = None
           \/ task'[x].kind # "replace"
           \/ /\ task[x] # None /\ task[x].kind = "replace"
              /\ task'[x].request = task[x].request
           \/ \A y \in Slots : task[y] # None => task[y].request # task'[x].request
    PROVE  RequestsAreOwn'
BY DEF IInv, RequestsAreOwn

LEMMA ProtectionsStay ==
    ASSUME IInv,
           \A v \in Ids : \/ versions'[v] = None
                          \/ v \in Fresh
                          \/ versions[v] # None /\ versions'[v].doc = versions[v].doc,
           \A r \in Requests : ops'[r] # None =>
               /\ ops[r] # None
               /\ ops'[r].protection = ops[r].protection /\ ops'[r].doc = ops[r].doc
    PROVE  ProtectionsBelong'
<1> SUFFICES ASSUME NEW r \in Requests, ops'[r] # None
             PROVE  versions'[ops'[r].protection] = None
                    \/ versions'[ops'[r].protection].doc = ops'[r].doc
  BY DEF ProtectionsBelong
<1>1. ops[r] \in Operation
  BY OperationTyped DEF IInv
<1>2. ops[r].protection \in Ids
  BY <1>1 DEF Operation
<1>3. ops[r].protection \notin Fresh
  BY DEF Fresh
<1> QED
  BY <1>2, <1>3 DEF IInv, ProtectionsBelong

LEMMA BeginningsStay ==
    ASSUME IInv,
           \A v \in Ids : \/ versions'[v] = None
                          \/ v \in Fresh
                          \/ versions[v] # None /\ versions'[v].doc = versions[v].doc,
           NEW x \in Slots,
           \A y \in Slots : y # x => task'[y] = task[y],
           task'[x] = None \/ task'[x].step # "begin"
    PROVE  BeginningsBelong'
<1> SUFFICES ASSUME NEW y \in Slots, task'[y] # None, task'[y].step = "begin"
             PROVE  versions'[task'[y].version] = None
                    \/ versions'[task'[y].version].doc = Doc(y)
  BY DEF BeginningsBelong, Doc
<1>1. y # x /\ task'[y] = task[y]
  OBVIOUS
<1>2. task[y].version \in Ids
  BY <1>1 DEF IInv, TasksStand, KnowsItsPart
<1>3. task[y].version \notin Fresh
  BY <1>1 DEF Fresh
<1> QED
  BY <1>1, <1>2, <1>3 DEF IInv, BeginningsBelong

-----------------------------------------------------------------------------
(* Commands begin. *)

\* A command that begins, with what its first step needs to know.
LEMMA StartKeeps ==
    ASSUME IInv, NEW x \in Slots, Idle(x), NEW t \in Task, Start(x, t),
           t.step \in {"pin", "put"},
           t.step = "pin" => t.target \in Scenes,
           t.step = "put" => t.scene \in Scenes,
           t.kind = "replace" =>
               /\ x = <<Doc(x), "locked">>
               /\ t.request \in Requests /\ t.scene \in Scenes /\ t.target \in Scenes
               /\ ops[t.request] = None
               /\ \A y \in Slots : task[y] # None => task[y].request # t.request,
           UNCHANGED <<files, graced, rows, versions, ops, forgotten, gate, starting, restarts>>
    PROVE  IInv'
<1>1. /\ task'[x] = t /\ \A y \in Slots : y # x => task'[y] = task[y]
      /\ t # None /\ task[x] = None
      /\ UNCHANGED <<committed, operationPins, hydrationPins>>
  BY NoneIsNoRecord DEF IInv, TypeOK, Start, Idle, gate
<1>2. TypeOK'
  BY <1>1 DEF IInv, TypeOK, Start
<1>3. TasksStand'
  <2> SUFFICES ASSUME NEW y \in Slots, task'[y] # None
               PROVE  KnowsItsPart(y)' /\ FollowsItsOperation(y)' /\ ReadsWhatIsPinned(y)'
    BY DEF TasksStand, KnowsItsPart, FollowsItsOperation, ReadsWhatIsPinned
  <2>1. CASE y = x
    BY <1>1, <2>1 DEF KnowsItsPart, FollowsItsOperation, ReadsWhatIsPinned, Begun
  <2>2. CASE y # x
    BY <1>1, <2>2, TaskStays
  <2> QED
    BY <2>1, <2>2
<1>4. RequestsAreOwn'
  BY <1>1, RequestsStay
<1>5. StartsAlone' /\ GateFollows' /\ ScenesStand'
  BY <1>1 DEF IInv, Idle, StartsAlone, GateFollows, ScenesStand, VersionReferences, Committed
<1>6. TargetsStand' /\ TargetsPinned' /\ ProtectionsBelong'
  BY <1>1 DEF IInv, TargetsStand, TargetsPinned, ProtectionsBelong
<1>7. BeginningsBelong'
  BY <1>1 DEF IInv, BeginningsBelong, Doc
<1> QED
  BY <1>2, <1>3, <1>4, <1>5, <1>6, <1>7 DEF IInv

LEMMA AfterCheckpointKeeps ==
    ASSUME IInv, NEW d \in Documents, AfterCheckpoint(d)
    PROVE  IInv'
<1> DEFINE x == <<d, "locked">>
<1>1. PICK s \in Scenes : Start(x, [Nothing EXCEPT !.kind = "automatic", !.step = "put",
                                                   !.scene = s, !.left = Refs(s)])
  BY DEF AfterCheckpoint
<1> DEFINE t == [Nothing EXCEPT !.kind = "automatic", !.step = "put", !.scene = s, !.left = Refs(s)]
<1>2. t \in Task /\ t.kind = "automatic" /\ t.step = "put" /\ t.scene = s
  BY RefsAreObjects DEF Nothing, Task, Steps
<1>3. Idle(x) /\ x \in Slots
  BY DEF AfterCheckpoint, Idle
<1> HIDE DEF t, x
<1> QED
  BY <1>1, <1>2, <1>3, StartKeeps DEF AfterCheckpoint, t

LEMMA MarkKeeps ==
    ASSUME IInv, NEW d \in Documents, Mark(d)
    PROVE  IInv'
<1> DEFINE x == <<d, "free">>
<1>1. PICK s \in Scenes : Start(x, [Nothing EXCEPT !.kind = "mark", !.step = "put",
                                                   !.scene = s, !.left = Refs(s)])
  BY DEF Mark
<1> DEFINE t == [Nothing EXCEPT !.kind = "mark", !.step = "put", !.scene = s, !.left = Refs(s)]
<1>2. t \in Task /\ t.kind = "mark" /\ t.step = "put" /\ t.scene = s
  BY RefsAreObjects DEF Nothing, Task, Steps
<1>3. Idle(x) /\ x \in Slots
  BY DEF Mark, Idle
<1> HIDE DEF t, x
<1> QED
  BY <1>1, <1>2, <1>3, StartKeeps DEF Mark, t

LEMMA PreviewKeeps ==
    ASSUME IInv, NEW d \in Documents, Preview(d)
    PROVE  IInv'
<1> DEFINE x == <<d, "free">>
<1>1. PICK v \in Committed : Start(x, [Nothing EXCEPT !.kind = "preview", !.step = "pin",
                                                      !.target = versions[v].scene])
  BY DEF Preview
<1> DEFINE t == [Nothing EXCEPT !.kind = "preview", !.step = "pin", !.target = versions[v].scene]
<1>2. versions[v].scene \in Scenes
  BY VersionTyped DEF IInv, Committed, Version
<1>3. t \in Task /\ t.kind = "preview" /\ t.step = "pin" /\ t.target = versions[v].scene
  BY <1>2 DEF Nothing, Task, Steps
<1>4. Idle(x) /\ x \in Slots
  BY DEF Preview, Idle
<1> HIDE DEF t, x
<1> QED
  BY <1>1, <1>2, <1>3, <1>4, StartKeeps DEF Preview, t

LEMMA ReplaceKeeps ==
    ASSUME IInv, NEW d \in Documents, NEW r \in Requests, Replace(d, r)
    PROVE  IInv'
<1> DEFINE x == <<d, "locked">>
           t == [Nothing EXCEPT !.kind = "replace", !.request = r]
<1>1. /\ Idle(x) /\ x \in Slots /\ x = <<Doc(x), "locked">>
      /\ ops[r] = None /\ \A y \in Slots : task[y] # None => task[y].request # r
      /\ UNCHANGED <<files, graced, rows, versions, ops, forgotten, gate, starting, restarts>>
  BY DEF Replace, Idle, Doc
<1>2. PICK s \in Scenes :
        \/ \E v \in Committed :
            Start(x, [t EXCEPT !.step = "pin", !.scene = s, !.target = versions[v].scene])
        \/ \E s2 \in Scenes :
            Start(x, [t EXCEPT !.step = "put", !.scene = s, !.target = s2, !.left = Refs(s)])
  BY DEF Replace
<1>3. CASE \E v \in Committed :
             Start(x, [t EXCEPT !.step = "pin", !.scene = s, !.target = versions[v].scene])
  <2>1. PICK v \in Committed :
          Start(x, [t EXCEPT !.step = "pin", !.scene = s, !.target = versions[v].scene])
    BY <1>3
  <2>2. versions[v].scene \in Scenes
    BY VersionTyped DEF IInv, Committed, Version
  <2> DEFINE u == [t EXCEPT !.step = "pin", !.scene = s, !.target = versions[v].scene]
  <2>3. /\ u \in Task /\ u.kind = "replace" /\ u.step = "pin" /\ u.scene = s
        /\ u.target = versions[v].scene /\ u.request = r
    BY <2>2 DEF Nothing, Task, Steps
  <2> HIDE DEF u, x
  <2> QED
    BY <1>1, <2>1, <2>2, <2>3, StartKeeps DEF u
<1>4. CASE \E s2 \in Scenes :
             Start(x, [t EXCEPT !.step = "put", !.scene = s, !.target = s2, !.left = Refs(s)])
  <2>1. PICK s2 \in Scenes :
          Start(x, [t EXCEPT !.step = "put", !.scene = s, !.target = s2, !.left = Refs(s)])
    BY <1>4
  <2> DEFINE u == [t EXCEPT !.step = "put", !.scene = s, !.target = s2, !.left = Refs(s)]
  <2>2. /\ u \in Task /\ u.kind = "replace" /\ u.step = "put" /\ u.scene = s
        /\ u.target = s2 /\ u.request = r
    BY RefsAreObjects DEF Nothing, Task, Steps
  <2> HIDE DEF u, x
  <2> QED
    BY <1>1, <2>1, <2>2, StartKeeps DEF u
<1> QED
  BY <1>2, <1>3, <1>4

-----------------------------------------------------------------------------
(* A task goes on, or ends. *)

\* A step of x, and what it leaves to the other tasks.
LEMMA TasksMove ==
    ASSUME IInv, NEW x \in Slots, task[x] # None,
           \A y \in Slots : y # x => task'[y] = task[y] /\ hydrationPins'[y] = hydrationPins[y],
           \/ task'[x] = None
           \/ /\ task'[x].kind = task[x].kind /\ task'[x].request = task[x].request
              /\ KnowsItsPart(x)' /\ FollowsItsOperation(x)' /\ ReadsWhatIsPinned(x)',
           \A y \in Slots : y # x /\ task[y] # None /\ task[y].kind = "replace" =>
               /\ ops'[task[y].request] = ops[task[y].request]
               /\ operationPins'[task[y].request] = operationPins[task[y].request],
           files \cap Live \subseteq files',
           starting' = starting
    PROVE  TasksStand' /\ RequestsAreOwn' /\ StartsAlone'
<1>1. TasksStand'
  <2> SUFFICES ASSUME NEW y \in Slots, task'[y] # None
               PROVE  KnowsItsPart(y)' /\ FollowsItsOperation(y)' /\ ReadsWhatIsPinned(y)'
    BY DEF TasksStand, KnowsItsPart, FollowsItsOperation, ReadsWhatIsPinned
  <2>1. CASE y = x
    BY <2>1
  <2>2. CASE y # x
    <3>1. task'[y] = task[y] /\ hydrationPins'[y] = hydrationPins[y] /\ task[y] # None
      BY <2>2
    <3>2. \A r \in Requests : operationPins[r] \subseteq Live
      BY DEF Live
    <3>3. hydrationPins[y] \subseteq Live
      BY DEF Live
    <3> QED
      BY <2>2, <3>1, <3>2, <3>3, TaskStays
  <2> QED
    BY <2>1, <2>2
<1>2. RequestsAreOwn'
  BY RequestsStay
<1>3. StartsAlone'
  BY DEF IInv, StartsAlone
<1> QED
  BY <1>1, <1>2, <1>3

\* The other replacements are about other requests.
LEMMA OthersRequests ==
    ASSUME IInv, NEW x \in Slots, task[x] # None, task[x].kind = "replace",
           \A r \in Requests : r # task[x].request =>
               ops'[r] = ops[r] /\ operationPins'[r] = operationPins[r]
    PROVE  \A y \in Slots : y # x /\ task[y] # None /\ task[y].kind = "replace" =>
               /\ ops'[task[y].request] = ops[task[y].request]
               /\ operationPins'[task[y].request] = operationPins[task[y].request]
<1> SUFFICES ASSUME NEW y \in Slots, y # x, task[y] # None, task[y].kind = "replace"
             PROVE  /\ ops'[task[y].request] = ops[task[y].request]
                    /\ operationPins'[task[y].request] = operationPins[task[y].request]
  OBVIOUS
<1>1. task[y].request \in Requests
  BY DEF IInv, TasksStand, KnowsItsPart
<1>2. task[y].request # task[x].request
  BY DEF IInv, RequestsAreOwn
<1> QED
  BY <1>1, <1>2

LEMMA EndFacts ==
    ASSUME TypeOK, NEW x \in Slots, End(x)
    PROVE  /\ task' \in [Slots -> Task \cup {None}] /\ task'[x] = None
           /\ hydrationPins' \in [Slots -> SUBSET Objects]
           /\ \A y \in Slots : y # x => task'[y] = task[y] /\ hydrationPins'[y] = hydrationPins[y]
BY DEF TypeOK, End

LEMMA StepFacts ==
    ASSUME TypeOK, NEW x \in Slots, task[x] # None, NEW s \in Steps, Step(x, s)
    PROVE  /\ task' \in [Slots -> Task \cup {None}] /\ task'[x] # None
           /\ task'[x].step = s
           /\ task'[x].kind = task[x].kind /\ task'[x].request = task[x].request
           /\ task'[x].scene = task[x].scene /\ task'[x].target = task[x].target
           /\ task'[x].version = task[x].version /\ task'[x].left = task[x].left
           /\ task'[x].known = task[x].known
           /\ \A y \in Slots : y # x => task'[y] = task[y]
<1>1. task[x] \in Task
  BY TaskTyped
<1>2. [task[x] EXCEPT !.step = s] \in Task
  BY <1>1 DEF Task
<1> QED
  BY <1>1, <1>2, NoneIsNoRecord DEF TypeOK, Step, Task

\* What is left of a command that ends without an effect on the history.
LEMMA EndKeeps ==
    ASSUME IInv, NEW x \in Slots, task[x] # None, End(x),
           UNCHANGED <<files, graced, rows, versions, ops, forgotten, committed, operationPins,
                       starting, restarts>>
    PROVE  IInv'
<1>1. /\ task' \in [Slots -> Task \cup {None}] /\ task'[x] = None
      /\ hydrationPins' \in [Slots -> SUBSET Objects]
      /\ \A y \in Slots : y # x => task'[y] = task[y] /\ hydrationPins'[y] = hydrationPins[y]
  BY EndFacts DEF IInv
<1>2. TypeOK'
  BY <1>1 DEF IInv, TypeOK
<1>3. TasksStand' /\ RequestsAreOwn' /\ StartsAlone'
  BY <1>1, TasksMove
<1>4. GateFollows' /\ ScenesStand' /\ TargetsStand' /\ TargetsPinned' /\ ProtectionsBelong'
  BY DEF IInv, GateFollows, VersionReferences, ScenesStand, Committed, TargetsStand, TargetsPinned,
         ProtectionsBelong
<1>5. BeginningsBelong'
  BY <1>1 DEF IInv, BeginningsBelong, Doc
<1> QED
  BY <1>2, <1>3, <1>4, <1>5 DEF IInv

LEMMA AcquireHydrationPinKeeps ==
    ASSUME IInv, NEW x \in Slots, AcquireHydrationPin(x)
    PROVE  IInv'
<1> DEFINE found == Refs(task[x].target) \cap files
<1>1. /\ task[x] # None /\ task[x].step = "pin" /\ task[x] \in Task
      /\ KnowsItsPart(x) /\ FollowsItsOperation(x) /\ task[x].target \in Scenes
  BY TaskTyped DEF IInv, AcquireHydrationPin, At, TasksStand, KnowsItsPart
<1>2. Refs(task[x].target) \subseteq Objects
  BY <1>1, RefsAreObjects
<1>3. /\ task' = [task EXCEPT ![x].step = "read", ![x].known = found]
      /\ hydrationPins' = [hydrationPins EXCEPT ![x] = Refs(task[x].target)]
      /\ UNCHANGED <<files, graced, rows, versions, ops, forgotten, committed, operationPins,
                     starting, restarts>>
  BY DEF AcquireHydrationPin
<1>4. /\ [task[x] EXCEPT !.step = "read", !.known = found] \in Task
      /\ hydrationPins' \in [Slots -> SUBSET Objects] /\ hydrationPins'[x] = Refs(task[x].target)
      /\ \A y \in Slots : y # x => hydrationPins'[y] = hydrationPins[y]
  BY <1>1, <1>2, <1>3 DEF IInv, TypeOK, Task, Steps
<1>5. /\ task' \in [Slots -> Task \cup {None}] /\ task'[x] # None
      /\ task'[x].step = "read" /\ task'[x].known = found
      /\ task'[x].kind = task[x].kind /\ task'[x].request = task[x].request
      /\ task'[x].scene = task[x].scene /\ task'[x].target = task[x].target
      /\ \A y \in Slots : y # x => task'[y] = task[y]
  BY <1>1, <1>3, <1>4, NoneIsNoRecord DEF IInv, TypeOK, Task
<1>6. TypeOK'
  BY <1>3, <1>4, <1>5 DEF IInv, TypeOK
<1>7. KnowsItsPart(x)' /\ FollowsItsOperation(x)' /\ ReadsWhatIsPinned(x)'
  BY <1>1, <1>3, <1>4, <1>5 DEF KnowsItsPart, FollowsItsOperation, ReadsWhatIsPinned, Begun
<1>8. TasksStand' /\ RequestsAreOwn' /\ StartsAlone'
  BY <1>1, <1>3, <1>4, <1>5, <1>7, TasksMove
<1>9. GateFollows' /\ ScenesStand' /\ TargetsStand' /\ TargetsPinned' /\ ProtectionsBelong'
  BY <1>3 DEF IInv, GateFollows, VersionReferences, ScenesStand, Committed, TargetsStand,
              TargetsPinned, ProtectionsBelong
<1>10. BeginningsBelong'
  BY <1>3, <1>5 DEF IInv, BeginningsBelong, Doc
<1> QED
  BY <1>6, <1>8, <1>9, <1>10 DEF IInv

LEMMA ReadPinnedKeeps ==
    ASSUME IInv, NEW x \in Slots, ReadPinned(x)
    PROVE  IInv'
<1>1. /\ task[x] # None /\ task[x].step = "read" /\ task[x] \in Task
      /\ KnowsItsPart(x) /\ FollowsItsOperation(x)
      /\ UNCHANGED <<files, graced, rows, versions, ops, forgotten, committed, operationPins,
                     starting, restarts>>
  BY TaskTyped DEF IInv, ReadPinned, At, TasksStand
<1>2. CASE task[x].kind = "replace" /\ Refs(task[x].target) \subseteq files
  <2>1. task[x].scene \in Scenes /\ Refs(task[x].scene) \subseteq Objects
    BY <1>1, <1>2, RefsAreObjects DEF KnowsItsPart
  <2>2. /\ task' = [task EXCEPT ![x].step = "put", ![x].left = Refs(task[x].scene)]
        /\ UNCHANGED hydrationPins
    BY <1>2 DEF ReadPinned
  <2>3. [task[x] EXCEPT !.step = "put", !.left = Refs(task[x].scene)] \in Task
    BY <1>1, <2>1 DEF Task, Steps
  <2>4. /\ task' \in [Slots -> Task \cup {None}] /\ task'[x] # None
        /\ task'[x].step = "put"
        /\ task'[x].kind = task[x].kind /\ task'[x].request = task[x].request
        /\ task'[x].scene = task[x].scene /\ task'[x].target = task[x].target
        /\ \A y \in Slots : y # x => task'[y] = task[y]
    BY <1>1, <2>2, <2>3, NoneIsNoRecord DEF IInv, TypeOK, Task
  <2>5. TypeOK'
    BY <1>1, <2>2, <2>4 DEF IInv, TypeOK
  <2>6. KnowsItsPart(x)' /\ FollowsItsOperation(x)' /\ ReadsWhatIsPinned(x)'
    BY <1>1, <2>1, <2>4 DEF KnowsItsPart, FollowsItsOperation, ReadsWhatIsPinned, Begun
  <2>7. TasksStand' /\ RequestsAreOwn' /\ StartsAlone'
    BY <1>1, <2>2, <2>4, <2>6, TasksMove
  <2>8. GateFollows' /\ ScenesStand' /\ TargetsStand' /\ TargetsPinned' /\ ProtectionsBelong'
    BY <1>1 DEF IInv, GateFollows, VersionReferences, ScenesStand, Committed, TargetsStand,
                TargetsPinned, ProtectionsBelong
  <2>9. BeginningsBelong'
    BY <1>1, <2>4 DEF IInv, BeginningsBelong, Doc
  <2> QED
    BY <2>5, <2>7, <2>8, <2>9 DEF IInv
<1>3. CASE ~(task[x].kind = "replace" /\ Refs(task[x].target) \subseteq files)
  BY <1>1, <1>3, EndKeeps DEF ReadPinned
<1> QED
  BY <1>2, <1>3

LEMMA PublishFailsKeeps ==
    ASSUME IInv, NEW x \in Slots, PublishFails(x)
    PROVE  IInv'
BY EndKeeps DEF PublishFails, At

-----------------------------------------------------------------------------
(* Objects and versions. *)

LEMMA PutObjectKeeps ==
    ASSUME IInv, NEW x \in Slots, PutObject(x)
    PROVE  IInv'
<1>1. /\ task[x] # None /\ task[x].step \in {"put", "resolve"} /\ task[x] \in Task
      /\ KnowsItsPart(x) /\ FollowsItsOperation(x)
      /\ UNCHANGED <<rows, versions, ops, forgotten, committed, operationPins, hydrationPins,
                     starting, restarts>>
  BY TaskTyped DEF IInv, PutObject, At, TasksStand, gate
<1>2. PICK o \in task[x].left :
        /\ files' = files \cup {o}
        /\ graced' = IF o \in files \cup rows THEN graced ELSE graced \cup {o}
        /\ task' = [task EXCEPT ![x].left = @ \ {o},
                                ![x].step = IF @ = "resolve" /\ task[x].left = {o}
                                              THEN "restorePin" ELSE @]
  BY DEF PutObject
<1>3. o \in Objects
  BY <1>1 DEF Task
<1> DEFINE next == IF task[x].step = "resolve" /\ task[x].left = {o} THEN "restorePin"
                   ELSE task[x].step
           t == [task[x] EXCEPT !.left = @ \ {o}, !.step = next]
<1>4. t \in Task
  BY <1>1 DEF Task, Steps
<1>5. task' = [task EXCEPT ![x] = t]
  BY <1>1, <1>2 DEF IInv, TypeOK, Task
<1>6. /\ t.step = next /\ t.kind = task[x].kind /\ t.request = task[x].request
      /\ t.scene = task[x].scene /\ t.target = task[x].target
  BY <1>1 DEF Task
<1>7. /\ task' \in [Slots -> Task \cup {None}] /\ task'[x] = t /\ t # None
      /\ \A y \in Slots : y # x => task'[y] = task[y]
  BY <1>4, <1>5, NoneIsNoRecord DEF IInv, TypeOK
<1>8. TypeOK'
  BY <1>1, <1>2, <1>3, <1>7 DEF IInv, TypeOK
<1>9. next \in {"put", "resolve", "restorePin"} /\ (next = "put" <=> task[x].step = "put")
  BY <1>1
<1> HIDE DEF t, next
<1>10. KnowsItsPart(x)' /\ FollowsItsOperation(x)' /\ ReadsWhatIsPinned(x)'
  BY <1>1, <1>6, <1>7, <1>9 DEF KnowsItsPart, FollowsItsOperation, ReadsWhatIsPinned, Begun
<1>11. TasksStand' /\ RequestsAreOwn' /\ StartsAlone'
  BY <1>1, <1>2, <1>6, <1>7, <1>10, TasksMove
<1>12. GateFollows' /\ ScenesStand' /\ TargetsStand' /\ TargetsPinned' /\ ProtectionsBelong'
  BY <1>1, <1>2 DEF IInv, GateFollows, VersionReferences, ScenesStand, Committed, TargetsStand,
                    TargetsPinned, ProtectionsBelong
<1>13. BeginningsBelong'
  BY <1>1, <1>6, <1>7, <1>9 DEF IInv, BeginningsBelong, Doc
<1> QED
  BY <1>8, <1>11, <1>12, <1>13 DEF IInv

LEMMA VersionReferencesTyped ==
    ASSUME TypeOK, NEW v \in Ids
    PROVE  VersionReferences(v) \subseteq Objects
<1>1. CASE versions[v] = None
  BY <1>1 DEF VersionReferences
<1>2. CASE versions[v] # None
  BY <1>2, VersionTyped, RefsAreObjects DEF VersionReferences, Version
<1> QED
  BY <1>1, <1>2

\* What a mutation under the gate leaves of tables and gate when it only takes
\* versions out.
LEMMA PruneFacts ==
    ASSUME IInv, NEW gone,
           NEW table \in [Ids -> Version \cup {None}],
           \A v \in Ids : /\ table[v] = None <=> versions[v] = None
                          /\ table[v] # None => /\ table[v].doc = versions[v].doc
                                                /\ table[v].scene = versions[v].scene,
           versions' = Without(table, gone, None),
           committed' = Without(committed, gone, {}),
           files' = files
    PROVE  /\ versions' \in [Ids -> Version \cup {None}]
           /\ committed' \in [Ids -> SUBSET Objects]
           /\ GateFollows' /\ ScenesStand'
           /\ \A v \in Ids : \/ versions'[v] = None
                             \/ versions[v] # None /\ versions'[v].doc = versions[v].doc
<1>1. \A v \in Ids : /\ versions'[v] = IF v \in gone THEN None ELSE table[v]
                     /\ committed'[v] = IF v \in gone THEN {} ELSE committed[v]
  BY DEF Without
<1>2. versions' \in [Ids -> Version \cup {None}]
  BY DEF Without
<1>3. committed' \in [Ids -> SUBSET Objects]
  BY DEF IInv, TypeOK, Without
<1>4. GateFollows'
  BY <1>1 DEF IInv, GateFollows, VersionReferences
<1>5. ScenesStand'
  BY <1>1 DEF IInv, ScenesStand, Committed
<1> QED
  BY <1>1, <1>2, <1>3, <1>4, <1>5

\* The table of a new version.
LEMMA WithVersionFacts ==
    ASSUME TypeOK, NEW x \in Slots, task[x].scene \in Scenes, Fresh # {},
           NEW source \in Sources, NEW marked \in BOOLEAN
    PROVE  /\ WithVersion(x, source, marked) \in [Ids -> Version \cup {None}]
           /\ WithVersion(x, source, marked)[NextId] # None
           /\ WithVersion(x, source, marked)[NextId].scene = task[x].scene
           /\ WithVersion(x, source, marked)[NextId].doc = Doc(x)
           /\ \A v \in Ids : v # NextId => WithVersion(x, source, marked)[v] = versions[v]
<1> DEFINE new == [doc |-> Doc(x), scene |-> task[x].scene, source |-> source, marked |-> marked]
<1>1. new \in Version
  BY SlotTyped DEF Version
<1>2. new # None
  BY <1>1, NoneIsNoRecord
<1>3. NextId \in Ids
  BY NextIdIsFresh
<1> QED
  BY <1>1, <1>2, <1>3 DEF WithVersion, TypeOK

LEMMA CommitFacts ==
    ASSUME IInv, NEW x \in Slots, task[x].scene \in Scenes, task[x].scene \in files, Fresh # {},
           NEW source \in Sources, NEW marked \in BOOLEAN, NEW gone,
           CommitVersion(x, WithVersion(x, source, marked), gone),
           files' = files
    PROVE  /\ versions' \in [Ids -> Version \cup {None}]
           /\ committed' \in [Ids -> SUBSET Objects]
           /\ rows' \subseteq Objects /\ graced' \subseteq files' \ rows'
           /\ GateFollows' /\ ScenesStand'
           /\ \A v \in Ids : \/ versions'[v] = None
                             \/ v \in Fresh
                             \/ versions[v] # None /\ versions'[v].doc = versions[v].doc
           /\ versions'[NextId] = None \/ versions'[NextId].doc = Doc(x)
<1> DEFINE table == WithVersion(x, source, marked)
           refs == [committed EXCEPT ![NextId] = Refs(task[x].scene)]
<1>1. /\ table \in [Ids -> Version \cup {None}]
      /\ table[NextId] # None /\ table[NextId].scene = task[x].scene /\ table[NextId].doc = Doc(x)
      /\ \A v \in Ids : v # NextId => table[v] = versions[v]
  BY WithVersionFacts DEF IInv
<1>2. NextId \in Ids /\ NextId \in Fresh /\ Refs(task[x].scene) \subseteq Objects
  BY NextIdIsFresh, RefsAreObjects
<1> HIDE DEF table
<1>3. /\ rows' = rows \cup Refs(task[x].scene)
      /\ graced' = graced \ rows'
      /\ versions' = Without(table, gone, None)
      /\ committed' = Without(refs, gone, {})
  BY DEF CommitVersion, table
<1>4. /\ refs \in [Ids -> SUBSET Objects]
      /\ refs[NextId] = Refs(task[x].scene)
      /\ \A v \in Ids : v # NextId => refs[v] = committed[v]
  BY <1>2 DEF IInv, TypeOK
<1> HIDE DEF refs
<1>5. \A v \in Ids : /\ versions'[v] = IF v \in gone THEN None ELSE table[v]
                     /\ committed'[v] = IF v \in gone THEN {} ELSE refs[v]
  BY <1>3 DEF Without
<1>6. versions' \in [Ids -> Version \cup {None}] /\ committed' \in [Ids -> SUBSET Objects]
  BY <1>1, <1>3, <1>4 DEF Without
<1>7. rows' \subseteq Objects /\ graced' \subseteq files' \ rows'
  BY <1>2, <1>3 DEF IInv, TypeOK
<1>8. GateFollows'
  BY <1>1, <1>4, <1>5 DEF IInv, GateFollows, VersionReferences
<1>9. ScenesStand'
  BY <1>1, <1>5 DEF IInv, ScenesStand, Committed
<1> QED
  BY <1>1, <1>2, <1>5, <1>6, <1>7, <1>8, <1>9

LEMMA PublishAutomaticKeeps ==
    ASSUME IInv, NEW x \in Slots, PublishAutomatic(x)
    PROVE  IInv'
<1> DEFINE table == WithVersion(x, "automatic", FALSE)
<1>1. /\ task[x] # None /\ task[x].step = "put" /\ task[x].scene \in Scenes
      /\ task[x].scene \in files /\ Fresh # {}
      /\ CommitVersion(x, table, PruneUnmarked(table, Doc(x)))
      /\ End(x)
      /\ UNCHANGED <<files, ops, forgotten, operationPins, starting, restarts>>
  BY DEF IInv, PublishAutomatic, Publishes, At, TasksStand, KnowsItsPart
<1>2. "automatic" \in Sources
  BY DEF Sources
<1>3. /\ versions' \in [Ids -> Version \cup {None}]
      /\ committed' \in [Ids -> SUBSET Objects]
      /\ rows' \subseteq Objects /\ graced' \subseteq files' \ rows'
      /\ GateFollows' /\ ScenesStand'
      /\ \A v \in Ids : \/ versions'[v] = None
                        \/ v \in Fresh
                        \/ versions[v] # None /\ versions'[v].doc = versions[v].doc
  BY <1>1, <1>2, CommitFacts
<1>4. /\ task' \in [Slots -> Task \cup {None}] /\ task'[x] = None
      /\ hydrationPins' \in [Slots -> SUBSET Objects]
      /\ \A y \in Slots : y # x => task'[y] = task[y] /\ hydrationPins'[y] = hydrationPins[y]
  BY <1>1, EndFacts DEF IInv
<1>5. TypeOK'
  BY <1>1, <1>3, <1>4 DEF IInv, TypeOK
<1>6. TasksStand' /\ RequestsAreOwn' /\ StartsAlone'
  BY <1>1, <1>4, TasksMove
<1>7. TargetsStand' /\ TargetsPinned'
  BY <1>1 DEF IInv, TargetsStand, TargetsPinned
<1>8. ProtectionsBelong'
  BY <1>1, <1>3, ProtectionsStay
<1>9. BeginningsBelong'
  BY <1>3, <1>4, BeginningsStay
<1> QED
  BY <1>3, <1>5, <1>6, <1>7, <1>8, <1>9 DEF IInv

LEMMA PublishMarkKeeps ==
    ASSUME IInv, NEW x \in Slots, PublishMark(x)
    PROVE  IInv'
<1>1. /\ task[x] # None /\ task[x].step = "put" /\ task[x].scene \in Scenes
      /\ task[x].scene \in files /\ Fresh # {}
      /\ End(x)
      /\ UNCHANGED <<files, ops, forgotten, operationPins, starting, restarts>>
  BY DEF IInv, PublishMark, Publishes, At, TasksStand, KnowsItsPart
<1>2. CASE ReusableMarked(Doc(x), task[x].scene) # {}
  BY <1>1, <1>2, EndKeeps DEF PublishMark
<1>3. CASE ReusableMarked(Doc(x), task[x].scene) = {}
  <2>1. CommitVersion(x, WithVersion(x, "manual", TRUE), {})
    BY <1>3 DEF PublishMark
  <2>2. "manual" \in Sources
    BY DEF Sources
  <2>3. /\ versions' \in [Ids -> Version \cup {None}]
        /\ committed' \in [Ids -> SUBSET Objects]
        /\ rows' \subseteq Objects /\ graced' \subseteq files' \ rows'
        /\ GateFollows' /\ ScenesStand'
        /\ \A v \in Ids : \/ versions'[v] = None
                          \/ v \in Fresh
                          \/ versions[v] # None /\ versions'[v].doc = versions[v].doc
    BY <1>1, <2>1, <2>2, CommitFacts
  <2>4. /\ task' \in [Slots -> Task \cup {None}] /\ task'[x] = None
        /\ hydrationPins' \in [Slots -> SUBSET Objects]
        /\ \A y \in Slots : y # x => task'[y] = task[y] /\ hydrationPins'[y] = hydrationPins[y]
    BY <1>1, EndFacts DEF IInv
  <2>5. TypeOK'
    BY <1>1, <2>3, <2>4 DEF IInv, TypeOK
  <2>6. TasksStand' /\ RequestsAreOwn' /\ StartsAlone'
    BY <1>1, <2>4, TasksMove
  <2>7. TargetsStand' /\ TargetsPinned'
    BY <1>1 DEF IInv, TargetsStand, TargetsPinned
  <2>8. ProtectionsBelong'
    BY <1>1, <2>3, ProtectionsStay
  <2>9. BeginningsBelong'
    BY <2>3, <2>4, BeginningsStay
  <2> QED
    BY <2>3, <2>5, <2>6, <2>7, <2>8, <2>9 DEF IInv
<1> QED
  BY <1>2, <1>3

LEMMA PublishSnapshotKeeps ==
    ASSUME IInv, NEW x \in Slots, PublishSnapshot(x)
    PROVE  IInv'
<1> DEFINE table == WithVersion(x, "protected", FALSE)
<1>1. /\ task[x] # None /\ task[x].step = "put" /\ task[x].scene \in Scenes
      /\ task[x].kind = "replace" /\ task[x] \in Task
      /\ KnowsItsPart(x) /\ FollowsItsOperation(x)
      /\ task[x].scene \in files /\ Fresh # {}
      /\ CommitVersion(x, table, PruneSnapshot(table, Doc(x)))
      /\ task' = [task EXCEPT ![x].step = "begin", ![x].version = NextId]
      /\ UNCHANGED <<files, ops, forgotten, operationPins, hydrationPins, starting, restarts>>
  BY TaskTyped DEF IInv, PublishSnapshot, Publishes, At, TasksStand, KnowsItsPart
<1>2. "protected" \in Sources /\ NextId \in Ids
  BY <1>1, NextIdIsFresh DEF Sources
<1>3. /\ versions' \in [Ids -> Version \cup {None}]
      /\ committed' \in [Ids -> SUBSET Objects]
      /\ rows' \subseteq Objects /\ graced' \subseteq files' \ rows'
      /\ GateFollows' /\ ScenesStand'
      /\ \A v \in Ids : \/ versions'[v] = None
                        \/ v \in Fresh
                        \/ versions[v] # None /\ versions'[v].doc = versions[v].doc
      /\ versions'[NextId] = None \/ versions'[NextId].doc = Doc(x)
  BY <1>1, <1>2, CommitFacts
<1>4. [task[x] EXCEPT !.step = "begin", !.version = NextId] \in Task
  BY <1>1, <1>2 DEF Task, Steps
<1>5. /\ task' \in [Slots -> Task \cup {None}] /\ task'[x] # None
      /\ task'[x].step = "begin" /\ task'[x].version = NextId
      /\ task'[x].kind = task[x].kind /\ task'[x].request = task[x].request
      /\ task'[x].scene = task[x].scene /\ task'[x].target = task[x].target
      /\ \A y \in Slots : y # x => task'[y] = task[y]
  BY <1>1, <1>4, NoneIsNoRecord DEF IInv, TypeOK, Task
<1>6. TypeOK'
  BY <1>1, <1>3, <1>5 DEF IInv, TypeOK
<1>7. KnowsItsPart(x)' /\ FollowsItsOperation(x)' /\ ReadsWhatIsPinned(x)'
  BY <1>1, <1>2, <1>5 DEF KnowsItsPart, FollowsItsOperation, ReadsWhatIsPinned, Begun
<1>8. TasksStand' /\ RequestsAreOwn' /\ StartsAlone'
  BY <1>1, <1>5, <1>7, TasksMove
<1>9. TargetsStand' /\ TargetsPinned'
  BY <1>1 DEF IInv, TargetsStand, TargetsPinned
<1>10. ProtectionsBelong'
  BY <1>1, <1>3, ProtectionsStay
<1>11. BeginningsBelong'
  <2> SUFFICES ASSUME NEW y \in Slots, task'[y] # None, task'[y].step = "begin"
               PROVE  versions'[task'[y].version] = None
                      \/ versions'[task'[y].version].doc = Doc(y)
    BY DEF BeginningsBelong, Doc
  <2>1. CASE y = x
    BY <1>3, <1>5, <2>1
  <2>2. CASE y # x
    <3>1. task'[y] = task[y] /\ task[y].version \in Ids
      BY <1>5, <2>2 DEF IInv, TasksStand, KnowsItsPart
    <3>2. task[y].version \notin Fresh
      BY <3>1 DEF Fresh
    <3> QED
      BY <1>3, <3>1, <3>2 DEF IInv, BeginningsBelong
  <2> QED
    BY <2>1, <2>2
<1> QED
  BY <1>3, <1>6, <1>8, <1>9, <1>10, <1>11 DEF IInv

-----------------------------------------------------------------------------
(* The operation of a replacement. *)

LEMMA BeginOperationKeeps ==
    ASSUME IInv, NEW x \in Slots, BeginOperation(x)
    PROVE  IInv'
<1> DEFINE r == task[x].request
           new == [doc |-> Doc(x), protection |-> task[x].version, target |-> None, state |-> "open"]
<1>1. /\ task[x] # None /\ task[x].step = "begin" /\ task[x] \in Task
      /\ KnowsItsPart(x) /\ FollowsItsOperation(x)
      /\ ops' = [ops EXCEPT ![r] = new]
      /\ operationPins' = [operationPins EXCEPT ![r] = Refs(task[x].scene)]
      /\ task' = [task EXCEPT ![x].step = "resolve", ![x].left = Refs(task[x].target)]
      /\ UNCHANGED <<files, graced, rows, versions, forgotten, committed, hydrationPins, starting,
                     restarts>>
  BY TaskTyped DEF IInv, BeginOperation, At, TasksStand
<1>2. /\ task[x].kind = "replace" /\ r \in Requests /\ ops[r] = None
      /\ task[x].scene \in Scenes /\ task[x].target \in Scenes /\ task[x].version \in Ids
  BY <1>1 DEF KnowsItsPart, FollowsItsOperation, Begun
<1>3. Refs(task[x].scene) \subseteq Objects /\ Refs(task[x].target) \subseteq Objects
  BY <1>2, RefsAreObjects
<1>4. new \in Operation /\ new # None
  BY <1>2, SlotTyped, NoneIsNoRecord DEF Operation
<1>5. /\ ops' \in [Requests -> Operation \cup {None}]
      /\ ops'[r] = new /\ \A q \in Requests : q # r => ops'[q] = ops[q]
  BY <1>1, <1>2, <1>4 DEF IInv, TypeOK
<1>6. /\ operationPins' \in [Requests -> SUBSET Objects]
      /\ \A q \in Requests : q # r => operationPins'[q] = operationPins[q]
  BY <1>1, <1>3 DEF IInv, TypeOK
<1>7. [task[x] EXCEPT !.step = "resolve", !.left = Refs(task[x].target)] \in Task
  BY <1>1, <1>3 DEF Task, Steps
<1>8. /\ task' \in [Slots -> Task \cup {None}] /\ task'[x] # None
      /\ task'[x].step = "resolve"
      /\ task'[x].kind = task[x].kind /\ task'[x].request = task[x].request
      /\ task'[x].scene = task[x].scene /\ task'[x].target = task[x].target
      /\ \A y \in Slots : y # x => task'[y] = task[y]
  BY <1>1, <1>7, NoneIsNoRecord DEF IInv, TypeOK, Task
<1>9. TypeOK'
  BY <1>1, <1>5, <1>6, <1>8 DEF IInv, TypeOK
<1>10. KnowsItsPart(x)' /\ FollowsItsOperation(x)' /\ ReadsWhatIsPinned(x)'
  BY <1>1, <1>2, <1>4, <1>5, <1>8 DEF KnowsItsPart, FollowsItsOperation, ReadsWhatIsPinned, Begun
<1>11. TasksStand' /\ RequestsAreOwn' /\ StartsAlone'
  <2>1. \A y \in Slots : y # x /\ task[y] # None /\ task[y].kind = "replace" =>
            /\ ops'[task[y].request] = ops[task[y].request]
            /\ operationPins'[task[y].request] = operationPins[task[y].request]
    BY <1>1, <1>2, <1>5, <1>6, OthersRequests
  <2> QED
    BY <1>1, <1>8, <1>10, <2>1, TasksMove
<1>12. GateFollows' /\ ScenesStand'
  BY <1>1 DEF IInv, GateFollows, VersionReferences, ScenesStand, Committed
<1>13. TargetsStand' /\ TargetsPinned'
  <2> SUFFICES ASSUME NEW q \in Requests, ops'[q] # None, ops'[q].target # None,
                      ops'[q].state \in {"open", "completed"}
               PROVE  Refs(ops'[q].target) \subseteq files' \cap operationPins'[q]
    BY DEF TargetsStand, TargetsPinned, Refs
  <2>1. q # r
    BY <1>5
  <2> QED
    BY <1>1, <1>5, <1>6, <2>1 DEF IInv, TargetsStand, TargetsPinned
<1>14. ProtectionsBelong'
  BY <1>1, <1>5 DEF IInv, ProtectionsBelong, BeginningsBelong
<1>15. BeginningsBelong'
  BY <1>1, <1>8 DEF IInv, BeginningsBelong, Doc
<1> QED
  BY <1>9, <1>11, <1>12, <1>13, <1>14, <1>15 DEF IInv

LEMMA RestoreOperationPinKeeps ==
    ASSUME IInv, NEW x \in Slots, RestoreOperationPin(x)
    PROVE  IInv'
<1> DEFINE r == task[x].request
           refs == Refs(task[x].scene) \cup Refs(task[x].target)
<1>1. /\ task[x] # None /\ task[x].step = "restorePin" /\ task[x] \in Task
      /\ KnowsItsPart(x) /\ FollowsItsOperation(x)
      /\ operationPins' = [operationPins EXCEPT ![r] = refs]
      /\ Step(x, "register")
      /\ UNCHANGED <<files, graced, rows, versions, ops, forgotten, committed, hydrationPins,
                     starting, restarts>>
  BY TaskTyped DEF IInv, RestoreOperationPin, At, TasksStand
<1>2. /\ task[x].kind = "replace" /\ r \in Requests
      /\ ops[r] # None /\ ops[r].state = "open" /\ ops[r].target = None
      /\ task[x].scene \in Scenes /\ task[x].target \in Scenes
  BY <1>1 DEF KnowsItsPart, FollowsItsOperation, Begun
<1>3. refs \subseteq Objects
  BY <1>2, RefsAreObjects
<1>4. /\ operationPins' \in [Requests -> SUBSET Objects] /\ operationPins'[r] = refs
      /\ \A q \in Requests : q # r => operationPins'[q] = operationPins[q]
  BY <1>1, <1>2, <1>3 DEF IInv, TypeOK
<1>5. "register" \in Steps
  BY DEF Steps
<1>6. /\ task' \in [Slots -> Task \cup {None}] /\ task'[x] # None
      /\ task'[x].step = "register"
      /\ task'[x].kind = task[x].kind /\ task'[x].request = task[x].request
      /\ task'[x].scene = task[x].scene /\ task'[x].target = task[x].target
      /\ \A y \in Slots : y # x => task'[y] = task[y]
  BY <1>1, <1>5, StepFacts DEF IInv
<1>7. TypeOK'
  BY <1>1, <1>4, <1>6 DEF IInv, TypeOK
<1>8. KnowsItsPart(x)' /\ FollowsItsOperation(x)' /\ ReadsWhatIsPinned(x)'
  BY <1>1, <1>2, <1>4, <1>6 DEF KnowsItsPart, FollowsItsOperation, ReadsWhatIsPinned, Begun
<1>9. TasksStand' /\ RequestsAreOwn' /\ StartsAlone'
  <2>1. \A y \in Slots : y # x /\ task[y] # None /\ task[y].kind = "replace" =>
            /\ ops'[task[y].request] = ops[task[y].request]
            /\ operationPins'[task[y].request] = operationPins[task[y].request]
    BY <1>1, <1>2, <1>4, OthersRequests
  <2> QED
    BY <1>1, <1>6, <1>8, <2>1, TasksMove
<1>10. GateFollows' /\ ScenesStand' /\ TargetsStand' /\ ProtectionsBelong'
  BY <1>1 DEF IInv, GateFollows, VersionReferences, ScenesStand, Committed, TargetsStand,
              ProtectionsBelong
<1>11. TargetsPinned'
  BY <1>1, <1>2, <1>4 DEF IInv, TargetsPinned
<1>12. BeginningsBelong'
  BY <1>1, <1>6 DEF IInv, BeginningsBelong, Doc
<1> QED
  BY <1>7, <1>9, <1>10, <1>11, <1>12 DEF IInv

LEMMA RegisterTargetKeeps ==
    ASSUME IInv, NEW x \in Slots, RegisterTarget(x)
    PROVE  IInv'
<1> DEFINE r == task[x].request
<1>1. /\ task[x] # None /\ task[x].step = "register" /\ task[x] \in Task
      /\ KnowsItsPart(x) /\ FollowsItsOperation(x)
      /\ Refs(task[x].target) \subseteq files
      /\ rows' = rows \cup Refs(task[x].target)
      /\ graced' = graced \ rows'
      /\ Step(x, "observe")
      /\ UNCHANGED <<files, versions, ops, forgotten, committed, operationPins, hydrationPins,
                     starting, restarts>>
  BY TaskTyped DEF IInv, RegisterTarget, At, TasksStand, gate
<1>2. /\ task[x].kind = "replace" /\ r \in Requests
      /\ ops[r] # None /\ ops[r].state = "open" /\ ops[r].target = None
      /\ task[x].scene \in Scenes /\ task[x].target \in Scenes
      /\ Refs(task[x].target) \subseteq operationPins[r]
  BY <1>1 DEF KnowsItsPart, FollowsItsOperation, Begun
<1>3. Refs(task[x].target) \subseteq Objects
  BY <1>2, RefsAreObjects
<1>4. "observe" \in Steps
  BY DEF Steps
<1>5. /\ task' \in [Slots -> Task \cup {None}] /\ task'[x] # None
      /\ task'[x].step = "observe"
      /\ task'[x].kind = task[x].kind /\ task'[x].request = task[x].request
      /\ task'[x].scene = task[x].scene /\ task'[x].target = task[x].target
      /\ \A y \in Slots : y # x => task'[y] = task[y]
  BY <1>1, <1>4, StepFacts DEF IInv
<1>6. TypeOK'
  BY <1>1, <1>3, <1>5 DEF IInv, TypeOK
<1>7. KnowsItsPart(x)' /\ FollowsItsOperation(x)' /\ ReadsWhatIsPinned(x)'
  BY <1>1, <1>2, <1>5 DEF KnowsItsPart, FollowsItsOperation, ReadsWhatIsPinned, Begun
<1>8. TasksStand' /\ RequestsAreOwn' /\ StartsAlone'
  BY <1>1, <1>5, <1>7, TasksMove
<1>9. GateFollows' /\ ScenesStand' /\ TargetsStand' /\ TargetsPinned' /\ ProtectionsBelong'
  BY <1>1 DEF IInv, GateFollows, VersionReferences, ScenesStand, Committed, TargetsStand,
              TargetsPinned, ProtectionsBelong
<1>10. BeginningsBelong'
  BY <1>1, <1>5 DEF IInv, BeginningsBelong, Doc
<1> QED
  BY <1>6, <1>8, <1>9, <1>10 DEF IInv

\* The state or the target of one operation row is set.
LEMMA OperationFacts ==
    ASSUME TypeOK, NEW r \in Requests, ops[r] # None
    PROVE  /\ ops[r] \in Operation
           /\ \A s \in {"open", "completed", "expired", "failed"} :
                ops' = [ops EXCEPT ![r].state = s] =>
                    /\ ops' \in [Requests -> Operation \cup {None}]
                    /\ ops'[r] # None /\ ops'[r].state = s /\ ops'[r].target = ops[r].target
                    /\ ops'[r].protection = ops[r].protection /\ ops'[r].doc = ops[r].doc
                    /\ \A q \in Requests : q # r => ops'[q] = ops[q]
           /\ \A s \in Scenes :
                ops' = [ops EXCEPT ![r].target = s] =>
                    /\ ops' \in [Requests -> Operation \cup {None}]
                    /\ ops'[r] # None /\ ops'[r].state = ops[r].state /\ ops'[r].target = s
                    /\ ops'[r].protection = ops[r].protection /\ ops'[r].doc = ops[r].doc
                    /\ \A q \in Requests : q # r => ops'[q] = ops[q]
<1>1. ops[r] \in Operation
  BY OperationTyped
<1>2. ASSUME NEW s \in {"open", "completed", "expired", "failed"},
             ops' = [ops EXCEPT ![r].state = s]
      PROVE  /\ ops' \in [Requests -> Operation \cup {None}]
             /\ ops'[r] # None /\ ops'[r].state = s /\ ops'[r].target = ops[r].target
             /\ ops'[r].protection = ops[r].protection /\ ops'[r].doc = ops[r].doc
             /\ \A q \in Requests : q # r => ops'[q] = ops[q]
  <2>1. [ops[r] EXCEPT !.state = s] \in Operation
    BY <1>1 DEF Operation
  <2> QED
    BY <1>1, <1>2, <2>1, NoneIsNoRecord DEF TypeOK, Operation
<1>3. ASSUME NEW s \in Scenes, ops' = [ops EXCEPT ![r].target = s]
      PROVE  /\ ops' \in [Requests -> Operation \cup {None}]
             /\ ops'[r] # None /\ ops'[r].state = ops[r].state /\ ops'[r].target = s
             /\ ops'[r].protection = ops[r].protection /\ ops'[r].doc = ops[r].doc
             /\ \A q \in Requests : q # r => ops'[q] = ops[q]
  <2>1. [ops[r] EXCEPT !.target = s] \in Operation
    BY <1>1 DEF Operation
  <2> QED
    BY <1>1, <1>3, <2>1, NoneIsNoRecord DEF TypeOK, Operation
<1> QED
  BY <1>1, <1>2, <1>3

LEMMA MarkTargetObservedKeeps ==
    ASSUME IInv, NEW x \in Slots, MarkTargetObserved(x)
    PROVE  IInv'
<1> DEFINE r == task[x].request
<1>1. /\ task[x] # None /\ task[x].step = "observe" /\ task[x] \in Task
      /\ KnowsItsPart(x) /\ FollowsItsOperation(x)
      /\ ops' = [ops EXCEPT ![r].target = task[x].target]
      /\ Step(x, "settle")
      /\ UNCHANGED <<files, graced, rows, versions, forgotten, committed, operationPins, hydrationPins,
                     starting, restarts>>
  BY TaskTyped DEF IInv, MarkTargetObserved, At, TasksStand, gate
<1>2. /\ task[x].kind = "replace" /\ r \in Requests
      /\ ops[r] # None /\ ops[r].state = "open"
      /\ task[x].scene \in Scenes /\ task[x].target \in Scenes
      /\ Refs(task[x].target) \subseteq operationPins[r] /\ Refs(task[x].target) \subseteq files
  BY <1>1 DEF KnowsItsPart, FollowsItsOperation, Begun
<1>3. /\ ops' \in [Requests -> Operation \cup {None}]
      /\ ops'[r] # None /\ ops'[r].state = ops[r].state /\ ops'[r].target = task[x].target
      /\ ops'[r].protection = ops[r].protection /\ ops'[r].doc = ops[r].doc
      /\ \A q \in Requests : q # r => ops'[q] = ops[q]
  BY <1>1, <1>2, OperationFacts DEF IInv
<1>4. "settle" \in Steps
  BY DEF Steps
<1>5. /\ task' \in [Slots -> Task \cup {None}] /\ task'[x] # None
      /\ task'[x].step = "settle"
      /\ task'[x].kind = task[x].kind /\ task'[x].request = task[x].request
      /\ task'[x].scene = task[x].scene /\ task'[x].target = task[x].target
      /\ \A y \in Slots : y # x => task'[y] = task[y]
  BY <1>1, <1>4, StepFacts DEF IInv
<1>6. TypeOK'
  BY <1>1, <1>3, <1>5 DEF IInv, TypeOK
<1>7. KnowsItsPart(x)' /\ FollowsItsOperation(x)' /\ ReadsWhatIsPinned(x)'
  BY <1>1, <1>2, <1>3, <1>5 DEF KnowsItsPart, FollowsItsOperation, ReadsWhatIsPinned, Begun
<1>8. TasksStand' /\ RequestsAreOwn' /\ StartsAlone'
  <2>1. \A y \in Slots : y # x /\ task[y] # None /\ task[y].kind = "replace" =>
            /\ ops'[task[y].request] = ops[task[y].request]
            /\ operationPins'[task[y].request] = operationPins[task[y].request]
    BY <1>1, <1>2, <1>3, OthersRequests
  <2> QED
    BY <1>1, <1>5, <1>7, <2>1, TasksMove
<1>9. GateFollows' /\ ScenesStand'
  BY <1>1 DEF IInv, GateFollows, VersionReferences, ScenesStand, Committed
<1>10. TargetsStand' /\ TargetsPinned'
  BY <1>1, <1>2, <1>3 DEF IInv, TargetsStand, TargetsPinned
<1>11. ProtectionsBelong'
  BY <1>1, <1>2, <1>3 DEF IInv, ProtectionsBelong
<1>12. BeginningsBelong'
  BY <1>1, <1>5 DEF IInv, BeginningsBelong, Doc
<1> QED
  BY <1>6, <1>8, <1>9, <1>10, <1>11, <1>12 DEF IInv

LEMMA AbortOperationKeeps ==
    ASSUME IInv, NEW x \in Slots, AbortOperation(x)
    PROVE  IInv'
<1> DEFINE r == task[x].request
<1>1. /\ task[x] # None /\ task[x].step \in Begun
      /\ KnowsItsPart(x) /\ FollowsItsOperation(x)
      /\ ops' = [ops EXCEPT ![r].state = "failed"]
      /\ operationPins' = [operationPins EXCEPT ![r] = {}]
      /\ End(x)
      /\ UNCHANGED <<files, graced, rows, versions, forgotten, committed, starting, restarts>>
  BY DEF IInv, AbortOperation, ReleaseOperationPin, At, TasksStand, Begun
<1>2. task[x].kind = "replace" /\ r \in Requests /\ ops[r] # None
  BY <1>1 DEF KnowsItsPart, FollowsItsOperation
<1>3. /\ ops' \in [Requests -> Operation \cup {None}]
      /\ ops'[r] # None /\ ops'[r].state = "failed"
      /\ ops'[r].protection = ops[r].protection /\ ops'[r].doc = ops[r].doc
      /\ \A q \in Requests : q # r => ops'[q] = ops[q]
  BY <1>1, <1>2, OperationFacts DEF IInv
<1>4. /\ operationPins' \in [Requests -> SUBSET Objects]
      /\ \A q \in Requests : q # r => operationPins'[q] = operationPins[q]
  BY <1>1, <1>2 DEF IInv, TypeOK
<1>5. /\ task' \in [Slots -> Task \cup {None}] /\ task'[x] = None
      /\ hydrationPins' \in [Slots -> SUBSET Objects]
      /\ \A y \in Slots : y # x => task'[y] = task[y] /\ hydrationPins'[y] = hydrationPins[y]
  BY <1>1, EndFacts DEF IInv
<1>6. TypeOK'
  BY <1>1, <1>3, <1>4, <1>5 DEF IInv, TypeOK
<1>7. TasksStand' /\ RequestsAreOwn' /\ StartsAlone'
  <2>1. \A y \in Slots : y # x /\ task[y] # None /\ task[y].kind = "replace" =>
            /\ ops'[task[y].request] = ops[task[y].request]
            /\ operationPins'[task[y].request] = operationPins[task[y].request]
    BY <1>1, <1>2, <1>3, <1>4, OthersRequests
  <2> QED
    BY <1>1, <1>5, <2>1, TasksMove
<1>8. GateFollows' /\ ScenesStand'
  BY <1>1 DEF IInv, GateFollows, VersionReferences, ScenesStand, Committed
<1>9. TargetsStand' /\ TargetsPinned'
  BY <1>1, <1>3, <1>4 DEF IInv, TargetsStand, TargetsPinned
<1>10. ProtectionsBelong'
  BY <1>1, <1>2, <1>3 DEF IInv, ProtectionsBelong
<1>11. BeginningsBelong'
  BY <1>1, <1>5 DEF IInv, BeginningsBelong, Doc
<1> QED
  BY <1>6, <1>7, <1>8, <1>9, <1>10, <1>11 DEF IInv

LEMMA FinishReplacementKeeps ==
    ASSUME IInv, NEW x \in Slots, FinishReplacement(x)
    PROVE  IInv'
<1> DEFINE r == task[x].request
<1>1. /\ task[x] # None /\ task[x].step = "settle"
      /\ KnowsItsPart(x) /\ FollowsItsOperation(x)
      /\ End(x)
      /\ UNCHANGED <<files, graced, rows, versions, forgotten, committed, operationPins, starting,
                     restarts>>
  BY DEF IInv, FinishReplacement, At, TasksStand
<1>2. PICK s \in {"completed", "open"} : ops' = [ops EXCEPT ![r].state = s]
  BY DEF FinishReplacement
<1>3. task[x].kind = "replace" /\ r \in Requests /\ ops[r] # None /\ ops[r].state = "open"
  BY <1>1 DEF KnowsItsPart, FollowsItsOperation, Begun
<1>4. /\ ops' \in [Requests -> Operation \cup {None}]
      /\ ops'[r] # None /\ ops'[r].state = s /\ ops'[r].target = ops[r].target
      /\ ops'[r].protection = ops[r].protection /\ ops'[r].doc = ops[r].doc
      /\ \A q \in Requests : q # r => ops'[q] = ops[q]
  BY <1>2, <1>3, OperationFacts DEF IInv
<1>5. /\ task' \in [Slots -> Task \cup {None}] /\ task'[x] = None
      /\ hydrationPins' \in [Slots -> SUBSET Objects]
      /\ \A y \in Slots : y # x => task'[y] = task[y] /\ hydrationPins'[y] = hydrationPins[y]
  BY <1>1, EndFacts DEF IInv
<1>6. TypeOK'
  BY <1>1, <1>4, <1>5 DEF IInv, TypeOK
<1>7. TasksStand' /\ RequestsAreOwn' /\ StartsAlone'
  <2>1. \A y \in Slots : y # x /\ task[y] # None /\ task[y].kind = "replace" =>
            /\ ops'[task[y].request] = ops[task[y].request]
            /\ operationPins'[task[y].request] = operationPins[task[y].request]
    BY <1>1, <1>3, <1>4, OthersRequests
  <2> QED
    BY <1>1, <1>5, <2>1, TasksMove
<1>8. GateFollows' /\ ScenesStand'
  BY <1>1 DEF IInv, GateFollows, VersionReferences, ScenesStand, Committed
<1>9. TargetsStand' /\ TargetsPinned'
  BY <1>1, <1>3, <1>4 DEF IInv, TargetsStand, TargetsPinned
<1>10. ProtectionsBelong'
  BY <1>1, <1>3, <1>4 DEF IInv, ProtectionsBelong
<1>11. BeginningsBelong'
  BY <1>1, <1>5 DEF IInv, BeginningsBelong, Doc
<1> QED
  BY <1>6, <1>7, <1>8, <1>9, <1>10, <1>11 DEF IInv

-----------------------------------------------------------------------------
(* Deletions, and the collection that follows. *)

\* A command takes versions out; a collection begins after it, or nothing does.
LEMMA PruningKeeps ==
    ASSUME IInv, NEW x \in Slots, Idle(x), NEW gone,
           NEW table \in [Ids -> Version \cup {None}],
           \A v \in Ids : /\ table[v] = None <=> versions[v] = None
                          /\ table[v] # None => /\ table[v].doc = versions[v].doc
                                                /\ table[v].scene = versions[v].scene,
           versions' = Without(table, gone, None),
           committed' = Without(committed, gone, {}),
           task' = task \/ Start(x, Nothing),
           forgotten' \subseteq Documents,
           UNCHANGED <<files, graced, rows, ops, operationPins, hydrationPins, starting, restarts>>
    PROVE  IInv'
<1>1. /\ versions' \in [Ids -> Version \cup {None}]
      /\ committed' \in [Ids -> SUBSET Objects]
      /\ GateFollows' /\ ScenesStand'
      /\ \A v \in Ids : \/ versions'[v] = None
                        \/ versions[v] # None /\ versions'[v].doc = versions[v].doc
  BY PruneFacts
<1>2. /\ task[x] = None /\ ~starting
      /\ Nothing \in Task /\ Nothing # None /\ Nothing.kind = "collect" /\ Nothing.step = "list"
  BY NothingIsATask, NoneIsNoRecord DEF Idle, Nothing
<1>3. /\ task' \in [Slots -> Task \cup {None}]
      /\ task'[x] \in {None, Nothing}
      /\ \A y \in Slots : y # x => task'[y] = task[y]
  BY <1>2 DEF IInv, TypeOK, Start
<1>4. TypeOK'
  BY <1>1, <1>3 DEF IInv, TypeOK
<1>5. TasksStand'
  <2> SUFFICES ASSUME NEW y \in Slots, task'[y] # None
               PROVE  KnowsItsPart(y)' /\ FollowsItsOperation(y)' /\ ReadsWhatIsPinned(y)'
    BY DEF TasksStand, KnowsItsPart, FollowsItsOperation, ReadsWhatIsPinned
  <2>1. CASE y = x
    BY <1>2, <1>3, <2>1 DEF KnowsItsPart, FollowsItsOperation, ReadsWhatIsPinned, Begun
  <2>2. CASE y # x
    BY <1>3, <2>2, TaskStays
  <2> QED
    BY <2>1, <2>2
<1>6. RequestsAreOwn'
  BY <1>2, <1>3, RequestsStay
<1>7. StartsAlone' /\ TargetsStand' /\ TargetsPinned'
  BY <1>2 DEF IInv, StartsAlone, TargetsStand, TargetsPinned
<1>8. ProtectionsBelong'
  BY <1>1, ProtectionsStay
<1>9. BeginningsBelong'
  BY <1>1, <1>2, <1>3, BeginningsStay
<1> QED
  BY <1>1, <1>4, <1>5, <1>6, <1>7, <1>8, <1>9 DEF IInv

LEMMA SetMarkedKeeps ==
    ASSUME IInv, NEW d \in Documents, SetMarked(d)
    PROVE  IInv'
<1> DEFINE x == <<d, "locked">>
<1>1. /\ Idle(x) /\ x \in Slots
      /\ UNCHANGED <<files, graced, rows, ops, forgotten, operationPins, hydrationPins, starting,
                     restarts>>
  BY DEF SetMarked, Idle
<1>2. PICK v \in Committed, marked \in BOOLEAN :
        LET table == [versions EXCEPT ![v].marked = marked]
            gone == IF marked THEN {} ELSE PruneUnmarked(table, d)
        IN /\ versions' = Without(table, gone, None)
           /\ committed' = Without(committed, gone, {})
           /\ IF gone = {} THEN UNCHANGED task ELSE Start(x, Nothing)
  BY DEF SetMarked
<1> DEFINE table == [versions EXCEPT ![v].marked = marked]
           gone == IF marked THEN {} ELSE PruneUnmarked(table, d)
<1>3. versions[v] \in Version /\ versions[v] # None /\ v \in Ids
  BY VersionTyped DEF IInv, Committed
<1>4. [versions[v] EXCEPT !.marked = marked] \in Version
  BY <1>3 DEF Version
<1>5. /\ table \in [Ids -> Version \cup {None}]
      /\ \A w \in Ids : /\ table[w] = None <=> versions[w] = None
                        /\ table[w] # None => /\ table[w].doc = versions[w].doc
                                              /\ table[w].scene = versions[w].scene
  BY <1>3, <1>4, NoneIsNoRecord DEF IInv, TypeOK, Version
<1>6. /\ versions' = Without(table, gone, None)
      /\ committed' = Without(committed, gone, {})
      /\ task' = task \/ Start(x, Nothing)
  BY <1>2
<1>7. forgotten' \subseteq Documents
  BY <1>1 DEF IInv, TypeOK
<1> HIDE DEF table, gone, x
<1> QED
  BY <1>1, <1>5, <1>6, <1>7, PruningKeeps

LEMMA DeleteVersionKeeps ==
    ASSUME IInv, NEW d \in Documents, DeleteVersion(d)
    PROVE  IInv'
<1> DEFINE x == <<d, "locked">>
<1>1. /\ Idle(x) /\ x \in Slots /\ Start(x, Nothing)
      /\ UNCHANGED <<files, graced, rows, ops, forgotten, operationPins, hydrationPins, starting,
                     restarts>>
  BY DEF DeleteVersion, Idle
<1>2. PICK v \in Committed : /\ versions' = Without(versions, {v}, None)
                             /\ committed' = Without(committed, {v}, {})
  BY DEF DeleteVersion
<1>3. versions \in [Ids -> Version \cup {None}] /\ forgotten' \subseteq Documents
  BY <1>1 DEF IInv, TypeOK
<1> HIDE DEF x
<1> QED
  BY <1>1, <1>2, <1>3, PruningKeeps

LEMMA DeleteDocumentHistoryKeeps ==
    ASSUME IInv, NEW d \in Documents, DeleteDocumentHistory(d)
    PROVE  IInv'
<1> DEFINE x == <<d, "free">>
           gone == {v \in Committed : versions[v].doc = d}
<1>1. /\ Idle(x) /\ x \in Slots /\ Start(x, Nothing)
      /\ versions' = Without(versions, gone, None)
      /\ committed' = Without(committed, gone, {})
      /\ forgotten' = forgotten \cup {d}
      /\ UNCHANGED <<files, graced, rows, ops, operationPins, hydrationPins, starting, restarts>>
  BY DEF DeleteDocumentHistory, Idle
<1>2. versions \in [Ids -> Version \cup {None}] /\ forgotten' \subseteq Documents
  BY <1>1 DEF IInv, TypeOK
<1> HIDE DEF x, gone
<1> QED
  BY <1>1, <1>2, PruningKeeps

LEMMA ListCandidatesKeeps ==
    ASSUME IInv, NEW x \in Slots, ListCandidates(x)
    PROVE  IInv'
<1>1. /\ task[x] # None /\ task[x].step = "list" /\ task[x] \in Task
      /\ KnowsItsPart(x) /\ FollowsItsOperation(x)
      /\ task' = [task EXCEPT ![x].step = "collect", ![x].known = files \ graced]
      /\ UNCHANGED <<files, graced, rows, versions, ops, forgotten, committed, hydrationPins, starting,
                     restarts>>
  BY TaskTyped DEF IInv, ListCandidates, At, TasksStand
<1>2. /\ operationPins' \in [Requests -> SUBSET Objects]
      /\ \A r \in Requests : ops[r] = None \/ ops[r].state # "expired" =>
            operationPins'[r] = operationPins[r]
  BY DEF ListCandidates, IInv, TypeOK
<1>3. [task[x] EXCEPT !.step = "collect", !.known = files \ graced] \in Task
  BY <1>1 DEF IInv, TypeOK, Task, Steps
<1>4. /\ task' \in [Slots -> Task \cup {None}] /\ task'[x] # None
      /\ task'[x].step = "collect"
      /\ task'[x].kind = task[x].kind /\ task'[x].request = task[x].request
      /\ task'[x].scene = task[x].scene /\ task'[x].target = task[x].target
      /\ \A y \in Slots : y # x => task'[y] = task[y]
  BY <1>1, <1>3, NoneIsNoRecord DEF IInv, TypeOK, Task
<1>5. TypeOK'
  BY <1>1, <1>2, <1>4 DEF IInv, TypeOK
<1>6. KnowsItsPart(x)' /\ FollowsItsOperation(x)' /\ ReadsWhatIsPinned(x)'
  BY <1>1, <1>4 DEF KnowsItsPart, FollowsItsOperation, ReadsWhatIsPinned, Begun
<1>7. \A y \in Slots : y # x /\ task[y] # None /\ task[y].kind = "replace" =>
          /\ ops'[task[y].request] = ops[task[y].request]
          /\ operationPins'[task[y].request] = operationPins[task[y].request]
  BY <1>1, <1>2 DEF IInv, TasksStand, KnowsItsPart, FollowsItsOperation
<1>8. TasksStand' /\ RequestsAreOwn' /\ StartsAlone'
  BY <1>1, <1>4, <1>6, <1>7, TasksMove
<1>9. GateFollows' /\ ScenesStand' /\ TargetsStand' /\ ProtectionsBelong'
  BY <1>1 DEF IInv, GateFollows, VersionReferences, ScenesStand, Committed, TargetsStand,
              ProtectionsBelong
<1>10. TargetsPinned'
  BY <1>1, <1>2 DEF IInv, TargetsPinned
<1>11. BeginningsBelong'
  BY <1>1, <1>4 DEF IInv, BeginningsBelong, Doc
<1> QED
  BY <1>5, <1>8, <1>9, <1>10, <1>11 DEF IInv

LEMMA CollectKeeps ==
    ASSUME IInv, NEW x \in Slots, Collect(x)
    PROVE  IInv'
<1>1. /\ task[x] # None /\ End(x)
      /\ UNCHANGED <<rows, versions, ops, forgotten, committed, operationPins, starting, restarts>>
  BY DEF Collect, At
<1>2. PICK gone \in SUBSET (task[x].known \ Live) : files' = files \ gone /\ graced' = graced \ gone
  BY DEF Collect
<1>3. files \cap Live \subseteq files'
  BY <1>2
<1>4. /\ task' \in [Slots -> Task \cup {None}] /\ task'[x] = None
      /\ hydrationPins' \in [Slots -> SUBSET Objects]
      /\ \A y \in Slots : y # x => task'[y] = task[y] /\ hydrationPins'[y] = hydrationPins[y]
  BY <1>1, EndFacts DEF IInv
<1>5. TypeOK'
  BY <1>1, <1>2, <1>4 DEF IInv, TypeOK
<1>6. TasksStand' /\ RequestsAreOwn' /\ StartsAlone'
  BY <1>1, <1>3, <1>4, TasksMove
<1>7. GateFollows' /\ TargetsPinned' /\ ProtectionsBelong'
  BY <1>1 DEF IInv, GateFollows, VersionReferences, TargetsPinned, ProtectionsBelong
<1>8. ScenesStand'
  <2> SUFFICES ASSUME NEW v \in Committed PROVE versions[v].scene \in files'
    BY <1>1 DEF ScenesStand, Committed
  <2>1. versions[v].scene \in files /\ v \in Ids
    BY DEF IInv, ScenesStand, Committed
  <2>2. versions[v].scene \in committed[v]
    BY <2>1 DEF IInv, GateFollows, VersionReferences, Committed, Refs
  <2> QED
    BY <1>3, <2>1, <2>2 DEF Live
<1>9. TargetsStand'
  <2> SUFFICES ASSUME NEW r \in Requests, ops[r] # None, ops[r].target # None,
                      ops[r].state \in {"open", "completed"}
               PROVE  Refs(ops[r].target) \subseteq files'
    BY <1>1 DEF TargetsStand, Refs
  <2>1. Refs(ops[r].target) \subseteq files \cap operationPins[r]
    BY DEF IInv, TargetsStand, TargetsPinned
  <2> QED
    BY <1>3, <2>1 DEF Live
<1>10. BeginningsBelong'
  BY <1>1, <1>4 DEF IInv, BeginningsBelong, Doc
<1> QED
  BY <1>5, <1>6, <1>7, <1>8, <1>9, <1>10 DEF IInv

-----------------------------------------------------------------------------
(* Time, and restarts. *)

LEMMA GraceEndsKeeps == IInv /\ GraceEnds => IInv'
<1> SUFFICES ASSUME IInv, GraceEnds PROVE IInv'
  OBVIOUS
<1>1. /\ graced' \subseteq graced
      /\ UNCHANGED <<files, rows, versions, ops, forgotten, committed, operationPins, hydrationPins,
                     task, starting, restarts>>
  BY DEF GraceEnds, gate
<1>2. TypeOK'
  BY <1>1 DEF IInv, TypeOK
<1>3. TasksStand' /\ RequestsAreOwn' /\ StartsAlone' /\ BeginningsBelong'
  BY <1>1 DEF IInv, TasksStand, KnowsItsPart, FollowsItsOperation, ReadsWhatIsPinned, RequestsAreOwn,
              StartsAlone, BeginningsBelong, Doc
<1>4. GateFollows' /\ ScenesStand' /\ TargetsStand' /\ TargetsPinned' /\ ProtectionsBelong'
  BY <1>1 DEF IInv, GateFollows, VersionReferences, ScenesStand, Committed, TargetsStand,
              TargetsPinned, ProtectionsBelong
<1> QED
  BY <1>2, <1>3, <1>4 DEF IInv

LEMMA RetentionEndsKeeps ==
    ASSUME IInv, NEW r \in Requests, RetentionEnds(r)
    PROVE  IInv'
<1>1. /\ ops[r] # None /\ ops[r].state = "completed"
      /\ ops' = [ops EXCEPT ![r].state = "expired"]
      /\ UNCHANGED <<files, graced, rows, versions, forgotten, committed, operationPins, hydrationPins,
                     task, starting, restarts>>
  BY DEF RetentionEnds, gate
<1>2. /\ ops' \in [Requests -> Operation \cup {None}]
      /\ ops'[r] # None /\ ops'[r].state = "expired"
      /\ ops'[r].protection = ops[r].protection /\ ops'[r].doc = ops[r].doc
      /\ \A q \in Requests : q # r => ops'[q] = ops[q]
  BY <1>1, OperationFacts DEF IInv
<1>3. TypeOK'
  BY <1>1, <1>2 DEF IInv, TypeOK
<1>4. TasksStand'
  <2> SUFFICES ASSUME NEW y \in Slots, task[y] # None
               PROVE  KnowsItsPart(y)' /\ FollowsItsOperation(y)' /\ ReadsWhatIsPinned(y)'
    BY <1>1 DEF TasksStand, KnowsItsPart, FollowsItsOperation, ReadsWhatIsPinned
  <2>1. task[y].kind = "replace" => task[y].request \in Requests /\ task[y].request # r
    BY <1>1 DEF IInv, TasksStand, KnowsItsPart, FollowsItsOperation
  <2> QED
    BY <1>1, <1>2, <2>1, TaskStays
<1>5. RequestsAreOwn' /\ StartsAlone' /\ BeginningsBelong'
  BY <1>1 DEF IInv, RequestsAreOwn, StartsAlone, BeginningsBelong, Doc
<1>6. GateFollows' /\ ScenesStand'
  BY <1>1 DEF IInv, GateFollows, VersionReferences, ScenesStand, Committed
<1>7. TargetsStand' /\ TargetsPinned' /\ ProtectionsBelong'
  BY <1>1, <1>2 DEF IInv, TargetsStand, TargetsPinned, ProtectionsBelong
<1> QED
  BY <1>3, <1>4, <1>5, <1>6, <1>7 DEF IInv

LEMMA TargetReferencesTyped ==
    ASSUME TypeOK, NEW r \in Requests, ops[r] # None
    PROVE  TargetReferences(r) \subseteq Objects
<1>1. CASE ops[r].target = None
  BY <1>1 DEF TargetReferences
<1>2. CASE ops[r].target # None
  BY <1>2, OperationTyped, RefsAreObjects DEF TargetReferences, Operation
<1> QED
  BY <1>1, <1>2

LEMMA RestartKeeps == IInv /\ Restart => IInv'
<1> SUFFICES ASSUME IInv, Restart PROVE IInv'
  OBVIOUS
<1> DEFINE pins(r) == IF r \in Incomplete
                        THEN TargetReferences(r) \cup VersionReferences(ops[r].protection)
                      ELSE IF ops[r] # None /\ ops[r].state = "completed" THEN TargetReferences(r)
                      ELSE {}
<1>1. /\ restarts < MaxRestarts /\ restarts' = restarts + 1 /\ starting' = TRUE
      /\ task' = [x \in Slots |-> None]
      /\ hydrationPins' = [x \in Slots |-> {}]
      /\ committed' = [v \in Ids |-> VersionReferences(v)]
      /\ operationPins' = [r \in Requests |-> pins(r)]
      /\ UNCHANGED <<files, graced, rows, versions, ops, forgotten>>
  BY DEF Restart
<1>2. \A r \in Requests : pins(r) \subseteq Objects
  <2> SUFFICES ASSUME NEW r \in Requests PROVE pins(r) \subseteq Objects
    OBVIOUS
  <2>1. CASE r \in Incomplete
    <3>1. ops[r] # None /\ ops[r].protection \in Ids
      BY <2>1, OperationTyped DEF IInv, Incomplete, Operation
    <3> QED
      BY <2>1, <3>1, TargetReferencesTyped, VersionReferencesTyped DEF IInv
  <2>2. CASE r \notin Incomplete /\ ops[r] # None /\ ops[r].state = "completed"
    BY <2>2, TargetReferencesTyped DEF IInv
  <2>3. CASE r \notin Incomplete /\ ~(ops[r] # None /\ ops[r].state = "completed")
    BY <2>3
  <2> QED
    BY <2>1, <2>2, <2>3
<1>3. \A v \in Ids : VersionReferences(v) \subseteq Objects
  BY VersionReferencesTyped DEF IInv
<1>4. restarts' \in 0..MaxRestarts
  BY <1>1, LimitAssumption DEF IInv, TypeOK
<1>5. TypeOK'
  <2>1. /\ committed' \in [Ids -> SUBSET Objects]
        /\ operationPins' \in [Requests -> SUBSET Objects]
        /\ hydrationPins' \in [Slots -> SUBSET Objects]
        /\ task' \in [Slots -> Task \cup {None}]
    <3> HIDE DEF pins
    <3> QED
      BY <1>1, <1>2, <1>3
  <2> QED
    BY <1>1, <1>4, <2>1 DEF IInv, TypeOK
<1>6. \A x \in Slots : task'[x] = None
  BY <1>1
<1>7. TasksStand' /\ RequestsAreOwn' /\ StartsAlone' /\ BeginningsBelong'
  BY <1>6 DEF TasksStand, RequestsAreOwn, StartsAlone, BeginningsBelong
<1>8. GateFollows' /\ ScenesStand' /\ TargetsStand' /\ ProtectionsBelong'
  BY <1>1 DEF IInv, GateFollows, VersionReferences, ScenesStand, Committed, TargetsStand,
              ProtectionsBelong
<1>9. TargetsPinned'
  BY <1>1 DEF TargetsPinned, TargetReferences, Incomplete, Refs
<1> QED
  BY <1>5, <1>7, <1>8, <1>9 DEF IInv

LEMMA ReconcileKeeps ==
    ASSUME IInv, NEW r \in Requests, Reconcile(r)
    PROVE  IInv'
<1>1. /\ ops[r] # None /\ ops[r].state = "open"
      /\ \A x \in Slots : task[x] = None
      /\ UNCHANGED <<files, graced, rows, versions, forgotten, committed, hydrationPins, task,
                     starting, restarts>>
  BY DEF IInv, Reconcile, StartsAlone, Incomplete
<1>2. PICK s \in {"completed", "failed"} :
        /\ ops' = [ops EXCEPT ![r].state = s]
        /\ \/ UNCHANGED operationPins
           \/ s = "failed" /\ operationPins' = [operationPins EXCEPT ![r] = {}]
  BY DEF Reconcile, ReleaseOperationPin
<1>3. /\ ops' \in [Requests -> Operation \cup {None}]
      /\ ops'[r] # None /\ ops'[r].state = s /\ ops'[r].target = ops[r].target
      /\ ops'[r].protection = ops[r].protection /\ ops'[r].doc = ops[r].doc
      /\ \A q \in Requests : q # r => ops'[q] = ops[q]
  BY <1>1, <1>2, OperationFacts DEF IInv
<1>4. /\ operationPins' \in [Requests -> SUBSET Objects]
      /\ \A q \in Requests : q # r \/ s = "completed" => operationPins'[q] = operationPins[q]
  BY <1>2 DEF IInv, TypeOK
<1>5. TypeOK'
  BY <1>1, <1>3, <1>4 DEF IInv, TypeOK
<1>6. TasksStand' /\ RequestsAreOwn' /\ StartsAlone' /\ BeginningsBelong'
  BY <1>1 DEF TasksStand, RequestsAreOwn, StartsAlone, BeginningsBelong
<1>7. GateFollows' /\ ScenesStand'
  BY <1>1 DEF IInv, GateFollows, VersionReferences, ScenesStand, Committed
<1>8. TargetsStand' /\ TargetsPinned' /\ ProtectionsBelong'
  BY <1>1, <1>3, <1>4 DEF IInv, TargetsStand, TargetsPinned, ProtectionsBelong
<1> QED
  BY <1>5, <1>6, <1>7, <1>8 DEF IInv

LEMMA FinishStartupKeeps == IInv /\ FinishStartup => IInv'
<1> SUFFICES ASSUME IInv, FinishStartup PROVE IInv'
  OBVIOUS
<1>1. /\ starting' = FALSE
      /\ UNCHANGED <<files, graced, rows, versions, ops, forgotten, committed, operationPins,
                     hydrationPins, task, restarts>>
  BY DEF FinishStartup, gate
<1>2. TypeOK'
  BY <1>1 DEF IInv, TypeOK
<1>3. TasksStand' /\ RequestsAreOwn' /\ StartsAlone' /\ BeginningsBelong'
  BY <1>1 DEF IInv, TasksStand, KnowsItsPart, FollowsItsOperation, ReadsWhatIsPinned, RequestsAreOwn,
              StartsAlone, BeginningsBelong, Doc
<1>4. GateFollows' /\ ScenesStand' /\ TargetsStand' /\ TargetsPinned' /\ ProtectionsBelong'
  BY <1>1 DEF IInv, GateFollows, VersionReferences, ScenesStand, Committed, TargetsStand,
              TargetsPinned, ProtectionsBelong
<1> QED
  BY <1>2, <1>3, <1>4 DEF IInv

LEMMA StutterKeeps == IInv /\ UNCHANGED vars => IInv'
<1> SUFFICES ASSUME IInv, UNCHANGED vars PROVE IInv'
  OBVIOUS
<1>1. TypeOK'
  BY DEF IInv, TypeOK, vars
<1>2. TasksStand' /\ RequestsAreOwn' /\ StartsAlone' /\ BeginningsBelong'
  BY DEF vars, IInv, TasksStand, KnowsItsPart, FollowsItsOperation, ReadsWhatIsPinned, RequestsAreOwn,
         StartsAlone, BeginningsBelong, Doc
<1>3. GateFollows' /\ ScenesStand' /\ TargetsStand' /\ TargetsPinned' /\ ProtectionsBelong'
  BY DEF vars, IInv, GateFollows, VersionReferences, ScenesStand, Committed, TargetsStand,
         TargetsPinned, ProtectionsBelong
<1> QED
  BY <1>1, <1>2, <1>3 DEF IInv

-----------------------------------------------------------------------------
LEMMA StepKeeps == IInv /\ [Next]_vars => IInv'
<1> SUFFICES ASSUME IInv, Next PROVE IInv'
  BY StutterKeeps
<1>1. CASE \E d \in Documents :
             \/ AfterCheckpoint(d) \/ Mark(d) \/ Preview(d) \/ \E r \in Requests : Replace(d, r)
             \/ SetMarked(d) \/ DeleteVersion(d) \/ DeleteDocumentHistory(d)
  BY <1>1, AfterCheckpointKeeps, MarkKeeps, PreviewKeeps, ReplaceKeeps, SetMarkedKeeps,
     DeleteVersionKeeps, DeleteDocumentHistoryKeeps
<1>2. CASE \E x \in Slots :
             \/ AcquireHydrationPin(x) \/ ReadPinned(x)
             \/ PutObject(x) \/ PublishAutomatic(x) \/ PublishMark(x) \/ PublishSnapshot(x)
             \/ PublishFails(x)
  BY <1>2, AcquireHydrationPinKeeps, ReadPinnedKeeps, PutObjectKeeps, PublishAutomaticKeeps,
     PublishMarkKeeps, PublishSnapshotKeeps, PublishFailsKeeps
<1>3. CASE \E x \in Slots :
             \/ BeginOperation(x) \/ RestoreOperationPin(x) \/ RegisterTarget(x)
             \/ MarkTargetObserved(x) \/ AbortOperation(x) \/ FinishReplacement(x)
             \/ ListCandidates(x) \/ Collect(x)
  BY <1>3, BeginOperationKeeps, RestoreOperationPinKeeps, RegisterTargetKeeps, MarkTargetObservedKeeps,
     AbortOperationKeeps, FinishReplacementKeeps, ListCandidatesKeeps, CollectKeeps
<1>4. CASE GraceEnds \/ Restart \/ FinishStartup
  BY <1>4, GraceEndsKeeps, RestartKeeps, FinishStartupKeeps
<1>5. CASE \E r \in Requests : RetentionEnds(r) \/ Reconcile(r)
  BY <1>5, RetentionEndsKeeps, ReconcileKeeps
<1> QED
  BY <1>1, <1>2, <1>3, <1>4, <1>5 DEF Next

-----------------------------------------------------------------------------
LEMMA AlwaysIInv == Spec => []IInv
BY InitHolds, StepKeeps, PTL DEF Spec

\* Every variable keeps its type, whatever the documents, scenes and requests.
THEOREM TypeCorrect == Spec => []TypeOK
<1>1. IInv => TypeOK
  BY DEF IInv
<1> QED
  BY <1>1, AlwaysIInv, PTL

\* The scene of every version and the target of every replacement that can still
\* be finished have their files: the collector never takes them
\* (ReachabilityGate::collect, verify_scene, register_scene_object).
THEOREM ReferencedStandHolds == Spec => []ReferencedStand
<1>1. IInv => ReferencedStand
  BY DEF IInv, ReferencedStand
<1> QED
  BY <1>1, AlwaysIInv, PTL

\* A hydration reads every object that it found when it pinned them, whatever is
\* collected meanwhile (history/hydration.rs, history/gc.rs).
THEOREM ReadsCompleteHolds == Spec => []ReadsComplete
<1>1. IInv => ReadsComplete
  BY DEF IInv, TasksStand, ReadsWhatIsPinned, ReadsComplete, At
<1> QED
  BY <1>1, AlwaysIInv, PTL

\* Gate and tables agree: a version that is recorded is referred to, one that is
\* gone is not, and incomplete replacements pin their targets.
THEOREM GateAgreesHolds == Spec => []GateAgrees
<1>1. IInv => GateAgrees
  <2> SUFFICES ASSUME IInv PROVE GateAgrees
    OBVIOUS
  <2>1. \A v \in Ids : committed[v] = VersionReferences(v)
    BY DEF IInv, GateFollows
  <2>2. ASSUME NEW r \in Incomplete PROVE TargetReferences(r) \subseteq operationPins[r]
    <3>1. r \in Requests /\ ops[r] # None /\ ops[r].state = "open"
      BY DEF Incomplete
    <3> QED
      BY <3>1 DEF IInv, TargetsPinned, TargetReferences
  <2> QED
    BY <2>1, <2>2 DEF GateAgrees
<1> QED
  BY <1>1, AlwaysIInv, PTL

-----------------------------------------------------------------------------
(* Versions that are kept. *)

\* The ways in which a committed version may go.
MayGo(v) ==
    LET d == versions[v].doc IN
    \/ v \notin Protecting /\ ~versions[v].marked
    \/ v \notin Protecting /\ (SetMarked(d) \/ DeleteVersion(d) \/ DeleteDocumentHistory(d))
    \/ versions[v].source # "manual" /\ PublishSnapshot(<<d, "locked">>)

\* A publication leaves the rows of the other versions but for what it prunes.
LEMMA CommitLeaves ==
    ASSUME IInv, NEW x \in Slots, task[x].scene \in Scenes, Fresh # {},
           NEW source \in Sources, NEW marked \in BOOLEAN, NEW gone,
           CommitVersion(x, WithVersion(x, source, marked), gone),
           NEW v \in Committed, versions'[v] = None
    PROVE  v \in gone /\ WithVersion(x, source, marked)[v] = versions[v]
<1>1. v \in Ids /\ versions[v] # None
  BY DEF Committed
<1>2. NextId \in Ids /\ NextId # v
  BY NextIdIsFresh DEF Fresh, Ids
<1>3. WithVersion(x, source, marked)[v] = versions[v]
  BY <1>1, <1>2, WithVersionFacts DEF IInv
<1> QED
  BY <1>1, <1>3 DEF CommitVersion, Without

LEMMA AutomaticTakesUnmarked ==
    ASSUME IInv, NEW x \in Slots, PublishAutomatic(x), NEW v \in Committed, versions'[v] = None
    PROVE  MayGo(v)
<1> DEFINE table == WithVersion(x, "automatic", FALSE)
           gone == PruneUnmarked(table, Doc(x))
<1>1. task[x].scene \in Scenes /\ Fresh # {} /\ CommitVersion(x, table, gone)
  BY DEF IInv, PublishAutomatic, Publishes, At, TasksStand, KnowsItsPart
<1>2. "automatic" \in Sources
  BY DEF Sources
<1>3. v \in gone /\ table[v] = versions[v]
  BY <1>1, <1>2, CommitLeaves
<1>4. v \notin Protecting /\ ~table[v].marked
  BY <1>3 DEF PruneUnmarked, Beyond
<1> QED
  BY <1>3, <1>4 DEF MayGo

LEMMA MarkTakesNothing ==
    ASSUME IInv, NEW x \in Slots, PublishMark(x), NEW v \in Committed
    PROVE  versions'[v] # None
<1>1. task[x].scene \in Scenes /\ Fresh # {} /\ versions[v] # None
  BY DEF IInv, PublishMark, Publishes, At, TasksStand, KnowsItsPart, Committed
<1>2. "manual" \in Sources
  BY DEF Sources
<1>3. CASE versions' = versions
  BY <1>1, <1>3
<1>4. CASE CommitVersion(x, WithVersion(x, "manual", TRUE), {})
  <2> SUFFICES ASSUME versions'[v] = None PROVE FALSE
    OBVIOUS
  <2>1. TRUE \in BOOLEAN
    OBVIOUS
  <2>2. v \in {}
    BY <1>1, <1>2, <1>4, <2>1, CommitLeaves, Zenon
  <2> QED
    BY <2>2
<1> QED
  BY <1>3, <1>4 DEF PublishMark

LEMMA SnapshotTakesOwn ==
    ASSUME IInv, NEW x \in Slots, PublishSnapshot(x), NEW v \in Committed, versions'[v] = None
    PROVE  MayGo(v)
<1> DEFINE table == WithVersion(x, "protected", FALSE)
           gone == PruneSnapshot(table, Doc(x))
<1>1. /\ task[x].scene \in Scenes /\ Fresh # {} /\ CommitVersion(x, table, gone)
      /\ x = <<Doc(x), "locked">>
  BY DEF IInv, PublishSnapshot, Publishes, At, TasksStand, KnowsItsPart
<1>2. "protected" \in Sources
  BY DEF Sources
<1>3. v \in gone /\ table[v] = versions[v]
  BY <1>1, <1>2, CommitLeaves
<1>4. table[v].doc = Doc(x) /\ table[v].source # "manual"
  BY <1>3 DEF PruneSnapshot, Beyond
<1>5. PublishSnapshot(<<versions[v].doc, "locked">>)
  BY <1>1, <1>3, <1>4
<1> QED
  BY <1>3, <1>4, <1>5 DEF MayGo

LEMMA SetMarkedTakesItsOwn ==
    ASSUME IInv, NEW d \in Documents, SetMarked(d), NEW v \in Committed, versions'[v] = None
    PROVE  MayGo(v)
<1>1. PICK w \in Committed, marked \in BOOLEAN :
        LET table == [versions EXCEPT ![w].marked = marked]
            gone == IF marked THEN {} ELSE PruneUnmarked(table, d)
        IN versions' = Without(table, gone, None)
  BY DEF SetMarked
<1> DEFINE table == [versions EXCEPT ![w].marked = marked]
<1>2. v \in Ids /\ versions[v] \in Version /\ w \in Ids /\ versions[w] \in Version
  BY VersionTyped DEF IInv, Committed
<1>3. table[v] # None /\ table[v].doc = versions[v].doc
  <2>1. [versions[w] EXCEPT !.marked = marked] \in Version
    BY <1>2 DEF Version
  <2> QED
    BY <1>2, <2>1, NoneIsNoRecord DEF IInv, TypeOK, Version
<1>4. versions' = Without(table, IF marked THEN {} ELSE PruneUnmarked(table, d), None)
  BY <1>1
<1> HIDE DEF table
<1>5. v \in PruneUnmarked(table, d)
  BY <1>2, <1>3, <1>4 DEF Without
<1>6. v \notin Protecting /\ table[v].doc = d
  BY <1>5 DEF PruneUnmarked, Beyond
<1> QED
  BY <1>3, <1>6 DEF MayGo

LEMMA DeleteVersionTakesItsOwn ==
    ASSUME IInv, NEW d \in Documents, DeleteVersion(d), NEW v \in Committed, versions'[v] = None
    PROVE  MayGo(v)
<1>1. PICK w \in Committed : /\ versions[w].doc = d /\ w \notin Protecting
                             /\ versions' = Without(versions, {w}, None)
  BY DEF DeleteVersion
<1>2. v = w
  BY <1>1 DEF Committed, Without
<1> QED
  BY <1>1, <1>2 DEF MayGo

LEMMA DeleteDocumentHistoryTakesItsOwn ==
    ASSUME IInv, NEW d \in Documents, DeleteDocumentHistory(d), NEW v \in Committed,
           versions'[v] = None
    PROVE  MayGo(v)
<1> DEFINE gone == {w \in Committed : versions[w].doc = d}
<1>1. versions' = Without(versions, gone, None) /\ \A r \in Incomplete : ops[r].doc # d
  BY DEF DeleteDocumentHistory
<1>2. v \in Ids /\ versions[v] # None
  BY DEF Committed
<1>3. versions[v].doc = d
  BY <1>1, <1>2 DEF Without
<1>4. v \notin Protecting
  BY <1>1, <1>2, <1>3 DEF Protecting, Incomplete, IInv, ProtectionsBelong
<1> QED
  BY <1>3, <1>4 DEF MayGo

\* Every other step leaves the versions as they are.
LEMMA OthersTakeNothing ==
    ASSUME \/ \E d \in Documents :
                \/ AfterCheckpoint(d) \/ Mark(d) \/ Preview(d)
                \/ \E r \in Requests : Replace(d, r)
           \/ \E x \in Slots :
                \/ AcquireHydrationPin(x) \/ ReadPinned(x) \/ PutObject(x) \/ PublishFails(x)
                \/ BeginOperation(x) \/ RestoreOperationPin(x) \/ RegisterTarget(x)
                \/ MarkTargetObserved(x) \/ AbortOperation(x) \/ FinishReplacement(x)
                \/ ListCandidates(x) \/ Collect(x)
           \/ GraceEnds \/ \E r \in Requests : RetentionEnds(r) \/ Reconcile(r)
           \/ Restart \/ FinishStartup
    PROVE  versions' = versions
BY DEF AfterCheckpoint, Mark, Preview, Replace, AcquireHydrationPin, ReadPinned, PutObject,
       PublishFails, BeginOperation, RestoreOperationPin, RegisterTarget, MarkTargetObserved,
       AbortOperation, FinishReplacement, ListCandidates, Collect, GraceEnds, RetentionEnds,
       Reconcile, Restart, FinishStartup

LEMMA StepKeepsVersions ==
    ASSUME IInv, Next, NEW v \in Committed, versions'[v] = None
    PROVE  MayGo(v)
<1>1. versions[v] # None
  BY DEF Committed
<1>2. CASE \E d \in Documents : SetMarked(d) \/ DeleteVersion(d) \/ DeleteDocumentHistory(d)
  BY <1>2, SetMarkedTakesItsOwn, DeleteVersionTakesItsOwn, DeleteDocumentHistoryTakesItsOwn
<1>3. CASE \E x \in Slots : PublishAutomatic(x) \/ PublishMark(x) \/ PublishSnapshot(x)
  BY <1>3, AutomaticTakesUnmarked, MarkTakesNothing, SnapshotTakesOwn
<1>4. CASE ~ \E d \in Documents : SetMarked(d) \/ DeleteVersion(d) \/ DeleteDocumentHistory(d)
  <2>1. CASE ~ \E x \in Slots : PublishAutomatic(x) \/ PublishMark(x) \/ PublishSnapshot(x)
    <3>1. versions' = versions
      BY <1>4, <2>1, OthersTakeNothing DEF Next
    <3> QED
      BY <1>1, <3>1
  <2> QED
    BY <1>3, <2>1
<1> QED
  BY <1>2, <1>4

\* No step takes a marked version, or one that protects an incomplete
\* replacement, but for what its user asks and what the retention of a later
\* replacement takes (history/repository.rs prune, commands/history.rs:1430).
THEOREM KeptStayHolds == Spec => KeptStay
<1>1. IInv /\ [Next]_vars =>
        [\A v \in Committed : versions'[v] = None => MayGo(v)]_vars
  BY StepKeepsVersions
<1>2. (\A v \in Committed : versions'[v] = None => MayGo(v))
       => \A v \in Committed :
            LET d == versions[v].doc IN
            versions'[v] = None =>
               \/ v \notin Protecting /\ ~versions[v].marked
               \/ v \notin Protecting /\ (SetMarked(d) \/ DeleteVersion(d) \/ DeleteDocumentHistory(d))
               \/ versions[v].source # "manual" /\ PublishSnapshot(<<d, "locked">>)
  BY DEF MayGo
<1> QED
  BY <1>1, <1>2, AlwaysIInv, PTL DEF Spec, KeptStay
===============================================================================
