----------------------- MODULE HistoryReplacementProofs -----------------------
(***************************************************************************)
(* Proofs about HistoryReplacement, for any requests, scenes and bounds.   *)
(***************************************************************************)
EXTENDS HistoryReplacement, TLAPS


\* A replacement that runs: its record is where its phase says, its session's
\* scene is protected, and it has been renamed or not yet.
PhasesFollow ==
    process = "up" /\ task # None =>
        LET r == task.request IN
        /\ task.step \in ReplaceSteps
        /\ session # None /\ reply[r] = "none" /\ task.seen.scene \in Scenes
        /\ task.step \in {"protect", "begin"} => ops[r] = None
        /\ task.step \notin {"protect", "begin"} => ops[r] # None
        /\ task.step # "protect" => protected[r] = session.scene
        /\ task.step \in {"preparing", "protected", "intent_committed", "target_observed",
                          "target_published", "metadata_committed"} => ops[r].state = task.step
        /\ task.step \in {"rename", "sync", "record"} => ops[r].state = "target_observed"
        /\ task.step \in {"finalize", "forget", "identify"} => ops[r].state = "target_published"
        /\ task.step \in {"protect", "begin", "preparing", "protected", "intent_committed",
                          "target_observed", "rename"} => r \notin renamed
        /\ task.step \in {"sync", "record", "finalize", "forget", "identify", "target_published",
                          "metadata_committed"} => r \in held

\* A reconciliation works on an open record. What it is about to abort was not
\* renamed; what it is about to complete was in the drawing.
ReconciliationFollows ==
    process = "startup" /\ task # None =>
        LET r == task.request IN
        /\ task.step \in ReconcileSteps
        /\ r \in Incomplete /\ task.seen.scene \in Scenes
        /\ task.step \in {"restore", "settle"} => r \notin renamed
        /\ task.step \in {"repair", "reobserve", "describe", "final", "reopen", "replay"} =>
            task.seen.scene = Target[r] /\ r \in held

\* The list of a launch, and nothing runs while there is no process.
ListIsOpen ==
    /\ todo \subseteq Incomplete
    /\ process # "startup" => todo = {}
    /\ process = "down" => task = None
    /\ process # "up" => session = None

\* The identities that records and tasks have seen are the past of the file.
SeenIsPast ==
    /\ task # None => task.seen.ident <= file.ident
    /\ \A r \in Requests : ops[r] # None =>
        /\ ops[r].oldIdent <= file.ident
        /\ r \in renamed => ops[r].oldIdent < file.ident

\* What a record says of its target is so, and an open request whose target is
\* in the drawing has had it there.
RecordsStand ==
    \A r \in Requests : ops[r] # None =>
        /\ ops[r].target \in {NoScene, Target[r]}
        /\ ops[r].state \notin Terminal /\ ops[r].newIdent # 0 => ops[r].newScene = Target[r]
        /\ ops[r].state \notin Terminal /\ file.scene = Target[r] => r \in held

\* Only a recorded request renames, and none that is aborted has.
RenamedIsRecorded ==
    \A r \in renamed : ops[r] # None /\ ops[r].state # "aborted"

FailuresAreConflicts ==
    \A r \in Requests : reply[r] = "failed" /\ r \in renamed => ops[r].state = "conflict"

\* The edit is in the snapshot or in the version that protects a recorded
\* request; ...
EditsStored ==
    unsaved # NoScene =>
        recovery = unsaved \/ \E r \in Requests : ops[r] # None /\ protected[r] = unsaved

\* ... while a window shows the drawing, it is the scene shown or protected.
EditsShown ==
    unsaved # NoScene /\ session # None =>
        session.scene = unsaved \/ \E r \in Requests : ops[r] # None /\ protected[r] = unsaved

IInv ==
    /\ TypeOK
    /\ PhasesFollow
    /\ ReconciliationFollows
    /\ ListIsOpen
    /\ SeenIsPast
    /\ RecordsStand
    /\ RenamedIsRecorded
    /\ FailuresAreConflicts
    /\ EditsStored
    /\ EditsShown

-----------------------------------------------------------------------------
(* The operators. *)

LEMMA LinearIs ==
    /\ Linear[1] = "preparing" /\ Linear[2] = "protected" /\ Linear[3] = "intent_committed"
    /\ Linear[4] = "target_observed" /\ Linear[5] = "target_published"
    /\ Linear[6] = "metadata_committed" /\ Linear[7] = "completed"
BY DEF Linear

LEMMA OperationStatesAre ==
    OperationStates = {"preparing", "protected", "intent_committed", "target_observed",
                       "target_published", "metadata_committed", "completed",
                       "aborted", "conflict", "reconcile"}
<1>1. \A i \in 1..7 : i = 1 \/ i = 2 \/ i = 3 \/ i = 4 \/ i = 5 \/ i = 6 \/ i = 7
  OBVIOUS
<1>2. {Linear[i] : i \in 1..7} =
        {"preparing", "protected", "intent_committed", "target_observed",
         "target_published", "metadata_committed", "completed"}
  BY <1>1, LinearIs
<1> QED
  BY <1>2 DEF OperationStates

LEMMA NoneIsNoRecord ==
    (\A o \in Operation : o # None) /\ (\A t \in Task : t # None) /\ (\A s \in Session : s # None)
BY NoneAssumption

LEMMA TaskFacts ==
    ASSUME TypeOK, task # None
    PROVE  /\ task \in Task /\ task.request \in Requests
           /\ task.seen \in File /\ task.seen.ident \in 1..MaxWrites
           /\ task.step \in ReplaceSteps \cup ReconcileSteps
BY DEF TypeOK, Task, File

LEMMA FileFacts ==
    ASSUME TypeOK
    PROVE  /\ file.scene \in Scenes \cup {NoScene} /\ file.ident \in 1..MaxWrites
           /\ file.ident \in Nat /\ file.ident > 0
BY BoundsAssumption DEF TypeOK, File

LEMMA OperationFacts ==
    ASSUME TypeOK, NEW r \in Requests, ops[r] # None
    PROVE  /\ ops[r] \in Operation /\ ops[r].state \in OperationStates
           /\ ops[r].oldIdent \in 1..MaxWrites /\ ops[r].newIdent \in 0..MaxWrites
           /\ ops[r].newScene \in Scenes \cup {NoScene}
BY DEF TypeOK, Operation

LEMMA StepFacts ==
    ASSUME TypeOK, task # None, NEW s \in ReplaceSteps \cup ReconcileSteps, Step(s)
    PROVE  /\ task' \in Task /\ task' # None
           /\ task'.step = s /\ task'.request = task.request /\ task'.seen = task.seen
<1>1. task \in Task
  BY TaskFacts
<1>2. [task EXCEPT !.step = s] \in Task
  BY <1>1 DEF Task
<1> QED
  BY <1>1, <1>2, NoneIsNoRecord DEF Step, Task

LEMMA TransitionFacts ==
    ASSUME TypeOK, NEW r \in Requests, ops[r] # None, NEW to \in OperationStates, Transition(r, to)
    PROVE  /\ ops' \in [Requests -> Operation \cup {None}]
           /\ ops'[r] # None /\ ops'[r].state = to
           /\ ops'[r].oldScene = ops[r].oldScene /\ ops'[r].oldIdent = ops[r].oldIdent
           /\ ops'[r].target = ops[r].target
           /\ ops'[r].newScene = ops[r].newScene /\ ops'[r].newIdent = ops[r].newIdent
           /\ \A q \in Requests : q # r => ops'[q] = ops[q]
<1>1. ops[r] \in Operation
  BY OperationFacts
<1>2. [ops[r] EXCEPT !.state = to] \in Operation
  BY <1>1 DEF Operation
<1> QED
  BY <1>1, <1>2, NoneIsNoRecord DEF TypeOK, Transition, Operation

\* A best effort either does nothing or moves an open record.
LEMMA BestEffortFacts ==
    ASSUME TypeOK, NEW r \in Requests, NEW to \in {"aborted", "conflict", "reconcile"},
           BestEffort(r, to)
    PROVE  /\ ops' \in [Requests -> Operation \cup {None}]
           /\ \A q \in Requests : q # r => ops'[q] = ops[q]
           /\ \/ ops'[r] = ops[r]
              \/ /\ ops[r] # None /\ ops[r].state \notin Terminal
                 /\ ops'[r] # None /\ ops'[r].state = to
                 /\ ops'[r].oldScene = ops[r].oldScene /\ ops'[r].oldIdent = ops[r].oldIdent
                 /\ ops'[r].target = ops[r].target
                 /\ ops'[r].newScene = ops[r].newScene /\ ops'[r].newIdent = ops[r].newIdent
<1>1. CASE ops' = ops
  BY <1>1 DEF TypeOK
<1>2. CASE CanTransition(r, to) /\ Transition(r, to)
  <2>1. ops[r] # None /\ to \in OperationStates
    BY <1>2 DEF CanTransition, OperationStates
  <2>2. CASE ops[r].state = to
    <3>1. ops[r] \in Operation
      BY <2>1, OperationFacts
    <3>2. [ops[r] EXCEPT !.state = to] = ops[r]
      BY <2>2, <3>1 DEF Operation
    <3> QED
      BY <1>2, <3>2 DEF Transition, TypeOK
  <2>3. CASE ops[r].state # to
    <3>1. IsAllowedTransition(ops[r].state, to)
      BY <1>2, <2>3 DEF CanTransition
    <3>2. \A i \in 1..6 : to # Linear[i + 1]
      <4>1. \A i \in 1..6 : i = 1 \/ i = 2 \/ i = 3 \/ i = 4 \/ i = 5 \/ i = 6
        OBVIOUS
      <4> QED
        BY <4>1, LinearIs
    <3>3. \A i \in 4..7 : to # Linear[i]
      <4>1. \A i \in 4..7 : i = 4 \/ i = 5 \/ i = 6 \/ i = 7
        OBVIOUS
      <4> QED
        BY <4>1, LinearIs
    <3>4. ops[r].state \notin Terminal
      BY <3>1, <3>2, <3>3 DEF IsAllowedTransition
    <3> QED
      BY <1>2, <2>1, <3>4, TransitionFacts
  <2> QED
    BY <2>2, <2>3
<1> QED
  BY <1>1, <1>2 DEF BestEffort

LEMMA AnswerFacts ==
    ASSUME TypeOK, session # None, NEW r \in Requests,
           NEW what \in {"completed", "pending", "failed"}, Answer(r, what)
    PROVE  /\ task' = None
           /\ reply' \in [Requests -> {"none", "completed", "pending", "failed"}]
           /\ reply'[r] = what /\ \A q \in Requests : q # r => reply'[q] = reply[q]
           /\ session' \in Session
           /\ session'.scene = IF what = "completed" THEN Target[r] ELSE session.scene
<1>1. session \in Session
  BY DEF TypeOK
<1>2. Target[r] \in Scenes
  BY TargetAssumption
<1>3. CASE what = "completed"
  BY <1>2, <1>3 DEF Answer, Session, TypeOK
<1>4. CASE what # "completed"
  <2> DEFINE p == IF what = "pending" THEN r ELSE None
  <2>1. session' = [session EXCEPT !.pending = p]
    BY <1>4 DEF Answer
  <2>2. p \in Requests \cup {None}
    OBVIOUS
  <2> HIDE DEF p
  <2>3. session' \in Session /\ session'.scene = session.scene
    BY <1>1, <2>1, <2>2 DEF Session
  <2> QED
    BY <1>4, <2>3 DEF Answer, TypeOK
<1> QED
  BY <1>3, <1>4

LEMMA WriteFacts ==
    ASSUME IInv, NEW s \in Scenes \cup {NoScene}, Writable, Write(s)
    PROVE  /\ file' \in File /\ file'.scene = s /\ file'.ident = file.ident + 1
           /\ held' \subseteq Requests /\ held \subseteq held'
           /\ \A r \in Requests : ops[r] # None /\ ops[r].state \notin Terminal /\ Target[r] = s
                => r \in held'
<1>1. file.ident \in 1..MaxWrites /\ file.ident + 1 \in 1..MaxWrites
  BY FileFacts, BoundsAssumption DEF IInv, Writable
<1>2. file' \in File /\ file'.scene = s /\ file'.ident = file.ident + 1
  BY <1>1 DEF Write, Written, File
<1> QED
  BY <1>2 DEF IInv, TypeOK, Write, Incomplete

-----------------------------------------------------------------------------
LEMMA InitHolds == Init => IInv
<1> SUFFICES ASSUME Init PROVE IInv
  OBVIOUS
<1>1. 1 \in 1..MaxWrites /\ 0 \in 0..MaxExternal /\ 0 \in 0..MaxCrashes
  BY BoundsAssumption
<1>2. TypeOK
  <2>1. file \in File /\ draft \in Draft /\ identity \in File
    BY <1>1 DEF Init, File, Draft
  <2> QED
    BY <1>1, <2>1 DEF Init, TypeOK
<1>3. PhasesFollow /\ ReconciliationFollows /\ ListIsOpen
  BY DEF Init, PhasesFollow, ReconciliationFollows, ListIsOpen
<1>4. SeenIsPast /\ RecordsStand /\ RenamedIsRecorded /\ FailuresAreConflicts
  BY DEF Init, SeenIsPast, RecordsStand, RenamedIsRecorded, FailuresAreConflicts
<1>5. EditsStored /\ EditsShown
  BY DEF Init, EditsStored, EditsShown
<1> QED
  BY <1>2, <1>3, <1>4, <1>5 DEF IInv

-----------------------------------------------------------------------------
(* The window's document, and other programs. *)

\* Users' steps come when nothing runs, and leave the records as they are.
LEMMA IdleKeeps ==
    ASSUME IInv, Free, TypeOK',
           UNCHANGED <<protected, ops, process, todo, task, renamed>>,
           held \subseteq held', file'.ident >= file.ident,
           \A r \in Requests : ops[r] # None /\ ops[r].state \notin Terminal
                               /\ file'.scene = Target[r] => r \in held',
           \A r \in Requests : reply'[r] = "failed" /\ reply[r] # "failed" =>
               ops[r].state \in {"aborted", "conflict"},
           EditsStored', EditsShown'
    PROVE  IInv'
<1>1. process = "up" /\ task = None
  BY DEF Free
<1>2. PhasesFollow' /\ ReconciliationFollows'
  BY <1>1 DEF PhasesFollow, ReconciliationFollows
<1>3. ListIsOpen'
  BY <1>1 DEF IInv, ListIsOpen, Incomplete
<1>4. SeenIsPast'
  <2>1. file.ident \in Nat /\ file'.ident \in Nat
    BY FileFacts DEF IInv, TypeOK, File
  <2>2. ASSUME NEW r \in Requests, ops[r] # None
        PROVE  ops[r].oldIdent <= file'.ident /\ (r \in renamed => ops[r].oldIdent < file'.ident)
    <3>1. ops[r].oldIdent \in Nat
      BY <2>2, OperationFacts, BoundsAssumption DEF IInv
    <3>2. ops[r].oldIdent <= file.ident /\ (r \in renamed => ops[r].oldIdent < file.ident)
      BY <2>2 DEF IInv, SeenIsPast
    <3> QED
      BY <2>1, <3>1, <3>2
  <2> QED
    BY <1>1, <2>2 DEF SeenIsPast
<1>5. RecordsStand'
  BY DEF IInv, RecordsStand
<1>6. RenamedIsRecorded' /\ FailuresAreConflicts'
  BY DEF IInv, RenamedIsRecorded, FailuresAreConflicts
<1> QED
  BY <1>2, <1>3, <1>4, <1>5, <1>6 DEF IInv

LEMMA OpenKeeps == IInv /\ Open => IInv'
<1> SUFFICES ASSUME IInv, Open PROVE IInv'
  OBVIOUS
<1>1. /\ Free /\ file.scene \in Scenes
      /\ session' = [scene |-> file.scene, base |-> file.scene, pending |-> None]
      /\ unsaved' = NoScene
      /\ UNCHANGED <<file, draft, recovery, protected, ops, identity, process, todo, task, reply,
                     external, crashes, renamed, held>>
  BY FileFacts DEF IInv, Open, durable
<1>2. session' \in Session
  BY <1>1 DEF Session
<1>3. TypeOK'
  BY <1>1, <1>2 DEF IInv, TypeOK
<1>4. EditsStored' /\ EditsShown'
  BY <1>1 DEF EditsStored, EditsShown
<1>5. file'.ident >= file.ident
  BY <1>1, FileFacts DEF IInv
<1> QED
  BY <1>1, <1>3, <1>4, <1>5, IdleKeeps DEF IInv, RecordsStand

LEMMA CloseKeeps == IInv /\ Close => IInv'
<1> SUFFICES ASSUME IInv, Close PROVE IInv'
  OBVIOUS
<1>1. /\ Free /\ session' = None /\ unsaved' = NoScene
      /\ recovery' \in {NoScene, recovery}
      /\ UNCHANGED <<file, draft, protected, ops, identity, process, todo, task, reply,
                     external, crashes, renamed, held>>
  BY DEF Close, Editing
<1>2. TypeOK'
  BY <1>1 DEF IInv, TypeOK
<1>3. EditsStored' /\ EditsShown'
  BY <1>1 DEF EditsStored, EditsShown
<1>4. file'.ident >= file.ident
  BY <1>1, FileFacts DEF IInv
<1> QED
  BY <1>1, <1>2, <1>3, <1>4, IdleKeeps DEF IInv, RecordsStand

LEMMA SaveDraftKeeps == IInv /\ SaveDraft => IInv'
<1> SUFFICES ASSUME IInv, SaveDraft PROVE IInv'
  OBVIOUS
<1>1. PICK s \in Scenes : /\ session' = [session EXCEPT !.scene = s]
                          /\ draft' = [scene |-> s, base |-> draft.base, dirty |-> TRUE]
                          /\ recovery' = s /\ unsaved' = s
  BY DEF SaveDraft
<1>2. /\ Free /\ session # None
      /\ UNCHANGED <<file, protected, ops, identity, process, todo, task, reply,
                     external, crashes, renamed, held>>
  BY DEF SaveDraft, Editing
<1>3. session' \in Session /\ session'.scene = s /\ draft' \in Draft
  BY <1>1, <1>2 DEF IInv, TypeOK, Session, Draft
<1>4. TypeOK'
  BY <1>1, <1>2, <1>3 DEF IInv, TypeOK
<1>5. EditsStored' /\ EditsShown'
  BY <1>1, <1>3 DEF EditsStored, EditsShown
<1>6. file'.ident >= file.ident
  BY <1>2, FileFacts DEF IInv
<1> QED
  BY <1>2, <1>4, <1>5, <1>6, IdleKeeps DEF IInv, RecordsStand

LEMMA CheckpointKeeps == IInv /\ Checkpoint => IInv'
<1> SUFFICES ASSUME IInv, Checkpoint PROVE IInv'
  OBVIOUS
<1> DEFINE s == session.scene
<1>1. /\ Free /\ session # None /\ Writable /\ Write(s)
      /\ draft' = [scene |-> s, base |-> s, dirty |-> FALSE]
      /\ identity' = Written(s)
      /\ session' = [session EXCEPT !.base = s]
      /\ unsaved' = NoScene
      /\ UNCHANGED <<recovery, protected, ops, process, todo, task, reply, external, crashes, renamed>>
  BY DEF Checkpoint, Editing
<1>2. s \in Scenes /\ session' \in Session /\ draft' \in Draft
  BY <1>1 DEF IInv, TypeOK, Session, Draft
<1>3. /\ file' \in File /\ file'.scene = s /\ file'.ident = file.ident + 1
      /\ held' \subseteq Requests /\ held \subseteq held'
      /\ \A r \in Requests : ops[r] # None /\ ops[r].state \notin Terminal /\ Target[r] = s
            => r \in held'
  BY <1>1, <1>2, WriteFacts
<1>4. identity' \in File
  BY <1>1, <1>3 DEF Write
<1>5. TypeOK'
  BY <1>1, <1>2, <1>3, <1>4 DEF IInv, TypeOK
<1>6. EditsStored' /\ EditsShown'
  BY <1>1 DEF EditsStored, EditsShown
<1>7. file'.ident >= file.ident
  BY <1>3, FileFacts DEF IInv
<1> QED
  BY <1>1, <1>3, <1>5, <1>6, <1>7, IdleKeeps

LEMMA OperationStatusKeeps ==
    ASSUME IInv, NEW r \in Requests, OperationStatus(r)
    PROVE  IInv'
<1> DEFINE p == IF session.pending = r /\ AnswerOf(r) # "pending" THEN None ELSE session.pending
<1>1. /\ Free /\ session # None /\ ops[r] # None
      /\ reply' = [reply EXCEPT ![r] = AnswerOf(r)]
      /\ session' = [session EXCEPT !.pending = p]
      /\ UNCHANGED <<file, draft, recovery, protected, ops, identity, process, todo, task,
                     external, crashes, renamed, held, unsaved>>
  BY DEF OperationStatus, durable, counters
<1>2. session \in Session /\ p \in Requests \cup {None}
  BY <1>1 DEF IInv, TypeOK, Session
<1> HIDE DEF p
<1>3. session' \in Session /\ session'.scene = session.scene
  BY <1>1, <1>2 DEF Session
<1>4. /\ AnswerOf(r) \in {"completed", "failed", "pending"}
      /\ AnswerOf(r) = "failed" => ops[r].state \in {"aborted", "conflict"}
  BY DEF AnswerOf
<1>5. TypeOK'
  BY <1>1, <1>3, <1>4 DEF IInv, TypeOK
<1>6. EditsStored' /\ EditsShown'
  BY <1>1, <1>3 DEF IInv, EditsStored, EditsShown
<1>7. file'.ident >= file.ident
  BY <1>1, FileFacts DEF IInv
<1>8. \A q \in Requests : reply'[q] = "failed" /\ reply[q] # "failed" =>
        ops[q].state \in {"aborted", "conflict"}
  BY <1>1, <1>4 DEF IInv, TypeOK
<1> QED
  BY <1>1, <1>5, <1>6, <1>7, <1>8, IdleKeeps DEF IInv, RecordsStand

\* Another program writes the drawing whatever runs.
LEMMA ExternalWriteKeeps == IInv /\ ExternalWrite => IInv'
<1> SUFFICES ASSUME IInv, ExternalWrite PROVE IInv'
  OBVIOUS
<1>1. PICK s \in Scenes \cup {NoScene} : Write(s)
  BY DEF ExternalWrite
<1>2. /\ external < MaxExternal /\ Writable /\ external' = external + 1
      /\ UNCHANGED <<draft, recovery, protected, ops, identity, process, todo, task, session, reply,
                     crashes, renamed, unsaved>>
  BY DEF ExternalWrite, volatile
<1>3. /\ file' \in File /\ file'.scene = s /\ file'.ident = file.ident + 1
      /\ held' \subseteq Requests /\ held \subseteq held'
      /\ \A r \in Requests : ops[r] # None /\ ops[r].state \notin Terminal /\ Target[r] = s
            => r \in held'
  BY <1>1, <1>2, WriteFacts
<1>4. external' \in 0..MaxExternal
  BY <1>2, BoundsAssumption DEF IInv, TypeOK
<1>5. TypeOK'
  BY <1>2, <1>3, <1>4 DEF IInv, TypeOK
<1>6. PhasesFollow'
  BY <1>2, <1>3 DEF IInv, PhasesFollow
<1>7. ReconciliationFollows'
  BY <1>2, <1>3 DEF IInv, ReconciliationFollows, Incomplete
<1>8. ListIsOpen'
  BY <1>2 DEF IInv, ListIsOpen, Incomplete
<1>9. SeenIsPast'
  <2>1. file.ident \in Nat
    BY FileFacts DEF IInv
  <2>2. task # None => task.seen.ident \in Nat
    BY TaskFacts, BoundsAssumption DEF IInv
  <2>3. \A r \in Requests : ops[r] # None => ops[r].oldIdent \in Nat
    BY OperationFacts, BoundsAssumption DEF IInv
  <2> QED
    BY <1>2, <1>3, <2>1, <2>2, <2>3 DEF IInv, SeenIsPast
<1>10. RecordsStand'
  BY <1>2, <1>3 DEF IInv, RecordsStand
<1>11. RenamedIsRecorded' /\ FailuresAreConflicts' /\ EditsStored' /\ EditsShown'
  BY <1>2 DEF IInv, RenamedIsRecorded, FailuresAreConflicts, EditsStored, EditsShown
<1> QED
  BY <1>5, <1>6, <1>7, <1>8, <1>9, <1>10, <1>11 DEF IInv

-----------------------------------------------------------------------------
(* The phases of a replacement. *)

LEMMA ReplaceKeeps ==
    ASSUME IInv, NEW r \in Requests, Replace(r)
    PROVE  IInv'
<1>1. /\ process = "up" /\ task = None /\ session # None
      /\ ops[r] = None /\ reply[r] = "none" /\ session.base = file.scene
      /\ task' = [request |-> r, step |-> "protect", seen |-> file]
      /\ session' = [session EXCEPT !.pending = r]
      /\ UNCHANGED <<file, draft, recovery, protected, ops, identity, process, todo, reply,
                     external, crashes, renamed, held, unsaved>>
  BY DEF Replace, Editing, Free, BaseIsCurrent, durable, counters
<1>2. session' \in Session /\ session' # None /\ session'.scene = session.scene
  BY <1>1, NoneIsNoRecord DEF IInv, TypeOK, Session
<1>3. task' \in Task
  BY <1>1 DEF IInv, TypeOK, Task, ReplaceSteps
<1>4. TypeOK'
  BY <1>1, <1>2, <1>3 DEF IInv, TypeOK
<1>5. r \notin renamed
  BY <1>1 DEF IInv, RenamedIsRecorded
<1>6. PhasesFollow'
  <2>1. session.base \in Scenes
    BY <1>1 DEF IInv, TypeOK, Session
  <2> QED
    BY <1>1, <1>2, <1>5, <2>1 DEF PhasesFollow, ReplaceSteps
<1>7. ReconciliationFollows' /\ ListIsOpen'
  BY <1>1 DEF IInv, ReconciliationFollows, ListIsOpen, Incomplete
<1>8. SeenIsPast'
  <2>1. file.ident \in Nat
    BY FileFacts DEF IInv
  <2>2. task'.seen = file
    BY <1>1
  <2> QED
    BY <1>1, <2>1, <2>2 DEF IInv, SeenIsPast
<1>9. RecordsStand' /\ RenamedIsRecorded' /\ FailuresAreConflicts'
  BY <1>1 DEF IInv, RecordsStand, RenamedIsRecorded, FailuresAreConflicts
<1>10. EditsStored' /\ EditsShown'
  BY <1>1, <1>2 DEF IInv, EditsStored, EditsShown
<1> QED
  BY <1>4, <1>6, <1>7, <1>8, <1>9, <1>10 DEF IInv

\* What a phase leaves when it only moves on, perhaps storing something that no
\* record depends on.
LEMMA PhaseKeeps ==
    ASSUME IInv, process = "up", task # None, TypeOK', PhasesFollow', EditsStored',
           task' # None, task'.request = task.request, task'.seen = task.seen,
           UNCHANGED <<file, ops, process, todo, session, reply, renamed, held, unsaved>>,
           \A q \in Requests : ops[q] # None => protected'[q] = protected[q]
    PROVE  IInv'
<1>1. ReconciliationFollows' /\ ListIsOpen'
  BY DEF IInv, ReconciliationFollows, ListIsOpen, Incomplete
<1>2. SeenIsPast' /\ RecordsStand' /\ RenamedIsRecorded' /\ FailuresAreConflicts'
  BY DEF IInv, SeenIsPast, RecordsStand, RenamedIsRecorded, FailuresAreConflicts
<1>3. EditsShown'
  BY DEF IInv, EditsShown
<1> QED
  BY <1>1, <1>2, <1>3 DEF IInv

LEMMA PublishProtectionKeeps == IInv /\ PublishProtection => IInv'
<1> SUFFICES ASSUME IInv, PublishProtection PROVE IInv'
  OBVIOUS
<1> DEFINE r == task.request
<1>1. /\ process = "up" /\ task # None /\ task.step = "protect"
      /\ protected' = [protected EXCEPT ![r] = session.scene]
      /\ Step("begin")
      /\ UNCHANGED <<file, draft, recovery, ops, identity, process, todo, session, reply,
                     external, crashes, renamed, held, unsaved>>
  BY DEF PublishProtection, Running, counters
<1>2. /\ r \in Requests /\ session # None /\ ops[r] = None /\ reply[r] = "none" /\ r \notin renamed
      /\ task.seen.scene \in Scenes
  BY <1>1, TaskFacts DEF IInv, PhasesFollow
<1>3. session.scene \in Scenes
  BY <1>2 DEF IInv, TypeOK, Session
<1>4. /\ task' \in Task /\ task' # None
      /\ task'.step = "begin" /\ task'.request = r /\ task'.seen = task.seen
  BY <1>1, StepFacts DEF IInv, ReplaceSteps
<1>5. /\ protected' \in [Requests -> Scenes \cup {NoScene}] /\ protected'[r] = session.scene
      /\ \A q \in Requests : q # r => protected'[q] = protected[q]
  BY <1>1, <1>2, <1>3 DEF IInv, TypeOK
<1>6. TypeOK'
  BY <1>1, <1>4, <1>5 DEF IInv, TypeOK
<1>7. PhasesFollow'
  BY <1>1, <1>2, <1>4, <1>5 DEF PhasesFollow, ReplaceSteps
<1>8. EditsStored'
  BY <1>1, <1>2, <1>5 DEF IInv, EditsStored
<1> QED
  BY <1>1, <1>2, <1>4, <1>5, <1>6, <1>7, <1>8, PhaseKeeps

LEMMA BeginOperationKeeps == IInv /\ BeginOperation => IInv'
<1> SUFFICES ASSUME IInv, BeginOperation PROVE IInv'
  OBVIOUS
<1> DEFINE r == task.request
           new == [state |-> "preparing", oldScene |-> task.seen.scene, oldIdent |-> task.seen.ident,
                   target |-> NoScene, newScene |-> NoScene, newIdent |-> 0]
<1>1. /\ process = "up" /\ task # None /\ task.step = "begin"
      /\ ops' = [ops EXCEPT ![r] = new]
      /\ held' = held \cup {x \in {r} : Target[r] = file.scene}
      /\ Step("preparing")
      /\ UNCHANGED <<file, draft, recovery, protected, identity, process, todo, session, reply,
                     external, crashes, renamed, unsaved>>
  BY DEF BeginOperation, Running
<1>2. /\ r \in Requests /\ session # None /\ ops[r] = None /\ reply[r] = "none" /\ r \notin renamed
      /\ protected[r] = session.scene /\ task.seen.scene \in Scenes
  BY <1>1, TaskFacts DEF IInv, PhasesFollow

<1>3. new \in Operation
  <2>1. "preparing" \in OperationStates
    BY OperationStatesAre
  <2>2. 0 \in 0..MaxWrites
    BY BoundsAssumption
  <2> QED
    BY <1>1, <1>2, <2>1, <2>2, TaskFacts DEF IInv, Operation
<1>4. /\ ops' \in [Requests -> Operation \cup {None}]
      /\ ops'[r] = new /\ new # None
      /\ \A q \in Requests : q # r => ops'[q] = ops[q]
  BY <1>1, <1>2, <1>3, NoneIsNoRecord DEF IInv, TypeOK
<1>5. /\ task' \in Task /\ task' # None
      /\ task'.step = "preparing" /\ task'.request = r /\ task'.seen = task.seen
  BY <1>1, StepFacts DEF IInv, ReplaceSteps
<1>6. /\ held \subseteq held' /\ held' \subseteq Requests
      /\ Target[r] = file.scene => r \in held'
  BY <1>1, <1>2 DEF IInv, TypeOK
<1>7. TypeOK'
  BY <1>1, <1>4, <1>5, <1>6 DEF IInv, TypeOK
<1>8. PhasesFollow'
  BY <1>1, <1>2, <1>4, <1>5 DEF PhasesFollow, ReplaceSteps
<1>9. ReconciliationFollows' /\ ListIsOpen'
  BY <1>1 DEF IInv, ReconciliationFollows, ListIsOpen
<1>10. SeenIsPast'
  BY <1>1, <1>2, <1>4, <1>5 DEF IInv, SeenIsPast
<1>11. RecordsStand'
  BY <1>1, <1>2, <1>4, <1>6 DEF IInv, RecordsStand
<1>12. RenamedIsRecorded' /\ FailuresAreConflicts'
  BY <1>1, <1>2, <1>4 DEF IInv, TypeOK, RenamedIsRecorded, FailuresAreConflicts
<1>13. EditsStored' /\ EditsShown'
  BY <1>1, <1>2, <1>4 DEF IInv, EditsStored, EditsShown
<1> QED
  BY <1>7, <1>8, <1>9, <1>10, <1>11, <1>12, <1>13 DEF IInv

\* The record of the running request moves within the open states; nothing but
\* the record and the task changes.
LEMMA RecordMoves ==
    ASSUME IInv, process = "up", task # None, TypeOK', PhasesFollow',
           task' # None, task'.seen = task.seen,
           ops[task.request] # None, ops'[task.request] # None,
           ops[task.request].state \notin Terminal, ops'[task.request].state \notin Terminal,
           ops'[task.request].oldIdent = ops[task.request].oldIdent,
           ops'[task.request].target \in {ops[task.request].target, Target[task.request]},
           \/ ops'[task.request].newScene = Target[task.request]
           \/ /\ ops'[task.request].newScene = ops[task.request].newScene
              /\ ops'[task.request].newIdent = ops[task.request].newIdent,
           \A q \in Requests : q # task.request => ops'[q] = ops[q],
           UNCHANGED <<file, draft, recovery, protected, identity, process, todo, session, reply,
                       external, crashes, renamed, held, unsaved>>
    PROVE  IInv'
<1> DEFINE r == task.request
<1>1. r \in Requests
  BY TaskFacts DEF IInv
<1>2. ReconciliationFollows' /\ ListIsOpen'
  BY DEF IInv, ReconciliationFollows, ListIsOpen
<1>3. SeenIsPast'
  BY <1>1 DEF IInv, SeenIsPast
<1>4. RecordsStand'
  BY <1>1 DEF IInv, RecordsStand
<1>5. RenamedIsRecorded'
  BY <1>1 DEF IInv, TypeOK, RenamedIsRecorded, Terminal
<1>6. FailuresAreConflicts'
  BY <1>1 DEF IInv, FailuresAreConflicts, PhasesFollow
<1>7. EditsStored' /\ EditsShown'
  BY <1>1 DEF IInv, EditsStored, EditsShown
<1> QED
  BY <1>2, <1>3, <1>4, <1>5, <1>6, <1>7 DEF IInv

\* What is known of a task between two of its phases.
LEMMA PhaseFacts ==
    ASSUME IInv, NEW s \in ReplaceSteps \ {"protect", "begin"}, Running(s)
    PROVE  /\ process = "up" /\ task # None /\ task.step = s
           /\ task.request \in Requests /\ task \in Task
           /\ session # None /\ reply[task.request] = "none" /\ task.seen.scene \in Scenes
           /\ protected[task.request] = session.scene
           /\ ops[task.request] # None /\ ops[task.request].state \notin Terminal
           /\ ops[task.request] \in Operation
<1>1. /\ process = "up" /\ task # None /\ task.step = s
  BY DEF Running
<1>2. task.request \in Requests /\ task \in Task
  BY <1>1, TaskFacts DEF IInv
<1>3. /\ session # None /\ reply[task.request] = "none" /\ task.seen.scene \in Scenes
      /\ protected[task.request] = session.scene
      /\ ops[task.request] # None /\ ops[task.request].state \notin Terminal
  BY <1>1 DEF IInv, PhasesFollow, ReplaceSteps, Terminal
<1> QED
  BY <1>1, <1>2, <1>3, OperationFacts DEF IInv

LEMMA AdvanceKeeps == IInv /\ Advance => IInv'
<1> SUFFICES ASSUME IInv, Advance PROVE IInv'
  OBVIOUS
<1> DEFINE r == task.request
<1>1. PICK i \in 1..3 :
        /\ Running(Linear[i])
        /\ ops' = [ops EXCEPT ![r].state = Linear[i + 1],
                              ![r].target = IF i = 2 THEN Target[r] ELSE @]
        /\ Step(Linear[i + 1])
  BY DEF Advance
<1>2. UNCHANGED <<file, draft, recovery, protected, identity, process, todo, session, reply,
                  external, crashes, renamed, held, unsaved>>
  BY DEF Advance, counters
<1> DEFINE from == Linear[i]
           to == Linear[i + 1]
           t == IF i = 2 THEN Target[r] ELSE ops[r].target
<1>3. /\ from \in {"preparing", "protected", "intent_committed"}
      /\ to \in {"protected", "intent_committed", "target_observed"}
  <2>1. i = 1 \/ i = 2 \/ i = 3
    BY <1>1
  <2> QED
    BY <2>1, LinearIs
<1>4. Running(from) /\ Step(to) /\ ops' = [ops EXCEPT ![r].state = to, ![r].target = t]
  BY <1>1
<1>5. from \in ReplaceSteps \ {"protect", "begin"} /\ to \in ReplaceSteps /\ to \in OperationStates
  BY <1>3, OperationStatesAre DEF ReplaceSteps
<1> HIDE DEF from, to
<1>6. /\ process = "up" /\ task # None /\ task.step = from /\ r \in Requests
      /\ session # None /\ reply[r] = "none" /\ task.seen.scene \in Scenes
      /\ protected[r] = session.scene
      /\ ops[r] # None /\ ops[r].state \notin Terminal /\ ops[r] \in Operation
  BY <1>4, <1>5, PhaseFacts
<1>7. r \notin renamed
  BY <1>3, <1>6 DEF IInv, PhasesFollow
<1>8. t \in Scenes \cup {NoScene} /\ t \in {ops[r].target, Target[r]}
  BY <1>6, TargetAssumption DEF Operation
<1> HIDE DEF t
<1>9. [ops[r] EXCEPT !.state = to, !.target = t] \in Operation
  BY <1>5, <1>6, <1>8 DEF Operation
<1>10. /\ ops' \in [Requests -> Operation \cup {None}]
       /\ ops'[r] # None /\ ops'[r].state = to /\ ops'[r].target = t
       /\ ops'[r].oldIdent = ops[r].oldIdent
       /\ ops'[r].newScene = ops[r].newScene /\ ops'[r].newIdent = ops[r].newIdent
       /\ \A q \in Requests : q # r => ops'[q] = ops[q]
  BY <1>4, <1>6, <1>9, NoneIsNoRecord DEF IInv, TypeOK, Operation
<1>11. /\ task' \in Task /\ task' # None
       /\ task'.step = to /\ task'.request = r /\ task'.seen = task.seen
  BY <1>4, <1>5, <1>6, StepFacts DEF IInv
<1>12. TypeOK'
  BY <1>2, <1>10, <1>11 DEF IInv, TypeOK
<1>13. PhasesFollow'
  BY <1>2, <1>3, <1>6, <1>7, <1>10, <1>11 DEF PhasesFollow, ReplaceSteps
<1>14. ops'[r].state \notin Terminal
  BY <1>3, <1>10 DEF Terminal
<1> QED
  BY <1>2, <1>6, <1>8, <1>10, <1>11, <1>12, <1>13, <1>14, RecordMoves

\* The running request is answered: its task ends, its record may have moved.
LEMMA AnswerKeeps ==
    ASSUME IInv, process = "up", task # None,
           NEW what \in {"completed", "pending", "failed"}, Answer(task.request, what),
           ops' \in [Requests -> Operation \cup {None}],
           \A q \in Requests : q # task.request => ops'[q] = ops[q],
           \/ ops'[task.request] = ops[task.request]
           \/ /\ ops[task.request] # None /\ ops[task.request].state \notin Terminal
              /\ ops'[task.request] # None
              /\ ops'[task.request].oldIdent = ops[task.request].oldIdent
              /\ ops'[task.request].target = ops[task.request].target
              /\ ops'[task.request].newScene = ops[task.request].newScene
              /\ ops'[task.request].newIdent = ops[task.request].newIdent
              /\ ops'[task.request].state = "aborted" => task.request \notin renamed,
           what = "failed" => task.request \notin renamed,
           what = "completed" => /\ ops[task.request] # None
                                 /\ protected[task.request] = session.scene,
           UNCHANGED <<file, draft, recovery, protected, identity, process, todo,
                       external, crashes, renamed, held, unsaved>>
    PROVE  IInv'
<1> DEFINE r == task.request
<1>1. r \in Requests /\ session # None
  BY TaskFacts DEF IInv, PhasesFollow
<1>2. /\ task' = None
      /\ reply' \in [Requests -> {"none", "completed", "pending", "failed"}]
      /\ reply'[r] = what /\ \A q \in Requests : q # r => reply'[q] = reply[q]
      /\ session' \in Session
      /\ session'.scene = IF what = "completed" THEN Target[r] ELSE session.scene
  BY <1>1, AnswerFacts DEF IInv
<1>3. TypeOK'
  BY <1>2 DEF IInv, TypeOK
<1>4. PhasesFollow' /\ ReconciliationFollows' /\ ListIsOpen'
  BY <1>2 DEF IInv, PhasesFollow, ReconciliationFollows, ListIsOpen
<1>5. SeenIsPast'
  BY <1>1, <1>2 DEF IInv, SeenIsPast
<1>6. RecordsStand'
  BY <1>1 DEF IInv, RecordsStand
<1>7. RenamedIsRecorded'
  BY <1>1 DEF IInv, TypeOK, RenamedIsRecorded
<1>8. FailuresAreConflicts'
  BY <1>1, <1>2 DEF IInv, FailuresAreConflicts
<1>9. EditsStored' /\ EditsShown'
  BY <1>1, <1>2 DEF IInv, EditsStored, EditsShown
<1> QED
  BY <1>3, <1>4, <1>5, <1>6, <1>7, <1>8, <1>9 DEF IInv

LEMMA FailBeforeRenameKeeps == IInv /\ FailBeforeRename => IInv'
<1> SUFFICES ASSUME IInv, FailBeforeRename PROVE IInv'
  OBVIOUS
<1> DEFINE r == task.request
<1>1. /\ process = "up" /\ task # None
      /\ task.step \in {"protect", "begin", "preparing", "protected", "intent_committed",
                        "target_observed", "rename"}
      /\ BestEffort(r, "aborted") /\ Answer(r, "failed")
      /\ UNCHANGED <<file, draft, recovery, protected, identity, process, todo,
                     external, crashes, renamed, held, unsaved>>
  BY DEF FailBeforeRename, Running, Abort, counters
<1>2. r \in Requests /\ r \notin renamed
  BY <1>1, TaskFacts DEF IInv, PhasesFollow
<1>3. /\ ops' \in [Requests -> Operation \cup {None}]
      /\ \A q \in Requests : q # r => ops'[q] = ops[q]
      /\ \/ ops'[r] = ops[r]
         \/ /\ ops[r] # None /\ ops[r].state \notin Terminal
            /\ ops'[r] # None /\ ops'[r].oldIdent = ops[r].oldIdent
            /\ ops'[r].target = ops[r].target
            /\ ops'[r].newScene = ops[r].newScene /\ ops'[r].newIdent = ops[r].newIdent
  BY <1>1, <1>2, BestEffortFacts DEF IInv
<1> QED
  BY <1>1, <1>2, <1>3, AnswerKeeps

LEMMA FailAfterRenameKeeps == IInv /\ FailAfterRename => IInv'
<1> SUFFICES ASSUME IInv, FailAfterRename PROVE IInv'
  OBVIOUS
<1> DEFINE r == task.request
<1>1. /\ process = "up" /\ task # None
      /\ BestEffort(r, "reconcile") /\ Answer(r, "pending")
      /\ UNCHANGED <<file, draft, recovery, protected, identity, process, todo,
                     external, crashes, renamed, held, unsaved>>
  BY DEF FailAfterRename, Running, MarkReconcile, counters
<1>2. r \in Requests
  BY <1>1, TaskFacts DEF IInv
<1>3. /\ ops' \in [Requests -> Operation \cup {None}]
      /\ \A q \in Requests : q # r => ops'[q] = ops[q]
      /\ \/ ops'[r] = ops[r]
         \/ /\ ops[r] # None /\ ops[r].state \notin Terminal
            /\ ops'[r] # None /\ ops'[r].state = "reconcile" /\ ops'[r].oldIdent = ops[r].oldIdent
            /\ ops'[r].target = ops[r].target
            /\ ops'[r].newScene = ops[r].newScene /\ ops'[r].newIdent = ops[r].newIdent
  BY <1>1, <1>2, BestEffortFacts DEF IInv
<1> QED
  BY <1>1, <1>2, <1>3, AnswerKeeps

LEMMA ValidateExpectedTargetKeeps == IInv /\ ValidateExpectedTarget => IInv'
<1> SUFFICES ASSUME IInv, ValidateExpectedTarget PROVE IInv'
  OBVIOUS
<1> DEFINE r == task.request
<1>1. /\ Running("target_observed")
      /\ UNCHANGED <<file, draft, recovery, protected, identity, process, todo,
                     external, crashes, renamed, held, unsaved>>
  BY DEF ValidateExpectedTarget, counters
<1>2. "target_observed" \in ReplaceSteps \ {"protect", "begin"} /\ "rename" \in ReplaceSteps
  BY DEF ReplaceSteps
<1>3. /\ process = "up" /\ task # None /\ task.step = "target_observed" /\ r \in Requests
      /\ session # None /\ reply[r] = "none" /\ task.seen.scene \in Scenes
      /\ protected[r] = session.scene /\ ops[r] # None
  BY <1>1, <1>2, PhaseFacts
<1>4. ops[r].state = "target_observed" /\ r \notin renamed
  BY <1>3 DEF IInv, PhasesFollow
<1>5. CASE Step("rename") /\ UNCHANGED <<ops, session, reply>>
  <2>1. /\ task' \in Task /\ task' # None
        /\ task'.step = "rename" /\ task'.request = r /\ task'.seen = task.seen
    BY <1>2, <1>3, <1>5, StepFacts DEF IInv
  <2>2. TypeOK'
    BY <1>1, <1>5, <2>1 DEF IInv, TypeOK
  <2>3. PhasesFollow'
    BY <1>1, <1>3, <1>4, <1>5, <2>1 DEF PhasesFollow, ReplaceSteps
  <2>4. EditsStored'
    BY <1>1, <1>5 DEF IInv, EditsStored
  <2> QED
    BY <1>1, <1>3, <1>5, <2>1, <2>2, <2>3, <2>4, PhaseKeeps
<1>6. CASE BestEffort(r, "conflict") /\ Answer(r, "failed")
  <2>1. /\ ops' \in [Requests -> Operation \cup {None}]
        /\ \A q \in Requests : q # r => ops'[q] = ops[q]
        /\ \/ ops'[r] = ops[r]
           \/ /\ ops[r] # None /\ ops[r].state \notin Terminal
              /\ ops'[r] # None /\ ops'[r].oldIdent = ops[r].oldIdent
              /\ ops'[r].target = ops[r].target
              /\ ops'[r].newScene = ops[r].newScene /\ ops'[r].newIdent = ops[r].newIdent
    BY <1>3, <1>6, BestEffortFacts DEF IInv
  <2> QED
    BY <1>1, <1>3, <1>4, <1>6, <2>1, AnswerKeeps
<1> QED
  BY <1>5, <1>6 DEF ValidateExpectedTarget

LEMMA RenameKeeps == IInv /\ Rename => IInv'
<1> SUFFICES ASSUME IInv, Rename PROVE IInv'
  OBVIOUS
<1> DEFINE r == task.request
<1>1. /\ Running("rename") /\ Writable /\ Write(Target[r]) /\ Step("sync")
      /\ renamed' = renamed \cup {r}
      /\ UNCHANGED <<draft, recovery, protected, ops, identity, process, todo, session, reply,
                     external, crashes, unsaved>>
  BY DEF Rename
<1>2. "rename" \in ReplaceSteps \ {"protect", "begin"} /\ "sync" \in ReplaceSteps
  BY DEF ReplaceSteps
<1>3. /\ process = "up" /\ task # None /\ task.step = "rename" /\ r \in Requests
      /\ session # None /\ reply[r] = "none" /\ task.seen.scene \in Scenes
      /\ protected[r] = session.scene /\ ops[r] # None /\ ops[r].state \notin Terminal
  BY <1>1, <1>2, PhaseFacts
<1>4. ops[r].state = "target_observed"
  BY <1>3 DEF IInv, PhasesFollow
<1>5. /\ file' \in File /\ file'.scene = Target[r] /\ file'.ident = file.ident + 1
      /\ held' \subseteq Requests /\ held \subseteq held'
      /\ \A q \in Requests : ops[q] # None /\ ops[q].state \notin Terminal /\ Target[q] = Target[r]
            => q \in held'
  BY <1>1, <1>3, TargetAssumption, WriteFacts
<1>6. /\ task' \in Task /\ task' # None
      /\ task'.step = "sync" /\ task'.request = r /\ task'.seen = task.seen
  BY <1>1, <1>2, <1>3, StepFacts DEF IInv
<1>7. TypeOK'
  BY <1>1, <1>3, <1>5, <1>6 DEF IInv, TypeOK
<1>8. PhasesFollow'
  BY <1>1, <1>3, <1>4, <1>5, <1>6 DEF PhasesFollow, ReplaceSteps
<1>9. ReconciliationFollows' /\ ListIsOpen'
  BY <1>1, <1>3 DEF IInv, ReconciliationFollows, ListIsOpen, Incomplete
<1>10. SeenIsPast'
  <2>1. file.ident \in Nat
    BY FileFacts DEF IInv
  <2>2. task.seen.ident \in Nat
    BY <1>3, TaskFacts, BoundsAssumption DEF IInv
  <2>3. \A q \in Requests : ops[q] # None => ops[q].oldIdent \in Nat
    BY OperationFacts, BoundsAssumption DEF IInv
  <2> QED
    BY <1>1, <1>3, <1>5, <1>6, <2>1, <2>2, <2>3 DEF IInv, SeenIsPast
<1>11. RecordsStand'
  BY <1>1, <1>5 DEF IInv, RecordsStand
<1>12. RenamedIsRecorded' /\ FailuresAreConflicts'
  BY <1>1, <1>3, <1>4 DEF IInv, RenamedIsRecorded, FailuresAreConflicts
<1>13. EditsStored' /\ EditsShown'
  BY <1>1 DEF IInv, EditsStored, EditsShown
<1> QED
  BY <1>7, <1>8, <1>9, <1>10, <1>11, <1>12, <1>13 DEF IInv

LEMMA SyncParentKeeps == IInv /\ SyncParent => IInv'
<1> SUFFICES ASSUME IInv, SyncParent PROVE IInv'
  OBVIOUS
<1> DEFINE r == task.request
<1>1. /\ Running("sync") /\ Step("record")
      /\ UNCHANGED <<file, draft, recovery, protected, ops, identity, process, todo, session, reply,
                     external, crashes, renamed, held, unsaved>>
  BY DEF SyncParent, durable, counters
<1>2. "sync" \in ReplaceSteps \ {"protect", "begin"} /\ "record" \in ReplaceSteps
  BY DEF ReplaceSteps
<1>3. /\ process = "up" /\ task # None /\ task.step = "sync" /\ r \in Requests
      /\ session # None /\ reply[r] = "none" /\ task.seen.scene \in Scenes
      /\ protected[r] = session.scene /\ ops[r] # None
  BY <1>1, <1>2, PhaseFacts
<1>4. ops[r].state = "target_observed" /\ r \in held
  BY <1>3 DEF IInv, PhasesFollow
<1>5. /\ task' \in Task /\ task' # None
      /\ task'.step = "record" /\ task'.request = r /\ task'.seen = task.seen
  BY <1>1, <1>2, <1>3, StepFacts DEF IInv
<1>6. TypeOK'
  BY <1>1, <1>5 DEF IInv, TypeOK
<1>7. PhasesFollow'
  BY <1>1, <1>3, <1>4, <1>5 DEF PhasesFollow, ReplaceSteps
<1>8. EditsStored'
  BY <1>1 DEF IInv, EditsStored
<1> QED
  BY <1>1, <1>3, <1>5, <1>6, <1>7, <1>8, PhaseKeeps

LEMMA MarkTargetPublishedKeeps == IInv /\ MarkTargetPublished => IInv'
<1> SUFFICES ASSUME IInv, MarkTargetPublished PROVE IInv'
  OBVIOUS
<1> DEFINE r == task.request
<1>1. /\ Running("record") /\ Step("finalize") /\ file.scene = Target[r]
      /\ ops' = [ops EXCEPT ![r].state = "target_published",
                            ![r].newScene = file.scene, ![r].newIdent = file.ident]
      /\ UNCHANGED <<file, draft, recovery, protected, identity, process, todo, session, reply,
                     external, crashes, renamed, held, unsaved>>
  BY DEF MarkTargetPublished, counters
<1>2. /\ "record" \in ReplaceSteps \ {"protect", "begin"} /\ "finalize" \in ReplaceSteps
      /\ "target_published" \in OperationStates
  BY OperationStatesAre DEF ReplaceSteps
<1>3. /\ process = "up" /\ task # None /\ task.step = "record" /\ r \in Requests
      /\ session # None /\ reply[r] = "none" /\ task.seen.scene \in Scenes
      /\ protected[r] = session.scene
      /\ ops[r] # None /\ ops[r].state \notin Terminal /\ ops[r] \in Operation
  BY <1>1, <1>2, PhaseFacts
<1>4. r \in held
  BY <1>3 DEF IInv, PhasesFollow
<1>5. file.ident \in 0..MaxWrites /\ file.scene \in Scenes \cup {NoScene}
  BY FileFacts, BoundsAssumption DEF IInv
<1>6. [ops[r] EXCEPT !.state = "target_published", !.newScene = file.scene,
                     !.newIdent = file.ident] \in Operation
  BY <1>2, <1>3, <1>5 DEF Operation
<1>7. /\ ops' \in [Requests -> Operation \cup {None}]
      /\ ops'[r] # None /\ ops'[r].state = "target_published" /\ ops'[r].target = ops[r].target
      /\ ops'[r].oldIdent = ops[r].oldIdent
      /\ ops'[r].newScene = file.scene
      /\ \A q \in Requests : q # r => ops'[q] = ops[q]
  BY <1>1, <1>3, <1>6, NoneIsNoRecord DEF IInv, TypeOK, Operation
<1>8. /\ task' \in Task /\ task' # None
      /\ task'.step = "finalize" /\ task'.request = r /\ task'.seen = task.seen
  BY <1>1, <1>2, <1>3, StepFacts DEF IInv
<1>9. TypeOK'
  BY <1>1, <1>7, <1>8 DEF IInv, TypeOK
<1>10. PhasesFollow'
  BY <1>1, <1>3, <1>4, <1>7, <1>8 DEF PhasesFollow, ReplaceSteps
<1>11. ops'[r].state \notin Terminal
  BY <1>7 DEF Terminal
<1> QED
  BY <1>1, <1>3, <1>7, <1>8, <1>9, <1>10, <1>11, RecordMoves

LEMMA FinalizeDraftKeeps == IInv /\ FinalizeDraft => IInv'
<1> SUFFICES ASSUME IInv, FinalizeDraft PROVE IInv'
  OBVIOUS
<1> DEFINE r == task.request
<1>1. /\ Running("finalize") /\ Step("forget") /\ NewStateMatches(r, file)
      /\ draft' = [scene |-> file.scene, base |-> file.scene, dirty |-> FALSE]
      /\ UNCHANGED <<file, recovery, protected, ops, identity, process, todo, session, reply,
                     external, crashes, renamed, held, unsaved>>
  BY DEF FinalizeDraft, counters
<1>2. "finalize" \in ReplaceSteps \ {"protect", "begin"} /\ "forget" \in ReplaceSteps
  BY DEF ReplaceSteps
<1>3. /\ process = "up" /\ task # None /\ task.step = "finalize" /\ r \in Requests
      /\ session # None /\ reply[r] = "none" /\ task.seen.scene \in Scenes
      /\ protected[r] = session.scene /\ ops[r] # None /\ ops[r] \in Operation
      /\ ops[r].state \notin Terminal
  BY <1>1, <1>2, PhaseFacts
<1>4. ops[r].state = "target_published" /\ r \in held
  BY <1>3 DEF IInv, PhasesFollow
<1>5. file.scene \in Scenes
  BY <1>1, <1>3, FileFacts, TargetAssumption DEF IInv, RecordsStand, NewStateMatches
<1>6. draft' \in Draft
  BY <1>1, <1>5 DEF Draft
<1>7. /\ task' \in Task /\ task' # None
      /\ task'.step = "forget" /\ task'.request = r /\ task'.seen = task.seen
  BY <1>1, <1>2, <1>3, StepFacts DEF IInv
<1>8. TypeOK'
  BY <1>1, <1>6, <1>7 DEF IInv, TypeOK
<1>9. PhasesFollow'
  BY <1>1, <1>3, <1>4, <1>7 DEF PhasesFollow, ReplaceSteps
<1>10. EditsStored'
  BY <1>1 DEF IInv, EditsStored
<1> QED
  BY <1>1, <1>3, <1>7, <1>8, <1>9, <1>10, PhaseKeeps

LEMMA FinalizeRecoveryKeeps == IInv /\ FinalizeRecovery => IInv'
<1> SUFFICES ASSUME IInv, FinalizeRecovery PROVE IInv'
  OBVIOUS
<1> DEFINE r == task.request
<1>1. /\ Running("forget") /\ Step("identify") /\ recovery' = NoScene
      /\ UNCHANGED <<file, draft, protected, ops, identity, process, todo, session, reply,
                     external, crashes, renamed, held, unsaved>>
  BY DEF FinalizeRecovery, counters
<1>2. "forget" \in ReplaceSteps \ {"protect", "begin"} /\ "identify" \in ReplaceSteps
  BY DEF ReplaceSteps
<1>3. /\ process = "up" /\ task # None /\ task.step = "forget" /\ r \in Requests
      /\ session # None /\ reply[r] = "none" /\ task.seen.scene \in Scenes
      /\ protected[r] = session.scene /\ ops[r] # None
  BY <1>1, <1>2, PhaseFacts
<1>4. ops[r].state = "target_published" /\ r \in held
  BY <1>3 DEF IInv, PhasesFollow
<1>5. /\ task' \in Task /\ task' # None
      /\ task'.step = "identify" /\ task'.request = r /\ task'.seen = task.seen
  BY <1>1, <1>2, <1>3, StepFacts DEF IInv
<1>6. TypeOK'
  BY <1>1, <1>5 DEF IInv, TypeOK
<1>7. PhasesFollow'
  BY <1>1, <1>3, <1>4, <1>5 DEF PhasesFollow, ReplaceSteps
<1>8. EditsStored'
  BY <1>1, <1>3 DEF IInv, EditsStored, EditsShown
<1> QED
  BY <1>1, <1>3, <1>5, <1>6, <1>7, <1>8, PhaseKeeps

LEMMA FinalizeIdentityKeeps == IInv /\ FinalizeIdentity => IInv'
<1> SUFFICES ASSUME IInv, FinalizeIdentity PROVE IInv'
  OBVIOUS
<1> DEFINE r == task.request
<1>1. /\ Running("identify") /\ Step("target_published")
      /\ identity' = [scene |-> draft.scene, ident |-> file.ident]
      /\ UNCHANGED <<file, draft, recovery, protected, ops, process, todo, session, reply,
                     external, crashes, renamed, held, unsaved>>
  BY DEF FinalizeIdentity, counters
<1>2. "identify" \in ReplaceSteps \ {"protect", "begin"} /\ "target_published" \in ReplaceSteps
  BY DEF ReplaceSteps
<1>3. /\ process = "up" /\ task # None /\ task.step = "identify" /\ r \in Requests
      /\ session # None /\ reply[r] = "none" /\ task.seen.scene \in Scenes
      /\ protected[r] = session.scene /\ ops[r] # None
  BY <1>1, <1>2, PhaseFacts
<1>4. ops[r].state = "target_published" /\ r \in held
  BY <1>3 DEF IInv, PhasesFollow
<1>5. identity' \in File
  BY <1>1, FileFacts DEF IInv, TypeOK, Draft, File
<1>6. /\ task' \in Task /\ task' # None
      /\ task'.step = "target_published" /\ task'.request = r /\ task'.seen = task.seen
  BY <1>1, <1>2, <1>3, StepFacts DEF IInv
<1>7. TypeOK'
  BY <1>1, <1>5, <1>6 DEF IInv, TypeOK
<1>8. PhasesFollow'
  BY <1>1, <1>3, <1>4, <1>6 DEF PhasesFollow, ReplaceSteps
<1>9. EditsStored'
  BY <1>1 DEF IInv, EditsStored
<1> QED
  BY <1>1, <1>3, <1>6, <1>7, <1>8, <1>9, PhaseKeeps

LEMMA CommitMetadataKeeps == IInv /\ CommitMetadata => IInv'
<1> SUFFICES ASSUME IInv, CommitMetadata PROVE IInv'
  OBVIOUS
<1> DEFINE r == task.request
<1>1. /\ Running("target_published") /\ Step("metadata_committed")
      /\ Transition(r, "metadata_committed")
      /\ UNCHANGED <<file, draft, recovery, protected, identity, process, todo, session, reply,
                     external, crashes, renamed, held, unsaved>>
  BY DEF CommitMetadata, counters
<1>2. /\ "target_published" \in ReplaceSteps \ {"protect", "begin"}
      /\ "metadata_committed" \in ReplaceSteps /\ "metadata_committed" \in OperationStates
  BY OperationStatesAre DEF ReplaceSteps
<1>3. /\ process = "up" /\ task # None /\ task.step = "target_published" /\ r \in Requests
      /\ session # None /\ reply[r] = "none" /\ task.seen.scene \in Scenes
      /\ protected[r] = session.scene /\ ops[r] # None /\ ops[r].state \notin Terminal
  BY <1>1, <1>2, PhaseFacts
<1>4. r \in held
  BY <1>3 DEF IInv, PhasesFollow
<1>5. /\ ops' \in [Requests -> Operation \cup {None}]
      /\ ops'[r] # None /\ ops'[r].state = "metadata_committed" /\ ops'[r].target = ops[r].target
      /\ ops'[r].oldIdent = ops[r].oldIdent
      /\ ops'[r].newScene = ops[r].newScene /\ ops'[r].newIdent = ops[r].newIdent
      /\ \A q \in Requests : q # r => ops'[q] = ops[q]
  BY <1>1, <1>2, <1>3, TransitionFacts DEF IInv
<1>6. /\ task' \in Task /\ task' # None
      /\ task'.step = "metadata_committed" /\ task'.request = r /\ task'.seen = task.seen
  BY <1>1, <1>2, <1>3, StepFacts DEF IInv
<1>7. TypeOK'
  BY <1>1, <1>5, <1>6 DEF IInv, TypeOK
<1>8. PhasesFollow'
  BY <1>1, <1>3, <1>4, <1>5, <1>6 DEF PhasesFollow, ReplaceSteps
<1>9. ops'[r].state \notin Terminal
  BY <1>5 DEF Terminal
<1> QED
  BY <1>1, <1>3, <1>5, <1>6, <1>7, <1>8, <1>9, RecordMoves

LEMMA CompleteKeeps == IInv /\ Complete => IInv'
<1> SUFFICES ASSUME IInv, Complete PROVE IInv'
  OBVIOUS
<1> DEFINE r == task.request
<1>1. /\ Running("metadata_committed") /\ Transition(r, "completed") /\ Answer(r, "completed")
      /\ UNCHANGED <<file, draft, recovery, protected, identity, process, todo,
                     external, crashes, renamed, held, unsaved>>
  BY DEF Complete, counters
<1>2. /\ "metadata_committed" \in ReplaceSteps \ {"protect", "begin"}
      /\ "completed" \in OperationStates
  BY OperationStatesAre DEF ReplaceSteps
<1>3. /\ process = "up" /\ task # None /\ task.step = "metadata_committed" /\ r \in Requests
      /\ protected[r] = session.scene /\ ops[r] # None /\ ops[r].state \notin Terminal
  BY <1>1, <1>2, PhaseFacts
<1>4. /\ ops' \in [Requests -> Operation \cup {None}]
      /\ ops'[r] # None /\ ops'[r].state = "completed" /\ ops'[r].target = ops[r].target
      /\ ops'[r].oldIdent = ops[r].oldIdent
      /\ ops'[r].newScene = ops[r].newScene /\ ops'[r].newIdent = ops[r].newIdent
      /\ \A q \in Requests : q # r => ops'[q] = ops[q]
  BY <1>1, <1>2, <1>3, TransitionFacts DEF IInv
<1> QED
  BY <1>1, <1>3, <1>4, AnswerKeeps

-----------------------------------------------------------------------------
(* Crashes, and the reconciliation of the next launch. *)

LEMMA CrashKeeps == IInv /\ Crash => IInv'
<1> SUFFICES ASSUME IInv, Crash PROVE IInv'
  OBVIOUS
<1>1. /\ process' = "down" /\ crashes < MaxCrashes /\ crashes' = crashes + 1
      /\ todo' = {} /\ task' = None /\ session' = None
      /\ UNCHANGED <<file, draft, recovery, protected, ops, identity, reply, external, renamed,
                     held, unsaved>>
  BY DEF Crash, durable
<1>2. crashes' \in 0..MaxCrashes
  BY <1>1, BoundsAssumption DEF IInv, TypeOK
<1>3. TypeOK'
  BY <1>1, <1>2 DEF IInv, TypeOK
<1>4. PhasesFollow' /\ ReconciliationFollows' /\ ListIsOpen'
  BY <1>1 DEF PhasesFollow, ReconciliationFollows, ListIsOpen
<1>5. SeenIsPast' /\ RecordsStand' /\ RenamedIsRecorded' /\ FailuresAreConflicts'
  BY <1>1 DEF IInv, SeenIsPast, RecordsStand, RenamedIsRecorded, FailuresAreConflicts
<1>6. EditsStored' /\ EditsShown'
  BY <1>1 DEF IInv, EditsStored, EditsShown
<1> QED
  BY <1>3, <1>4, <1>5, <1>6 DEF IInv

LEMMA LaunchKeeps == IInv /\ Launch => IInv'
<1> SUFFICES ASSUME IInv, Launch PROVE IInv'
  OBVIOUS
<1>1. /\ process = "down" /\ process' = "startup" /\ todo' = Incomplete
      /\ UNCHANGED <<file, draft, recovery, protected, ops, identity, task, session, reply,
                     external, crashes, renamed, held, unsaved>>
  BY DEF Launch, durable, counters
<1>2. task = None /\ session = None /\ Incomplete \subseteq Requests
  BY <1>1 DEF IInv, ListIsOpen, Incomplete
<1>3. TypeOK'
  BY <1>1, <1>2 DEF IInv, TypeOK
<1>4. PhasesFollow' /\ ReconciliationFollows' /\ ListIsOpen'
  BY <1>1, <1>2 DEF PhasesFollow, ReconciliationFollows, ListIsOpen, Incomplete
<1>5. SeenIsPast' /\ RecordsStand' /\ RenamedIsRecorded' /\ FailuresAreConflicts'
  BY <1>1 DEF IInv, SeenIsPast, RecordsStand, RenamedIsRecorded, FailuresAreConflicts
<1>6. EditsStored' /\ EditsShown'
  BY <1>1 DEF IInv, EditsStored, EditsShown
<1> QED
  BY <1>3, <1>4, <1>5, <1>6 DEF IInv

\* A step of the reconciliation: one open record may move, the file and what a
\* user was told stay.
LEMMA ReconcilingKeeps ==
    ASSUME IInv, process = "startup", TypeOK', ReconciliationFollows', todo' \subseteq Incomplete',
           task' # None => task'.seen.ident <= file.ident,
           NEW r \in Incomplete,
           \A q \in Requests : q # r => ops'[q] = ops[q],
           \/ ops'[r] = ops[r]
           \/ /\ ops'[r] # None /\ ops'[r].oldIdent = ops[r].oldIdent
              /\ ops'[r].target = ops[r].target
              /\ ops'[r].state = "aborted" => r \notin renamed
              /\ \/ ops'[r].state \in Terminal
                 \/ ops'[r].newScene = Target[r]
                 \/ ops'[r].newScene = ops[r].newScene /\ ops'[r].newIdent = ops[r].newIdent,
           UNCHANGED <<file, recovery, protected, process, session, reply,
                       external, crashes, renamed, held, unsaved>>
    PROVE  IInv'
<1>1. r \in Requests /\ ops[r] # None /\ ops[r].state \notin Terminal
  BY DEF Incomplete
<1>2. PhasesFollow' /\ ListIsOpen'
  BY DEF IInv, PhasesFollow, ListIsOpen
<1>3. SeenIsPast'
  BY <1>1 DEF IInv, SeenIsPast
<1>4. RecordsStand'
  BY <1>1 DEF IInv, RecordsStand
<1>5. RenamedIsRecorded'
  BY <1>1 DEF IInv, TypeOK, RenamedIsRecorded
<1>6. FailuresAreConflicts'
  BY <1>1 DEF IInv, FailuresAreConflicts, Terminal
<1>7. EditsStored' /\ EditsShown'
  BY <1>1 DEF IInv, EditsStored, EditsShown
<1> QED
  BY <1>2, <1>3, <1>4, <1>5, <1>6, <1>7 DEF IInv

LEMMA ReconcilingFacts ==
    ASSUME IInv, NEW s, Reconciling(s)
    PROVE  /\ process = "startup" /\ task # None /\ task.step = s
           /\ task.request \in Requests /\ task.request \in Incomplete
           /\ ops[task.request] # None /\ ops[task.request].state \notin Terminal
           /\ ops[task.request] \in Operation
           /\ task.seen \in File /\ task.seen.ident <= file.ident /\ task.seen.scene \in Scenes
           /\ todo \subseteq Incomplete
<1>1. process = "startup" /\ task # None /\ task.step = s
  BY DEF Reconciling
<1>2. /\ task.request \in Requests /\ task.request \in Incomplete
      /\ task.seen \in File /\ task.seen.scene \in Scenes
  BY <1>1, TaskFacts DEF IInv, ReconciliationFollows
<1>3. ops[task.request] # None /\ ops[task.request].state \notin Terminal
  BY <1>2 DEF Incomplete
<1>4. task.seen.ident <= file.ident /\ todo \subseteq Incomplete
  BY <1>1 DEF IInv, SeenIsPast, ListIsOpen
<1> QED
  BY <1>1, <1>2, <1>3, <1>4, OperationFacts DEF IInv

\* An operation of the list is done: settled as a conflict, or left open.
LEMMA DoneKeeps ==
    ASSUME IInv, process = "startup", NEW r \in Incomplete, Conflict(r) \/ MarkPending(r), Keep
    PROVE  IInv'
<1> USE DEF Keep, counters
<1>1. r \in Requests /\ ops[r] # None
  BY DEF Incomplete
<1>2. PICK to \in {"conflict", "reconcile"} : Transition(r, to)
  BY DEF Conflict, MarkPending
<1>3. task' = None /\ todo' = todo \ {r} /\ UNCHANGED <<draft, identity>>
  BY DEF Conflict, MarkPending, Done
<1>4. to \in OperationStates
  BY OperationStatesAre
<1>5. /\ ops' \in [Requests -> Operation \cup {None}]
      /\ ops'[r] # None /\ ops'[r].state = to /\ ops'[r].target = ops[r].target
      /\ ops'[r].oldIdent = ops[r].oldIdent
      /\ ops'[r].newScene = ops[r].newScene /\ ops'[r].newIdent = ops[r].newIdent
      /\ \A q \in Requests : q # r => ops'[q] = ops[q]
  BY <1>1, <1>2, <1>4, TransitionFacts DEF IInv
<1>6. TypeOK'
  BY <1>3, <1>5 DEF IInv, TypeOK
<1>7. ReconciliationFollows'
  BY <1>3 DEF ReconciliationFollows
<1>8. todo' \subseteq Incomplete'
  BY <1>3, <1>5 DEF IInv, ListIsOpen, Incomplete
<1> QED
  BY <1>3, <1>5, <1>6, <1>7, <1>8, ReconcilingKeeps

\* What the reconciliation takes for the target is the request's own.
LEMMA MatchesAreTargets ==
    ASSUME IInv, NEW r \in Incomplete, TargetMatches(r, file)
    PROVE  file.scene = Target[r] /\ r \in held
<1>1. r \in Requests /\ ops[r] # None /\ ops[r].state \notin Terminal
  BY DEF Incomplete
<1>2. file.ident > 0
  BY FileFacts DEF IInv
<1>3. /\ ops[r].target \in {NoScene, Target[r]}
      /\ ops[r].newIdent # 0 => ops[r].newScene = Target[r]
      /\ file.scene = Target[r] => r \in held
  BY <1>1 DEF IInv, RecordsStand
<1>4. file.scene = Target[r]
  BY <1>2, <1>3 DEF TargetMatches, NewStateMatches, DurableTargetMatches
<1> QED
  BY <1>3, <1>4

LEMMA ReconcileOneKeeps ==
    ASSUME IInv, NEW r \in Requests, ReconcileOne(r)
    PROVE  IInv'
<1> USE DEF Keep, counters
<1>1. process = "startup" /\ task = None /\ r \in todo /\ Keep /\ r \in Incomplete
  BY DEF ReconcileOne, IInv, ListIsOpen
<1>2. CASE /\ file.scene # NoScene
           /\ task' = [request |-> r, seen |-> file,
                       step |-> IF OldStateMatches(r, file) THEN "recheck" ELSE "resync"]
           /\ UNCHANGED <<draft, identity, ops, todo>>
  <2> DEFINE s == IF OldStateMatches(r, file) THEN "recheck" ELSE "resync"
  <2>1. task' = [request |-> r, seen |-> file, step |-> s] /\ s \in {"recheck", "resync"}
    BY <1>2
  <2> HIDE DEF s
  <2>2. task' \in Task /\ task'.step \in {"recheck", "resync"} /\ task'.request = r /\ task'.seen = file
    BY <2>1 DEF IInv, TypeOK, Task, ReconcileSteps
  <2>3. TypeOK'
    BY <1>1, <1>2, <2>2 DEF IInv, TypeOK
  <2>4. ReconciliationFollows'
    BY <1>1, <1>2, <2>2, FileFacts DEF IInv, ReconciliationFollows, ReconcileSteps, Incomplete
  <2>5. todo' \subseteq Incomplete'
    BY <1>2 DEF IInv, ListIsOpen, Incomplete
  <2>6. task'.seen.ident <= file.ident
    BY <2>2, FileFacts DEF IInv
  <2> QED
    BY <1>1, <1>2, <2>3, <2>4, <2>5, <2>6, ReconcilingKeeps
<1>3. CASE Conflict(r) \/ MarkPending(r)
  BY <1>1, <1>3, DoneKeeps
<1> QED
  BY <1>2, <1>3 DEF ReconcileOne

\* A step of the reconciliation that moves on to another one.
LEMMA ReconcilingMovesOn ==
    ASSUME IInv, NEW s, Reconciling(s), NEW t \in ReconcileSteps,
           task' \in Task, task' # None, task'.step = t, task'.request = task.request,
           task'.seen \in {task.seen, file}, task'.seen.scene \in Scenes,
           t \in {"restore", "settle"} => task.request \notin renamed,
           t \in {"repair", "reobserve", "describe", "final", "reopen", "replay"} =>
               task'.seen.scene = Target[task.request] /\ task.request \in held,
           draft' \in Draft, identity' \in File,
           UNCHANGED <<ops, todo>>, Keep
    PROVE  IInv'
<1> USE DEF Keep, counters
<1>1. /\ process = "startup" /\ task # None /\ task.request \in Incomplete
      /\ task.seen.ident <= file.ident /\ todo \subseteq Incomplete
  BY ReconcilingFacts
<1>2. TypeOK'
  BY DEF IInv, TypeOK
<1>3. ReconciliationFollows'
  BY <1>1 DEF ReconciliationFollows, Incomplete
<1>4. todo' \subseteq Incomplete'
  BY <1>1 DEF Incomplete
<1>5. task'.seen.ident <= file.ident
  BY <1>1, FileFacts DEF IInv
<1> QED
  BY <1>1, <1>2, <1>3, <1>4, <1>5, ReconcilingKeeps

LEMMA RecheckOldKeeps == IInv /\ RecheckOld => IInv'
<1> SUFFICES ASSUME IInv, RecheckOld PROVE IInv'
  OBVIOUS
<1> DEFINE r == task.request
<1>1. Reconciling("recheck") /\ Keep
  BY DEF RecheckOld
<1>2. /\ process = "startup" /\ task # None /\ r \in Requests /\ r \in Incomplete
      /\ ops[r] # None /\ task.seen.scene \in Scenes
  BY <1>1, ReconcilingFacts
<1>3. CASE OldStateMatches(r, file) /\ Step("restore") /\ UNCHANGED <<draft, identity, ops, todo>>
  <2>1. "restore" \in ReconcileSteps
    BY DEF ReconcileSteps
  <2>2. /\ task' \in Task /\ task' # None
        /\ task'.step = "restore" /\ task'.request = r /\ task'.seen = task.seen
    BY <1>2, <1>3, <2>1, StepFacts DEF IInv
  <2>3. r \notin renamed
    <3>1. file.ident = ops[r].oldIdent /\ file.ident \in Nat
      BY <1>3, FileFacts DEF OldStateMatches, IInv
    <3> QED
      BY <1>2, <3>1 DEF IInv, SeenIsPast
  <2>4. draft' \in Draft /\ identity' \in File
    BY <1>3 DEF IInv, TypeOK
  <2> QED
    BY <1>1, <1>2, <1>3, <2>1, <2>2, <2>3, <2>4, ReconcilingMovesOn
<1>4. CASE Conflict(r) \/ MarkPending(r)
  BY <1>1, <1>2, <1>4, DoneKeeps
<1> QED
  BY <1>3, <1>4 DEF RecheckOld

LEMMA RepairDraftKeeps == IInv /\ RepairDraft => IInv'
<1> SUFFICES ASSUME IInv, RepairDraft PROVE IInv'
  OBVIOUS
<1> DEFINE r == task.request
           t == IF task.step = "restore" THEN "settle" ELSE "reobserve"
<1>1. PICK s \in {"restore", "repair"} : Reconciling(s)
  BY DEF RepairDraft
<1>2. Keep
  BY DEF RepairDraft
<1>3. /\ process = "startup" /\ task # None /\ task.step = s
      /\ r \in Requests /\ r \in Incomplete /\ task.seen.scene \in Scenes
  BY <1>1, ReconcilingFacts
<1>4. CASE /\ draft' = [scene |-> task.seen.scene, base |-> task.seen.scene, dirty |-> FALSE]
           /\ Step(t) /\ UNCHANGED <<identity, ops, todo>>
  <2>1. t \in ReconcileSteps /\ t \in {"settle", "reobserve"}
    BY DEF ReconcileSteps
  <2>2. /\ t = "settle" => r \notin renamed
        /\ t = "reobserve" => task.seen.scene = Target[r] /\ r \in held
    BY <1>3 DEF IInv, ReconciliationFollows
  <2>3. draft' \in Draft /\ identity' \in File
    BY <1>3, <1>4 DEF IInv, TypeOK, Draft
  <2> HIDE DEF t
  <2>4. /\ task' \in Task /\ task' # None
        /\ task'.step = t /\ task'.request = r /\ task'.seen = task.seen
    BY <1>3, <1>4, <2>1, StepFacts DEF IInv
  <2> QED
    BY <1>1, <1>2, <1>3, <1>4, <2>1, <2>2, <2>3, <2>4, ReconcilingMovesOn
<1>5. CASE MarkPending(r)
  BY <1>2, <1>3, <1>5, DoneKeeps
<1> QED
  BY <1>4, <1>5 DEF RepairDraft

LEMMA SettleAbortedKeeps == IInv /\ SettleAborted => IInv'
<1> SUFFICES ASSUME IInv, SettleAborted PROVE IInv'
  OBVIOUS
<1> USE DEF Keep, counters
<1> DEFINE r == task.request
<1>1. /\ Reconciling("settle") /\ Keep /\ UNCHANGED <<draft, identity>>
      /\ ops' = [ops EXCEPT ![r].state = "aborted", ![r].newScene = task.seen.scene]
      /\ task' = None /\ todo' = todo \ {r}
  BY DEF SettleAborted, Done
<1>2. /\ process = "startup" /\ task # None /\ task.step = "settle" /\ r \in Requests
      /\ r \in Incomplete /\ ops[r] # None /\ ops[r] \in Operation
      /\ task.seen.scene \in Scenes /\ todo \subseteq Incomplete
  BY <1>1, ReconcilingFacts
<1>3. r \notin renamed
  BY <1>2 DEF IInv, ReconciliationFollows
<1>4. "aborted" \in OperationStates
  BY OperationStatesAre
<1>5. [ops[r] EXCEPT !.state = "aborted", !.newScene = task.seen.scene] \in Operation
  BY <1>2, <1>4 DEF Operation
<1>6. /\ ops' \in [Requests -> Operation \cup {None}]
      /\ ops'[r] # None /\ ops'[r].state = "aborted"
      /\ ops'[r].oldIdent = ops[r].oldIdent /\ ops'[r].target = ops[r].target
      /\ \A q \in Requests : q # r => ops'[q] = ops[q]
  BY <1>1, <1>2, <1>5, NoneIsNoRecord DEF IInv, TypeOK, Operation
<1>7. TypeOK'
  BY <1>1, <1>6 DEF IInv, TypeOK
<1>8. ReconciliationFollows'
  BY <1>1 DEF ReconciliationFollows
<1>9. todo' \subseteq Incomplete'
  BY <1>1, <1>2, <1>6 DEF Incomplete
<1>10. ops'[r].state \in Terminal
  BY <1>6 DEF Terminal
<1>11. \A q \in Requests : q # r => ops'[q] = ops[q]
  BY <1>6
<1> QED
  <2>1. \A q \in Incomplete : q \in Requests
    BY DEF Incomplete
  <2> QED
    BY <1>1, <1>2, <1>3, <1>6, <1>7, <1>8, <1>9, <1>10, ReconcilingKeeps

LEMMA ResyncTargetKeeps == IInv /\ ResyncTarget => IInv'
<1> SUFFICES ASSUME IInv, ResyncTarget PROVE IInv'
  OBVIOUS
<1> DEFINE r == task.request
<1>1. Reconciling("resync") /\ Keep
  BY DEF ResyncTarget
<1>2. /\ process = "startup" /\ task # None /\ r \in Requests /\ r \in Incomplete
  BY <1>1, ReconcilingFacts
<1>3. CASE /\ TargetMatches(r, file)
           /\ task' = [task EXCEPT !.step = "repair", !.seen = file]
           /\ UNCHANGED <<draft, identity, ops, todo>>
  <2>1. file.scene = Target[r] /\ r \in held /\ Target[r] \in Scenes
    BY <1>2, <1>3, MatchesAreTargets, TargetAssumption
  <2>2. task \in Task /\ file \in File
    BY <1>2, TaskFacts DEF IInv, TypeOK
  <2>3. "repair" \in ReconcileSteps
    BY DEF ReconcileSteps
  <2>4. /\ task' \in Task /\ task' # None
        /\ task'.step = "repair" /\ task'.request = r /\ task'.seen = file
    BY <1>3, <2>2, <2>3, NoneIsNoRecord DEF Task
  <2>5. draft' \in Draft /\ identity' \in File
    BY <1>3 DEF IInv, TypeOK
  <2> QED
    BY <1>1, <1>3, <2>1, <2>3, <2>4, <2>5, ReconcilingMovesOn
<1>4. CASE Conflict(r) \/ MarkPending(r)
  BY <1>1, <1>2, <1>4, DoneKeeps
<1> QED
  BY <1>3, <1>4 DEF ResyncTarget

LEMMA ReobserveKeeps == IInv /\ Reobserve => IInv'
<1> SUFFICES ASSUME IInv, Reobserve PROVE IInv'
  OBVIOUS
<1> DEFINE r == task.request
           t == IF task.step = "final" THEN "reopen" ELSE "describe"
<1>1. PICK s \in {"reobserve", "final"} : Reconciling(s)
  BY DEF Reobserve
<1>2. Keep
  BY DEF Reobserve
<1>3. /\ process = "startup" /\ task # None /\ task.step = s
      /\ r \in Requests /\ r \in Incomplete /\ task.seen.scene \in Scenes
  BY <1>1, ReconcilingFacts
<1>4. CASE Step(t) /\ UNCHANGED <<draft, identity, ops, todo>>
  <2>1. t \in ReconcileSteps /\ t \in {"reopen", "describe"}
    BY DEF ReconcileSteps
  <2>2. task.seen.scene = Target[r] /\ r \in held
    BY <1>3 DEF IInv, ReconciliationFollows
  <2>3. draft' \in Draft /\ identity' \in File
    BY <1>4 DEF IInv, TypeOK
  <2> HIDE DEF t
  <2>4. /\ task' \in Task /\ task' # None
        /\ task'.step = t /\ task'.request = r /\ task'.seen = task.seen
    BY <1>3, <1>4, <2>1, StepFacts DEF IInv
  <2> QED
    BY <1>1, <1>2, <1>3, <1>4, <2>1, <2>2, <2>3, <2>4, ReconcilingMovesOn
<1>5. CASE MarkPending(r)
  BY <1>2, <1>3, <1>5, DoneKeeps
<1> QED
  BY <1>4, <1>5 DEF Reobserve

LEMMA RepairDocumentMetadataKeeps == IInv /\ RepairDocumentMetadata => IInv'
<1> SUFFICES ASSUME IInv, RepairDocumentMetadata PROVE IInv'
  OBVIOUS
<1> DEFINE r == task.request
<1>1. Reconciling("describe") /\ Keep
  BY DEF RepairDocumentMetadata
<1>2. /\ process = "startup" /\ task # None /\ task.step = "describe"
      /\ r \in Requests /\ r \in Incomplete /\ task.seen.scene \in Scenes /\ task.seen \in File
  BY <1>1, ReconcilingFacts
<1>3. CASE identity' = task.seen /\ Step("final") /\ UNCHANGED <<draft, ops, todo>>
  <2>1. "final" \in ReconcileSteps
    BY DEF ReconcileSteps
  <2>2. task.seen.scene = Target[r] /\ r \in held
    BY <1>2 DEF IInv, ReconciliationFollows
  <2>3. draft' \in Draft /\ identity' \in File
    BY <1>2, <1>3 DEF IInv, TypeOK
  <2>4. /\ task' \in Task /\ task' # None
        /\ task'.step = "final" /\ task'.request = r /\ task'.seen = task.seen
    BY <1>2, <1>3, <2>1, StepFacts DEF IInv
  <2> QED
    BY <1>1, <1>2, <1>3, <2>1, <2>2, <2>3, <2>4, ReconcilingMovesOn
<1>4. CASE MarkPending(r)
  BY <1>1, <1>2, <1>4, DoneKeeps
<1> QED
  BY <1>3, <1>4 DEF RepairDocumentMetadata


LEMMA TransitionToCompletedKeeps == IInv /\ TransitionToCompleted => IInv'
<1> SUFFICES ASSUME IInv, TransitionToCompleted PROVE IInv'
  OBVIOUS
<1> USE DEF Keep, counters
<1> DEFINE r == task.request
<1>1. UNCHANGED <<draft, identity>> /\ Keep
  BY DEF TransitionToCompleted
<1>2. PICK s \in {"reopen", "replay"} : Reconciling(s)
  BY DEF TransitionToCompleted
<1>3. /\ process = "startup" /\ task # None /\ task.step = s
      /\ r \in Requests /\ r \in Incomplete /\ ops[r] # None /\ ops[r].state \notin Terminal
      /\ ops[r] \in Operation /\ task.seen \in File /\ task.seen.ident <= file.ident
      /\ task.seen.scene \in Scenes /\ todo \subseteq Incomplete
  BY <1>2, ReconcilingFacts
<1>4. task.seen.scene = Target[r] /\ r \in held
  BY <1>3 DEF IInv, ReconciliationFollows
<1>5. ASSUME NEW to \in OperationStates \ Terminal, Transition(r, to),
             \/ Step("replay") /\ UNCHANGED todo
             \/ UNCHANGED <<task, todo>> /\ task.step = "replay"
      PROVE  IInv'
  <2>1. /\ ops' \in [Requests -> Operation \cup {None}]
        /\ ops'[r] # None /\ ops'[r].state = to /\ ops'[r].target = ops[r].target
        /\ ops'[r].oldIdent = ops[r].oldIdent
        /\ ops'[r].newScene = ops[r].newScene /\ ops'[r].newIdent = ops[r].newIdent
        /\ \A q \in Requests : q # r => ops'[q] = ops[q]
    BY <1>3, <1>5, TransitionFacts DEF IInv
  <2>2. "replay" \in ReconcileSteps /\ task \in Task
    BY <1>3, TaskFacts DEF IInv, ReconcileSteps
  <2>3. /\ task' \in Task /\ task' # None
        /\ task'.step = "replay" /\ task'.request = r /\ task'.seen = task.seen
    BY <1>3, <1>5, <2>2, StepFacts DEF IInv
  <2>4. TypeOK'
    BY <1>1, <1>5, <2>1, <2>3 DEF IInv, TypeOK
  <2>5. ops'[r].state \notin Terminal
    BY <2>1
  <2>6. ReconciliationFollows'
    BY <1>1, <1>3, <1>4, <2>1, <2>2, <2>3, <2>5 DEF ReconciliationFollows, Incomplete
  <2>7. todo' \subseteq Incomplete'
    BY <1>3, <1>5, <2>1, <2>5 DEF Incomplete
  <2>8. ops'[r].state # "aborted"
    BY <2>5 DEF Terminal
  <2> QED
    BY <1>1, <1>3, <2>1, <2>3, <2>4, <2>6, <2>7, <2>8, ReconcilingKeeps
<1>6. CASE Transition(r, "reconcile") /\ Step("replay") /\ UNCHANGED todo
  <2>1. "reconcile" \in OperationStates \ Terminal
    BY OperationStatesAre DEF Terminal
  <2> QED
    BY <1>5, <1>6, <2>1
<1>7. CASE /\ task.step = "replay"
           /\ \E i \in {4, 5} : Transition(r, Linear[i + 1])
           /\ UNCHANGED <<task, todo>>
  <2>1. PICK to \in {"target_published", "metadata_committed"} : Transition(r, to)
    BY <1>7, LinearIs
  <2>2. to \in OperationStates \ Terminal
    BY OperationStatesAre DEF Terminal
  <2> QED
    BY <1>5, <1>7, <2>1, <2>2
<1>8. CASE /\ task.step = "replay"
           /\ ops' = [ops EXCEPT ![r].state = "target_observed",
                        ![r].newScene = task.seen.scene, ![r].newIdent = task.seen.ident]
           /\ UNCHANGED <<task, todo>>
  <2>1. "target_observed" \in OperationStates /\ "target_observed" \notin Terminal
    BY OperationStatesAre DEF Terminal
  <2>2. task.seen.ident \in 0..MaxWrites
    BY <1>3, BoundsAssumption DEF File
  <2>3. [ops[r] EXCEPT !.state = "target_observed", !.newScene = task.seen.scene,
                       !.newIdent = task.seen.ident] \in Operation
    BY <1>3, <2>1, <2>2 DEF Operation
  <2>4. /\ ops' \in [Requests -> Operation \cup {None}]
        /\ ops'[r] # None /\ ops'[r].state = "target_observed" /\ ops'[r].newScene = Target[r]
        /\ ops'[r].oldIdent = ops[r].oldIdent /\ ops'[r].target = ops[r].target
        /\ \A q \in Requests : q # r => ops'[q] = ops[q]
    BY <1>3, <1>4, <1>8, <2>3, NoneIsNoRecord DEF IInv, TypeOK, Operation
  <2>5. TypeOK'
    BY <1>1, <1>8, <2>4 DEF IInv, TypeOK
  <2>6. ReconciliationFollows'
    BY <1>1, <1>3, <1>4, <1>8, <2>1, <2>4 DEF IInv, ReconciliationFollows, Incomplete
  <2>7. todo' \subseteq Incomplete'
    BY <1>3, <1>8, <2>1, <2>4 DEF Incomplete
  <2> QED
    BY <1>1, <1>3, <1>8, <2>4, <2>5, <2>6, <2>7, ReconcilingKeeps
<1>9. CASE Transition(r, "completed") /\ Done(r)
  <2>1. "completed" \in OperationStates
    BY OperationStatesAre
  <2>2. /\ ops' \in [Requests -> Operation \cup {None}]
        /\ ops'[r] # None /\ ops'[r].state = "completed" /\ ops'[r].target = ops[r].target
        /\ ops'[r].oldIdent = ops[r].oldIdent
        /\ ops'[r].newScene = ops[r].newScene /\ ops'[r].newIdent = ops[r].newIdent
        /\ \A q \in Requests : q # r => ops'[q] = ops[q]
    BY <1>3, <1>9, <2>1, TransitionFacts DEF IInv
  <2>3. task' = None /\ todo' = todo \ {r}
    BY <1>9 DEF Done
  <2>4. TypeOK'
    BY <1>1, <2>2, <2>3 DEF IInv, TypeOK
  <2>5. ReconciliationFollows'
    BY <2>3 DEF ReconciliationFollows
  <2>6. todo' \subseteq Incomplete'
    BY <1>3, <2>2, <2>3 DEF Incomplete
  <2> QED
    BY <1>1, <1>3, <2>2, <2>3, <2>4, <2>5, <2>6, ReconcilingKeeps
<1> QED
  BY <1>2, <1>6, <1>7, <1>8, <1>9 DEF TransitionToCompleted, Reconciling

LEMMA ReconciliationFailsKeeps == IInv /\ ReconciliationFails => IInv'
<1> SUFFICES ASSUME IInv, ReconciliationFails PROVE IInv'
  OBVIOUS
<1>1. /\ process = "startup" /\ task' = None /\ todo' = {}
      /\ UNCHANGED <<file, draft, recovery, protected, ops, identity, process, session, reply,
                     external, crashes, renamed, held, unsaved>>
  BY DEF ReconciliationFails, durable, counters
<1>2. TypeOK'
  BY <1>1 DEF IInv, TypeOK
<1>3. PhasesFollow' /\ ReconciliationFollows' /\ ListIsOpen'
  BY <1>1 DEF IInv, PhasesFollow, ReconciliationFollows, ListIsOpen
<1>4. SeenIsPast' /\ RecordsStand' /\ RenamedIsRecorded' /\ FailuresAreConflicts'
  BY <1>1 DEF IInv, SeenIsPast, RecordsStand, RenamedIsRecorded, FailuresAreConflicts
<1>5. EditsStored' /\ EditsShown'
  BY <1>1 DEF IInv, EditsStored, EditsShown
<1> QED
  BY <1>2, <1>3, <1>4, <1>5 DEF IInv

LEMMA FinishStartupKeeps == IInv /\ FinishStartup => IInv'
<1> SUFFICES ASSUME IInv, FinishStartup PROVE IInv'
  OBVIOUS
<1>1. /\ process = "startup" /\ process' = "up" /\ task = None /\ todo = {}
      /\ UNCHANGED <<file, draft, recovery, protected, ops, identity, todo, task, session, reply,
                     external, crashes, renamed, held, unsaved>>
  BY DEF FinishStartup, durable, counters
<1>2. TypeOK'
  BY <1>1 DEF IInv, TypeOK
<1>3. PhasesFollow' /\ ReconciliationFollows' /\ ListIsOpen'
  BY <1>1 DEF IInv, PhasesFollow, ReconciliationFollows, ListIsOpen
<1>4. SeenIsPast' /\ RecordsStand' /\ RenamedIsRecorded' /\ FailuresAreConflicts'
  BY <1>1 DEF IInv, SeenIsPast, RecordsStand, RenamedIsRecorded, FailuresAreConflicts
<1>5. EditsStored' /\ EditsShown'
  BY <1>1 DEF IInv, EditsStored, EditsShown
<1> QED
  BY <1>2, <1>3, <1>4, <1>5 DEF IInv

LEMMA StutterKeeps == IInv /\ UNCHANGED vars => IInv'
<1> SUFFICES ASSUME IInv, UNCHANGED vars PROVE IInv'
  OBVIOUS
<1> USE DEF vars
<1>1. TypeOK'
  BY DEF IInv, TypeOK
<1>2. PhasesFollow' /\ ReconciliationFollows' /\ ListIsOpen'
  BY DEF IInv, PhasesFollow, ReconciliationFollows, ListIsOpen, Incomplete
<1>3. SeenIsPast' /\ RecordsStand' /\ RenamedIsRecorded' /\ FailuresAreConflicts'
  BY DEF IInv, SeenIsPast, RecordsStand, RenamedIsRecorded, FailuresAreConflicts
<1>4. EditsStored' /\ EditsShown'
  BY DEF IInv, EditsStored, EditsShown
<1> QED
  BY <1>1, <1>2, <1>3, <1>4 DEF IInv

-----------------------------------------------------------------------------
LEMMA StepKeeps == IInv /\ [Next]_vars => IInv'
<1> SUFFICES ASSUME IInv, [Next]_vars PROVE IInv'
  OBVIOUS
<1>1. CASE Open \/ Close \/ SaveDraft \/ Checkpoint \/ ExternalWrite
  BY <1>1, OpenKeeps, CloseKeeps, SaveDraftKeeps, CheckpointKeeps, ExternalWriteKeeps
<1>2. ASSUME NEW r \in Requests, Replace(r) \/ OperationStatus(r) PROVE IInv'
  BY <1>2, ReplaceKeeps, OperationStatusKeeps
<1>3. CASE Replacing
  BY <1>3, PublishProtectionKeeps, BeginOperationKeeps, AdvanceKeeps, ValidateExpectedTargetKeeps,
     RenameKeeps, SyncParentKeeps, MarkTargetPublishedKeeps, FinalizeDraftKeeps,
     FinalizeRecoveryKeeps, FinalizeIdentityKeeps, CommitMetadataKeeps, CompleteKeeps
     DEF Replacing
<1>4. CASE FailBeforeRename \/ FailAfterRename
  BY <1>4, FailBeforeRenameKeeps, FailAfterRenameKeeps
<1>5. CASE Crash \/ Launch \/ ReconciliationFails
  BY <1>5, CrashKeeps, LaunchKeeps, ReconciliationFailsKeeps
<1>6. CASE Reconciliation
  BY <1>6, ReconcileOneKeeps, RecheckOldKeeps, RepairDraftKeeps, SettleAbortedKeeps,
     ResyncTargetKeeps, ReobserveKeeps, RepairDocumentMetadataKeeps, TransitionToCompletedKeeps,
     FinishStartupKeeps DEF Reconciliation
<1>7. CASE UNCHANGED vars
  BY <1>7, StutterKeeps
<1> QED
  BY <1>1, <1>2, <1>3, <1>4, <1>5, <1>6, <1>7 DEF Next

LEMMA AlwaysIInv == Spec => []IInv
<1> QED
  BY InitHolds, StepKeeps, PTL DEF Spec

\* The records, the tasks and the drawing are what they are declared to be.
THEOREM TypeCorrect == Spec => []TypeOK
<1>1. IInv => TypeOK
  BY DEF IInv
<1> QED
  BY <1>1, AlwaysIInv, PTL

\* A request answered as failed that did rename is on record as a conflict: the
\* user is never told of a failure that silently replaced the drawing.
THEOREM FailureIsHonestHolds == Spec => []FailureIsHonest
<1>1. IInv => FailureIsHonest
  BY DEF IInv, FailuresAreConflicts, FailureIsHonest
<1> QED
  BY <1>1, AlwaysIInv, PTL

\* An edit that was drafted and not saved since is in the draft, a snapshot, the
\* file or a protecting version, whatever replaces the drawing and wherever a
\* crash falls.
THEOREM EditsKeptHolds == Spec => []EditsKept
<1>1. IInv => EditsKept
  BY DEF IInv, EditsStored, EditsKept
<1> QED
  BY <1>1, AlwaysIInv, PTL


-----------------------------------------------------------------------------
(* The phases implement ReplacementOutcome. *)

\* What the record of a request amounts to; the refinement's `settled`.
Status(r) ==
    IF ops[r] = None THEN "none"
    ELSE IF ops[r].state \in Terminal THEN ops[r].state ELSE "open"

LEMMA StatusIs ==
    \A r \in Requests :
        /\ Status(r) = "none" <=> ops[r] = None
        /\ Status(r) = "open" <=> ops[r] # None /\ ops[r].state \notin Terminal
        /\ ops[r] # None /\ ops[r].state \in Terminal => Status(r) = ops[r].state
BY DEF Status, Terminal

LEMMA OutcomeInit == Init => Outcome!Init
<1> SUFFICES ASSUME Init PROVE Outcome!Init
  OBVIOUS
<1>1. PICK s \in Scenes : file = [scene |-> s, ident |-> 1]
  BY DEF Init
<1>2. file.scene \in Scenes
  BY <1>1
<1>3. \A r \in Requests : ops[r] = None
  BY DEF Init
<1> QED
  BY <1>2, <1>3 DEF Init, Outcome!Init

LEMMA OutcomeStutters ==
    ASSUME file'.scene = file.scene, UNCHANGED <<renamed, held>>,
           \A q \in Requests : Status(q)' = Status(q)
    PROVE  UNCHANGED Outcome!vars
BY DEF Outcome!vars, Status

LEMMA OutcomeSettles ==
    ASSUME NEW r \in Requests, UNCHANGED <<file, renamed, held>>,
           ops[r] # None, ops[r].state \notin Terminal,
           ops'[r] # None, ops'[r].state \in Terminal,
           ops'[r].state = "aborted" => r \notin renamed,
           ops'[r].state = "completed" => r \in held,
           \A q \in Requests : q # r => ops'[q] = ops[q]
    PROVE  Outcome!Next
<1> DEFINE S == [q \in Requests |-> IF ops[q] = None THEN "none"
                  ELSE IF ops[q].state \in Terminal THEN ops[q].state ELSE "open"]
<1>1. S[r] = "open" /\ S' = [S EXCEPT ![r] = ops'[r].state]
  OBVIOUS
<1>2. ops'[r].state \in {"aborted", "conflict", "completed"}
  BY DEF Terminal
<1> HIDE DEF S
<1>3. Outcome!Settle(r)
  BY <1>1, <1>2 DEF Outcome!Settle, S
<1> QED
  BY <1>3 DEF Outcome!Next

LEMMA OutcomeWrites ==
    ASSUME IInv, UNCHANGED <<ops, renamed>>, NEW s \in Scenes \cup {NoScene}, Write(s)
    PROVE  Outcome!Next
<1>1. file'.scene = s /\ held' = held \cup {r \in Incomplete : Target[r] = s}
  BY DEF Write, Written
<1>2. {r \in Incomplete : Target[r] = s} = Outcome!Holding(s)
  BY DEF Incomplete, Outcome!Holding, Terminal
<1>3. Outcome!WriteOtherwise
  BY <1>1, <1>2 DEF Outcome!WriteOtherwise
<1> QED
  BY <1>3 DEF Outcome!Next


OutcomeStep == Outcome!Next \/ UNCHANGED Outcome!vars

\* Steps that leave the file move at most the record of one request: they settle
\* it or stutter.
LEMMA OutcomeMoves ==
    ASSUME NEW r \in Requests, UNCHANGED <<file, renamed, held>>,
           \A q \in Requests : q # r => ops'[q] = ops[q],
           \/ ops'[r] = ops[r]
           \/ /\ ops[r] # None /\ ops[r].state \notin Terminal /\ ops'[r] # None
              /\ ops'[r].state = "aborted" => r \notin renamed
              /\ ops'[r].state = "completed" => r \in held
    PROVE  OutcomeStep
<1>1. CASE ops[r] # None /\ ops[r].state \notin Terminal /\ ops'[r] # None /\ ops'[r].state \in Terminal
  <2>1. ops'[r] # ops[r]
    BY <1>1
  <2> QED
    BY <1>1, <2>1, OutcomeSettles DEF OutcomeStep
<1>2. CASE \/ ops'[r] = ops[r]
           \/ /\ ops[r] # None /\ ops[r].state \notin Terminal
              /\ ops'[r] # None /\ ops'[r].state \notin Terminal
  <2>1. \A q \in Requests : Status(q)' = Status(q)
    BY <1>2 DEF Status
  <2> QED
    BY <2>1, OutcomeStutters DEF OutcomeStep
<1> QED
  BY <1>1, <1>2

LEMMA OutcomeIdles ==
    ASSUME UNCHANGED <<file, ops, renamed, held>>
    PROVE  OutcomeStep
BY DEF OutcomeStep, Outcome!vars

\* A request is recorded: BeginOperation.
LEMMA RecordRecords == IInv /\ BeginOperation => OutcomeStep
<1> SUFFICES ASSUME IInv, BeginOperation PROVE OutcomeStep
  OBVIOUS
<1> DEFINE r == task.request
           new == [state |-> "preparing", oldScene |-> task.seen.scene, oldIdent |-> task.seen.ident,
                   target |-> NoScene, newScene |-> NoScene, newIdent |-> 0]
           S == [q \in Requests |-> IF ops[q] = None THEN "none"
                  ELSE IF ops[q].state \in Terminal THEN ops[q].state ELSE "open"]
<1>1. /\ process = "up" /\ task # None /\ task.step = "begin"
      /\ ops' = [ops EXCEPT ![r] = new]
      /\ held' = held \cup {x \in {r} : Target[r] = file.scene}
      /\ UNCHANGED <<file, renamed>>
  BY DEF BeginOperation, Running
<1>2. r \in Requests /\ ops[r] = None
  BY <1>1, TaskFacts DEF IInv, PhasesFollow
<1>3. ops' \in [Requests -> Operation \cup {None}]
  BY <1>1, BeginOperationKeeps DEF IInv, TypeOK
<1>4. ops'[r] = new /\ ops'[r] # None /\ \A q \in Requests : q # r => ops'[q] = ops[q]
  <2>1. ops \in [Requests -> Operation \cup {None}]
    BY DEF IInv, TypeOK
  <2>2. "preparing" \in OperationStates /\ 0 \in 0..MaxWrites
    BY OperationStatesAre, BoundsAssumption
  <2>3. task.seen.scene \in Scenes
    BY <1>1 DEF IInv, PhasesFollow
  <2>4. new \in Operation
    BY <1>1, <2>2, <2>3, TaskFacts DEF IInv, Operation
  <2> QED
    BY <1>1, <1>2, <2>1, <2>4, NoneIsNoRecord
<1>5. S[r] = "none" /\ S' = [S EXCEPT ![r] = "open"]
  BY <1>2, <1>4 DEF Terminal
<1> HIDE DEF S
<1>6. \E q \in Requests : Outcome!Record(q)
  BY <1>1, <1>2, <1>5 DEF Outcome!Record, S
<1> QED
  BY <1>6 DEF OutcomeStep, Outcome!Next

\* The rename puts the target of the open request into the drawing.
LEMMA RenameReplaces == IInv /\ Rename => OutcomeStep
<1> SUFFICES ASSUME IInv, Rename PROVE OutcomeStep
  OBVIOUS
<1> DEFINE r == task.request
<1>1. /\ Running("rename") /\ Write(Target[r]) /\ renamed' = renamed \cup {r}
      /\ UNCHANGED ops
  BY DEF Rename
<1>2. /\ task # None /\ r \in Requests /\ ops[r] # None /\ ops[r].state \notin Terminal
      /\ r \notin renamed
  BY <1>1, TaskFacts DEF IInv, PhasesFollow, Running, Terminal
<1>3. file'.scene = Target[r] /\ held' = held \cup {q \in Incomplete : Target[q] = Target[r]}
  BY <1>1 DEF Write, Written
<1>4. {q \in Incomplete : Target[q] = Target[r]} = Outcome!Holding(Target[r])
  BY DEF Incomplete, Outcome!Holding, Terminal
<1>5. Outcome!Replace(r)
  BY <1>1, <1>2, <1>3, <1>4 DEF Outcome!Replace
<1> QED
  BY <1>2, <1>5 DEF OutcomeStep, Outcome!Next

LEMMA WritesWrite == IInv /\ (Checkpoint \/ ExternalWrite) => OutcomeStep
<1> SUFFICES ASSUME IInv, Checkpoint \/ ExternalWrite PROVE OutcomeStep
  OBVIOUS
<1>1. CASE Checkpoint
  <2>1. session # None /\ Write(session.scene) /\ UNCHANGED <<ops, renamed>>
    BY <1>1 DEF Checkpoint, Editing
  <2>2. session.scene \in Scenes
    BY <2>1 DEF IInv, TypeOK, Session
  <2> QED
    BY <2>1, <2>2, OutcomeWrites DEF OutcomeStep
<1>2. CASE ExternalWrite
  BY <1>2, OutcomeWrites DEF OutcomeStep, ExternalWrite
<1> QED
  BY <1>1, <1>2


LEMMA TransitionMoves ==
    ASSUME IInv, NEW r \in Requests, ops[r] # None, ops[r].state \notin Terminal,
           NEW to \in OperationStates, Transition(r, to),
           to = "aborted" => r \notin renamed, to = "completed" => r \in held,
           UNCHANGED <<file, renamed, held>>
    PROVE  OutcomeStep
<1>1. /\ ops'[r] # None /\ ops'[r].state = to
      /\ \A q \in Requests : q # r => ops'[q] = ops[q]
  BY TransitionFacts DEF IInv
<1> QED
  BY <1>1, OutcomeMoves

LEMMA BestEffortMoves ==
    ASSUME IInv, NEW r \in Requests, NEW to \in {"aborted", "conflict", "reconcile"},
           BestEffort(r, to), to = "aborted" => r \notin renamed,
           UNCHANGED <<file, renamed, held>>
    PROVE  OutcomeStep
<1>1. /\ \A q \in Requests : q # r => ops'[q] = ops[q]
      /\ \/ ops'[r] = ops[r]
         \/ /\ ops[r] # None /\ ops[r].state \notin Terminal
            /\ ops'[r] # None /\ ops'[r].state = to
  BY BestEffortFacts DEF IInv
<1> QED
  BY <1>1, OutcomeMoves

\* A replacement's own steps.
LEMMA ReplacingImplements ==
    IInv /\ (Replacing \/ FailBeforeRename \/ FailAfterRename) => OutcomeStep
<1> SUFFICES ASSUME IInv, Replacing \/ FailBeforeRename \/ FailAfterRename PROVE OutcomeStep
  OBVIOUS
<1> DEFINE r == task.request
<1>1. CASE \/ PublishProtection \/ SyncParent
           \/ FinalizeDraft \/ FinalizeRecovery \/ FinalizeIdentity
  <2>1. UNCHANGED <<file, ops, renamed, held>>
    BY <1>1 DEF PublishProtection, SyncParent, FinalizeDraft, FinalizeRecovery, FinalizeIdentity,
                durable, counters
  <2> QED
    BY <2>1, OutcomeIdles
<1>2. CASE Advance \/ MarkTargetPublished
  <2>1. PICK t \in {"protected", "intent_committed", "target_observed", "finalize"} : Step(t)
    BY <1>2, LinearIs DEF Advance, MarkTargetPublished
  <2>2. UNCHANGED <<file, process, renamed, held>> /\ process = "up" /\ task # None
    BY <1>2 DEF Advance, MarkTargetPublished, Running, counters
  <2>3. task' # None /\ task'.step = t /\ task'.request = r /\ r \in Requests
    BY <2>1, <2>2, StepFacts, TaskFacts DEF IInv, ReplaceSteps
  <2>4. ops'[r] # None /\ ops'[r].state \notin Terminal
    BY <1>2, <2>1, <2>2, <2>3, AdvanceKeeps, MarkTargetPublishedKeeps
       DEF IInv, PhasesFollow, Terminal
  <2>5. \A q \in Requests : q # r => ops'[q] = ops[q]
    BY <1>2 DEF IInv, TypeOK, Advance, MarkTargetPublished
  <2>6. task.step \in {"preparing", "protected", "intent_committed", "record"}
    BY <1>2, LinearIs DEF Advance, MarkTargetPublished, Running
  <2>7. ops[r] # None /\ ops[r].state \notin Terminal
    BY <2>2, <2>6 DEF IInv, PhasesFollow, Terminal
  <2>8. ops'[r].state # "aborted" /\ ops'[r].state # "completed"
    BY <2>4 DEF Terminal
  <2> QED
    BY <2>2, <2>3, <2>4, <2>5, <2>7, <2>8, OutcomeMoves
<1>3. CASE ValidateExpectedTarget
  <2>1. UNCHANGED <<file, renamed, held>> /\ (UNCHANGED ops \/ BestEffort(r, "conflict"))
    BY <1>3 DEF ValidateExpectedTarget, counters
  <2>2. r \in Requests
    BY <1>3, TaskFacts DEF IInv, ValidateExpectedTarget, Running
  <2> QED
    BY <2>1, <2>2, OutcomeIdles, BestEffortMoves
<1>4. CASE CommitMetadata \/ Complete
  <2>1. PICK to \in {"metadata_committed", "completed"} : Transition(r, to)
    BY <1>4 DEF CommitMetadata, Complete
  <2>2. PICK s \in {"target_published", "metadata_committed"} : Running(s)
    BY <1>4 DEF CommitMetadata, Complete
  <2>3. s \in ReplaceSteps \ {"protect", "begin"} /\ to \in OperationStates
    BY OperationStatesAre DEF ReplaceSteps
  <2>4. /\ process = "up" /\ task # None /\ task.step = s /\ r \in Requests
        /\ ops[r] # None /\ ops[r].state \notin Terminal
    BY <2>2, <2>3, PhaseFacts
  <2>5. r \in held /\ UNCHANGED <<file, renamed, held>>
    BY <1>4, <2>4 DEF IInv, PhasesFollow, CommitMetadata, Complete, counters
  <2> QED
    BY <2>1, <2>3, <2>4, <2>5, TransitionMoves
<1>5. CASE FailBeforeRename
  <2>1. PICK s \in {"protect", "begin", "preparing", "protected", "intent_committed",
                    "target_observed", "rename"} : Running(s)
    BY <1>5 DEF FailBeforeRename
  <2>2. r \in Requests /\ r \notin renamed
    BY <2>1, TaskFacts DEF IInv, PhasesFollow, Running
  <2>3. BestEffort(r, "aborted") /\ UNCHANGED <<file, renamed, held>>
    BY <1>5 DEF FailBeforeRename, Abort, counters
  <2> QED
    BY <2>2, <2>3, BestEffortMoves
<1>6. CASE FailAfterRename
  <2>1. r \in Requests
    BY <1>6, TaskFacts DEF IInv, FailAfterRename, Running
  <2>2. BestEffort(r, "reconcile") /\ UNCHANGED <<file, renamed, held>>
    BY <1>6 DEF FailAfterRename, MarkReconcile, counters
  <2> QED
    BY <2>1, <2>2, BestEffortMoves
<1> QED
  BY <1>1, <1>2, <1>3, <1>4, <1>5, <1>6, RecordRecords, RenameReplaces DEF Replacing

\* The steps of a launch's reconciliation.
LEMMA ReconciliationImplements == IInv /\ Reconciliation => OutcomeStep
<1> SUFFICES ASSUME IInv, Reconciliation PROVE OutcomeStep
  OBVIOUS
<1> DEFINE r == task.request
<1>1. UNCHANGED <<file, renamed, held>>
  BY DEF Reconciliation, ReconcileOne, RecheckOld, RepairDraft, SettleAborted, ResyncTarget,
         Reobserve, RepairDocumentMetadata, TransitionToCompleted, FinishStartup, Keep,
         counters, durable
<1>2. CASE UNCHANGED ops
  BY <1>1, <1>2, OutcomeIdles
<1>3. ASSUME NEW q \in Incomplete, Conflict(q) \/ MarkPending(q) PROVE OutcomeStep
  <2>1. q \in Requests /\ ops[q] # None /\ ops[q].state \notin Terminal
    BY DEF Incomplete
  <2>2. PICK to \in {"conflict", "reconcile"} : Transition(q, to)
    BY <1>3 DEF Conflict, MarkPending
  <2>3. to \in OperationStates
    BY OperationStatesAre
  <2> QED
    BY <1>1, <2>1, <2>2, <2>3, TransitionMoves
<1>4. ASSUME NEW q \in Requests, ReconcileOne(q) PROVE OutcomeStep
  <2>1. q \in Incomplete
    BY <1>4 DEF ReconcileOne, IInv, ListIsOpen
  <2> QED
    BY <1>2, <1>3, <1>4, <2>1 DEF ReconcileOne
<1>5. CASE \/ RecheckOld \/ RepairDraft \/ ResyncTarget \/ Reobserve \/ RepairDocumentMetadata
  <2>1. PICK s : Reconciling(s)
    BY <1>5 DEF RecheckOld, RepairDraft, ResyncTarget, Reobserve, RepairDocumentMetadata
  <2>2. r \in Incomplete
    BY <2>1, ReconcilingFacts
  <2>3. UNCHANGED ops \/ Conflict(r) \/ MarkPending(r)
    BY <1>5 DEF RecheckOld, RepairDraft, ResyncTarget, Reobserve, RepairDocumentMetadata
  <2> QED
    BY <1>2, <1>3, <2>2, <2>3
<1>6. CASE SettleAborted
  <2>1. /\ Reconciling("settle")
        /\ ops' = [ops EXCEPT ![r].state = "aborted", ![r].newScene = task.seen.scene]
    BY <1>6 DEF SettleAborted
  <2>2. /\ process = "startup" /\ task # None /\ task.step = "settle" /\ r \in Requests
        /\ ops[r] # None /\ ops[r].state \notin Terminal /\ ops[r] \in Operation
        /\ task.seen.scene \in Scenes
    BY <2>1, ReconcilingFacts
  <2>3. r \notin renamed
    BY <2>2 DEF IInv, ReconciliationFollows
  <2>4. [ops[r] EXCEPT !.state = "aborted", !.newScene = task.seen.scene] \in Operation
    BY <2>2, OperationStatesAre DEF Operation
  <2>5. /\ ops'[r] # None /\ ops'[r].state = "aborted"
        /\ \A q \in Requests : q # r => ops'[q] = ops[q]
    BY <2>1, <2>2, <2>4, NoneIsNoRecord DEF IInv, TypeOK, Operation
  <2> QED
    BY <1>1, <2>2, <2>3, <2>5, OutcomeMoves
<1>7. CASE TransitionToCompleted
  <2>1. PICK s \in {"reopen", "replay"} : Reconciling(s)
    BY <1>7 DEF TransitionToCompleted
  <2>2. /\ process = "startup" /\ task # None /\ task.step = s /\ r \in Requests
        /\ ops[r] # None /\ ops[r].state \notin Terminal /\ ops[r] \in Operation
        /\ task.seen \in File /\ task.seen.scene \in Scenes
    BY <2>1, ReconcilingFacts
  <2>3. r \in held
    BY <2>2 DEF IInv, ReconciliationFollows
  <2>4. ASSUME NEW to \in {"reconcile", "target_published", "metadata_committed", "completed"},
               Transition(r, to)
        PROVE  OutcomeStep
    <3>1. to \in OperationStates
      BY OperationStatesAre
    <3> QED
      BY <1>1, <2>2, <2>3, <2>4, <3>1, TransitionMoves
  <2>5. CASE ops' = [ops EXCEPT ![r].state = "target_observed",
                       ![r].newScene = task.seen.scene, ![r].newIdent = task.seen.ident]
    <3>1. task.seen.ident \in 0..MaxWrites
      BY <2>2, BoundsAssumption DEF File
    <3>2. [ops[r] EXCEPT !.state = "target_observed", !.newScene = task.seen.scene,
                         !.newIdent = task.seen.ident] \in Operation
      BY <2>2, <3>1, OperationStatesAre DEF Operation
    <3>3. /\ ops'[r] # None /\ ops'[r].state = "target_observed"
          /\ \A q \in Requests : q # r => ops'[q] = ops[q]
      BY <2>2, <2>5, <3>2, NoneIsNoRecord DEF IInv, TypeOK, Operation
    <3> QED
      BY <1>1, <2>2, <3>3, OutcomeMoves
  <2> QED
    BY <1>7, <2>4, <2>5, LinearIs DEF TransitionToCompleted
<1>8. CASE FinishStartup
  BY <1>2, <1>8 DEF FinishStartup, durable
<1> QED
  BY <1>4, <1>5, <1>6, <1>7, <1>8 DEF Reconciliation

LEMMA OutcomeSteps == IInv /\ [Next]_vars => [Outcome!Next]_(Outcome!vars)
<1> SUFFICES ASSUME IInv, [Next]_vars PROVE OutcomeStep
  BY DEF OutcomeStep
<1>1. CASE Open \/ Close \/ SaveDraft \/ Crash \/ Launch \/ ReconciliationFails \/ UNCHANGED vars
  <2>1. UNCHANGED <<file, ops, renamed, held>>
    BY <1>1 DEF Open, Close, SaveDraft, Crash, Launch, ReconciliationFails, vars, durable, counters
  <2> QED
    BY <2>1, OutcomeIdles
<1>2. ASSUME NEW r \in Requests, Replace(r) \/ OperationStatus(r) PROVE OutcomeStep
  <2>1. UNCHANGED <<file, ops, renamed, held>>
    BY <1>2 DEF Replace, OperationStatus, durable, counters
  <2> QED
    BY <2>1, OutcomeIdles
<1> QED
  BY <1>1, <1>2, WritesWrite, ReplacingImplements, ReconciliationImplements DEF Next

\* The phases of a replacement, their failures, the crashes between them and the
\* reconciliation of the next launch implement ReplacementOutcome: a request is
\* applied at most once and while it is open, what is aborted was never applied,
\* what is completed was in the drawing, and what is settled stays.
THEOREM ImplementsOutcome == Spec => OutcomeSpec
<1> QED
  BY OutcomeInit, AlwaysIInv, OutcomeSteps, PTL DEF Spec, OutcomeSpec, Outcome!Spec
===============================================================================
