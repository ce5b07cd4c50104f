--------------------------- MODULE WorkspaceProofs ---------------------------
(***************************************************************************)
(* For any number of windows, Workspaces, drawings and calls: the indexes  *)
(* of WindowRegistry stay in step with the window records, nothing passes  *)
(* from window to window in one step, and only a claim that is rolled back *)
(* makes the Workspaces of two windows overlap.                            *)
(* However the commands interleave and whichever of their writes fail, the *)
(* indexes stay so, and nothing is left to a window that is destroyed. One *)
(* after the other, they also keep the database and the watchers in step   *)
(* with the registry.                                                      *)
(* For any number of paths, files, workers and records: what the journal   *)
(* of renames and deletions carries along follows the file.                *)
(***************************************************************************)
EXTENDS MCWorkspaceCommands, MCEntryMutations, FiniteSetTheorems, TLAPS

-----------------------------------------------------------------------------
(* The registry: Spec is that of WindowRegistry.                            *)

\* The inductive invariant: an index can only be updated correctly where it is
\* already in step with the records, in both directions.
IInv == TypeOK /\ IndexesInStep

\* A Workspace that l may claim is owned by no other window.
LEMMA ClaimableIsFree ==
  ASSUME IInv, NEW l \in Label, NEW w \in Workspace, Claimable(l, w)
  PROVE  workspaceOwner[w] \in {NoWindow, l}
<1> USE NoneAssumption, RootAssumption, InsideAssumption, DrawingAssumption
<1>1. SUFFICES ASSUME NEW m \in Label, m # l, workspaceOwner[w] = m
               PROVE  FALSE
  BY DEF IInv, TypeOK
<1>2. workspace[m] = w /\ m \in open
  BY <1>1 DEF IInv, TypeOK, IndexesInStep
<1>3. m \in Conflicting(l, Root[w])
  BY <1>1, <1>2 DEF Conflicting, Overlap
<1>4. QED
  BY <1>3 DEF Claimable

\* set_workspace keeps the Workspace index in step, provided that no other
\* window owns the Workspace it gives to l.
LEMMA SetWorkspaceInStep ==
  ASSUME IInv, NEW l \in open, NEW w \in Workspace \union {NoWorkspace},
         w # NoWorkspace => workspaceOwner[w] \in {NoWindow, l},
         SetWorkspace(l, w)
  PROVE  /\ workspace' \in [Label -> Workspace \union {NoWorkspace}]
         /\ workspaceOwner' \in [Workspace -> Label \union {NoWindow}]
         /\ \A v \in Workspace, m \in Label : workspaceOwner'[v] = m <=> workspace'[m] = v
         /\ \A m \in Label \ open : workspace'[m] = NoWorkspace
  BY NoneAssumption, RootAssumption, InsideAssumption, DrawingAssumption DEF IInv, TypeOK, IndexesInStep, SetWorkspace, IndexAfter

LEMMA InitInv == Init => IInv
  BY NoneAssumption, RootAssumption, InsideAssumption, DrawingAssumption DEF Init, IInv, TypeOK, IndexesInStep

LEMMA CommitClaimInv ==
  ASSUME IInv, NEW l \in Label, NEW w \in Workspace, CommitClaim(l, w),
         undo' \in [Call -> Rollback \union {NoUndo}]
  PROVE  IInv'
<1> USE NoneAssumption, RootAssumption, InsideAssumption, DrawingAssumption
<1>1. l \in open /\ workspaceOwner[w] \in {NoWindow, l}
  BY ClaimableIsFree DEF CommitClaim, Claimable
<1>2. SetWorkspace(l, w)
  BY DEF CommitClaim
<1>3. QED
  BY <1>1, <1>2, SetWorkspaceInStep DEF CommitClaim, IInv, TypeOK, IndexesInStep

LEMMA RollbackInv == ASSUME IInv, NEW c \in Call, RollbackClaim(c) PROVE IInv'
<1> USE NoneAssumption, RootAssumption, InsideAssumption, DrawingAssumption
<1> DEFINE r == undo[c]
<1>1. r \in Rollback /\ undo' \in [Call -> Rollback \union {NoUndo}]
  BY DEF RollbackClaim, IInv, TypeOK
<1>2. CASE workspace[r.label] = r.claimed /\ SetWorkspace(r.label, Restored(r))
  <2>1. r.label \in open /\ r.label \in Label
    BY <1>1, <1>2 DEF Rollback, IInv, IndexesInStep
  <2>2. Restored(r) \in Workspace \union {NoWorkspace}
    BY <1>1 DEF Rollback, Restored
  <2>3. Restored(r) # NoWorkspace => workspaceOwner[Restored(r)] = NoWindow
    BY DEF Restored
  <2>4. QED
    BY <1>1, <1>2, <2>1, <2>2, <2>3, SetWorkspaceInStep
       DEF RollbackClaim, IInv, TypeOK, IndexesInStep
<1>3. CASE UNCHANGED <<workspace, workspaceOwner>>
  BY <1>1, <1>3 DEF RollbackClaim, IInv, TypeOK, IndexesInStep
<1>4. QED
  BY <1>2, <1>3 DEF RollbackClaim

\* Each method keeps the invariant.
LEMMA StepInv == IInv /\ [Next]_vars => IInv'
<1> USE NoneAssumption, RootAssumption, InsideAssumption, DrawingAssumption
<1> SUFFICES ASSUME IInv, [Next]_vars PROVE IInv'
  OBVIOUS
<1>1. ASSUME NEW l \in Label, Register(l) PROVE IInv'
  BY <1>1 DEF Register, indexes, IInv, TypeOK, IndexesInStep
<1>2. ASSUME NEW l \in Label, Unregister(l) PROVE IInv'
  BY <1>2 DEF Unregister, IInv, TypeOK, IndexesInStep
<1>3. ASSUME NEW l \in Label, ReleaseWorkspace(l) PROVE IInv'
  <2>1. l \in open /\ SetWorkspace(l, NoWorkspace)
    BY <1>3 DEF ReleaseWorkspace
  <2>2. QED
    BY <1>3, <2>1, SetWorkspaceInStep DEF ReleaseWorkspace, IInv, TypeOK, IndexesInStep
<1>4. ASSUME NEW l \in Label, NEW w \in Workspace, ClaimForGood(l, w) PROVE IInv'
  BY <1>4, CommitClaimInv DEF ClaimForGood, IInv, TypeOK
<1>5. ASSUME NEW l \in Label, NEW w \in Workspace, NEW c \in Call, Claim(c, l, w)
      PROVE  IInv'
  <2>1. UndoRecord(l, w) \in Rollback
    BY DEF UndoRecord, Rollback, IInv, TypeOK
  <2>2. QED
    BY <1>5, <2>1, CommitClaimInv DEF Claim, IInv, TypeOK
<1>6. ASSUME NEW c \in Call, MountWritten(c) PROVE IInv'
  BY <1>6 DEF MountWritten, indexes, IInv, TypeOK, IndexesInStep
<1>7. ASSUME NEW l \in Label, NEW p \in Drawing, ClaimDocument(l, p) PROVE IInv'
  BY <1>7 DEF ClaimDocument, IInv, TypeOK, IndexesInStep
<1>8. ASSUME NEW l \in Label, NEW p \in Drawing, ReleaseDocument(l, p) PROVE IInv'
  BY <1>8 DEF ReleaseDocument, IInv, TypeOK, IndexesInStep
<1>9. CASE UNCHANGED vars
  BY <1>9 DEF vars, indexes, IInv, TypeOK, IndexesInStep
<1>10. QED
  BY <1>1, <1>2, <1>3, <1>4, <1>5, <1>6, <1>7, <1>8, <1>9, RollbackInv
     DEF Next, NextWritesSucceed, MethodOf

LEMMA InvHolds == Spec => []IInv
  BY NoneAssumption, RootAssumption, InsideAssumption, DrawingAssumption, InitInv, StepInv, PTL DEF Spec

-----------------------------------------------------------------------------
\* Type correctness of the registry.
THEOREM TypeCorrect == Spec => []TypeOK
<1> USE NoneAssumption, RootAssumption, InsideAssumption, DrawingAssumption
<1>1. IInv => TypeOK
  BY DEF IInv
<1>2. QED
  BY <1>1, InvHolds, PTL

\* The owner indexes and the window records of registry.rs stay in step, which
\* its debug_check asserts after every method.
THEOREM IndexesStayInStep == Spec => []IndexesInStep
<1> USE NoneAssumption, RootAssumption, InsideAssumption, DrawingAssumption
<1>1. IInv => IndexesInStep
  BY DEF IInv
<1>2. QED
  BY <1>1, InvHolds, PTL

\* What a window loses in a step no other window gains in that step.
LEMMA SetWorkspaceLetsGo ==
  ASSUME IInv, NEW l \in open, NEW w \in Workspace \union {NoWorkspace},
         w # NoWorkspace => workspaceOwner[w] \in {NoWindow, l},
         SetWorkspace(l, w)
  PROVE  \A v \in Workspace : LetGoFirst(workspaceOwner[v], workspaceOwner'[v])
  BY NoneAssumption, RootAssumption, InsideAssumption, DrawingAssumption DEF IInv, TypeOK, SetWorkspace, IndexAfter, LetGoFirst

LEMMA CommitClaimLetsGo ==
  ASSUME IInv, NEW l \in Label, NEW w \in Workspace, CommitClaim(l, w)
  PROVE  \A v \in Workspace : LetGoFirst(workspaceOwner[v], workspaceOwner'[v])
  BY NoneAssumption, RootAssumption, InsideAssumption, DrawingAssumption, ClaimableIsFree, SetWorkspaceLetsGo DEF CommitClaim, Claimable

LEMMA RollbackLetsGo ==
  ASSUME IInv, NEW c \in Call, RollbackClaim(c)
  PROVE  \A v \in Workspace : LetGoFirst(workspaceOwner[v], workspaceOwner'[v])
<1> USE NoneAssumption, RootAssumption, InsideAssumption, DrawingAssumption
<1> DEFINE r == undo[c]
<1>1. r \in Rollback
  BY DEF RollbackClaim, IInv, TypeOK
<1>2. CASE workspace[r.label] = r.claimed /\ SetWorkspace(r.label, Restored(r))
  <2>1. r.label \in open
    BY <1>1, <1>2 DEF Rollback, IInv, IndexesInStep
  <2>2. Restored(r) \in Workspace \union {NoWorkspace}
    BY <1>1 DEF Rollback, Restored
  <2>3. Restored(r) # NoWorkspace => workspaceOwner[Restored(r)] = NoWindow
    BY DEF Restored
  <2>4. QED
    BY <1>2, <2>1, <2>2, <2>3, SetWorkspaceLetsGo
<1>3. CASE UNCHANGED <<workspace, workspaceOwner>>
  BY <1>3 DEF LetGoFirst
<1>4. QED
  BY <1>2, <1>3 DEF RollbackClaim

\* No step of registry.rs hands a Workspace or a drawing from window to window.
THEOREM NothingIsTakenOver == Spec => NoTakeover
<1> USE NoneAssumption, RootAssumption, InsideAssumption, DrawingAssumption
<1> DEFINE Workspaces == \A w \in Workspace : LetGoFirst(workspaceOwner[w], workspaceOwner'[w])
           Drawings == \A p \in Drawing : LetGoFirst(documentOwner[p], documentOwner'[p])
<1>1. IInv /\ [Next]_vars => [Workspaces /\ Drawings]_vars
  <2> SUFFICES ASSUME IInv, Next PROVE Workspaces /\ Drawings
    OBVIOUS
  <2>1. ASSUME NEW l \in Label, Unregister(l) PROVE Workspaces /\ Drawings
    BY <2>1 DEF Unregister, LetGoFirst, IInv, TypeOK
  <2>2. ASSUME NEW l \in Label, ReleaseWorkspace(l) PROVE Workspaces /\ Drawings
    BY <2>2, SetWorkspaceLetsGo DEF ReleaseWorkspace, LetGoFirst
  <2>3. ASSUME NEW l \in Label, NEW w \in Workspace, CommitClaim(l, w)
        PROVE  Workspaces /\ Drawings
    BY <2>3, CommitClaimLetsGo DEF CommitClaim, LetGoFirst
  <2>4. ASSUME NEW l \in Label, NEW p \in Drawing,
               ClaimDocument(l, p) \/ ReleaseDocument(l, p)
        PROVE  Workspaces /\ Drawings
    BY <2>4 DEF ClaimDocument, ReleaseDocument, LetGoFirst, IInv, TypeOK
  <2>5. ASSUME NEW c \in Call, RollbackClaim(c) PROVE Workspaces /\ Drawings
    BY <2>5, RollbackLetsGo DEF RollbackClaim, LetGoFirst
  <2>6. ASSUME UNCHANGED indexes PROVE Workspaces /\ Drawings
    BY <2>6 DEF indexes, LetGoFirst
  <2>7. QED
    BY <2>1, <2>2, <2>3, <2>4, <2>5, <2>6
       DEF Next, NextWritesSucceed, MethodOf, Claim, ClaimForGood, Register, MountWritten
<1>2. QED
  BY <1>1, InvHolds, PTL DEF Spec, NoTakeover

-----------------------------------------------------------------------------
\* A window that takes w takes a root that overlaps no other window's.
LEMMA SetWorkspaceDisjoint ==
  ASSUME IInv, RootsDisjoint, NEW l \in open,
         NEW w \in Workspace \union {NoWorkspace},
         w # NoWorkspace => Claimable(l, w),
         SetWorkspace(l, w)
  PROVE  RootsDisjoint'
<1> USE NoneAssumption, RootAssumption, InsideAssumption, DrawingAssumption
<1>1. SUFFICES ASSUME NEW m \in Label, NEW n \in Label, m # n,
                      workspace'[m] # NoWorkspace, workspace'[n] # NoWorkspace
               PROVE  ~Overlap(Root[workspace'[m]], Root[workspace'[n]])
  BY DEF RootsDisjoint, Overlap
<1>2. workspace' = [workspace EXCEPT ![l] = w]
  BY DEF SetWorkspace
<1>3. m \in open /\ n \in open
  BY <1>1, <1>2 DEF IInv, TypeOK, IndexesInStep
<1>4. CASE m # l /\ n # l
  BY <1>1, <1>2, <1>4 DEF RootsDisjoint, IInv, TypeOK
<1>5. CASE m = l
  <2>1. n \notin Conflicting(l, Root[w])
    BY <1>1, <1>2, <1>5 DEF Claimable, IInv, TypeOK
  <2>2. QED
    BY <1>1, <1>2, <1>3, <1>5, <2>1 DEF Conflicting, Overlap, IInv, TypeOK
<1>6. CASE n = l
  <2>1. m \notin Conflicting(l, Root[w])
    BY <1>1, <1>2, <1>6 DEF Claimable, IInv, TypeOK
  <2>2. QED
    BY <1>1, <1>2, <1>3, <1>6, <2>1 DEF Conflicting, Overlap, IInv, TypeOK
<1>7. QED
  BY <1>4, <1>5, <1>6

\* Every other method leaves Workspaces apart that were apart before.
LEMMA StepsKeepApart ==
  ASSUME IInv, RootsDisjoint, NextWritesSucceed PROVE RootsDisjoint'
<1> USE NoneAssumption, RootAssumption, InsideAssumption, DrawingAssumption
<1>1. ASSUME NEW l \in Label, Unregister(l) PROVE RootsDisjoint'
  BY <1>1 DEF Unregister, RootsDisjoint, Overlap, IInv, TypeOK
<1>2. ASSUME NEW l \in Label, ReleaseWorkspace(l) PROVE RootsDisjoint'
  BY <1>2, SetWorkspaceDisjoint DEF ReleaseWorkspace
<1>3. ASSUME NEW l \in Label, NEW w \in Workspace, CommitClaim(l, w)
      PROVE  RootsDisjoint'
  BY <1>3, SetWorkspaceDisjoint DEF CommitClaim, Claimable
<1>4. ASSUME UNCHANGED workspace PROVE RootsDisjoint'
  BY <1>4 DEF RootsDisjoint, Overlap
<1>5. QED
  BY <1>1, <1>2, <1>3, <1>4
     DEF NextWritesSucceed, MethodOf, Claim, ClaimForGood, Register, MountWritten,
         ClaimDocument, ReleaseDocument, indexes

\* No claim and no release of registry.rs makes two windows' Workspaces
\* overlap; rollback_claim is the one method that can.
THEOREM OverlapsNeedARollback == Spec => OnlyRollbackOverlaps
<1> USE NoneAssumption, RootAssumption, InsideAssumption, DrawingAssumption
<1> DEFINE Rollbacks == \E c \in Call : RollbackClaim(c)
           KeepsApart == RootsDisjoint => RootsDisjoint' \/ Rollbacks
<1>1. IInv /\ [Next]_vars => [KeepsApart]_vars
  <2> SUFFICES ASSUME IInv, Next PROVE KeepsApart
    OBVIOUS
  <2>1. CASE NextWritesSucceed
    BY <2>1, StepsKeepApart
  <2>2. CASE Rollbacks
    BY <2>2
  <2>3. QED
    BY <2>1, <2>2 DEF Next
<1>2. QED
  BY <1>1, InvHolds, PTL DEF Spec, OnlyRollbackOverlaps

-----------------------------------------------------------------------------
(* The commands: CommandsSpec, and PastSpec of MCWorkspaceCommands.         *)

\* A call is always in one of the places its function has, with its arguments
\* of the right kind: what turns a step of a call into a method of a window.
CInv == CommandsTypeOK /\ IInv

LEMMA CommandsInitInv == CommandsInit => Init /\ CInv
  BY InitInv DEF CommandsInit, CInv, CommandsTypeOK, IInv

LEMMA ClaimPlaces ==
  ASSUME CInv, NEW c \in Call,
         calls[c].at \in {"probed", "held read", "committed", "mounted", "stopped"}
  PROVE  calls[c] \in ClaimCall
<1>1. calls[c] \in {Idle} \union ClaimCall \union ReleaseCall
  BY DEF CInv, CommandsTypeOK
<1>2. Idle.at = "idle" /\ \A call \in ReleaseCall :
        call.at \in {"release", "released", "unmounted", "unregister"}
  BY DEF Idle, ReleaseCall
<1>3. QED
  BY <1>1, <1>2

LEMMA ReleasePlaces ==
  ASSUME CInv, NEW c \in Call,
         calls[c].at \in {"release", "released", "unmounted", "unregister"}
  PROVE  calls[c] \in ReleaseCall
<1>1. calls[c] \in {Idle} \union ClaimCall \union ReleaseCall
  BY DEF CInv, CommandsTypeOK
<1>2. Idle.at = "idle" /\ \A call \in ClaimCall :
        call.at \in {"probed", "held read", "committed", "mounted", "stopped"}
  BY DEF Idle, ClaimCall
<1>3. QED
  BY <1>1, <1>2

\* A call moved on to another place of its function is still one of its kind.
LEMMA MovedClaim ==
  ASSUME NEW call \in ClaimCall, NEW held \in BOOLEAN, NEW gives \in SUBSET Workspace,
         NEW place \in {"probed", "held read", "committed", "mounted", "stopped"}
  PROVE  /\ [call EXCEPT !.at = place] \in ClaimCall
         /\ [call EXCEPT !.at = place, !.held = held] \in ClaimCall
         /\ [call EXCEPT !.at = place, !.replaced = gives] \in ClaimCall
  BY DEF ClaimCall

LEMMA MovedRelease ==
  ASSUME NEW call \in ReleaseCall, NEW w \in MaybeWorkspace,
         NEW place \in {"release", "released", "unmounted", "unregister"}
  PROVE  /\ [call EXCEPT !.at = place] \in ReleaseCall
         /\ [call EXCEPT !.at = place, !.released = w] \in ReleaseCall
  BY DEF ReleaseCall

\* A step of a call is a method of the registry, or leaves it alone.
LEMMA StepsAreMethods == CInv /\ [CommandsNext]_allVars => [Next]_vars
<1> SUFFICES ASSUME CInv, [CommandsNext]_allVars PROVE [Next]_vars
  OBVIOUS
<1>1. ASSUME NEW l \in Label, OpenWindow(l) PROVE Next
  BY <1>1 DEF OpenWindow, Next, NextWritesSucceed, MethodOf
<1>2. ASSUME NEW c \in Call, CommitOwnership(c) PROVE [Next]_vars
  <2>1. calls[c].label \in Label /\ calls[c].target \in Workspace
    BY <1>2, ClaimPlaces DEF CommitOwnership, At, ClaimCall
  <2>2. QED
    BY <1>2, <2>1 DEF CommitOwnership, Next, NextWritesSucceed, MethodOf
<1>3. ASSUME NEW c \in Call, MountTarget(c) \/ MountFails(c) PROVE Next
  BY <1>3 DEF MountTarget, MountFails, Next, NextWritesSucceed
<1>4. ASSUME NEW c \in Call, ReleaseOwnership(c) \/ ForgetWindow(c) PROVE [Next]_vars
  <2>1. calls[c].label \in Label
    BY <1>4, ReleasePlaces DEF ReleaseOwnership, ForgetWindow, At, ReleaseCall
  <2>2. QED
    BY <1>4, <2>1 DEF ReleaseOwnership, ForgetWindow, Next, NextWritesSucceed, MethodOf
<1>5. ASSUME NEW c \in Call, UnmountFails(c) PROVE [Next]_vars
  <2>1. calls[c].label \in Label
        /\ calls[c].previous \in Workspace \union {NoWorkspace}
    BY <1>5, ReleasePlaces DEF UnmountFails, At, ReleaseCall, MaybeWorkspace
  <2>2. QED
    BY <1>5, <2>1 DEF UnmountFails, Next, NextWritesSucceed, MethodOf
<1>6. CASE UNCHANGED vars
  BY <1>6
<1>7. QED
  BY <1>1, <1>2, <1>3, <1>4, <1>5, <1>6
     DEF CommandsNext, Start, Step, WriteFails, StartClaim, CloseWorkspace,
         DestroyWindow, StartRelease, ReadHeld, StopReplaced, SpawnWatcher,
         Unmount, StopReleased, allVars

\* What a step writes into `calls` and into the services is of the right kind.
LEMMA CallTypes ==
  CInv /\ [CommandsNext]_allVars =>
    /\ mounted' \subseteq Workspace /\ watched' \subseteq Workspace
    /\ leaked' \subseteq Workspace /\ gone' \subseteq Label
    /\ calls' \in [Call -> {Idle} \union ClaimCall \union ReleaseCall]
<1> DEFINE Goal == /\ mounted' \subseteq Workspace /\ watched' \subseteq Workspace
                   /\ leaked' \subseteq Workspace /\ gone' \subseteq Label
                   /\ calls' \in [Call -> {Idle} \union ClaimCall \union ReleaseCall]
<1> SUFFICES ASSUME CInv, [CommandsNext]_allVars PROVE Goal
  OBVIOUS
<1> USE DEF CInv, CommandsTypeOK, services
<1>1. ASSUME NEW l \in Label, OpenWindow(l) PROVE Goal
  BY <1>1 DEF OpenWindow
<1>2. ASSUME NEW c \in Call, NEW l \in Label, NEW w \in Workspace, StartClaim(c, l, w)
      PROVE  Goal
  BY <1>2 DEF StartClaim, Become, ClaimCall
<1>3. ASSUME NEW c \in Call, NEW l \in Label,
             CloseWorkspace(c, l) \/ DestroyWindow(c, l)
      PROVE  Goal
  <2>1. \A b \in BOOLEAN : [at |-> "release", label |-> l, previous |-> workspace[l],
                            released |-> NoWorkspace, destroys |-> b] \in ReleaseCall
    BY DEF ReleaseCall, MaybeWorkspace, TypeOK
  <2>2. QED
    BY <1>3, <2>1 DEF CloseWorkspace, DestroyWindow, StartRelease, Become
<1>4. ASSUME NEW c \in Call, ReadHeld(c) PROVE Goal
  <2>1. calls[c] \in ClaimCall
    BY <1>4, ClaimPlaces DEF ReadHeld, At
  <2>2. [calls[c] EXCEPT !.at = "held read",
                         !.held = workspace[calls[c].label] = calls[c].target] \in ClaimCall
    BY <2>1, MovedClaim
  <2>3. QED
    BY <1>4, <2>2 DEF ReadHeld, Become
<1>5. ASSUME NEW c \in Call, CommitOwnership(c) PROVE Goal
  <2>1. calls[c] \in ClaimCall
    BY <1>5, ClaimPlaces DEF CommitOwnership, At
  <2>2. Replaces(calls[c].label, calls[c].target) \subseteq Workspace
    BY <2>1 DEF ClaimCall, Replaces, TypeOK
  <2>3. [calls[c] EXCEPT !.at = "committed",
                         !.replaced = Replaces(calls[c].label, calls[c].target)] \in ClaimCall
    BY <2>1, <2>2, MovedClaim
  <2>4. QED
    BY <1>5, <2>3 DEF CommitOwnership, Become
<1>6. ASSUME NEW c \in Call, MountTarget(c) PROVE Goal
  <2>1. calls[c] \in ClaimCall
    BY <1>6, ClaimPlaces DEF MountTarget, At
  <2>2. calls[c].target \in Workspace
    BY <2>1 DEF ClaimCall
  <2>3. [calls[c] EXCEPT !.at = "mounted"] \in ClaimCall
    BY <2>1, MovedClaim
  <2>4. QED
    BY <1>6, <2>2, <2>3 DEF MountTarget, Goto
<1>7. ASSUME NEW c \in Call, StopReplaced(c) \/ SpawnWatcher(c) \/ MountFails(c) PROVE Goal
  <2>1. calls[c] \in ClaimCall
    BY <1>7, ClaimPlaces DEF StopReplaced, SpawnWatcher, MountFails, At
  <2>2. calls[c].target \in Workspace
    BY <2>1 DEF ClaimCall
  <2>3. [calls[c] EXCEPT !.at = "stopped"] \in ClaimCall
    BY <2>1, MovedClaim
  <2>4. QED
    BY <1>7, <2>2, <2>3 DEF StopReplaced, SpawnWatcher, MountFails, Become, Goto
<1>8. ASSUME NEW c \in Call, ReleaseOwnership(c) PROVE Goal
  <2>1. calls[c] \in ReleaseCall
    BY <1>8, ReleasePlaces DEF ReleaseOwnership, At
  <2>2. workspace[calls[c].label] \in MaybeWorkspace
    BY <2>1 DEF ReleaseCall, MaybeWorkspace, TypeOK
  <2>3. /\ AfterRelease(calls[c]) \in {Idle} \union ReleaseCall
        /\ [calls[c] EXCEPT !.at = "released", !.released = workspace[calls[c].label]]
             \in ReleaseCall
    BY <2>1, <2>2, MovedRelease DEF AfterRelease, MaybeWorkspace
  <2>4. QED
    BY <1>8, <2>3 DEF ReleaseOwnership, Become
<1>9. ASSUME NEW c \in Call, Unmount(c) \/ UnmountFails(c) \/ StopReleased(c) PROVE Goal
  <2>1. calls[c] \in ReleaseCall
    BY <1>9, ReleasePlaces DEF Unmount, UnmountFails, StopReleased, At
  <2>2. /\ AfterRelease(calls[c]) \in {Idle} \union ReleaseCall
        /\ [calls[c] EXCEPT !.at = "unmounted"] \in ReleaseCall
    BY <2>1, MovedRelease DEF AfterRelease, MaybeWorkspace
  <2>3. QED
    BY <1>9, <2>2 DEF Unmount, UnmountFails, StopReleased, Become, Goto
<1>10. ASSUME NEW c \in Call, ForgetWindow(c) PROVE Goal
  BY <1>10 DEF ForgetWindow, Become
<1>11. CASE UNCHANGED allVars
  BY <1>11 DEF allVars
<1>12. QED
  BY <1>1, <1>2, <1>3, <1>4, <1>5, <1>6, <1>7, <1>8, <1>9, <1>10, <1>11
     DEF CommandsNext, Start, Step, WriteFails

LEMMA CommandsStepInv == CInv /\ [CommandsNext]_allVars => CInv'
  BY StepsAreMethods, CallTypes, StepInv DEF CInv, CommandsTypeOK, IInv

\* The indexes stay in step whatever the commands do, failures of their writes
\* included: nothing they do goes around the methods of the registry.
THEOREM CommandsKeepIndexes == CommandsSpec => []IndexesInStep
<1>1. CInv => IndexesInStep
  BY DEF CInv, IInv
<1> QED
  BY <1>1, CommandsInitInv, CommandsStepInv, PTL DEF CommandsSpec

\* A window holds what its index says, and only while it is known.
LEMMA HeldIsOwned ==
  ASSUME IInv, NEW l \in Label
  PROVE  /\ workspace[l] \in Owned \union {NoWorkspace}
         /\ workspace[l] # NoWorkspace => l \in open
         /\ NoWorkspace \notin Owned
<1>1. workspace[l] \in Workspace \union {NoWorkspace} /\ l # NoWindow /\ NoWorkspace \notin Workspace
  BY NoneAssumption DEF IInv, TypeOK
<1> QED
  BY <1>1 DEF IInv, IndexesInStep, Owned

\* This call cleans up after window l.
CleansUp(call, l) == call \in ReleaseCall /\ call.label = l /\ call.destroys

\* A destroyed window that is still known is being cleaned up after.
CleaningInv == \A l \in gone \intersect open : \E c \in Call : CleansUp(calls[c], l)

\* A call that goes on cleans up after whatever it did, unless that is done.
LEMMA CleaningGoesOn ==
  ASSUME CInv, CleaningInv, NEW c \in Call, NEW call, Become(c, call),
         \A l \in gone' \intersect open' :
           \/ CleansUp(call, l)
           \/ l \in gone \intersect open /\ ~CleansUp(calls[c], l)
  PROVE  CleaningInv'
<1> SUFFICES ASSUME NEW l \in gone' \intersect open'
             PROVE  \E d \in Call : CleansUp(calls'[d], l)
  BY DEF CleaningInv, CleansUp
<1>1. calls'[c] = call /\ \A d \in Call \ {c} : calls'[d] = calls[d]
  BY DEF Become, CInv, CommandsTypeOK
<1>2. CASE CleansUp(call, l)
  BY <1>1, <1>2
<1>3. CASE l \in gone \intersect open /\ ~CleansUp(calls[c], l)
  <2>1. PICK d \in Call : CleansUp(calls[d], l)
    BY <1>3 DEF CleaningInv
  <2>2. d # c
    BY <1>3, <2>1
  <2> QED
    BY <1>1, <2>1, <2>2
<1> QED
  BY <1>2, <1>3

LEMMA CleaningStep == CInv /\ CleaningInv /\ [CommandsNext]_allVars => CleaningInv'
<1> SUFFICES ASSUME CInv, CleaningInv, [CommandsNext]_allVars PROVE CleaningInv'
  OBVIOUS
<1>1. \A c \in Call :
        calls[c].at \in {"idle", "probed", "held read", "committed", "mounted", "stopped"} =>
          calls[c] \notin ReleaseCall
  BY DEF ReleaseCall
<1>2. ASSUME NEW l \in Label, OpenWindow(l) PROVE CleaningInv'
  BY <1>2 DEF OpenWindow, Register, CleaningInv, CleansUp
<1>3. ASSUME NEW c \in Call, NEW l \in Label, NEW w \in Workspace, StartClaim(c, l, w) PROVE CleaningInv'
  <2>1. PICK call : Become(c, call)
    BY <1>3 DEF StartClaim
  <2>2. calls[c].at = "idle" /\ UNCHANGED <<open, gone>>
    BY <1>3 DEF StartClaim, At, vars
  <2>3. \A k \in gone' \intersect open' : k \in gone \intersect open /\ ~CleansUp(calls[c], k)
    BY <1>1, <2>2 DEF CleansUp
  <2> QED
    BY <2>1, <2>3, CleaningGoesOn
<1>4. ASSUME NEW c \in Call, NEW l \in Label, CloseWorkspace(c, l) PROVE CleaningInv'
  <2>1. PICK call : Become(c, call)
    BY <1>4 DEF CloseWorkspace, StartRelease
  <2>2. calls[c].at = "idle" /\ UNCHANGED <<open, gone>>
    BY <1>4 DEF CloseWorkspace, StartRelease, At, vars
  <2>3. \A k \in gone' \intersect open' : k \in gone \intersect open /\ ~CleansUp(calls[c], k)
    BY <1>1, <2>2 DEF CleansUp
  <2> QED
    BY <2>1, <2>3, CleaningGoesOn
<1>5. ASSUME NEW c \in Call, NEW l \in Label, DestroyWindow(c, l) PROVE CleaningInv'
  <2> DEFINE call == [at |-> "release", label |-> l, previous |-> workspace[l],
                      released |-> NoWorkspace, destroys |-> TRUE]
  <2>1. /\ Become(c, call) /\ calls[c].at = "idle"
        /\ open' = open /\ gone' = gone \union {l}
    BY <1>5 DEF DestroyWindow, StartRelease, At, vars
  <2>2. CleansUp(call, l)
    BY DEF CInv, CommandsTypeOK, TypeOK, ReleaseCall, MaybeWorkspace, CleansUp
  <2> HIDE DEF call
  <2>3. \A k \in gone' \intersect open' :
          CleansUp(call, k) \/ (k \in gone \intersect open /\ ~CleansUp(calls[c], k))
    BY <1>1, <2>1, <2>2 DEF CleansUp
  <2> QED
    BY <2>1, <2>3, CleaningGoesOn
<1>6. ASSUME NEW c \in Call,
             \/ ReadHeld(c) \/ CommitOwnership(c) \/ MountTarget(c) \/ MountFails(c)
             \/ StopReplaced(c) \/ SpawnWatcher(c)
      PROVE  CleaningInv'
  <2>1. PICK call : Become(c, call)
    BY <1>6 DEF ReadHeld, CommitOwnership, MountTarget, MountFails, StopReplaced, SpawnWatcher,
          Goto, Become
  <2>2. calls[c].at \in {"probed", "held read", "committed", "mounted", "stopped"}
    BY <1>6 DEF ReadHeld, CommitOwnership, MountTarget, MountFails, StopReplaced, SpawnWatcher, At
  <2>3. UNCHANGED <<open, gone>>
    BY <1>6 DEF ReadHeld, CommitOwnership, MountTarget, MountFails, StopReplaced, SpawnWatcher,
          ClaimForGood, Claim, CommitClaim, MountWritten, RollbackClaim, vars, services
  <2>4. \A k \in gone' \intersect open' : k \in gone \intersect open /\ ~CleansUp(calls[c], k)
    BY <1>1, <2>2, <2>3 DEF CleansUp
  <2> QED
    BY <2>1, <2>4, CleaningGoesOn
<1>7. ASSUME NEW c \in Call,
             ReleaseOwnership(c) \/ Unmount(c) \/ UnmountFails(c) \/ StopReleased(c)
      PROVE  CleaningInv'
  <2>1. calls[c] \in ReleaseCall
    BY <1>7, ReleasePlaces DEF ReleaseOwnership, Unmount, UnmountFails, StopReleased, At
  <2>2. UNCHANGED <<open, gone>>
    BY <1>7 DEF ReleaseOwnership, Unmount, UnmountFails, StopReleased,
          ReleaseWorkspace, ClaimForGood, CommitClaim, vars
  <2>3. workspace[calls[c].label] \in MaybeWorkspace
    BY <2>1 DEF ReleaseCall, MaybeWorkspace, CInv, CommandsTypeOK, TypeOK
  <2>4. PICK call : /\ Become(c, call)
                    /\ \A l : CleansUp(calls[c], l) => CleansUp(call, l)
    <3>1. \A l : CleansUp(calls[c], l) => /\ CleansUp(AfterRelease(calls[c]), l)
                                         /\ CleansUp([calls[c] EXCEPT !.at = "unmounted"], l)
      BY <2>1 DEF CleansUp, AfterRelease, ReleaseCall
    <3>2. \A l : CleansUp(calls[c], l) =>
            CleansUp([calls[c] EXCEPT !.at = "released", !.released = workspace[calls[c].label]], l)
      BY <2>1, <2>3 DEF CleansUp, ReleaseCall
    <3> QED
      BY <1>7, <3>1, <3>2 DEF ReleaseOwnership, Unmount, UnmountFails, StopReleased, Goto, Become
  <2> QED
    BY <2>2, <2>4, CleaningGoesOn
<1>8. ASSUME NEW c \in Call, ForgetWindow(c) PROVE CleaningInv'
  <2>1. Become(c, Idle) /\ gone' = gone /\ open' \subseteq open \ {calls[c].label}
    BY <1>8 DEF ForgetWindow, Unregister, vars
  <2>2. \A l \in open' : l \in open /\ ~CleansUp(calls[c], l)
    BY <2>1 DEF CleansUp
  <2> QED
    BY <2>1, <2>2, CleaningGoesOn
<1>9. CASE UNCHANGED allVars
  BY <1>9 DEF allVars, vars, CleaningInv, CleansUp
<1> QED
  BY <1>2, <1>3, <1>4, <1>5, <1>6, <1>7, <1>8, <1>9 DEF CommandsNext, Start, Step, WriteFails

\* With no call under way, nothing belongs to a window that is destroyed or
\* forgotten: the first part of LiveOwnersAreServed, for any number of windows, Workspaces and calls, however the
\* window's own claims and closings, their failures and rollbacks, fell together
\* with its clean-up (lib.rs, Destroyed).
THEOREM DestroyedOwnNothing == CommandsSpec => []OwnersLive
<1>1. CommandsInit => CleaningInv
  BY DEF CommandsInit, CleaningInv
<1>2. CInv /\ CleaningInv => OwnersLive
  <2> SUFFICES ASSUME CInv, CleaningInv, Quiet, NEW w \in Owned
               PROVE  workspaceOwner[w] \in open \ gone
    BY DEF OwnersLive
  <2>1. workspaceOwner[w] \in Label /\ workspace[workspaceOwner[w]] = w
    BY DEF Owned, CInv, IInv, TypeOK, IndexesInStep
  <2>2. w # NoWorkspace
    BY NoneAssumption DEF Owned
  <2>3. workspaceOwner[w] \in open
    BY <2>1, <2>2, HeldIsOwned DEF CInv
  <2>4. \A c \in Call : calls[c].at = "idle"
    BY DEF Quiet, At
  <2>5. \A c \in Call, l \in Label : ~CleansUp(calls[c], l)
    BY <2>4 DEF CleansUp, ReleaseCall
  <2> QED
    BY <2>1, <2>3, <2>5 DEF CleaningInv
<1> QED
  BY <1>1, <1>2, CommandsInitInv, CommandsStepInv, CleaningStep, PTL DEF CommandsSpec

-----------------------------------------------------------------------------
(* What commands that run one after the other owe the database and the    *)
(* watchers.                                                               *)

\* Nothing has failed, and no call was started beside another.
AllWell == past = "in turn, all well"

\* The database and the watchers are up to date.
Steady ==
  /\ Owned \subseteq mounted \intersect watched
  /\ AllWell => mounted = Owned /\ watched \subseteq Owned

\* A claim from its commit on: the window has the target, and until the write
\* has answered what it replaced is there to be put back.
ClaimFollows(c) ==
  LET call == calls[c] IN
  call.at \in {"committed", "mounted", "stopped"} =>
    /\ workspace[call.label] = call.target
    /\ Owned \ {call.target} \subseteq watched
    /\ call.at = "committed" =>
         /\ undo[c].label = call.label /\ undo[c].claimed = call.target
         /\ undo[c].previous # call.target
         /\ call.replaced = {undo[c].previous} \ {NoWorkspace}
         /\ Owned \ {call.target} \subseteq mounted
         /\ call.replaced \subseteq mounted \intersect watched
    /\ call.at \in {"committed", "mounted"} => call.replaced \intersect Owned = {}
    /\ call.at # "committed" => Owned \subseteq mounted
    /\ AllWell =>
         /\ mounted = IF call.at = "committed" THEN (Owned \ {call.target}) \union call.replaced
                      ELSE Owned
         /\ watched \subseteq (Owned \ {call.target}) \union
              (IF call.at = "stopped" THEN {} ELSE call.replaced)

\* A release: what it released is nobody's, and can be put back until it is unmounted.
ReleaseFollows(c) ==
  LET call == calls[c] IN
  /\ call.at = "release" => call.label \in open /\ call.previous = workspace[call.label]
  /\ call.at \in {"released", "unmounted"} =>
       /\ Owned \subseteq mounted \intersect watched
       /\ call.released \notin Owned
       /\ call.at = "released" =>
            /\ call.released = call.previous
            /\ call.released \in mounted \intersect watched
       /\ AllWell =>
            /\ workspace[call.label] = NoWorkspace
            /\ mounted = IF call.at = "released" THEN Owned \union {call.released} ELSE Owned
            /\ watched \subseteq Owned \union {call.released}
  /\ call.at = "unregister" /\ AllWell => workspace[call.label] = NoWorkspace

\* The only call there is has its part of the work to do, and all else is done.
InTurn ==
  /\ \A c, e \in Call : calls[c] # Idle /\ calls[e] # Idle => c = e
  /\ \A c \in Call :
       /\ ClaimFollows(c) /\ ReleaseFollows(c)
       /\ calls[c].at = "held read" => (calls[c].held <=> workspace[calls[c].label] = calls[c].target)
  /\ AllWell => leaked = {}
  /\ (\A c \in Call : calls[c].at \in {"idle", "probed", "held read", "release", "unregister"}) => Steady

TurnInv == past # "overlapping" => InTurn

\* What a window that takes w in place of its Workspace makes of the owned ones.
LEMMA OwnedAfter ==
  ASSUME IInv, NEW l \in Label, NEW w \in Workspace \union {NoWorkspace}, SetWorkspace(l, w)
  PROVE  /\ Owned' = (Owned \ {workspace[l]}) \union ({w} \ {NoWorkspace})
         /\ workspace'[l] = w
<1>1. \A v \in Workspace : workspaceOwner'[v] = IF v = w THEN l ELSE IF v = workspace[l] THEN NoWindow
                                                 ELSE workspaceOwner[v]
  BY DEF SetWorkspace, IndexAfter
<1>2. l # NoWindow /\ NoWorkspace \notin Workspace
  BY NoneAssumption
<1> QED
  <2>1. workspace[l] \in Workspace \union {NoWorkspace}
    BY DEF IInv, TypeOK
  <2>2. \A v : v \in Owned' <=> v \in (Owned \ {workspace[l]}) \union ({w} \ {NoWorkspace})
    BY <1>1, <1>2, <2>1 DEF Owned
  <2>3. workspace'[l] = w
    BY DEF SetWorkspace, IInv, TypeOK
  <2> QED
    BY <2>2, <2>3

\* With one call under way, the invariant is about that call.
LEMMA Alone ==
  ASSUME CInv, NEW c \in Call, \A e \in Call \ {c} : calls[e] = Idle, NEW call, Become(c, call)
  PROVE  /\ calls'[c] = call
         /\ /\ ClaimFollows(c)' /\ ReleaseFollows(c)'
            /\ call.at = "held read" => (call.held <=> workspace'[call.label] = call.target)
            /\ AllWell' => leaked' = {}
            /\ call.at \in {"idle", "probed", "held read", "release", "unregister"} => Steady'
            => InTurn'
<1>1. calls'[c] = call /\ \A e \in Call \ {c} : calls'[e] = Idle
  BY DEF Become, CInv, CommandsTypeOK
<1>2. Idle.at = "idle"
  BY DEF Idle
<1>3. \A e \in Call \ {c} : ClaimFollows(e)' /\ ReleaseFollows(e)'
  BY <1>1, <1>2 DEF ClaimFollows, ReleaseFollows
<1> QED
  BY <1>1, <1>2, <1>3 DEF InTurn

\* Whoever is at work is so alone.
LEMMA Busy ==
  ASSUME CInv, InTurn, NEW c \in Call, calls[c].at # "idle"
  PROVE  /\ \A e \in Call \ {c} : calls[e] = Idle
         /\ calls[c].at \in {"probed", "held read", "release", "unregister"} => Steady
         /\ ClaimFollows(c) /\ ReleaseFollows(c)
<1>1. Idle.at = "idle"
  BY DEF Idle
<1>2. \A e \in Call \ {c} : calls[e] = Idle
  BY <1>1 DEF InTurn
<1> QED
  BY <1>1, <1>2 DEF InTurn

\* A call is started while no other is under way.
LEMMA StartsInTurn ==
  ASSUME CInv, InTurn, Quiet, NEW c \in Call, NEW call, Become(c, call), past' = past,
         UNCHANGED <<open, workspace, workspaceOwner, mounted, watched, leaked>>,
         \/ call.at = "probed"
         \/ call.at = "release" /\ call.label \in open /\ call.previous = workspace[call.label]
  PROVE  InTurn'
<1>1. \A e \in Call : calls[e].at = "idle"
  BY DEF Quiet, At
<1>2. \A e \in Call \ {c} : calls[e] = Idle
  <2>1. \A k \in ClaimCall \union ReleaseCall : k.at # "idle"
    BY DEF ClaimCall, ReleaseCall
  <2> QED
    BY <1>1, <2>1 DEF CInv, CommandsTypeOK
<1>3. calls'[c] = call
  BY <1>2, Alone
<1>4. ClaimFollows(c)' /\ ReleaseFollows(c)'
  BY <1>3 DEF ClaimFollows, ReleaseFollows
<1>5. Steady' /\ (AllWell' => leaked' = {})
  <2>1. Steady /\ (AllWell => leaked = {})
    BY <1>1 DEF InTurn
  <2>2. UNCHANGED <<Owned, AllWell>>
    BY DEF Owned, AllWell
  <2> QED
    BY <2>1, <2>2 DEF Steady
<1> QED
  BY <1>2, <1>4, <1>5, Alone

LEMMA ReadHeldInTurn ==
  ASSUME CInv, InTurn, NEW c \in Call, ReadHeld(c), past' = past
  PROVE  InTurn'
<1> DEFINE call == [calls[c] EXCEPT !.at = "held read",
                                    !.held = workspace[calls[c].label] = calls[c].target]
<1>1. /\ calls[c].at = "probed" /\ Become(c, call)
      /\ UNCHANGED <<workspaceOwner, workspace, mounted, watched, leaked>>
  BY DEF ReadHeld, At, vars, indexes, services
<1>2. /\ call.at = "held read" /\ call.label = calls[c].label /\ call.target = calls[c].target
      /\ call.held <=> workspace[calls[c].label] = calls[c].target
  BY <1>1, ClaimPlaces DEF ClaimCall
<1> HIDE DEF call
<1>3. calls'[c] = call
  BY <1>1, Busy, Alone
<1>4. ClaimFollows(c)' /\ ReleaseFollows(c)'
  BY <1>2, <1>3 DEF ClaimFollows, ReleaseFollows
<1>5. Steady' /\ (AllWell' => leaked' = {})
  BY <1>1, Busy DEF Steady, AllWell, InTurn, Owned
<1>6. call.at = "held read" => (call.held <=> workspace'[call.label] = call.target)
  BY <1>1, <1>2
<1>7. \A e \in Call \ {c} : calls[e] = Idle
  BY <1>1, Busy
<1>8. call.at \in {"idle", "probed", "held read", "release", "unregister"} => Steady'
  BY <1>5
<1> QED
  BY <1>1, <1>4, <1>5, <1>6, <1>7, <1>8, Alone, Zenon

LEMMA CommitInTurn ==
  ASSUME CInv, InTurn, NEW c \in Call, CommitOwnership(c), past' = past
  PROVE  InTurn'
<1> DEFINE l == calls[c].label
           w == calls[c].target
           committed == [calls[c] EXCEPT !.at = "committed", !.replaced = Replaces(l, w)]
<1>1. /\ calls[c].at = "held read" /\ UNCHANGED <<mounted, watched, leaked>>
      /\ \/ Become(c, Idle) /\ (UNCHANGED vars \/ (calls[c].held /\ ClaimForGood(l, w)))
         \/ ~calls[c].held /\ Claim(c, l, w) /\ Become(c, committed)
  <2>1. /\ calls[c].at = "held read"
        /\ \/ Become(c, Idle) /\ UNCHANGED vars
           \/ calls[c].held /\ ClaimForGood(l, w) /\ Become(c, Idle)
           \/ ~calls[c].held /\ Claim(c, l, w) /\ Become(c, committed)
    BY DEF CommitOwnership, At
  <2>2. UNCHANGED <<mounted, watched, leaked>>
    BY DEF CommitOwnership, services
  <2> HIDE DEF committed
  <2> QED
    BY <2>1, <2>2
<1>2. /\ calls[c] \in ClaimCall /\ l \in Label /\ w \in Workspace
      /\ calls[c].held <=> workspace[l] = w
  <2>1. calls[c] \in ClaimCall
    BY <1>1, ClaimPlaces
  <2> QED
    BY <1>1, <2>1 DEF ClaimCall, InTurn
<1>3. /\ committed.at = "committed" /\ committed.label = l /\ committed.target = w
      /\ committed.replaced = Replaces(l, w)
  BY <1>2 DEF ClaimCall
<1> HIDE DEF committed
<1>4. Steady /\ UNCHANGED AllWell /\ (AllWell' => leaked' = {})
  BY <1>1, Busy DEF InTurn, AllWell
<1>5. Idle.at = "idle"
  BY DEF Idle
<1>6. CASE Become(c, Idle) /\ (UNCHANGED vars \/ (calls[c].held /\ ClaimForGood(l, w)))
  <2>1. Owned' = Owned
    <3>1. CASE UNCHANGED vars
      BY <3>1 DEF vars, indexes, Owned
    <3>2. CASE calls[c].held /\ ClaimForGood(l, w)
      <4>1. SetWorkspace(l, w) /\ workspace[l] = w
        BY <1>2, <3>2 DEF ClaimForGood, CommitClaim
      <4>2. w \in Owned
        BY <1>2, <4>1, HeldIsOwned, NoneAssumption DEF CInv
      <4> QED
        BY <1>2, <4>1, <4>2, OwnedAfter, NoneAssumption DEF CInv
    <3> QED
      BY <1>6, <3>1, <3>2
  <2>2. Steady'
    BY <1>1, <1>4, <2>1 DEF Steady
  <2>3. ClaimFollows(c)' /\ ReleaseFollows(c)'
    <3>1. calls'[c] = Idle
      BY <1>1, <1>6, Busy, Alone
    <3> QED
      BY <1>5, <3>1 DEF ClaimFollows, ReleaseFollows
  <2> QED
    BY <1>1, <1>4, <1>5, <1>6, <2>2, <2>3, Busy, Alone
<1>7. CASE ~calls[c].held /\ Claim(c, l, w) /\ Become(c, committed)
  <2>1. /\ Claimable(l, w) /\ SetWorkspace(l, w) /\ undo' = [undo EXCEPT ![c] = UndoRecord(l, w)]
        /\ workspace[l] # w
    BY <1>2, <1>7 DEF Claim, CommitClaim
  <2>2. w \notin Owned
    <3>1. workspaceOwner[w] \in {NoWindow, l}
      BY <1>2, <2>1, ClaimableIsFree DEF CInv
    <3>2. workspaceOwner[w] # l
      BY <1>2, <2>1 DEF CInv, IInv, IndexesInStep
    <3> QED
      BY <3>1, <3>2 DEF Owned
  <2>3. Owned' = (Owned \ {workspace[l]}) \union {w} /\ workspace'[l] = w
    BY <1>2, <2>1, OwnedAfter, NoneAssumption DEF CInv
  <2>4. Replaces(l, w) = {workspace[l]} \ {NoWorkspace} /\ Replaces(l, w) \subseteq Owned
    BY <1>2, <2>1, HeldIsOwned DEF Replaces, CInv
  <2>5. /\ undo'[c].label = l /\ undo'[c].claimed = w /\ undo'[c].previous = workspace[l]
    BY <2>1 DEF UndoRecord, CInv, CommandsTypeOK, TypeOK
  <2>6. calls'[c] = committed
    BY <1>1, <1>7, Busy, Alone
  <2>7. /\ Owned' \ {w} = Owned \ Replaces(l, w) /\ Replaces(l, w) \intersect Owned' = {}
        /\ Owned = (Owned' \ {w}) \union Replaces(l, w)
    <3>1. NoWorkspace \notin Owned
      BY <1>2, HeldIsOwned DEF CInv
    <3> QED
      BY <2>1, <2>2, <2>3, <2>4, <3>1
  <2>8. ClaimFollows(c)'
    BY <1>1, <1>3, <1>4, <2>1, <2>3, <2>4, <2>5, <2>6, <2>7 DEF ClaimFollows, Steady
  <2>9. ReleaseFollows(c)'
    BY <1>3, <2>6 DEF ReleaseFollows
  <2> QED
    BY <1>1, <1>3, <1>4, <1>7, <2>8, <2>9, Busy, Alone
<1> QED
  BY <1>1, <1>6, <1>7

\* The write of a claim has answered: its row is the target's.
LEMMA MountTargetInTurn ==
  ASSUME CInv, InTurn, NEW c \in Call, MountTarget(c), past' = past
  PROVE  InTurn'
<1> DEFINE call == [calls[c] EXCEPT !.at = "mounted"]
<1>1. /\ calls[c].at = "committed" /\ calls[c] \in ClaimCall
      /\ mounted' = (mounted \ calls[c].replaced) \union {calls[c].target}
      /\ UNCHANGED <<workspace, workspaceOwner, watched, leaked>>
  BY ClaimPlaces DEF MountTarget, MountWritten, indexes, At
<1>2. /\ Become(c, call) /\ call.at = "mounted" /\ call.label = calls[c].label
      /\ call.target = calls[c].target /\ call.replaced = calls[c].replaced
  BY <1>1 DEF MountTarget, Goto, Become, ClaimCall
<1> HIDE DEF call
<1>3. calls'[c] = call
  BY <1>1, <1>2, Busy, Alone
<1>4. UNCHANGED <<Owned, AllWell>>
  BY <1>1 DEF Owned, AllWell
<1>5. calls[c].target \in Owned
  <2>1. calls[c].label \in Label /\ calls[c].target \in Workspace
    BY <1>1 DEF ClaimCall
  <2> QED
    BY <1>1, <2>1, Busy, HeldIsOwned, NoneAssumption DEF ClaimFollows, CInv
<1>6. ClaimFollows(c)'
  <2>1. ClaimFollows(c)
    BY <1>1, Busy
  <2> QED
    BY <1>1, <1>2, <1>3, <1>4, <1>5, <2>1 DEF ClaimFollows
<1>7. ReleaseFollows(c)' /\ (AllWell' => leaked' = {})
  BY <1>1, <1>2, <1>3, <1>4 DEF ReleaseFollows, InTurn
<1> QED
  BY <1>1, <1>2, <1>6, <1>7, Busy, Alone

\* The write of a claim has failed: what it replaced is put back.
LEMMA MountFailsInTurn ==
  ASSUME CInv, InTurn, NEW c \in Call, MountFails(c), ~AllWell'
  PROVE  InTurn'
<1> DEFINE l == calls[c].label
           w == calls[c].target
           r == undo[c]
<1>1. /\ calls[c].at = "committed" /\ calls[c] \in ClaimCall /\ Become(c, Idle)
      /\ RollbackClaim(c) /\ UNCHANGED <<mounted, watched>>
  BY ClaimPlaces DEF MountFails, At, services
<1>2. l \in Label /\ w \in Workspace /\ Idle.at = "idle"
  BY <1>1 DEF ClaimCall, Idle
<1>3. /\ workspace[l] = w /\ r.label = l /\ r.claimed = w /\ r.previous # w
      /\ calls[c].replaced = {r.previous} \ {NoWorkspace}
      /\ Owned \ {w} \subseteq mounted \intersect watched
      /\ calls[c].replaced \subseteq mounted \intersect watched
  BY <1>1, Busy DEF ClaimFollows
<1>4. SetWorkspace(l, Restored(r)) /\ Restored(r) \in {NoWorkspace, r.previous}
  BY <1>1, <1>3 DEF RollbackClaim, Restored
<1>5. r.previous \in Workspace \union {NoWorkspace}
  BY <1>1 DEF RollbackClaim, CInv, CommandsTypeOK, TypeOK, Rollback
<1>6. Owned' = (Owned \ {w}) \union ({Restored(r)} \ {NoWorkspace})
  BY <1>2, <1>3, <1>4, <1>5, OwnedAfter DEF CInv
<1>7. Steady'
  BY <1>1, <1>3, <1>4, <1>6 DEF Steady
<1>8. calls'[c] = Idle
  BY <1>1, Busy, Alone
<1>9. ClaimFollows(c)' /\ ReleaseFollows(c)'
  BY <1>2, <1>8 DEF ClaimFollows, ReleaseFollows
<1> QED
  BY <1>1, <1>2, <1>7, <1>9, Busy, Alone

LEMMA StopReplacedInTurn ==
  ASSUME CInv, InTurn, NEW c \in Call, StopReplaced(c), past' = past
  PROVE  InTurn'
<1> DEFINE call == [calls[c] EXCEPT !.at = "stopped"]
<1>1. /\ calls[c].at = "mounted" /\ calls[c] \in ClaimCall
      /\ watched' = watched \ calls[c].replaced
      /\ UNCHANGED <<workspace, workspaceOwner, mounted, leaked>>
  BY ClaimPlaces DEF StopReplaced, vars, indexes, At
<1>2. /\ Become(c, call) /\ call.at = "stopped" /\ call.label = calls[c].label
      /\ call.target = calls[c].target /\ call.replaced = calls[c].replaced
  BY <1>1 DEF StopReplaced, Goto, Become, ClaimCall
<1> HIDE DEF call
<1>3. calls'[c] = call
  BY <1>1, <1>2, Busy, Alone
<1>4. UNCHANGED <<Owned, AllWell>>
  BY <1>1 DEF Owned, AllWell
<1>5. ClaimFollows(c)'
  <2>1. ClaimFollows(c)
    BY <1>1, Busy
  <2> QED
    BY <1>1, <1>2, <1>3, <1>4, <2>1 DEF ClaimFollows
<1>6. ReleaseFollows(c)' /\ (AllWell' => leaked' = {})
  BY <1>1, <1>2, <1>3, <1>4 DEF ReleaseFollows, InTurn
<1> QED
  BY <1>1, <1>2, <1>5, <1>6, Busy, Alone

\* The target had no watcher yet, so none is lost.
LEMMA SpawnWatcherInTurn ==
  ASSUME CInv, InTurn, NEW c \in Call, SpawnWatcher(c), past' = past
  PROVE  InTurn'
<1> DEFINE w == calls[c].target
<1>1. /\ calls[c].at = "stopped" /\ calls[c] \in ClaimCall /\ Become(c, Idle)
      /\ leaked' = leaked \union (watched \intersect {w}) /\ watched' = watched \union {w}
      /\ UNCHANGED <<workspace, workspaceOwner, mounted>>
  BY ClaimPlaces DEF SpawnWatcher, vars, indexes, At
<1>2. UNCHANGED <<Owned, AllWell>> /\ Idle.at = "idle"
  BY <1>1 DEF Owned, AllWell, Idle
<1>3. /\ workspace[calls[c].label] = w /\ Owned \ {w} \subseteq watched /\ Owned \subseteq mounted
      /\ AllWell => mounted = Owned /\ watched \subseteq Owned \ {w}
  BY <1>1, Busy DEF ClaimFollows
<1>4. w \in Owned
  <2>1. calls[c].label \in Label /\ w \in Workspace
    BY <1>1 DEF ClaimCall
  <2> QED
    BY <1>3, <2>1, HeldIsOwned, NoneAssumption DEF CInv
<1>5. Steady' /\ (AllWell' => leaked' = {})
  BY <1>1, <1>2, <1>3, <1>4 DEF Steady, InTurn
<1>6. calls'[c] = Idle
  BY <1>1, Busy, Alone
<1>7. ClaimFollows(c)' /\ ReleaseFollows(c)'
  BY <1>2, <1>6 DEF ClaimFollows, ReleaseFollows
<1> QED
  BY <1>1, <1>2, <1>5, <1>7, Busy, Alone

LEMMA AfterReleaseFacts ==
  ASSUME NEW call \in ReleaseCall
  PROVE  /\ AfterRelease(call).at \in {"idle", "unregister"}
         /\ AfterRelease(call).at = "unregister" => AfterRelease(call).label = call.label
  BY DEF AfterRelease, ReleaseCall, Idle

\* A release is through when everything is up to date and the window is empty.
LEMMA ReleaseEnds ==
  ASSUME CInv, InTurn, NEW c \in Call, calls[c].at # "idle", calls[c] \in ReleaseCall,
         Become(c, AfterRelease(calls[c])),
         Steady', AllWell' => leaked' = {} /\ workspace'[calls[c].label] = NoWorkspace
  PROVE  InTurn'
<1> DEFINE call == AfterRelease(calls[c])
<1>1. /\ Become(c, call) /\ call.at \in {"idle", "unregister"}
      /\ call.at = "unregister" => call.label = calls[c].label
  BY AfterReleaseFacts
<1> HIDE DEF call
<1>2. calls'[c] = call
  BY <1>1, Busy, Alone
<1>3. ClaimFollows(c)' /\ ReleaseFollows(c)'
  BY <1>1, <1>2 DEF ClaimFollows, ReleaseFollows
<1> QED
  BY <1>1, <1>3, Busy, Alone

LEMMA ReleaseOwnershipInTurn ==
  ASSUME CInv, InTurn, NEW c \in Call, ReleaseOwnership(c), past' = past
  PROVE  InTurn'
<1> DEFINE l == calls[c].label
           released == [calls[c] EXCEPT !.at = "released", !.released = workspace[l]]
<1>1. /\ calls[c].at = "release" /\ calls[c] \in ReleaseCall /\ UNCHANGED <<mounted, watched, leaked>>
      /\ UNCHANGED AllWell
  BY ReleasePlaces DEF ReleaseOwnership, At, services, AllWell
<1>2. l \in Label /\ l \in open /\ calls[c].previous = workspace[l]
  BY <1>1, Busy DEF ReleaseCall, ReleaseFollows
<1>3. /\ ReleaseWorkspace(l)
      /\ Become(c, IF workspace[l] = NoWorkspace THEN AfterRelease(calls[c]) ELSE released)
  BY <1>2 DEF ReleaseOwnership
<1>4. Owned' = Owned \ {workspace[l]} /\ workspace'[l] = NoWorkspace
  BY <1>2, <1>3, OwnedAfter DEF ReleaseWorkspace, CInv
<1>5. Steady /\ (AllWell' => leaked' = {})
  BY <1>1, Busy DEF InTurn
<1>6. /\ released.at = "released" /\ released.label = l /\ released.released = workspace[l]
      /\ released.previous = workspace[l]
  BY <1>1, <1>2 DEF ReleaseCall
<1> HIDE DEF released
<1>7. CASE workspace[l] = NoWorkspace
  <2>1. Owned' = Owned
    BY <1>2, <1>4, <1>7, HeldIsOwned DEF CInv
  <2>2. Steady'
    BY <1>1, <1>5, <2>1 DEF Steady
  <2> QED
    BY <1>1, <1>3, <1>4, <1>5, <1>7, <2>2, ReleaseEnds
<1>8. CASE workspace[l] # NoWorkspace
  <2>1. workspace[l] \in Owned
    BY <1>2, <1>8, HeldIsOwned DEF CInv
  <2>2. Become(c, released)
    BY <1>3, <1>8
  <2>3. calls'[c] = released
    BY <1>1, <2>2, Busy, Alone
  <2>4. ReleaseFollows(c)'
    BY <1>1, <1>4, <1>5, <1>6, <2>1, <2>3 DEF ReleaseFollows, Steady
  <2>5. ClaimFollows(c)'
    BY <1>6, <2>3 DEF ClaimFollows
  <2> QED
    BY <1>1, <1>5, <1>6, <2>2, <2>4, <2>5, Busy, Alone
<1> QED
  BY <1>7, <1>8

LEMMA UnmountInTurn ==
  ASSUME CInv, InTurn, NEW c \in Call, Unmount(c), past' = past
  PROVE  InTurn'
<1> DEFINE call == [calls[c] EXCEPT !.at = "unmounted"]
<1>1. /\ calls[c].at = "released" /\ calls[c] \in ReleaseCall
      /\ mounted' = mounted \ {calls[c].released}
      /\ UNCHANGED <<workspace, workspaceOwner, watched, leaked>>
  BY ReleasePlaces DEF Unmount, vars, indexes, At
<1>2. /\ Become(c, call) /\ call.at = "unmounted" /\ call.label = calls[c].label
      /\ call.released = calls[c].released
  BY <1>1 DEF Unmount, Goto, Become, ReleaseCall
<1> HIDE DEF call
<1>3. calls'[c] = call
  BY <1>1, <1>2, Busy, Alone
<1>4. UNCHANGED <<Owned, AllWell>>
  BY <1>1 DEF Owned, AllWell
<1>5. ReleaseFollows(c)'
  <2>1. ReleaseFollows(c)
    BY <1>1, Busy
  <2> QED
    BY <1>1, <1>2, <1>3, <1>4, <2>1 DEF ReleaseFollows
<1>6. ClaimFollows(c)' /\ (AllWell' => leaked' = {})
  BY <1>1, <1>2, <1>3, <1>4 DEF ClaimFollows, InTurn
<1> QED
  BY <1>1, <1>2, <1>5, <1>6, Busy, Alone

\* The write of a release has failed: what it released is put back, or is nobody's.
LEMMA UnmountFailsInTurn ==
  ASSUME CInv, InTurn, NEW c \in Call, UnmountFails(c), ~AllWell'
  PROVE  InTurn'
<1> DEFINE l == calls[c].label
           w == calls[c].previous
<1>1. /\ calls[c].at = "released" /\ calls[c] \in ReleaseCall /\ Become(c, AfterRelease(calls[c]))
      /\ \/ w # NoWorkspace /\ ClaimForGood(l, w)
         \/ UNCHANGED vars
      /\ UNCHANGED <<mounted, watched>>
  BY ReleasePlaces DEF UnmountFails, At, services
<1>2. l \in Label /\ w \in Workspace \union {NoWorkspace}
  BY <1>1 DEF ReleaseCall, MaybeWorkspace
<1>3. Owned \subseteq mounted \intersect watched /\ w \in mounted \intersect watched
  BY <1>1, Busy DEF ReleaseFollows
<1>4. Owned' \subseteq Owned \union {w}
  <2>1. CASE ClaimForGood(l, w)
    BY <1>2, <2>1, OwnedAfter DEF ClaimForGood, CommitClaim, CInv
  <2>2. CASE UNCHANGED vars
    BY <2>2 DEF vars, indexes, Owned
  <2> QED
    BY <1>1, <2>1, <2>2
<1>5. Steady'
  BY <1>1, <1>3, <1>4 DEF Steady
<1> QED
  BY <1>1, <1>5, ReleaseEnds

LEMMA StopReleasedInTurn ==
  ASSUME CInv, InTurn, NEW c \in Call, StopReleased(c), past' = past
  PROVE  InTurn'
<1>1. /\ calls[c].at = "unmounted" /\ calls[c] \in ReleaseCall /\ Become(c, AfterRelease(calls[c]))
      /\ watched' = watched \ {calls[c].released}
      /\ UNCHANGED <<workspace, workspaceOwner, mounted, leaked>>
  BY ReleasePlaces DEF StopReleased, vars, indexes, At
<1>2. UNCHANGED <<Owned, AllWell>>
  BY <1>1 DEF Owned, AllWell
<1>3. ReleaseFollows(c)
  BY <1>1, Busy
<1>4. Steady' /\ (AllWell' => leaked' = {} /\ workspace'[calls[c].label] = NoWorkspace)
  BY <1>1, <1>2, <1>3 DEF Steady, ReleaseFollows, InTurn
<1> QED
  BY <1>1, <1>4, ReleaseEnds

LEMMA ForgetWindowInTurn ==
  ASSUME CInv, InTurn, NEW c \in Call, ForgetWindow(c), past' = past
  PROVE  InTurn'
<1> DEFINE l == calls[c].label
<1>1. /\ calls[c].at = "unregister" /\ calls[c] \in ReleaseCall /\ Become(c, Idle)
      /\ Unregister(l) \/ UNCHANGED vars
      /\ UNCHANGED <<mounted, watched, leaked>>
  BY ReleasePlaces DEF ForgetWindow, At, services
<1>2. UNCHANGED AllWell /\ Idle.at = "idle" /\ l \in Label
  BY <1>1 DEF AllWell, Idle, ReleaseCall
<1>3. Steady /\ (AllWell => leaked = {} /\ workspace[l] = NoWorkspace)
  BY <1>1, Busy DEF ReleaseFollows, InTurn
<1>4. Owned' \subseteq Owned /\ (workspace[l] = NoWorkspace => Owned' = Owned)
  <2>1. CASE Unregister(l)
    <3>1. \A w \in Workspace : workspaceOwner'[w] = IF w = workspace[l] THEN NoWindow ELSE workspaceOwner[w]
      BY <2>1 DEF Unregister
    <3> QED
      BY <3>1, NoneAssumption DEF Owned
  <2>2. CASE UNCHANGED vars
    BY <2>2 DEF vars, indexes, Owned
  <2> QED
    BY <1>1, <2>1, <2>2
<1>5. Steady' /\ (AllWell' => leaked' = {})
  BY <1>1, <1>2, <1>3, <1>4 DEF Steady
<1>6. calls'[c] = Idle
  BY <1>1, Busy, Alone
<1>7. ClaimFollows(c)' /\ ReleaseFollows(c)'
  BY <1>2, <1>6 DEF ClaimFollows, ReleaseFollows
<1> QED
  BY <1>1, <1>2, <1>5, <1>7, Busy, Alone

\* Before the first command there is nothing to be in step with.
LEMMA TurnInit == PastInit => TurnInv
<1> SUFFICES ASSUME PastInit PROVE InTurn
  BY DEF TurnInv
<1>1. /\ mounted = {} /\ watched = {} /\ leaked = {}
      /\ \A c \in Call : calls[c] = Idle
  BY DEF PastInit, CommandsInit
<1>2. Owned = {}
  BY DEF PastInit, CommandsInit, Init, Owned
<1>3. Idle.at = "idle"
  BY DEF Idle
<1>4. \A c \in Call : ClaimFollows(c) /\ ReleaseFollows(c)
  BY <1>1, <1>3 DEF ClaimFollows, ReleaseFollows
<1>5. Steady
  BY <1>1, <1>2 DEF Steady
<1> QED
  BY <1>1, <1>3, <1>4, <1>5 DEF InTurn

\* Opening a window concerns nobody else.
LEMMA OpenWindowInTurn ==
  ASSUME CInv, InTurn, Quiet, NEW l \in Label, OpenWindow(l), past' = past
  PROVE  InTurn'
<1>1. \A e \in Call : calls[e].at = "idle" /\ calls'[e] = calls[e]
  BY DEF Quiet, At, OpenWindow
<1>2. UNCHANGED <<workspaceOwner, mounted, watched, leaked>>
  BY DEF OpenWindow, Register, services, indexes
<1>3. \A e \in Call : ClaimFollows(e)' /\ ReleaseFollows(e)'
  BY <1>1 DEF ClaimFollows, ReleaseFollows
<1>4. Steady' /\ (AllWell' => leaked' = {})
  BY <1>1, <1>2 DEF InTurn, Steady, AllWell, Owned
<1>5. \A d, e \in Call : calls'[d] # Idle /\ calls'[e] # Idle => d = e
  BY <1>1 DEF InTurn
<1> QED
  BY <1>1, <1>3, <1>4, <1>5 DEF InTurn

LEMMA StartInTurn ==
  ASSUME CInv, InTurn, Quiet, Start, past' = past
  PROVE  InTurn'
<1>1. ASSUME NEW c \in Call, NEW l \in Label, CloseWorkspace(c, l) \/ DestroyWindow(c, l)
      PROVE  InTurn'
  <2>1. PICK destroys \in BOOLEAN : l \in open /\ StartRelease(c, l, destroys)
    BY <1>1 DEF CloseWorkspace, DestroyWindow
  <2> DEFINE call == [at |-> "release", label |-> l, previous |-> workspace[l],
                      released |-> NoWorkspace, destroys |-> destroys]
  <2>2. /\ Become(c, call)
        /\ UNCHANGED <<open, workspace, workspaceOwner, mounted, watched, leaked>>
    BY <2>1 DEF StartRelease, vars, indexes, services
  <2>3. call.at = "release" /\ call.label \in open /\ call.previous = workspace[call.label]
    BY <2>1
  <2> HIDE DEF call
  <2> QED
    BY <2>2, <2>3, StartsInTurn
<1>2. ASSUME NEW c \in Call, NEW l \in Label, NEW w \in Workspace, StartClaim(c, l, w)
      PROVE  InTurn'
  <2> DEFINE call == [at |-> "probed", label |-> l, target |-> w, held |-> FALSE, replaced |-> {}]
  <2>1. /\ Become(c, call)
        /\ UNCHANGED <<open, workspace, workspaceOwner, mounted, watched, leaked>>
    BY <1>2 DEF StartClaim, vars, indexes, services
  <2>2. call.at = "probed"
    OBVIOUS
  <2> HIDE DEF call
  <2> QED
    BY <2>1, <2>2, StartsInTurn
<1> QED
  BY <1>1, <1>2, OpenWindowInTurn DEF Start

LEMMA StepInTurn ==
  ASSUME CInv, InTurn, NEW c \in Call, Step(c), past' = past
  PROVE  InTurn'
  BY ReadHeldInTurn, CommitInTurn, MountTargetInTurn, StopReplacedInTurn, SpawnWatcherInTurn,
     ReleaseOwnershipInTurn, UnmountInTurn, StopReleasedInTurn, ForgetWindowInTurn DEF Step

LEMMA TurnStep == CInv /\ TurnInv /\ [PastNext]_<<allVars, past, apart>> => TurnInv'
<1> SUFFICES ASSUME CInv, TurnInv, [PastNext]_<<allVars, past, apart>>, past' # "overlapping"
             PROVE  InTurn'
  BY DEF TurnInv
<1>1. CASE Start /\ past' = IF Quiet THEN past ELSE "overlapping"
  BY <1>1, StartInTurn DEF TurnInv
<1>2. CASE (\E c \in Call : Step(c)) /\ UNCHANGED past
  BY <1>2, StepInTurn DEF TurnInv
<1>3. CASE /\ \E c \in Call : WriteFails(c)
           /\ past' = IF past = "overlapping" THEN past ELSE "in turn"
  <2>1. InTurn /\ ~AllWell'
    BY <1>3 DEF TurnInv, AllWell
  <2> QED
    BY <1>3, <2>1, MountFailsInTurn, UnmountFailsInTurn DEF WriteFails
<1>4. CASE UNCHANGED <<allVars, past, apart>>
  <2>1. UNCHANGED <<calls, undo, open, workspace, workspaceOwner, mounted, watched, leaked, past>>
    BY <1>4 DEF allVars, vars, indexes, services
  <2>2. InTurn
    BY <1>4 DEF TurnInv
  <2>3. UNCHANGED <<Owned, AllWell>>
    BY <2>1 DEF Owned, AllWell
  <2>4. \A c \in Call : (ClaimFollows(c)' <=> ClaimFollows(c)) /\ (ReleaseFollows(c)' <=> ReleaseFollows(c))
    BY <2>1, <2>3 DEF ClaimFollows, ReleaseFollows
  <2>5. Steady' <=> Steady
    BY <2>1, <2>3 DEF Steady
  <2> QED
    BY <2>1, <2>2, <2>3, <2>4, <2>5 DEF InTurn
<1> QED
  BY <1>1, <1>2, <1>3, <1>4 DEF PastNext, ReliableNext

\* With no call under way the invariant leaves nothing to be done.
LEMMA TurnFollows == CInv /\ TurnInv => StoresFollowInTurn
<1> SUFFICES ASSUME CInv, TurnInv, Quiet, past # "overlapping"
             PROVE  /\ Owned \subseteq mounted \intersect watched
                    /\ AllWell => mounted = Owned /\ watched \union leaked \subseteq Owned
  BY DEF StoresFollowInTurn, ServedInTurn, AgreesInTurn, HeldIsServed, MountedAgrees,
         WatchedIsClaimed, AllWell
<1>1. InTurn /\ \A c \in Call : calls[c].at = "idle"
  BY DEF TurnInv, Quiet, At
<1>2. Steady /\ (AllWell => leaked = {})
  BY <1>1 DEF InTurn
<1> QED
  BY <1>2 DEF Steady

\* Commands of commands/workspace.rs that run one after the other leave every
\* held Workspace with its `mounted` row and its watcher, whichever writes
\* failed; and if none failed, rows and watchers are those of held Workspaces
\* only, as ADR-010 promises.
THEOREM StoresFollowInTurnHolds == PastSpec => []StoresFollowInTurn
<1>1. PastInit => CInv /\ TurnInv
  BY TurnInit, CommandsInitInv DEF PastInit
<1>2. CInv /\ TurnInv /\ [PastNext]_<<allVars, past, apart>> => (CInv /\ TurnInv)'
  <2>1. [PastNext]_<<allVars, past, apart>> => [CommandsNext]_allVars
    BY DEF PastNext, ReliableNext, CommandsNext
  <2> QED
    BY <2>1, TurnStep, CommandsStepInv
<1> QED
  BY <1>1, <1>2, TurnFollows, PTL DEF PastSpec

-----------------------------------------------------------------------------
(* The entries of a Workspace and the journal of their mutations.          *)

\* What is in a journal's file, in a copy of it that is worked through, or with the command that wrote it.
Copies == Journals \cup UNION {task[k].todo \cup ({task[k].record} \ {None}) : k \in Running}

\* Where a worker is with its record.
TaskFollows(t) ==
  /\ t.kind \in {"rename", "delete", "create"} => t.from \in Paths
  /\ t.kind = "rename" => t.to \in Paths \ {t.from}
  /\ t.step = "act" => t.kind \in {"rename", "delete", "create"} /\ t.todo = {}
  /\ t.step = "act" /\ t.record # None => t.kind # "create"
  /\ t.step = "replay" => t.record = None
  /\ t.step \in {"observe", "apply", "save"} => t.record # None
  /\ t.step \in {"apply", "save"} => t.record.committed
  /\ t.step = "apply" /\ t.phase = "finish" => t.record.applied = Phases
  /\ t.step = "save" => t.phase # "finish"

Numbered(c) ==
  /\ c.id <= mutations
  /\ c.kind = "rename" => c.to \in Paths \ {c.from}
  /\ ~c.committed => c.applied \subseteq {"parentSync"}

FilesAreApart ==
  /\ \A p, q \in Paths : disk[p] = disk[q] /\ disk[p] # None => p = q
  /\ \A p \in Paths : disk[p] \notin trashed

EntryBase ==
  /\ EntryTypeOK /\ FilesAreApart
  /\ \A k \in Running : TaskFollows(task[k])
  /\ \A c \in Copies : Numbered(c)

\* One worker at a time: what it works through is what the journals' files say, but for a mark that was not saved.
Current(r) == journals[r.id] \in {r, [r EXCEPT !.committed = FALSE]}
HandsAreCurrent(t) ==
  /\ \A c \in t.todo : journals[c.id] = c /\ (t.record # None => t.record.id # c.id)
  /\ t.record # None => Current(t.record)
TakenInTurn ==
  /\ \A j, k \in Running : j = k
  /\ \A k \in Running : HandsAreCurrent(task[k])

\* A command between its journal and its mutation.
Acting(k) == Doing(k, "act") /\ Written(k) /\ ~task[k].record.committed

\* What a deletion has taken from the disk does not come back while a copy of its record is left.
Gone(c) == c.committed /\ c.kind = "delete" => \A p \in Paths : disk[p] # c.object
GoneInv ==
  /\ \A c \in Copies : Gone(c)
  /\ \A k \in Workers : Acting(k) => \A p \in Paths \ {task[k].record.from} : disk[p] # task[k].record.object

\* Two workers at once
One ==
  /\ external = 0 /\ old = {} /\ mutations <= 1
  /\ \A c \in Copies : c.committed /\ c.kind = "delete" => c.object \in trashed
  /\ \A k \in Workers : Acting(k) => disk[task[k].record.from] = task[k].record.object
  /\ \A j, k \in Workers : Doing(j, "act") /\ Written(j) /\ Doing(k, "act") /\ Written(k) => j = k

Alike ==
  /\ \A p \in Paths : disk[p] \in {f, None}
  /\ f \in trashed \/ \E p \in Paths : disk[p] = f
  /\ \A o \in Objects : located[o] # None => o = f
  /\ \A c, d \in Copies : c.from = d.from /\ c.to = d.to /\ c.kind = d.kind /\ c.object = f
  /\ \A k \in Workers : Acting(k) =>
       /\ Journals # {} /\ \A c \in Copies : ~c.committed
       /\ \A j \in Workers : ~Doing(j, "apply") /\ ~Doing(j, "save")
Told ==
  /\ Journals # {}
  /\ \A c \in Copies : c.from = located[f] /\ "history" \notin c.applied
  /\ \A k \in Workers : Doing(k, "save") => task[k].phase # "history"
HistoryComes == located[f] # None => disk[located[f]] = f \/ Told
AtOnceInv == One /\ Alike /\ HistoryComes

\* One by one
Covers(p, o, phase) ==
  /\ disk[p] = None
  /\ \E r \in Journals : r.from = p /\ r.object = o /\ phase \notin r.applied
StoresFollow ==
  /\ \A p \in Paths : rows[p] # None => rows[p] = disk[p] \/ Covers(p, rows[p], "sqlite")
  /\ \A p \in Paths : snaps[p] # None => snaps[p] = disk[p] \/ Covers(p, snaps[p], "recovery")
  /\ \A o \in Objects : located[o] # None => disk[located[o]] = o \/ Covers(located[o], o, "history")
Moved(r) == disk[r.from] = None /\ (r.kind = "rename" => disk[r.to] = r.object)
JournalsAgree ==
  /\ \A r \in Journals : disk[r.from] \in {None, r.object} /\ (r.committed => Moved(r))
  /\ \A r, s \in Journals : r.from = s.from => r.object = s.object
Dormant(r) == ~r.committed /\ SafeToDrop(r)
PhaseFollows(t) ==
  /\ t.record # None => (t.record.committed => Moved(t.record))
  /\ t.step = "act" /\ (t.record = None \/ ~t.record.committed) => \A r \in Journals : Dormant(r)
  /\ t.step # "act" /\ t.kind # "settle" => \A r \in Journals : t.failed \/ Dormant(r) \/ r \in t.todo \/ (t.record # None /\ t.record.id = r.id)
  /\ t.step = "save" /\ t.phase = "sqlite" => rows[t.record.from] = None
  /\ t.step = "save" /\ t.phase = "recovery" => snaps[t.record.from] = None
  /\ t.step = "save" /\ t.phase = "history" => \A o \in Objects : located[o] # t.record.from
OneByOneInv == StoresFollow /\ JournalsAgree /\ \A k \in Running : PhaseFollows(task[k])

SettingsInv ==
  /\ EntryBase /\ GoneInv /\ setting \in {"one by one", "at once"}
  /\ setting = "at once" => AtOnceInv
  /\ setting = "one by one" => TakenInTurn

EntryInv == SettingsInv /\ (setting = "one by one" /\ Plain => OneByOneInv)

RestTyped ==
  /\ disk \in [Paths -> Objects \cup {None}] /\ trashed \subseteq Objects
  /\ rows \in [Paths -> Objects \cup {None}] /\ snaps \in [Paths -> Objects \cup {None}]
  /\ located \in [Objects -> Paths \cup {None}]
  /\ old \subseteq Ids /\ launching \in BOOLEAN
  /\ mutations \in 0..MaxMutations /\ external \in 0..MaxExternal /\ crashes \in 0..MaxCrashes

\* A step in which the records of New are written.
TasksGo(New) ==
  /\ task' \in [Workers -> Task \cup {None}]
  /\ \A j \in Workers : \/ task'[j] \in {task[j], None}
                        \/ /\ TaskFollows(task'[j]) /\ task'[j].todo \subseteq Copies
                           /\ task'[j].record \in Copies \cup New \cup {None}
JournalsGo(New) ==
  /\ journals' \in [Ids -> Record \cup {None}]
  /\ \A i \in Ids : \/ journals'[i] \in {journals[i], None}
                    \/ journals'[i] \in Copies \cup New /\ journals'[i].id = i

LEMMA EntryTyped ==
  ASSUME EntryBase
  PROVE  /\ RestTyped /\ task \in [Workers -> Task \cup {None}] /\ journals \in [Ids -> Record \cup {None}]
         /\ \A i \in Ids : journals[i] # None => journals[i].id = i
         /\ None \notin Paths /\ None \notin Objects /\ None \notin Record /\ None \notin Task
BY NoneIsNothing DEF EntryBase, EntryTypeOK, RestTyped

LEMMA CopiesAre ==
  ASSUME EntryBase
  PROVE  /\ Copies \subseteq Record /\ Journals \subseteq Copies
         /\ \A i \in Ids : journals[i] \in Copies \cup {None}
         /\ \A k \in Workers : task[k] # None => task[k].todo \subseteq Copies /\ task[k].record \in Copies \cup {None}
         /\ \A c \in Copies : c \in Journals \/ \E k \in Workers : task[k] # None /\ (c \in task[k].todo \/ (c = task[k].record /\ c # None))
<1>1. task \in [Workers -> Task \cup {None}] /\ journals \in [Ids -> Record \cup {None}] /\ None \notin Record /\ None \notin Task
  BY EntryTyped
<1>2. Journals \subseteq Record /\ \A i \in Ids : journals[i] \in Journals \cup {None}
  BY <1>1 DEF Journals
<1>3. ASSUME NEW k \in Workers, task[k] # None PROVE task[k] \in Task /\ task[k].todo \subseteq Record /\ task[k].record \in Record \cup {None}
  BY <1>1, <1>3 DEF Task
<1>4. Copies = Journals \cup UNION {task[k].todo \cup ({task[k].record} \ {None}) : k \in Running}
      /\ \A k : k \in Running <=> k \in Workers /\ task[k] # None
  BY DEF Copies, Running
<1>5. ASSUME NEW c \in Copies PROVE c \in Journals \/ \E k \in Workers : task[k] # None /\ (c \in task[k].todo \/ (c = task[k].record /\ c # None))
  BY <1>4
<1>6. ASSUME NEW k \in Workers, task[k] # None PROVE task[k].todo \subseteq Copies /\ task[k].record \in Copies \cup {None}
  BY <1>4, <1>6
<1>7. Copies \subseteq Record
  BY <1>2, <1>3, <1>5
<1>8. Journals \subseteq Copies
  BY <1>4
<1> QED
  BY <1>2, <1>5, <1>6, <1>7, <1>8

LEMMA CopiesGo ==
  ASSUME EntryBase, NEW New \in SUBSET Record, TasksGo(New), JournalsGo(New)
  PROVE  Copies' \subseteq Copies \cup New
<1>1. /\ \A i \in Ids : journals[i] \in Copies \cup {None}
      /\ \A k \in Workers : task[k] # None => task[k].todo \subseteq Copies /\ task[k].record \in Copies \cup {None}
  BY CopiesAre
<1>2. \A i \in Ids : journals'[i] \in Copies \cup New \cup {None}
  BY <1>1 DEF JournalsGo
<1>3. \A k \in Workers : task'[k] # None => task'[k].todo \subseteq Copies /\ task'[k].record \in Copies \cup New \cup {None}
  BY <1>1 DEF TasksGo
<1>4. Journals' \subseteq Copies \cup New
  BY <1>2 DEF Journals
<1>5. Copies' = Journals' \cup UNION {task'[k].todo \cup ({task'[k].record} \ {None}) : k \in Running'}
      /\ \A k : k \in Running' <=> k \in Workers /\ task'[k] # None
  BY DEF Copies, Running
<1> QED
  BY <1>3, <1>4, <1>5

LEMMA BaseKept ==
  ASSUME EntryBase, NEW New \in SUBSET Record, TasksGo(New), JournalsGo(New), RestTyped', FilesAreApart',
         mutations' >= mutations, \A c \in New : Numbered(c)'
  PROVE  EntryBase' /\ Copies' \subseteq Copies \cup New
<1>1. Copies' \subseteq Copies \cup New
  BY CopiesGo
<1>2. EntryTypeOK'
  BY EntryTyped DEF EntryTypeOK, RestTyped, TasksGo, JournalsGo
<1>3. \A k \in Running' : TaskFollows(task[k])'
  <2>1. \A k \in Workers : task[k] # None => TaskFollows(task[k])
    BY DEF EntryBase, Running
  <2>2. \A k \in Workers : task'[k] # None => TaskFollows(task'[k])
    BY <2>1 DEF TasksGo
  <2> QED
    BY <2>2 DEF Running, TaskFollows
<1>4. \A c \in Copies' : Numbered(c)'
  <2>1. ASSUME NEW c \in Copies PROVE Numbered(c)'
    <3>1. Numbered(c) /\ c.id \in Nat
      BY CopiesAre DEF EntryBase, Record, Ids
    <3>2. mutations' \in Nat /\ mutations \in Nat
      BY EntryTyped DEF RestTyped
    <3> QED
      BY <3>1, <3>2 DEF Numbered
  <2> QED
    BY <1>1, <2>1
<1> QED
  BY <1>1, <1>2, <1>3, <1>4 DEF EntryBase

\* A worker goes on to t.
Goes(k, t) == task' = [task EXCEPT ![k] = t]
LEMMA WorkerGoes ==
  ASSUME EntryBase, NEW New \in SUBSET Record, NEW k \in Workers, NEW t \in Task, Goes(k, t), TaskFollows(t),
         t.todo \subseteq Copies, t.record \in Copies \cup New \cup {None}
  PROVE  TasksGo(New)
BY EntryTyped DEF TasksGo, Goes

LEMMA WorkerEnds ==
  ASSUME EntryBase, NEW New \in SUBSET Record, NEW k \in Workers, task' = [task EXCEPT ![k] = None]
  PROVE  TasksGo(New)
BY EntryTyped DEF TasksGo

LEMMA JournalsRest ==
  ASSUME EntryBase, NEW New \in SUBSET Record, UNCHANGED journals
  PROVE  JournalsGo(New)
BY EntryTyped DEF JournalsGo

LEMMA JournalSaved ==
  ASSUME EntryBase, NEW New \in SUBSET Record, NEW r \in Copies \cup New, SaveJournal(r)
  PROVE  JournalsGo(New)
<1>1. r \in Record /\ r.id \in Ids
  BY CopiesAre DEF Record
<1> QED
  BY <1>1, EntryTyped DEF JournalsGo, SaveJournal

LEMMA JournalDeleted ==
  ASSUME EntryBase, NEW New \in SUBSET Record, NEW r, DeleteJournal(r)
  PROVE  JournalsGo(New)
BY EntryTyped DEF JournalsGo, DeleteJournal

LEMMA DiskRests ==
  ASSUME EntryBase, UNCHANGED <<disk, trashed>>
  PROVE  FilesAreApart'
BY DEF EntryBase, FilesAreApart

Same(t, x) == t.kind = x.kind /\ t.from = x.from /\ t.to = x.to
Left(t, x, failed) ==
  /\ Same(t, x) /\ t.step = "replay" /\ t.phase = "finish" /\ t.record = None /\ t.todo = x.todo
  /\ t.failed = (x.failed \/ failed)
Goesto(t, x, r) ==
  /\ Same(t, x) /\ t.step = "apply" /\ t.phase = NextPhase(r) /\ t.record = r /\ t.todo = x.todo
  /\ t.failed = x.failed

LEMMA TaskTyped ==
  ASSUME EntryBase, NEW k \in Workers, task[k] # None
  PROVE  /\ task[k] \in Task /\ TaskFollows(task[k]) /\ k \in Running
         /\ task[k].todo \subseteq Copies /\ task[k].todo \subseteq Record
         /\ task[k].record \in Copies \cup {None} /\ task[k].record \in Record \cup {None}
         /\ None \notin Copies
BY EntryTyped, CopiesAre DEF EntryBase, Running

LEMMA PhasesAre ==
  ASSUME NEW r \in Record
  PROVE  NextPhase(r) \in Phases \cup {"finish"} /\ (NextPhase(r) = "finish" => r.applied = Phases)
         /\ (NextPhase(r) # "finish" => NextPhase(r) \notin r.applied)
BY DEF NextPhase, Record, Phases

LEMMA GoOnShape ==
  ASSUME EntryBase, NEW k \in Workers, task[k] # None, NEW r \in Record, r.committed, GoOn(k, r)
  PROVE  \E t \in Task : Goes(k, t) /\ Goesto(t, task[k], r) /\ TaskFollows(t)
<1> DEFINE t == [task[k] EXCEPT !.record = r, !.step = "apply", !.phase = NextPhase(r)]
<1>1. task[k] \in Task /\ TaskFollows(task[k]) /\ task \in [Workers -> Task \cup {None}]
  BY TaskTyped, EntryTyped
<1>2. t \in Task /\ Goesto(t, task[k], r)
  BY <1>1, PhasesAre DEF Task, Goesto, Same
<1>3. Goes(k, t)
  BY <1>1 DEF GoOn, Goes
<1>4. TaskFollows(t)
  BY <1>1, PhasesAre, EntryTyped DEF Task, TaskFollows
<1> QED
  BY <1>2, <1>3, <1>4

LEMMA LeaveShape ==
  ASSUME EntryBase, NEW k \in Workers, task[k] # None, NEW failed \in BOOLEAN, Leave(k, failed)
  PROVE  \E t \in Task : Goes(k, t) /\ Left(t, task[k], failed) /\ TaskFollows(t)
<1> DEFINE t == [task[k] EXCEPT !.record = None, !.step = "replay", !.phase = "finish", !.failed = @ \/ failed]
<1>1. task[k] \in Task /\ TaskFollows(task[k]) /\ task \in [Workers -> Task \cup {None}]
  BY TaskTyped, EntryTyped
<1>2. t \in Task /\ Left(t, task[k], failed)
  BY <1>1 DEF Task, Left, Same
<1>3. Goes(k, t)
  BY <1>1 DEF Leave, Goes
<1>4. TaskFollows(t)
  BY <1>1 DEF Task, TaskFollows
<1> QED
  BY <1>2, <1>3, <1>4

NewTask(t, kind, from, to) ==
  /\ t.kind = kind /\ t.from = from /\ t.to = to /\ t.step = "replay" /\ t.phase = "finish"
  /\ t.todo = Journals /\ t.record = None /\ t.failed = FALSE

LEMMA BeginShape ==
  ASSUME EntryBase, NEW k \in Workers, NEW kind \in Kinds, NEW from \in Paths \cup {None}, NEW to \in Paths \cup {None},
         kind \in {"rename", "delete", "create"} => from \in Paths, kind = "rename" => to \in Paths \ {from}, Begin(k, kind, from, to)
  PROVE  task[k] = None /\ \E t \in Task : Goes(k, t) /\ NewTask(t, kind, from, to) /\ TaskFollows(t)
<1> DEFINE t == [kind |-> kind, from |-> from, to |-> to, step |-> "replay", phase |-> "finish", todo |-> Journals, record |-> None, failed |-> FALSE]
<1>1. Journals \subseteq Record
  BY CopiesAre
<1>2. t \in Task /\ NewTask(t, kind, from, to)
  BY <1>1 DEF Task, NewTask
<1>3. Goes(k, t)
  BY DEF Begin, Goes
<1>4. TaskFollows(t)
  BY DEF TaskFollows
<1> QED
  BY <1>2, <1>3, <1>4 DEF Begin

LEMMA CommandShape ==
  ASSUME EntryBase, NEW k \in Workers, Command(k)
  PROVE  /\ task[k] = None
         /\ \E t \in Task : /\ Goes(k, t) /\ TaskFollows(t) /\ t.kind # "settle" /\ t.kind # "launch" /\ t.kind # "list"
                            /\ NewTask(t, t.kind, t.from, t.to)
<1>1. \E kind \in {"delete", "create", "look", "rename"}, from \in Paths, to \in Paths \cup {None} :
         (kind = "rename" => to \in Paths \ {from}) /\ Begin(k, kind, from, to)
  BY DEF Command
<1>2. PICK kind \in {"delete", "create", "look", "rename"}, from \in Paths, to \in Paths \cup {None} :
         (kind = "rename" => to \in Paths \ {from}) /\ Begin(k, kind, from, to)
  BY <1>1
<1>3. task[k] = None /\ \E t \in Task : Goes(k, t) /\ NewTask(t, kind, from, to) /\ TaskFollows(t)
  BY <1>2, BeginShape DEF Kinds
<1> QED
  BY <1>3 DEF NewTask

LEMMA TakeShape ==
  ASSUME EntryBase, NEW k \in Workers, Take(k)
  PROVE  /\ task[k] # None /\ task[k].step = "replay" /\ task[k].record = None
         /\ \E t \in Task : /\ Goes(k, t) /\ TaskFollows(t) /\ Same(t, task[k])
                            /\ t.step = "observe" /\ t.record \in task[k].todo /\ t.todo = task[k].todo \ {t.record}
                            /\ t.failed = task[k].failed /\ t.record # None
<1>1. task[k] # None /\ task[k].step = "replay"
  BY DEF Take, Doing
<1>2. PICK r \in task[k].todo : task' = [task EXCEPT ![k].todo = @ \ {r}, ![k].record = r, ![k].step = "observe"]
  BY DEF Take
<1>3. task[k] \in Task /\ TaskFollows(task[k]) /\ task \in [Workers -> Task \cup {None}] /\ r \in Record /\ None \notin Record
  BY <1>1, TaskTyped, EntryTyped
<1> DEFINE t == [task[k] EXCEPT !.todo = @ \ {r}, !.record = r, !.step = "observe"]
<1>4. t \in Task /\ Same(t, task[k]) /\ t.step = "observe" /\ t.record = r /\ t.todo = task[k].todo \ {r} /\ t.failed = task[k].failed
  BY <1>3 DEF Task, Same
<1>5. Goes(k, t)
  BY <1>2, <1>3 DEF Goes
<1>6. TaskFollows(t)
  BY <1>3 DEF Task, TaskFollows
<1>7. task[k].record = None
  BY <1>1, <1>3 DEF TaskFollows
<1> QED
  BY <1>1, <1>3, <1>4, <1>5, <1>6, <1>7

\* Looking at the file system: the record is committed, proves to be, is dropped or left.
LEMMA ObservedShape ==
  ASSUME EntryBase, NEW k \in Workers, FilesystemCommitObserved(k), NEW r, r = task[k].record
  PROVE  /\ task[k] # None /\ task[k].step = "observe" /\ r \in Copies /\ r \in Record
         /\ \E t \in Task :
              /\ Goes(k, t) /\ TaskFollows(t)
              /\ \/ r.committed /\ Goesto(t, task[k], r) /\ UNCHANGED <<journals, old>>
                 \/ /\ ~r.committed /\ RenameCommitProven(r) /\ Goesto(t, task[k], [r EXCEPT !.committed = TRUE])
                    /\ SaveJournal([r EXCEPT !.committed = TRUE]) /\ old' = old \ {r.id}
                 \/ /\ ~r.committed /\ ~RenameCommitProven(r) /\ SafeToDrop(r) /\ Left(t, task[k], FALSE) /\ UNCHANGED old
                    /\ IF r.id \in old /\ journals[r.id] # None THEN DeleteJournal(r) ELSE UNCHANGED journals
                 \/ /\ ~r.committed /\ ~RenameCommitProven(r) /\ ~SafeToDrop(r) /\ Left(t, task[k], TRUE)
                    /\ UNCHANGED <<journals, old>>
<1>1. task[k] # None /\ task[k].step = "observe"
  BY DEF FilesystemCommitObserved, Doing
<1>2. task[k] \in Task /\ TaskFollows(task[k]) /\ r \in Copies /\ r \in Record
  <2>1. task[k].record # None
    BY <1>1, TaskTyped DEF TaskFollows
  <2> QED
    BY <1>1, <2>1, TaskTyped
<1>3. CASE r.committed /\ GoOn(k, r) /\ UNCHANGED <<journals, old>>
  BY <1>1, <1>2, <1>3, GoOnShape
<1>4. CASE ~r.committed /\ RenameCommitProven(r) /\ SaveJournal([r EXCEPT !.committed = TRUE])
           /\ GoOn(k, [r EXCEPT !.committed = TRUE]) /\ old' = old \ {r.id}
  <2>1. [r EXCEPT !.committed = TRUE] \in Record /\ [r EXCEPT !.committed = TRUE].committed
    BY <1>2 DEF Record
  <2>2. \E t \in Task : Goes(k, t) /\ Goesto(t, task[k], [r EXCEPT !.committed = TRUE]) /\ TaskFollows(t)
    BY <1>1, <1>4, <2>1, GoOnShape
  <2> QED
    BY <1>1, <1>2, <1>4, <2>2
<1>5. CASE ~r.committed /\ ~RenameCommitProven(r) /\ SafeToDrop(r)
           /\ (IF r.id \in old /\ journals[r.id] # None THEN DeleteJournal(r) ELSE UNCHANGED journals)
           /\ Leave(k, FALSE) /\ UNCHANGED old
  <2>2. \E t \in Task : Goes(k, t) /\ Left(t, task[k], FALSE) /\ TaskFollows(t)
    BY <1>1, <1>5, LeaveShape
  <2> QED
    BY <1>1, <1>2, <1>5, <2>2
<1>6. CASE ~r.committed /\ ~RenameCommitProven(r) /\ ~SafeToDrop(r) /\ Leave(k, TRUE) /\ UNCHANGED <<journals, old>>
  <2>2. \E t \in Task : Goes(k, t) /\ Left(t, task[k], TRUE) /\ TaskFollows(t)
    BY <1>1, <1>6, LeaveShape
  <2> QED
    BY <1>1, <1>2, <1>6, <2>2
<1> QED
  BY <1>3, <1>4, <1>5, <1>6 DEF FilesystemCommitObserved

LEMMA ApplyShape ==
  ASSUME EntryBase, NEW k \in Workers, Apply(k)
  PROVE  /\ task[k] # None /\ task[k].step = "apply" /\ task[k].phase # "finish" /\ task[k].record \in Copies /\ task[k].record.committed
         /\ \E t \in Task : /\ Goes(k, t) /\ TaskFollows(t) /\ Same(t, task[k]) /\ t.step = "save" /\ t.todo = task[k].todo
                            /\ t.record = task[k].record /\ t.phase = task[k].phase /\ t.failed = task[k].failed
<1>1. task[k] # None /\ task[k].step = "apply" /\ task[k].phase # "finish"
  BY DEF Apply, Doing
<1>2. task[k] \in Task /\ TaskFollows(task[k]) /\ task \in [Workers -> Task \cup {None}] /\ task[k].record # None
  BY <1>1, TaskTyped, EntryTyped DEF TaskFollows
<1> DEFINE t == [task[k] EXCEPT !.step = "save"]
<1>3. /\ t \in Task /\ Same(t, task[k]) /\ t.step = "save" /\ t.todo = task[k].todo
      /\ t.record = task[k].record /\ t.phase = task[k].phase /\ t.failed = task[k].failed
  BY <1>2 DEF Task, Same
<1>4. Goes(k, t)
  BY <1>2 DEF Apply, Goes
<1>5. TaskFollows(t)
  BY <1>1, <1>2 DEF Task, TaskFollows
<1> QED
  BY <1>1, <1>2, <1>3, <1>4, <1>5, TaskTyped DEF TaskFollows

LEMMA SaveShape ==
  ASSUME EntryBase, NEW k \in Workers, SavePhase(k), NEW r, r = [task[k].record EXCEPT !.applied = @ \cup {task[k].phase}]
  PROVE  /\ task[k] # None /\ task[k].step = "save" /\ task[k].phase \in Phases /\ task[k].record \in Copies /\ task[k].record.committed
         /\ r \in Record /\ SaveJournal(r) /\ old' = old \ {r.id}
         /\ \E t \in Task : Goes(k, t) /\ TaskFollows(t) /\ (Left(t, task[k], TRUE) \/ Goesto(t, task[k], r))
<1>1. task[k] # None /\ task[k].step = "save"
  BY DEF SavePhase, Doing
<1>2. task[k] \in Task /\ TaskFollows(task[k]) /\ task[k].record \in Copies /\ task[k].record \in Record /\ task[k].record.committed
  BY <1>1, TaskTyped DEF TaskFollows
<1>3. task[k].phase \in Phases
  BY <1>1, <1>2 DEF TaskFollows, Task
<1>4. r \in Record /\ r.committed
  BY <1>2, <1>3 DEF Record
<1>5. \E t \in Task : Goes(k, t) /\ TaskFollows(t) /\ (Left(t, task[k], TRUE) \/ Goesto(t, task[k], r))
  <2>1. CASE Leave(k, TRUE)
    BY <1>1, <2>1, LeaveShape
  <2>2. CASE GoOn(k, r)
    BY <1>1, <1>4, <2>2, GoOnShape
  <2> QED
    BY <2>1, <2>2 DEF SavePhase
<1>6. SaveJournal(r) /\ old' = old \ {r.id}
  BY DEF SavePhase
<1> QED
  BY <1>1, <1>2, <1>3, <1>4, <1>5, <1>6

LEMMA PhaseFailsShape ==
  ASSUME EntryBase, NEW k \in Workers, PhaseFails(k)
  PROVE  /\ task[k] # None /\ task[k].record \in Copies
         /\ \E t \in Task : /\ Goes(k, t) /\ TaskFollows(t)
                            /\ \/ Left(t, task[k], TRUE)
                               \/ /\ Same(t, task[k]) /\ t.step = "apply" /\ t.phase = "recovery" /\ t.todo = task[k].todo
                                  /\ t.record = task[k].record /\ t.failed
<1>1. task[k] # None /\ task[k].step \in {"apply", "save"}
  BY DEF PhaseFails, Doing
<1>2. task[k] \in Task /\ TaskFollows(task[k]) /\ task \in [Workers -> Task \cup {None}] /\ task[k].record \in Copies
  BY <1>1, TaskTyped, EntryTyped DEF TaskFollows
<1>3. CASE Leave(k, TRUE)
  BY <1>1, <1>2, <1>3, LeaveShape
<1>4. CASE Doing(k, "apply") /\ task' = [task EXCEPT ![k].phase = "recovery", ![k].failed = TRUE]
  <2> DEFINE t == [task[k] EXCEPT !.phase = "recovery", !.failed = TRUE]
  <2>1. /\ t \in Task /\ Same(t, task[k]) /\ t.step = "apply" /\ t.phase = "recovery" /\ t.todo = task[k].todo
        /\ t.record = task[k].record /\ t.failed
    BY <1>2, <1>4 DEF Task, Same, Phases, Doing
  <2>2. Goes(k, t)
    BY <1>2, <1>4 DEF Goes
  <2>3. TaskFollows(t)
    BY <1>2, <1>4 DEF Task, TaskFollows, Doing
  <2> QED
    BY <1>1, <1>2, <2>1, <2>2, <2>3
<1> QED
  BY <1>3, <1>4 DEF PhaseFails

LEMMA FinishShape ==
  ASSUME EntryBase, NEW k \in Workers, FinishRecord(k)
  PROVE  /\ task[k] # None /\ task[k].step = "apply" /\ task[k].record \in Copies /\ task[k].record.applied = Phases
         /\ DeleteJournal(task[k].record) /\ \E t \in Task : Goes(k, t) /\ TaskFollows(t) /\ Left(t, task[k], FALSE)
<1>1. task[k] # None /\ task[k].step = "apply" /\ task[k].phase = "finish"
  BY DEF FinishRecord, Doing
<1>2. task[k].record \in Copies /\ task[k].record.applied = Phases
  BY <1>1, TaskTyped DEF TaskFollows
<1> QED
  BY <1>1, <1>2, LeaveShape DEF FinishRecord

LEMMA ReplayedShape ==
  ASSUME EntryBase, NEW k \in Workers, Replayed(k)
  PROVE  /\ task[k] # None /\ task[k].step = "replay" /\ task[k].todo = {} /\ task[k].record = None
         /\ \/ task' = [task EXCEPT ![k] = None]
            \/ /\ task[k].kind \in {"rename", "delete", "create"} /\ ~task[k].failed
               /\ \E t \in Task : /\ Goes(k, t) /\ TaskFollows(t) /\ Same(t, task[k]) /\ t.step = "act"
                                  /\ t.todo = {} /\ t.record = None
         /\ launching' \in BOOLEAN
<1>1. task[k] # None /\ task[k].step = "replay" /\ task[k].todo = {}
  BY DEF Replayed, Doing
<1>2. task[k] \in Task /\ TaskFollows(task[k]) /\ task \in [Workers -> Task \cup {None}] /\ task[k].record = None
  BY <1>1, TaskTyped, EntryTyped DEF TaskFollows
<1>3. launching' \in BOOLEAN
  BY EntryTyped DEF Replayed, RestTyped
<1>4. CASE task[k].kind \in {"rename", "delete", "create"} /\ ~task[k].failed /\ task' = [task EXCEPT ![k].step = "act"]
  <2> DEFINE t == [task[k] EXCEPT !.step = "act"]
  <2>1. t \in Task /\ Same(t, task[k]) /\ t.step = "act" /\ t.todo = {} /\ t.record = None
    BY <1>1, <1>2 DEF Task, Same
  <2>2. Goes(k, t)
    BY <1>2, <1>4 DEF Goes
  <2>3. TaskFollows(t)
    BY <1>1, <1>2, <1>4 DEF Task, TaskFollows
  <2> QED
    BY <1>1, <1>2, <1>3, <1>4, <2>1, <2>2, <2>3
<1> QED
  BY <1>1, <1>2, <1>3, <1>4 DEF Replayed

\* The new journal of a rename or a deletion.
LEMMA PrepareShape ==
  ASSUME EntryBase, NEW k \in Workers, Prepare(k)
  PROVE  /\ task[k] # None /\ task[k].step = "act" /\ task[k].record = None /\ task[k].todo = {}
         /\ mutations' = mutations + 1 /\ mutations' \in 0..MaxMutations
         /\ task[k].kind \in {"rename", "delete"}
         /\ \E t \in Task, r \in Record :
              /\ Goes(k, t) /\ TaskFollows(t) /\ Same(t, task[k]) /\ t.step = "act" /\ t.todo = {} /\ t.record = r
              /\ SaveJournal(r) /\ r.id = mutations' /\ r.kind = task[k].kind /\ r.from = task[k].from /\ r.to = task[k].to
              /\ r.object = disk[r.from] /\ ~r.committed /\ r.applied \subseteq {"parentSync"}
              /\ (r.kind = "rename" => r.to \in Paths \ {r.from} /\ disk[r.to] = None)
              /\ (Numbered(r))' /\ r.object # None /\ r # None
<1>1. task[k] # None /\ task[k].step = "act" /\ task[k].record = None /\ task[k].kind \in {"rename", "delete"}
  BY DEF Prepare, Doing, Written
<1>2. task[k] \in Task /\ TaskFollows(task[k]) /\ task \in [Workers -> Task \cup {None}] /\ task[k].todo = {} /\ task[k].from \in Paths
      /\ None \notin Record
  BY <1>1, TaskTyped, EntryTyped DEF TaskFollows
<1>3. mutations' = mutations + 1 /\ mutations' \in 0..MaxMutations /\ mutations' \in Ids
  BY EntryTyped, BoundsAssumption DEF Prepare, RestTyped, Ids
<1> DEFINE r == [id |-> mutations', kind |-> task[k].kind, from |-> task[k].from, to |-> task[k].to,
                 object |-> disk[task[k].from], committed |-> FALSE,
                 applied |-> IF task[k].kind = "delete" THEN {"parentSync"} ELSE {}]
           t == [task[k] EXCEPT !.record = r]
<1>4. disk[task[k].from] # None /\ (task[k].kind = "rename" => disk[task[k].to] = None)
  BY DEF Prepare
<1>5. disk[task[k].from] \in Objects /\ task[k].to \in Paths \cup {None}
  BY <1>2, <1>4, EntryTyped DEF RestTyped, Task
<1>6. r \in Record
  BY <1>1, <1>2, <1>3, <1>5 DEF Record, Phases
<1>7. SaveJournal(r) /\ task' = [task EXCEPT ![k].record = r]
  BY DEF Prepare
<1>8. t \in Task /\ Same(t, task[k]) /\ t.step = "act" /\ t.todo = {} /\ t.record = r
  BY <1>1, <1>2, <1>6 DEF Task, Same
<1>9. Goes(k, t)
  BY <1>2, <1>7 DEF Goes
<1>10. TaskFollows(t)
  BY <1>1, <1>2 DEF Task, TaskFollows
<1>11. task[k].kind = "rename" => task[k].to \in Paths \ {task[k].from}
  BY <1>2 DEF TaskFollows
<1>12. r.id = mutations' /\ r.kind = task[k].kind /\ r.from = task[k].from /\ r.to = task[k].to /\ r.object = disk[r.from]
       /\ ~r.committed /\ r.applied \subseteq {"parentSync"}
  OBVIOUS
<1> HIDE DEF r
<1>13. PICK q \in Record : q = r
  BY <1>6
<1>14. /\ q.id = mutations' /\ q.kind = task[k].kind /\ q.from = task[k].from /\ q.to = task[k].to /\ q.object = disk[q.from]
       /\ ~q.committed /\ q.applied \subseteq {"parentSync"}
  BY <1>12, <1>13
<1>15. mutations' <= mutations'
  BY <1>3, BoundsAssumption DEF Ids
<1>16. (Numbered(q))'
  BY <1>11, <1>14, <1>15 DEF Numbered
<1>17. q.object # None /\ q # None /\ (q.kind = "rename" => q.to \in Paths \ {q.from} /\ disk[q.to] = None)
  BY <1>2, <1>4, <1>11, <1>14
<1>18. SaveJournal(q) /\ t.record = q
  BY <1>7, <1>8, <1>13
<1> HIDE DEF t
<1> QED
  BY <1>1, <1>2, <1>3, <1>8, <1>9, <1>10, <1>14, <1>16, <1>17, <1>18

LEMMA CommitShape ==
  ASSUME EntryBase, NEW k \in Workers, Commit(k), NEW r, r = task[k].record
  PROVE  /\ task[k] # None /\ Acting(k) /\ r \in Copies /\ r \in Record /\ disk[r.from] # None /\ task[k].todo = {} /\ task[k].step = "act"
         /\ \E t \in Task : /\ Goes(k, t) /\ TaskFollows(t) /\ Same(t, task[k]) /\ t.step = "act" /\ t.todo = {}
                            /\ t.record = [r EXCEPT !.committed = TRUE]
<1>1. task[k] # None /\ task[k].step = "act" /\ r # None /\ ~r.committed /\ disk[r.from] # None
  BY DEF Commit, Doing, Written
<1>2. task[k] \in Task /\ TaskFollows(task[k]) /\ task \in [Workers -> Task \cup {None}] /\ task[k].todo = {} /\ r \in Record /\ r \in Copies
  BY <1>1, TaskTyped, EntryTyped DEF TaskFollows
<1> DEFINE t == [task[k] EXCEPT !.record = [r EXCEPT !.committed = TRUE]]
<1>3. [r EXCEPT !.committed = TRUE] \in Record
  BY <1>2 DEF Record
<1>4. t \in Task /\ Same(t, task[k]) /\ t.step = "act" /\ t.todo = {} /\ t.record = [r EXCEPT !.committed = TRUE]
  BY <1>1, <1>2, <1>3 DEF Task, Same
<1>5. Goes(k, t)
  BY <1>2 DEF Goes, Commit
<1>6. TaskFollows(t)
  BY <1>1, <1>2, EntryTyped DEF Task, TaskFollows
<1>7. Acting(k)
  BY DEF Acting, Commit
<1> QED
  BY <1>1, <1>2, <1>4, <1>5, <1>6, <1>7

LEMMA MarkShape ==
  ASSUME EntryBase, NEW k \in Workers, MarkCommitted(k), NEW r, r = task[k].record
  PROVE  /\ task[k] # None /\ task[k].step = "act" /\ task[k].todo = {} /\ r \in Copies /\ r.committed
         /\ (SaveJournal(r) /\ old' = old \ {r.id}) \/ UNCHANGED <<journals, old>>
         /\ \E t \in Task : /\ Goes(k, t) /\ TaskFollows(t) /\ t.kind = "settle" /\ t.step = "observe" /\ t.todo = {} /\ t.record = r
                            /\ t.from = task[k].from /\ t.to = task[k].to
<1>1. task[k] # None /\ task[k].step = "act" /\ r # None /\ r.committed
  BY DEF MarkCommitted, Doing, Written
<1>2. task[k] \in Task /\ TaskFollows(task[k]) /\ task \in [Workers -> Task \cup {None}] /\ task[k].todo = {} /\ r \in Record /\ r \in Copies
  BY <1>1, TaskTyped, EntryTyped DEF TaskFollows
<1> DEFINE t == [task[k] EXCEPT !.kind = "settle", !.step = "observe"]
<1>4. /\ t \in Task /\ t.kind = "settle" /\ t.step = "observe" /\ t.todo = {} /\ t.record = r
      /\ t.from = task[k].from /\ t.to = task[k].to
  BY <1>1, <1>2 DEF Task, Kinds
<1>5. Goes(k, t)
  BY <1>2 DEF Goes, MarkCommitted
<1>6. TaskFollows(t)
  BY <1>1, <1>2 DEF Task, TaskFollows
<1>7. (SaveJournal(r) /\ old' = old \ {r.id}) \/ UNCHANGED <<journals, old>>
  BY DEF MarkCommitted
<1> QED
  BY <1>1, <1>2, <1>4, <1>5, <1>6, <1>7

LEMMA CrashShape ==
  ASSUME EntryBase, Crash
  PROVE  /\ task' \in [Workers -> Task \cup {None}]
         /\ \E k \in Workers : /\ task'[k] \in Task /\ NewTask(task'[k], "launch", None, None) /\ TaskFollows(task'[k])
                               /\ \A j \in Workers \ {k} : task'[j] = None
<1> DEFINE t == [kind |-> "launch", from |-> None, to |-> None, step |-> "replay",
                 phase |-> "finish", todo |-> Journals, record |-> None, failed |-> FALSE]
<1>1. PICK k \in Workers : task' = [j \in Workers |-> IF j = k THEN t ELSE None]
  BY DEF Crash
<1>2. t \in Task /\ NewTask(t, "launch", None, None) /\ TaskFollows(t)
  BY CopiesAre DEF Task, NewTask, TaskFollows, Kinds
<1> QED
  BY <1>1, <1>2

\* Each step writes at most one record, next to those there are.
Descends(c, d) ==      \* c is what d became
  /\ c \in Record /\ c.id = d.id /\ c.kind = d.kind /\ c.from = d.from /\ c.to = d.to /\ c.object = d.object
  /\ d.applied \subseteq c.applied

LEMMA DescendantsAreNumbered ==
  ASSUME EntryBase, NEW d \in Copies, NEW c, Descends(c, d), c.committed, mutations' = mutations
  PROVE  c \in Record /\ (Numbered(c))'
BY CopiesAre DEF EntryBase, Numbered, Descends

LEMMA RestKept ==
  ASSUME EntryBase, UNCHANGED <<disk, trashed, stores, launching, bounds>>, old' \subseteq old
  PROVE  RestTyped' /\ FilesAreApart' /\ mutations' = mutations /\ mutations' >= mutations
BY EntryTyped, DiskRests DEF RestTyped, stores, bounds

LEMMA QuietBase ==
  ASSUME EntryBase, NEW New \in SUBSET Record, NEW k \in Workers, NEW t \in Task, Goes(k, t), TaskFollows(t),
         t.todo \subseteq Copies, t.record \in Copies \cup New \cup {None}, JournalsGo(New), 
         UNCHANGED <<disk, trashed, stores, launching, bounds>>, old' \subseteq old,
         \A c \in New : Numbered(c)'
  PROVE  EntryBase' /\ Copies' \subseteq Copies \cup New
<1>1. TasksGo(New)
  BY WorkerGoes
<1> QED
  BY <1>1, RestKept, BaseKept

LEMMA CommandBase ==
  ASSUME EntryBase, NEW k \in Workers, Command(k)
  PROVE  EntryBase' /\ Copies' \subseteq Copies
<1>1. PICK t \in Task : Goes(k, t) /\ TaskFollows(t) /\ NewTask(t, t.kind, t.from, t.to)
  BY CommandShape
<1>2. t.todo \subseteq Copies /\ t.record = None
  BY <1>1, CopiesAre DEF NewTask
<1>3. UNCHANGED <<disk, trashed, stores, launching, bounds>> /\ old' \subseteq old /\ UNCHANGED journals
  BY DEF Command
<1>4. EntryBase' /\ Copies' \subseteq Copies \cup {}
  BY <1>1, <1>2, <1>3, QuietBase, JournalsRest
<1> QED
  BY <1>4

LEMMA ListShape ==
  ASSUME EntryBase, NEW k \in Workers, List(k)
  PROVE  task[k] = None /\ \E t \in Task : Goes(k, t) /\ NewTask(t, "list", None, None) /\ TaskFollows(t)
BY BeginShape DEF List, Kinds

LEMMA ListBase ==
  ASSUME EntryBase, NEW k \in Workers, List(k)
  PROVE  EntryBase' /\ Copies' \subseteq Copies
<1>1. PICK t \in Task : Goes(k, t) /\ TaskFollows(t) /\ NewTask(t, "list", None, None)
  BY ListShape
<1>2. t.todo \subseteq Copies /\ t.record = None
  BY <1>1, CopiesAre DEF NewTask
<1>3. UNCHANGED <<disk, trashed, stores, launching, bounds>> /\ old' \subseteq old /\ UNCHANGED journals
  BY DEF List
<1>4. EntryBase' /\ Copies' \subseteq Copies \cup {}
  BY <1>1, <1>2, <1>3, QuietBase, JournalsRest
<1> QED
  BY <1>4

LEMMA TakeBase ==
  ASSUME EntryBase, NEW k \in Workers, Take(k)
  PROVE  EntryBase' /\ Copies' \subseteq Copies
<1>1. PICK t \in Task : Goes(k, t) /\ TaskFollows(t) /\ t.record \in task[k].todo /\ t.todo = task[k].todo \ {t.record}
  BY TakeShape
<1>2. t.todo \subseteq Copies /\ t.record \in Copies
  BY <1>1, TakeShape, TaskTyped
<1>3. UNCHANGED <<disk, trashed, stores, launching, bounds>> /\ old' \subseteq old /\ UNCHANGED journals
  BY DEF Take
<1>4. EntryBase' /\ Copies' \subseteq Copies \cup {}
  BY <1>1, <1>2, <1>3, QuietBase, JournalsRest
<1> QED
  BY <1>4

LEMMA ObservedBase ==
  ASSUME EntryBase, NEW k \in Workers, FilesystemCommitObserved(k), NEW r, r = task[k].record
  PROVE  /\ EntryBase' /\ r \in Copies
         /\ \/ Copies' \subseteq Copies
            \/ ~r.committed /\ RenameCommitProven(r) /\ Copies' \subseteq Copies \cup {[r EXCEPT !.committed = TRUE]}
<1>1. task[k] # None /\ r \in Copies /\ r \in Record
  BY ObservedShape
<1>2. UNCHANGED <<disk, trashed, stores, launching, bounds>>
  BY DEF FilesystemCommitObserved
<1>3. task[k].todo \subseteq Copies
  BY <1>1, TaskTyped
<1> DEFINE s == [r EXCEPT !.committed = TRUE]
<1>4. PICK t \in Task :
              /\ Goes(k, t) /\ TaskFollows(t)
              /\ \/ r.committed /\ Goesto(t, task[k], r) /\ UNCHANGED <<journals, old>>
                 \/ /\ ~r.committed /\ RenameCommitProven(r) /\ Goesto(t, task[k], s)
                    /\ SaveJournal(s) /\ old' = old \ {r.id}
                 \/ /\ ~r.committed /\ ~RenameCommitProven(r) /\ SafeToDrop(r) /\ Left(t, task[k], FALSE) /\ UNCHANGED old
                    /\ IF r.id \in old /\ journals[r.id] # None THEN DeleteJournal(r) ELSE UNCHANGED journals
                 \/ /\ ~r.committed /\ ~RenameCommitProven(r) /\ ~SafeToDrop(r) /\ Left(t, task[k], TRUE)
                    /\ UNCHANGED <<journals, old>>
  BY ObservedShape
<1>5. t.todo \subseteq Copies
  BY <1>3, <1>4 DEF Goesto, Left
<1>6. CASE r.committed /\ Goesto(t, task[k], r) /\ UNCHANGED <<journals, old>>
  <2>1. EntryBase' /\ Copies' \subseteq Copies \cup {}
    BY <1>1, <1>2, <1>4, <1>5, <1>6, QuietBase, JournalsRest DEF Goesto
  <2> QED
    BY <1>1, <2>1
<1>7. CASE ~r.committed /\ RenameCommitProven(r) /\ Goesto(t, task[k], s) /\ SaveJournal(s) /\ old' = old \ {r.id}
  <2>1. Descends(s, r) /\ s.committed /\ mutations' = mutations
    BY <1>1, <1>2 DEF Descends, Record, bounds
  <2>2. s \in Record /\ (Numbered(s))'
    BY <1>1, <2>1, DescendantsAreNumbered
  <2>3. JournalsGo({s})
    BY <1>7, <2>2, JournalSaved
  <2>4. t.record = s /\ old' \subseteq old
    BY <1>7 DEF Goesto
  <2>5. {s} \in SUBSET Record /\ (\A c \in {s} : (Numbered(c))') /\ t.record \in Copies \cup {s} \cup {None} /\ Goes(k, t) /\ TaskFollows(t)
    BY <1>4, <2>2, <2>4
  <2> HIDE DEF s
  <2>6. EntryBase' /\ Copies' \subseteq Copies \cup {s}
    BY <1>2, <1>5, <2>3, <2>4, <2>5, QuietBase
  <2> QED
    BY <1>1, <1>7, <2>6 DEF s
<1>8. CASE Left(t, task[k], FALSE) \/ Left(t, task[k], TRUE)
  <2>1. JournalsGo({}) /\ t.record = None /\ old' \subseteq old
    BY <1>4, <1>8, JournalsRest, JournalDeleted DEF Left, Goesto
  <2>2. EntryBase' /\ Copies' \subseteq Copies \cup {}
    BY <1>2, <1>4, <1>5, <2>1, QuietBase
  <2> QED
    BY <1>1, <2>2
<1> QED
  BY <1>4, <1>6, <1>7, <1>8

LEMMA StoresTyped ==
  ASSUME EntryBase, NEW r \in Record, r.kind = "rename" => r.to \in Paths, ApplySqlite(r) \/ ApplyRecovery(r) \/ ApplyHistory(r) \/ UNCHANGED stores
  PROVE  /\ rows' \in [Paths -> Objects \cup {None}] /\ snaps' \in [Paths -> Objects \cup {None}]
         /\ located' \in [Objects -> Paths \cup {None}]
<1>1. /\ rows \in [Paths -> Objects \cup {None}] /\ snaps \in [Paths -> Objects \cup {None}]
      /\ located \in [Objects -> Paths \cup {None}] /\ r.from \in Paths /\ r.kind \in {"rename", "delete"}
  BY EntryTyped DEF RestTyped, Record
<1>2. CASE ApplySqlite(r)
  BY <1>1, <1>2 DEF ApplySqlite, Move
<1>3. CASE ApplyRecovery(r)
  BY <1>1, <1>3 DEF ApplyRecovery, Move
<1>4. CASE ApplyHistory(r)
  BY <1>1, <1>4 DEF ApplyHistory
<1> QED
  BY <1>1, <1>2, <1>3, <1>4 DEF stores

LEMMA ApplyBase ==
  ASSUME EntryBase, NEW k \in Workers, Apply(k)
  PROVE  EntryBase' /\ Copies' \subseteq Copies
<1>1. PICK t \in Task : /\ Goes(k, t) /\ TaskFollows(t) /\ Same(t, task[k]) /\ t.step = "save" /\ t.todo = task[k].todo
                        /\ t.record = task[k].record /\ t.phase = task[k].phase /\ t.failed = task[k].failed
  BY ApplyShape
<1>2. task[k] # None /\ task[k].record \in Copies /\ task[k].record \in Record /\ task[k].todo \subseteq Copies
  BY ApplyShape, TaskTyped, CopiesAre
<1>3. TasksGo({})
  BY <1>1, <1>2, WorkerGoes
<1>4. JournalsGo({})
  BY JournalsRest DEF Apply
<1>5. task[k].record.kind = "rename" => task[k].record.to \in Paths
  BY <1>2 DEF EntryBase, Numbered
<1>6. ApplySqlite(task[k].record) \/ ApplyRecovery(task[k].record) \/ ApplyHistory(task[k].record) \/ UNCHANGED stores
  BY DEF Apply
<1>7. UNCHANGED <<disk, trashed, old, launching, bounds>>
  BY DEF Apply
<1>8. RestTyped' /\ FilesAreApart' /\ mutations' >= mutations
  BY <1>2, <1>5, <1>6, <1>7, StoresTyped, EntryTyped, DiskRests DEF RestTyped, bounds
<1>9. EntryBase' /\ Copies' \subseteq Copies \cup {}
  BY <1>3, <1>4, <1>8, BaseKept
<1> QED
  BY <1>9

LEMMA SaveBase ==
  ASSUME EntryBase, NEW k \in Workers, SavePhase(k), NEW r, r = [task[k].record EXCEPT !.applied = @ \cup {task[k].phase}]
  PROVE  /\ EntryBase' /\ Copies' \subseteq Copies \cup {r} /\ r \in Record /\ task[k].record \in Copies
         /\ Descends(r, task[k].record) /\ r.committed /\ task[k].record.committed
<1>1. /\ task[k] # None /\ task[k].record \in Copies /\ task[k].record.committed /\ r \in Record /\ SaveJournal(r) /\ old' = old \ {r.id}
      /\ \E t \in Task : Goes(k, t) /\ TaskFollows(t) /\ (Left(t, task[k], TRUE) \/ Goesto(t, task[k], r))
  BY SaveShape
<1>2. task[k].record \in Record
  BY <1>1, CopiesAre
<1>3. Descends(r, task[k].record) /\ r.committed
  BY <1>1, <1>2 DEF Descends, Record
<1>4. UNCHANGED <<disk, trashed, stores, launching, bounds>> /\ mutations' = mutations
  BY DEF SavePhase, bounds
<1>5. (Numbered(r))'
  BY <1>1, <1>3, <1>4, DescendantsAreNumbered
<1>6. JournalsGo({r})
  BY <1>1, JournalSaved
<1>7. PICK t \in Task : Goes(k, t) /\ TaskFollows(t) /\ (Left(t, task[k], TRUE) \/ Goesto(t, task[k], r))
  BY <1>1
<1>8. t.todo \subseteq Copies /\ t.record \in {r, None} /\ old' \subseteq old
  BY <1>1, <1>7, TaskTyped DEF Left, Goesto
<1>9. {r} \in SUBSET Record /\ (\A c \in {r} : (Numbered(c))') /\ t.record \in Copies \cup {r} \cup {None}
  BY <1>1, <1>5, <1>8
<1>10. EntryBase' /\ Copies' \subseteq Copies \cup {r}
  BY <1>4, <1>6, <1>7, <1>8, <1>9, QuietBase
<1> QED
  BY <1>1, <1>3, <1>10

LEMMA PhaseFailsBase ==
  ASSUME EntryBase, NEW k \in Workers, PhaseFails(k)
  PROVE  EntryBase' /\ Copies' \subseteq Copies
<1>1. PICK t \in Task : /\ Goes(k, t) /\ TaskFollows(t)
                        /\ \/ Left(t, task[k], TRUE)
                           \/ /\ Same(t, task[k]) /\ t.step = "apply" /\ t.phase = "recovery" /\ t.todo = task[k].todo
                              /\ t.record = task[k].record /\ t.failed
  BY PhaseFailsShape
<1>2. t.todo \subseteq Copies /\ t.record \in Copies \cup {None}
  BY <1>1, PhaseFailsShape, TaskTyped DEF Left
<1>3. UNCHANGED <<disk, trashed, stores, launching, bounds>> /\ old' \subseteq old /\ UNCHANGED journals
  BY DEF PhaseFails
<1>4. EntryBase' /\ Copies' \subseteq Copies \cup {}
  BY <1>1, <1>2, <1>3, QuietBase, JournalsRest
<1> QED
  BY <1>4

LEMMA FinishBase ==
  ASSUME EntryBase, NEW k \in Workers, FinishRecord(k)
  PROVE  EntryBase' /\ Copies' \subseteq Copies
<1>1. PICK t \in Task : Goes(k, t) /\ TaskFollows(t) /\ Left(t, task[k], FALSE)
  BY FinishShape
<1>2. t.todo \subseteq Copies /\ t.record = None
  BY <1>1, FinishShape, TaskTyped DEF Left
<1>3. UNCHANGED <<disk, trashed, stores, launching, bounds>> /\ old' \subseteq old /\ JournalsGo({})
  BY FinishShape, JournalDeleted DEF FinishRecord
<1>4. EntryBase' /\ Copies' \subseteq Copies \cup {}
  BY <1>1, <1>2, <1>3, QuietBase
<1> QED
  BY <1>4

LEMMA ReplayedBase ==
  ASSUME EntryBase, NEW k \in Workers, Replayed(k)
  PROVE  EntryBase' /\ Copies' \subseteq Copies
<1>1. TasksGo({})
  <2>1. CASE task' = [task EXCEPT ![k] = None]
    BY <2>1, WorkerEnds
  <2>2. ASSUME NEW t \in Task, Goes(k, t), TaskFollows(t), t.todo = {}, t.record = None PROVE TasksGo({})
    BY <2>2, WorkerGoes
  <2> QED
    BY <2>1, <2>2, ReplayedShape
<1>2. JournalsGo({})
  BY JournalsRest DEF Replayed
<1>3. RestTyped' /\ FilesAreApart' /\ mutations' >= mutations
  BY ReplayedShape, EntryTyped, DiskRests DEF RestTyped, bounds, stores, Replayed
<1>4. EntryBase' /\ Copies' \subseteq Copies \cup {}
  BY <1>1, <1>2, <1>3, BaseKept
<1> QED
  BY <1>4

\* A file that is nowhere appears at a path.
LEMMA AppearsApart ==
  ASSUME EntryBase, NEW p \in Paths, NEW o \in Unborn, disk' = [disk EXCEPT ![p] = o], UNCHANGED trashed
  PROVE  FilesAreApart' /\ disk' \in [Paths -> Objects \cup {None}]
<1>1. disk \in [Paths -> Objects \cup {None}] /\ FilesAreApart /\ None \notin trashed
  BY EntryTyped DEF EntryBase, RestTyped
<1>2. o \in Objects /\ o \notin trashed /\ \A q \in Paths : disk[q] # o
  BY DEF Unborn
<1> QED
  BY <1>1, <1>2 DEF FilesAreApart

LEMMA CreateBase ==
  ASSUME EntryBase, NEW k \in Workers, Create(k)
  PROVE  EntryBase' /\ Copies' \subseteq Copies
<1>1. task[k] # None /\ task[k].kind = "create" /\ task[k].from \in Paths
  BY TaskTyped DEF Create, Doing, TaskFollows
<1>2. PICK o \in Unborn : disk' = [disk EXCEPT ![task[k].from] = o] /\ rows' = [rows EXCEPT ![task[k].from] = o]
  BY DEF Create
<1>3. TasksGo({})
  BY WorkerEnds DEF Create, Ended
<1>4. JournalsGo({})
  BY JournalsRest DEF Create
<1>5. o \in Objects
  BY DEF Unborn
<1>6. UNCHANGED <<trashed, snaps, located, old, launching, bounds>>
  BY DEF Create
<1>7. RestTyped' /\ FilesAreApart' /\ mutations' >= mutations
  <2>1. FilesAreApart' /\ disk' \in [Paths -> Objects \cup {None}]
    BY <1>1, <1>2, <1>6, AppearsApart
  <2>2. rows' \in [Paths -> Objects \cup {None}]
    BY <1>1, <1>2, <1>5, EntryTyped DEF RestTyped
  <2> QED
    BY <1>6, <2>1, <2>2, EntryTyped DEF RestTyped, bounds
<1>8. EntryBase' /\ Copies' \subseteq Copies \cup {}
  BY <1>3, <1>4, <1>7, BaseKept
<1> QED
  BY <1>8

LEMMA PrepareBase ==
  ASSUME EntryBase, NEW k \in Workers, Prepare(k), NEW r, r = task'[k].record
  PROVE  EntryBase' /\ Copies' \subseteq Copies \cup {r}
<1>1. PICK t \in Task, s \in Record :
              /\ Goes(k, t) /\ TaskFollows(t) /\ t.todo = {} /\ t.record = s /\ SaveJournal(s) /\ (Numbered(s))'
  BY PrepareShape
<1>2. task'[k] = t /\ r = s
  BY <1>1, EntryTyped DEF Goes
<1>3. TasksGo({s}) /\ JournalsGo({s})
  BY <1>1, WorkerGoes, JournalSaved
<1>4. UNCHANGED <<disk, trashed, stores, old, launching, external, crashes>> /\ mutations' = mutations + 1 /\ mutations' \in 0..MaxMutations
  BY PrepareShape DEF Prepare
<1>5. RestTyped' /\ FilesAreApart' /\ mutations' >= mutations
  BY <1>4, EntryTyped, DiskRests DEF RestTyped, stores
<1> QED
  BY <1>1, <1>2, <1>3, <1>5, BaseKept

LEMMA EndsBase ==
  ASSUME EntryBase, NEW k \in Workers, Ended(k), JournalsGo({}), UNCHANGED <<disk, trashed, stores, old, launching, bounds>>
  PROVE  EntryBase' /\ Copies' \subseteq Copies
<1>1. TasksGo({})
  BY WorkerEnds DEF Ended
<1>2. RestTyped' /\ FilesAreApart' /\ mutations' >= mutations
  BY RestKept
<1>3. EntryBase' /\ Copies' \subseteq Copies \cup {}
  BY <1>1, <1>2, BaseKept
<1> QED
  BY <1>3

LEMMA RefuseBase ==
  ASSUME EntryBase, NEW k \in Workers, Refuse(k)
  PROVE  EntryBase' /\ Copies' \subseteq Copies
BY EndsBase, JournalsRest DEF Refuse

LEMMA CommitFailsBase ==
  ASSUME EntryBase, NEW k \in Workers, CommitFails(k)
  PROVE  EntryBase' /\ Copies' \subseteq Copies
BY EndsBase, JournalDeleted DEF CommitFails

LEMMA CommitBase ==
  ASSUME EntryBase, NEW k \in Workers, Commit(k), NEW r, r = task[k].record
  PROVE  EntryBase' /\ r \in Copies /\ Copies' \subseteq Copies \cup {[r EXCEPT !.committed = TRUE]}
<1> DEFINE s == [r EXCEPT !.committed = TRUE]
<1>1. task[k] # None /\ r \in Copies /\ r \in Record /\ disk[r.from] # None
  BY CommitShape
<1>2. PICK t \in Task : Goes(k, t) /\ TaskFollows(t) /\ t.todo = {} /\ t.record = s
  BY CommitShape
<1>3. UNCHANGED <<stores, journals, old, launching, bounds>> /\ mutations' = mutations
  BY DEF Commit, bounds
<1>4. Descends(s, r) /\ s.committed
  BY <1>1 DEF Descends, Record
<1>5. s \in Record /\ (Numbered(s))'
  BY <1>1, <1>3, <1>4, DescendantsAreNumbered
<1>6. TasksGo({s}) /\ JournalsGo({s})
  BY <1>2, <1>3, <1>5, WorkerGoes, JournalsRest
<1>7. r.from \in Paths /\ (r.kind = "rename" => r.to \in Paths \ {r.from}) /\ disk \in [Paths -> Objects \cup {None}]
      /\ FilesAreApart /\ trashed \subseteq Objects /\ None \notin Objects
  BY <1>1, EntryTyped DEF EntryBase, Numbered, Record, RestTyped
<1>8. FilesAreApart' /\ disk' \in [Paths -> Objects \cup {None}] /\ trashed' \subseteq Objects
  <2>1. CASE r.kind = "rename" /\ disk' = [disk EXCEPT ![r.to] = disk[r.from], ![r.from] = None] /\ UNCHANGED trashed
    BY <1>7, <2>1 DEF FilesAreApart
  <2>2. CASE disk' = [disk EXCEPT ![r.from] = None] /\ trashed' = trashed \cup {disk[r.from]}
    BY <1>1, <1>7, <2>2 DEF FilesAreApart
  <2> QED
    BY <2>1, <2>2 DEF Commit
<1>9. RestTyped' /\ mutations' >= mutations
  BY <1>3, <1>8, EntryTyped DEF RestTyped, stores, bounds
<1>10. EntryBase' /\ Copies' \subseteq Copies \cup {s}
  BY <1>5, <1>6, <1>8, <1>9, BaseKept
<1> QED
  BY <1>1, <1>10

LEMMA MarkBase ==
  ASSUME EntryBase, NEW k \in Workers, MarkCommitted(k)
  PROVE  EntryBase' /\ Copies' \subseteq Copies
<1>1. task[k].record \in Copies /\ ((SaveJournal(task[k].record) /\ old' = old \ {task[k].record.id}) \/ UNCHANGED <<journals, old>>)
  BY MarkShape
<1>2. PICK t \in Task : Goes(k, t) /\ TaskFollows(t) /\ t.todo = {} /\ t.record = task[k].record
  BY MarkShape
<1>3. JournalsGo({}) /\ old' \subseteq old
  BY <1>1, JournalsRest, JournalSaved
<1>4. UNCHANGED <<disk, trashed, stores, launching, bounds>>
  BY DEF MarkCommitted
<1>5. EntryBase' /\ Copies' \subseteq Copies \cup {}
  BY <1>1, <1>2, <1>3, <1>4, QuietBase
<1> QED
  BY <1>5

LEMMA TasksRest ==
  ASSUME EntryBase, UNCHANGED <<task, journals>>
  PROVE  TasksGo({}) /\ JournalsGo({})
BY EntryTyped, JournalsRest DEF TasksGo

LEMMA DraftBase ==
  ASSUME EntryBase, NEW p \in Paths, SaveDraft(p)
  PROVE  EntryBase' /\ Copies' \subseteq Copies
<1>1. UNCHANGED <<disk, trashed, journals, old, task, launching, bounds>>
  BY DEF SaveDraft
<1>2. RestTyped' /\ FilesAreApart' /\ mutations' >= mutations
  <2>1. disk[p] \in Objects
    BY EntryTyped DEF SaveDraft, RestTyped
  <2> QED
    BY <1>1, <2>1, EntryTyped, DiskRests DEF RestTyped, bounds, SaveDraft
<1>3. EntryBase' /\ Copies' \subseteq Copies \cup {}
  BY <1>1, <1>2, TasksRest, BaseKept
<1> QED
  BY <1>3

LEMMA PutBase ==
  ASSUME EntryBase, NEW p \in Paths, ExternalPut(p)
  PROVE  EntryBase' /\ Copies' \subseteq Copies
<1>1. UNCHANGED <<trashed, stores, journals, old, task, launching, mutations, crashes>>
  BY DEF ExternalPut
<1>2. FilesAreApart' /\ disk' \in [Paths -> Objects \cup {None}]
  BY <1>1, AppearsApart DEF ExternalPut
<1>3. RestTyped' /\ mutations' >= mutations
  BY <1>1, <1>2, EntryTyped, BoundsAssumption DEF RestTyped, stores, ExternalPut
<1>4. EntryBase' /\ Copies' \subseteq Copies \cup {}
  BY <1>1, <1>2, <1>3, TasksRest, BaseKept
<1> QED
  BY <1>4

LEMMA AgesBase ==
  ASSUME EntryBase, JournalAges
  PROVE  EntryBase' /\ Copies' \subseteq Copies
<1>1. UNCHANGED <<disk, trashed, stores, journals, task, launching, bounds>>
  BY DEF JournalAges
<1>2. old' \subseteq Ids
  BY EntryTyped, CopiesAre DEF JournalAges, RestTyped, Record
<1>3. RestTyped' /\ FilesAreApart' /\ mutations' >= mutations
  BY <1>1, <1>2, EntryTyped, DiskRests DEF RestTyped, stores, bounds
<1>4. EntryBase' /\ Copies' \subseteq Copies \cup {}
  BY <1>1, <1>3, TasksRest, BaseKept
<1> QED
  BY <1>4

LEMMA CrashBase ==
  ASSUME EntryBase, Crash
  PROVE  EntryBase' /\ Copies' \subseteq Copies
<1>1. TasksGo({})
  BY CrashShape, CopiesAre DEF TasksGo, NewTask
<1>2. JournalsGo({})
  BY JournalsRest DEF Crash
<1>3. RestTyped' /\ FilesAreApart' /\ mutations' >= mutations
  BY EntryTyped, DiskRests, BoundsAssumption DEF RestTyped, stores, Crash
<1>4. EntryBase' /\ Copies' \subseteq Copies \cup {}
  BY <1>1, <1>2, <1>3, BaseKept
<1> QED
  BY <1>4

\* A step that leaves the disk alone and ends at most some command's mutation.
StillActing ==
  \A j \in Workers : (Doing(j, "act") /\ Written(j))' =>
      Doing(j, "act") /\ Written(j) /\ task'[j].record = task[j].record
Calm(New) ==
  /\ UNCHANGED <<disk, trashed, mutations>>
  /\ Copies' \subseteq Copies \cup New /\ StillActing
  /\ \A c \in New : \E d \in Copies : Descends(c, d) /\ (d.committed \/ ~c.committed \/ c.kind = "rename")

LEMMA GoesCalmly ==
  ASSUME EntryBase, NEW k \in Workers, NEW t \in Task, Goes(k, t), t.step # "act" \/ t.record = None
  PROVE  StillActing
BY EntryTyped DEF StillActing, Goes, Doing, Written

LEMMA EndsCalmly ==
  ASSUME EntryBase, NEW k \in Workers, task' = [task EXCEPT ![k] = None]
  PROVE  StillActing
BY EntryTyped DEF StillActing, Doing, Written

LEMMA RestsCalmly ==
  ASSUME UNCHANGED task
  PROVE  StillActing
BY DEF StillActing, Doing, Written

LEMMA CommandCalm ==
  ASSUME EntryBase, NEW k \in Workers, Command(k)
  PROVE  Calm({})
BY CommandShape, CommandBase, GoesCalmly DEF Calm, Command, bounds, NewTask

LEMMA ListCalm ==
  ASSUME EntryBase, NEW k \in Workers, List(k)
  PROVE  Calm({})
BY ListShape, ListBase, GoesCalmly DEF Calm, List, bounds, NewTask

LEMMA TakeCalm ==
  ASSUME EntryBase, NEW k \in Workers, Take(k)
  PROVE  Calm({})
BY TakeShape, TakeBase, GoesCalmly DEF Calm, Take, bounds

LEMMA ObservedCalm ==
  ASSUME EntryBase, NEW k \in Workers, FilesystemCommitObserved(k), NEW r, r = task[k].record
  PROVE  Calm({}) \/ (~r.committed /\ RenameCommitProven(r) /\ Calm({[r EXCEPT !.committed = TRUE]}))
<1>0. \E t \in Task : /\ Goes(k, t)
                      /\ \/ Goesto(t, task[k], r) \/ Goesto(t, task[k], [r EXCEPT !.committed = TRUE])
                         \/ Left(t, task[k], FALSE) \/ Left(t, task[k], TRUE)
  BY ObservedShape
<1>1. r \in Copies /\ r \in Record /\ \E t \in Task : Goes(k, t) /\ t.step # "act"
  BY <1>0, ObservedShape DEF Goesto, Left
<1>2. StillActing /\ UNCHANGED <<disk, trashed, mutations>>
  BY <1>1, GoesCalmly DEF FilesystemCommitObserved, bounds
<1>3. RenameCommitProven(r) => Descends([r EXCEPT !.committed = TRUE], r) /\ [r EXCEPT !.committed = TRUE].kind = "rename"
  BY <1>1 DEF Descends, RenameCommitProven, Record
<1> QED
  BY <1>1, <1>2, <1>3, ObservedBase DEF Calm

LEMMA ApplyCalm ==
  ASSUME EntryBase, NEW k \in Workers, Apply(k)
  PROVE  Calm({})
BY ApplyShape, ApplyBase, GoesCalmly DEF Calm, Apply, bounds

LEMMA SaveCalm ==
  ASSUME EntryBase, NEW k \in Workers, SavePhase(k), NEW r, r = [task[k].record EXCEPT !.applied = @ \cup {task[k].phase}]
  PROVE  Calm({r})
<1>1. \E t \in Task : Goes(k, t) /\ t.step # "act"
  BY SaveShape DEF Goesto, Left
<1>2. StillActing /\ UNCHANGED <<disk, trashed, mutations>>
  BY <1>1, GoesCalmly DEF SavePhase, bounds
<1> QED
  BY <1>2, SaveBase DEF Calm

LEMMA PhaseFailsCalm ==
  ASSUME EntryBase, NEW k \in Workers, PhaseFails(k)
  PROVE  Calm({})
<1>1. \E t \in Task : Goes(k, t) /\ t.step # "act"
  BY PhaseFailsShape DEF Left
<1> QED
  BY <1>1, PhaseFailsBase, GoesCalmly DEF Calm, PhaseFails, bounds

LEMMA FinishCalm ==
  ASSUME EntryBase, NEW k \in Workers, FinishRecord(k)
  PROVE  Calm({})
<1>1. \E t \in Task : Goes(k, t) /\ t.step # "act"
  BY FinishShape DEF Left
<1> QED
  BY <1>1, FinishBase, GoesCalmly DEF Calm, FinishRecord, bounds

LEMMA ReplayedCalm ==
  ASSUME EntryBase, NEW k \in Workers, Replayed(k)
  PROVE  Calm({})
<1>1. StillActing
  BY ReplayedShape, GoesCalmly, EndsCalmly
<1> QED
  BY <1>1, ReplayedBase DEF Calm, Replayed, bounds

LEMMA RefuseCalm ==
  ASSUME EntryBase, NEW k \in Workers, Refuse(k)
  PROVE  Calm({})
BY RefuseBase, EndsCalmly DEF Calm, Refuse, Ended, bounds

LEMMA CommitFailsCalm ==
  ASSUME EntryBase, NEW k \in Workers, CommitFails(k)
  PROVE  Calm({})
BY CommitFailsBase, EndsCalmly DEF Calm, CommitFails, Ended, bounds

LEMMA MarkCalm ==
  ASSUME EntryBase, NEW k \in Workers, MarkCommitted(k)
  PROVE  Calm({})
<1>1. \E t \in Task : Goes(k, t) /\ t.step # "act"
  BY MarkShape
<1> QED
  BY <1>1, MarkBase, GoesCalmly DEF Calm, MarkCommitted, bounds

LEMMA DraftCalm ==
  ASSUME EntryBase, NEW p \in Paths, SaveDraft(p)
  PROVE  Calm({})
BY DraftBase, RestsCalmly DEF Calm, SaveDraft, bounds

LEMMA AgesCalm ==
  ASSUME EntryBase, JournalAges
  PROVE  Calm({})
BY AgesBase, RestsCalmly DEF Calm, JournalAges, bounds

LEMMA CrashCalm ==
  ASSUME EntryBase, Crash
  PROVE  Calm({})
<1>1. \A j \in Workers : task'[j] # None => task'[j].step = "replay"
  BY CrashShape DEF NewTask
<1>2. StillActing
  BY <1>1 DEF StillActing, Doing
<1> QED
  BY <1>2, CrashBase DEF Calm, Crash

LEMMA CalmGone ==
  ASSUME EntryBase, GoneInv, NEW New, Calm(New)
  PROVE  GoneInv'
<1>1. ASSUME NEW c \in Copies' PROVE (Gone(c))'
  <2>1. CASE c \in Copies
    BY <2>1 DEF Calm, GoneInv, Gone
  <2>2. CASE c \in New
    <3>1. PICK d \in Copies : Descends(c, d) /\ (d.committed \/ ~c.committed \/ c.kind = "rename")
      BY <2>2 DEF Calm
    <3>2. Gone(d) /\ UNCHANGED disk
      BY DEF GoneInv, Calm
    <3> QED
      BY <3>1, <3>2 DEF Gone, Descends
  <2> QED
    BY <2>1, <2>2 DEF Calm
<1>2. ASSUME NEW k \in Workers, Acting(k)' PROVE \A p \in Paths \ {task'[k].record.from} : disk'[p] # task'[k].record.object
  <2>1. Acting(k) /\ task'[k].record = task[k].record
    BY <1>2 DEF Acting, Calm, StillActing
  <2> QED
    BY <2>1 DEF Calm, GoneInv
<1> QED
  BY <1>1, <1>2 DEF GoneInv

\* Nothing that a record is about is born.
LEMMA BornGone ==
  ASSUME EntryBase, GoneInv, NEW p \in Paths, NEW o \in Objects, disk' = [disk EXCEPT ![p] = o], Copies' \subseteq Copies, StillActing,
         \A c \in Copies : c.committed /\ c.kind = "delete" => c.object # o,
         \A k \in Workers : Acting(k) => task[k].record.object # o
  PROVE  GoneInv'
<1>1. \A q \in Paths : disk'[q] \in {disk[q], o}
  BY EntryTyped DEF RestTyped
<1>2. ASSUME NEW c \in Copies' PROVE (Gone(c))'
  BY <1>1 DEF GoneInv, Gone
<1>3. ASSUME NEW k \in Workers, Acting(k)' PROVE \A q \in Paths \ {task'[k].record.from} : disk'[q] # task'[k].record.object
  <2>1. Acting(k) /\ task'[k].record = task[k].record
    BY <1>3 DEF Acting, StillActing
  <2> QED
    BY <1>1, <2>1 DEF GoneInv
<1> QED
  BY <1>2, <1>3 DEF GoneInv

LEMMA NotReborn ==
  ASSUME NEW c, c.object \in trashed \/ (\E p \in Paths : disk[p] = c.object) \/ \E r \in Journals : r.object = c.object,
         NEW o \in Unborn
  PROVE  c.object # o
BY DEF Unborn

\* One by one: only k runs after a step of k.
LEMMA AloneTurns ==
  ASSUME EntryBase, NEW k \in Workers, NEW t \in Task, Goes(k, t), (\A i, j \in Running : i = j)', (HandsAreCurrent(t))'
  PROVE  TakenInTurn'
<1>1. task'[k] = t /\ k \in Running'
  BY EntryTyped DEF Goes, Running
<1>2. \A j \in Running' : j = k
  BY <1>1
<1>3. \A j \in Running' : HandsAreCurrent(task[j])'
  BY <1>1, <1>2 DEF HandsAreCurrent, Current
<1> QED
  BY <1>3 DEF TakenInTurn

LEMMA NoneTurns ==
  ASSUME EntryBase, TakenInTurn, NEW k \in Running, task' = [task EXCEPT ![k] = None]
  PROVE  TakenInTurn'
<1>1. Running' = {}
  BY EntryTyped DEF Running, TakenInTurn
<1> QED
  BY <1>1 DEF TakenInTurn

LEMMA RestTurns ==
  ASSUME EntryBase, TakenInTurn, UNCHANGED <<task, journals>>
  PROVE  TakenInTurn'
BY DEF TakenInTurn, Running, HandsAreCurrent, Current

LEMMA JournalsCurrent ==
  ASSUME EntryBase
  PROVE  \A c \in Journals : journals[c.id] = c /\ c \in Record
BY EntryTyped DEF Journals

LEMMA CommandTurn ==
  ASSUME EntryBase, TakenInTurn, NEW k \in Workers, Command(k) \/ List(k), (\A i, j \in Running : i = j)'
  PROVE  TakenInTurn'
<1>1. PICK t \in Task : Goes(k, t) /\ t.todo = Journals /\ t.record = None
  BY CommandShape, ListShape DEF NewTask
<1>2. UNCHANGED journals
  BY DEF Command, List
<1>3. (HandsAreCurrent(t))'
  BY <1>1, <1>2, JournalsCurrent DEF HandsAreCurrent
<1> QED
  BY <1>1, <1>3, AloneTurns

LEMMA TurnOf ==
  ASSUME EntryBase, TakenInTurn, NEW k \in Workers, task[k] # None
  PROVE  HandsAreCurrent(task[k]) /\ k \in Running
BY DEF TakenInTurn, Running

LEMMA TakeTurn ==
  ASSUME EntryBase, TakenInTurn, NEW k \in Workers, Take(k), (\A i, j \in Running : i = j)'
  PROVE  TakenInTurn'
<1>1. task[k] # None /\ \E t \in Task : Goes(k, t) /\ t.record \in task[k].todo /\ t.todo = task[k].todo \ {t.record}
  BY TakeShape
<1>2. PICK t \in Task : Goes(k, t) /\ t.record \in task[k].todo /\ t.todo = task[k].todo \ {t.record}
  BY <1>1
<1>3. UNCHANGED journals
  BY DEF Take
<1>4. \A c \in task[k].todo : journals[c.id] = c
  BY <1>1, TurnOf DEF HandsAreCurrent
<1>5. (HandsAreCurrent(t))'
  BY <1>2, <1>3, <1>4 DEF HandsAreCurrent, Current
<1> QED
  BY <1>2, <1>5, AloneTurns

\* The journal of the record in hand is written or deleted; the others rest.
LEMMA RecordTurn ==
  ASSUME EntryBase, TakenInTurn, NEW k \in Workers, task[k] # None, task[k].record # None, NEW t \in Task, Goes(k, t),
         t.todo = task[k].todo, (\A i, j \in Running : i = j)',
         \A i \in Ids : i # task[k].record.id => journals'[i] = journals[i],
         t.record # None => t.record.id = task[k].record.id /\ (Current(t.record))'
  PROVE  TakenInTurn'
<1>1. \A c \in task[k].todo : journals[c.id] = c /\ c.id # task[k].record.id /\ c.id \in Ids
  BY TurnOf, TaskTyped DEF HandsAreCurrent, Record
<1>2. (HandsAreCurrent(t))'
  BY <1>1 DEF HandsAreCurrent
<1> QED
  BY <1>2, AloneTurns

LEMMA SavedTurn ==
  ASSUME EntryBase, NEW r \in Record, SaveJournal(r)
  PROVE  (Current(r))' /\ \A i \in Ids : i # r.id => journals'[i] = journals[i]
BY EntryTyped DEF SaveJournal, Current, Record

LEMMA DeletedTurn ==
  ASSUME EntryBase, NEW r \in Record, DeleteJournal(r)
  PROVE  \A i \in Ids : i # r.id => journals'[i] = journals[i]
BY EntryTyped DEF DeleteJournal, Record

LEMMA ObservedTurn ==
  ASSUME EntryBase, TakenInTurn, NEW k \in Workers, FilesystemCommitObserved(k), (\A i, j \in Running : i = j)'
  PROVE  TakenInTurn'
<1>0. PICK r : r = task[k].record
  OBVIOUS
<1> DEFINE s == [r EXCEPT !.committed = TRUE]
<1>1. task[k] # None /\ r \in Record /\ task[k].record # None
  BY <1>0, ObservedShape, EntryTyped
<1>2. Current(r)
  BY <1>0, <1>1, TurnOf DEF HandsAreCurrent
<1>3. s \in Record /\ s.id = r.id
  BY <1>1 DEF Record
<1>4. PICK t \in Task :
              /\ Goes(k, t) /\ TaskFollows(t)
              /\ \/ r.committed /\ Goesto(t, task[k], r) /\ UNCHANGED <<journals, old>>
                 \/ /\ ~r.committed /\ RenameCommitProven(r) /\ Goesto(t, task[k], s)
                    /\ SaveJournal(s) /\ old' = old \ {r.id}
                 \/ /\ ~r.committed /\ ~RenameCommitProven(r) /\ SafeToDrop(r) /\ Left(t, task[k], FALSE) /\ UNCHANGED old
                    /\ IF r.id \in old /\ journals[r.id] # None THEN DeleteJournal(r) ELSE UNCHANGED journals
                 \/ /\ ~r.committed /\ ~RenameCommitProven(r) /\ ~SafeToDrop(r) /\ Left(t, task[k], TRUE)
                    /\ UNCHANGED <<journals, old>>
  BY <1>0, ObservedShape
<1>5. t.todo = task[k].todo /\ t.record \in {None, r, s}
  BY <1>4 DEF Goesto, Left
<1>6. \A i \in Ids : i # r.id => journals'[i] = journals[i]
  BY <1>1, <1>3, <1>4, SavedTurn, DeletedTurn
<1>7. t.record # None => t.record.id = r.id /\ (Current(t.record))'
  <2>1. CASE r.committed /\ Goesto(t, task[k], r) /\ UNCHANGED <<journals, old>>
    BY <1>2, <2>1 DEF Current, Goesto
  <2>2. CASE Goesto(t, task[k], s) /\ SaveJournal(s)
    BY <1>3, <2>2, SavedTurn DEF Goesto
  <2>3. CASE t.record = None
    BY <2>3
  <2> QED
    BY <1>4, <2>1, <2>2, <2>3 DEF Left
<1> QED
  BY <1>0, <1>1, <1>4, <1>5, <1>6, <1>7, RecordTurn

LEMMA ApplyTurn ==
  ASSUME EntryBase, TakenInTurn, NEW k \in Workers, Apply(k) \/ PhaseFails(k), (\A i, j \in Running : i = j)'
  PROVE  TakenInTurn'
<1>1. /\ task[k] # None /\ task[k].record \in Copies
      /\ \E t \in Task : Goes(k, t) /\ t.todo = task[k].todo /\ t.record \in {None, task[k].record}
  BY ApplyShape, PhaseFailsShape DEF Left
<1>2. PICK t \in Task : Goes(k, t) /\ t.todo = task[k].todo /\ t.record \in {None, task[k].record}
  BY <1>1
<1>3. UNCHANGED journals
  BY DEF Apply, PhaseFails
<1>4. HandsAreCurrent(task[k])
  BY <1>1, TurnOf
<1>5. (HandsAreCurrent(t))'
  BY <1>2, <1>3, <1>4 DEF HandsAreCurrent, Current
<1> QED
  BY <1>2, <1>5, AloneTurns

LEMMA SaveTurn ==
  ASSUME EntryBase, TakenInTurn, NEW k \in Workers, SavePhase(k), (\A i, j \in Running : i = j)'
  PROVE  TakenInTurn'
<1>0. PICK r : r = [task[k].record EXCEPT !.applied = @ \cup {task[k].phase}]
  OBVIOUS
<1>1. /\ task[k] # None /\ task[k].record \in Copies /\ r \in Record /\ SaveJournal(r)
      /\ \E t \in Task : Goes(k, t) /\ (Left(t, task[k], TRUE) \/ Goesto(t, task[k], r))
  BY <1>0, SaveShape
<1>2. PICK t \in Task : Goes(k, t) /\ (Left(t, task[k], TRUE) \/ Goesto(t, task[k], r))
  BY <1>1
<1>3. t.todo = task[k].todo /\ t.record \in {None, r}
  BY <1>2 DEF Left, Goesto
<1>4. task[k].record \in Record /\ task[k].record # None /\ r.id = task[k].record.id
  BY <1>0, <1>1, CopiesAre, EntryTyped DEF Record
<1>5. (Current(r))' /\ \A i \in Ids : i # r.id => journals'[i] = journals[i]
  BY <1>1, SavedTurn
<1> QED
  BY <1>1, <1>2, <1>3, <1>4, <1>5, RecordTurn

LEMMA FinishTurn ==
  ASSUME EntryBase, TakenInTurn, NEW k \in Workers, FinishRecord(k), (\A i, j \in Running : i = j)'
  PROVE  TakenInTurn'
<1>1. /\ task[k] # None /\ task[k].record \in Copies /\ DeleteJournal(task[k].record)
      /\ \E t \in Task : Goes(k, t) /\ t.todo = task[k].todo /\ t.record = None
  BY FinishShape DEF Left
<1>2. PICK t \in Task : Goes(k, t) /\ t.todo = task[k].todo /\ t.record = None
  BY <1>1
<1>3. task[k].record \in Record /\ task[k].record # None
  BY <1>1, CopiesAre, EntryTyped
<1>4. \A i \in Ids : i # task[k].record.id => journals'[i] = journals[i]
  BY <1>1, <1>3, DeletedTurn
<1> QED
  BY <1>1, <1>2, <1>3, <1>4, RecordTurn

LEMMA ReplayedTurn ==
  ASSUME EntryBase, TakenInTurn, NEW k \in Workers, Replayed(k), (\A i, j \in Running : i = j)'
  PROVE  TakenInTurn'
<1>1. k \in Running
  BY ReplayedShape DEF Running
<1>2. CASE task' = [task EXCEPT ![k] = None]
  BY <1>1, <1>2, NoneTurns
<1>3. ASSUME NEW t \in Task, Goes(k, t), t.todo = {}, t.record = None PROVE TakenInTurn'
  BY <1>3, AloneTurns DEF HandsAreCurrent
<1> QED
  BY <1>2, <1>3, ReplayedShape

LEMMA EndTurn ==
  ASSUME EntryBase, TakenInTurn, NEW k \in Workers, Create(k) \/ Refuse(k) \/ CommitFails(k)
  PROVE  TakenInTurn'
BY NoneTurns DEF Create, Refuse, CommitFails, Ended, Running, Doing

LEMMA PrepareTurn ==
  ASSUME EntryBase, TakenInTurn, NEW k \in Workers, Prepare(k), (\A i, j \in Running : i = j)'
  PROVE  TakenInTurn'
<1>1. PICK t \in Task, r \in Record : Goes(k, t) /\ t.todo = {} /\ t.record = r /\ SaveJournal(r)
  BY PrepareShape
<1>2. (Current(r))'
  BY <1>1, SavedTurn
<1> QED
  BY <1>1, <1>2, AloneTurns DEF HandsAreCurrent

LEMMA CommitTurn ==
  ASSUME EntryBase, TakenInTurn, NEW k \in Workers, Commit(k), (\A i, j \in Running : i = j)'
  PROVE  TakenInTurn'
<1>0. PICK r : r = task[k].record
  OBVIOUS
<1>1. /\ task[k] # None /\ Acting(k) /\ r \in Record /\ r # None
      /\ \E t \in Task : Goes(k, t) /\ t.todo = {} /\ t.record = [r EXCEPT !.committed = TRUE]
  BY <1>0, CommitShape, EntryTyped
<1>2. PICK t \in Task : Goes(k, t) /\ t.todo = {} /\ t.record = [r EXCEPT !.committed = TRUE]
  BY <1>1
<1>3. UNCHANGED journals
  BY DEF Commit
<1>4. Current(r) /\ ~r.committed
  BY <1>0, <1>1, TurnOf DEF HandsAreCurrent, Acting
<1>5. [r EXCEPT !.committed = FALSE] = r /\ [t.record EXCEPT !.committed = FALSE] = r /\ t.record.id = r.id
  <2>1. r.committed = FALSE
    BY <1>1, <1>4 DEF Record
  <2>2. [r EXCEPT !.committed = FALSE] = r
    BY <1>1, <2>1 DEF Record
  <2>3. [[r EXCEPT !.committed = TRUE] EXCEPT !.committed = FALSE] = [r EXCEPT !.committed = FALSE]
    BY <1>1 DEF Record
  <2>4. [r EXCEPT !.committed = TRUE].id = r.id
    BY <1>1 DEF Record
  <2> QED
    BY <1>2, <2>2, <2>3, <2>4
<1>6. journals'[t.record.id] = [t.record EXCEPT !.committed = FALSE]
  BY <1>3, <1>4, <1>5 DEF Current
<1>7. (HandsAreCurrent(t))'
  BY <1>2, <1>6 DEF HandsAreCurrent, Current
<1> QED
  BY <1>2, <1>7, AloneTurns

LEMMA MarkTurn ==
  ASSUME EntryBase, TakenInTurn, NEW k \in Workers, MarkCommitted(k), (\A i, j \in Running : i = j)'
  PROVE  TakenInTurn'
<1>0. PICK r : r = task[k].record
  OBVIOUS
<1>1. /\ task[k] # None /\ r \in Copies /\ r \in Record /\ r # None
      /\ (SaveJournal(r) \/ UNCHANGED journals)
      /\ \E t \in Task : Goes(k, t) /\ t.todo = {} /\ t.record = r
  BY <1>0, MarkShape, CopiesAre, EntryTyped
<1>2. PICK t \in Task : Goes(k, t) /\ t.todo = {} /\ t.record = r
  BY <1>1
<1>3. Current(r)
  BY <1>0, <1>1, TurnOf DEF HandsAreCurrent
<1>4. (Current(r))'
  BY <1>1, <1>3, SavedTurn DEF Current
<1>5. (HandsAreCurrent(t))'
  BY <1>2, <1>4 DEF HandsAreCurrent
<1> QED
  BY <1>2, <1>5, AloneTurns

LEMMA CrashTurn ==
  ASSUME EntryBase, Crash
  PROVE  TakenInTurn'
<1>1. UNCHANGED journals
  BY DEF Crash
<1>2. PICK k \in Workers : /\ task'[k] \in Task /\ NewTask(task'[k], "launch", None, None)
                           /\ \A j \in Workers \ {k} : task'[j] = None
  BY CrashShape
<1>3. \A j \in Running' : j = k
  BY <1>2 DEF Running
<1>4. \A c \in task'[k].todo : journals'[c.id] = c /\ task'[k].record = None
  BY <1>1, <1>2, JournalsCurrent DEF NewTask
<1>5. HandsAreCurrent(task[k])'
  BY <1>2, <1>4 DEF HandsAreCurrent, NewTask
<1> QED
  BY <1>3, <1>5 DEF TakenInTurn

LEMMA Remembered ==
  ASSUME SettingsInv
  PROVE  /\ \A c \in Copies : c.committed /\ c.kind = "delete" =>
              c.object \in trashed \/ (\E p \in Paths : disk[p] = c.object) \/ \E r \in Journals : r.object = c.object
         /\ \A k \in Workers : Acting(k) =>
              \/ task[k].record.object \in trashed \/ (\E p \in Paths : disk[p] = task[k].record.object)
              \/ \E r \in Journals : r.object = task[k].record.object
<1>1. EntryBase
  BY DEF SettingsInv
<1>2. ASSUME NEW k \in Workers, Acting(k) PROVE task[k] # None /\ task[k].record \in Copies /\ task[k].record # None
  BY <1>1, <1>2, TaskTyped DEF Acting, Doing, Written
<1>3. CASE setting = "one by one"
  <2>1. TakenInTurn
    BY <1>3 DEF SettingsInv
  <2>2. ASSUME NEW c \in Record, Current(c) \/ journals[c.id] = c PROVE \E r \in Journals : r.object = c.object
    <3>1. c.id \in Ids
      BY DEF Record
    <3>2. journals[c.id] \in Record /\ journals[c.id].object = c.object
      BY <2>2 DEF Current, Record
    <3>3. journals[c.id] \in Journals
      BY <1>1, <3>1, <3>2, EntryTyped DEF Journals
    <3> QED
      BY <3>2, <3>3
  <2>3. ASSUME NEW c \in Copies PROVE \E r \in Journals : r.object = c.object
    <3>1. CASE c \in Journals
      BY <3>1
    <3>2. CASE \E k \in Workers : task[k] # None /\ (c \in task[k].todo \/ (c = task[k].record /\ c # None))
      <4>1. PICK k \in Workers : task[k] # None /\ (c \in task[k].todo \/ (c = task[k].record /\ c # None))
        BY <3>2
      <4>2. HandsAreCurrent(task[k]) /\ c \in Record
        BY <1>1, <2>1, <4>1, TurnOf, CopiesAre
      <4> QED
        BY <2>2, <4>1, <4>2 DEF HandsAreCurrent
    <3> QED
      BY <1>1, <3>1, <3>2, CopiesAre
  <2> QED
    BY <1>2, <2>3
<1>4. CASE setting = "at once"
  <2>1. One
    BY <1>4 DEF SettingsInv, AtOnceInv
  <2>2. ASSUME NEW k \in Workers, Acting(k) PROVE \E p \in Paths : disk[p] = task[k].record.object
    <3>1. task[k].record.from \in Paths
      BY <1>1, <1>2, <2>2, CopiesAre DEF Record
    <3> QED
      BY <2>1, <2>2, <3>1 DEF One
  <2> QED
    BY <2>1, <2>2 DEF One
<1> QED
  BY <1>3, <1>4 DEF SettingsInv

LEMMA UnbornIsNew ==
  ASSUME SettingsInv, NEW o \in Unborn
  PROVE  /\ o \in Objects
         /\ \A c \in Copies : c.committed /\ c.kind = "delete" => c.object # o
         /\ \A k \in Workers : Acting(k) => task[k].record.object # o
BY Remembered, NotReborn DEF Unborn

LEMMA ActsAlone ==
  ASSUME SettingsInv, NEW j \in Workers, NEW k \in Workers, Doing(j, "act"), Written(j), Doing(k, "act"), Written(k)
  PROVE  j = k
<1>1. CASE setting = "one by one"
  BY <1>1 DEF SettingsInv, TakenInTurn, Running, Doing
<1>2. CASE setting = "at once"
  BY <1>2 DEF SettingsInv, AtOnceInv, One
<1> QED
  BY <1>1, <1>2 DEF SettingsInv

LEMMA CreateGone ==
  ASSUME SettingsInv, NEW k \in Workers, Create(k)
  PROVE  GoneInv'
<1>1. EntryBase /\ GoneInv
  BY DEF SettingsInv
<1>2. task[k] # None /\ task[k].from \in Paths
  BY <1>1, TaskTyped DEF Create, Doing, TaskFollows
<1>3. PICK o \in Unborn : disk' = [disk EXCEPT ![task[k].from] = o]
  BY DEF Create
<1>4. StillActing
  BY <1>1, EndsCalmly DEF Create, Ended
<1> QED
  BY <1>1, <1>2, <1>3, <1>4, UnbornIsNew, CreateBase, BornGone

LEMMA PutGone ==
  ASSUME SettingsInv, NEW p \in Paths, ExternalPut(p)
  PROVE  GoneInv'
<1>1. EntryBase /\ GoneInv
  BY DEF SettingsInv
<1>3. PICK o \in Unborn : disk' = [disk EXCEPT ![p] = o]
  BY DEF ExternalPut
<1>4. StillActing
  BY RestsCalmly DEF ExternalPut
<1> QED
  BY <1>1, <1>3, <1>4, UnbornIsNew, PutBase, BornGone

LEMMA PrepareGone ==
  ASSUME EntryBase, GoneInv, NEW k \in Workers, Prepare(k)
  PROVE  GoneInv'
<1>1. PICK t \in Task, r \in Record :
         Goes(k, t) /\ t.record = r /\ r.object = disk[r.from] /\ ~r.committed /\ r.object # None
  BY PrepareShape
<1>2. task'[k] = t /\ \A j \in Workers \ {k} : task'[j] = task[j]
  BY <1>1, EntryTyped DEF Goes
<1>3. UNCHANGED disk /\ r.from \in Paths
  BY DEF Prepare, Record
<1>4. Copies' \subseteq Copies \cup {r}
  BY <1>1, <1>2, PrepareBase
<1>5. \A c \in Copies' : (Gone(c))'
  BY <1>1, <1>3, <1>4 DEF GoneInv, Gone
<1>6. ASSUME NEW j \in Workers, Acting(j)' PROVE \A p \in Paths \ {task'[j].record.from} : disk'[p] # task'[j].record.object
  <2>1. CASE j = k
    BY <1>1, <1>2, <1>3, <2>1 DEF EntryBase, FilesAreApart
  <2>2. CASE j # k
    <3>1. Acting(j) /\ task'[j] = task[j]
      BY <1>2, <1>6, <2>2 DEF Acting, Doing, Written
    <3> QED
      BY <1>3, <3>1 DEF GoneInv
  <2> QED
    BY <2>1, <2>2
<1> QED
  BY <1>5, <1>6 DEF GoneInv

LEMMA CommitGone ==
  ASSUME SettingsInv, NEW k \in Workers, Commit(k)
  PROVE  GoneInv'
<1>0. PICK r : r = task[k].record
  OBVIOUS
<1> DEFINE s == [r EXCEPT !.committed = TRUE]
<1>1. EntryBase /\ GoneInv
  BY DEF SettingsInv
<1>2. /\ Acting(k) /\ r \in Record /\ disk[r.from] # None
      /\ \E t \in Task : Goes(k, t) /\ t.record = s
  BY <1>0, <1>1, CommitShape
<1>3. PICK t \in Task : Goes(k, t) /\ t.record = s
  BY <1>2
<1>4. Copies' \subseteq Copies \cup {s}
  BY <1>0, <1>1, CommitBase
<1>5. /\ r.from \in Paths /\ (r.kind = "rename" => r.to \in Paths \ {r.from}) /\ disk \in [Paths -> Objects \cup {None}]
      /\ None \notin Objects /\ r.object \in Objects
  BY <1>0, <1>1, <1>2, EntryTyped, CommitBase DEF EntryBase, Numbered, Record, RestTyped
<1>6. \A p \in Paths : disk'[p] \in {None, disk[p]} \/ (r.kind = "rename" /\ p = r.to /\ disk'[p] = disk[r.from])
  BY <1>0, <1>5 DEF Commit
<1>7. r.kind = "delete" => \A p \in Paths : disk'[p] # r.object
  <2>1. r.kind = "delete" => disk' = [disk EXCEPT ![r.from] = None]
    BY <1>0 DEF Commit
  <2>2. \A p \in Paths \ {r.from} : disk[p] # r.object
    BY <1>0, <1>1, <1>2 DEF GoneInv
  <2> QED
    BY <1>5, <2>1, <2>2
<1>8. ASSUME NEW c \in Copies' PROVE (Gone(c))'
  <2>1. CASE c \in Copies
    <3>1. Gone(c) /\ (c.committed /\ c.kind = "delete" => c.object \in Objects)
      BY <1>1, <2>1, CopiesAre DEF GoneInv, Record
    <3> QED
      BY <1>5, <1>6, <3>1 DEF Gone
  <2>2. CASE c = s
    <3>1. s.kind = r.kind /\ s.object = r.object
      BY <1>2 DEF Record
    <3> QED
      BY <1>7, <2>2, <3>1 DEF Gone
  <2> QED
    BY <1>4, <2>1, <2>2
<1>9. ASSUME NEW j \in Workers, Acting(j)' PROVE FALSE
  <2>1. CASE j = k
    <3>1. task'[j] = t /\ s.committed
      BY <1>1, <1>2, <1>3, <2>1, EntryTyped DEF Goes, Record
    <3> QED
      BY <1>3, <1>9, <3>1 DEF Acting
  <2>2. CASE j # k
    <3>1. task'[j] = task[j]
      BY <1>1, <1>3, <2>2, EntryTyped DEF Goes
    <3>2. Acting(j)
      BY <1>9, <3>1 DEF Acting, Doing, Written
    <3> QED
      BY <1>2, <2>2, <3>2, ActsAlone DEF Acting
  <2> QED
    BY <2>1, <2>2
<1> QED
  BY <1>8, <1>9 DEF GoneInv

\* Two workers at once.  What a step owes to a command between its journal and its mutation,
\* and to a history that has not followed yet.
ActingHolds(New) ==
  (\E k \in Workers : Acting(k))' =>
     /\ Journals' # {} /\ \A c \in New : ~c.committed
     /\ \A j \in Workers : (~Doing(j, "apply") /\ ~Doing(j, "save"))'
ToldHolds(New) ==
  Told => /\ Journals' # {} /\ \A c \in New : "history" \notin c.applied
          /\ \A k \in Workers : (Doing(k, "save") => task[k].phase # "history")'

LEMMA CalmOne ==
  ASSUME EntryBase, One, NEW New, Calm(New), AtOnce
  PROVE  One'
<1>1. ASSUME NEW c \in Copies', c.committed, c.kind = "delete" PROVE c.object \in trashed'
  <2>1. CASE c \in Copies
    BY <1>1, <2>1 DEF Calm, One
  <2>2. CASE c \in New
    <3>1. PICK d \in Copies : Descends(c, d) /\ (d.committed \/ ~c.committed \/ c.kind = "rename")
      BY <2>2 DEF Calm
    <3>2. d.committed /\ d.kind = "delete" /\ d.object = c.object
      BY <1>1, <3>1 DEF Descends
    <3> QED
      BY <3>2 DEF One, Calm
  <2> QED
    BY <1>1, <2>1, <2>2 DEF Calm
<1>2. ASSUME NEW k \in Workers, Acting(k)' PROVE (disk[task[k].record.from] = task[k].record.object)'
  <2>1. Acting(k) /\ task'[k].record = task[k].record
    BY <1>2 DEF Acting, Calm, StillActing
  <2> QED
    BY <2>1 DEF One, Calm
<1>3. ASSUME NEW j \in Workers, NEW k \in Workers, (Doing(j, "act") /\ Written(j) /\ Doing(k, "act") /\ Written(k))' PROVE j = k
  BY <1>3 DEF One, Calm, StillActing
<1> QED
  BY <1>1, <1>2, <1>3 DEF One, AtOnce

LEMMA CalmAlike ==
  ASSUME EntryBase, Alike, NEW New, Calm(New), ActingHolds(New), \A o \in Objects : located'[o] # None => o = f
  PROVE  Alike'
<1>1. ASSUME NEW c \in Copies' PROVE \E d \in Copies : c.from = d.from /\ c.to = d.to /\ c.kind = d.kind /\ c.object = d.object
  <2>1. CASE c \in Copies
    BY <2>1
  <2>2. CASE c \in New
    BY <2>2 DEF Calm, Descends
  <2> QED
    BY <2>1, <2>2 DEF Calm
<1>2. \A c, d \in Copies' : c.from = d.from /\ c.to = d.to /\ c.kind = d.kind /\ c.object = f
  BY <1>1 DEF Alike
<1>3. ASSUME NEW k \in Workers, Acting(k)' PROVE \A c \in Copies' : ~c.committed
  <2>1. Acting(k)
    BY <1>3 DEF Acting, Calm, StillActing
  <2> QED
    BY <1>3, <2>1 DEF Alike, Calm, ActingHolds
<1>4. ASSUME NEW k \in Workers, Acting(k)' PROVE (Journals # {} /\ \A j \in Workers : ~Doing(j, "apply") /\ ~Doing(j, "save"))'
  BY <1>4 DEF ActingHolds
<1> QED
  BY <1>2, <1>3, <1>4 DEF Alike, Calm

LEMMA CalmComes ==
  ASSUME EntryBase, HistoryComes, NEW New, Calm(New), ToldHolds(New), UNCHANGED located, Alike
  PROVE  HistoryComes'
<1>1. CASE located[f] # None /\ Told
  <2>1. ASSUME NEW c \in Copies' PROVE c.from = located[f] /\ "history" \notin c.applied
    <3>1. CASE c \in Copies
      BY <1>1, <3>1 DEF Told
    <3>2. CASE c \in New
      <4>1. PICK d \in Copies : Descends(c, d)
        BY <3>2 DEF Calm
      <4> QED
        BY <1>1, <3>2, <4>1 DEF Told, ToldHolds, Descends
    <3> QED
      BY <3>1, <3>2 DEF Calm
  <2> QED
    BY <1>1, <2>1 DEF Told, ToldHolds, HistoryComes
<1>2. CASE located[f] # None => disk[located[f]] = f
  BY <1>2 DEF HistoryComes, Calm
<1> QED
  BY <1>1, <1>2 DEF HistoryComes

LEMMA CalmAtOnce ==
  ASSUME EntryBase, AtOnceInv, NEW New, Calm(New), AtOnce, ActingHolds(New), ToldHolds(New), UNCHANGED located
  PROVE  AtOnceInv'
BY CalmOne, CalmAlike, CalmComes DEF AtOnceInv, Alike

\* A step that applies nothing and deletes no journal.
Idly == \A j \in Workers : task'[j] = task[j] \/ task'[j] = None \/ task'[j].step \notin {"apply", "save"}
LEMMA IdlyHolds ==
  ASSUME AtOnceInv, Calm({}), Idly, UNCHANGED journals \/ Journals' # {}
  PROVE  ActingHolds({}) /\ ToldHolds({})
<1>1. Journals' = Journals \/ Journals' # {}
  BY DEF Journals
<1>2. \A j \in Workers : (Doing(j, "apply") \/ Doing(j, "save"))' => task'[j] = task[j] /\ (Doing(j, "apply") \/ Doing(j, "save"))
  BY DEF Idly, Doing
<1>3. ASSUME NEW k \in Workers, Acting(k)' PROVE Acting(k)
  BY <1>3 DEF Acting, Calm, StillActing
<1>4. ActingHolds({})
  <2>1. ASSUME NEW k \in Workers, Acting(k) PROVE Journals # {} /\ \A j \in Workers : ~Doing(j, "apply") /\ ~Doing(j, "save")
    BY <2>1 DEF AtOnceInv, Alike
  <2> QED
    BY <1>1, <1>2, <1>3, <2>1 DEF ActingHolds
<1>5. ToldHolds({})
  <2>1. ASSUME Told, NEW k \in Workers, Doing(k, "save")' PROVE task'[k].phase # "history"
    BY <2>1 DEF Told, Idly, Doing
  <2> QED
    BY <1>1, <2>1 DEF ToldHolds, Told
<1> QED
  BY <1>4, <1>5

LEMMA IdlyAtOnce ==
  ASSUME EntryBase, AtOnceInv, Calm({}), AtOnce, Idly, UNCHANGED journals \/ Journals' # {}, UNCHANGED located
  PROVE  AtOnceInv'
BY IdlyHolds, CalmAtOnce

LEMMA GoesIdly ==
  ASSUME EntryBase, NEW k \in Workers, NEW t \in Task, Goes(k, t), t.step \notin {"apply", "save"}
  PROVE  Idly
BY EntryTyped DEF Idly, Goes

LEMMA EndsIdly ==
  ASSUME EntryBase, NEW k \in Workers, task' = [task EXCEPT ![k] = None]
  PROVE  Idly
BY EntryTyped DEF Idly

LEMMA SavedJournalIs ==
  ASSUME EntryBase, NEW r \in Record, SaveJournal(r)
  PROVE  r \in Journals' /\ Journals' # {}
<1>1. r.id \in Ids /\ journals'[r.id] = r /\ r # None
  BY EntryTyped DEF SaveJournal, Record
<1> QED
  BY <1>1 DEF Journals

LEMMA CommandAtOnce ==
  ASSUME EntryBase, AtOnceInv, NEW k \in Workers, Command(k), AtOnce
  PROVE  AtOnceInv'
<1>1. \E t \in Task : Goes(k, t) /\ t.step = "replay"
  BY CommandShape DEF NewTask
<1> QED
  BY <1>1, GoesIdly, CommandCalm, IdlyAtOnce DEF Command, stores

LEMMA ListAtOnce ==
  ASSUME EntryBase, AtOnceInv, NEW k \in Workers, List(k), AtOnce
  PROVE  AtOnceInv'
<1>1. \E t \in Task : Goes(k, t) /\ t.step = "replay"
  BY ListShape DEF NewTask
<1> QED
  BY <1>1, GoesIdly, ListCalm, IdlyAtOnce DEF List, stores

LEMMA TakeAtOnce ==
  ASSUME EntryBase, AtOnceInv, NEW k \in Workers, Take(k), AtOnce
  PROVE  AtOnceInv'
<1>1. \E t \in Task : Goes(k, t) /\ t.step = "observe"
  BY TakeShape
<1> QED
  BY <1>1, GoesIdly, TakeCalm, IdlyAtOnce DEF Take, stores

LEMMA ReplayedAtOnce ==
  ASSUME EntryBase, AtOnceInv, NEW k \in Workers, Replayed(k), AtOnce
  PROVE  AtOnceInv'
<1>1. Idly
  BY ReplayedShape, GoesIdly, EndsIdly
<1> QED
  BY <1>1, ReplayedCalm, IdlyAtOnce DEF Replayed, stores

LEMMA RefuseAtOnce ==
  ASSUME EntryBase, AtOnceInv, NEW k \in Workers, Refuse(k), AtOnce
  PROVE  AtOnceInv'
BY EndsIdly, RefuseCalm, IdlyAtOnce DEF Refuse, stores, Ended

LEMMA MarkAtOnce ==
  ASSUME EntryBase, AtOnceInv, NEW k \in Workers, MarkCommitted(k), AtOnce
  PROVE  AtOnceInv'
<1>0. PICK r : r = task[k].record
  OBVIOUS
<1>1. /\ r \in Record /\ \E t \in Task : Goes(k, t) /\ t.step = "observe"
      /\ SaveJournal(r) \/ UNCHANGED journals
  BY <1>0, MarkShape, CopiesAre
<1> QED
  BY <1>1, SavedJournalIs, GoesIdly, MarkCalm, IdlyAtOnce DEF MarkCommitted, stores

\* While a command is between its journal and its mutation nothing is applied, nor found committed.
LEMMA NothingApplied ==
  ASSUME EntryBase, AtOnceInv, NEW k \in Workers, task[k] # None, task[k].step \in {"apply", "save"}, NEW New, Calm(New)
  PROVE  ActingHolds(New)
<1>1. \A j \in Workers : ~Acting(j)
  BY DEF AtOnceInv, Alike, Doing
<1>2. \A j \in Workers : Acting(j)' => Acting(j)
  BY DEF Acting, Calm, StillActing
<1> QED
  BY <1>1, <1>2 DEF ActingHolds

LEMMA PhaseFailsAtOnce ==
  ASSUME EntryBase, AtOnceInv, NEW k \in Workers, PhaseFails(k), AtOnce
  PROVE  AtOnceInv'
<1>1. task[k] # None /\ task[k].step \in {"apply", "save"} /\ \E t \in Task : Goes(k, t) /\ t.step # "save"
  BY PhaseFailsShape DEF PhaseFails, Doing, Left
<1>2. UNCHANGED <<located, journals>> /\ Calm({})
  BY PhaseFailsCalm DEF PhaseFails, stores
<1>3. \A j \in Workers : Doing(j, "save")' => Doing(j, "save") /\ task'[j] = task[j]
  BY <1>1, EntryTyped DEF Goes, Doing
<1>4. ToldHolds({})
  BY <1>2, <1>3 DEF ToldHolds, Told, Journals
<1> QED
  BY <1>1, <1>2, <1>4, NothingApplied, CalmAtOnce

\* The history follows: what was located at the old path is where the file is, or has ended.
LEMMA HistoryFollows ==
  ASSUME EntryBase, AtOnceInv, NEW r \in Copies, r.committed, ApplyHistory(r)
  PROVE  /\ \A o \in Objects : located'[o] # None => o = f
         /\ located'[f] # None => located'[f] \in Paths /\ (disk[located'[f]] = f \/ ~Told)
         /\ located'[f] # None /\ disk[located'[f]] # f => located'[f] = located[f]
<1>1. r \in Record /\ Numbered(r) /\ r.object = f /\ f \in Objects
  BY CopiesAre, FirstDrawing DEF EntryBase, AtOnceInv, Alike
<1>2. located \in [Objects -> Paths \cup {None}] /\ \A o \in Objects : located[o] # None => o = f
  BY EntryTyped DEF RestTyped, AtOnceInv, Alike
<1>3. located'[f] = IF r.kind = "rename" /\ located[f] = r.from THEN r.to
                    ELSE IF r.kind = "delete" THEN None ELSE located[f]
  BY <1>1 DEF ApplyHistory
<1>4. \A o \in Objects : located'[o] # None => o = f
  <2>1. \A o \in Objects : located'[o] # None => located[o] # None
    BY <1>1, <1>2, EntryTyped DEF ApplyHistory, Record
  <2> QED
    BY <1>2, <2>1
<1>5. CASE r.kind = "rename" /\ located[f] = r.from
  <2>1. disk[r.to] = f
    BY <1>1, <1>5 DEF ApplyHistory, HistoryApplicable, Follows
  <2> QED
    BY <1>1, <1>3, <1>4, <1>5, <2>1 DEF Numbered
<1>6. CASE r.kind = "delete"
  BY <1>3, <1>4, <1>6
<1>7. CASE r.kind = "rename" /\ located[f] # r.from
  <2>1. located'[f] = located[f] /\ ~Told
    BY <1>3, <1>7 DEF Told
  <2> QED
    BY <1>1, <1>2, <1>4, <2>1
<1> QED
  BY <1>1, <1>5, <1>6, <1>7 DEF Record

LEMMA ApplyAtOnce ==
  ASSUME EntryBase, AtOnceInv, NEW k \in Workers, Apply(k), AtOnce
  PROVE  AtOnceInv'
<1>1. /\ task[k] # None /\ task[k].step = "apply" /\ task[k].record \in Copies /\ task[k].record.committed
      /\ \E t \in Task : Goes(k, t) /\ t.step = "save" /\ t.phase = task[k].phase
  BY ApplyShape
<1>2. Calm({}) /\ UNCHANGED journals
  BY ApplyCalm DEF Apply
<1>3. ActingHolds({})
  BY <1>1, <1>2, NothingApplied
<1>4. CASE task[k].phase = "history"
  <2>1. ApplyHistory(task[k].record)
    BY <1>4 DEF Apply
  <2>2. PICK r : r = task[k].record
    OBVIOUS
  <2>3. /\ \A o \in Objects : located'[o] # None => o = f
        /\ located'[f] # None => located'[f] \in Paths /\ (disk[located'[f]] = f \/ ~Told)
        /\ located'[f] # None /\ disk[located'[f]] # f => located'[f] = located[f]
    BY <1>1, <2>1, <2>2, HistoryFollows
  <2>4. HistoryComes'
    BY <1>2, <2>3 DEF HistoryComes, Calm, AtOnceInv
  <2> QED
    BY <1>2, <1>3, <2>3, <2>4, CalmOne, CalmAlike DEF AtOnceInv
<1>5. CASE task[k].phase # "history"
  <2>1. UNCHANGED located
    BY <1>5 DEF Apply, ApplySqlite, ApplyRecovery, stores
  <2>2. \A j \in Workers : Doing(j, "save")' => task'[j].phase # "history" \/ (Doing(j, "save") /\ task'[j] = task[j])
    BY <1>1, <1>5, EntryTyped DEF Goes, Doing
  <2>3. ToldHolds({})
    BY <1>2, <2>2 DEF ToldHolds, Told, Journals
  <2> QED
    BY <1>2, <1>3, <2>1, <2>3, CalmAtOnce
<1> QED
  BY <1>4, <1>5

LEMMA SaveAtOnce ==
  ASSUME EntryBase, AtOnceInv, NEW k \in Workers, SavePhase(k), AtOnce
  PROVE  AtOnceInv'
<1>0. PICK r : r = [task[k].record EXCEPT !.applied = @ \cup {task[k].phase}]
  OBVIOUS
<1>1. /\ task[k] # None /\ task[k].step = "save" /\ task[k].record \in Copies /\ r \in Record /\ SaveJournal(r)
      /\ \E t \in Task : Goes(k, t) /\ t.step # "save"
  BY <1>0, SaveShape DEF Left, Goesto
<1>2. Calm({r}) /\ UNCHANGED located
  BY <1>0, SaveCalm DEF SavePhase, stores
<1>3. Told => "history" \notin r.applied
  <2>1. task[k].record \in Record
    BY <1>1, CopiesAre
  <2>2. r.applied = task[k].record.applied \cup {task[k].phase}
    BY <1>0, <2>1 DEF Record
  <2> QED
    BY <1>1, <2>2 DEF Told, Doing
<1>4. \A j \in Workers : Doing(j, "save")' => Doing(j, "save") /\ task'[j] = task[j]
  BY <1>1, EntryTyped DEF Goes, Doing
<1>5. ToldHolds({r})
  BY <1>1, <1>3, <1>4, SavedJournalIs DEF ToldHolds, Told
<1>6. ActingHolds({r})
  BY <1>1, <1>2, NothingApplied
<1> QED
  BY <1>2, <1>5, <1>6, CalmAtOnce

LEMMA FinishAtOnce ==
  ASSUME EntryBase, AtOnceInv, NEW k \in Workers, FinishRecord(k), AtOnce
  PROVE  AtOnceInv'
<1>1. task[k] # None /\ task[k].step = "apply" /\ task[k].record \in Copies /\ task[k].record.applied = Phases
  BY FinishShape
<1>2. Calm({}) /\ UNCHANGED located
  BY FinishCalm DEF FinishRecord, stores
<1>3. ~Told
  BY <1>1 DEF Told, Phases
<1> QED
  BY <1>1, <1>2, <1>3, NothingApplied, CalmAtOnce DEF ToldHolds

LEMMA ObservedAtOnce ==
  ASSUME EntryBase, AtOnceInv, NEW k \in Workers, FilesystemCommitObserved(k), AtOnce
  PROVE  AtOnceInv'
<1>0. PICK r : r = task[k].record
  OBVIOUS
<1> DEFINE s == [r EXCEPT !.committed = TRUE]
<1>1. r \in Copies /\ r \in Record /\ UNCHANGED located
  BY <1>0, ObservedShape DEF FilesystemCommitObserved, stores
<1>2. old = {}
  BY DEF AtOnceInv, One
<1>3. PICK t \in Task :
         /\ Goes(k, t)
         /\ \/ r.committed /\ Goesto(t, task[k], r) /\ UNCHANGED journals
            \/ ~r.committed /\ RenameCommitProven(r) /\ Goesto(t, task[k], s) /\ SaveJournal(s)
            \/ ~RenameCommitProven(r) /\ (Left(t, task[k], TRUE) \/ Left(t, task[k], FALSE)) /\ UNCHANGED journals
  BY <1>0, <1>2, ObservedShape
<1>4. ASSUME NEW j \in Workers, Acting(j) PROVE ~r.committed /\ ~RenameCommitProven(r)
  <2>1. task[j] # None /\ task[j].record \in Copies /\ task[j].record # None
    BY <1>4, TaskTyped DEF Acting, Doing, Written
  <2>2. ~r.committed /\ r.from = task[j].record.from /\ disk[r.from] = f /\ f # None
    BY <1>1, <1>4, <2>1, FirstDrawing, EntryTyped DEF AtOnceInv, Alike, One
  <2> QED
    BY <2>2 DEF RenameCommitProven
<1>5. \A j \in Workers : Doing(j, "save")' => Doing(j, "save") /\ task'[j] = task[j]
  BY <1>3, EntryTyped DEF Goes, Doing, Goesto, Left
<1>6. CASE Left(t, task[k], TRUE) \/ Left(t, task[k], FALSE)
  <2>1. Calm({}) /\ UNCHANGED journals /\ t.step = "replay"
    <3>1. t.step = "replay"
      BY <1>6 DEF Left
    <3>2. UNCHANGED journals
      BY <1>3, <3>1 DEF Goesto
    <3>3. ~(~r.committed /\ RenameCommitProven(r))
      BY <1>3, <3>1 DEF Goesto
    <3> QED
      BY <1>0, <3>1, <3>2, <3>3, ObservedCalm
  <2> QED
    BY <1>1, <1>3, <2>1, GoesIdly, IdlyAtOnce
<1>7. CASE r.committed /\ UNCHANGED journals
  <2>1. Calm({})
    BY <1>0, <1>7, ObservedCalm
  <2>2. ActingHolds({})
    BY <1>4, <1>7, <2>1 DEF ActingHolds, Acting, Calm, StillActing
  <2>3. ToldHolds({})
    BY <1>5, <1>7 DEF ToldHolds, Told, Journals
  <2> QED
    BY <1>1, <2>1, <2>2, <2>3, CalmAtOnce
<1>8. CASE ~r.committed /\ RenameCommitProven(r) /\ SaveJournal(s)
  <2>1. Calm({}) \/ Calm({s})
    BY <1>0, ObservedCalm
  <2>2. \A j \in Workers : ~Acting(j)'
    BY <1>4, <1>8, <2>1 DEF Acting, Calm, StillActing
  <2>3. ActingHolds({}) /\ ActingHolds({s})
    BY <2>2 DEF ActingHolds
  <2>4. s \in Record /\ s.applied = r.applied
    BY <1>1 DEF Record
  <2>5. Journals' # {}
    BY <1>8, <2>4, SavedJournalIs
  <2>6. ToldHolds({}) /\ ToldHolds({s})
    BY <1>1, <1>5, <2>4, <2>5 DEF ToldHolds, Told
  <2> QED
    BY <1>1, <2>1, <2>3, <2>6, CalmAtOnce
<1> QED
  BY <1>3, <1>6, <1>7, <1>8

LEMMA CommitFailsAtOnce ==
  ASSUME EntryBase, AtOnceInv, NEW k \in Workers, CommitFails(k), AtOnce
  PROVE  AtOnceInv'
<1>1. Calm({}) /\ UNCHANGED located
  BY CommitFailsCalm DEF CommitFails, stores
<1>2. task' = [task EXCEPT ![k] = None] /\ Acting(k)
  BY DEF CommitFails, Ended, Acting
<1>3. \A j \in Workers : ~Acting(j)'
  <2>1. ASSUME NEW j \in Workers, Acting(j)' PROVE FALSE
    <3>1. Acting(j)
      BY <1>1, <2>1 DEF Acting, Calm, StillActing
    <3>2. j = k
      BY <1>2, <3>1 DEF AtOnceInv, One, Acting
    <3> QED
      BY <1>2, <2>1, <3>2, EntryTyped DEF Acting, Doing
  <2> QED
    BY <2>1
<1>4. ActingHolds({})
  BY <1>3 DEF ActingHolds
<1>5. task[k] # None /\ task[k].record \in Copies
  BY <1>2, TaskTyped DEF Acting, Doing, Written
<1>6. Told => disk[located[f]] = f
  BY <1>2, <1>5 DEF Told, AtOnceInv, One, Alike
<1>7. HistoryComes'
  BY <1>1, <1>6 DEF HistoryComes, AtOnceInv, Calm
<1>8. One' /\ Alike'
  BY <1>1, <1>4, CalmOne, CalmAlike DEF AtOnceInv, Alike
<1> QED
  BY <1>7, <1>8 DEF AtOnceInv

LEMMA CreateAtOnce ==
  ASSUME EntryBase, AtOnceInv, NEW k \in Workers, Create(k), AtOnce
  PROVE  FALSE
<1>1. task[k] # None /\ task[k].from \in Paths
  BY TaskTyped DEF Create, Doing, TaskFollows
<1>2. PICK o \in Unborn : disk' = [disk EXCEPT ![task[k].from] = o]
  BY DEF Create
<1>3. disk'[task[k].from] = o
  BY <1>1, <1>2, EntryTyped DEF RestTyped
<1>4. o = f
  BY <1>1, <1>3, EntryTyped DEF AtOnce, Unborn
<1> QED
  BY <1>2, <1>4 DEF Unborn, AtOnceInv, Alike

LEMMA DraftAtOnce ==
  ASSUME EntryBase, AtOnceInv, NEW p \in Paths, SaveDraft(p), AtOnce
  PROVE  AtOnceInv'
<1>1. Calm({}) /\ UNCHANGED <<task, journals, disk>>
  BY DraftCalm DEF SaveDraft
<1>2. disk[p] = f /\ f \in Objects
  BY FirstDrawing DEF AtOnceInv, Alike, SaveDraft
<1>3. located' = [located EXCEPT ![f] = p]
  BY <1>2 DEF SaveDraft
<1>4. located'[f] = p /\ \A o \in Objects : located'[o] # None => o = f
  BY <1>2, <1>3, EntryTyped DEF RestTyped, AtOnceInv, Alike
<1>5. ActingHolds({})
  BY <1>1, IdlyHolds DEF Idly
<1>6. HistoryComes'
  BY <1>1, <1>2, <1>4 DEF HistoryComes
<1> QED
  BY <1>1, <1>4, <1>5, <1>6, CalmOne, CalmAlike DEF AtOnceInv

LEMMA OthersAtOnce ==
  ASSUME EntryBase, AtOnceInv, AtOnce
  PROVE  ~JournalAges /\ ~Crash /\ \A p \in Paths : ~ExternalPut(p)
<1>1. crashes \in Nat /\ external \in Nat
  BY EntryTyped, BoundsAssumption DEF RestTyped
<1>2. ~JournalAges
  BY DEF AtOnce, JournalAges
<1>3. ~Crash
  BY <1>1 DEF AtOnce, Crash
<1>4. \A p \in Paths : ~ExternalPut(p)
  BY <1>1 DEF AtOnce, ExternalPut
<1> QED
  BY <1>2, <1>3, <1>4

LEMMA PrepareAtOnce ==
  ASSUME EntryBase, AtOnceInv, NEW k \in Workers, Prepare(k), AtOnce
  PROVE  AtOnceInv'
<1>1. mutations' = mutations + 1 /\ mutations \in Nat
  BY PrepareShape, EntryTyped, BoundsAssumption DEF RestTyped
<1>2. Copies = {}
  <2>1. ASSUME NEW c \in Copies PROVE FALSE
    <3>1. c.id <= mutations /\ c.id \in 1..MaxMutations
      BY CopiesAre DEF EntryBase, Numbered, Record, Ids
    <3> QED
      BY <1>1, <3>1, BoundsAssumption DEF AtOnce
  <2> QED
    BY <2>1
<1>3. PICK t \in Task, r \in Record :
              /\ Goes(k, t) /\ t.step = "act" /\ t.todo = {} /\ t.record = r
              /\ SaveJournal(r) /\ r.object = disk[r.from] /\ ~r.committed /\ r.object # None /\ r # None
              /\ r.applied \subseteq {"parentSync"}
  BY PrepareShape
<1>4. task'[k] = t /\ \A j \in Workers \ {k} : task'[j] = task[j]
  BY <1>3, EntryTyped DEF Goes
<1>5. Copies' \subseteq {r}
  BY <1>2, <1>3, <1>4, PrepareBase
<1>6. \A j \in Workers \ {k} : task'[j] # None => task'[j].step \notin {"apply", "save"} /\ task'[j].record = None
  <2>1. ASSUME NEW j \in Workers \ {k}, task[j] # None PROVE task[j].step \notin {"apply", "save"} /\ task[j].record = None
    BY <1>2, <2>1, TaskTyped DEF TaskFollows
  <2> QED
    BY <1>4, <2>1
<1>7. \A j \in Workers : (Doing(j, "act") /\ Written(j))' => j = k
  BY <1>6 DEF Doing, Written
<1>8. \A j \in Workers : (~Doing(j, "apply") /\ ~Doing(j, "save"))'
  BY <1>3, <1>4, <1>6 DEF Doing
<1>9. UNCHANGED <<disk, trashed, located, old>> /\ r.from \in Paths
  BY DEF Prepare, stores, Record
<1>10. r.object = f
  BY <1>3, <1>9 DEF AtOnceInv, Alike
<1>11. One'
  BY <1>3, <1>4, <1>5, <1>7, <1>9 DEF One, AtOnce, Acting
<1>12. Alike'
  BY <1>3, <1>5, <1>8, <1>9, <1>10, SavedJournalIs DEF AtOnceInv, Alike
<1>13. ~Told
  BY <1>2, CopiesAre DEF Told
<1>14. HistoryComes'
  BY <1>9, <1>13 DEF AtOnceInv, HistoryComes
<1> QED
  BY <1>11, <1>12, <1>14 DEF AtOnceInv

LEMMA CommitAtOnce ==
  ASSUME EntryBase, AtOnceInv, NEW k \in Workers, Commit(k), AtOnce
  PROVE  AtOnceInv'
<1>0. PICK r : r = task[k].record
  OBVIOUS
<1> DEFINE s == [r EXCEPT !.committed = TRUE]
<1>1. /\ Acting(k) /\ r \in Copies /\ r \in Record /\ disk[r.from] # None
      /\ \E t \in Task : Goes(k, t) /\ t.step = "act" /\ t.record = s
  BY <1>0, CommitShape
<1>2. PICK t \in Task : Goes(k, t) /\ t.step = "act" /\ t.record = s
  BY <1>1
<1>3. task'[k] = t /\ \A j \in Workers \ {k} : task'[j] = task[j]
  BY <1>2, EntryTyped DEF Goes
<1>4. Copies' \subseteq Copies \cup {s} /\ UNCHANGED <<journals, located, old>>
  BY <1>0, CommitBase DEF Commit, stores
<1>5. /\ s.id = r.id /\ s.kind = r.kind /\ s.from = r.from /\ s.to = r.to /\ s.object = r.object /\ s.applied = r.applied /\ s.committed
      /\ s \in Record /\ r.from \in Paths /\ (r.kind = "rename" => r.to \in Paths \ {r.from}) /\ r.kind \in {"rename", "delete"}
  BY <1>1 DEF Record, EntryBase, Numbered
<1>6. r.object = f /\ disk[r.from] = f /\ ~r.committed /\ f # None
  BY <1>0, <1>1, FirstDrawing, EntryTyped DEF AtOnceInv, One, Alike, Acting
<1>7. \A j \in Workers : (Doing(j, "act") /\ Written(j))' => j = k
  BY <1>1, <1>3 DEF AtOnceInv, One, Acting, Doing, Written
<1>8. \A j \in Workers : ~Acting(j)'
  BY <1>2, <1>3, <1>5, <1>7 DEF Acting
<1>9. disk \in [Paths -> Objects \cup {None}]
  BY EntryTyped DEF RestTyped
<1>10. (f \in trashed \/ \E p \in Paths : disk[p] = f)' /\ \A c \in Copies' : c.committed /\ c.kind = "delete" => c.object \in trashed'
  <2>1. CASE r.kind = "rename"
    <3>1. disk' = [disk EXCEPT ![r.to] = disk[r.from], ![r.from] = None] /\ UNCHANGED trashed
      BY <1>0, <2>1 DEF Commit
    <3>2. disk'[r.to] = f /\ r.to \in Paths
      BY <1>5, <1>6, <1>9, <2>1, <3>1
    <3>3. \A c \in Copies' : c.committed /\ c.kind = "delete" => c.object \in trashed'
      BY <1>4, <1>5, <2>1, <3>1 DEF AtOnceInv, One
    <3> QED
      BY <3>2, <3>3
  <2>2. CASE r.kind = "delete"
    <3>1. trashed' = trashed \cup {f}
      BY <1>0, <1>6, <2>2 DEF Commit
    <3>2. \A c \in Copies : c.object = f
      BY DEF AtOnceInv, Alike
    <3> QED
      BY <1>4, <1>5, <1>6, <3>1, <3>2
  <2> QED
    BY <1>5, <2>1, <2>2
<1>11. One'
  BY <1>7, <1>8, <1>10 DEF One, AtOnce
<1>12. \A c \in Copies' : \E d \in Copies : c.from = d.from /\ c.to = d.to /\ c.kind = d.kind /\ c.object = d.object
  BY <1>1, <1>4, <1>5
<1>13. Alike'
  <2>1. \A c, d \in Copies' : c.from = d.from /\ c.to = d.to /\ c.kind = d.kind /\ c.object = f
    BY <1>12 DEF AtOnceInv, Alike
  <2> QED
    BY <1>4, <1>8, <1>10, <2>1 DEF AtOnceInv, Alike, AtOnce
<1>14. HistoryComes'
  <2>1. ASSUME located[f] # None, ~Told PROVE located[f] = r.from /\ located[f] \in Paths
    <3>1. disk[located[f]] = f /\ located[f] \in Paths
      BY <2>1, EntryTyped, FirstDrawing DEF AtOnceInv, HistoryComes, RestTyped
    <3> QED
      BY <1>5, <1>6, <3>1 DEF EntryBase, FilesAreApart
  <2>2. Journals' = Journals /\ Journals # {}
    BY <1>1, <1>4 DEF AtOnceInv, Alike, Journals
  <2>3. ASSUME NEW j \in Workers, Doing(j, "save")' PROVE FALSE
    BY <1>1, <1>2, <1>3, <2>3 DEF AtOnceInv, Alike, Doing
  <2>4. ASSUME NEW c \in Copies PROVE c.from = r.from /\ "history" \notin c.applied
    <3>1. ~c.committed /\ c.from = r.from
      BY <1>1 DEF AtOnceInv, Alike
    <3> QED
      BY <3>1 DEF EntryBase, Numbered
  <2>5. \A c \in Copies' : c.from = r.from /\ "history" \notin c.applied
    BY <1>1, <1>4, <1>5, <2>4
  <2>6. ASSUME located[f] # None PROVE located[f] = r.from
    <3>1. CASE Told
      BY <1>1, <3>1 DEF Told
    <3> QED
      BY <2>1, <2>6, <3>1
  <2> QED
    BY <1>4, <2>2, <2>3, <2>5, <2>6 DEF HistoryComes, Told
<1> QED
  BY <1>11, <1>13, <1>14 DEF AtOnceInv

\* One by one, and nobody else at the files.  The journals' files after a write.
LEMMA JournalsSaved ==
  ASSUME EntryBase, NEW s \in Record, SaveJournal(s)
  PROVE  /\ s \in Journals' /\ \A q \in Journals : q.id # s.id => q \in Journals'
         /\ \A q \in Journals' : q = s \/ (q \in Journals /\ q.id # s.id)
<1>1. s.id \in Ids /\ journals'[s.id] = s /\ s # None /\ \A i \in Ids \ {s.id} : journals'[i] = journals[i]
  BY EntryTyped DEF SaveJournal, Record
<1> QED
  BY <1>1, EntryTyped DEF Journals

LEMMA JournalsDeleted ==
  ASSUME EntryBase, NEW s \in Record, DeleteJournal(s)
  PROVE  /\ \A q \in Journals : q.id # s.id => q \in Journals'
         /\ \A q \in Journals' : q \in Journals /\ q.id # s.id
<1>1. s.id \in Ids /\ journals'[s.id] = None /\ \A i \in Ids \ {s.id} : journals'[i] = journals[i]
  BY EntryTyped DEF DeleteJournal, Record
<1> QED
  BY <1>1, EntryTyped DEF Journals

LEMMA CurrentIs ==
  ASSUME EntryBase, NEW r \in Record, Current(r), NEW j, j = journals[r.id]
  PROVE  /\ j \in Journals /\ j \in Record /\ j.id = r.id /\ j.from = r.from /\ j.to = r.to /\ j.kind = r.kind /\ j.object = r.object
         /\ j.applied = r.applied /\ (~r.committed => j = r) /\ \A q \in Journals : q.id = r.id => q = j
<1>1. r.id \in Ids /\ j \in {r, [r EXCEPT !.committed = FALSE]}
  BY DEF Record, Current
<1>2. /\ j \in Record /\ j.id = r.id /\ j.from = r.from /\ j.to = r.to /\ j.kind = r.kind /\ j.object = r.object
      /\ j.applied = r.applied
  BY <1>1 DEF Record
<1>3. j \in Journals
  BY <1>1, <1>2, EntryTyped DEF Journals
<1>4. ~r.committed => j = r
  <2>1. CASE ~r.committed
    <3>1. r.committed = FALSE
      BY <2>1 DEF Record
    <3>2. [r EXCEPT !.committed = FALSE] = r
      BY <3>1 DEF Record
    <3> QED
      BY <1>1, <3>2
  <2> QED
    BY <2>1
<1>5. \A q \in Journals : q.id = r.id => q = j
  BY JournalsCurrent
<1> QED
  BY <1>2, <1>3, <1>4, <1>5

\* What a journal covers stays covered.
CoverKept(phase) ==
  \A r \in Journals : disk[r.from] = None /\ phase \notin r.applied =>
      \E s \in Journals' : s.from = r.from /\ s.object = r.object /\ phase \notin s.applied
LEMMA CoversStay ==
  ASSUME UNCHANGED disk, NEW phase, CoverKept(phase), NEW p, NEW o, Covers(p, o, phase)
  PROVE  Covers(p, o, phase)'
BY DEF Covers, CoverKept

LEMMA StoresStay ==
  ASSUME StoresFollow, UNCHANGED <<disk, stores>>, CoverKept("sqlite"), CoverKept("recovery"), CoverKept("history")
  PROVE  StoresFollow'
<1>1. UNCHANGED <<rows, snaps, located>>
  BY DEF stores
<1>2. ASSUME NEW p \in Paths, rows'[p] # None PROVE (rows[p] = disk[p] \/ Covers(p, rows[p], "sqlite"))'
  <2>1. PICK o : o = rows[p] /\ o = rows'[p]
    BY <1>1
  <2>2. o = disk[p] \/ Covers(p, o, "sqlite")
    BY <1>2, <2>1 DEF StoresFollow
  <2>3. o = disk'[p] \/ Covers(p, o, "sqlite")'
    BY <2>2, CoversStay
  <2> QED
    BY <2>1, <2>3 DEF Covers
<1>3. ASSUME NEW p \in Paths, snaps'[p] # None PROVE (snaps[p] = disk[p] \/ Covers(p, snaps[p], "recovery"))'
  <2>1. PICK o : o = snaps[p] /\ o = snaps'[p]
    BY <1>1
  <2>2. o = disk[p] \/ Covers(p, o, "recovery")
    BY <1>3, <2>1 DEF StoresFollow
  <2>3. o = disk'[p] \/ Covers(p, o, "recovery")'
    BY <2>2, CoversStay
  <2> QED
    BY <2>1, <2>3 DEF Covers
<1>4. ASSUME NEW o \in Objects, located'[o] # None PROVE (disk[located[o]] = o \/ Covers(located[o], o, "history"))'
  <2>1. PICK p : p = located[o] /\ p = located'[o]
    BY <1>1
  <2>2. disk[p] = o \/ Covers(p, o, "history")
    BY <1>4, <2>1 DEF StoresFollow
  <2>3. disk'[p] = o \/ Covers(p, o, "history")'
    BY <2>2, CoversStay
  <2> QED
    BY <2>1, <2>3 DEF Covers
<1> QED
  BY <1>2, <1>3, <1>4 DEF StoresFollow

LEMMA AllStay ==
  ASSUME StoresFollow, JournalsAgree, UNCHANGED <<disk, stores, journals>>
  PROVE  StoresFollow' /\ JournalsAgree'
<1>1. Journals' = Journals
  BY DEF Journals
<1>2. CoverKept("sqlite") /\ CoverKept("recovery") /\ CoverKept("history")
  BY <1>1 DEF CoverKept
<1>3. JournalsAgree'
  BY <1>1 DEF JournalsAgree, Moved
<1> QED
  BY <1>2, <1>3, StoresStay

\* A journal that is written says of the same file what the one before said, or more.
LEMMA JournalsStay ==
  ASSUME EntryBase, JournalsAgree, UNCHANGED disk, NEW r \in Record, Current(r), NEW s \in Record, SaveJournal(s),
         s.id = r.id, s.from = r.from, s.object = r.object, s.committed => Moved(s)
  PROVE  JournalsAgree'
<1>1. PICK j : j = journals[r.id]
  OBVIOUS
<1>2. j \in Journals /\ j.from = s.from /\ j.object = s.object
  BY <1>1, CurrentIs
<1>3. \A q \in Journals' : q = s \/ q \in Journals
  BY JournalsSaved
<1>4. ASSUME NEW q \in Journals' PROVE disk[q.from] \in {None, q.object} /\ (q.committed => Moved(q))
  BY <1>2, <1>3 DEF JournalsAgree
<1>5. ASSUME NEW q \in Journals', NEW u \in Journals', q.from = u.from PROVE q.object = u.object
  BY <1>2, <1>3, <1>5 DEF JournalsAgree
<1> QED
  BY <1>4, <1>5 DEF JournalsAgree, Moved

LEMMA FewerJournals ==
  ASSUME EntryBase, JournalsAgree, UNCHANGED disk, Journals' \subseteq Journals
  PROVE  JournalsAgree'
BY DEF JournalsAgree, Moved

LEMMA SavedCovers ==
  ASSUME EntryBase, NEW r \in Record, Current(r), NEW s \in Record, SaveJournal(s),
         s.id = r.id, s.from = r.from, s.object = r.object, NEW phase, phase \notin r.applied => phase \notin s.applied
  PROVE  CoverKept(phase)
<1>1. PICK j : j = journals[r.id]
  OBVIOUS
<1>2. ASSUME NEW q \in Journals, phase \notin q.applied
      PROVE  \E u \in Journals' : u.from = q.from /\ u.object = q.object /\ phase \notin u.applied
  <2>1. CASE q.id = s.id
    <3>1. q = j /\ q.from = s.from /\ q.object = s.object /\ q.applied = r.applied
      BY <1>1, <2>1, CurrentIs
    <3> QED
      BY <1>2, <3>1, JournalsSaved
  <2>2. CASE q.id # s.id
    BY <1>2, <2>2, JournalsSaved
  <2> QED
    BY <2>1, <2>2
<1> QED
  BY <1>2 DEF CoverKept

LEMMA DeletedCovers ==
  ASSUME EntryBase, NEW r \in Record, Current(r), DeleteJournal(r), NEW phase, phase \in r.applied \/ disk[r.from] # None
  PROVE  CoverKept(phase)
<1>1. PICK j : j = journals[r.id]
  OBVIOUS
<1>2. ASSUME NEW q \in Journals, phase \notin q.applied, disk[q.from] = None
      PROVE  q \in Journals'
  <2>1. q.id # r.id
    BY <1>1, <1>2, CurrentIs
  <2> QED
    BY <2>1, JournalsDeleted
<1> QED
  BY <1>2 DEF CoverKept

\* What has to be shown of a step of k to t: only k runs after it.
LEMMA OneGoes ==
  ASSUME EntryBase, TakenInTurn', NEW k \in Workers, NEW t \in Task, Goes(k, t), StoresFollow', JournalsAgree', (PhaseFollows(t))'
  PROVE  OneByOneInv'
<1>1. task'[k] = t /\ k \in Running'
  BY EntryTyped DEF Goes, Running
<1>2. \A j \in Running' : j = k
  BY <1>1 DEF TakenInTurn
<1>3. \A j \in Running' : PhaseFollows(task[j])'
  BY <1>1, <1>2 DEF PhaseFollows, Moved, Dormant, SafeToDrop
<1> QED
  BY <1>3 DEF OneByOneInv

LEMMA OneEnds ==
  ASSUME EntryBase, TakenInTurn, NEW k \in Running, task' = [task EXCEPT ![k] = None], StoresFollow', JournalsAgree'
  PROVE  OneByOneInv'
<1>1. Running' = {}
  BY EntryTyped DEF Running, TakenInTurn
<1> QED
  BY <1>1 DEF OneByOneInv

LEMMA RunningFollows ==
  ASSUME OneByOneInv, NEW k \in Workers, task[k] # None
  PROVE  StoresFollow /\ JournalsAgree /\ PhaseFollows(task[k]) /\ k \in Running
BY DEF OneByOneInv, Running

OneStep == EntryBase /\ TakenInTurn /\ TakenInTurn' /\ OneByOneInv /\ external' = 0

LEMMA OneStepFacts ==
  ASSUME OneStep
  PROVE  EntryBase /\ TakenInTurn /\ TakenInTurn' /\ StoresFollow /\ JournalsAgree
BY DEF OneStep, OneByOneInv

LEMMA CommandOne ==
  ASSUME OneStep, NEW k \in Workers, Command(k) \/ List(k)
  PROVE  OneByOneInv'
<1>1. \E t \in Task : Goes(k, t) /\ t.step = "replay" /\ t.todo = Journals /\ t.record = None
  BY CommandShape, ListShape, OneStepFacts DEF NewTask
<1>2. PICK t \in Task : Goes(k, t) /\ t.step = "replay" /\ t.todo = Journals /\ t.record = None
  BY <1>1
<1>3. UNCHANGED <<disk, stores, journals>>
  BY DEF Command, List
<1>4. StoresFollow' /\ JournalsAgree' /\ Journals' = Journals
  BY <1>3, AllStay, OneStepFacts DEF Journals
<1>5. (PhaseFollows(t))'
  BY <1>2, <1>4 DEF PhaseFollows
<1> QED
  BY <1>2, <1>4, <1>5, OneGoes, OneStepFacts

LEMMA CrashOne ==
  ASSUME OneStep, Crash
  PROVE  OneByOneInv'
<1>1. UNCHANGED <<disk, stores, journals>>
  BY DEF Crash
<1>2. StoresFollow' /\ JournalsAgree' /\ Journals' = Journals
  BY <1>1, AllStay, OneStepFacts DEF Journals
<1>3. ASSUME NEW k \in Running' PROVE PhaseFollows(task[k])'
  <2>1. NewTask(task'[k], "launch", None, None)
    BY <1>3, CrashShape, OneStepFacts DEF Running
  <2> QED
    BY <1>2, <2>1 DEF PhaseFollows, NewTask
<1> QED
  BY <1>2, <1>3 DEF OneByOneInv

LEMMA TakeOne ==
  ASSUME OneStep, NEW k \in Workers, Take(k)
  PROVE  OneByOneInv'
<1>1. /\ task[k] # None /\ task[k].step = "replay" /\ task[k].record = None
      /\ \E t \in Task : /\ Goes(k, t) /\ Same(t, task[k]) /\ t.step = "observe" /\ t.record \in task[k].todo
                         /\ t.todo = task[k].todo \ {t.record} /\ t.failed = task[k].failed /\ t.record # None
  BY TakeShape, OneStepFacts
<1>2. PICK t \in Task : /\ Goes(k, t) /\ Same(t, task[k]) /\ t.step = "observe" /\ t.record \in task[k].todo
                        /\ t.todo = task[k].todo \ {t.record} /\ t.failed = task[k].failed /\ t.record # None
  BY <1>1
<1>3. UNCHANGED <<disk, stores, journals>>
  BY DEF Take
<1>4. StoresFollow' /\ JournalsAgree' /\ Journals' = Journals
  BY <1>3, AllStay, OneStepFacts DEF Journals
<1>5. t.record \in Journals /\ t.record \in Record
  <2>1. journals[t.record.id] = t.record
    BY <1>1, <1>2, TurnOf, OneStepFacts DEF HandsAreCurrent
  <2>2. t.record \in Record
    BY <1>1, <1>2, TaskTyped, OneStepFacts
  <2>3. t.record.id \in Ids
    BY <2>2 DEF Record
  <2> QED
    BY <1>2, <2>1, <2>2, <2>3 DEF Journals
<1>6. PhaseFollows(task[k]) /\ JournalsAgree
  BY <1>1, RunningFollows DEF OneStep
<1>7. (PhaseFollows(t))'
  <2>1. t.record.committed => Moved(t.record)'
    BY <1>3, <1>5, <1>6 DEF JournalsAgree, Moved
  <2>2. t.kind # "settle" => \A r \in Journals : t.failed \/ Dormant(r) \/ r \in t.todo \/ t.record.id = r.id
    BY <1>1, <1>2, <1>6 DEF PhaseFollows, Same
  <2>3. \A r : Dormant(r)' <=> Dormant(r)
    BY <1>3 DEF Dormant, SafeToDrop
  <2> QED
    BY <1>2, <1>4, <2>1, <2>2, <2>3 DEF PhaseFollows
<1> QED
  BY <1>2, <1>4, <1>7, OneGoes, OneStepFacts

LEMMA HandOf ==
  ASSUME OneStep, NEW k \in Workers, task[k] # None, task[k].record # None, NEW r, r = task[k].record
  PROVE  r \in Record /\ Current(r) /\ PhaseFollows(task[k]) /\ (r.committed => Moved(r)) /\ k \in Running
<1>1. HandsAreCurrent(task[k]) /\ task[k].record \in Record
  BY TurnOf, TaskTyped, OneStepFacts
<1>2. PhaseFollows(task[k]) /\ k \in Running
  BY RunningFollows DEF OneStep
<1> QED
  BY <1>1, <1>2 DEF HandsAreCurrent, PhaseFollows

\* What is left of the replay when the record in hand goes on or has been left.
LEMMA ReplayFollows ==
  ASSUME OneStep, NEW k \in Workers, task[k] # None, task[k].step # "act", NEW t \in Task, t.kind = task[k].kind, t.todo = task[k].todo,
         task[k].failed => t.failed, UNCHANGED disk,
         t.step \in {"replay", "apply"}, t.record # None => t.record.committed /\ (Moved(t.record))',
         NEW id, task[k].record # None => task[k].record.id = id,
         \A q \in Journals' : q \in Journals \/ q.id = id,
         \A q \in Journals' : q.id = id => t.failed \/ Dormant(q) \/ (t.record # None /\ t.record.id = id)
  PROVE  (PhaseFollows(t))'
<1>1. PhaseFollows(task[k])
  BY RunningFollows DEF OneStep
<1>2. \A q : (Dormant(q))' <=> Dormant(q)
  BY DEF Dormant, SafeToDrop
<1>3. ASSUME t.kind # "settle", NEW q \in Journals', ~t.failed PROVE Dormant(q) \/ q \in t.todo \/ (t.record # None /\ t.record.id = q.id)
  <2>1. CASE q.id = id
    BY <1>3, <2>1
  <2>2. CASE q.id # id
    <3>1. q \in Journals
      BY <2>2
    <3>2. task[k].failed \/ Dormant(q) \/ q \in task[k].todo \/ (task[k].record # None /\ task[k].record.id = q.id)
      BY <1>1, <1>3, <3>1 DEF PhaseFollows
    <3> QED
      BY <1>3, <2>2, <3>2
  <2> QED
    BY <2>1, <2>2
<1> QED
  BY <1>2, <1>3 DEF PhaseFollows

LEMMA ObservedOne ==
  ASSUME OneStep, NEW k \in Workers, FilesystemCommitObserved(k)
  PROVE  OneByOneInv'
<1>0. PICK r : r = task[k].record
  OBVIOUS
<1>s. PICK s : s = [r EXCEPT !.committed = TRUE]
  OBVIOUS
<1>1. task[k] # None /\ task[k].step = "observe" /\ task[k].record # None /\ r \in Record
  BY <1>0, ObservedShape, OneStepFacts, EntryTyped
<1>2. Current(r) /\ (r.committed => Moved(r)) /\ JournalsAgree /\ StoresFollow
  BY <1>0, <1>1, HandOf, OneStepFacts
<1>3. /\ s \in Record /\ s.id = r.id /\ s.kind = r.kind /\ s.from = r.from /\ s.to = r.to /\ s.object = r.object
      /\ s.applied = r.applied /\ s.committed
  BY <1>1, <1>s DEF Record
<1>4. PICK t \in Task :
              /\ Goes(k, t) /\ TaskFollows(t)
              /\ \/ r.committed /\ Goesto(t, task[k], r) /\ UNCHANGED <<journals, old>>
                 \/ /\ ~r.committed /\ RenameCommitProven(r) /\ Goesto(t, task[k], s)
                    /\ SaveJournal(s) /\ old' = old \ {r.id}
                 \/ /\ ~r.committed /\ ~RenameCommitProven(r) /\ SafeToDrop(r) /\ Left(t, task[k], FALSE) /\ UNCHANGED old
                    /\ IF r.id \in old /\ journals[r.id] # None THEN DeleteJournal(r) ELSE UNCHANGED journals
                 \/ /\ ~r.committed /\ ~RenameCommitProven(r) /\ ~SafeToDrop(r) /\ Left(t, task[k], TRUE)
                    /\ UNCHANGED <<journals, old>>
  BY <1>0, <1>s, ObservedShape, OneStepFacts
<1>5. UNCHANGED <<disk, stores>>
  BY DEF FilesystemCommitObserved
<1>6. UNCHANGED journals => StoresFollow' /\ JournalsAgree' /\ Journals' = Journals
  BY <1>2, <1>5, AllStay DEF Journals
<1>7. ~r.committed => \A q \in Journals : q.id = r.id => q = r
  <2>1. PICK j : j = journals[r.id]
    OBVIOUS
  <2> QED
    BY <1>1, <1>2, <2>1, CurrentIs, OneStepFacts
<1>8. t.kind = task[k].kind /\ t.todo = task[k].todo /\ (task[k].failed => t.failed) /\ t.step \in {"replay", "apply"}
  BY <1>1, <1>4 DEF Goesto, Left, Same, Task
<1>9. CASE r.committed /\ Goesto(t, task[k], r) /\ UNCHANGED <<journals, old>>
  <2>1. t.record = r /\ (Moved(r))'
    BY <1>2, <1>5, <1>9 DEF Goesto, Moved
  <2>2. t.record # None => t.record.committed /\ (Moved(t.record))'
    BY <1>9, <2>1
  <2>3. \A q \in Journals' : q \in Journals \/ q.id = r.id
    BY <1>6, <1>9
  <2>4. (PhaseFollows(t))'
    BY <1>0, <1>1, <1>5, <1>8, <2>1, <2>2, <2>3, ReplayFollows
  <2> QED
    BY <1>4, <1>6, <1>9, <2>4, OneGoes, OneStepFacts
<1>10. CASE ~r.committed /\ RenameCommitProven(r) /\ Goesto(t, task[k], s) /\ SaveJournal(s)
  <2>1. t.record = s /\ Moved(s) /\ (Moved(s))'
    BY <1>3, <1>5, <1>10 DEF Goesto, Moved, RenameCommitProven
  <2>2. JournalsAgree'
    BY <1>1, <1>2, <1>3, <1>5, <1>10, <2>1, JournalsStay, OneStepFacts
  <2>3. CoverKept("sqlite") /\ CoverKept("recovery") /\ CoverKept("history")
    BY <1>1, <1>2, <1>3, <1>10, SavedCovers, OneStepFacts
  <2>4. StoresFollow'
    BY <1>2, <1>5, <2>3, StoresStay
  <2>5. \A q \in Journals' : q \in Journals \/ q.id = r.id
    BY <1>3, <1>10, JournalsSaved, OneStepFacts
  <2>6. (PhaseFollows(t))'
    <3>1. s # None
      BY <1>3, EntryTyped, OneStepFacts
    <3> QED
      BY <1>0, <1>1, <1>3, <1>5, <1>8, <2>1, <2>5, <3>1, ReplayFollows
  <2> QED
    BY <1>4, <2>2, <2>4, <2>6, OneGoes, OneStepFacts
<1>11. CASE ~r.committed /\ SafeToDrop(r) /\ Left(t, task[k], FALSE) /\ UNCHANGED journals
  <2>1. Dormant(r) /\ t.record = None
    BY <1>11 DEF Dormant, Left
  <2>2. (PhaseFollows(t))'
    BY <1>0, <1>1, <1>5, <1>6, <1>7, <1>8, <1>11, <2>1, ReplayFollows
  <2> QED
    BY <1>4, <1>6, <1>11, <2>2, OneGoes, OneStepFacts
<1>12. CASE ~r.committed /\ SafeToDrop(r) /\ Left(t, task[k], FALSE) /\ DeleteJournal(r)
  <2>1. disk[r.from] # None /\ t.record = None
    BY <1>12 DEF SafeToDrop, Left
  <2>2. \A q \in Journals' : q \in Journals /\ q.id # r.id
    BY <1>1, <1>12, JournalsDeleted, OneStepFacts
  <2>3. JournalsAgree'
    BY <1>2, <1>5, <2>2, FewerJournals, OneStepFacts
  <2>4. CoverKept("sqlite") /\ CoverKept("recovery") /\ CoverKept("history")
    BY <1>1, <1>2, <1>12, <2>1, DeletedCovers, OneStepFacts
  <2>5. StoresFollow'
    BY <1>2, <1>5, <2>4, StoresStay
  <2>6. (PhaseFollows(t))'
    BY <1>0, <1>1, <1>5, <1>8, <2>1, <2>2, ReplayFollows
  <2> QED
    BY <1>4, <2>3, <2>5, <2>6, OneGoes, OneStepFacts
<1>13. CASE Left(t, task[k], TRUE) /\ UNCHANGED journals
  <2>1. t.failed /\ t.record = None
    BY <1>13 DEF Left
  <2>2. (PhaseFollows(t))'
    BY <1>0, <1>1, <1>5, <1>6, <1>8, <1>13, <2>1, ReplayFollows
  <2> QED
    BY <1>4, <1>6, <1>13, <2>2, OneGoes, OneStepFacts
<1> QED
  BY <1>4, <1>9, <1>10, <1>11, <1>12, <1>13

LEMMA FailsOne ==
  ASSUME OneStep, NEW k \in Workers, PhaseFails(k)
  PROVE  OneByOneInv'
<1>0. PICK r : r = task[k].record
  OBVIOUS
<1>1. /\ task[k] # None /\ task[k].step \in {"apply", "save"} /\ task[k].record \in Copies
      /\ \E t \in Task : /\ Goes(k, t)
                         /\ \/ Left(t, task[k], TRUE)
                            \/ /\ Same(t, task[k]) /\ t.step = "apply" /\ t.phase = "recovery" /\ t.todo = task[k].todo
                               /\ t.record = task[k].record /\ t.failed
  BY PhaseFailsShape, OneStepFacts DEF PhaseFails, Doing
<1>2. PICK t \in Task : /\ Goes(k, t)
                        /\ \/ Left(t, task[k], TRUE)
                           \/ /\ Same(t, task[k]) /\ t.step = "apply" /\ t.phase = "recovery" /\ t.todo = task[k].todo
                              /\ t.record = task[k].record /\ t.failed
  BY <1>1
<1>3. UNCHANGED <<disk, stores, journals>>
  BY DEF PhaseFails
<1>4. StoresFollow' /\ JournalsAgree' /\ Journals' = Journals
  BY <1>3, AllStay, OneStepFacts DEF Journals
<1>5. r # None /\ task[k].record # None /\ r.committed
  BY <1>0, <1>1, TaskTyped, OneStepFacts DEF TaskFollows
<1>6. (Moved(r))'
  BY <1>0, <1>1, <1>3, <1>5, HandOf DEF Moved
<1>7. t.kind = task[k].kind /\ t.todo = task[k].todo /\ t.failed /\ t.step \in {"replay", "apply"} /\ t.record \in {None, r}
  BY <1>0, <1>2 DEF Left, Same
<1>8. (PhaseFollows(t))'
  BY <1>0, <1>1, <1>3, <1>4, <1>5, <1>6, <1>7, ReplayFollows
<1> QED
  BY <1>2, <1>4, <1>8, OneGoes, OneStepFacts

LEMMA FinishOne ==
  ASSUME OneStep, NEW k \in Workers, FinishRecord(k)
  PROVE  OneByOneInv'
<1>0. PICK r : r = task[k].record
  OBVIOUS
<1>1. /\ task[k] # None /\ task[k].step = "apply" /\ r \in Copies /\ r.applied = Phases /\ DeleteJournal(r)
      /\ \E t \in Task : Goes(k, t) /\ Left(t, task[k], FALSE)
  BY <1>0, FinishShape, OneStepFacts
<1>2. PICK t \in Task : Goes(k, t) /\ Left(t, task[k], FALSE)
  BY <1>1
<1>3. UNCHANGED <<disk, stores>>
  BY DEF FinishRecord
<1>4. r # None /\ r \in Record /\ task[k].record # None
  BY <1>0, <1>1, CopiesAre, EntryTyped, OneStepFacts
<1>5. Current(r)
  BY <1>0, <1>1, <1>4, HandOf
<1>6. \A q \in Journals' : q \in Journals /\ q.id # r.id
  BY <1>1, <1>4, JournalsDeleted, OneStepFacts
<1>7. JournalsAgree'
  BY <1>3, <1>6, FewerJournals, OneStepFacts
<1>8. CoverKept("sqlite") /\ CoverKept("recovery") /\ CoverKept("history")
  BY <1>1, <1>4, <1>5, DeletedCovers, OneStepFacts DEF Phases
<1>9. StoresFollow'
  BY <1>3, <1>8, StoresStay, OneStepFacts
<1>10. t.kind = task[k].kind /\ t.todo = task[k].todo /\ (task[k].failed => t.failed) /\ t.step = "replay" /\ t.record = None
  BY <1>1, <1>2 DEF Left, Same, Task
<1>11. (PhaseFollows(t))'
  BY <1>0, <1>1, <1>3, <1>6, <1>10, ReplayFollows
<1> QED
  BY <1>2, <1>7, <1>9, <1>11, OneGoes, OneStepFacts

LEMMA ReplayedOne ==
  ASSUME OneStep, NEW k \in Workers, Replayed(k)
  PROVE  OneByOneInv'
<1>1. task[k] # None /\ task[k].step = "replay" /\ task[k].todo = {} /\ task[k].record = None
  BY ReplayedShape, OneStepFacts
<1>2. UNCHANGED <<disk, stores, journals>>
  BY DEF Replayed
<1>3. StoresFollow' /\ JournalsAgree' /\ Journals' = Journals
  BY <1>2, AllStay, OneStepFacts DEF Journals
<1>4. PhaseFollows(task[k]) /\ k \in Running
  BY <1>1, RunningFollows DEF OneStep
<1>5. CASE task' = [task EXCEPT ![k] = None]
  BY <1>3, <1>4, <1>5, OneEnds, OneStepFacts
<1>6. ASSUME NEW t \in Task, Goes(k, t), task[k].kind \in {"rename", "delete", "create"}, ~task[k].failed, t.step = "act", t.record = None
      PROVE  OneByOneInv'
  <2>1. \A r \in Journals : Dormant(r)
    BY <1>1, <1>4, <1>6 DEF PhaseFollows
  <2>2. \A r : (Dormant(r))' <=> Dormant(r)
    BY <1>2 DEF Dormant, SafeToDrop
  <2>3. (PhaseFollows(t))'
    BY <1>3, <1>6, <2>1, <2>2 DEF PhaseFollows
  <2> QED
    BY <1>3, <1>6, <2>3, OneGoes, OneStepFacts
<1> QED
  BY <1>5, <1>6, ReplayedShape, OneStepFacts

\* Stores in which entries are taken out or set to what is on the disk.
LEMMA StoresMoved ==
  ASSUME StoresFollow, UNCHANGED <<disk, journals>>,
         \A p \in Paths : rows'[p] \in {None, rows[p], disk[p]},
         \A p \in Paths : snaps'[p] \in {None, snaps[p], disk[p]},
         \A o \in Objects : located'[o] \in {None, located[o]} \/ disk[located'[o]] = o
  PROVE  StoresFollow'
<1>1. Journals' = Journals
  BY DEF Journals
<1>2. ASSUME NEW p \in Paths, rows'[p] # None PROVE (rows[p] = disk[p] \/ Covers(p, rows[p], "sqlite"))'
  BY <1>1, <1>2 DEF StoresFollow, Covers
<1>3. ASSUME NEW p \in Paths, snaps'[p] # None PROVE (snaps[p] = disk[p] \/ Covers(p, snaps[p], "recovery"))'
  BY <1>1, <1>3 DEF StoresFollow, Covers
<1>4. ASSUME NEW o \in Objects, located'[o] # None PROVE (disk[located[o]] = o \/ Covers(located[o], o, "history"))'
  BY <1>1, <1>4 DEF StoresFollow, Covers
<1> QED
  BY <1>2, <1>3, <1>4 DEF StoresFollow

\* What the journal of a record that has moved covers is the record's file.
LEMMA CoveredIs ==
  ASSUME EntryBase, JournalsAgree, NEW r \in Record, Current(r), NEW o, NEW phase, Covers(r.from, o, phase)
  PROVE  o = r.object
<1>1. PICK j : j = journals[r.id]
  OBVIOUS
<1>2. j \in Journals /\ j.from = r.from /\ j.object = r.object
  BY <1>1, CurrentIs
<1> QED
  BY <1>2 DEF Covers, JournalsAgree

LEMMA SqliteOne ==
  ASSUME EntryBase, StoresFollow, JournalsAgree, NEW r \in Record, Current(r), Moved(r), Numbered(r), ApplySqlite(r), UNCHANGED <<disk, journals>>
  PROVE  StoresFollow' /\ rows'[r.from] = None
<1>1. r.from \in Paths /\ (r.kind = "rename" => r.to \in Paths \ {r.from} /\ disk[r.to] = r.object) /\ disk[r.from] = None
      /\ rows \in [Paths -> Objects \cup {None}]
  BY EntryTyped DEF Record, Numbered, Moved, RestTyped
<1>2. rows[r.from] # None => rows[r.from] = r.object
  BY <1>1, CoveredIs DEF StoresFollow
<1>3. CASE r.kind = "rename" /\ rows[r.from] # None
  <2>1. rows' = [rows EXCEPT ![r.to] = rows[r.from], ![r.from] = None]
    BY <1>3 DEF ApplySqlite, Move
  <2>2. rows'[r.from] = None /\ \A p \in Paths : rows'[p] \in {None, rows[p], disk[p]}
    BY <1>1, <1>2, <1>3, <2>1
  <2> QED
    BY <2>2, StoresMoved DEF ApplySqlite
<1>4. CASE ~(r.kind = "rename" /\ rows[r.from] # None)
  <2>1. rows' = [rows EXCEPT ![r.from] = None] \/ (rows' = rows /\ rows[r.from] = None)
    BY <1>4 DEF ApplySqlite, Move
  <2>2. rows'[r.from] = None /\ \A p \in Paths : rows'[p] \in {None, rows[p], disk[p]}
    BY <1>1, <2>1
  <2> QED
    BY <2>2, StoresMoved DEF ApplySqlite
<1> QED
  BY <1>3, <1>4

LEMMA RecoveryOne ==
  ASSUME EntryBase, StoresFollow, JournalsAgree, NEW r \in Record, Current(r), Moved(r), Numbered(r), ApplyRecovery(r), UNCHANGED <<disk, journals>>
  PROVE  StoresFollow' /\ snaps'[r.from] = None
<1>1. r.from \in Paths /\ (r.kind = "rename" => r.to \in Paths \ {r.from} /\ disk[r.to] = r.object) /\ disk[r.from] = None
      /\ snaps \in [Paths -> Objects \cup {None}]
  BY EntryTyped DEF Record, Numbered, Moved, RestTyped
<1>2. snaps[r.from] # None => snaps[r.from] = r.object
  BY <1>1, CoveredIs DEF StoresFollow
<1>3. CASE r.kind = "rename" /\ snaps[r.from] # None
  <2>1. snaps' = [snaps EXCEPT ![r.to] = snaps[r.from], ![r.from] = None]
    BY <1>3 DEF ApplyRecovery, Move
  <2>2. snaps'[r.from] = None /\ \A p \in Paths : snaps'[p] \in {None, snaps[p], disk[p]}
    BY <1>1, <1>2, <1>3, <2>1
  <2> QED
    BY <2>2, StoresMoved DEF ApplyRecovery
<1>4. CASE ~(r.kind = "rename" /\ snaps[r.from] # None)
  <2>1. snaps' = [snaps EXCEPT ![r.from] = None] \/ (snaps' = snaps /\ snaps[r.from] = None)
    BY <1>4 DEF ApplyRecovery, Move
  <2>2. snaps'[r.from] = None /\ \A p \in Paths : snaps'[p] \in {None, snaps[p], disk[p]}
    BY <1>1, <2>1
  <2> QED
    BY <2>2, StoresMoved DEF ApplyRecovery
<1> QED
  BY <1>3, <1>4

LEMMA HistoryOne ==
  ASSUME EntryBase, StoresFollow, JournalsAgree, NEW r \in Record, Current(r), Moved(r), Numbered(r), ApplyHistory(r), UNCHANGED <<disk, journals>>
  PROVE  StoresFollow' /\ \A o \in Objects : located'[o] # r.from
<1>1. r.from \in Paths /\ (r.kind = "rename" => r.to \in Paths \ {r.from} /\ disk[r.to] = r.object) /\ disk[r.from] = None
      /\ located \in [Objects -> Paths \cup {None}] /\ None \notin Paths /\ None \notin Objects /\ r.kind \in {"rename", "delete"}
  BY EntryTyped DEF Record, Numbered, Moved, RestTyped
<1>2. ASSUME NEW o \in Objects PROVE (located'[o] \in {None, located[o]} \/ disk[located'[o]] = o) /\ located'[o] # r.from
  <2>1. located'[o] = IF r.kind = "rename" /\ located[o] = r.from THEN r.to
                      ELSE IF r.kind = "delete" /\ o = r.object THEN None ELSE located[o]
    BY DEF ApplyHistory
  <2>2. CASE r.kind = "rename"
    <3>1. located[o] = r.from => disk[r.to] = o
      BY <2>2 DEF ApplyHistory, HistoryApplicable, Follows
    <3> QED
      BY <1>1, <2>1, <2>2, <3>1
  <2>3. CASE r.kind = "delete"
    <3>1. located[o] = r.from => o = r.object
      BY <1>1, CoveredIs DEF StoresFollow
    <3> QED
      BY <1>1, <2>1, <2>3, <3>1
  <2> QED
    BY <1>1, <2>2, <2>3
<1>3. StoresFollow'
  BY <1>2, StoresMoved DEF ApplyHistory
<1> QED
  BY <1>2, <1>3

LEMMA ApplyOne ==
  ASSUME OneStep, NEW k \in Workers, Apply(k)
  PROVE  OneByOneInv'
<1>0. PICK r : r = task[k].record
  OBVIOUS
<1>1. /\ task[k] # None /\ task[k].step = "apply" /\ r \in Copies /\ r.committed
      /\ \E t \in Task : /\ Goes(k, t) /\ Same(t, task[k]) /\ t.step = "save" /\ t.todo = task[k].todo
                         /\ t.record = task[k].record /\ t.phase = task[k].phase /\ t.failed = task[k].failed
  BY <1>0, ApplyShape, OneStepFacts
<1>2. PICK t \in Task : /\ Goes(k, t) /\ Same(t, task[k]) /\ t.step = "save" /\ t.todo = task[k].todo
                        /\ t.record = r /\ t.phase = task[k].phase /\ t.failed = task[k].failed
  BY <1>0, <1>1
<1>3. r \in Record /\ r # None /\ task[k].record # None /\ Numbered(r)
  BY <1>0, <1>1, CopiesAre, EntryTyped, OneStepFacts DEF EntryBase
<1>4. Current(r) /\ Moved(r) /\ PhaseFollows(task[k])
  BY <1>0, <1>1, <1>3, HandOf
<1>5. UNCHANGED <<disk, journals>> /\ Journals' = Journals
  BY DEF Apply, Journals
<1>6. /\ StoresFollow'
      /\ task[k].phase = "sqlite" => rows'[r.from] = None
      /\ task[k].phase = "recovery" => snaps'[r.from] = None
      /\ task[k].phase = "history" => \A o \in Objects : located'[o] # r.from
  <2>1. CASE task[k].phase = "parentSync" /\ UNCHANGED stores
    BY <1>5, <2>1, AllStay, OneStepFacts
  <2>2. CASE task[k].phase = "sqlite" /\ ApplySqlite(r)
    BY <1>3, <1>4, <1>5, <2>2, SqliteOne, OneStepFacts
  <2>3. CASE task[k].phase = "recovery" /\ ApplyRecovery(r)
    BY <1>3, <1>4, <1>5, <2>3, RecoveryOne, OneStepFacts
  <2>4. CASE task[k].phase = "history" /\ ApplyHistory(r)
    BY <1>3, <1>4, <1>5, <2>4, HistoryOne, OneStepFacts
  <2> QED
    BY <1>0, <2>1, <2>2, <2>3, <2>4 DEF Apply
<1>7. JournalsAgree'
  BY <1>5, OneStepFacts DEF JournalsAgree, Moved
<1>8. \A q : (Dormant(q))' <=> Dormant(q)
  BY <1>5 DEF Dormant, SafeToDrop
<1>9. (Moved(r))'
  BY <1>4, <1>5 DEF Moved
<1>10. (PhaseFollows(t))'
  <2>1. t.kind # "settle" => \A q \in Journals' : t.failed \/ Dormant(q) \/ q \in t.todo \/ (t.record # None /\ t.record.id = q.id)
    BY <1>0, <1>1, <1>2, <1>4, <1>5 DEF PhaseFollows, Same
  <2> QED
    BY <1>2, <1>3, <1>6, <1>8, <1>9, <2>1 DEF PhaseFollows
<1> QED
  BY <1>2, <1>6, <1>7, <1>10, OneGoes, OneStepFacts

LEMMA SaveOne ==
  ASSUME OneStep, NEW k \in Workers, SavePhase(k)
  PROVE  OneByOneInv'
<1>0. PICK r : r = task[k].record
  OBVIOUS
<1>s. PICK s : s = [task[k].record EXCEPT !.applied = @ \cup {task[k].phase}]
  OBVIOUS
<1>1. /\ task[k] # None /\ task[k].step = "save" /\ task[k].phase \in Phases /\ r \in Copies /\ r.committed /\ s \in Record /\ SaveJournal(s)
      /\ \E t \in Task : Goes(k, t) /\ (Left(t, task[k], TRUE) \/ Goesto(t, task[k], s))
  BY <1>0, <1>s, SaveShape, OneStepFacts
<1>2. PICK t \in Task : Goes(k, t) /\ (Left(t, task[k], TRUE) \/ Goesto(t, task[k], s))
  BY <1>1
<1>3. r \in Record /\ r # None /\ task[k].record # None
  BY <1>0, <1>1, CopiesAre, EntryTyped, OneStepFacts
<1>4. Current(r) /\ Moved(r) /\ PhaseFollows(task[k])
  BY <1>0, <1>1, <1>3, HandOf
<1>5. /\ s.id = r.id /\ s.kind = r.kind /\ s.from = r.from /\ s.to = r.to /\ s.object = r.object
      /\ s.applied = r.applied \cup {task[k].phase} /\ s.committed /\ s # None
  BY <1>0, <1>1, <1>3, <1>s, EntryTyped, OneStepFacts DEF Record
<1>6. UNCHANGED <<disk, stores>> /\ Moved(s) /\ (Moved(s))'
  BY <1>4, <1>5 DEF SavePhase, Moved
<1>7. JournalsAgree'
  BY <1>1, <1>3, <1>4, <1>5, <1>6, JournalsStay, OneStepFacts
<1>8. \A phase \in Phases : phase # task[k].phase => CoverKept(phase)
  <2>1. ASSUME NEW phase \in Phases, phase # task[k].phase PROVE CoverKept(phase)
    <3>1. phase \notin r.applied => phase \notin s.applied
      BY <1>5, <2>1
    <3> QED
      BY <1>1, <1>3, <1>4, <1>5, <3>1, SavedCovers, OneStepFacts
  <2> QED
    BY <2>1
<1>9. ASSUME NEW p, NEW o, NEW phase \in Phases, Covers(p, o, phase), p # r.from \/ phase # task[k].phase PROVE (Covers(p, o, phase))'
  <2>1. CASE phase # task[k].phase
    BY <1>6, <1>8, <1>9, <2>1, CoversStay
  <2>2. CASE p # r.from
    <3>1. PICK q \in Journals : q.from = p /\ q.object = o /\ phase \notin q.applied
      BY <1>9 DEF Covers
    <3>2. q.id # s.id
      <4>1. PICK j : j = journals[r.id]
        OBVIOUS
      <4>2. q.id = r.id => q.from = r.from
        BY <1>3, <1>4, <4>1, CurrentIs, OneStepFacts
      <4> QED
        BY <1>5, <2>2, <3>1, <4>2
    <3>3. q \in Journals'
      BY <1>1, <3>2, JournalsSaved, OneStepFacts
    <3> QED
      BY <1>6, <1>9, <3>1, <3>3 DEF Covers
  <2> QED
    BY <1>9, <2>1, <2>2
<1>10. StoresFollow'
  <2>0. StoresFollow /\ UNCHANGED <<disk, rows, snaps, located>> /\ {"sqlite", "recovery", "history"} \subseteq Phases
    BY <1>6, OneStepFacts DEF stores, Phases
  <2>1. /\ task[k].phase = "sqlite" => rows[r.from] = None
        /\ task[k].phase = "recovery" => snaps[r.from] = None
        /\ task[k].phase = "history" => \A o \in Objects : located[o] # r.from
    BY <1>0, <1>1, <1>4 DEF PhaseFollows
  <2>2. ASSUME NEW p \in Paths, rows'[p] # None PROVE (rows[p] = disk[p] \/ Covers(p, rows[p], "sqlite"))'
    <3>1. PICK o : o = rows[p] /\ o = rows'[p]
      BY <2>0
    <3>2. o = disk[p] \/ Covers(p, o, "sqlite")
      BY <2>0, <2>2, <3>1 DEF StoresFollow
    <3>3. p # r.from \/ "sqlite" # task[k].phase
      BY <2>0, <2>1, <2>2
    <3>4. o = disk'[p] \/ (Covers(p, o, "sqlite"))'
      BY <1>9, <2>0, <3>2, <3>3
    <3> QED
      BY <3>1, <3>4 DEF Covers
  <2>3. ASSUME NEW p \in Paths, snaps'[p] # None PROVE (snaps[p] = disk[p] \/ Covers(p, snaps[p], "recovery"))'
    <3>1. PICK o : o = snaps[p] /\ o = snaps'[p]
      BY <2>0
    <3>2. o = disk[p] \/ Covers(p, o, "recovery")
      BY <2>0, <2>3, <3>1 DEF StoresFollow
    <3>3. p # r.from \/ "recovery" # task[k].phase
      BY <2>0, <2>1, <2>3
    <3>4. o = disk'[p] \/ (Covers(p, o, "recovery"))'
      BY <1>9, <2>0, <3>2, <3>3
    <3> QED
      BY <3>1, <3>4 DEF Covers
  <2>4. ASSUME NEW o \in Objects, located'[o] # None PROVE (disk[located[o]] = o \/ Covers(located[o], o, "history"))'
    <3>1. PICK p : p = located[o] /\ p = located'[o]
      BY <2>0
    <3>2. disk[p] = o \/ Covers(p, o, "history")
      BY <2>0, <2>4, <3>1 DEF StoresFollow
    <3>3. p # r.from \/ "history" # task[k].phase
      BY <2>1, <3>1
    <3>4. disk'[p] = o \/ (Covers(p, o, "history"))'
      BY <1>9, <2>0, <3>2, <3>3
    <3> QED
      BY <3>1, <3>4 DEF Covers
  <2> QED
    BY <2>2, <2>3, <2>4 DEF StoresFollow
<1>11. t.kind = task[k].kind /\ t.todo = task[k].todo /\ (task[k].failed => t.failed) /\ t.step \in {"replay", "apply"} /\ (t.failed \/ t.record = s)
       /\ t.record \in {s, None}
  BY <1>1, <1>2 DEF Goesto, Left, Same, Task
<1>12. \A q \in Journals' : q \in Journals \/ q.id = r.id
  BY <1>1, <1>5, JournalsSaved, OneStepFacts
<1>13. (PhaseFollows(t))'
  <2>1. t.record # None => t.record.committed /\ (Moved(t.record))'
    BY <1>5, <1>6, <1>11
  <2>2. \A q \in Journals' : q.id = r.id => t.failed \/ Dormant(q) \/ (t.record # None /\ t.record.id = r.id)
    BY <1>5, <1>11
  <2>3. task[k].record # None => task[k].record.id = r.id
    BY <1>0
  <2>4. task[k].step # "act"
    BY <1>1
  <2> QED
    BY <1>1, <1>6, <1>11, <1>12, <2>1, <2>2, <2>3, <2>4, ReplayFollows
<1> QED
  BY <1>2, <1>7, <1>10, <1>13, OneGoes, OneStepFacts

\* Before a mutation nothing is pending: the stores say what is on the disk.
LEMMA DormantFollow ==
  ASSUME StoresFollow, \A r \in Journals : Dormant(r)
  PROVE  /\ \A p \in Paths : rows[p] # None => rows[p] = disk[p]
         /\ \A p \in Paths : snaps[p] # None => snaps[p] = disk[p]
         /\ \A o \in Objects : located[o] # None => disk[located[o]] = o
BY DEF StoresFollow, Covers, Dormant, SafeToDrop

LEMMA PendingNone ==
  ASSUME OneStep, NEW k \in Workers, Doing(k, "act"), ~Written(k) \/ ~task[k].record.committed
  PROVE  /\ \A r \in Journals : Dormant(r)
         /\ \A p \in Paths : rows[p] # None => rows[p] = disk[p]
         /\ \A p \in Paths : snaps[p] # None => snaps[p] = disk[p]
         /\ \A o \in Objects : located[o] # None => disk[located[o]] = o
         /\ task[k] # None /\ k \in Running
<1>1. task[k] # None /\ PhaseFollows(task[k]) /\ StoresFollow /\ k \in Running
  BY RunningFollows DEF OneStep, Doing
<1>2. \A r \in Journals : Dormant(r)
  BY <1>1 DEF PhaseFollows, Doing, Written
<1> QED
  BY <1>1, <1>2, DormantFollow

LEMMA CreateOne ==
  ASSUME OneStep, NEW k \in Workers, Create(k)
  PROVE  OneByOneInv'
<1>1. task[k] # None /\ Doing(k, "act") /\ task[k].kind = "create" /\ disk[task[k].from] = None
  BY DEF Create, Doing
<1>2. task[k].from \in Paths /\ ~Written(k)
  BY <1>1, TaskTyped, OneStepFacts DEF TaskFollows, Doing, Written
<1>3. /\ \A r \in Journals : Dormant(r)
      /\ \A p \in Paths : rows[p] # None => rows[p] = disk[p]
      /\ \A p \in Paths : snaps[p] # None => snaps[p] = disk[p]
      /\ \A o \in Objects : located[o] # None => disk[located[o]] = o
      /\ k \in Running
  BY <1>1, <1>2, PendingNone
<1>4. PICK n \in Unborn : disk' = [disk EXCEPT ![task[k].from] = n] /\ rows' = [rows EXCEPT ![task[k].from] = n]
  BY DEF Create
<1>5. UNCHANGED <<snaps, located, journals>> /\ Journals' = Journals /\ task' = [task EXCEPT ![k] = None]
  BY DEF Create, Journals, Ended
<1>6. /\ disk \in [Paths -> Objects \cup {None}] /\ rows \in [Paths -> Objects \cup {None}] /\ None \notin Objects
      /\ Journals \subseteq Record
  BY EntryTyped, CopiesAre, OneStepFacts DEF RestTyped
<1>7. /\ disk'[task[k].from] = n /\ rows'[task[k].from] = n
      /\ \A p \in Paths : p # task[k].from => disk'[p] = disk[p] /\ rows'[p] = rows[p]
  BY <1>2, <1>4, <1>6
<1>8. /\ \A p \in Paths : rows'[p] # None => rows'[p] = disk'[p]
      /\ \A p \in Paths : snaps'[p] # None => snaps'[p] = disk'[p]
  BY <1>1, <1>2, <1>3, <1>5, <1>7
<1>9. \A o \in Objects : located'[o] # None => disk'[located'[o]] = o
  <2>1. \A o \in Objects : located[o] \in Paths \cup {None}
    BY EntryTyped, OneStepFacts DEF RestTyped
  <2> QED
    BY <1>1, <1>3, <1>5, <1>6, <1>7, <2>1
<1>10. StoresFollow'
  BY <1>8, <1>9 DEF StoresFollow
<1>11. JournalsAgree'
  <2>1. \A r \in Journals : ~r.committed /\ r.from \in Paths /\ r.from # task[k].from
    BY <1>1, <1>3, <1>6 DEF Dormant, SafeToDrop, Record
  <2>2. JournalsAgree
    BY OneStepFacts
  <2> QED
    BY <1>5, <1>7, <2>1, <2>2 DEF JournalsAgree
<1> QED
  BY <1>3, <1>5, <1>10, <1>11, OneEnds, OneStepFacts

LEMMA PrepareOne ==
  ASSUME OneStep, NEW k \in Workers, Prepare(k)
  PROVE  OneByOneInv'
<1>1. PICK t \in Task, r \in Record :
         /\ Goes(k, t) /\ t.step = "act" /\ t.todo = {} /\ t.record = r /\ SaveJournal(r)
         /\ r.object = disk[r.from] /\ ~r.committed /\ (r.kind = "rename" => disk[r.to] = None) /\ r.object # None
  BY PrepareShape, OneStepFacts
<1>2. Doing(k, "act") /\ ~Written(k)
  BY DEF Prepare
<1>3. \A q \in Journals : Dormant(q)
  BY <1>2, PendingNone
<1>4. UNCHANGED <<disk, stores>>
  BY DEF Prepare
<1>5. \A q \in Journals' : q = r \/ q \in Journals
  BY <1>1, JournalsSaved, OneStepFacts
<1>6. Dormant(r) /\ \A q : (Dormant(q))' <=> Dormant(q)
  BY <1>1, <1>4 DEF Dormant, SafeToDrop
<1>7. \A q \in Journals' : Dormant(q)
  BY <1>3, <1>5, <1>6
<1>8. StoresFollow'
  <2>1. /\ \A p \in Paths : rows[p] # None => rows[p] = disk[p]
        /\ \A p \in Paths : snaps[p] # None => snaps[p] = disk[p]
        /\ \A o \in Objects : located[o] # None => disk[located[o]] = o
    BY <1>2, PendingNone
  <2> QED
    BY <1>4, <2>1 DEF StoresFollow, stores
<1>9. \A q \in Journals' : disk[q.from] = q.object /\ ~q.committed
  <2>1. JournalsAgree
    BY OneStepFacts
  <2>2. \A q \in Journals : disk[q.from] = q.object /\ ~q.committed
    BY <1>3, <2>1 DEF JournalsAgree, Dormant, SafeToDrop
  <2> QED
    BY <1>1, <1>5, <2>2
<1>10. JournalsAgree'
  BY <1>4, <1>9 DEF JournalsAgree
<1>11. (PhaseFollows(t))'
  BY <1>1, <1>6, <1>7 DEF PhaseFollows
<1> QED
  BY <1>1, <1>8, <1>10, <1>11, OneGoes, OneStepFacts

LEMMA RefuseOne ==
  ASSUME OneStep, NEW k \in Workers, Refuse(k)
  PROVE  OneByOneInv'
<1>1. UNCHANGED <<disk, stores, journals>> /\ task' = [task EXCEPT ![k] = None] /\ k \in Running
  BY DEF Refuse, Ended, Doing, Running
<1> QED
  BY <1>1, AllStay, OneEnds, OneStepFacts

LEMMA CommitFailsOne ==
  ASSUME OneStep, NEW k \in Workers, CommitFails(k)
  PROVE  OneByOneInv'
<1>1. /\ Doing(k, "act") /\ ~task[k].record.committed /\ task[k] # None /\ task[k].record # None /\ DeleteJournal(task[k].record)
      /\ task' = [task EXCEPT ![k] = None] /\ UNCHANGED <<disk, stores>>
  BY DEF CommitFails, Doing, Written, Ended
<1>2. /\ \A p \in Paths : rows[p] # None => rows[p] = disk[p]
      /\ \A p \in Paths : snaps[p] # None => snaps[p] = disk[p]
      /\ \A o \in Objects : located[o] # None => disk[located[o]] = o
      /\ k \in Running
  BY <1>1, PendingNone
<1>3. StoresFollow'
  BY <1>1, <1>2 DEF StoresFollow, stores
<1>4. task[k].record \in Record
  BY <1>1, TaskTyped, OneStepFacts
<1>5. Journals' \subseteq Journals
  BY <1>1, <1>4, JournalsDeleted, OneStepFacts
<1>6. JournalsAgree'
  BY <1>1, <1>5, FewerJournals, OneStepFacts
<1> QED
  BY <1>1, <1>2, <1>3, <1>6, OneEnds, OneStepFacts

LEMMA CommitOne ==
  ASSUME OneStep, NEW k \in Workers, Commit(k)
  PROVE  OneByOneInv'
<1>0. PICK r : r = task[k].record
  OBVIOUS
<1>s. PICK s : s = [r EXCEPT !.committed = TRUE]
  OBVIOUS
<1>1. /\ task[k] # None /\ task[k].record # None /\ ~r.committed /\ r \in Record /\ r \in Copies /\ disk[r.from] # None
      /\ \E t \in Task : Goes(k, t) /\ t.step = "act" /\ t.todo = {} /\ t.record = s
  BY <1>0, <1>s, CommitShape, OneStepFacts DEF Acting, Written
<1>2. PICK t \in Task : Goes(k, t) /\ t.step = "act" /\ t.todo = {} /\ t.record = s
  BY <1>1
<1>3. /\ s \in Record /\ s.id = r.id /\ s.kind = r.kind /\ s.from = r.from /\ s.to = r.to /\ s.object = r.object
      /\ s.applied = r.applied /\ s.committed
  BY <1>1, <1>s DEF Record
<1>4. Current(r) /\ r \in Journals
  <2>1. Current(r)
    BY <1>0, <1>1, HandOf
  <2>2. PICK j : j = journals[r.id]
    OBVIOUS
  <2> QED
    BY <1>1, <2>1, <2>2, CurrentIs, OneStepFacts
<1>5. /\ \A q \in Journals : Dormant(q)
      /\ \A p \in Paths : rows[p] # None => rows[p] = disk[p]
      /\ \A p \in Paths : snaps[p] # None => snaps[p] = disk[p]
      /\ \A o \in Objects : located[o] # None => disk[located[o]] = o
  <2>1. Doing(k, "act") /\ ~task[k].record.committed
    BY DEF Commit
  <2> QED
    BY <2>1, PendingNone
<1>6. disk[r.from] = r.object /\ (r.kind = "rename" => disk[r.to] = None)
  BY <1>1, <1>4, <1>5, OneStepFacts DEF JournalsAgree, Dormant, SafeToDrop
<1>7. /\ r.from \in Paths /\ (r.kind = "rename" => r.to \in Paths \ {r.from}) /\ r.applied \subseteq {"parentSync"}
      /\ disk \in [Paths -> Objects \cup {None}] /\ None \notin Objects /\ r.kind \in {"rename", "delete"} /\ r.object \in Objects
      /\ located \in [Objects -> Paths \cup {None}] /\ Journals \subseteq Record
  BY <1>1, EntryTyped, CopiesAre, OneStepFacts DEF EntryBase, Numbered, Record, RestTyped
<1>8. UNCHANGED <<stores, journals, rows, snaps, located>> /\ Journals' = Journals
  BY DEF Commit, stores, Journals
<1>9. /\ disk'[r.from] = None /\ (r.kind = "rename" => disk'[r.to] = r.object)
      /\ \A p \in Paths : p = r.from \/ (r.kind = "rename" /\ p = r.to) \/ disk'[p] = disk[p]
  BY <1>0, <1>6, <1>7 DEF Commit
<1>10. \A phase \in {"sqlite", "recovery", "history"} : (Covers(r.from, r.object, phase))'
  BY <1>4, <1>7, <1>8, <1>9 DEF Covers
<1>11. StoresFollow'
  <2>1. ASSUME NEW p \in Paths, NEW o \in Objects, disk[p] = o PROVE disk'[p] = o \/ (p = r.from /\ o = r.object)
    BY <1>6, <1>7, <1>9, <2>1
  <2>2. ASSUME NEW p \in Paths, rows'[p] # None PROVE (rows[p] = disk[p] \/ Covers(p, rows[p], "sqlite"))'
    <3>1. rows'[p] = disk[p] /\ disk[p] \in Objects
      BY <1>5, <1>7, <1>8, <2>2
    <3> QED
      BY <1>10, <2>1, <3>1 DEF Covers
  <2>3. ASSUME NEW p \in Paths, snaps'[p] # None PROVE (snaps[p] = disk[p] \/ Covers(p, snaps[p], "recovery"))'
    <3>1. snaps'[p] = disk[p] /\ disk[p] \in Objects
      BY <1>5, <1>7, <1>8, <2>3
    <3> QED
      BY <1>10, <2>1, <3>1 DEF Covers
  <2>4. ASSUME NEW o \in Objects, located'[o] # None PROVE (disk[located[o]] = o \/ Covers(located[o], o, "history"))'
    <3>1. disk[located'[o]] = o /\ located'[o] \in Paths
      BY <1>5, <1>7, <1>8, <2>4
    <3> QED
      BY <1>10, <2>1, <3>1 DEF Covers
  <2> QED
    BY <2>2, <2>3, <2>4 DEF StoresFollow
<1>12. JournalsAgree'
  <2>1. \A q \in Journals : ~q.committed /\ q.from \in Paths /\ disk[q.from] # None /\ disk[q.from] = q.object
    BY <1>5, <1>7, OneStepFacts DEF Dormant, SafeToDrop, JournalsAgree, Record
  <2>2. \A q \in Journals : disk'[q.from] \in {None, q.object}
    BY <1>6, <1>9, <2>1
  <2>3. JournalsAgree
    BY OneStepFacts
  <2> QED
    BY <1>8, <2>1, <2>2, <2>3 DEF JournalsAgree
<1>13. (PhaseFollows(t))'
  <2>1. (Moved(s))'
    BY <1>3, <1>9 DEF Moved
  <2>2. s # None
    BY <1>3, EntryTyped, OneStepFacts
  <2> QED
    BY <1>2, <1>3, <2>1, <2>2 DEF PhaseFollows
<1> QED
  BY <1>2, <1>11, <1>12, <1>13, OneGoes, OneStepFacts

LEMMA MarkOne ==
  ASSUME OneStep, NEW k \in Workers, MarkCommitted(k)
  PROVE  OneByOneInv'
<1>0. PICK r : r = task[k].record
  OBVIOUS
<1>1. /\ task[k] # None /\ r \in Copies /\ r.committed
      /\ SaveJournal(r) \/ UNCHANGED journals
      /\ \E t \in Task : Goes(k, t) /\ t.kind = "settle" /\ t.step = "observe" /\ t.record = r
  BY <1>0, MarkShape, OneStepFacts
<1>2. PICK t \in Task : Goes(k, t) /\ t.kind = "settle" /\ t.step = "observe" /\ t.record = r
  BY <1>1
<1>3. r \in Record /\ r # None /\ task[k].record # None
  BY <1>0, <1>1, CopiesAre, EntryTyped, OneStepFacts
<1>4. Current(r) /\ Moved(r)
  BY <1>0, <1>1, <1>3, HandOf
<1>5. UNCHANGED <<disk, stores>> /\ (Moved(r))'
  BY <1>4 DEF MarkCommitted, Moved
<1>6. StoresFollow' /\ JournalsAgree'
  <2>1. CASE UNCHANGED journals
    BY <1>5, <2>1, AllStay, OneStepFacts
  <2>2. CASE SaveJournal(r)
    <3>1. JournalsAgree'
      BY <1>3, <1>4, <1>5, <2>2, JournalsStay, OneStepFacts
    <3>2. CoverKept("sqlite") /\ CoverKept("recovery") /\ CoverKept("history")
      BY <1>3, <1>4, <2>2, SavedCovers, OneStepFacts
    <3> QED
      BY <1>5, <3>1, <3>2, StoresStay, OneStepFacts
  <2> QED
    BY <1>1, <2>1, <2>2
<1>7. (PhaseFollows(t))'
  BY <1>2, <1>5 DEF PhaseFollows
<1> QED
  BY <1>2, <1>6, <1>7, OneGoes, OneStepFacts

LEMMA DraftOne ==
  ASSUME OneStep, NEW p \in Paths, SaveDraft(p)
  PROVE  OneByOneInv'
<1>0. PICK o : o = disk[p]
  OBVIOUS
<1>1. /\ o # None /\ rows' = [rows EXCEPT ![p] = o] /\ snaps' = [snaps EXCEPT ![p] = o] /\ located' = [located EXCEPT ![o] = p]
      /\ UNCHANGED <<disk, journals, task>>
  BY <1>0 DEF SaveDraft
<1>2. /\ rows \in [Paths -> Objects \cup {None}] /\ snaps \in [Paths -> Objects \cup {None}] /\ located \in [Objects -> Paths \cup {None}]
      /\ disk \in [Paths -> Objects \cup {None}]
  BY EntryTyped, OneStepFacts DEF RestTyped
<1>3. StoresFollow'
  BY <1>0, <1>1, <1>2, StoresMoved, OneStepFacts
<1>4. JournalsAgree' /\ Journals' = Journals /\ Running' = Running
  BY <1>1, OneStepFacts DEF JournalsAgree, Moved, Journals, Running
<1>5. ASSUME NEW k \in Running' PROVE (PhaseFollows(task[k]))'
  <2>1. k \in Workers /\ task[k] # None /\ PhaseFollows(task[k])
    BY <1>4, <1>5 DEF Running, OneStep, OneByOneInv
  <2>2. \A q : ((Dormant(q))' <=> Dormant(q)) /\ ((Moved(q))' <=> Moved(q))
    BY <1>1 DEF Dormant, SafeToDrop, Moved
  <2>3. task[k].step = "save" => task[k].record # None /\ task[k].record.committed /\ task[k].record.from \in Paths /\ task[k].record.from # p
    <3>1. CASE task[k].step = "save"
      <4>1. task[k].record # None /\ task[k].record.committed /\ task[k].record \in Record
        BY <2>1, <3>1, TaskTyped, OneStepFacts DEF TaskFollows
      <4>2. disk[task[k].record.from] = None
        BY <2>1, <4>1 DEF PhaseFollows, Moved
      <4> QED
        BY <1>0, <1>1, <4>1, <4>2 DEF Record
    <3> QED
      BY <3>1
  <2>4. /\ task[k].step = "save" /\ task[k].phase = "sqlite" => rows'[task[k].record.from] = None
        /\ task[k].step = "save" /\ task[k].phase = "recovery" => snaps'[task[k].record.from] = None
        /\ task[k].step = "save" /\ task[k].phase = "history" => \A x \in Objects : located'[x] # task[k].record.from
    BY <1>1, <1>2, <2>1, <2>3 DEF PhaseFollows
  <2>5. task'[k] = task[k]
    BY <1>1
  <2> QED
    BY <1>1, <1>4, <2>1, <2>2, <2>4, <2>5 DEF PhaseFollows
<1> QED
  BY <1>3, <1>4, <1>5 DEF OneByOneInv

LEMMA RestOne ==
  ASSUME OneByOneInv, UNCHANGED <<disk, stores, journals, task>>
  PROVE  OneByOneInv'
<1>1. StoresFollow' /\ JournalsAgree' /\ Journals' = Journals /\ Running' = Running
  BY AllStay DEF OneByOneInv, Journals, Running
<1>2. ASSUME NEW k \in Running' PROVE (PhaseFollows(task[k]))'
  BY <1>1, <1>2 DEF OneByOneInv, PhaseFollows, Dormant, SafeToDrop, Moved, stores
<1> QED
  BY <1>1, <1>2 DEF OneByOneInv

LEMMA EntryInitInv == SettingInit => EntryInv
<1> SUFFICES ASSUME SettingInit PROVE EntryInv
  OBVIOUS
<1>1. /\ disk \in [Paths -> Objects \cup {None}] /\ trashed = {} /\ rows = disk /\ snaps = disk
      /\ \A p, q \in Paths : p # q /\ disk[p] = disk[q] => disk[p] = None
      /\ journals = [i \in Ids |-> None] /\ old = {} /\ task = [k \in Workers |-> None]
      /\ launching = FALSE /\ mutations = 0 /\ external = 0 /\ crashes = 0
      /\ disk[p1] = f /\ \A p \in Paths \ {p1} : disk[p] = None
      /\ setting \in {"one by one", "at once"}
  BY DEF SettingInit, EntryInit
<1>2. located = [o \in Objects |-> IF \E p \in Paths : disk[p] = o THEN CHOOSE p \in Paths : disk[p] = o ELSE None]
  BY DEF SettingInit, EntryInit
<1>3. \A o \in Objects : located[o] \in Paths \cup {None} /\ (located[o] # None => disk[located[o]] = o)
  <2>1. ASSUME NEW o \in Objects PROVE located[o] \in Paths \cup {None} /\ (located[o] # None => disk[located[o]] = o)
    BY <1>2
  <2> QED
    BY <2>1
<1>4. Journals = {} /\ Running = {} /\ Copies = {}
  BY <1>1 DEF Journals, Running, Copies
<1>5. \A k \in Workers : ~Acting(k) /\ \A s : ~Doing(k, s)
  BY <1>1 DEF Acting, Doing
<1>6. p1 \in Paths /\ f \in Objects /\ None \notin Objects /\ None \notin Paths
  BY FirstDrawing, NoneIsNothing
<1>7. located \in [Objects -> Paths \cup {None}]
  BY <1>2, <1>3
<1>8. EntryTypeOK
  <2>1. 0 \in 0..MaxMutations /\ 0 \in 0..MaxExternal /\ 0 \in 0..MaxCrashes
    BY BoundsAssumption
  <2>2. /\ journals \in [Ids -> Record \cup {None}] /\ task \in [Workers -> Task \cup {None}]
        /\ \A i \in Ids : journals[i] = None
    BY <1>1
  <2> QED
    BY <1>1, <1>7, <2>1, <2>2 DEF EntryTypeOK
<1>9. EntryBase
  BY <1>1, <1>4, <1>8 DEF EntryBase, FilesAreApart
<1>10. GoneInv /\ TakenInTurn
  BY <1>4, <1>5 DEF GoneInv, TakenInTurn
<1>11. AtOnceInv
  <2>1. One
    <3>1. \A c \in Copies : c.committed /\ c.kind = "delete" => c.object \in trashed
      BY <1>4
    <3>2. external = 0 /\ old = {} /\ mutations = 0
      BY <1>1
    <3>4. 0 <= 1
      OBVIOUS
    <3>3. \A k \in Workers : ~Acting(k) /\ ~Doing(k, "act")
      BY <1>5
    <3> QED
      BY <3>1, <3>2, <3>3, <3>4 DEF One
  <2>2. \A o \in Objects : located[o] # None => o = f
    BY <1>1, <1>3, <1>6
  <2>3. Alike
    BY <1>1, <1>4, <1>5, <1>6, <2>2 DEF Alike
  <2>4. HistoryComes
    BY <1>3, <1>6 DEF HistoryComes
  <2> QED
    BY <2>1, <2>3, <2>4 DEF AtOnceInv
<1>12. OneByOneInv
  BY <1>1, <1>3, <1>4 DEF OneByOneInv, StoresFollow, JournalsAgree
<1> QED
  BY <1>1, <1>9, <1>10, <1>11, <1>12 DEF EntryInv, SettingsInv

\* Every step of EntryMutations.
Calmly(k) ==
  \/ Command(k) \/ List(k) \/ Take(k) \/ FilesystemCommitObserved(k) \/ Apply(k)
  \/ SavePhase(k) \/ PhaseFails(k) \/ FinishRecord(k) \/ Replayed(k)
  \/ Refuse(k) \/ CommitFails(k) \/ MarkCommitted(k)

LEMMA EntrySteps ==
  ASSUME EntryNext
  PROVE  \/ \E k \in Workers : Calmly(k) \/ Create(k) \/ Prepare(k) \/ Commit(k)
         \/ \E p \in Paths : SaveDraft(p) \/ ExternalPut(p)
         \/ JournalAges \/ Crash
BY DEF EntryNext, Calmly

LEMMA EntryBaseStep ==
  ASSUME EntryBase, EntryNext
  PROVE  EntryBase'
<1>1. ASSUME NEW k \in Workers, Calmly(k) \/ Create(k) \/ Prepare(k) \/ Commit(k) PROVE EntryBase'
  <2>1. PICK r : r = task[k].record
    OBVIOUS
  <2>2. PICK s : s = [task[k].record EXCEPT !.applied = @ \cup {task[k].phase}]
    OBVIOUS
  <2>3. PICK t : t = task'[k].record
    OBVIOUS
  <2>4. CASE Command(k) \/ List(k) \/ Take(k) \/ Apply(k) \/ PhaseFails(k) \/ FinishRecord(k) \/ Replayed(k)
    BY <2>4, CommandBase, ListBase, TakeBase, ApplyBase, PhaseFailsBase, FinishBase, ReplayedBase
  <2>5. CASE Refuse(k) \/ CommitFails(k) \/ MarkCommitted(k) \/ Create(k)
    BY <2>5, RefuseBase, CommitFailsBase, MarkBase, CreateBase
  <2>6. CASE FilesystemCommitObserved(k)
    BY <2>1, <2>6, ObservedBase
  <2>7. CASE SavePhase(k)
    BY <2>2, <2>7, SaveBase
  <2>8. CASE Prepare(k)
    BY <2>3, <2>8, PrepareBase
  <2>9. CASE Commit(k)
    BY <2>1, <2>9, CommitBase
  <2> QED
    BY <1>1, <2>4, <2>5, <2>6, <2>7, <2>8, <2>9 DEF Calmly
<1>2. ASSUME NEW p \in Paths, SaveDraft(p) \/ ExternalPut(p) PROVE EntryBase'
  BY <1>2, DraftBase, PutBase
<1> QED
  BY <1>1, <1>2, EntrySteps, AgesBase, CrashBase

LEMMA CalmlyCalm ==
  ASSUME EntryBase, NEW k \in Workers, Calmly(k)
  PROVE  \E New : Calm(New)
<1>1. PICK r : r = task[k].record
  OBVIOUS
<1>2. PICK s : s = [task[k].record EXCEPT !.applied = @ \cup {task[k].phase}]
  OBVIOUS
<1>3. CASE Command(k) \/ List(k) \/ Take(k) \/ Apply(k) \/ PhaseFails(k) \/ FinishRecord(k) \/ Replayed(k)
  BY <1>3, CommandCalm, ListCalm, TakeCalm, ApplyCalm, PhaseFailsCalm, FinishCalm, ReplayedCalm
<1>4. CASE Refuse(k) \/ CommitFails(k) \/ MarkCommitted(k)
  BY <1>4, RefuseCalm, CommitFailsCalm, MarkCalm
<1>5. CASE FilesystemCommitObserved(k)
  BY <1>1, <1>5, ObservedCalm
<1>6. CASE SavePhase(k)
  BY <1>2, <1>6, SaveCalm
<1> QED
  BY <1>3, <1>4, <1>5, <1>6 DEF Calmly

LEMMA GoneStep ==
  ASSUME SettingsInv, EntryNext
  PROVE  GoneInv'
<1>1. EntryBase /\ GoneInv
  BY DEF SettingsInv
<1>2. ASSUME NEW k \in Workers, Calmly(k) PROVE GoneInv'
  BY <1>1, <1>2, CalmlyCalm, CalmGone
<1>3. ASSUME NEW k \in Workers, Create(k) \/ Prepare(k) \/ Commit(k) PROVE GoneInv'
  BY <1>1, <1>3, CreateGone, PrepareGone, CommitGone
<1>4. ASSUME NEW p \in Paths, SaveDraft(p) \/ ExternalPut(p) PROVE GoneInv'
  BY <1>1, <1>4, DraftCalm, CalmGone, PutGone
<1>5. JournalAges \/ Crash => GoneInv'
  BY <1>1, AgesCalm, CrashCalm, CalmGone
<1> QED
  BY <1>2, <1>3, <1>4, <1>5, EntrySteps

LEMMA EntryTurnStep ==
  ASSUME EntryBase, TakenInTurn, EntryNext, (\A i, j \in Running : i = j)'
  PROVE  TakenInTurn'
<1>1. ASSUME NEW k \in Workers, Calmly(k) PROVE TakenInTurn'
  <2>1. CASE Command(k) \/ List(k) \/ Take(k) \/ Apply(k) \/ PhaseFails(k) \/ FinishRecord(k)
    BY <2>1, CommandTurn, TakeTurn, ApplyTurn, FinishTurn
  <2>2. CASE Replayed(k) \/ Refuse(k) \/ CommitFails(k) \/ MarkCommitted(k) \/ FilesystemCommitObserved(k) \/ SavePhase(k)
    BY <2>2, ReplayedTurn, EndTurn, MarkTurn, ObservedTurn, SaveTurn
  <2> QED
    BY <1>1, <2>1, <2>2 DEF Calmly
<1>2. ASSUME NEW k \in Workers, Create(k) \/ Prepare(k) \/ Commit(k) PROVE TakenInTurn'
  BY <1>2, EndTurn, PrepareTurn, CommitTurn
<1>3. ASSUME NEW p \in Paths, SaveDraft(p) \/ ExternalPut(p) PROVE TakenInTurn'
  <2>1. UNCHANGED <<task, journals>>
    BY <1>3 DEF SaveDraft, ExternalPut
  <2> QED
    BY <2>1, RestTurns
<1>4. CASE JournalAges
  <2>1. UNCHANGED <<task, journals>>
    BY <1>4 DEF JournalAges
  <2> QED
    BY <2>1, RestTurns
<1> QED
  BY <1>1, <1>2, <1>3, <1>4, EntrySteps, CrashTurn

LEMMA AtOnceStep ==
  ASSUME EntryBase, AtOnceInv, EntryNext, AtOnce
  PROVE  AtOnceInv'
<1>1. ASSUME NEW k \in Workers, Calmly(k) PROVE AtOnceInv'
  <2>1. CASE Command(k) \/ List(k) \/ Take(k) \/ Apply(k) \/ PhaseFails(k) \/ FinishRecord(k)
    BY <2>1, CommandAtOnce, ListAtOnce, TakeAtOnce, ApplyAtOnce, PhaseFailsAtOnce, FinishAtOnce
  <2>2. CASE Replayed(k) \/ Refuse(k) \/ CommitFails(k) \/ MarkCommitted(k) \/ FilesystemCommitObserved(k) \/ SavePhase(k)
    BY <2>2, ReplayedAtOnce, RefuseAtOnce, CommitFailsAtOnce, MarkAtOnce, ObservedAtOnce, SaveAtOnce
  <2> QED
    BY <1>1, <2>1, <2>2 DEF Calmly
<1>2. ASSUME NEW k \in Workers, Create(k) \/ Prepare(k) \/ Commit(k) PROVE AtOnceInv'
  BY <1>2, CreateAtOnce, PrepareAtOnce, CommitAtOnce
<1>3. ASSUME NEW p \in Paths, SaveDraft(p) \/ ExternalPut(p) PROVE AtOnceInv'
  BY <1>3, DraftAtOnce, OthersAtOnce
<1> QED
  BY <1>1, <1>2, <1>3, EntrySteps, OthersAtOnce

LEMMA StepIsPlain ==
  ASSUME EntryBase, EntryNext, external' = 0
  PROVE  external = 0 /\ \A p \in Paths : ~ExternalPut(p)
<1>1. external \in Nat
  BY EntryTyped, BoundsAssumption DEF RestTyped
<1>2. external' \in {external, external + 1}
  BY DEF EntryNext, bounds, Command, List, Take, FilesystemCommitObserved, Apply, SavePhase, PhaseFails, FinishRecord, Replayed,
         Create, Prepare, Refuse, Commit, CommitFails, MarkCommitted, SaveDraft, ExternalPut, JournalAges, Crash
<1>3. \A p \in Paths : ~ExternalPut(p)
  BY <1>1 DEF ExternalPut
<1> QED
  BY <1>1, <1>2, <1>3

LEMMA OneByOneStep ==
  ASSUME OneStep, EntryNext
  PROVE  OneByOneInv'
<1>1. ASSUME NEW k \in Workers, Calmly(k) PROVE OneByOneInv'
  <2>1. CASE Command(k) \/ List(k) \/ Take(k) \/ Apply(k) \/ PhaseFails(k) \/ FinishRecord(k)
    BY <2>1, CommandOne, TakeOne, ApplyOne, FailsOne, FinishOne
  <2>2. CASE Replayed(k) \/ Refuse(k) \/ CommitFails(k) \/ MarkCommitted(k) \/ FilesystemCommitObserved(k) \/ SavePhase(k)
    BY <2>2, ReplayedOne, RefuseOne, CommitFailsOne, MarkOne, ObservedOne, SaveOne
  <2> QED
    BY <1>1, <2>1, <2>2 DEF Calmly
<1>2. ASSUME NEW k \in Workers, Create(k) \/ Prepare(k) \/ Commit(k) PROVE OneByOneInv'
  BY <1>2, CreateOne, PrepareOne, CommitOne
<1>3. ASSUME NEW p \in Paths, SaveDraft(p) PROVE OneByOneInv'
  BY <1>3, DraftOne
<1>4. CASE JournalAges
  BY <1>4, RestOne DEF JournalAges, OneStep
<1>5. \A p \in Paths : ~ExternalPut(p)
  BY StepIsPlain DEF OneStep
<1> QED
  BY <1>1, <1>2, <1>3, <1>4, <1>5, EntrySteps, CrashOne

\* At most one runs.
LEMMA OneRuns ==
  ASSUME OneByOne
  PROVE  (\A i, j \in Running : i = j)'
<1>1. ASSUME NEW i \in Running', NEW j \in Running', i # j PROVE FALSE
  <2>1. PICK S : S = Running'
    OBVIOUS
  <2>2. IsFiniteSet(S)
    BY <2>1, FewWorkers, FS_Subset DEF Running
  <2>3. IsFiniteSet({i}) /\ Cardinality({i}) = 1
    BY FS_Singleton
  <2>4. Cardinality({i} \cup {j}) = 2
    BY <1>1, <2>3, FS_AddElement
  <2>5. {i} \cup {j} \in SUBSET S
    BY <2>1
  <2>6. Cardinality({i} \cup {j}) <= Cardinality(S)
    BY <2>2, <2>5, FS_Subset
  <2>7. Cardinality(S) <= 1 /\ Cardinality(S) \in Nat
    BY <2>1, <2>2, FS_CardinalityType DEF OneByOne
  <2> QED
    BY <2>4, <2>6, <2>7
<1> QED
  BY <1>1

LEMMA EntryStep ==
  ASSUME EntryInv, SettingNext
  PROVE  EntryInv'
<1>1. SettingsInv /\ EntryBase /\ EntryNext /\ setting' = setting /\ setting \in {"one by one", "at once"}
  BY DEF EntryInv, SettingsInv, SettingNext
<1>2. EntryBase' /\ GoneInv'
  BY <1>1, EntryBaseStep, GoneStep
<1>3. CASE setting = "at once"
  <2>1. AtOnceInv /\ AtOnce
    BY <1>1, <1>3 DEF SettingsInv, SettingNext
  <2>2. AtOnceInv'
    BY <1>1, <2>1, AtOnceStep
  <2> QED
    BY <1>1, <1>2, <1>3, <2>2 DEF EntryInv, SettingsInv
<1>4. CASE setting = "one by one"
  <2>1. TakenInTurn /\ OneByOne
    BY <1>1, <1>4 DEF SettingsInv, SettingNext
  <2>2. TakenInTurn'
    BY <1>1, <2>1, OneRuns, EntryTurnStep
  <2>3. ASSUME Plain' PROVE OneByOneInv'
    <3>1. external' = 0 /\ external = 0
      BY <1>1, <2>3, StepIsPlain DEF Plain
    <3>2. OneStep
      BY <1>1, <1>4, <2>1, <2>2, <3>1 DEF OneStep, EntryInv, Plain
    <3> QED
      BY <1>1, <3>2, OneByOneStep
  <2> QED
    BY <1>1, <1>2, <1>4, <2>2, <2>3 DEF EntryInv, SettingsInv
<1> QED
  BY <1>1, <1>3, <1>4

LEMMA EntryStutter ==
  ASSUME EntryInv, UNCHANGED <<entryVars, setting>>
  PROVE  EntryInv'
<1>1. /\ UNCHANGED <<disk, trashed, rows, snaps, located, journals, old, task, launching, mutations, external, crashes, setting>>
      /\ UNCHANGED <<stores, bounds>>
  BY DEF entryVars, stores, bounds
<1>2. EntryBase' /\ GoneInv'
  <2>1. EntryBase /\ GoneInv
    BY DEF EntryInv, SettingsInv
  <2>2. Calm({}) /\ EntryBase'
    <3>1. RestTyped' /\ FilesAreApart' /\ mutations' >= mutations
      BY <1>1, <2>1, RestKept
    <3>2. EntryBase' /\ Copies' \subseteq Copies \cup {}
      BY <1>1, <2>1, <3>1, TasksRest, BaseKept
    <3> QED
      BY <1>1, <3>2, RestsCalmly DEF Calm
  <2> QED
    BY <2>1, <2>2, CalmGone
<1>3. setting = "at once" => AtOnceInv'
  <2>1. Copies' = Copies /\ Journals' = Journals
    BY <1>1 DEF Copies, Journals, Running
  <2>2. \A k : ((Acting(k))' <=> Acting(k)) /\ ((Written(k))' <=> Written(k)) /\ \A s : (Doing(k, s))' <=> Doing(k, s)
    BY <1>1 DEF Acting, Doing, Written
  <2>3. One => One'
    BY <1>1, <2>1, <2>2 DEF One
  <2>4. Alike => Alike'
    BY <1>1, <2>1, <2>2 DEF Alike
  <2>5. HistoryComes => HistoryComes'
    BY <1>1, <2>1, <2>2 DEF HistoryComes, Told
  <2> QED
    BY <1>1, <2>3, <2>4, <2>5 DEF EntryInv, SettingsInv, AtOnceInv
<1>4. setting = "one by one" => TakenInTurn'
  BY <1>1, RestTurns DEF EntryInv, SettingsInv
<1>5. setting = "one by one" /\ Plain => OneByOneInv'
  BY <1>1, RestOne DEF EntryInv
<1> QED
  BY <1>1, <1>2, <1>3, <1>4, <1>5 DEF EntryInv, SettingsInv, Plain

LEMMA EntryInvHolds == SettingSpec => []EntryInv
<1>1. EntryInv /\ [SettingNext]_<<entryVars, setting>> => EntryInv'
  BY EntryStep, EntryStutter
<1> QED
  BY <1>1, EntryInitInv, PTL DEF SettingSpec

\* What the modules of mutation_journal.rs and of workspace_entries keep together
\* is of the right type: in particular a replay never works on a record that is not one.
THEOREM EntriesAreTyped == SettingSpec => []EntryTypeOK
<1>1. EntryInv => EntryTypeOK
  BY DEF EntryInv, SettingsInv, EntryBase
<1> QED
  BY <1>1, EntryInvHolds, PTL

LEMMA HistoryTells == EntryInv => HistoryIsTold
<1> SUFFICES ASSUME EntryInv, Plain, NEW o \in Objects, located[o] # None, Elsewhere(o, located[o])
             PROVE  \E r \in Journals \cup {task[k].record : k \in Running} : r # None /\ r.object = o
  BY DEF HistoryIsTold
<1>1. EntryBase /\ FilesAreApart /\ located[o] \in Paths /\ None \notin Objects /\ setting \in {"one by one", "at once"}
  BY EntryTyped DEF EntryInv, SettingsInv, EntryBase, RestTyped
<1>2. disk[located[o]] # o
  BY <1>1 DEF Elsewhere, FilesAreApart
<1>3. \A r \in Journals : r # None
  BY DEF Journals
<1>4. CASE setting = "one by one"
  <2>1. Covers(located[o], o, "history")
    BY <1>2, <1>4 DEF EntryInv, OneByOneInv, StoresFollow
  <2> QED
    BY <1>3, <2>1 DEF Covers
<1>5. CASE setting = "at once"
  <2>1. AtOnceInv
    BY <1>5 DEF EntryInv, SettingsInv
  <2>2. o = f
    BY <2>1 DEF AtOnceInv, Alike
  <2>3. Journals # {}
    BY <1>2, <2>1, <2>2 DEF AtOnceInv, HistoryComes, Told
  <2>4. \A r \in Journals : r.object = f
    BY <1>1, <2>1, CopiesAre DEF AtOnceInv, Alike
  <2> QED
    BY <1>3, <2>2, <2>3, <2>4
<1> QED
  BY <1>1, <1>4, <1>5

LEMMA MetadataIsMoved == EntryInv /\ setting = "one by one" => MetadataFollows
<1> SUFFICES ASSUME EntryInv, setting = "one by one", Plain, Journals = {}, NEW p \in Paths
             PROVE  (rows[p] # None => ~Elsewhere(rows[p], p)) /\ (snaps[p] # None => ~Elsewhere(snaps[p], p))
  BY DEF MetadataFollows
<1>1. FilesAreApart /\ StoresFollow
  BY DEF EntryInv, SettingsInv, EntryBase, OneByOneInv
<1>2. (rows[p] # None => rows[p] = disk[p]) /\ (snaps[p] # None => snaps[p] = disk[p])
  BY <1>1 DEF StoresFollow, Covers
<1>3. disk[p] # None => ~Elsewhere(disk[p], p)
  BY <1>1 DEF Elsewhere, FilesAreApart
<1> QED
  BY <1>2, <1>3

\* A rename or a deletion of workspace_entries/mod.rs takes the index row, the draft,
\* the Recovery snapshots and the history of a drawing along, wherever a crash or a
\* store that fails interrupts the phases of mutation_journal.rs.
THEOREM StoresFollowFilesHolds == SettingSpec => []StoresFollowFiles
<1>1. EntryInv => StoresFollowFiles
  BY HistoryTells, MetadataIsMoved DEF StoresFollowFiles
<1> QED
  BY <1>1, EntryInvHolds, PTL

LEMMA HistoryEnds ==
  ASSUME EntryInv, SettingNext, NEW o \in Objects, located[o] # None, located'[o] = None, NEW p \in Paths
  PROVE  disk[p] # o
<1>1. EntryBase /\ GoneInv /\ EntryNext
  BY DEF EntryInv, SettingsInv, SettingNext
<1>2. located \in [Objects -> Paths \cup {None}] /\ None \notin Paths
  BY <1>1, EntryTyped DEF RestTyped
<1>3. PICK k \in Workers : Apply(k) /\ ApplyHistory(task[k].record)
  <2>1. ~UNCHANGED located
    OBVIOUS
  <2>2. \A q \in Paths : ~SaveDraft(q)
    <3>1. ASSUME NEW q \in Paths, SaveDraft(q) PROVE FALSE
      <4>1. located' = [located EXCEPT ![disk[q]] = q]
        BY <3>1 DEF SaveDraft
      <4> QED
        BY <1>2, <4>1
    <3> QED
      BY <3>1
  <2>3. \E k \in Workers : Apply(k)
    BY <1>1, <2>1, <2>2 DEF EntryNext, stores, Command, List, Take, FilesystemCommitObserved, SavePhase, PhaseFails, FinishRecord, Replayed,
         Create, Prepare, Refuse, Commit, CommitFails, MarkCommitted, ExternalPut, JournalAges, Crash
  <2>4. PICK k \in Workers : Apply(k)
    BY <2>3
  <2>5. ApplyHistory(task[k].record)
    BY <2>1, <2>4 DEF Apply, stores, ApplySqlite, ApplyRecovery
  <2> QED
    BY <2>4, <2>5
<1>4. PICK r : r = task[k].record
  OBVIOUS
<1>5. r \in Copies /\ r.committed /\ ApplyHistory(r)
  BY <1>1, <1>3, <1>4, ApplyShape
<1>6. r.kind = "rename" => r.to \in Paths
  BY <1>1, <1>5 DEF EntryBase, Numbered
<1>7. r.kind = "delete" /\ o = r.object
  BY <1>2, <1>5, <1>6 DEF ApplyHistory
<1> QED
  BY <1>1, <1>5, <1>7 DEF GoneInv, Gone

\* The deletion of a drawing ends the history of that one only: whichever drawing has
\* its path by the time that the record is replayed keeps its own.
THEOREM HistoryIsKeptHolds == SettingSpec => HistoryIsKept
<1> DEFINE Kept == \A o \in Objects : located[o] # None /\ located'[o] = None => \A p \in Paths : disk[p] # o
<1>1. EntryInv /\ [SettingNext]_<<entryVars, setting>> => [Kept]_entryVars
  <2> SUFFICES ASSUME EntryInv, SettingNext PROVE Kept
    BY DEF entryVars
  <2> QED
    BY HistoryEnds
<1> QED
  BY <1>1, EntryInvHolds, PTL DEF SettingSpec, HistoryIsKept
=============================================================================
