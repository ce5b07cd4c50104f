--------------------------- MODULE WindowRegistry ---------------------------
(***************************************************************************)
(* The process-wide WindowRegistry (src-tauri/src/window/registry.rs): the *)
(* one authority for which window holds which Workspace and which drawing. *)
(* Every method runs inside one mutex, so every method is one step.        *)
(*                                                                         *)
(* A claim is followed, outside the mutex, by a database write that may    *)
(* fail (commands/workspace.rs, claim_for_window). The call that claims    *)
(* keeps a ClaimRollback meanwhile; `undo` holds those still outstanding.  *)
(***************************************************************************)
CONSTANTS
  Label,        \* window labels, window-1, window-2, ...
  Workspace,    \* ids of the retained Workspace records
  Path,         \* canonical paths, of folders and of drawings
  Drawing,      \* the paths of drawings
  Root,         \* Root[w] is the canonical root folder of Workspace w
  Inside,       \* <<p, q>> \in Inside iff p.starts_with(q)
  NoWindow,     \* the value of an index that names no window
  NoWorkspace,  \* the value of a window that holds no Workspace
  NoUndo,       \* the value of a call that keeps no undo record
  Call          \* bound of the model: calls that may be under way at once

ASSUME RootAssumption == Root \in [Workspace -> Path]
ASSUME InsideAssumption ==
  /\ Inside \subseteq Path \X Path
  /\ \A p \in Path : <<p, p>> \in Inside
ASSUME DrawingAssumption == Drawing \subseteq Path

Rollback == [label    : Label,
             claimed  : Workspace,
             previous : Workspace \union {NoWorkspace}]

ASSUME NoneAssumption ==
  NoWindow \notin Label /\ NoWorkspace \notin Workspace /\ NoUndo \notin Rollback

VARIABLES
  open,            \* labels of the registered windows
  workspace,       \* the Workspace each window holds
  documents,       \* the drawings each window holds
  workspaceOwner,  \* index: Workspace id -> window
  documentOwner,   \* index: drawing -> window
  undo             \* the undo record each call keeps while its claim is persisted

indexes == <<workspace, documents, workspaceOwner, documentOwner>>
vars == <<open, indexes, undo>>

TypeOK ==
  /\ open \subseteq Label
  /\ workspace \in [Label -> Workspace \union {NoWorkspace}]
  /\ documents \in [Label -> SUBSET Drawing]
  /\ workspaceOwner \in [Workspace -> Label \union {NoWindow}]
  /\ documentOwner \in [Drawing -> Label \union {NoWindow}]
  /\ undo \in [Call -> Rollback \union {NoUndo}]

Init ==
  /\ open = {}
  /\ workspace = [l \in Label |-> NoWorkspace]
  /\ documents = [l \in Label |-> {}]
  /\ workspaceOwner = [w \in Workspace |-> NoWindow]
  /\ documentOwner = [p \in Drawing |-> NoWindow]
  /\ undo = [c \in Call |-> NoUndo]

-----------------------------------------------------------------------------
(* What the methods decide with. *)

Overlap(p, q) == <<p, q>> \in Inside \/ <<q, p>> \in Inside

\* A slip of Conflicting: only the very same folder is a conflict.
ConflictingSameFolderOnly(l, p) ==
  {m \in open \ {l} : workspace[m] # NoWorkspace /\ p = Root[workspace[m]]}

\* The windows other than l whose Workspace stops l from opening folder p.
\* Equal ids have equal roots, so the same Workspace is the same folder.
Conflicting(l, p) ==
  {m \in open \ {l} : workspace[m] # NoWorkspace /\ Overlap(p, Root[workspace[m]])}

Claimable(l, w) == l \in open /\ Conflicting(l, Root[w]) = {}

\* Some window other than l has a Workspace that contains the drawing p.
InOthersWorkspace(l, p) ==
  \E m \in open \ {l} : workspace[m] # NoWorkspace /\ <<p, Root[workspace[m]]>> \in Inside

\* The workspace index once l holds w, and no longer what it held before.
IndexAfter(l, w) ==
  [v \in Workspace |-> IF v = w THEN l
                       ELSE IF v = workspace[l] THEN NoWindow
                       ELSE workspaceOwner[v]]

SetWorkspace(l, w) ==
  /\ workspace' = [workspace EXCEPT ![l] = w]
  /\ workspaceOwner' = IndexAfter(l, w)

-----------------------------------------------------------------------------
(* The methods. *)

\* allocate_label, then register: the label is the caller's alone in between.
\* Labels are never reused. Label stands for the ones something still names: a
\* label that neither a window nor an undo record names any more is as good as
\* one that was never allocated.
Register(l) ==
  /\ l \notin open
  /\ \A c \in Call : undo[c] # NoUndo => undo[c].label # l
  /\ open' = open \union {l}
  /\ UNCHANGED <<indexes, undo>>

\* A slip of Unregister: the drawings of the window stay in their index.
UnregisterKeepsDrawings(l) ==
  /\ l \in open
  /\ open' = open \ {l}
  /\ workspace' = [workspace EXCEPT ![l] = NoWorkspace]
  /\ documents' = [documents EXCEPT ![l] = {}]
  /\ workspaceOwner' = [w \in Workspace |-> IF w = workspace[l] THEN NoWindow
                                            ELSE workspaceOwner[w]]
  /\ UNCHANGED <<documentOwner, undo>>

\* A destroyed window, or one whose native window could not be built.
Unregister(l) ==
  /\ l \in open
  /\ open' = open \ {l}
  /\ workspace' = [workspace EXCEPT ![l] = NoWorkspace]
  /\ documents' = [documents EXCEPT ![l] = {}]
  /\ workspaceOwner' = [w \in Workspace |-> IF w = workspace[l] THEN NoWindow
                                            ELSE workspaceOwner[w]]
  /\ documentOwner' = [p \in Drawing |-> IF p \in documents[l] THEN NoWindow
                                      ELSE documentOwner[p]]
  /\ UNCHANGED undo

\* Decide and commit in one critical section.
CommitClaim(l, w) ==
  /\ Claimable(l, w)
  /\ SetWorkspace(l, w)
  /\ UNCHANGED <<open, documents, documentOwner>>

UndoRecord(l, w) == [label |-> l, claimed |-> w, previous |-> workspace[l]]

\* The call keeps the undo record until the `mounted` write has answered.
Claim(c, l, w) ==
  /\ undo[c] = NoUndo
  /\ CommitClaim(l, w)
  /\ undo' = [undo EXCEPT ![c] = UndoRecord(l, w)]

\* A claim that nothing is written for: its undo record is dropped at once.
ClaimForGood(l, w) == CommitClaim(l, w) /\ UNCHANGED undo

\* The `mounted` write of the claim succeeded: the undo record is dropped.
MountWritten(c) ==
  /\ undo[c] # NoUndo
  /\ undo' = [undo EXCEPT ![c] = NoUndo]
  /\ UNCHANGED <<open, indexes>>

\* What a rollback restores: the previous Workspace, while no window owns its id.
Restored(r) ==
  IF r.previous # NoWorkspace /\ workspaceOwner[r.previous] # NoWindow
  THEN NoWorkspace ELSE r.previous

\* The `mounted` write of the claim failed: rollback_claim, which does nothing
\* when the window no longer holds what it claimed.
RollbackClaim(c) ==
  LET r == undo[c] IN
  /\ r # NoUndo
  /\ \/ /\ workspace[r.label] = r.claimed
        /\ SetWorkspace(r.label, Restored(r))
     \/ /\ workspace[r.label] # r.claimed
        /\ UNCHANGED <<workspace, workspaceOwner>>
  /\ undo' = [undo EXCEPT ![c] = NoUndo]
  /\ UNCHANGED <<open, documents, documentOwner>>

ReleaseWorkspace(l) ==
  /\ l \in open
  /\ SetWorkspace(l, NoWorkspace)
  /\ UNCHANGED <<open, documents, documentOwner, undo>>

ClaimDocument(l, p) ==
  /\ l \in open
  /\ documentOwner[p] = NoWindow
  /\ ~InOthersWorkspace(l, p)
  /\ documentOwner' = [documentOwner EXCEPT ![p] = l]
  /\ documents' = [documents EXCEPT ![l] = @ \union {p}]
  /\ UNCHANGED <<open, workspace, workspaceOwner, undo>>

ReleaseDocument(l, p) ==
  /\ documentOwner[p] = l
  /\ documentOwner' = [documentOwner EXCEPT ![p] = NoWindow]
  /\ documents' = [documents EXCEPT ![l] = @ \ {p}]
  /\ UNCHANGED <<open, workspace, workspaceOwner, undo>>

MethodOf(l) ==
  \/ Register(l)
  \/ Unregister(l)
  \/ ReleaseWorkspace(l)
  \/ \E w \in Workspace : ClaimForGood(l, w) \/ \E c \in Call : Claim(c, l, w)
  \/ \E p \in Drawing : ClaimDocument(l, p)
  \/ \E p \in Drawing : ReleaseDocument(l, p)

NextWritesSucceed ==
  \/ \E l \in Label : MethodOf(l)
  \/ \E c \in Call : MountWritten(c)

Next ==
  \/ NextWritesSucceed
  \/ \E c \in Call : RollbackClaim(c)

Spec == Init /\ [][Next]_vars

-----------------------------------------------------------------------------
(* Properties. *)

\* The two indexes and the window records say the same, in both directions,
\* and only registered windows hold anything: the first three parts of
\* RegistryState::invariant_violation.
IndexesInStep ==
  /\ \A w \in Workspace, l \in Label : workspaceOwner[w] = l <=> workspace[l] = w
  /\ \A p \in Drawing, l \in Label : documentOwner[p] = l <=> p \in documents[l]
  /\ \A l \in Label \ open : workspace[l] = NoWorkspace /\ documents[l] = {}

\* No two windows hold Workspaces of which one contains the other: the last
\* part of invariant_violation.
RootsDisjoint ==
  \A l, m \in Label :
    (l # m /\ workspace[l] # NoWorkspace /\ workspace[m] # NoWorkspace)
      => ~Overlap(Root[workspace[l]], Root[workspace[m]])

\* Workspaces that do not overlap keep from it, whatever is claimed, replaced
\* and released: only a claim that is rolled back can bring an overlap about.
OnlyRollbackOverlaps ==
  [][RootsDisjoint => RootsDisjoint' \/ \E c \in Call : RollbackClaim(c)]_vars

LetGoFirst(before, after) == before \in {NoWindow, after} \/ after = NoWindow

\* A Workspace or a drawing never passes from one window to another in one
\* step of registry.rs: the first window lets go of it before the second has it.
NoTakeover ==
  [][/\ \A w \in Workspace : LetGoFirst(workspaceOwner[w], workspaceOwner'[w])
     /\ \A p \in Drawing : LetGoFirst(documentOwner[p], documentOwner'[p])]_vars
=============================================================================
