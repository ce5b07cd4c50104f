------------------------- MODULE MCWorkspaceCommands -------------------------
(* Two Workspaces side by side, no drawings: how folders lie is the         *)
(* registry's concern. History variables tell what has happened so far: has *)
(* a call been started while another ran, and if not, has a write failed?   *)
(* And were the calls that overlapped about different Workspaces?           *)
EXTENDS WorkspaceCommands, TLC

CONSTANTS here, there

VARIABLES past, apart

MCPath == {"/here", "/there"}
MCRoot == [w \in Workspace |-> IF w = here THEN "/here" ELSE "/there"]
MCInside == {<<p, p>> : p \in MCPath}

Symmetry == Permutations(Label) \union Permutations(Call)

\* The Workspaces that a call may mount, unmount, watch or put back.
Concerns(call) ==
  ({workspace[call.label]} \union IF call \in ClaimCall THEN {call.target} \union call.replaced
                                  ELSE {call.previous, call.released}) \ {NoWorkspace}

\* Two calls of different windows have no Workspace in common; two of the same
\* window are its clean-up and what its destruction has interrupted.
Apart ==
  \A c, d \in Call : c # d /\ ~At(c, "idle") /\ ~At(d, "idle") =>
    IF calls[c].label = calls[d].label
    THEN \E e \in {c, d} : calls[e] \in ReleaseCall /\ calls[e].destroys
    ELSE Concerns(calls[c]) \intersect Concerns(calls[d]) = {}

PastInit == CommandsInit /\ past = "in turn, all well" /\ apart = TRUE

Follow == apart' = (apart /\ Apart')

ReliableNext ==
  \/ /\ Start
     /\ past' = IF Quiet THEN past ELSE "overlapping"
     /\ Follow
  \/ (\E c \in Call : Step(c)) /\ UNCHANGED past /\ Follow

PastNext ==
  \/ ReliableNext
  \/ /\ \E c \in Call : WriteFails(c)
     /\ past' = IF past = "overlapping" THEN past ELSE "in turn"
     /\ Follow

PastSpec == PastInit /\ [][PastNext]_<<allVars, past, apart>>

\* Commands that ran one after the other leave every held Workspace with its
\* `mounted` row and its watcher, whichever of their writes failed.
ServedInTurn == past # "overlapping" => HeldIsServed

\* If none failed, the rows and the watchers are those of held Workspaces only.
AgreesInTurn == past = "in turn, all well" => MountedAgrees /\ WatchedIsClaimed

\* What commands that did not overlap owe the database and the watchers.
StoresFollowInTurn == ServedInTurn /\ AgreesInTurn

\* Whatever writes fail, windows that open and close different Workspaces at the
\* same time, and windows destroyed over a claim or a closing of their own, leave
\* nothing to a window that is gone, and every held Workspace with its `mounted`
\* row and its watcher (claim_for_window, release_for_window, Destroyed). Exempt
\* are the rows and watchers of Workspaces that nobody holds: a claim that goes on
\* for a destroyed window leaves both.
LiveOwnersAreServed == OwnersLive /\ (apart => HeldIsServed)
=============================================================================
