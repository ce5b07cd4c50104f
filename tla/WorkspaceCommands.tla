-------------------------- MODULE WorkspaceCommands --------------------------
(***************************************************************************)
(* The commands that open and close a Workspace in a window, and the task  *)
(* that cleans up after a destroyed window: claim_for_window and           *)
(* release_for_window (src-tauri/src/commands/workspace.rs) and the        *)
(* Destroyed handler (src-tauri/src/lib.rs).                               *)
(*                                                                         *)
(* Each is an async function: it takes the registry's lock, lets go of it, *)
(* awaits the database and awaits the table of watcher tasks. A call is    *)
(* one slot of `calls`, and each stretch between two awaits (or two        *)
(* acquisitions of a lock) is one step, so calls interleave as they do.    *)
(* The database applies transactions one after the other, in the order in  *)
(* which they are sent; a call hears the answer in a later step.           *)
(***************************************************************************)
EXTENDS WindowRegistry

VARIABLES
  mounted,   \* the workspaces rows whose `mounted` is set
  watched,   \* the Workspaces whose watcher task is in the table of tasks
  leaked,    \* the Workspaces whose running watcher task the table has lost
  gone,      \* the windows whose native window is destroyed
  calls      \* what each call is doing

services == <<mounted, watched, leaked>>
allVars == <<vars, services, gone, calls>>

MaybeWorkspace == Workspace \union {NoWorkspace}
Idle == [at |-> "idle"]
ClaimCall == [at       : {"probed", "held read", "committed", "mounted", "stopped"},
              label    : Label,
              target   : Workspace,
              held     : BOOLEAN,
              replaced : SUBSET Workspace]
ReleaseCall == [at       : {"release", "released", "unmounted", "unregister"},
                label    : Label,
                previous : MaybeWorkspace,
                released : MaybeWorkspace,
                destroys : BOOLEAN]

CommandsTypeOK ==
  /\ TypeOK
  /\ mounted \subseteq Workspace
  /\ watched \subseteq Workspace
  /\ leaked \subseteq Workspace
  /\ gone \subseteq Label
  /\ calls \in [Call -> {Idle} \union ClaimCall \union ReleaseCall]

CommandsInit ==
  /\ Init
  /\ mounted = {} /\ watched = {} /\ leaked = {}
  /\ gone = {}
  /\ calls = [c \in Call |-> Idle]

-----------------------------------------------------------------------------
At(c, place) == calls[c].at = place
Become(c, call) == calls' = [calls EXCEPT ![c] = call]
Goto(c, place) == calls' = [calls EXCEPT ![c].at = place]
Quiet == \A c \in Call : At(c, "idle")

\* A fresh window. A label is never given twice, so no call may still name it.
OpenWindow(l) ==
  /\ \A c \in Call : calls[c] # Idle => calls[c].label # l
  /\ Register(l)
  /\ gone' = gone \ {l}
  /\ UNCHANGED <<services, calls>>

\* claim_for_window: the probe, and the record if the folder was never opened.
\* A live window asks, or its peer's clean-up does once it made way for it.
StartClaim(c, l, w) ==
  /\ At(c, "idle")
  /\ l \notin gone
  /\ Claimable(l, w)
  /\ Become(c, [at |-> "probed", label |-> l, target |-> w,
                held |-> FALSE, replaced |-> {}])
  /\ UNCHANGED <<vars, services, gone>>

\* `already_held` is read in a critical section of its own.
ReadHeld(c) ==
  /\ At(c, "probed")
  /\ Become(c, [calls[c] EXCEPT !.at = "held read",
                                !.held = workspace[calls[c].label] = calls[c].target])
  /\ UNCHANGED <<vars, services, gone>>

\* What the claim replaces: the Workspace it takes the place of, if another.
Replaces(l, w) == {workspace[l]} \ {NoWorkspace, w}

\* registry.claim: declined now, or committed. Claiming what the window holds
\* already changes nothing and writes nothing.
CommitOwnership(c) ==
  LET call == calls[c] IN
  /\ At(c, "held read")
  /\ \/ /\ ~Claimable(call.label, call.target)
        /\ Become(c, Idle)
        /\ UNCHANGED vars
     \/ /\ call.held
        /\ ClaimForGood(call.label, call.target)
        /\ Become(c, Idle)
     \/ /\ ~call.held
        /\ Claim(c, call.label, call.target)
        /\ Become(c, [call EXCEPT !.at = "committed",
                                  !.replaced = Replaces(call.label, call.target)])
  /\ UNCHANGED <<services, gone>>

\* A slip of MountTarget: the replaced Workspace keeps its `mounted`.
MountTargetOnly(c) ==
  /\ At(c, "committed")
  /\ MountWritten(c)
  /\ mounted' = mounted \union {calls[c].target}
  /\ Goto(c, "mounted")
  /\ UNCHANGED <<watched, leaked, gone>>

\* workspace_mount_transition: both rows in one transaction.
MountTarget(c) ==
  /\ At(c, "committed")
  /\ MountWritten(c)
  /\ mounted' = (mounted \ calls[c].replaced) \union {calls[c].target}
  /\ Goto(c, "mounted")
  /\ UNCHANGED <<watched, leaked, gone>>

\* The transaction fails and the claim is rolled back.
MountFails(c) ==
  /\ At(c, "committed")
  /\ RollbackClaim(c)
  /\ Become(c, Idle)
  /\ UNCHANGED <<services, gone>>

\* stop_for_workspace aborts the task the table knows, and no other.
StopReplaced(c) ==
  /\ At(c, "mounted")
  /\ watched' = watched \ calls[c].replaced
  /\ Goto(c, "stopped")
  /\ UNCHANGED <<vars, mounted, leaked, gone>>

\* spawn_for_workspace: the new task takes the place of a task already there,
\* which then runs on with nothing to stop it.
SpawnWatcher(c) ==
  /\ At(c, "stopped")
  /\ leaked' = leaked \union (watched \intersect {calls[c].target})
  /\ watched' = watched \union {calls[c].target}
  /\ Become(c, Idle)
  /\ UNCHANGED <<vars, mounted, gone>>

-----------------------------------------------------------------------------
\* release_for_window first reads what it may have to put back.
StartRelease(c, l, destroys) ==
  /\ At(c, "idle")
  /\ Become(c, [at |-> "release", label |-> l, previous |-> workspace[l],
                released |-> NoWorkspace, destroys |-> destroys])
  /\ UNCHANGED <<vars, services>>

CloseWorkspace(c, l) ==
  /\ l \in open \ gone
  /\ StartRelease(c, l, FALSE)
  /\ UNCHANGED gone

\* The native window is destroyed; the clean-up task starts.
DestroyWindow(c, l) ==
  /\ l \in open \ gone
  /\ StartRelease(c, l, TRUE)
  /\ gone' = gone \union {l}

\* Where a release goes when it has nothing more to do.
AfterRelease(call) ==
  IF call.destroys THEN [call EXCEPT !.at = "unregister"] ELSE Idle

\* registry.release_workspace: an error if the window is no longer known,
\* nothing to do if it holds no Workspace.
ReleaseOwnership(c) ==
  LET call == calls[c] IN
  /\ At(c, "release")
  /\ \/ /\ call.label \notin open
        /\ Become(c, AfterRelease(call))
        /\ UNCHANGED vars
     \/ /\ ReleaseWorkspace(call.label)
        /\ Become(c, IF workspace[call.label] = NoWorkspace THEN AfterRelease(call)
                     ELSE [call EXCEPT !.at = "released",
                                       !.released = workspace[call.label]])
  /\ UNCHANGED <<services, gone>>

Unmount(c) ==
  /\ At(c, "released")
  /\ mounted' = mounted \ {calls[c].released}
  /\ Goto(c, "unmounted")
  /\ UNCHANGED <<vars, watched, leaked, gone>>

\* A slip of UnmountFails: the Workspace is put back, whoever has it by now.
UnmountFailsRegardless(c) ==
  LET call == calls[c] IN
  /\ At(c, "released")
  /\ SetWorkspace(call.label, call.previous)
  /\ Become(c, AfterRelease(call))
  /\ UNCHANGED <<open, documents, documentOwner, undo, services, gone>>

\* The transaction fails and the claim is put back, unless that is declined.
UnmountFails(c) ==
  LET call == calls[c]
      reclaimed == {w \in {call.previous} \ {NoWorkspace} : Claimable(call.label, w)}
  IN
  /\ At(c, "released")
  /\ \/ \E w \in reclaimed : ClaimForGood(call.label, w)
     \/ reclaimed = {} /\ UNCHANGED vars
  /\ Become(c, AfterRelease(call))
  /\ UNCHANGED <<services, gone>>

StopReleased(c) ==
  /\ At(c, "unmounted")
  /\ watched' = watched \ {calls[c].released}
  /\ Become(c, AfterRelease(calls[c]))
  /\ UNCHANGED <<vars, mounted, leaked, gone>>

\* The clean-up task forgets the window, whatever the release answered.
ForgetWindow(c) ==
  /\ At(c, "unregister")
  /\ \/ Unregister(calls[c].label)
     \/ calls[c].label \notin open /\ UNCHANGED vars
  /\ Become(c, Idle)
  /\ UNCHANGED <<services, gone>>

-----------------------------------------------------------------------------
Start ==
  \/ \E l \in Label : OpenWindow(l)
  \/ \E c \in Call, l \in Label :
       \/ CloseWorkspace(c, l)
       \/ DestroyWindow(c, l)
       \/ \E w \in Workspace : StartClaim(c, l, w)

Step(c) ==
  \/ ReadHeld(c) \/ CommitOwnership(c) \/ MountTarget(c)
  \/ StopReplaced(c) \/ SpawnWatcher(c)
  \/ ReleaseOwnership(c) \/ Unmount(c) \/ StopReleased(c) \/ ForgetWindow(c)

WriteFails(c) == MountFails(c) \/ UnmountFails(c)

CommandsNext == Start \/ \E c \in Call : Step(c) \/ WriteFails(c)

CommandsSpec == CommandsInit /\ [][CommandsNext]_allVars

-----------------------------------------------------------------------------
(* Properties. *)

Owned == {w \in Workspace : workspaceOwner[w] # NoWindow}

\* With no call under way, nothing belongs to a window that is destroyed or
\* forgotten, however its own claims and closings, their failures and rollbacks,
\* fell together with its clean-up (lib.rs, Destroyed).
OwnersLive == Quiet => \A w \in Owned : workspaceOwner[w] \in open \ gone

\* With no call under way, a Workspace some window holds is mounted and
\* watched: what the error paths of both commands must restore, since the
\* window goes on working in it (claim_for_window, release_for_window).
HeldIsServed == Quiet => Owned \subseteq mounted \intersect watched

\* "The registry commit and the `mounted` write happen together" (ADR-010):
\* with no call under way, the rows say what the registry says.
MountedAgrees == Quiet => mounted = Owned

\* "A watcher runs only for a claimed Workspace" (ADR-010).
WatchedIsClaimed == Quiet => watched \union leaked \subseteq Owned
=============================================================================
