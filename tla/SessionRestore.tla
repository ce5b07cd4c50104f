---------------------------- MODULE SessionRestore ----------------------------
(* What comes back at the next launch: the stored Window Session               *)
(* (window/session.rs), its restoration in setup or after Recovery             *)
(* (lib.rs, window/mod.rs), the handshake that hands each window its tabs      *)
(* (window/registry.rs, commands/session.rs, src/app/openFileHandler.ts) and   *)
(* the reports that store it again (src/app/windowSession.ts).  Tabs and       *)
(* Workspaces are modelled, not the order of tabs and the active one; a write  *)
(* of the session is one step here (WindowSession has its queue).              *)
EXTENDS Naturals

CONSTANTS
  Drawing, Workspace, None,
  Home,         \* the Workspace a drawing lies in, or None
  MaxWindows, MaxEvents   \* windows of one run; events of users and of the disk

VARIABLES
  files, roots,   \* the drawings and the Workspaces' folders there are
  stored,         \* window_session: an entry, or nothing, at each place
  phase,          \* "down", "recovery", "restoring" or "up"
  plan,           \* the windows restore_session has yet to create
  windows,        \* the registry's, by label number, with their frontends
  held, scheduled,   \* SessionWriter
  mounted,        \* workspaces.mounted
  caller,         \* the window that has finished Recovery, or None
  labels,         \* how many labels this run has allocated
  created,        \* windows this restoration has created
  awaited,        \* history: drawings that are to be around
  stranded,       \* history: Workspaces whose window could not be built
  events

restoreVars == <<files, roots, stored, phase, plan, windows, held, scheduled, mounted,
                 caller, labels, created, awaited, stranded, events>>

Optional == Workspace \union {None}
Entry == [workspace : Optional, tabs : SUBSET Drawing]
Nothing == [workspace |-> None, tabs |-> {}]
Label == 1..MaxWindows

\* A window: registered, bootstrapped, opening its tabs.  `tabs` are what it
\* shows, and so owns; `session_tabs` what it has reported.
WindowRecord ==
  [role : {"normal", "recovery"}, workspace : Optional, unavailable : Optional,
   restore : SUBSET Drawing, bootstrapped : BOOLEAN, opening : SUBSET Drawing,
   tabs : SUBSET Drawing, session_tabs : SUBSET Drawing]

RestoreTypeOK ==
  /\ files \subseteq Drawing /\ roots \subseteq Workspace
  /\ stored \in [Label -> Entry] /\ plan \in [Label -> Entry]
  /\ phase \in {"down", "recovery", "restoring", "up"}
  /\ windows \in [Label -> WindowRecord \union {None}]
  /\ held \in BOOLEAN /\ scheduled \in BOOLEAN
  /\ mounted \subseteq Workspace /\ stranded \subseteq Workspace
  /\ awaited \subseteq Drawing
  /\ caller \in Label \union {None}
  /\ labels \in 0..MaxWindows /\ created \in Nat /\ events \in 0..MaxEvents

Tabs(entries) == UNION {entries[i].tabs : i \in Label}
Restorable(e) == e.workspace # None \/ e.tabs # {}
NoPlan == [i \in Label |-> Nothing]

\* Bound: two windows at most are stored at first.
RestoreInit ==
  /\ files = Drawing /\ roots = Workspace
  /\ stored \in [Label -> Entry]
  /\ \A i, j \in Label : i < j =>
       /\ Restorable(stored[j]) => Restorable(stored[i]) /\ j <= 2
       /\ stored[i].tabs \intersect stored[j].tabs = {}
       /\ stored[i].workspace = None \/ stored[i].workspace # stored[j].workspace
  /\ phase = "down" /\ plan = NoPlan
  /\ windows = [w \in Label |-> None]
  /\ held = FALSE /\ scheduled = FALSE
  /\ mounted \in SUBSET ({stored[i].workspace : i \in Label} \ {None})
  /\ caller = None /\ labels = 0 /\ created = 0
  /\ awaited = Tabs(stored) /\ stranded = {} /\ events = 0

Registered == {w \in Label : windows[w] # None}
Owners(d) == {w \in Registered : d \in windows[w].tabs}
Holders(a) == {w \in Registered : windows[w].workspace = a}
Event == events < MaxEvents /\ events' = events + 1

\* allocate_label: labels are never used twice in a run.
Allocate(w) == w = labels + 1 /\ labels' = w

Registering(role, a, unavailable, restore) ==
  [role |-> role, workspace |-> a, unavailable |-> unavailable, restore |-> restore,
   bootstrapped |-> FALSE, opening |-> {}, tabs |-> {}, session_tabs |-> {}]

-----------------------------------------------------------------------------
(* The plan. *)

\* What restore_session leaves where it is: what Recovery's window has.
NotOwned(e) ==
  [workspace |-> IF e.workspace # None /\ Holders(e.workspace) # {} THEN None ELSE e.workspace,
   tabs |-> {d \in e.tabs : Owners(d) = {}}]

\* A slip of plan_restore: the tabs of a Workspace that is not there go with it.
PlanWithWorkspaces(entries) ==
  [i \in Label |->
     [workspace |-> entries[i].workspace,
      tabs |-> {d \in entries[i].tabs \intersect files :
                  entries[i].workspace = None \/ entries[i].workspace \in roots}]]

\* plan_restore: a Workspace goes to the first entry that names it, a drawing
\* to the first that lists it, and files that are not there are passed over.
\* Whether a Workspace can be opened is for RestoreWindow.
plan_restore(entries) ==
  [i \in Label |->
     [workspace |-> IF \E j \in 1..(i - 1) : entries[j].workspace = entries[i].workspace
                    THEN None ELSE entries[i].workspace,
      tabs |-> {d \in entries[i].tabs \intersect files : \A j \in 1..(i - 1) : d \notin entries[j].tabs}]]

\* The next window of the plan, and the plan without it.
NextPlanned(i) == Restorable(plan[i]) /\ \A j \in 1..(i - 1) : ~Restorable(plan[j])
Taken(i) == plan' = [plan EXCEPT ![i] = Nothing]

-----------------------------------------------------------------------------
(* Launching. *)

\* setup: after an abnormal exit only the Recovery window opens, and the
\* Workspaces stay mounted; the stored session is not replaced before the end
\* of the restoration.
Launch(abnormal) ==
  /\ phase = "down"
  /\ held' = TRUE /\ scheduled' = FALSE /\ caller' = None /\ created' = 0 /\ stranded' = {}
  /\ awaited' = awaited \intersect files
  /\ IF abnormal
     THEN /\ phase' = "recovery" /\ plan' = NoPlan
          /\ windows' = [windows EXCEPT ![1] = Registering("recovery", None, None, {})]
          /\ labels' = 1 /\ UNCHANGED mounted
     ELSE /\ phase' = "restoring" /\ plan' = plan_restore(stored)
          /\ mounted' = {} /\ labels' = 0 /\ UNCHANGED windows
  /\ UNCHANGED <<files, roots, stored, events>>

\* A slip of FinishRecovery: what is mounted is left as Recovery needed it.
FinishRecoveryMounted(w) ==
  /\ phase = "recovery" /\ w \in Registered /\ windows[w].role = "recovery"
  /\ phase' = "restoring" /\ caller' = w
  /\ windows' = [windows EXCEPT ![w].role = "normal"]
  /\ plan' = plan_restore([i \in Label |-> NotOwned(stored[i])])
  /\ UNCHANGED <<files, roots, stored, held, scheduled, mounted, labels, created, awaited,
                 stranded, events>>

\* finish_recovery: rows kept for Recovery are cleared, and what is stored is
\* planned, but for what is open already.
FinishRecovery(w) ==
  /\ phase = "recovery" /\ w \in Registered /\ windows[w].role = "recovery"
  /\ phase' = "restoring" /\ caller' = w
  /\ windows' = [windows EXCEPT ![w].role = "normal"]
  /\ mounted' = {a \in mounted : Holders(a) # {}}
  /\ plan' = plan_restore([i \in Label |-> NotOwned(stored[i])])
  /\ UNCHANGED <<files, roots, stored, held, scheduled, labels, created, awaited, stranded, events>>

\* One round of restore_session: the window is registered, its Workspace is
\* claimed if it can be, its tabs are put by for the handshake, it is shown.
RestoreWindow(w) ==
  /\ phase = "restoring" /\ Allocate(w)
  /\ \E i \in Label :
       LET e == plan[i]
           a == IF e.workspace \in roots /\ Holders(e.workspace) = {} THEN e.workspace ELSE None IN
       /\ NextPlanned(i) /\ Taken(i)
       /\ windows' = [windows EXCEPT ![w] =
            Registering("normal", a, IF a = None THEN e.workspace ELSE None, e.tabs)]
       /\ mounted' = mounted \union ({a} \ {None})
  /\ created' = created + 1
  /\ UNCHANGED <<files, roots, stored, phase, held, scheduled, caller, awaited, stranded, events>>

\* build_window fails, after the claim: it unregisters the window, so that the
\* release that follows finds nothing to unmount.
RestoreFails ==
  /\ phase = "restoring" /\ Event
  /\ \E i \in Label :
       LET claimed == {a \in roots : a = plan[i].workspace /\ Holders(a) = {}} IN
       /\ NextPlanned(i) /\ Taken(i)
       /\ mounted' = mounted \union claimed /\ stranded' = stranded \union claimed
       /\ awaited' = awaited \ plan[i].tabs
  /\ UNCHANGED <<files, roots, stored, phase, windows, held, scheduled, caller, labels, created>>

\* session_snapshot: the windows in the order of their labels, each at the
\* place of its label; of an empty one nothing is stored.
Snapshot ==
  [w \in Label |-> IF windows[w] = None THEN Nothing
                   ELSE [workspace |-> windows[w].workspace, tabs |-> windows[w].session_tabs]]

\* setup is over: with no window to restore, there is an empty one.
RestoredAtStart ==
  /\ phase = "restoring" /\ plan = NoPlan /\ caller = None
  /\ phase' = "up" /\ held' = FALSE
  /\ IF created > 0 THEN UNCHANGED <<windows, labels>>
     ELSE \E w \in Label :
            Allocate(w) /\ windows' = [windows EXCEPT ![w] = Registering("normal", None, None, {})]
  /\ UNCHANGED <<files, roots, plan, stored, scheduled, mounted, caller, created, awaited,
                 stranded, events>>

\* The end of finish_recovery: the session is written before the new windows
\* have reported, and the Recovery window is closed if it is empty and others
\* have come, unless its frontend has something to keep it open for.
RestoredAfterRecovery ==
  LET empty == {w \in Registered : w = caller /\ created > 0
                                   /\ windows[w].workspace = None /\ windows[w].tabs = {}} IN
  /\ phase = "restoring" /\ plan = NoPlan /\ caller # None
  /\ phase' = "up" /\ held' = FALSE
  /\ stored' = Snapshot
  /\ \E closing \in SUBSET empty :
       windows' = [w \in Label |-> IF w \in closing THEN None ELSE windows[w]]
  /\ UNCHANGED <<files, roots, plan, scheduled, mounted, caller, labels, created, awaited, stranded, events>>

-----------------------------------------------------------------------------
(* The windows. *)

\* take_bootstrap: what was put by is handed out once.
Handshake(w) ==
  /\ phase # "down" /\ w \in Registered /\ ~windows[w].bootstrapped
  /\ windows' = [windows EXCEPT ![w].bootstrapped = TRUE, ![w].opening = windows[w].restore,
                                ![w].restore = {}, ![w].unavailable = None]
  /\ UNCHANGED <<files, roots, stored, phase, plan, held, scheduled, mounted, caller, labels, created,
                 awaited, stranded, events>>

\* restoreTabs, one drawing: passed over if it is not there or another window's.
OpenTab(w, d) ==
  /\ w \in Registered /\ d \in windows[w].opening
  /\ windows' = [windows EXCEPT ![w].opening = @ \ {d},
       ![w].tabs = IF d \in files /\ Owners(d) = {} THEN @ \union {d} ELSE @]
  /\ UNCHANGED <<files, roots, stored, phase, plan, held, scheduled, mounted, caller, labels, created,
                 awaited, stranded, events>>

\* accepted_session_tabs: what the window owns, or nobody does in its Workspace.
Accepted(w, tabs) ==
  {d \in tabs : \/ Owners(d) = {w}
                \/ Owners(d) = {} /\ Home[d] # None /\ Home[d] = windows[w].workspace}

\* window_session_update, sent when the tabs have changed.
Report(w) ==
  /\ w \in Registered /\ windows[w].bootstrapped
  /\ windows[w].session_tabs # windows[w].tabs
  /\ windows' = [windows EXCEPT ![w].session_tabs = Accepted(w, windows[w].tabs)]
  /\ scheduled' = TRUE
  /\ UNCHANGED <<files, roots, stored, phase, plan, held, mounted, caller, labels, created, awaited,
                 stranded, events>>

\* The delayed write: a held session is not replaced, and the write is not made
\* up for.
DelayElapses ==
  /\ phase # "down" /\ scheduled /\ scheduled' = FALSE
  /\ stored' = IF held THEN stored ELSE Snapshot
  /\ UNCHANGED <<files, roots, phase, plan, windows, held, mounted, caller, labels, created, awaited,
                 stranded, events>>

\* A user opens a drawing that no window shows.
UserOpens(w, d) ==
  /\ Event /\ w \in Registered /\ windows[w].bootstrapped /\ d \in files /\ Owners(d) = {}
  /\ windows' = [windows EXCEPT ![w].tabs = @ \union {d}]
  /\ UNCHANGED <<files, roots, stored, phase, plan, held, scheduled, mounted, caller, labels, created,
                 awaited, stranded>>

\* A user opens a Workspace, instead of the one the window has; the session is
\* stored at once (claim_outcome_for_window).
UserClaims(w, a) ==
  /\ Event /\ w \in Registered /\ windows[w].bootstrapped /\ a \in roots /\ Holders(a) = {}
  /\ windows' = [windows EXCEPT ![w].workspace = a]
  /\ mounted' = (mounted \ {windows[w].workspace}) \union {a}
  /\ stranded' = stranded \ {a}
  /\ stored' = IF held THEN stored ELSE Snapshot'
  /\ UNCHANGED <<files, roots, phase, plan, held, scheduled, caller, labels, created, awaited>>

UserCloses(w, d) ==
  /\ Event /\ w \in Registered /\ d \in windows[w].tabs
  /\ windows' = [windows EXCEPT ![w].tabs = @ \ {d}]
  /\ awaited' = awaited \ {d}
  /\ UNCHANGED <<files, roots, stored, phase, plan, held, scheduled, mounted, caller, labels, created,
                 stranded>>

\* Destroyed: released, unregistered, and a write of the session scheduled.
CloseWindow(w) ==
  /\ Event /\ w \in Registered
  /\ windows' = [windows EXCEPT ![w] = None]
  /\ mounted' = mounted \ {windows[w].workspace}
  /\ awaited' = awaited \ (windows[w].restore \union windows[w].opening \union windows[w].tabs)
  /\ scheduled' = TRUE
  /\ UNCHANGED <<files, roots, stored, phase, plan, held, caller, labels, created, stranded>>

-----------------------------------------------------------------------------
(* The disk, and the end of a run. *)

FileGone(d) ==
  /\ Event /\ d \in files /\ files' = files \ {d}
  /\ awaited' = awaited \ {d}
  /\ UNCHANGED <<roots, stored, phase, plan, windows, held, scheduled, mounted, caller, labels, created,
                 stranded>>

RootGone(a) ==
  /\ Event /\ a \in roots /\ roots' = roots \ {a}
  /\ UNCHANGED <<files, stored, phase, plan, windows, held, scheduled, mounted, caller, labels, created,
                 awaited, stranded>>

\* A quit stores the session, unless it is held, and the process ends; the next
\* run is to bring back what is stored.
Down ==
  /\ phase' = "down" /\ plan' = NoPlan
  /\ windows' = [w \in Label |-> None]
  /\ awaited' = Tabs(stored')
  /\ UNCHANGED <<files, roots, held, scheduled, mounted, caller, labels, created, stranded>>

Quit == phase # "down" /\ Event /\ stored' = (IF held THEN stored ELSE Snapshot) /\ Down
Crash == phase # "down" /\ Event /\ UNCHANGED stored /\ Down

RestoreNext ==
  \/ \E abnormal \in BOOLEAN : Launch(abnormal)
  \/ RestoreFails \/ RestoredAtStart \/ RestoredAfterRecovery \/ DelayElapses \/ Quit \/ Crash
  \/ \E w \in Label :
       FinishRecovery(w) \/ RestoreWindow(w) \/ Handshake(w) \/ Report(w) \/ CloseWindow(w)
  \/ \E w \in Label, d \in Drawing : OpenTab(w, d) \/ UserOpens(w, d) \/ UserCloses(w, d)
  \/ \E w \in Label, a \in Workspace : UserClaims(w, a)
  \/ \E d \in Drawing : FileGone(d)
  \/ \E a \in Workspace : RootGone(a)

RestoreSpec == RestoreInit /\ [][RestoreNext]_restoreVars

-----------------------------------------------------------------------------

Reported == \A w \in Registered :
  windows[w].bootstrapped /\ windows[w].opening = {} /\ windows[w].session_tabs = windows[w].tabs

\* What the last session had open, and nobody has closed or deleted since, is
\* at every moment where a window will show it or shows it; while the session
\* is held it is also still stored, and once all windows have opened their tabs
\* and reported them, and no write is due, it is stored again.  Excused are the
\* tabs of a window that could not be built.
SessionComesBack ==
  /\ phase = "recovery" =>
       \A d \in awaited : d \in Tabs(stored) \/ Owners(d) # {}
  /\ phase \in {"restoring", "up"} =>
       \A d \in awaited :
         \/ d \in Tabs(plan)
         \/ \E w \in Registered :
              d \in windows[w].restore \union windows[w].opening \union windows[w].tabs
  /\ held => awaited \subseteq Tabs(stored)
  /\ phase = "up" /\ Reported /\ ~scheduled => awaited \subseteq Tabs(stored)

\* When setup or Recovery is over, exactly the Workspaces of the windows are
\* mounted: `mounted` means "open in a window" (lib.rs:192).  Excused are those
\* whose window could not be built.
MountedAreOpen ==
  phase = "up" =>
    /\ \A w \in Registered : windows[w].workspace \in mounted \union {None}
    /\ \A a \in mounted : Holders(a) # {} \/ a \in stranded

\* What the two rest on.  The labels in use have been allocated, no window is
\* there while the app is down, and none shares its Workspace.
WindowsAreApart ==
  /\ \A w \in Registered : phase # "down" /\ w <= labels
  /\ \A w, v \in Registered :
       windows[w].workspace = windows[v].workspace /\ windows[w].workspace # None => w = v
  /\ caller # None => caller <= labels

\* What is mounted is a window's, from the end of Recovery on, and before that
\* a window's Workspace is mounted.
MountedInTime ==
  /\ \A w \in Registered : windows[w].workspace \in mounted \union {None}
  /\ phase \in {"restoring", "up"} => \A a \in mounted : Holders(a) # {} \/ a \in stranded

\* What is handed to a window is with it at one place: put by, being opened, or
\* its own; the window that Recovery leaves is handed nothing.
HandedOnce ==
  \A w \in Registered :
    /\ IF windows[w].bootstrapped THEN windows[w].restore = {} ELSE windows[w].opening = {}
    /\ w = caller \/ windows[w].role = "recovery" =>
         windows[w].restore = {} /\ windows[w].opening = {}

\* The session is held until the end of the restoration; then what has been
\* reported is stored, or a write is due.
ReportedAreStored ==
  /\ phase # "down" => (held <=> phase # "up") /\ awaited \subseteq files
  /\ phase = "down" => awaited \subseteq Tabs(stored)
  /\ phase = "up" => plan = NoPlan
  /\ phase = "up" /\ ~scheduled =>
       \A w \in Registered : windows[w].session_tabs \intersect awaited \subseteq Tabs(stored)

RestoreInv ==
  /\ RestoreTypeOK
  /\ SessionComesBack /\ MountedAreOpen
  /\ WindowsAreApart /\ MountedInTime /\ HandedOnce /\ ReportedAreStored
=============================================================================
