--------------------------- MODULE WindowPlacement ---------------------------
(* Where the windows are, and where the next ones will be: the geometry of    *)
(* window/geometry.rs, the tracker and its delayed writes in                  *)
(* window/placement.rs, the rows of `workspace_window_state`, and the events  *)
(* that drive them (lib.rs).  The two axes obey the same rules, so one stands *)
(* for both: an area or a rectangle is an interval.  Displays come and go,    *)
(* writes fail, and the app exits and starts again.                           *)
EXTENDS Integers

CONSTANTS
  Window, Workspace, None,
  WorkArea,     \* the work areas of the displays there may be
  Spot,         \* where a user may leave a window
  MinWidth, MaxInitialWidth, Stagger, Grabbable,
  MaxChanges, MaxFaults, MaxExits   \* of windows and displays; failed writes; exits

VARIABLES
  displays, primary,
  windows,    \* the windows as they are, with the Workspace each has claimed
  noticed,    \* whether the app has handled a window's last event
  placing,    \* windows that have claimed and are not placed yet
  normal,     \* PlacementTracker: normal bounds of each window,
  pending,    \* the placements to be written
  scheduled,  \* and whether a delayed write is queued
  flushes,    \* what is drained and not yet written: delayed writes, the exit's
  row,        \* workspace_window_state: the placement of each Workspace
  app,        \* "running", "exiting" or "gone"
  last,       \* history: the placement recorded last for each Workspace
  heard,      \* history: windows recorded for the Workspace they have
  restored,   \* history: windows left where the app has put them
  excused,    \* history: Workspaces with a failed or overtaken write
  spent       \* history: how often each bounded thing has happened

trackerVars == <<normal, pending, scheduled>>
historyVars == <<last, heard, restored, excused, spent>>
placementVars ==
  <<displays, primary, windows, noticed, placing, trackerVars, flushes, row, app, historyVars>>

\* A maximized and a full screen window differ in nothing that matters here.
Mode == {"normal", "filled"}
Rect == [x : Int, width : Nat]

right(r) == r.x + r.width
Least(i, j) == IF i < j THEN i ELSE j
Most(i, j) == IF i < j THEN j ELSE i
Opened == {w \in Window : windows[w] # None}
Holder(a) == {w \in Opened : windows[w].workspace = a}
Idle == [a \in Workspace |-> None]

Placed == [rect : Rect, mode : Mode, workspace : Workspace \union {None}]
Remembered == [rect : Rect, mode : Mode]
Placements == [Workspace -> Remembered \union {None}]

PlacementTypeOK ==
  /\ displays \subseteq WorkArea /\ primary \in displays
  /\ windows \in [Window -> Placed \union {None}]
  /\ noticed \in [Window -> BOOLEAN] /\ scheduled \in BOOLEAN
  /\ placing \subseteq Opened
  /\ normal \in [Window -> Rect \union {None}]
  /\ pending \in Placements /\ row \in Placements /\ last \in Placements
  /\ flushes \in [1..3 -> Placements]
  /\ app \in {"running", "exiting", "gone"}
  /\ heard \subseteq Opened /\ restored \subseteq Window /\ excused \subseteq Workspace
  /\ spent \in [{"changes", "faults", "exits"} -> Nat]

PlacementInit ==
  /\ displays = WorkArea /\ primary \in displays
  /\ windows = [w \in Window |-> None]
  /\ noticed = [w \in Window |-> TRUE] /\ placing = {}
  /\ normal = [w \in Window |-> None]
  /\ pending = Idle /\ scheduled = FALSE
  /\ flushes = [i \in 1..3 |-> Idle]
  /\ row = Idle /\ last = Idle
  /\ app = "running"
  /\ heard = {} /\ restored = {} /\ excused = {}
  /\ spent = [what \in {"changes", "faults", "exits"} |-> 0]

Spend(what, most) == spent[what] < most /\ spent' = [spent EXCEPT ![what] = @ + 1]

-----------------------------------------------------------------------------
(* Geometry. *)

centered_in(width, area) == [x |-> area.x + (area.width - width) \div 2, width |-> width]

initial_size(area) == Most(MinWidth, Least(MaxInitialWidth, (area.width * 9) \div 10))

initial_rect(area) == centered_in(initial_size(area), area)

staggered_rect(front, area) ==
  LET offset == [x |-> front.x + Stagger, width |-> initial_size(area)] IN
  IF right(offset) > right(area) THEN [offset EXCEPT !.x = area.x] ELSE offset

is_grabbable(r, areas) ==
  \E area \in areas : Least(right(r), right(area)) - Most(r.x, area.x) >= Grabbable

\* A slip of restored_rect: the area is looked for among all there ever were.
RestoredAnywhere(r) == [r EXCEPT !.width = Most(@, MinWidth)]

restored_rect(r) ==
  LET sized == [r EXCEPT !.width = Most(@, MinWidth)] IN
  IF is_grabbable(sized, displays) THEN sized
  ELSE centered_in(Most(MinWidth, Least(sized.width, primary.width)), primary)

remembered_plan(a) == [rect |-> restored_rect(row[a].rect), mode |-> row[a].mode]

\* The display a window is on, as the system sees it: any that shows it.
Monitors(r) ==
  LET showing == {area \in displays : is_grabbable(r, {area})} IN
  IF showing = {} THEN {primary} ELSE showing

-----------------------------------------------------------------------------
(* The tracker. *)

\* What is remembered of a window: the normal bounds follow it while it is in
\* its normal state.
remembered_placement(w) ==
  [rect |-> IF windows[w].mode = "normal" THEN windows[w].rect ELSE normal[w],
   mode |-> windows[w].mode]

\* A slip of Record: the flag of a delayed write is cleared only when it has
\* written, so that nothing recorded meanwhile is scheduled.
RecordBusy(w) ==
  LET a == windows[w].workspace
      placement == remembered_placement(w) IN
  /\ normal' = [normal EXCEPT ![w] = placement.rect]
  /\ IF a = None THEN UNCHANGED <<pending, scheduled, last, heard>>
     ELSE /\ pending' = [pending EXCEPT ![a] = placement]
          /\ scheduled' = (scheduled \/ flushes[1] = Idle)
          /\ last' = [last EXCEPT ![a] = placement] /\ heard' = heard \union {w}

Record(w) ==
  LET a == windows[w].workspace
      placement == remembered_placement(w) IN
  /\ normal' = [normal EXCEPT ![w] = placement.rect]
  /\ IF a = None THEN UNCHANGED <<pending, scheduled, last, heard>>
     ELSE /\ pending' = [pending EXCEPT ![a] = placement] /\ scheduled' = TRUE
          /\ last' = [last EXCEPT ![a] = placement] /\ heard' = heard \union {w}

\* The handler of Moved and Resized looks at the window as it is by then.
Notice(w) ==
  /\ app = "running" /\ w \in Opened /\ ~noticed[w]
  /\ Record(w)
  /\ noticed' = [noticed EXCEPT ![w] = TRUE]
  /\ UNCHANGED <<displays, primary, windows, placing, flushes, row, app, restored, excused, spent>>

\* The Workspaces whose placement is on its way twice: the later flush may
\* write first.
Overtaken(f) ==
  {a \in Workspace : \E i, j \in 1..3 : i # j /\ f[i][a] # None /\ f[j][a] # None}

\* take_pending: everything queued is now in the hands of flush i.
Drain(i) ==
  /\ flushes[i] = Idle
  /\ flushes' = [flushes EXCEPT ![i] = pending]
  /\ pending' = Idle
  /\ excused' = excused \union Overtaken(flushes')

\* schedule_write's task: after the delay, another write may be scheduled, and
\* this one drains the queue.
DelayElapses ==
  /\ app # "gone" /\ scheduled
  /\ \E i \in 1..2 : Drain(i)
  /\ scheduled' = FALSE
  /\ UNCHANGED <<displays, primary, windows, noticed, placing, normal, row, app,
                 last, heard, restored, spent>>

\* workspace_placement_save, one Workspace after the other; a failure is only
\* logged.
WriteOne(i, a) ==
  /\ app # "gone" /\ flushes[i][a] # None
  /\ flushes' = [flushes EXCEPT ![i][a] = None]
  /\ \/ row' = [row EXCEPT ![a] = flushes[i][a]] /\ UNCHANGED <<excused, spent>>
     \/ Spend("faults", MaxFaults) /\ excused' = excused \union {a} /\ UNCHANGED row
  /\ UNCHANGED <<displays, primary, windows, noticed, placing, trackerVars, app,
                 last, heard, restored>>

-----------------------------------------------------------------------------
(* Windows. *)

\* build_window: the normal bounds are set before the window is shown.
Build(w, plan, a) ==
  /\ windows' = [windows EXCEPT ![w] = [rect |-> plan.rect, mode |-> plan.mode, workspace |-> a]]
  /\ normal' = [normal EXCEPT ![w] = plan.rect]
  /\ noticed' = [noticed EXCEPT ![w] = TRUE]
  /\ heard' = heard \ {w}
  /\ UNCHANGED <<displays, primary, placing, pending, scheduled, flushes, row, app, last,
                 excused>>

Plain(rect) == [rect |-> rect, mode |-> "normal"]

\* default_placement: beside the window in front, or in the middle.
Open(w) ==
  /\ app = "running" /\ w \notin Opened /\ Spend("changes", MaxChanges)
  /\ \/ /\ Opened = {}
        /\ Build(w, Plain(initial_rect(primary)), None)
        /\ restored' = restored \union {w}
     \/ /\ \E front \in Opened : \E area \in Monitors(windows[front].rect) :
             Build(w, Plain(staggered_rect(windows[front].rect, area)), None)
        /\ restored' = restored \ {w}

\* restore_session: a window that is opened with its Workspace.
OpenRestored(w, a) ==
  /\ app = "running" /\ w \notin Opened /\ Holder(a) = {} /\ row[a] # None
  /\ Spend("changes", MaxChanges)
  /\ Build(w, remembered_plan(a), a)
  /\ restored' = restored \union {w}

\* A window takes a Workspace (commands/workspace.rs), and lets go of the one
\* it had; where to show it is asked of the database first.
Claim(w, a) ==
  /\ app = "running" /\ w \in Opened /\ w \notin placing /\ Holder(a) = {}
  /\ windows' = [windows EXCEPT ![w].workspace = a]
  /\ placing' = placing \union {w}
  /\ heard' = heard \ {w}
  /\ UNCHANGED <<displays, primary, noticed, trackerVars, flushes, row, app, last,
                 restored, excused, spent>>

\* place_for_workspace and apply: the window is shown where the Workspace was,
\* or what it has is remembered.  The system reports what changes.
PlaceForWorkspace(w) ==
  LET a == windows[w].workspace IN
  /\ app = "running" /\ w \in placing
  /\ placing' = placing \ {w}
  /\ IF row[a] = None
     THEN Record(w) /\ UNCHANGED <<windows, noticed, restored>>
     ELSE LET plan == remembered_plan(a) IN
          /\ normal' = [normal EXCEPT ![w] = plan.rect]
          /\ windows' = [windows EXCEPT ![w].rect = plan.rect, ![w].mode = plan.mode]
          /\ noticed' = [noticed EXCEPT ![w] = @ /\ windows' = windows /\ normal' = normal]
          /\ restored' = restored \union {w}
          /\ UNCHANGED <<pending, scheduled, last, heard>>
  /\ UNCHANGED <<displays, primary, flushes, row, app, excused, spent>>

\* A user moves or resizes a window, or takes it into or out of a state.
Change(w) ==
  /\ app = "running" /\ w \in Opened /\ Spend("changes", MaxChanges)
  /\ \/ \E r \in Spot : windows[w].mode = "normal"
                        /\ windows' = [windows EXCEPT ![w].rect = r]
     \/ \E m \in Mode : windows' = [windows EXCEPT ![w].mode = m]
  /\ windows' # windows
  /\ noticed' = [noticed EXCEPT ![w] = FALSE]
  /\ restored' = restored \ {w}
  /\ UNCHANGED <<displays, primary, placing, trackerVars, flushes, row, app, last, heard, excused>>

\* Destroyed: its bounds are forgotten and its Workspace is released.
Close(w) ==
  /\ app = "running" /\ w \in Opened
  /\ windows' = [windows EXCEPT ![w] = None]
  /\ normal' = [normal EXCEPT ![w] = None]
  /\ noticed' = [noticed EXCEPT ![w] = TRUE]
  /\ placing' = placing \ {w}
  /\ heard' = heard \ {w} /\ restored' = restored \ {w}
  /\ UNCHANGED <<displays, primary, pending, scheduled, flushes, row, app, last, excused, spent>>

\* Displays are connected and disconnected; what the system moves, it reports.
ChangeDisplays ==
  /\ Spend("changes", MaxChanges)
  /\ displays' \in (SUBSET WorkArea) \ {{}, displays} /\ primary' \in displays'
  /\ restored' = {}
  /\ UNCHANGED <<windows, noticed, placing, trackerVars, flushes, row, app, last, heard, excused>>

-----------------------------------------------------------------------------
(* The app. *)

\* RunEvent::Exit: the main thread drains the queue; delayed writes go on
\* meanwhile.
Exit ==
  /\ app = "running" /\ Spend("exits", MaxExits)
  /\ app' = "exiting"
  /\ Drain(3)
  /\ UNCHANGED <<displays, primary, windows, noticed, placing, normal, scheduled, row,
                 last, heard, restored>>

\* The process ends when its own flush is done, whatever others still have.
Gone ==
  /\ app = "exiting" /\ flushes[3] = Idle
  /\ app' = "gone"
  /\ excused' = excused \union {a \in Workspace : \E i \in 1..2 : flushes[i][a] # None}
  /\ windows' = [w \in Window |-> None] /\ normal' = [w \in Window |-> None]
  /\ noticed' = [w \in Window |-> TRUE] /\ placing' = {}
  /\ pending' = Idle /\ scheduled' = FALSE /\ flushes' = [i \in 1..3 |-> Idle]
  /\ heard' = {} /\ restored' = {}
  /\ UNCHANGED <<displays, primary, row, last, spent>>

Launch ==
  /\ app = "gone" /\ app' = "running"
  /\ UNCHANGED <<displays, primary, windows, noticed, placing, trackerVars, flushes, row, historyVars>>

PlacementNext ==
  \/ \E w \in Window :
       Notice(w) \/ Open(w) \/ PlaceForWorkspace(w) \/ Change(w) \/ Close(w)
  \/ \E w \in Window, a \in Workspace : OpenRestored(w, a) \/ Claim(w, a)
  \/ \E i \in 1..3, a \in Workspace : WriteOne(i, a)
  \/ DelayElapses \/ ChangeDisplays \/ Exit \/ Gone \/ Launch

PlacementSpec == PlacementInit /\ [][PlacementNext]_placementVars

-----------------------------------------------------------------------------

OnItsWay(a) == pending[a] # None \/ \E i \in 1..3 : flushes[i][a] # None

\* What is queued has somebody to write it (schedule_write), and when nothing
\* is on its way, the row of a Workspace is what was recorded for it last,
\* which is what its window looks like once its events are handled; also after
\* an exit.  Two things are excused: a write that failed, and one that another
\* flush has overtaken or the end of the process cut off.
PlacementsArrive ==
  /\ pending # Idle => scheduled
  /\ \A a \in Workspace : ~OnItsWay(a) /\ a \notin excused => row[a] = last[a]
  /\ \A w \in heard :
       noticed[w] /\ w \notin placing =>
         last[windows[w].workspace] =
           [rect |-> IF windows[w].mode = "normal" THEN windows[w].rect ELSE normal[w],
            mode |-> windows[w].mode]

\* A window that the app has put where its Workspace was last, or in the
\* middle, can be reached on the displays there are (restored_rect), whatever
\* displays its placement was recorded on.
WindowsComeBackReachable ==
  \A w \in restored \intersect Opened : is_grabbable(windows[w].rect, displays)

\* What the two rest on.  A window has bounds, and no other one its Workspace.
WindowsFollow ==
  /\ \A w \in Opened : normal[w] # None
  /\ \A w, v \in Opened :
       windows[w].workspace = windows[v].workspace /\ windows[w].workspace # None => w = v
  /\ \A w \in placing \union heard : windows[w].workspace # None

\* What was recorded last is in the queue, or else with a flush, or else stored;
\* a placement that is not excused is in one flush at most.
LastIsWhere ==
  \A a \in Workspace \ excused :
    /\ \A i, j \in 1..3 : flushes[i][a] # None /\ flushes[j][a] # None => i = j
    /\ pending[a] # None => last[a] = pending[a]
    /\ pending[a] = None => \A i \in 1..3 : flushes[i][a] # None => last[a] = flushes[i][a]

HeardAreLast ==
  \A w \in heard : noticed[w] => last[windows[w].workspace] = remembered_placement(w)

PlacementInv ==
  /\ PlacementTypeOK
  /\ PlacementsArrive
  /\ WindowsComeBackReachable
  /\ WindowsFollow
  /\ LastIsWhere
  /\ HeardAreLast
  /\ app # "running" => pending = Idle
=============================================================================
