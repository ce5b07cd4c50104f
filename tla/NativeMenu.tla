------------------------------ MODULE NativeMenu ------------------------------
(***************************************************************************)
(* The one menu of all windows (src-tauri/src/native_menu.rs,              *)
(* native_menu_spec.rs), kept in step with what windows report and with    *)
(* the window in front by commands and events of the main thread and by    *)
(* the clean-up task of a destroyed window (src-tauri/src/lib.rs), which   *)
(* runs beside it. A lock guards the model of the menu. The menu itself    *)
(* belongs to the main thread: a change another thread asks for is made    *)
(* there, and that thread waits with the lock in its hands.                *)
(***************************************************************************)
EXTENDS Naturals, Sequences

CONSTANTS
  MaxWindow,   \* bound: windows ever opened; a label's number is never reused
  Language,    \* the languages windows send labels in
  English,     \* the built-in labels
  Report,      \* bound: the states windows report
  MenuCommand, \* bound: the items the user chooses
  Nobody       \* no window

AnyWindow == 1..MaxWindow
MaybeWindow == AnyWindow \union {Nobody}

Toggle == {"tool lock", "grid", "snap", "zen", "view mode"}
Appearance == {"appearance system", "appearance light", "appearance dark"}
Tongue == {"language system", "language en", "language zh-CN", "language es", "language ja"}
CheckItem == Toggle \union Appearance \union Tongue
Forwarded == CheckItem \union
  {"open workspace", "save", "export image", "version history", "help"}
Item == Forwarded \union {"new window", "quit"}

\* What a frontend reports: the toggles that are on and its two choices are in `on`.
SyncState == [document : BOOLEAN, readOnly : BOOLEAN, on : SUBSET CheckItem]
WindowState == [sync : SyncState, history : BOOLEAN]
Default == [sync |-> [document |-> FALSE, readOnly |-> FALSE,
                      on |-> {"appearance system", "language system"}],
            history |-> FALSE]

ASSUME MenuAssumption ==
  /\ MaxWindow \in Nat
  /\ Nobody \notin AnyWindow
  /\ English \in Language
  /\ Report \subseteq SyncState
  /\ MenuCommand \subseteq Forwarded

VARIABLES
  opened,      \* windows ever opened
  registered,  \* the registry: windows
  recent,      \* the registry: those that had the focus, the last one first
  native,      \* windows that are on the screen
  key,         \* the one in front, Nobody when another program is
  news,        \* the window whose coming to the front is not handled yet
  labels,      \* the model: labels
  windows,     \* the model: what each window reported
  active,      \* the model: the window the menu shows
  installed,   \* the menu: labels, enabled items, checked items
  main,        \* what the main thread has begun and needs the lock for
  cleanup,     \* the clean-up task of each window
  told,        \* history: what each window reported and the model kept
  spoken,      \* history: the labels sent with success
  failed,      \* history: parts of the menu left behind by a failure
  behind       \* history: what `active` reported was not, or not all, put on the menu

screen == <<opened, registered, recent, native, key, news>>
model == <<labels, windows, active>>
menu == <<installed, failed, behind>>
reports == <<told, spoken>>
menuVars == <<screen, model, menu, reports, main, cleanup>>

AtRest == [at |-> "idle"]
Main == {AtRest}
  \union [at : {"sync"}, window : AnyWindow, target : MaybeWindow, labels : Language, state : SyncState]
  \union [at : {"history"}, window : AnyWindow, target : MaybeWindow, enabled : BOOLEAN]
  \union [at : {"focus"}, window : AnyWindow]
  \union [at : {"choice"}, item : Forwarded]
Cleanup == [at : {"none", "release", "target", "lock", "apply", "done"}, next : MaybeWindow]
Menu == [labels : Language, enabled : SUBSET Item, checked : SUBSET CheckItem]

MenuTypeOK ==
  /\ opened \in 0..MaxWindow
  /\ registered \subseteq 1..opened /\ native \subseteq registered
  /\ recent \in Seq(AnyWindow)
  /\ key \in native \union {Nobody} /\ news \in native \union {Nobody}
  /\ labels \in Language /\ spoken \in Language
  /\ windows \in [AnyWindow -> WindowState]
  /\ told \in [AnyWindow -> WindowState]
  /\ active \in MaybeWindow
  /\ installed \in Menu
  /\ failed \subseteq {"flags", "labels"}
  /\ behind \in BOOLEAN
  /\ main \in Main
  /\ cleanup \in [AnyWindow -> Cleanup]

-----------------------------------------------------------------------------
\* item_state: which items are enabled, and which are checked.
Enabled(state, hasWindow) ==
  LET document == IF state.sync.document THEN {"save", "help", "grid", "zen"} ELSE {}
      editable == IF state.sync.document /\ ~state.sync.readOnly
                  THEN {"tool lock", "snap", "view mode"} ELSE {}
      window == IF hasWindow THEN {"open workspace"} ELSE {}
      history == IF state.history THEN {"version history"} ELSE {}
  IN {"new window", "quit", "export image"} \union Appearance \union Tongue
     \union document \union editable \union window \union history

Checked(state) ==
  state.sync.on \union (IF state.sync.readOnly THEN {"view mode"} ELSE {})

\* NativeMenuModel::applied, over a model that may not be stored yet; a window
\* that is not in the map counts as one that reported the default.
ReportOf(states, w) == IF w = Nobody THEN Default ELSE states[w]

MenuOf(speech, states, w) ==
  [labels  |-> speech,
   enabled |-> Enabled(ReportOf(states, w), w # Nobody),
   checked |-> Checked(ReportOf(states, w))]

\* build_menu and set_app_menu.
Rebuild(speech, states, w) ==
  /\ installed' = MenuOf(speech, states, w)
  /\ failed' = {} /\ behind' = FALSE

\* apply_menu_state: the flags of the items, never their labels.
Apply(states, w) ==
  /\ installed' = MenuOf(installed.labels, states, w)
  /\ failed' = failed \ {"flags"} /\ behind' = FALSE

\* Either fails before it changed the menu, or after.
RebuildFails(speech, states, w) ==
  /\ installed' \in {installed, MenuOf(speech, states, w)}
  /\ failed' = {"flags", "labels"}
  /\ UNCHANGED behind
ChangeFails ==
  /\ failed' = failed \union {"flags"}
  /\ UNCHANGED <<installed, behind>>

ApplyOrLog(states, w) == Apply(states, w) \/ ChangeFails

-----------------------------------------------------------------------------
MenuInit ==
  /\ opened = 0 /\ registered = {} /\ recent = <<>> /\ native = {}
  /\ key = Nobody /\ news = Nobody
  /\ labels = English /\ spoken = English
  /\ windows = [w \in AnyWindow |-> Default]
  /\ told = [w \in AnyWindow |-> Default]
  /\ active = Nobody
  /\ installed = MenuOf(English, windows, Nobody)
  /\ failed = {} /\ behind = FALSE
  /\ main = AtRest
  /\ cleanup = [w \in AnyWindow |-> [at |-> "none", next |-> Nobody]]

TaskAt(w, place) == cleanup[w].at = place
TaskEnds(w) == cleanup' = [cleanup EXCEPT ![w] = [at |-> "done", next |-> Nobody]]
TaskGoes(w, place) == cleanup' = [cleanup EXCEPT ![w].at = place]
LockFree == \A w \in AnyWindow : ~TaskAt(w, "apply")
WithoutWindow(seq, w) ==
  IF \E i \in DOMAIN seq : seq[i] = w
  THEN LET i == CHOOSE i \in DOMAIN seq : seq[i] = w
       IN SubSeq(seq, 1, i - 1) \o SubSeq(seq, i + 1, Len(seq))
  ELSE seq

\* most_recently_focused, and target_window over it.
MostRecent ==
  IF recent # <<>> THEN Head(recent)
  ELSE IF registered = {} THEN Nobody
  ELSE CHOOSE w \in registered : \A v \in registered : v <= w
Target == IF key # Nobody THEN key ELSE MostRecent

(* Windows come, come to the front and go.                                 *)
OpenWindow ==
  /\ main = AtRest /\ news = Nobody
  /\ opened < MaxWindow
  /\ opened' = opened + 1
  /\ registered' = registered \union {opened'}
  /\ native' = native \union {opened'}
  /\ \/ key' = opened' /\ news' = opened'
     \/ UNCHANGED <<key, news>>
  /\ UNCHANGED <<recent, model, menu, reports, main, cleanup>>

\* One coming to the front is handled before the next.
ComesToFront(w) ==
  /\ main = AtRest /\ news = Nobody
  /\ w \in native \ {key}
  /\ key' = w /\ news' = w
  /\ UNCHANGED <<opened, registered, recent, native, model, menu, reports, main, cleanup>>

ProgramLeaves ==
  /\ main = AtRest /\ key # Nobody
  /\ key' = Nobody
  /\ UNCHANGED <<opened, registered, recent, native, news, model, menu, reports, main, cleanup>>

\* handle_window_event, Focused: the registry first.
Focused ==
  /\ main = AtRest /\ news # Nobody
  /\ recent' = <<news>> \o WithoutWindow(recent, news)
  /\ main' = [at |-> "focus", window |-> news]
  /\ news' = Nobody
  /\ UNCHANGED <<opened, registered, native, key, model, menu, reports, cleanup>>

\* show_window_state.
ShowWindowState ==
  /\ main.at = "focus" /\ LockFree
  /\ active' = main.window
  /\ \/ active = main.window /\ UNCHANGED menu
     \/ active # main.window /\ ApplyOrLog(windows, main.window)
  /\ main' = AtRest
  /\ UNCHANGED <<screen, labels, windows, reports, cleanup>>

-----------------------------------------------------------------------------
(* sync_native_menu and set_native_menu_enabled: the target is read before  *)
(* the lock is taken.                                                       *)
StartSync(w, speech, state) ==
  /\ main = AtRest /\ w \in native
  /\ main' = [at |-> "sync", window |-> w, target |-> Target, labels |-> speech, state |-> state]
  /\ UNCHANGED <<screen, model, menu, reports, cleanup>>

Sync ==
  LET w == main.window
      states == [windows EXCEPT ![w].sync = main.state]
      shown == IF main.target = w THEN w ELSE active
  IN
  /\ main.at = "sync" /\ LockFree
  /\ labels' = main.labels /\ windows' = states /\ active' = shown
  /\ IF main.labels # labels THEN Rebuild(main.labels, states, shown)
     ELSE IF main.target = w THEN Apply(states, w)
     ELSE behind' = (behind \/ active = w) /\ UNCHANGED <<installed, failed>>
  /\ told' = [told EXCEPT ![w].sync = main.state]
  /\ spoken' = main.labels
  /\ main' = AtRest
  /\ UNCHANGED <<screen, cleanup>>

\* The menu cannot be changed: the model is put back.
SyncFails ==
  LET w == main.window
      states == [windows EXCEPT ![w].sync = main.state]
      shown == IF main.target = w THEN w ELSE active
  IN
  /\ main.at = "sync" /\ LockFree
  /\ IF main.labels # labels THEN RebuildFails(main.labels, states, shown)
     ELSE main.target = w /\ ChangeFails
  /\ main' = AtRest
  /\ UNCHANGED <<screen, model, reports, cleanup>>

StartEnable(w, enabled) ==
  /\ main = AtRest /\ w \in native
  /\ main' = [at |-> "history", window |-> w, target |-> Target, enabled |-> enabled]
  /\ UNCHANGED <<screen, model, menu, reports, cleanup>>

\* Of the target, one item is set; the others are left as they are.
EnableHistory ==
  LET w == main.window
      item == {"version history"}
  IN
  /\ main.at = "history" /\ LockFree
  /\ windows' = [windows EXCEPT ![w].history = main.enabled]
  /\ told' = [told EXCEPT ![w].history = main.enabled]
  /\ \/ /\ main.target # w
        /\ behind' = (behind \/ active = w)
        /\ UNCHANGED <<active, installed, failed>>
     \/ /\ main.target = w
        /\ active' = w
        /\ \/ /\ installed' = [installed EXCEPT !.enabled =
                                IF main.enabled THEN @ \union item ELSE @ \ item]
              /\ behind' = (behind \/ active # w)
              /\ UNCHANGED failed
           \/ ChangeFails
  /\ main' = AtRest
  /\ UNCHANGED <<screen, labels, spoken, cleanup>>

-----------------------------------------------------------------------------
(* handle_menu_event. The system itself turns a check item that is chosen. *)
Choose(item) ==
  /\ main = AtRest
  /\ item \in installed.enabled
  /\ installed' = [installed EXCEPT !.checked =
       IF item \notin CheckItem THEN @ ELSE IF item \in @ THEN @ \ {item} ELSE @ \union {item}]
  /\ main' = [at |-> "choice", item |-> item]
  /\ UNCHANGED <<screen, model, failed, behind, reports, cleanup>>

\* reapply_installed_state, then the command goes to one window.
Forward(w) ==
  /\ main.at = "choice" /\ LockFree
  /\ w = Target
  /\ ApplyOrLog(windows, active)
  /\ main' = AtRest
  /\ UNCHANGED <<screen, model, reports, cleanup>>

-----------------------------------------------------------------------------
(* handle_window_event, Destroyed, and its task.                           *)
Destroy(w) ==
  /\ main = AtRest /\ news = Nobody /\ w \in native
  /\ native' = native \ {w}
  /\ key' = IF key = w THEN Nobody ELSE key
  /\ told' = [told EXCEPT ![w] = Default]
  /\ TaskGoes(w, "release")
  /\ UNCHANGED <<opened, registered, recent, news, model, menu, spoken, main>>

UnregisterWindow(w) ==
  /\ TaskAt(w, "release")
  /\ registered' = registered \ {w}
  /\ recent' = WithoutWindow(recent, w)
  /\ TaskGoes(w, "target")
  /\ UNCHANGED <<opened, native, key, news, model, menu, reports, main>>

\* forget_window_state asks for the window in front, on the main thread,
NextWindow(w) ==
  /\ TaskAt(w, "target") /\ main = AtRest
  /\ cleanup' = [cleanup EXCEPT ![w] = [at |-> "lock", next |-> Target]]
  /\ UNCHANGED <<screen, model, menu, reports, main>>

\* A slip of ForgetWindow: whichever window is shown.
ForgetWindowShown(w) ==
  /\ TaskAt(w, "lock") /\ LockFree
  /\ windows' = [windows EXCEPT ![w] = Default]
  /\ active' = cleanup[w].next
  /\ TaskGoes(w, "apply")
  /\ UNCHANGED <<screen, labels, menu, reports, main>>

\* then takes the lock,
ForgetWindow(w) ==
  /\ TaskAt(w, "lock") /\ LockFree
  /\ windows' = [windows EXCEPT ![w] = Default]
  /\ \/ /\ active \notin {w, Nobody}
        /\ TaskEnds(w)
        /\ UNCHANGED active
     \/ /\ active \in {w, Nobody}
        /\ active' = cleanup[w].next
        /\ TaskGoes(w, "apply")
  /\ UNCHANGED <<screen, labels, menu, reports, main>>

\* and waits for the main thread to change the menu.
ShowNext(w) ==
  /\ TaskAt(w, "apply") /\ main = AtRest
  /\ ApplyOrLog(windows, active)
  /\ TaskEnds(w)
  /\ UNCHANGED <<screen, model, reports, main>>

-----------------------------------------------------------------------------
MainStep == Focused \/ ShowWindowState \/ Sync \/ EnableHistory \/ \E w \in MaybeWindow : Forward(w)
TaskStep == \E w \in AnyWindow : UnregisterWindow(w) \/ NextWindow(w) \/ ForgetWindow(w) \/ ShowNext(w)

MenuUser ==
  \/ OpenWindow \/ ProgramLeaves
  \/ \E w \in AnyWindow :
       \/ ComesToFront(w) \/ Destroy(w)
       \/ \E speech \in Language, state \in Report : StartSync(w, speech, state)
       \/ \E enabled \in BOOLEAN : StartEnable(w, enabled)
  \/ \E item \in MenuCommand : Choose(item)

MenuNext == MenuUser \/ MainStep \/ SyncFails \/ TaskStep

MenuSpec == MenuInit /\ [][MenuNext]_menuVars

\* The main thread serves its events in turn, and a task is resumed.
MenuFairness ==
  /\ SF_menuVars(Focused)
  /\ WF_menuVars(ShowWindowState \/ Sync \/ EnableHistory \/ \E w \in MaybeWindow : Forward(w))
  /\ \A w \in AnyWindow : SF_menuVars(UnregisterWindow(w) \/ NextWindow(w) \/ ForgetWindow(w) \/ ShowNext(w))
FairMenuSpec == MenuSpec /\ MenuFairness

-----------------------------------------------------------------------------
(* Properties. *)

\* Nothing under way has yet to change the menu.
MenuSettled == main = AtRest /\ LockFree /\ news = Nobody

\* Under one menu for all windows, the window in front sees the labels last
\* sent and its own flags, whatever windows reported behind it, could not
\* report, or closed: two shortcuts apart, whose traces `behind` keeps.
FrontIsShown ==
  MenuSettled /\ key # Nobody =>
    /\ active = key
    /\ "labels" \notin failed => installed.labels = spoken
    /\ "flags" \notin failed /\ ~behind =>
         /\ installed.enabled = Enabled(told[key], TRUE)
         /\ installed.checked = Checked(told[key])

\* "native-menu-command goes to the focused window" (ADR-010), and that is the
\* window whose flags the menu shows.
CommandsGoToTheShown ==
  [][\A w \in MaybeWindow : Forward(w) /\ key # Nobody /\ news = Nobody => w = active]_menuVars

\* "Menu state (checked and enabled flags) is stored per window and applied
\* when a window gains focus" (ADR-010).
FocusAppliesFlags ==
  MenuSettled /\ key # Nobody /\ "flags" \notin failed =>
    installed.enabled = Enabled(told[key], TRUE) /\ installed.checked = Checked(told[key])

\* "Drop a destroyed window's state and show the next window's, or the
\* no-document state when no window is left" (native_menu.rs).
ClosedAreNotShown ==
  MenuSettled /\ registered = {} /\ (\A w \in AnyWindow : cleanup[w].at \in {"none", "done"})
    => active = Nobody

\* The menu keeps "in step with window focus and window destruction" (lib.rs):
\* the window in front comes to be the one shown, under FairMenuSpec.
FocusReachesTheMenu ==
  \A w \in AnyWindow : news = w ~> active = w \/ key # w
=============================================================================
