--------------------------- MODULE QuitCoordinator ---------------------------
(***************************************************************************)
(* The coordinated quit: QuitCoordinator and the functions that drive it   *)
(* (src-tauri/src/window/quit.rs), with the windows that answer it         *)
(* (src/app/exitCheckpoint.ts) and the Destroyed handler of lib.rs.        *)
(*                                                                         *)
(* Every transition of the coordinator is one critical section. Between    *)
(* them lie events and commands that arrive in any order and late: the     *)
(* questions, the answers, the destruction of windows and the timers.      *)
(***************************************************************************)
EXTENDS Naturals

CONSTANTS
  Window,      \* every window the app ever creates; labels are not reused
  First,       \* the windows open at the start
  MaxRequest   \* bound: how many quits are asked for

ASSUME WindowAssumption == First \subseteq Window
ASSUME RequestAssumption == MaxRequest \in Nat

VARIABLES
  windows,   \* where each window is in its life
  unsaved,   \* does the window hold edits that no checkpoint wrote?
  quit,      \* QuitState, and the number of the last request
  answers,   \* what each window has made of each request
  reports,   \* answers on their way back
  timers     \* requests whose deadline has not come yet

quitVars == <<quit, answers, reports, timers>>
vars == <<windows, unsaved, quitVars>>

RequestId == 1..MaxRequest
Life == {"none", "booting", "open", "closing", "destroyed", "gone"}

TypeOK ==
  /\ windows \in [Window -> Life]
  /\ unsaved \in [Window -> BOOLEAN]
  /\ quit \in [at : {"idle", "collecting", "exiting"}, id : 0..MaxRequest, pending : SUBSET Window]
  /\ answers \in [RequestId -> [Window -> {"none", "unheard", "asked", "saved", "failed"}]]
  /\ reports \subseteq RequestId \X Window
  /\ timers \subseteq RequestId

\* A window whose frontend runs, and listens.
Alive(w) == windows[w] \in {"open", "closing"}

\* WindowRegistry::labels: a window stays registered until the task that its
\* destruction spawns gets to unregister it.
Labels == {w \in Window : windows[w] \notin {"none", "gone"}}

Init ==
  /\ windows = [w \in Window |-> IF w \in First THEN "open" ELSE "none"]
  /\ unsaved = [w \in Window |-> FALSE]
  /\ quit = [at |-> "idle", id |-> 0, pending |-> {}]
  /\ answers = [r \in RequestId |-> [w \in Window |-> "none"]]
  /\ reports = {}
  /\ timers = {}

-----------------------------------------------------------------------------
\* A slip of RequestQuit: nothing waits for the deadline.
RequestQuitUntimed ==
  /\ quit.at = "idle" /\ Labels # {} /\ quit.id < MaxRequest
  /\ LET r == quit.id + 1 IN
     /\ quit' = [at |-> "collecting", id |-> r, pending |-> Labels]
     /\ answers' = [answers EXCEPT ![r] =
                      [w \in Window |-> IF w \notin Labels THEN "none"
                                        ELSE IF Alive(w) THEN "asked" ELSE "unheard"]]
  /\ UNCHANGED <<windows, unsaved, reports, timers>>

\* request: a quit that collects keeps its request. A window without a
\* listener, booting or destroyed, is asked and never hears of it.
RequestQuit ==
  /\ quit.at = "idle"
  /\ IF Labels = {}
     THEN quit' = [quit EXCEPT !.at = "exiting"] /\ UNCHANGED <<answers, timers>>
     ELSE /\ quit.id < MaxRequest
          /\ LET r == quit.id + 1 IN
             /\ quit' = [at |-> "collecting", id |-> r, pending |-> Labels]
             /\ answers' = [answers EXCEPT ![r] =
                              [w \in Window |-> IF w \notin Labels THEN "none"
                                                ELSE IF Alive(w) THEN "asked" ELSE "unheard"]]
             /\ timers' = timers \union {r}
  /\ UNCHANGED <<windows, unsaved, reports>>

\* finish_if_done
Without(w) ==
  LET left == quit.pending \ {w} IN
  [at |-> IF left = {} THEN "exiting" ELSE "collecting", id |-> quit.id, pending |-> left]

Cancelled == [at |-> "idle", id |-> quit.id, pending |-> {}]

\* A slip of Ready: the answer to an earlier request counts for this one.
ReadyForAny(r, w) ==
  /\ <<r, w>> \in reports
  /\ reports' = reports \ {<<r, w>>}
  /\ quit' = IF quit.at = "collecting" /\ w \in quit.pending
             THEN IF answers[r][w] = "saved" THEN Without(w) ELSE Cancelled
             ELSE quit
  /\ UNCHANGED <<windows, unsaved, answers, timers>>

\* ready, for an answer to any request
Ready(r, w) ==
  /\ <<r, w>> \in reports
  /\ reports' = reports \ {<<r, w>>}
  /\ quit' = IF quit.at = "collecting" /\ quit.id = r /\ w \in quit.pending
             THEN IF answers[r][w] = "saved" THEN Without(w) ELSE Cancelled
             ELSE quit
  /\ UNCHANGED <<windows, unsaved, answers, timers>>

\* A slip of WindowDestroyed: the last window to go does not finish the quit.
WindowDestroyedUnfinished(w) ==
  /\ windows[w] \in {"booting", "closing"}
  /\ windows' = [windows EXCEPT ![w] = "destroyed"]
  /\ quit' = [quit EXCEPT !.pending = @ \ {w}]
  /\ UNCHANGED <<unsaved, answers, reports, timers>>

\* window_destroyed, called as the window goes
WindowDestroyed(w) ==
  /\ windows[w] \in {"booting", "closing"}
  /\ windows' = [windows EXCEPT ![w] = "destroyed"]
  /\ quit' = IF quit.at = "collecting" /\ w \in quit.pending THEN Without(w) ELSE quit
  /\ UNCHANGED <<unsaved, answers, reports, timers>>

\* A slip of CheckDeadline: the timer of a quit long cancelled still cancels.
CheckDeadlineOfAny(r) ==
  /\ r \in timers
  /\ timers' = timers \ {r}
  /\ quit' = IF quit.at = "collecting" THEN Cancelled ELSE quit
  /\ UNCHANGED <<windows, unsaved, answers, reports>>

\* check_deadline, when the timer of request r wakes up: not before its deadline
CheckDeadline(r) ==
  /\ r \in timers
  /\ timers' = timers \ {r}
  /\ quit' = IF quit.at = "collecting" /\ quit.id = r THEN Cancelled ELSE quit
  /\ UNCHANGED <<windows, unsaved, answers, reports>>

-----------------------------------------------------------------------------
\* The window's checkpointAll for request r ends, and its answer is sent.
Checkpoint(r, w) ==
  /\ Alive(w) /\ answers[r][w] = "asked"
  /\ \/ /\ answers' = [answers EXCEPT ![r][w] = "saved"]
        /\ unsaved' = [unsaved EXCEPT ![w] = FALSE]
     \/ answers' = [answers EXCEPT ![r][w] = "failed"] /\ UNCHANGED unsaved
  /\ reports' = reports \union {<<r, w>>}
  /\ UNCHANGED <<windows, quit, timers>>

\* The close handler's checkpoint succeeds; it goes on to destroy the window.
CloseWindow(w) ==
  /\ windows[w] = "open"
  /\ windows' = [windows EXCEPT ![w] = "closing"]
  /\ unsaved' = [unsaved EXCEPT ![w] = FALSE]
  /\ UNCHANGED quitVars

Edit(w) ==
  /\ Alive(w)
  /\ unsaved' = [unsaved EXCEPT ![w] = TRUE]
  /\ UNCHANGED <<windows, quitVars>>

\* create_window; the frontend registers its listeners a while later.
CreateWindow(w) ==
  /\ windows[w] = "none"
  /\ windows' = [windows EXCEPT ![w] = "booting"]
  /\ UNCHANGED <<unsaved, quitVars>>

Listen(w) ==
  /\ windows[w] = "booting"
  /\ windows' = [windows EXCEPT ![w] = "open"]
  /\ UNCHANGED <<unsaved, quitVars>>

Unregister(w) ==
  /\ windows[w] = "destroyed"
  /\ windows' = [windows EXCEPT ![w] = "gone"]
  /\ UNCHANGED <<unsaved, quitVars>>

-----------------------------------------------------------------------------
Next ==
  \/ RequestQuit
  \/ \E r \in RequestId, w \in Window : Ready(r, w) \/ Checkpoint(r, w)
  \/ \E r \in RequestId : CheckDeadline(r)
  \/ \E w \in Window :
       \/ WindowDestroyed(w) \/ CloseWindow(w) \/ Edit(w)
       \/ CreateWindow(w) \/ Listen(w) \/ Unregister(w)

\* The runtime polls a timer whose time has come; windows may stay silent.
Spec ==
  /\ Init /\ [][Next]_vars
  /\ \A r \in RequestId : WF_vars(CheckDeadline(r))

-----------------------------------------------------------------------------
\* The app exits only when every window of the last request has checkpointed
\* for this very request, or has been destroyed: late answers to an earlier
\* request and windows that went away in between never stand in for one.
ExitIsUnanimous ==
  quit.at = "exiting" =>
    \A w \in Window, r \in {quit.id} \ {0} :
      Alive(w) => answers[r][w] \in {"none", "saved"}

\* What is still collected for is always expected to come: a pending window
\* that can answer has a checkpoint running or an answer on its way, and
\* the deadline of the request still stands for the others.
NobodyIsForgotten ==
  quit.at = "collecting" =>
    /\ quit.pending # {}
    /\ quit.id \in timers
    /\ \A w \in quit.pending : Alive(w) =>
         answers[quit.id][w] \in {"asked", "unheard"} \/ <<quit.id, w>> \in reports

\* A quit is cancelled by its own deadline or by a window that failed its own
\* checkpoint, never by what is left over from an earlier quit.
CancelledByItsOwn ==
  [][quit.at = "collecting" /\ quit'.at = "idle" =>
       \/ quit.id \in timers \ timers'
       \/ \E w \in quit.pending :
            answers[quit.id][w] = "failed" /\ <<quit.id, w>> \in reports \ reports']_vars

\* A quit never hangs, however silent the windows are.
QuitSettles ==
  \A r \in RequestId :
    (quit.at = "collecting" /\ quit.id = r) ~> ~(quit.at = "collecting" /\ quit.id = r)

-----------------------------------------------------------------------------
\* What a document of the code says, and the code does not do.

\* "A quit that cannot checkpoint every window is cancelled rather than losing
\* edits": an edit made between a window's answer and the last one is lost.
QuitLosesNoEdits ==
  [][quit.at # "exiting" /\ quit'.at = "exiting" =>
       \A w \in Window : Alive(w) => ~unsaved[w]]_vars
=============================================================================
