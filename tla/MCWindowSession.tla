--------------------------- MODULE MCWindowSession ---------------------------
(* The first window, and another one: restored by Recovery, or opened later. *)
(* Two settings: two quits with their answers and deadlines, or the stored   *)
(* session with an exit at any time, which takes the place of a quit.        *)
(* History variables tell what was sent to the queue last, and whether a     *)
(* thread was ever overtaken between its snapshot and the queue.             *)
EXTENDS WindowSession

CONSTANTS w1, w2

VARIABLES setting, sent, overtaken

MCWindow == {w1, w2}
MCFirst == {w1}

SettingInit ==
  /\ SessionInit /\ sent = store /\ overtaken = FALSE
  /\ setting \in {"quit", "session"}
  /\ setting = "quit" => recovery = "none" /\ store = {}

Quits == Next /\ UNCHANGED <<sessionVars, exit, sent, overtaken>>

Stores ==
  /\ SessionNext
  /\ quit' = quit
  /\ sent' = IF Len(writes') > Len(writes) THEN Last(writes').tabs ELSE sent
  /\ overtaken' = (overtaken \/ taken' # {})

SettingNext ==
  /\ UNCHANGED setting
  /\ \/ setting = "quit" /\ Quits
     \/ setting = "session" /\ Stores

SettingSpec ==
  /\ SettingInit /\ [][SettingNext]_<<allVars, setting, sent, overtaken>>
  /\ \A r \in RequestId : WF_vars(CheckDeadline(r))

\* No thread overtaking another, the windows destroyed by the exit do not
\* overwrite the session that quit.rs has stored.
OutlivesExitInOrder == ~overtaken => SessionOutlivesExit

\* Nor is any report or closing forgotten: what was sent to the database last
\* agrees with the registry about every window that has reported, as soon as
\* no write is on its way (schedule_session_write).
ReportsAreSent ==
  setting = "session" /\ ~held /\ ~frozen /\ Settled /\ ~overtaken =>
    \A w \in Window : reported[w] # "new" /\ windows[w] # "destroyed" =>
      (w \in sent <=> w \in Snapshot)
=============================================================================
