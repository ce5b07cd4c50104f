---------------------------- MODULE WindowSession ----------------------------
(***************************************************************************)
(* The stored Window Session and the end of the app: SessionWriter         *)
(* (src-tauri/src/window/session.rs), persist_session and its callers      *)
(* (src-tauri/src/window/mod.rs, quit.rs, lib.rs, commands/session.rs),    *)
(* the tab reports of src/app/windowSession.ts, and the database queue.    *)
(*                                                                         *)
(* It adds the session to the windows and the quit of QuitCoordinator.     *)
(* Edits are left out: they are never reported. A window has one tab, and  *)
(* is stored exactly if its tab was reported; Workspaces, placements and   *)
(* the order of tabs are left out.                                         *)
(***************************************************************************)
EXTENDS QuitCoordinator, FiniteSets, Sequences, SequencesExt

CONSTANT MaxQueue    \* bound: session writes in the database queue, or on their way there

ASSUME SessionAssumption == MaxQueue \in Nat \ {0}

VARIABLES
  tab,        \* the window's tab, as its frontend shows it
  reported,   \* as the registry has it (session_tabs)
  held, frozen, scheduled, pendingRestore,   \* SessionWriter
  recovery,   \* how far the Recovery window has come
  delayed,    \* a delayed write has cleared `scheduled` and is about to run
  taken,      \* snapshots on their way to the database queue
  writes,     \* window_session_replace calls in the database queue
  store,      \* the table window_session
  exit,       \* how far the process has come towards its end
  kept        \* history: what the exit stored of the windows it found

queue == <<taken, writes>>
writer == <<held, frozen, scheduled>>
restoring == <<pendingRestore, recovery>>
sessionVars == <<tab, reported, writer, restoring, delayed, queue, store, kept>>
allVars == <<vars, sessionVars, exit>>

SessionTypeOK ==
  /\ TypeOK
  /\ tab \in [Window -> {"new", "shown", "closed"}]
  /\ reported \in [Window -> {"new", "shown", "closed"}]
  /\ {held, frozen, scheduled, delayed} \subseteq BOOLEAN
  /\ pendingRestore \subseteq Window
  /\ recovery \in {"none", "due", "restoring", "over"}
  /\ taken \subseteq SUBSET Window
  /\ writes \in Seq([tabs : SUBSET Window, by : {"exit", "other"}])
  /\ Len(writes) <= MaxQueue + 1
  /\ store \subseteq Window
  /\ exit \in {"no", "storing", "leaving"}
  /\ kept \subseteq Window

\* After an abnormal exit only the Recovery window is there, and the stored
\* windows are yet to be recreated; otherwise setup has recreated them.
SessionInit ==
  /\ Init
  /\ tab = [w \in Window |-> "new"] /\ reported = tab
  /\ \/ /\ recovery = "due" /\ held = TRUE
        /\ store \in SUBSET (Window \ First) /\ pendingRestore = store
     \/ /\ recovery = "none" /\ held = FALSE
        /\ store \in SUBSET First /\ pendingRestore = {}
  /\ frozen = FALSE /\ scheduled = FALSE /\ delayed = FALSE
  /\ taken = {} /\ writes = <<>>
  /\ exit = "no" /\ kept = {}

-----------------------------------------------------------------------------
\* session_snapshot, less what is_restorable drops.
Snapshot == {w \in Labels : reported[w] = "shown"}

Room == Len(writes) + Cardinality(taken) < MaxQueue

\* The write enters the queue, or is still on its way there while another
\* thread runs.
Enqueue(by) ==
  \/ writes' = Append(writes, [tabs |-> Snapshot, by |-> by]) /\ UNCHANGED taken
  \/ by = "other" /\ taken' = taken \union {Snapshot} /\ UNCHANGED writes

\* A slip of Persist: the freeze is ignored.
PersistFrozen(by) == IF held THEN UNCHANGED queue ELSE Enqueue(by)

\* persist_session up to its await
Persist(by) == IF held \/ frozen THEN UNCHANGED queue ELSE Enqueue(by)

\* try_schedule
Schedule == scheduled' = TRUE

ShowTab(w) ==
  /\ Alive(w) /\ tab[w] = "new"
  /\ tab' = [tab EXCEPT ![w] = "shown"]
  /\ UNCHANGED <<vars, reported, writer, restoring, delayed, queue, store, exit, kept>>

CloseTab(w) ==
  /\ Alive(w) /\ tab[w] = "shown"
  /\ tab' = [tab EXCEPT ![w] = "closed"]
  /\ UNCHANGED <<vars, reported, writer, restoring, delayed, queue, store, exit, kept>>

\* window_session_update, a pause after the change
ReportTabs(w) ==
  /\ Alive(w) /\ reported[w] # tab[w]
  /\ reported' = [reported EXCEPT ![w] = tab[w]]
  /\ Schedule
  /\ UNCHANGED <<vars, tab, held, frozen, restoring, delayed, queue, store, exit, kept>>

\* The delayed write wakes up, clears the flag, and only then takes its snapshot.
ClearScheduled ==
  /\ scheduled /\ ~delayed
  /\ scheduled' = FALSE /\ delayed' = TRUE
  /\ UNCHANGED <<vars, tab, reported, held, frozen, restoring, queue, store, exit, kept>>

DelayedPersist ==
  /\ delayed /\ Room
  /\ Persist("other")
  /\ delayed' = FALSE
  /\ UNCHANGED <<vars, tab, reported, writer, restoring, store, exit, kept>>

\* Claiming or releasing a Workspace stores the session at once.
ClaimPersists(w) ==
  /\ Alive(w) /\ Room
  /\ Persist("other")
  /\ UNCHANGED <<vars, tab, reported, writer, restoring, delayed, store, exit, kept>>

\* The write of an earlier snapshot gets to the queue at last.
Send(tabs) ==
  /\ tabs \in taken
  /\ taken' = taken \ {tabs}
  /\ writes' = Append(writes, [tabs |-> tabs, by |-> "other"])
  /\ UNCHANGED <<vars, tab, reported, writer, restoring, delayed, store, exit, kept>>

\* The writer thread runs the jobs in order; each replaces the whole table.
DatabaseWrite ==
  /\ writes # <<>>
  /\ writes' = Tail(writes)
  /\ \/ /\ store' = Head(writes).tabs
        /\ kept' = IF Head(writes).by = "exit" THEN store' ELSE kept
     \/ UNCHANGED <<store, kept>>
  /\ UNCHANGED <<vars, tab, reported, writer, restoring, delayed, taken, exit>>

-----------------------------------------------------------------------------
\* finish_recovery, once: what it reads first may fail, and then nothing comes
\* of the rest.
StartRestoring ==
  /\ recovery = "due"
  /\ \E w \in First : Alive(w)
  /\ recovery' \in {"restoring", "over"}
  /\ UNCHANGED <<vars, tab, reported, writer, pendingRestore, delayed, queue, store, exit, kept>>

\* restore_session: a window that cannot be built is passed over.
RestoreWindow(w) ==
  /\ recovery = "restoring" /\ w \in pendingRestore
  /\ pendingRestore' = pendingRestore \ {w}
  /\ CreateWindow(w) \/ UNCHANGED vars
  /\ UNCHANGED <<tab, reported, writer, recovery, delayed, queue, store, exit, kept>>

\* The hold ends, and the session is stored at once.
EndRestoring ==
  /\ recovery = "restoring" /\ pendingRestore = {}
  /\ Room
  /\ recovery' = "over"
  /\ held' = FALSE
  /\ IF frozen THEN UNCHANGED queue ELSE Enqueue("other")
  /\ UNCHANGED <<vars, tab, reported, frozen, scheduled, pendingRestore, delayed, store, exit, kept>>

\* The Exit step of a quit, or a termination that nobody can intercept: it
\* may come at any time.
StoreAtExit ==
  /\ exit = "no"
  /\ exit' = "storing"
  /\ Persist("exit")
  /\ UNCHANGED <<vars, tab, reported, writer, restoring, delayed, store, kept>>

\* freeze, once the write is through
Freeze ==
  /\ exit = "storing"
  /\ \A i \in DOMAIN writes : writes[i].by = "other"
  /\ frozen' = TRUE
  /\ exit' = "leaving"
  /\ kept' = {w \in kept : Alive(w) /\ reported[w] = "shown"}
  /\ UNCHANGED <<vars, tab, reported, held, scheduled, restoring, delayed, queue, store>>

\* The exit destroys windows, and their Destroyed handlers still run.
TearDown(w) ==
  /\ exit = "leaving"
  /\ Alive(w)
  /\ windows' = [windows EXCEPT ![w] = "destroyed"]
  /\ UNCHANGED <<unsaved, quitVars, sessionVars, exit>>

\* A slip of ForgetWindow: nobody asks for the session to be written.
ForgetWindowUnasked(w) ==
  /\ Unregister(w)
  /\ UNCHANGED <<sessionVars, exit>>

\* The task of the Destroyed handler: unregister, then schedule_session_write.
ForgetWindow(w) ==
  /\ Unregister(w)
  /\ Schedule
  /\ UNCHANGED <<tab, reported, held, frozen, restoring, delayed, queue, store, exit, kept>>

-----------------------------------------------------------------------------
Windows ==
  /\ \/ RequestQuit
     \/ \E r \in RequestId, w \in Window : Ready(r, w) \/ Checkpoint(r, w)
     \/ \E r \in RequestId : CheckDeadline(r)
     \/ \E w \in Window : WindowDestroyed(w) \/ CloseWindow(w) \/ Listen(w)
     \/ \E w \in Window \ pendingRestore : CreateWindow(w)
  /\ UNCHANGED <<sessionVars, exit>>

Session ==
  \/ \E w \in Window :
       \/ ShowTab(w) \/ CloseTab(w) \/ ReportTabs(w) \/ ClaimPersists(w)
       \/ RestoreWindow(w) \/ ForgetWindow(w) \/ TearDown(w)
  \/ \E tabs \in taken : Send(tabs)
  \/ ClearScheduled \/ DelayedPersist \/ DatabaseWrite
  \/ StartRestoring \/ EndRestoring
  \/ StoreAtExit \/ Freeze

\* While it is leaving the process may end at any moment, which takes no step.
SessionNext == Windows \/ Session

SessionSpec == SessionInit /\ [][SessionNext]_allVars

-----------------------------------------------------------------------------
\* Until Recovery is done the session of the run that crashed stays stored,
\* whichever windows open, close and quit meanwhile.
HeldSessionStays == [][held => UNCHANGED store]_allVars

\* What a quit stored is what the next launch finds: windows that the exit
\* destroys, and writes that were scheduled before it, never take any of it back.
SessionOutlivesExit == exit = "leaving" => kept \subseteq store

\* Nothing is on its way to a snapshot, or from it to the queue.
Settled == ~scheduled /\ ~delayed /\ taken = {}

-----------------------------------------------------------------------------
\* "The next launch can restore the windows, tabs, and positions of a normal
\* quit": a tab whose report is still paused is not in what the quit stores.
QuitKeepsTabs ==
  [][exit = "no" /\ exit' = "storing" /\ quit.at = "exiting" /\ ~held =>
       \A w \in Window : Alive(w) /\ tab[w] = "shown" => w \in Last(writes').tabs]_allVars
=============================================================================
