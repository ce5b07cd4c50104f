------------------------------- MODULE Recovery -------------------------------
(***************************************************************************)
(* Crash recovery. A window's drafts reach the `drafts` table and then a   *)
(* ring of snapshots beside it (src-tauri/src/documents/recovery.rs); a    *)
(* start that finds the last run's session.lock (documents/session_lock.rs)*)
(* offers the snapshots newer than their files in the Recovery window      *)
(* (commands/recovery.rs), whose frontend applies one decision after the   *)
(* other (src/documents/recoveryManager.ts, RecoveryStartup.tsx).          *)
(*                                                                         *)
(* A scene is the set of the edits in it; `Foreign` stands in the contents *)
(* another program writes. Times are whole seconds, as in saved_at and in  *)
(* the mtimes compared with it. A ring is the sequence of its snapshots in *)
(* the order they were written, which the slots' own mtimes tell.          *)
(***************************************************************************)
EXTENDS Integers, Sequences, SequencesExt, FiniteSetsExt

CONSTANTS
  Drawing,     \* drawings, each at a path of its own
  None,        \* no file, row, tab or decision
  Slots,       \* RECOVERY_SNAPSHOT_COUNT
  MaxEdits,    \* bound: edits over all drawings
  MaxTime,     \* bound: seconds
  MaxFaults    \* bound: crashes, terminations, changes by other programs

ASSUME RecoveryAssumption ==
  /\ Slots \in Nat \ {0}
  /\ MaxEdits \in Nat /\ MaxTime \in Nat /\ MaxFaults \in Nat

Foreign == 0
Edits == 1..MaxEdits
Scene == SUBSET (Edits \union {Foreign})
Time == 0..MaxTime

VARIABLES
  file,       \* what each drawing's path holds, and its mtime
  draft,      \* its row of `drafts`: the base hash and is_dirty
  ring,       \* its recovery snapshots, oldest first
  lock,       \* does session.lock exist?
  app,        \* "down", "checking" and "deciding" (Recovery), "working"
  tab,        \* the drawing's session in a window
  command,    \* the drawing's doc_save_draft or doc_close under way
  dialog,     \* the candidates RecoveryDialog shows
  remaining,  \* RecoveryManager.remaining
  decision,   \* the decision being applied
  now, edits, faults,
  owed,        \* history: edits whose save was answered and that nobody gave up
  excused,     \* history: drawings a start may pass over, for a reason
  settled      \* history: drawings whose offer was decided to the end

disk == <<file, draft, ring, lock>>
recovery == <<dialog, remaining, decision>>
counters == <<edits, faults>>
history == <<owed, excused, settled>>
vars == <<disk, app, tab, command, recovery, now, counters, history>>

File == [scene : Scene, mtime : Time]
Snapshot == [slot : 1..Slots, scene : Scene, base : Scene, savedAt : Time]
Tab == [scene : Scene, state : {"clean", "dirty", "draftSaved"}, restored : BOOLEAN]
Command == [step : {"upserted", "closing"}, scene : Scene, base : Scene, at : Time]
Decision == [of : Drawing, action : {"restore", "saveAsNew", "discard"}, scene : Scene,
             step : {"read", "copied", "removing", "removed", "answered", "adopted"}]

Draft == [base : Scene, dirty : BOOLEAN]

ASSUME NoneAssumption == None \notin File \union Draft \union Tab \union Command \union Decision

TypeOK ==
  /\ file \in [Drawing -> File \union {None}]
  /\ draft \in [Drawing -> Draft \union {None}]
  /\ \A d \in Drawing : /\ Len(ring[d]) <= Slots
                        /\ Range(ring[d]) \subseteq Snapshot
  /\ lock \in BOOLEAN
  /\ app \in {"down", "checking", "deciding", "working"}
  /\ tab \in [Drawing -> Tab \union {None}]
  /\ command \in [Drawing -> Command \union {None}]
  /\ remaining \subseteq dialog /\ dialog \subseteq Drawing
  /\ decision \in Decision \union {None}
  /\ now \in Time /\ edits \in 0..MaxEdits
  /\ faults \in 0..MaxFaults
  /\ owed \in [Drawing -> Scene]
  /\ excused \subseteq Drawing /\ settled \subseteq Drawing

\* A first start over drawings the app has not opened yet.
RecoveryInit ==
  /\ file = [d \in Drawing |-> [scene |-> {}, mtime |-> 0]]
  /\ draft = [d \in Drawing |-> None] /\ ring = [d \in Drawing |-> <<>>]
  /\ lock = TRUE /\ app = "working"
  /\ tab = [d \in Drawing |-> None] /\ command = [d \in Drawing |-> None]
  /\ dialog = {} /\ remaining = {} /\ decision = None
  /\ now = 0 /\ edits = 0 /\ faults = 0
  /\ owed = [d \in Drawing |-> {}]
  /\ excused = {} /\ settled = {}

-----------------------------------------------------------------------------
\* latest_valid_snapshot: the greatest by (saved_at, mtime), the ring's last.
Latest(d) == ring[d][Len(ring[d])]
SceneOf(maybe) == IF maybe = None THEN {} ELSE maybe.scene

\* The first empty slot, else the one after the newest snapshot's.
NextSlot(d) ==
  LET empty == (1..Slots) \ {ring[d][i].slot : i \in DOMAIN ring[d]}
  IN IF empty # {} THEN Min(empty) ELSE (Latest(d).slot % Slots) + 1

WriteSnapshot(d, scene, base, at) ==
  LET slot == NextSlot(d)
      old == {i \in DOMAIN ring[d] : ring[d][i].slot = slot}
  IN ring' = [ring EXCEPT ![d] =
       Append(IF old = {} THEN @ ELSE RemoveAt(@, Min(old)),
              [slot |-> slot, scene |-> scene, base |-> base, savedAt |-> at])]

\* remove_dir_all takes the slots in the order the directory lists them.
RemoveSlot(d) ==
  \E i \in DOMAIN ring[d] : ring' = [ring EXCEPT ![d] = RemoveAt(@, i)]

\* A slip of SnapshotNewer: only the base tells whether there is a change.
SnapshotNewerByBase(d) ==
  file[d] # None => /\ Latest(d).savedAt > file[d].mtime
                    /\ Latest(d).base # file[d].scene

\* The comparison of RecoveryService::list.
SnapshotNewer(d) ==
  file[d] # None => /\ Latest(d).savedAt > file[d].mtime
                    /\ \/ Latest(d).base # file[d].scene
                       \/ Latest(d).scene # file[d].scene

Candidates == {d \in Drawing : ring[d] # <<>> /\ SnapshotNewer(d)}

-----------------------------------------------------------------------------
\* Edits the app has answered for that the drawing's file does not hold.
Unsaved(d) == owed[d] \ SceneOf(file[d])
Forgo(d, scene) == owed' = [owed EXCEPT ![d] = @ \ scene]

Running(d, step) == command[d] # None /\ command[d].step = step
Upserted(d) == Running(d, "upserted")
Closing(d) == Running(d, "closing")
Quiet == UNCHANGED <<dialog, remaining, decision, now, counters>>

\* Opening shows the file; a draft left in the table is only announced.
Open(d) ==
  /\ app = "working" /\ tab[d] = None /\ file[d] # None
  /\ tab' = [tab EXCEPT ![d] = [scene |-> file[d].scene, state |-> "clean", restored |-> FALSE]]
  /\ UNCHANGED <<disk, app, command, history>> /\ Quiet

\* The Recovery dialog is modal: nothing is drawn before it is gone.
Edit(d) ==
  /\ app = "working" /\ tab[d] # None /\ ~Closing(d) /\ edits < MaxEdits
  /\ edits' = edits + 1
  /\ tab' = [tab EXCEPT ![d].scene = @ \union {edits'}, ![d].state = "dirty"]
  /\ UNCHANGED <<disk, app, command, recovery, now, faults, history>>

\* save_draft: the row, then the snapshot with the time taken before the row.
UpsertDraft(d) ==
  /\ tab[d] # None /\ tab[d].state = "dirty" /\ command[d] = None /\ file[d] # None
  /\ LET base == IF draft[d] = None THEN file[d].scene ELSE draft[d].base
     IN /\ draft' = [draft EXCEPT ![d] = [base |-> base, dirty |-> TRUE]]
        /\ command' = [command EXCEPT ![d] =
             [step |-> "upserted", scene |-> tab[d].scene, base |-> base, at |-> now]]
  /\ UNCHANGED <<file, ring, lock, app, tab, history>> /\ Quiet

SaveSnapshot(d) ==
  /\ Upserted(d)
  /\ WriteSnapshot(d, command[d].scene, command[d].base, command[d].at)
  /\ command' = [command EXCEPT ![d] = None]
  /\ tab' = [tab EXCEPT ![d].restored = FALSE,
             ![d].state = IF tab[d].scene = command[d].scene THEN "draftSaved" ELSE @]
  /\ owed' = [owed EXCEPT ![d] = @ \union command[d].scene]
  /\ excused' = IF file[d] # None /\ command[d].at <= file[d].mtime
                THEN excused \union {d} ELSE excused \ {d}
  /\ settled' = settled \ {d}
  /\ UNCHANGED <<file, draft, lock, app>> /\ Quiet

\* The row stands; the window keeps its change and tries again.
SnapshotFails(d) ==
  /\ Upserted(d)
  /\ command' = [command EXCEPT ![d] = None]
  /\ UNCHANGED <<disk, app, tab, history>> /\ Quiet

\* The snapshots stay: the file's mtime is what keeps them from being offered.
Checkpoint(d) ==
  /\ tab[d] # None /\ tab[d].state # "clean" /\ command[d] = None /\ file[d] # None
  /\ file' = [file EXCEPT ![d] = [scene |-> tab[d].scene, mtime |-> now]]
  /\ draft' = [draft EXCEPT ![d] = [base |-> tab[d].scene, dirty |-> FALSE]]
  /\ tab' = [tab EXCEPT ![d].state = "clean", ![d].restored = FALSE]
  /\ owed' = [owed EXCEPT ![d] = @ \union tab[d].scene]
  /\ UNCHANGED <<ring, lock, app, command, excused, settled>> /\ Quiet

\* A slip of BeginClose: what the row still owes the file is not asked for.
BeginCloseUnsaved(d) ==
  /\ app = "working" /\ tab[d] # None /\ command[d] = None /\ file[d] # None
  /\ command' = [command EXCEPT ![d] =
       [step |-> "closing", scene |-> {}, base |-> {}, at |-> now]]
  /\ UNCHANGED <<disk, app, tab, history>> /\ Quiet

\* A close finds everything checkpointed. It removes the snapshots, and then
\* the row; what fails or dies in between is repeated or is of no use.
BeginClose(d) ==
  /\ app = "working" /\ tab[d] # None /\ tab[d].state = "clean" /\ command[d] = None
  /\ file[d] # None /\ (draft[d] # None => ~draft[d].dirty)
  /\ command' = [command EXCEPT ![d] =
       [step |-> "closing", scene |-> {}, base |-> {}, at |-> now]]
  /\ UNCHANGED <<disk, app, tab, history>> /\ Quiet

RemoveClosed(d) ==
  /\ Closing(d)
  /\ RemoveSlot(d)
  /\ UNCHANGED <<file, draft, lock, app, tab, command, history>> /\ Quiet

CloseFails(d) ==
  /\ Closing(d)
  /\ command' = [command EXCEPT ![d] = None]
  /\ UNCHANGED <<disk, app, tab, history>> /\ Quiet

EndClose(d) ==
  /\ Closing(d) /\ ring[d] = <<>>
  /\ draft' = [draft EXCEPT ![d] = None]
  /\ command' = [command EXCEPT ![d] = None]
  /\ tab' = [tab EXCEPT ![d] = None]
  /\ UNCHANGED <<file, ring, lock, app, history>> /\ Quiet

\* Another program writes or removes a drawing that no window shows.
ForeignWrite(d) ==
  /\ app \in {"down", "working"} /\ tab[d] = None /\ faults < MaxFaults
  /\ faults' = faults + 1
  /\ \E after \in {None, [scene |-> {Foreign}, mtime |-> now]} :
       /\ after # file[d]
       /\ file' = [file EXCEPT ![d] = after]
  /\ Forgo(d, SceneOf(file[d]))
  /\ excused' = excused \union {d}
  /\ UNCHANGED <<draft, ring, lock, app, tab, command, recovery, now, edits, settled>>

Tick ==
  /\ now < MaxTime
  /\ now' = now + 1
  /\ UNCHANGED <<disk, app, tab, command, recovery, counters, history>>

-----------------------------------------------------------------------------
(* The decisions of the Recovery window.                                   *)

\* A restore without a file asks for a path and saves under it.
Decide(d, action) ==
  /\ app = "deciding" /\ decision = None
  /\ d \in dialog /\ ring[d] # <<>>
  /\ decision' = [of |-> d, step |-> "read", scene |-> Latest(d).scene,
       action |-> IF action = "restore" /\ file[d] = None THEN "saveAsNew" ELSE action]
  /\ Forgo(d, IF action = "discard" THEN Latest(d).scene ELSE {})
  /\ UNCHANGED <<disk, app, tab, command, dialog, remaining, now, counters, excused, settled>>

Applying(step) == decision # None /\ decision.step = step
Goto(step) == decision' = [decision EXCEPT !.step = step]
Applied == UNCHANGED <<app, command, dialog, now, counters>>

WriteCopy ==
  /\ Applying("read") /\ decision.action = "saveAsNew"
  /\ Forgo(decision.of, decision.scene)
  /\ Goto("copied")
  /\ UNCHANGED <<disk, tab, remaining, excused, settled>> /\ Applied

RemoveSnapshots ==
  /\ \/ Applying("read") /\ decision.action # "saveAsNew"
     \/ Applying("copied") \/ Applying("removing")
  /\ RemoveSlot(decision.of)
  /\ Goto(IF ring'[decision.of] = <<>> THEN "removed" ELSE "removing")
  /\ tab' = IF tab[decision.of] = None THEN tab ELSE [tab EXCEPT ![decision.of].restored = TRUE]
  /\ UNCHANGED <<file, draft, lock, remaining, history>> /\ Applied

DeleteDraft ==
  /\ Applying("removed")
  /\ draft' = [draft EXCEPT ![decision.of] = None]
  /\ Goto("answered")
  /\ UNCHANGED <<file, ring, lock, tab, remaining, history>> /\ Applied

\* DocumentManager.restore registers a dirty session: its scene is stored by
\* the scheduler's next draft. A copy is opened as a drawing of its own.
Adopt ==
  /\ Applying("answered")
  /\ remaining' = remaining \ {decision.of}
  /\ Goto("adopted")
  /\ IF decision.action = "restore"
     THEN /\ file[decision.of] # None
          /\ tab' = [tab EXCEPT ![decision.of] =
               [scene |-> decision.scene, state |-> "dirty", restored |-> TRUE]]
     ELSE UNCHANGED tab
  /\ settled' = settled \union {decision.of}
  /\ UNCHANGED <<disk, owed, excused>> /\ Applied

\* The last decision ends Recovery: startup_recovery_done.
Finish ==
  /\ Applying("adopted")
  /\ decision' = None /\ dialog' = dialog \ {decision.of}
  /\ app' = IF remaining = {} THEN "working" ELSE app
  /\ UNCHANGED <<disk, tab, command, remaining, now, counters, history>>

\* What is only in the answer of an applied offer, or in a restored tab that
\* has no draft yet.
InMemory(d) ==
  UNION {IF tab[d] # None /\ tab[d].restored THEN tab[d].scene ELSE {},
         IF /\ decision # None /\ decision.of = d
            /\ decision.step \in {"removing", "removed", "answered"}
         THEN decision.scene ELSE {}}

\* A step fails: the dialog shows the error and the candidate stays. (The
\* call that ends Recovery may fail too; the tab is adopted by then.)
ApplyFails ==
  /\ decision # None
  /\ decision' = None
  /\ Forgo(decision.of, IF tab[decision.of] = None THEN InMemory(decision.of) ELSE {})
  /\ UNCHANGED <<disk, tab, remaining, excused, settled>> /\ Applied

-----------------------------------------------------------------------------
(* Starts and ends. A crash leaves the lock for the next start to find.    *)
EndAbruptly ==
  /\ app # "down" /\ faults < MaxFaults
  /\ faults' = faults + 1
  /\ app' = "down"
  /\ tab' = [d \in Drawing |-> None] /\ command' = [d \in Drawing |-> None]
  /\ dialog' = {} /\ remaining' = {} /\ decision' = None
  /\ owed' = [d \in Drawing |-> owed[d] \ InMemory(d)]
  /\ UNCHANGED <<file, draft, ring, now, edits, settled>>

Crash == EndAbruptly /\ UNCHANGED <<lock, excused>>

\* The Dock menu or a logout ends the app past the coordinated quit, and
\* RunEvent::Exit releases the lock all the same.
Terminate ==
  /\ EndAbruptly
  /\ lock' = FALSE
  /\ excused' = Drawing

\* A coordinated quit leaves once every window has checkpointed, in the
\* middle of Recovery too; RunEvent::Exit releases the lock.
Quit ==
  /\ app \in {"working", "deciding"} /\ decision = None
  /\ \A d \in Drawing : /\ command[d] = None
                        /\ tab[d] # None => tab[d].state = "clean"
  /\ app' = "down" /\ lock' = FALSE
  /\ tab' = [d \in Drawing |-> None]
  /\ dialog' = {} /\ remaining' = {}
  /\ excused' = excused \union remaining
  /\ UNCHANGED <<file, draft, ring, command, decision, now, counters, owed, settled>>

\* What a start with these offers passes over, for a reason.
PassOver(offers) ==
  owed' = [d \in Drawing |-> owed[d] \ (IF d \in excused \ offers THEN Unsaved(d) ELSE {})]

Launch ==
  /\ app = "down"
  /\ lock' = TRUE
  /\ app' = IF lock THEN "checking" ELSE "working"
  /\ IF lock THEN UNCHANGED owed ELSE PassOver({})
  /\ UNCHANGED <<file, draft, ring, tab, command, recovery, now, counters, excused, settled>>

List ==
  /\ app = "checking"
  /\ dialog' = Candidates /\ remaining' = Candidates
  /\ app' = IF Candidates = {} THEN "working" ELSE "deciding"
  /\ PassOver(Candidates)
  /\ UNCHANGED <<disk, tab, command, decision, now, counters, excused, settled>>

Next ==
  \/ \E d \in Drawing :
       \/ Open(d) \/ Edit(d) \/ UpsertDraft(d) \/ SaveSnapshot(d) \/ SnapshotFails(d)
       \/ Checkpoint(d) \/ BeginClose(d) \/ RemoveClosed(d) \/ CloseFails(d) \/ EndClose(d)
       \/ ForeignWrite(d)
       \/ \E action \in {"restore", "saveAsNew", "discard"} : Decide(d, action)
  \/ WriteCopy \/ RemoveSnapshots \/ DeleteDraft \/ Adopt \/ Finish \/ ApplyFails
  \/ Crash \/ Terminate \/ Quit \/ Launch \/ List \/ Tick

Spec == RecoveryInit /\ [][Next]_vars

-----------------------------------------------------------------------------
(* An edit the app has answered for is never nowhere: it is in the file, in*)
(* the snapshot Recovery would take, in a tab, or in the offer under way,  *)
(* unless the user or another program gave it up, a start passed it over   *)
(* for a reason, or it was lost in memory while an offer was applied.      *)
EditsKept ==
  \A d \in Drawing : Unsaved(d) \subseteq
    UNION {IF ring[d] = <<>> THEN {} ELSE Latest(d).scene, SceneOf(tab[d]),
           IF decision # None /\ decision.of = d THEN decision.scene ELSE {}}

(* A start overlooks nothing: while the app runs, a drawing with edits its *)
(* file does not hold is open in a window or offered by Recovery. A start  *)
(* passes over only what another program's write has made older than the   *)
(* file, what was drafted in the second of the file's mtime, what a quit   *)
(* left undecided, and what a termination past the quit left unsaved.      *)
NothingOverlooked ==
  app \in {"deciding", "working"} =>
    \A d \in Drawing : Unsaved(d) # {} => tab[d] # None \/ d \in remaining

(* What was decided to the end is not offered again before it is drafted   *)
(* again, whatever crashes in between.                                     *)
DecidedStays == settled \intersect remaining = {}

(* "The operation is idempotent, which lets recovery_apply safely retry":  *)
(* a candidate the dialog still shows can be decided.                      *)
OffersCanBeRetried ==
  decision = None => \A d \in dialog : ring[d] # <<>>
===============================================================================
