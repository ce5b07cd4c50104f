--------------------------- MODULE EntryMutations ---------------------------
(***************************************************************************)
(* Renaming and deleting drawings of a Workspace (workspace_entries/       *)
(* mod.rs) and the journal that carries index, draft, Recovery snapshots   *)
(* and history along (mutation_journal.rs).  The file system commits, then *)
(* each store follows and is ticked off in the journal; whatever a crash   *)
(* or a failing store leaves is replayed at the launch and before every    *)
(* later command.  Commands of one Workspace exclude each other, but each  *)
(* replays the journals of all of them.                                    *)
(***************************************************************************)
EXTENDS Naturals, FiniteSets

CONSTANTS Paths,
          Home,           \* Home[p]: the Workspace that p is in
          Objects,        \* files as the file system knows them: device, inode
          Workers,        \* bound: commands and replays at once
          None,
          MaxMutations,   \* bound: journals ever written
          MaxExternal,    \* bound: steps of other programs
          MaxCrashes      \* bound: crashes

ASSUME BoundsAssumption == {MaxMutations, MaxExternal, MaxCrashes} \subseteq Nat

VARIABLES
    disk,       \* the file at each path
    trashed,    \* files that the app has moved to the Trash
    rows,       \* whose index row and draft the main database has at a path
    snaps,      \* whose Recovery snapshots are kept for a path
    located,    \* where the history believes a document's file to be
    journals,   \* the journal file of each mutation
    old,        \* those that are older than UNCOMMITTED_JOURNAL_TTL
    task,       \* what each worker does
    launching,  \* the launch's replay has not ended
    mutations, external, crashes   \* how many so far

stores == <<rows, snaps, located>>
bounds == <<mutations, external, crashes>>
entryVars == <<disk, trashed, rows, snaps, located, journals, old, task, launching, mutations, external, crashes>>

Ids == 1..MaxMutations
Phases == {"parentSync", "sqlite", "recovery", "history"}
Record == [id : Ids, kind : {"rename", "delete"}, from : Paths, to : Paths \cup {None},
           object : Objects,          \* filesystem_identity, history_document_id
           committed : BOOLEAN,       \* filesystem_committed
           applied : SUBSET Phases]   \* the phases ticked off
Kinds == {"rename", "delete", "create", "look", "list", "launch", "settle"}
Task == [kind : Kinds, from : Paths \cup {None}, to : Paths \cup {None},
         step : {"replay", "act", "observe", "apply", "save"}, phase : Phases \cup {"finish"},
         todo : SUBSET Record, record : Record \cup {None}, failed : BOOLEAN]

ASSUME NoneIsNothing == None \notin Paths \cup Objects \cup Record \cup Task

EntryTypeOK ==
    /\ disk \in [Paths -> Objects \cup {None}] /\ trashed \subseteq Objects
    /\ rows \in [Paths -> Objects \cup {None}] /\ snaps \in [Paths -> Objects \cup {None}]
    /\ located \in [Objects -> Paths \cup {None}]
    /\ journals \in [Ids -> Record \cup {None}]
    /\ \A i \in Ids : journals[i] # None => journals[i].id = i
    /\ old \subseteq Ids
    /\ task \in [Workers -> Task \cup {None}]
    /\ launching \in BOOLEAN
    /\ mutations \in 0..MaxMutations /\ external \in 0..MaxExternal /\ crashes \in 0..MaxCrashes

-----------------------------------------------------------------------------
Running == {k \in Workers : task[k] # None}
Doing(k, s) == task[k] # None /\ task[k].step = s
Journals == {journals[i] : i \in {j \in Ids : journals[j] # None}}

\* Files that are nowhere yet and that nothing remembers.
Unborn == {o \in Objects : /\ \A p \in Paths : o \notin {disk[p], rows[p], snaps[p]}
                           /\ located[o] = None /\ o \notin trashed
                           /\ \A r \in Journals : r.object # o}

(* WorkspaceMutationGate: what has a path holds the lock of its Workspace. *)
Free(w) == \A k \in {j \in Running : task[j].from # None} : Home[task[k].from] # w

(* load_journals, into a copy that is worked through. *)
Begin(k, kind, from, to) ==
    /\ task[k] = None
    /\ task' = [task EXCEPT ![k] = [kind |-> kind, from |-> from, to |-> to, step |-> "replay",
                                    phase |-> "finish", todo |-> Journals, record |-> None,
                                    failed |-> FALSE]]

EntryInit ==
    /\ disk \in [Paths -> Objects \cup {None}]
    /\ \A p, q \in Paths : p # q /\ disk[p] = disk[q] => disk[p] = None
    /\ trashed = {}
    /\ rows = disk /\ snaps = disk
    /\ located = [o \in Objects |-> IF \E p \in Paths : disk[p] = o
                                      THEN CHOOSE p \in Paths : disk[p] = o ELSE None]
    /\ journals = [i \in Ids |-> None] /\ old = {}
    /\ task = [k \in Workers |-> None]
    /\ launching = FALSE /\ mutations = 0 /\ external = 0 /\ crashes = 0

(* A command waits for its Workspace and replays first: to rename, to delete,
   to create, or to look (delete_preflight, reveal). *)
Command(k) ==
    /\ ~launching
    /\ \E p \in Paths :
        /\ Free(Home[p])
        /\ \/ \E kind \in {"delete", "create", "look"} : Begin(k, kind, p, None)
           \/ \E q \in Paths \ {p} : Home[q] = Home[p] /\ Begin(k, "rename", p, q)
    /\ UNCHANGED <<disk, trashed, stores, journals, old, launching, bounds>>

(* RecoveryService::list replays without a lock and without the history. *)
List(k) ==
    /\ ~launching
    /\ Begin(k, "list", None, None)
    /\ UNCHANGED <<disk, trashed, stores, journals, old, launching, bounds>>

-----------------------------------------------------------------------------
(* Replaying one record: apply_committed_record_with_history. *)

Take(k) ==
    /\ Doing(k, "replay")
    /\ \E r \in task[k].todo :
        task' = [task EXCEPT ![k].todo = @ \ {r}, ![k].record = r, ![k].step = "observe"]
    /\ UNCHANGED <<disk, trashed, stores, journals, old, launching, bounds>>

RenameCommitProven(r) ==
    r.kind = "rename" /\ disk[r.to] = r.object /\ disk[r.from] = None

SafeToDrop(r) ==
    disk[r.from] # None /\ (r.kind = "rename" => disk[r.to] = None)

\* Phases in their order; the history waits for the other stores.
NextPhase(r) ==
    IF "parentSync" \notin r.applied THEN "parentSync"
    ELSE IF "sqlite" \notin r.applied THEN "sqlite"
    ELSE IF "recovery" \notin r.applied THEN "recovery"
    ELSE IF "history" \notin r.applied THEN "history" ELSE "finish"

SaveJournal(r) == journals' = [journals EXCEPT ![r.id] = r]
DeleteJournal(r) == journals' = [journals EXCEPT ![r.id] = None]

GoOn(k, r) == task' = [task EXCEPT ![k].record = r, ![k].step = "apply", ![k].phase = NextPhase(r)]
Leave(k, failed) ==
    task' = [task EXCEPT ![k].record = None, ![k].step = "replay", ![k].phase = "finish",
                         ![k].failed = @ \/ failed]

FilesystemCommitObserved(k) ==
    LET r == task[k].record
        seen == [r EXCEPT !.committed = TRUE]
    IN /\ Doing(k, "observe")
       /\ \/ /\ r.committed
             /\ GoOn(k, r) /\ UNCHANGED <<journals, old>>
          \/ /\ ~r.committed /\ RenameCommitProven(r)
             /\ SaveJournal(seen) /\ GoOn(k, seen) /\ old' = old \ {r.id}
          \/ /\ ~r.committed /\ ~RenameCommitProven(r) /\ SafeToDrop(r)
             /\ IF r.id \in old /\ journals[r.id] # None
                  THEN DeleteJournal(r) ELSE UNCHANGED journals
             /\ Leave(k, FALSE) /\ UNCHANGED old
          \/ /\ ~r.committed /\ ~RenameCommitProven(r) /\ ~SafeToDrop(r)
             /\ Leave(k, TRUE) /\ UNCHANGED <<journals, old>>
       /\ UNCHANGED <<disk, trashed, stores, launching, bounds>>

MoveCopying(store, r) ==          \* a slip of Move: what was at the old path stays there
    IF store[r.from] = None THEN store ELSE [store EXCEPT ![r.to] = store[r.from]]

Move(store, r) ==
    IF store[r.from] = None THEN store
    ELSE [store EXCEPT ![r.to] = store[r.from], ![r.from] = None]

(* migrate_entry_paths and remove_clean_entry_metadata *)
ApplySqlite(r) ==
    /\ rows' = IF r.kind = "rename" THEN Move(rows, r) ELSE [rows EXCEPT ![r.from] = None]
    /\ UNCHANGED <<snaps, located>>

(* migrate_entry_snapshots and remove_snapshots_for_path *)
ApplyRecovery(r) ==
    /\ snaps' = IF r.kind = "rename" THEN Move(snaps, r) ELSE [snaps EXCEPT ![r.from] = None]
    /\ UNCHANGED <<rows, located>>

(* migrate_app_rename takes every document located at the old path along, if
   the file at the new one is its own; a deletion is of the captured document. *)
Follows(o, r) == disk[r.from] \in {None, o} /\ disk[r.to] = o
HistoryApplicable(r) ==
    r.kind = "rename" => /\ disk[r.to] # None
                         /\ \A o \in Objects : located[o] = r.from => Follows(o, r)
ApplyHistoryByPath(r) ==          \* a slip of ApplyHistory: a deletion is of the document at the path
    /\ HistoryApplicable(r)
    /\ located' = [o \in Objects |->
                      IF located[o] # r.from THEN located[o]
                      ELSE IF r.kind = "rename" THEN r.to ELSE None]
    /\ UNCHANGED <<rows, snaps>>

ApplyHistory(r) ==
    /\ HistoryApplicable(r)
    /\ located' = [o \in Objects |->
                      IF r.kind = "rename" /\ located[o] = r.from THEN r.to
                      ELSE IF r.kind = "delete" /\ o = r.object THEN None
                      ELSE located[o]]
    /\ UNCHANGED <<rows, snaps>>

Apply(k) ==
    LET r == task[k].record IN
    /\ Doing(k, "apply")
    /\ \/ task[k].phase = "parentSync" /\ UNCHANGED stores
       \/ task[k].phase = "sqlite" /\ ApplySqlite(r)
       \/ task[k].phase = "recovery" /\ ApplyRecovery(r)
       \/ task[k].phase = "history" /\ task[k].kind # "list" /\ ApplyHistory(r)
    /\ task' = [task EXCEPT ![k].step = "save"]
    /\ UNCHANGED <<disk, trashed, journals, old, launching, bounds>>

SavePhase(k) ==
    LET r == [task[k].record EXCEPT !.applied = @ \cup {task[k].phase}] IN
    /\ Doing(k, "save")
    /\ SaveJournal(r) /\ old' = old \ {r.id}
    /\ IF task[k].phase = "recovery" /\ "sqlite" \notin r.applied
         THEN Leave(k, TRUE) ELSE GoOn(k, r)
    /\ UNCHANGED <<disk, trashed, stores, launching, bounds>>

(* A store that fails leaves the record pending; after the database the
   snapshots are still tried. *)
PhaseFails(k) ==
    /\ Doing(k, "apply") \/ Doing(k, "save")
    /\ task[k].phase # "finish"
    /\ IF task[k].phase = "sqlite" /\ Doing(k, "apply") /\ "recovery" \notin task[k].record.applied
         THEN task' = [task EXCEPT ![k].phase = "recovery", ![k].failed = TRUE]
         ELSE Leave(k, TRUE)
    /\ UNCHANGED <<disk, trashed, stores, journals, old, launching, bounds>>

FinishRecord(k) ==
    /\ Doing(k, "apply") /\ task[k].phase = "finish"
    /\ DeleteJournal(task[k].record)
    /\ Leave(k, FALSE)
    /\ UNCHANGED <<disk, trashed, stores, old, launching, bounds>>

(* All copies are worked through: a command that met an error ends. *)
Replayed(k) ==
    /\ Doing(k, "replay") /\ task[k].todo = {}
    /\ IF task[k].kind \in {"rename", "delete", "create"} /\ ~task[k].failed
         THEN task' = [task EXCEPT ![k].step = "act"] /\ UNCHANGED launching
         ELSE task' = [task EXCEPT ![k] = None]
              /\ launching' = (launching /\ task[k].kind # "launch")
    /\ UNCHANGED <<disk, trashed, stores, journals, old, bounds>>

-----------------------------------------------------------------------------
(* The mutation itself. *)

Written(k) == task[k].record # None     \* its journal has been saved
Ended(k) == task' = [task EXCEPT ![k] = None]

(* create_inner: the drawing and its index row *)
Create(k) ==
    LET p == task[k].from IN
    /\ Doing(k, "act") /\ task[k].kind = "create" /\ disk[p] = None
    /\ \E o \in Unborn : disk' = [disk EXCEPT ![p] = o] /\ rows' = [rows EXCEPT ![p] = o]
    /\ Ended(k)
    /\ UNCHANGED <<trashed, snaps, located, journals, old, launching, bounds>>

Prepare(k) ==
    LET p == task[k].from
        q == task[k].to
    IN /\ Doing(k, "act") /\ task[k].kind \in {"rename", "delete"} /\ ~Written(k)
       /\ disk[p] # None
       /\ task[k].kind = "rename" => disk[q] = None       \* ensure_target_absent
       /\ task[k].kind = "delete" =>                       \* verify_current_file
            \A o \in Objects : located[o] = p => disk[p] = o
       /\ mutations < MaxMutations /\ mutations' = mutations + 1
       /\ LET r == [id |-> mutations', kind |-> task[k].kind, from |-> p, to |-> q,
                    object |-> disk[p], committed |-> FALSE,
                    applied |-> IF task[k].kind = "delete" THEN {"parentSync"} ELSE {}]
          IN SaveJournal(r) /\ task' = [task EXCEPT ![k].record = r]
       /\ UNCHANGED <<disk, trashed, stores, old, launching, external, crashes>>

(* The entry is not there, or the name is taken, or the history disagrees. *)
Refuse(k) ==
    /\ Doing(k, "act") /\ ~Written(k)
    /\ Ended(k)
    /\ UNCHANGED <<disk, trashed, stores, journals, old, launching, bounds>>

(* fs::rename, or the Trash *)
Commit(k) ==
    LET r == task[k].record IN
    /\ Doing(k, "act") /\ Written(k) /\ ~r.committed
    /\ disk[r.from] # None
    /\ IF r.kind = "rename"
         THEN /\ disk' = [disk EXCEPT ![r.to] = disk[r.from], ![r.from] = None]
              /\ UNCHANGED trashed
         ELSE /\ disk' = [disk EXCEPT ![r.from] = None]
              /\ trashed' = trashed \cup {disk[r.from]}
    /\ task' = [task EXCEPT ![k].record.committed = TRUE]
    /\ UNCHANGED <<stores, journals, old, launching, bounds>>

CommitFails(k) ==
    /\ Doing(k, "act") /\ Written(k) /\ ~task[k].record.committed
    /\ DeleteJournal(task[k].record)
    /\ Ended(k)
    /\ UNCHANGED <<disk, trashed, stores, old, launching, bounds>>

(* The marker is saved, and if that fails the stores are still tried. *)
MarkCommitted(k) ==
    LET r == task[k].record IN
    /\ Doing(k, "act") /\ Written(k) /\ r.committed
    /\ \/ SaveJournal(r) /\ old' = old \ {r.id}
       \/ UNCHANGED <<journals, old>>
    /\ task' = [task EXCEPT ![k].kind = "settle", ![k].step = "observe"]
    /\ UNCHANGED <<disk, trashed, stores, launching, bounds>>

-----------------------------------------------------------------------------
(* The document service, which takes no Workspace lock; the window holds a
   drawing's own queue while it has it renamed or deleted.  A drawing whose
   history has not followed yet is left out. *)
SaveDraft(p) ==
    LET o == disk[p] IN
    /\ ~launching /\ o # None
    /\ \A k \in Running : p \notin {task[k].from, task[k].to}
    /\ located[o] \in {None, p}
    /\ rows' = [rows EXCEPT ![p] = o] /\ snaps' = [snaps EXCEPT ![p] = o]
    /\ located' = [located EXCEPT ![o] = p]
    /\ UNCHANGED <<disk, trashed, journals, old, task, launching, bounds>>

(* Another program puts a new file at a path, in place of one or not. *)
ExternalPut(p) ==
    /\ external < MaxExternal /\ external' = external + 1
    /\ \E o \in Unborn : disk' = [disk EXCEPT ![p] = o]
    /\ UNCHANGED <<trashed, stores, journals, old, task, launching, mutations, crashes>>

(* A minute passes; no rename and no Trash takes that long. *)
JournalAges ==
    /\ \E r \in Journals :
        /\ \A k \in Running : Doing(k, "act") /\ Written(k) => task[k].record.id # r.id
        /\ old' = old \cup {r.id}
    /\ UNCHANGED <<disk, trashed, stores, journals, task, launching, bounds>>

(* The process ends at any point; the next launch replays before any window. *)
Crash ==
    /\ crashes < MaxCrashes /\ crashes' = crashes + 1
    /\ launching' = TRUE
    /\ \E k \in Workers :
        task' = [j \in Workers |->
                    IF j = k THEN [kind |-> "launch", from |-> None, to |-> None, step |-> "replay",
                                   phase |-> "finish", todo |-> Journals, record |-> None,
                                   failed |-> FALSE]
                    ELSE None]
    /\ UNCHANGED <<disk, trashed, stores, journals, old, mutations, external>>

EntryNext ==
    \/ \E k \in Workers :
        \/ Command(k) \/ List(k) \/ Take(k) \/ FilesystemCommitObserved(k) \/ Apply(k)
        \/ SavePhase(k) \/ PhaseFails(k) \/ FinishRecord(k) \/ Replayed(k)
        \/ Create(k) \/ Prepare(k) \/ Refuse(k) \/ Commit(k) \/ CommitFails(k)
        \/ MarkCommitted(k)
    \/ \E p \in Paths : SaveDraft(p) \/ ExternalPut(p)
    \/ JournalAges \/ Crash

EntrySpec == EntryInit /\ [][EntryNext]_entryVars

-----------------------------------------------------------------------------
(* Properties *)

Elsewhere(o, p) == o \in trashed \/ \E q \in Paths \ {p} : disk[q] = o

(* Otherwise a file that another program puts where one was moved away from may
   be taken for the one that was. *)
Plain == external = 0

(* When nothing is pending, no store keeps a drawing under a path that the app
   has moved it away from, whatever failed or crashed on the way; provided that
   no two replays have run at once, which the Workspaces' locks do not ensure. *)
MetadataFollows ==
    Plain /\ Running = {} /\ Journals = {} =>
        \A p \in Paths : /\ rows[p] # None => ~Elsewhere(rows[p], p)
                         /\ snaps[p] # None => ~Elsewhere(snaps[p], p)

(* A drawing that was moved away from where the history believes it to be has a
   record that will tell the history, also when replays overtake each other. *)
HistoryIsTold ==
    Plain => \A o \in Objects : located[o] # None /\ Elsewhere(o, located[o]) =>
        \E r \in Journals \cup {task[k].record : k \in Running} : r # None /\ r.object = o

(* A drawing that is on disk keeps its history, whichever drawing was deleted at
   its path before and however late the replay comes. *)
HistoryIsKept ==
    [][\A o \in Objects : located[o] # None /\ located'[o] = None =>
          \A p \in Paths : disk[p] # o]_entryVars

(* What no replay can ever complete: every later command fails on it. *)
Stuck(r) ==
    \/ ~r.committed /\ ~RenameCommitProven(r) /\ ~SafeToDrop(r)
    \/ r.committed /\ ~HistoryApplicable(r) /\ "history" \notin r.applied
Resting == Running = {} /\ ~launching

(* No record can block the commands of its own and of every other Workspace. *)
NothingStuck == Resting => \A r \in Journals : ~Stuck(r)
=============================================================================
