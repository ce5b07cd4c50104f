--------------------------- MODULE DocumentIdentity ---------------------------
(***************************************************************************)
(* Which document of the history a file belongs to (history/identity.rs),  *)
(* as the document commands keep it (commands/documents.rs) and as the     *)
(* history commands resolve it (history/query.rs, commands/history.rs).    *)
(* A row names a path and the file, device and inode, that it was last     *)
(* seen to hold; every write of the app replaces the file by a new one.    *)
(***************************************************************************)
EXTENDS Naturals, FiniteSetsExt

CONSTANTS
  Path,
  Object,        \* files as the file system knows them; a number is not reused
  None,
  MaxDocuments,  \* bound: documents ever established
  MaxStrange,    \* bound: steps of other programs
  MaxFaults      \* bound: failures of the history store, and crashes

VARIABLES
  file,      \* the file at each path
  rows,      \* history_documents
  command,   \* what the holder of each path's lock is doing
  rename,    \* the journal record of a rename whose history has not followed
  known,     \* history: the files each document was found at, or wrote
  excused,   \* history: documents whose new file was replaced before it was noted
  strange, faults

bounds == <<strange, faults>>
identityVars == <<file, rows, command, rename, known, excused, bounds>>

Id == 1..MaxDocuments
Row == [path : Path, object : Object, state : {"active", "detached", "deleting"}]
Command == [kind : {"save", "saveAs"}, step : {"resolve", "write", "detach", "note"},
            held : Id \union {None},        \* the row as it was resolved
            copy : Row \union {None},
            wrote : Object \union {None}]

IdentityTypeOK ==
  /\ file \in [Path -> Object \union {None}]
  /\ rows \in [Id -> Row \union {None}]
  /\ command \in [Path -> Command \union {None}]
  /\ rename = None \/ rename \in Path \X Path
  /\ known \in [Id -> SUBSET Object]
  /\ excused \subseteq Id
  /\ strange \in 0..MaxStrange /\ faults \in 0..MaxFaults

IdentityInit ==
  /\ file \in [Path -> Object \union {None}]
  /\ \A p, q \in Path : p # q /\ file[p] = file[q] => file[p] = None
  /\ rows = [i \in Id |-> None] /\ known = [i \in Id |-> {}]
  /\ command = [p \in Path |-> None] /\ rename = None
  /\ excused = {}
  /\ strange = 0 /\ faults = 0

-----------------------------------------------------------------------------
(* Rows and files *)

New == {o \in Object : /\ \A p \in Path : file[p] # o
                       /\ \A i \in Id : o \notin known[i] /\ (rows[i] # None => rows[i].object # o)}

\* Ids are never used twice; a later document has the greater one.
Fresh(i) == known[i] = {} /\ \A j \in 1..(i - 1) : known[j] # {}

Named(p, states) == {i \in Id : rows[i] # None /\ rows[i].path = p /\ rows[i].state \in states}

\* ORDER BY active first, then created_at DESC, LIMIT 1
Loaded(p, states) ==
  LET active == Named(p, {"active"} \intersect states)
      all == Named(p, states)
  IN IF all = {} THEN None ELSE Max(IF active # {} THEN active ELSE all)

RefersToSameFile(row, p) == row.object = file[p]

Establish(i, p) ==
  /\ Fresh(i)
  /\ rows' = [rows EXCEPT ![i] = [path |-> p, object |-> file[p], state |-> "active"]]
  /\ known' = [known EXCEPT ![i] = {file[p]}]

(* Nothing holds the drawing's lock, nor the window's queue for the drawing
   while an entry of that name is renamed. *)
Idle(p) == command[p] = None /\ (rename # None => p \notin {rename[1], rename[2]})

StoreFails == faults < MaxFaults /\ faults' = faults + 1

-----------------------------------------------------------------------------
(* Opening, and saving a draft. A file that is not the document's is refused;
   if the store fails, they go on without the history. *)

ResolveForOpenByPath(p) ==      \* A slip of ResolveForOpen: the path decides.
  LET i == Loaded(p, {"active", "detached"}) IN
  \/ i # None /\ rows' = [rows EXCEPT ![i].state = "active", ![i].object = file[p]]
     /\ UNCHANGED known
  \/ i = None /\ \E j \in Id : Establish(j, p)

\* resolve_document_identity_for_open: a detached document may come back, and
\* a file that is another one than the document's is refused.
ResolveForOpen(p) ==
  LET i == Loaded(p, {"active", "detached"}) IN
  \/ i # None /\ RefersToSameFile(rows[i], p) /\ rows' = [rows EXCEPT ![i].state = "active"]
     /\ UNCHANGED known
  \/ i = None /\ \E j \in Id : Establish(j, p)

\* resolve_document_identity_for_existing
ResolveForExisting(p) ==
  LET i == Loaded(p, {"active"}) IN
  \/ i # None /\ RefersToSameFile(rows[i], p) /\ UNCHANGED <<rows, known>>
  \/ i = None /\ \E j \in Id : Establish(j, p)

Open(p) ==
  /\ Idle(p) /\ file[p] # None
  /\ ResolveForOpen(p)
  /\ UNCHANGED <<file, command, rename, excused, bounds>>

SaveDraft(p) ==
  /\ Idle(p) /\ file[p] # None
  /\ ResolveForExisting(p)
  /\ UNCHANGED <<file, command, rename, excused, bounds>>

-----------------------------------------------------------------------------
(* A checkpoint: doc_checkpoint writes between two visits of the history *)

Go(p, step) == command' = [command EXCEPT ![p].step = step]
End(p) == command' = [command EXCEPT ![p] = None]

BeginSave(p) ==
  /\ \A q \in Path : command[q] = None     \* bound: others do not meet this one
  /\ Idle(p)
  /\ \E kind \in {"save", "saveAs"} :
       command' = [command EXCEPT ![p] = [kind |-> kind, step |-> "resolve", held |-> None,
                                          copy |-> None, wrote |-> None]]
  /\ UNCHANGED <<file, rows, rename, known, excused, bounds>>

\* resolve_history_identity_for_existing_or_new
ResolveExistingOrNew(p) ==
  /\ command[p] # None /\ command[p].step = "resolve"
  /\ IF file[p] = None
       THEN Go(p, "write") /\ UNCHANGED <<rows, known>>
       ELSE /\ ResolveForExisting(p)
            /\ LET i == Loaded(p, {"active"})' IN
                 command' = [command EXCEPT ![p].step = "write", ![p].held = i,
                                            ![p].copy = rows'[i]]
  /\ UNCHANGED <<file, rename, excused, bounds>>

\* Another file than the document's: nothing is written.
RefuseSave(p) ==
  /\ command[p] # None /\ command[p].step = "resolve" /\ file[p] # None
  /\ LET i == Loaded(p, {"active"}) IN i # None /\ ~RefersToSameFile(rows[i], p)
  /\ End(p)
  /\ UNCHANGED <<file, rows, rename, known, excused, bounds>>

ResolveFails(p) ==
  /\ command[p] # None /\ command[p].step = "resolve"
  /\ StoreFails /\ Go(p, "write")
  /\ UNCHANGED <<file, rows, rename, known, excused, strange>>

\* atomic_write: a new file takes the place of what is there.
Write(p) ==
  /\ command[p] # None /\ command[p].step = "write"
  /\ \E o \in New :
       /\ file' = [file EXCEPT ![p] = o]
       /\ command' = [command EXCEPT ![p].wrote = o,
                        ![p].step = IF @ # None /\ command[p].kind = "saveAs"
                                       /\ command[p].held # None THEN "detach" ELSE "note"]
  /\ UNCHANGED <<rows, rename, known, excused, bounds>>

\* Save As over a drawing: the old document stays, without a file.
DetachPrevious(p) ==
  /\ command[p] # None /\ command[p].step = "detach"
  /\ rows' = [rows EXCEPT ![command[p].held].state = IF @ = "deleting" THEN @ ELSE "detached"]
  /\ Go(p, "note")
  /\ UNCHANGED <<file, rename, known, excused, bounds>>

\* record_self_write looks at the path again, and the whole row is stored as it
\* was resolved, but for the file. Save As stores a document of its own.
Note(p) ==
  LET c == command[p] IN
  /\ c # None /\ c.step = "note" /\ file[p] # None
  /\ \E i \in Id :
       /\ IF c.kind = "save" /\ c.held # None
            THEN i = c.held /\ rows' = [rows EXCEPT ![i] = [c.copy EXCEPT !.object = file[p]]]
            ELSE Fresh(i) /\ rows' = [rows EXCEPT ![i] = [path |-> p, object |-> file[p],
                                                          state |-> "active"]]
       /\ known' = [known EXCEPT ![i] = @ \union {c.wrote}]
       /\ excused' = IF file[p] = c.wrote THEN excused ELSE excused \union {i}
  /\ End(p)
  /\ UNCHANGED <<file, rename, bounds>>

\* The save is answered all the same if the store fails, and as failed if the
\* file is gone.
NoteFails(p) ==
  /\ command[p] # None /\ command[p].step \in {"detach", "note"}
  /\ \/ StoreFails /\ UNCHANGED strange
     \/ command[p].step = "note" /\ file[p] = None /\ UNCHANGED bounds
  /\ End(p)
  /\ UNCHANGED <<file, rows, rename, known, excused>>

-----------------------------------------------------------------------------
(* Renames and deletions of entries; their journal is EntryMutations *)

\* The loaded document's file is at the path (verify_current_file).
Verified(p) == LET i == Loaded(p, {"active"}) IN i # None /\ RefersToSameFile(rows[i], p)

RenameEntry(p, q) ==
  /\ Idle(p) /\ Idle(q) /\ rename = None /\ file[p] # None /\ file[q] = None /\ p # q
  /\ file' = [file EXCEPT ![q] = file[p], ![p] = None]
  /\ rename' = <<p, q>>
  /\ UNCHANGED <<rows, command, known, excused, bounds>>

\* record_app_rename: the file at the old path, if there is one again, and the
\* one at the new path must be the document's.
Moves(i, p, q) ==
  /\ file[p] # None => rows[i].object = file[p]
  /\ file[q] # None /\ rows[i].object = file[q]

\* Every active document at the old path follows, or none does and the journal
\* tries again.
MigrateAppRename ==
  /\ rename # None
  /\ \A i \in Named(rename[1], {"active"}) : Moves(i, rename[1], rename[2])
  /\ rows' = [i \in Id |-> IF i \in Named(rename[1], {"active"})
                             THEN [rows[i] EXCEPT !.path = rename[2]] ELSE rows[i]]
  /\ rename' = None
  /\ UNCHANGED <<file, command, known, excused, bounds>>

\* delete_document_history keeps the row, so that no later file inherits.
DeleteEntry(p) ==
  /\ Idle(p) /\ file[p] # None
  /\ Named(p, {"active"}) # {} => Verified(p)
  /\ file' = [file EXCEPT ![p] = None]
  /\ LET i == Loaded(p, {"active"}) IN
       rows' = IF i = None THEN rows ELSE [rows EXCEPT ![i].state = "deleting"]
  /\ UNCHANGED <<command, rename, known, excused, bounds>>

-----------------------------------------------------------------------------
(* Other programs, and the end of the process *)

Strange == strange < MaxStrange /\ strange' = strange + 1

\* A new file, or one moved or brought back from somewhere.
StrangeFile(p) ==
  /\ Strange
  /\ \E o \in {x \in Object : \A q \in Path : file[q] # x} : file' = [file EXCEPT ![p] = o]
  /\ UNCHANGED <<rows, command, rename, known, excused, faults>>

StrangeMove(p, q) ==
  /\ Strange /\ p # q /\ file[p] # None
  /\ file' = [file EXCEPT ![q] = file[p], ![p] = None]
  /\ UNCHANGED <<rows, command, rename, known, excused, faults>>

Crash ==
  /\ StoreFails
  /\ command' = [p \in Path |-> None]
  /\ UNCHANGED <<file, rows, rename, known, excused, strange>>

IdentityNext ==
  \/ \E p \in Path :
       \/ Open(p) \/ SaveDraft(p)
       \/ BeginSave(p) \/ ResolveExistingOrNew(p) \/ RefuseSave(p) \/ ResolveFails(p)
       \/ Write(p) \/ DetachPrevious(p) \/ Note(p) \/ NoteFails(p)
       \/ DeleteEntry(p) \/ StrangeFile(p)
       \/ \E q \in Path : RenameEntry(p, q) \/ StrangeMove(p, q)
  \/ MigrateAppRename \/ Crash

IdentitySpec == IdentityInit /\ [][IdentityNext]_identityVars

-----------------------------------------------------------------------------
(* Properties *)

\* resolve_document_blocking: a path or a document's handle, to the document
\* that a history command works on, if its file is still there.
ResolvePath(p) == IF Verified(p) THEN Loaded(p, {"active"}) ELSE None
ResolveHandle(i) ==
  IF rows[i] # None /\ rows[i].state = "active" /\ ResolvePath(rows[i].path) = i THEN i ELSE None

\* Whatever other programs put where, no history command works on a document
\* for a file that the document was neither found at nor written to; but for a
\* file that took the place of the app's own before record_self_write looked
\* (commands/documents.rs, persist_history_identity_after_checkpoint).
FilesKeepTheirHistory ==
  \A p \in Path :
    LET i == ResolvePath(p) IN i # None /\ i \notin excused => file[p] \in known[i]

\* What it rests on: the file that a document's row names is one of its own,
\* and a save stores a row it has resolved for a file it has written.
RowsAreKnown ==
  \A i \in Id : rows[i] # None /\ i \notin excused => rows[i].object \in known[i]

CommandsAreResolved ==
  \A p \in Path : command[p] # None =>
    /\ command[p].held # None => command[p].copy # None /\ rows[command[p].held] # None
    /\ command[p].step \in {"detach", "note"} => command[p].wrote # None
    /\ command[p].step = "detach" => command[p].held # None

IdentityInv ==
  IdentityTypeOK /\ RowsAreKnown /\ CommandsAreResolved /\ FilesKeepTheirHistory
===============================================================================
