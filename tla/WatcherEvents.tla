---------------------------- MODULE WatcherEvents -----------------------------
(***************************************************************************)
(* What the watcher of a Workspace makes of the system's notices           *)
(* (watcher/mod.rs): debounce, pairing of a removal with a creation, the   *)
(* echoes of the app's own renames and deletions, and the table of files   *)
(* it knows, beside writes and moves of the app and of other programs; and *)
(* what the window that has a session of a drawing does about the events   *)
(* (conflictDetector.ts, documentStore.ts), if they reach it: they go to   *)
(* the owner of the path (window/events.rs).  A file is named by its       *)
(* triplet (mtime, size, hash), which each write makes anew and a move     *)
(* keeps.                                                                  *)
(***************************************************************************)
EXTENDS Naturals, Sequences, FiniteSets

CONSTANTS
  Path,
  None,
  MaxWrites,   \* bound: triplets
  MaxChanges,  \* bound: steps of the app and of other programs
  MaxEchoes    \* bound: operations of the app on entries

VARIABLES
  file,      \* triplet at each path, or None
  writes,    \* triplets made so far
  notices,   \* the system's, in order
  pending,   \* the debounce engine's
  batch,     \* what is drained and resolved, and not yet processed
  known,     \* KnownFileTable
  expected,  \* entry_operations
  saved,     \* own writes not yet noted
  told,      \* the triplet that the session at each path has been brought to, by
             \* a reload, a conflict or its own write; Orphaned; None without a session
  excused,   \* history: paths whose change was lost by a known cause
  changes, operations,
  owned      \* the registry's document_owner: the paths that events are sent for

watchVars ==
  <<file, writes, notices, pending, batch, known, expected, saved, told, excused, changes, operations,
    owned>>

\* The state of a session whose file was removed; no triplet.
Orphaned == 0

Raw == {"Created", "Modified", "Removed"}
Triplet == 1..MaxWrites \union {None}
Change ==
  [kind : Raw, path : Path, new : {None}] \union [kind : {"Renamed"}, path : Path, new : Path]

WatchTypeOK ==
  /\ file \in [Path -> Triplet] /\ writes \in 0..MaxWrites
  /\ notices \in Seq(Path \X Raw)
  /\ pending \in [Path -> Raw \union {None}]
  /\ batch \subseteq Change
  /\ known \in [Path -> Triplet] /\ told \in [Path -> Triplet \union {Orphaned}]
  /\ expected \subseteq (1..MaxEchoes) \X Path \X {"Created", "Removed"}
  /\ saved \in [Path -> Triplet]
  /\ excused \subseteq Path /\ owned \subseteq Path
  /\ changes \in 0..MaxChanges /\ operations \in 0..MaxEchoes

\* seed_known reads the index, which may not have the file yet.
WatchInit ==
  /\ \E there \in SUBSET Path, seeded \in SUBSET Path :
       /\ file \in [Path -> {1, 2, None}] /\ seeded \subseteq there
       /\ \A p \in Path : p \in there <=> file[p] # None
       /\ \A p, q \in Path : p # q /\ file[p] = file[q] => file[p] = None
       /\ known = [p \in Path |-> IF p \in seeded THEN file[p] ELSE None]
  /\ writes = 2 /\ told = file /\ owned = {p \in Path : file[p] # None}
  /\ notices = <<>> /\ pending = [p \in Path |-> None] /\ batch = {}
  /\ expected = {} /\ saved = [p \in Path |-> None] /\ excused = {}
  /\ changes = 0 /\ operations = 0

-----------------------------------------------------------------------------
(* Files and notices *)

Changes == changes < MaxChanges /\ changes' = changes + 1
NewTriplet == writes < MaxWrites /\ writes' = writes + 1
watcherVars == <<pending, batch, known>>

\* A session that shows its drawing as if nothing had happened to it ...
Shown(p) == told[p] \notin {None, Orphaned}

\* ... and another one than is there.
Other(p, triplet) == triplet \notin {None, Orphaned, file[p]}
Stale(p) == Other(p, told[p])

\* A session at p that comes to q finds another one there.
Meet(p, q) == told[p] # None /\ told[q] # None

\* How the system reports that a file took another's place.
Reports(p) == { << <<p, "Modified">> >>, << <<p, "Created">> >>, << <<p, "Removed">>, <<p, "Created">> >> }

\* And a move: as a removal and a creation, or as a change of two names
\* (classify_event_kind).
MoveReports(p, q) == { << <<p, "Removed">>, <<q, "Created">> >>, << <<p, "Modified">>, <<q, "Modified">> >> }

\* Another program writes a file, deletes it or moves it, over another one too.
StrangeWrite(p) ==
  /\ Changes /\ NewTriplet
  /\ file' = [file EXCEPT ![p] = writes']
  /\ \E report \in IF file[p] = None THEN {<< <<p, "Created">> >>} ELSE Reports(p) :
       notices' = notices \o report
  /\ UNCHANGED <<watcherVars, expected, saved, told, excused, operations, owned>>

StrangeDelete(p) ==
  /\ Changes /\ file[p] # None
  /\ file' = [file EXCEPT ![p] = None]
  /\ notices' = Append(notices, <<p, "Removed">>)
  /\ UNCHANGED <<writes, watcherVars, expected, saved, told, excused, operations, owned>>

StrangeMove(p, q) ==
  /\ Changes /\ file[p] # None /\ p # q
  /\ file' = [file EXCEPT ![q] = file[p], ![p] = None]
  /\ \E report \in MoveReports(p, q) : notices' = notices \o report
  /\ excused' = IF known[q] = file[p] THEN excused \union {q} ELSE excused
  /\ UNCHANGED <<writes, watcherVars, expected, saved, told, operations, owned>>

\* The app's own write, which claims the path (claim_for_write), and
\* note_own_write some awaits later.
OwnWrite(p) ==
  /\ Changes /\ NewTriplet /\ file[p] # None /\ saved[p] = None
  /\ file' = [file EXCEPT ![p] = writes'] /\ told' = [told EXCEPT ![p] = writes']
  /\ saved' = [saved EXCEPT ![p] = writes']
  /\ excused' = excused \ {p} /\ owned' = owned \union {p}
  /\ \E report \in Reports(p) : notices' = notices \o report
  /\ UNCHANGED <<watcherVars, expected, operations>>

NoteOwnWrite(p) ==
  /\ saved[p] # None
  /\ known' = [known EXCEPT ![p] = saved[p]] /\ saved' = [saved EXCEPT ![p] = None]
  /\ excused' = IF {file[p], told[p]} # {saved[p]} THEN excused \union {p} ELSE excused
  /\ UNCHANGED <<file, writes, notices, pending, batch, expected, told, changes, operations, owned>>

\* Renames and deletions of entries announce their echoes first; the window
\* itself follows them.
Announce(echoes) ==
  /\ operations < MaxEchoes /\ operations' = operations + 1
  /\ expected' = expected \union {<<operations', e[1], e[2]>> : e \in echoes}

RenameEntry(p, q) ==
  /\ Changes /\ file[p] # None /\ file[q] = None /\ ~Shown(q) /\ p # q
  /\ saved[p] = None /\ saved[q] = None
  /\ Announce({<<p, "Removed">>, <<q, "Created">>})
  /\ file' = [file EXCEPT ![q] = file[p], ![p] = None]
  /\ told' = [told EXCEPT ![q] = IF told[p] = None THEN @ ELSE told[p], ![p] = None]
  /\ excused' = (excused \ {p}) \union
       (IF p \in excused \/ known[q] = file[p] \/ Meet(p, q) THEN {q} ELSE {})
  /\ \E report \in MoveReports(p, q) : notices' = notices \o report
  /\ UNCHANGED <<writes, watcherVars, saved, owned>>

\* Only a drawing that nothing has happened to is deleted, or one without session.
DeleteEntry(p) ==
  /\ Changes /\ file[p] # None /\ told[p] # Orphaned /\ saved[p] = None
  /\ Announce({<<p, "Removed">>})
  /\ file' = [file EXCEPT ![p] = None] /\ told' = [told EXCEPT ![p] = None]
  /\ excused' = excused \ {p}
  /\ notices' = Append(notices, <<p, "Removed">>)
  /\ UNCHANGED <<writes, watcherVars, saved, owned>>

\* A failed operation is forgotten, and each one after ten seconds.
ForgetEchoes ==
  /\ \E n \in {e[1] : e \in expected} : expected' = {e \in expected : e[1] # n}
  /\ UNCHANGED <<file, writes, notices, watcherVars, saved, told, excused, changes, operations, owned>>

-----------------------------------------------------------------------------
(* The watcher's task *)

MergeKinds(previous, incoming) ==
  IF incoming = "Removed" THEN "Removed"
  ELSE IF previous = "Removed" /\ incoming = "Created" THEN "Modified"
  ELSE IF previous = "Created" /\ incoming = "Modified" THEN "Created"
  ELSE incoming

Record ==
  /\ batch = {} /\ notices # <<>>
  /\ LET p == Head(notices)[1] kind == Head(notices)[2] IN
       pending' = [pending EXCEPT ![p] = IF @ = None THEN kind ELSE MergeKinds(@, kind)]
  /\ notices' = Tail(notices)
  /\ UNCHANGED <<file, writes, batch, known, expected, saved, told, excused, changes, operations, owned>>

\* resolve_batch: two events, one a removal and one a creation, are a rename.
ResolveBatch(ready) ==
  IF \E p, q \in ready : ready = {p, q} /\ pending[p] = "Removed" /\ pending[q] = "Created"
    THEN {[kind |-> "Renamed", path |-> e[1], new |-> e[2]] :
            e \in {x \in ready \X ready : pending[x[1]] = "Removed" /\ pending[x[2]] = "Created"}}
    ELSE {[kind |-> pending[p], path |-> p, new |-> None] : p \in ready}

\* The paths that were quiet for the debounce window.
Drain ==
  /\ batch = {}
  /\ \E ready \in SUBSET {p \in Path : pending[p] # None} :
       /\ ready # {}
       /\ batch' = ResolveBatch(ready)
       /\ pending' = [p \in Path |-> IF p \in ready THEN None ELSE pending[p]]
  /\ UNCHANGED <<file, writes, notices, known, expected, saved, told, excused, changes, operations, owned>>

Echoes(c) ==
  IF c.kind = "Renamed" THEN {<<c.path, "Removed">>, <<c.new, "Created">>}
  ELSE IF c.kind = "Modified" THEN {} ELSE {<<c.path, c.kind>>}

\* consume_matching_echo, for an operation that expects this: the table follows
\* the file, and nobody is told.
Echo(c) ==
  /\ c \in batch /\ batch' = batch \ {c}
  /\ \E n \in {e[1] : e \in expected} :
       LET mine == {e \in expected : e[1] = n /\ <<e[2], e[3]>> \in Echoes(c)} IN
       mine # {} /\ expected' = expected \ mine
  /\ known' = [p \in Path |->
       IF (c.kind = "Renamed" /\ p = c.new) \/ (c.kind = "Created" /\ p = c.path)
         THEN IF file[p] # None THEN file[p] ELSE known[p]
       ELSE IF p = c.path THEN None ELSE known[p]]
  /\ excused' = excused \union {p \in {c.path, c.new} \ {None} : Stale(p)}
  /\ UNCHANGED <<file, writes, notices, pending, saved, told, changes, operations, owned>>

Expected(c) == \E e \in expected : <<e[2], e[3]>> \in Echoes(c)
Take(c) == c \in batch /\ ~Expected(c) /\ batch' = batch \ {c}

\* What becomes of the session at p, if any, by an event that says so: a
\* reload or a conflict with the triplet, or Orphaned.  Without an owner the
\* event is dropped.
Tell(p, now) ==
  /\ told' = IF told[p] = None \/ p \notin owned THEN told ELSE [told EXCEPT ![p] = now]
  /\ excused' = IF p \in owned THEN excused \ {p}
                ELSE IF Stale(p) THEN excused \union {p} ELSE excused

\* The front end does nothing about a file that was created.
Ignored(p) == UNCHANGED told /\ excused' = IF Stale(p) THEN excused \union {p} ELSE excused

\* A slip of ModifiedNow: a file that is gone counts as not yet readable.
ModifiedNowReadable(p, kind, gone) ==
  IF file[p] = None \/ known[p] = file[p]
    THEN UNCHANGED <<known, told, excused>>
    ELSE /\ known' = [known EXCEPT ![p] = file[p]]
         /\ IF kind = "Created" THEN Ignored(p) ELSE Tell(p, file[p])

\* process_modified: the file is read, and compared with the one known.
ModifiedNow(p, kind, gone) ==
  IF file[p] = None
    THEN IF gone THEN known' = [known EXCEPT ![p] = None] /\ Tell(p, Orphaned)
                 ELSE UNCHANGED <<known, told, excused>>
    ELSE IF known[p] = file[p] THEN UNCHANGED <<known, told, excused>>
    ELSE /\ known' = [known EXCEPT ![p] = file[p]]
         /\ IF kind = "Created" THEN Ignored(p) ELSE Tell(p, file[p])

Modified(c) ==
  /\ Take(c) /\ c.kind \in {"Created", "Modified"}
  /\ ModifiedNow(c.path, c.kind, TRUE)
  /\ UNCHANGED <<file, writes, notices, pending, expected, saved, changes, operations, owned>>

Removed(c) ==
  /\ Take(c) /\ c.kind = "Removed"
  /\ IF file[c.path] # None
       THEN ModifiedNow(c.path, "Modified", FALSE)
       ELSE known' = [known EXCEPT ![c.path] = None] /\ Tell(c.path, Orphaned)
  /\ UNCHANGED <<file, writes, notices, pending, expected, saved, changes, operations, owned>>

\* handleFileRenamed: the session at p, if the event reaches it, goes on at q
\* with the scene it has, an orphan as if edited.
Follows(p) == told[p] # None /\ p \in owned
Follow(p, q) ==
  told' = IF Follows(p) THEN [told EXCEPT ![p] = None, ![q] = IF Shown(q) THEN @ ELSE told[p]]
          ELSE told

\* The table knows the file at the new path from now on.
Renamed(c) ==
  /\ Take(c) /\ c.kind = "Renamed"
  /\ known' = IF file[c.new] = None THEN known
              ELSE [known EXCEPT ![c.path] = None, ![c.new] = file[c.new]]
  /\ Follow(c.path, c.new)
  /\ excused' = (excused \ {c.path})
       \union {p \in {c.path, c.new} : Other(p, told'[p])}
       \union {p \in {c.new} : Follows(c.path) /\ (told[c.path] = Orphaned \/ Meet(c.path, p))}
  /\ UNCHANGED <<file, writes, notices, pending, expected, saved, changes, operations, owned>>

WatchNext ==
  \/ \E p \in Path :
       \/ StrangeWrite(p) \/ StrangeDelete(p) \/ OwnWrite(p) \/ NoteOwnWrite(p) \/ DeleteEntry(p)
       \/ \E q \in Path : StrangeMove(p, q) \/ RenameEntry(p, q)
  \/ ForgetEchoes \/ Record \/ Drain
  \/ \E c \in batch : Echo(c) \/ Modified(c) \/ Removed(c) \/ Renamed(c)

WatchSpec == WatchInit /\ [][WatchNext]_watchVars

-----------------------------------------------------------------------------
(* Properties *)

Quiet == notices = <<>> /\ batch = {} /\ \A p \in Path : pending[p] = None

\* When no notice is on its way, no session that counts as neither orphaned nor
\* in conflict shows another drawing than is at its path, whatever order and
\* company the notices came in.  Excused: a change that came together with the
\* echo of the app's own operation; a change that was reported as a creation;
\* a change at a path that the drawing was renamed to and not written at since;
\* a renaming of an orphan, or to where another file, a newer one or none is by
\* now; a drawing that another one was moved onto; and a file that comes back
\* where the table still knows it or an own write is noted late.
ChangesAreTold == Quiet => \A p \in Path \ excused : ~Stale(p)

\* What it rests on: a notice of each change that nobody was told of is on its
\* way, and the table does not know the file it is about, so that it is told.
OnItsWay(p) ==
  \/ \E n \in 1..Len(notices) : notices[n][1] = p
  \/ pending[p] # None
  \/ \E c \in batch : p \in {c.path, c.new}

ChangesAreComing == \A p \in Path \ excused : ~Stale(p) \/ OnItsWay(p)
KnownAreTold == \A p \in Path \ excused : known[p] = file[p] => ~Stale(p) \/ file[p] = None
TripletsAreMade == \A p \in Path : {file[p], known[p], saved[p]} \subseteq 1..writes \union {None}

WatchInv == WatchTypeOK /\ ChangesAreTold /\ ChangesAreComing /\ KnownAreTold /\ TripletsAreMade
===============================================================================
