----------------------------- MODULE AtomicWrite ------------------------------
(***************************************************************************)
(* How a file is published: the plain and the guarded write of a drawing   *)
(* (documents/atomic_write.rs), the creation of a drawing                  *)
(* (workspace_entries/mod.rs, atomic_create_drawing) and the write of an   *)
(* object of the history (history/objects.rs, write_immutable), on a file  *)
(* system that keeps over a power loss what was synced and perhaps more.   *)
(* A file is named after its writer, and so is its temporary name.         *)
(***************************************************************************)
EXTENDS Naturals, FiniteSets

CONSTANTS
  Writer,
  Target,      \* final names, in one directory
  Stranger,    \* files of other programs
  None,
  MaxIoFaults  \* bound: failing calls to the file system

Told == {"ok", "found", "failed", "conflict", "exists", "unknown"}

ASSUME DistinctAssumption ==
  /\ None \notin Writer \union Target \union Stranger \union Told
  /\ Writer \intersect (Stranger \union Target) = {}
ASSUME FaultAssumption == MaxIoFaults \in Nat

Kind == {"save", "guarded", "create", "object"}

VARIABLES
  dir,       \* the directory: what is at each name
  kept,      \* the directory as it was last synced
  bytes,     \* how much of each writer's file is written
  stable,    \* and synced
  job,       \* each writer's kind, target and step
  answer,    \* what its caller was told
  replaced,  \* history: writers whose published file another file replaced
  loss,      \* the power was lost, or the process ended
  ioFaults

writeVars == <<dir, kept, bytes, stable, job, answer, replaced, loss, ioFaults>>

Name == Target \union Writer            \* a writer stands for its temporary name
File == Writer \union Stranger
Step == {"start", "created", "half", "synced", "checked", "published", "unlinked", "end"}

WriteTypeOK ==
  /\ dir \in [Name -> File \union {None}] /\ kept \in [Name -> File \union {None}]
  /\ bytes \in [Writer -> 0..2] /\ stable \in [Writer -> 0..2]
  /\ job \in [Writer -> [kind : Kind, target : Target, base : File \union {None}, step : Step]]
  /\ answer \in [Writer -> Told \union {None}]
  /\ replaced \subseteq Writer
  /\ loss \in BOOLEAN /\ ioFaults \in 0..MaxIoFaults

WriteInit ==
  /\ \E s \in [Target -> Stranger \union {None}] :
       /\ \A t, u \in Target : t # u /\ s[t] = s[u] => s[t] = None
       /\ dir = [n \in Name |-> IF n \in Target THEN s[n] ELSE None]
       /\ kept = dir
       /\ \E kinds \in [Writer -> Kind], targets \in [Writer -> Target] :
            job = [w \in Writer |-> [kind |-> kinds[w], target |-> targets[w],
                                     base |-> s[targets[w]], step |-> "start"]]
  /\ bytes = [w \in Writer |-> 0] /\ stable = [w \in Writer |-> 0]
  /\ answer = [w \in Writer |-> None] /\ replaced = {}
  /\ loss = FALSE /\ ioFaults = 0

-----------------------------------------------------------------------------
At(w, step) == job[w].step = step /\ ~loss
Go(w, step) == job' = [job EXCEPT ![w].step = step]
Tell(w, what) == answer' = [answer EXCEPT ![w] = what]
Links(w) == job[w].kind \in {"create", "object"}    \* a hard link, never a rename
Whole(f) == f \in Stranger \/ (f \in Writer /\ bytes[f] = 2)

\* The failing call's error; the temporary file is removed if that succeeds.
Fails(w) ==
  /\ ioFaults < MaxIoFaults /\ ioFaults' = ioFaults + 1
  /\ dir' \in {dir, [dir EXCEPT ![w] = None]}
  /\ Go(w, "end")

\* write_immutable asks first whether the object is there. If it is, its bytes
\* are compared; nothing is synced.
FindObject(w) ==
  LET t == job[w].target IN
  /\ At(w, "start") /\ job[w].kind = "object" /\ dir[t] # None
  /\ Tell(w, IF dir[t] \in Writer /\ job[dir[t]].kind = "object" /\ Whole(dir[t])
               THEN "found" ELSE "failed")
  /\ Go(w, "end")
  /\ UNCHANGED <<dir, kept, bytes, stable, replaced, loss, ioFaults>>

Create(w) ==
  /\ At(w, "start") /\ (job[w].kind = "object" => dir[job[w].target] = None)
  /\ dir' = [dir EXCEPT ![w] = w]
  /\ Go(w, "created")
  /\ UNCHANGED <<kept, bytes, stable, answer, replaced, loss, ioFaults>>

WriteHalf(w) ==
  /\ At(w, "created") /\ ~Links(w)
  /\ bytes' = [bytes EXCEPT ![w] = 1]
  /\ Go(w, "half")
  /\ UNCHANGED <<dir, kept, stable, answer, replaced, loss, ioFaults>>

\* A slip of WriteRest: the file is not synced.
WriteRestUnsynced(w) ==
  /\ At(w, IF Links(w) THEN "created" ELSE "half")
  /\ bytes' = [bytes EXCEPT ![w] = 2]
  /\ Go(w, "synced")
  /\ UNCHANGED <<dir, kept, stable, answer, replaced, loss, ioFaults>>

WriteRest(w) ==
  /\ At(w, IF Links(w) THEN "created" ELSE "half")
  /\ bytes' = [bytes EXCEPT ![w] = 2]
  /\ stable' = [stable EXCEPT ![w] = 2]
  /\ Go(w, "synced")
  /\ UNCHANGED <<dir, kept, answer, replaced, loss, ioFaults>>

\* The file is read back; the guarded write then looks at the target once more.
Check(w) ==
  /\ At(w, "synced") /\ Whole(dir[w])
  /\ (job[w].kind = "guarded" => dir[job[w].target] = job[w].base)
  /\ Go(w, "checked")
  /\ UNCHANGED <<dir, kept, bytes, stable, answer, replaced, loss, ioFaults>>

Conflict(w) ==
  /\ At(w, "synced") /\ job[w].kind = "guarded" /\ dir[job[w].target] # job[w].base
  /\ Tell(w, "conflict")
  /\ dir' = [dir EXCEPT ![w] = None]
  /\ Go(w, "end")
  /\ UNCHANGED <<kept, bytes, stable, replaced, loss, ioFaults>>

Rename(w) ==
  LET t == job[w].target IN
  /\ At(w, "checked") /\ ~Links(w)
  /\ dir' = [dir EXCEPT ![t] = w, ![w] = None]
  /\ replaced' = replaced \union ({dir[t]} \intersect Writer)
  /\ Go(w, "published")
  /\ UNCHANGED <<kept, bytes, stable, answer, loss, ioFaults>>

\* A hard link does not replace what is there.
Link(w) ==
  /\ At(w, "checked") /\ Links(w) /\ dir[job[w].target] = None
  /\ dir' = [dir EXCEPT ![job[w].target] = w]
  /\ Go(w, "published")
  /\ UNCHANGED <<kept, bytes, stable, answer, replaced, loss, ioFaults>>

LinkExists(w) ==
  LET there == dir[job[w].target] IN
  /\ At(w, "checked") /\ Links(w) /\ there # None
  /\ Tell(w, IF job[w].kind = "create" THEN "exists"
             ELSE IF there \in Writer /\ job[there].kind = "object" /\ Whole(there)
                    THEN "found" ELSE "failed")
  /\ dir' = [dir EXCEPT ![w] = None]
  /\ Go(w, "end")
  /\ UNCHANGED <<kept, bytes, stable, replaced, loss, ioFaults>>

\* An object's temporary name goes before the directory is synced, a drawing's
\* after that.
UnlinkObject(w) ==
  /\ At(w, "published") /\ job[w].kind = "object"
  /\ dir' = [dir EXCEPT ![w] = None]
  /\ Go(w, "unlinked")
  /\ UNCHANGED <<kept, bytes, stable, answer, replaced, loss, ioFaults>>

SyncDirectory(w) ==
  /\ At(w, IF job[w].kind = "object" THEN "unlinked" ELSE "published")
  /\ kept' = dir
  /\ dir' = [dir EXCEPT ![w] = None]
  /\ Tell(w, "ok") /\ Go(w, "end")
  /\ UNCHANGED <<bytes, stable, replaced, loss, ioFaults>>

\* A call before the publication fails.
FailsBefore(w) ==
  /\ ~loss /\ job[w].step \in {"start", "created", "half", "synced", "checked"}
  /\ Fails(w) /\ Tell(w, "failed")
  /\ UNCHANGED <<kept, bytes, stable, replaced, loss>>

\* A slip of FailsAfter: the guarded write answers as the plain one does.
FailsAfterAlike(w) ==
  /\ ~loss /\ job[w].step \in {"published", "unlinked"}
  /\ Fails(w)
  /\ Tell(w, "failed")
  /\ UNCHANGED <<kept, bytes, stable, replaced, loss>>

\* After it, only the guarded write says that the file may be there.
FailsAfter(w) ==
  /\ ~loss /\ job[w].step \in {"published", "unlinked"}
  /\ Fails(w)
  /\ Tell(w, IF job[w].kind = "guarded" THEN "unknown" ELSE "failed")
  /\ UNCHANGED <<kept, bytes, stable, replaced, loss>>

-----------------------------------------------------------------------------
\* Another program replaces the file by one of its own.
StrangerWrites(t) ==
  /\ ~loss
  /\ \E s \in Stranger :
       /\ \A n \in Name : dir[n] # s /\ kept[n] # s
       /\ dir' = [dir EXCEPT ![t] = s]
  /\ replaced' = replaced \union ({dir[t]} \intersect Writer)
  /\ UNCHANGED <<kept, bytes, stable, job, answer, loss, ioFaults>>

\* What was not synced may or may not be on the disk, name by name, and any
\* part of a file.
PowerLoss ==
  /\ ~loss /\ loss' = TRUE
  /\ \E lost \in SUBSET Name, cut \in [Writer -> 0..2] :
       /\ \A w \in Writer : cut[w] >= stable[w] /\ cut[w] <= bytes[w]
       /\ dir' = [n \in Name |-> IF n \in lost THEN kept[n] ELSE dir[n]]
       /\ kept' = dir'
       /\ bytes' = cut /\ stable' = cut
  /\ UNCHANGED <<job, answer, replaced, ioFaults>>

\* cleanup_atomic_write_temps, which the next start calls for the session's
\* lock alone, and which does not match the dotted names of the others.
CleanupTemps(t) ==
  /\ loss
  /\ dir' = [n \in Name |-> IF n \in Writer /\ job[n].target = t /\ ~Links(n)
                              THEN None ELSE dir[n]]
  /\ UNCHANGED <<kept, bytes, stable, job, answer, replaced, loss, ioFaults>>

WriteNext ==
  \/ \E w \in Writer :
       \/ FindObject(w) \/ Create(w) \/ WriteHalf(w) \/ WriteRest(w) \/ Check(w) \/ Conflict(w)
       \/ Rename(w) \/ Link(w) \/ LinkExists(w) \/ UnlinkObject(w) \/ SyncDirectory(w)
       \/ FailsBefore(w) \/ FailsAfter(w)
  \/ \E t \in Target : StrangerWrites(t) \/ CleanupTemps(t)
  \/ PowerLoss

WriteSpec == WriteInit /\ [][WriteNext]_writeVars

-----------------------------------------------------------------------------
(* Properties *)

Published(w) == dir[job[w].target] = w

\* Whoever writes beside whom, and whenever the power goes: a reader of a
\* drawing or an object finds a whole file (the order of write, sync_all and
\* rename or link).
TargetsAreWhole == \A t \in Target : dir[t] # None => Whole(dir[t])

\* What a caller was told stays true over a power loss: a file that was
\* answered for is there unless it was replaced, and one that was refused, or
\* that a guarded write failed with, is not and never comes.
AnswersHold ==
  \A w \in Writer :
    /\ answer[w] = "ok" => Published(w) \/ w \in replaced
    /\ answer[w] \in {"conflict", "exists", "found"} => ~Published(w)
    /\ answer[w] = "failed" /\ job[w].kind = "guarded" => ~Published(w)
===============================================================================
