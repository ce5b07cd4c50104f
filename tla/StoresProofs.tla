----------------------------- MODULE StoresProofs -----------------------------
(***************************************************************************)
(* Proofs about the components of MCStores, for any Workspaces,            *)
(* drawings, images, paths, windows and displays, and any bounds.          *)
(***************************************************************************)
EXTENDS MCStores, Sequences, TLAPS, WellFoundedInduction, FiniteSetTheorems

stores == <<setting, writeVars, all>>

-----------------------------------------------------------------------------
(* Atomic writes: every step of the other settings leaves their variables. *)

\* A writer's file is at its temporary name, or at the target of its job.
NamesAreOwn ==
  \A w \in Writer :
    /\ dir[w] \in {None, w} /\ kept[w] \in {None, w}
    /\ \A t \in Target : dir[t] = w \/ kept[t] = w => job[w].target = t

\* What is at a target, or would be after a power loss, is synced to the end,
\* and its writer was told nothing that denies it.
PublishedIsStable ==
  \A w \in Writer : dir[job[w].target] = w \/ kept[job[w].target] = w =>
    /\ stable[w] = 2
    /\ \/ job[w].step \in {"published", "unlinked"}
       \/ /\ job[w].step = "end"
          /\ answer[w] \in {"ok", "unknown", "failed"}
          /\ answer[w] = "failed" => job[w].kind # "guarded"

\* How far a job has come before any power loss.
JobsFollow ==
  \A w \in Writer :
    /\ stable[w] <= bytes[w]
    /\ job[w].step # "end" => answer[w] = None
    /\ job[w].step \in {"start", "created"} /\ ~loss => stable[w] = 0
    /\ job[w].step \in {"synced", "checked", "published", "unlinked"} /\ ~loss => stable[w] = 2
    /\ job[w].step \in {"published", "unlinked"} /\ ~loss =>
         dir[job[w].target] = w \/ w \in replaced

\* A file that was answered for is kept, or was replaced.
AnsweredIsKept ==
  \A w \in Writer : answer[w] = "ok" =>
    /\ dir[job[w].target] = w \/ w \in replaced
    /\ kept[job[w].target] = w \/ w \in replaced

IInv ==
  /\ WriteTypeOK
  /\ NamesAreOwn
  /\ PublishedIsStable
  /\ JobsFollow
  /\ AnsweredIsKept

-----------------------------------------------------------------------------
LEMMA NamesDiffer ==
  /\ \A w \in Writer : w \notin Target /\ w \notin Stranger /\ w # None
  /\ \A f \in Stranger : f # None
  /\ \A a \in Told : a # None
BY DistinctAssumption

LEMMA JobFacts ==
  ASSUME WriteTypeOK, NEW w \in Writer
  PROVE  /\ job[w].kind \in Kind /\ job[w].target \in Target /\ job[w].step \in Step
         /\ job[w].target \in Name /\ w \in Name /\ job[w].target # w
         /\ bytes[w] \in 0..2 /\ stable[w] \in 0..2
BY NamesDiffer DEF WriteTypeOK, Name

LEMMA GoFacts ==
  ASSUME WriteTypeOK, NEW w \in Writer, NEW s \in Step, Go(w, s)
  PROVE  /\ job' \in [Writer -> [kind : Kind, target : Target,
                                 base : File \union {None}, step : Step]]
         /\ job'[w].step = s /\ job'[w].kind = job[w].kind /\ job'[w].target = job[w].target
         /\ \A v \in Writer : v # w => job'[v] = job[v]
BY DEF WriteTypeOK, Go

LEMMA InitHolds == WriteInit => IInv
<1> SUFFICES ASSUME WriteInit PROVE IInv
  OBVIOUS
<1>1. PICK s \in [Target -> Stranger \union {None}] :
        /\ dir = [n \in Name |-> IF n \in Target THEN s[n] ELSE None]
        /\ kept = dir
        /\ \E kinds \in [Writer -> Kind], targets \in [Writer -> Target] :
             job = [w \in Writer |-> [kind |-> kinds[w], target |-> targets[w],
                                      base |-> s[targets[w]], step |-> "start"]]
  BY DEF WriteInit
<1>2. PICK kinds \in [Writer -> Kind], targets \in [Writer -> Target] :
        job = [w \in Writer |-> [kind |-> kinds[w], target |-> targets[w],
                                 base |-> s[targets[w]], step |-> "start"]]
  BY <1>1
<1>3. /\ bytes = [w \in Writer |-> 0] /\ stable = [w \in Writer |-> 0]
      /\ answer = [w \in Writer |-> None] /\ replaced = {}
      /\ loss = FALSE /\ ioFaults = 0
  BY DEF WriteInit
<1>4. WriteTypeOK
  <2>1. \A w \in Writer : s[targets[w]] \in File \union {None}
    BY DEF File
  <2>2. job \in [Writer -> [kind : Kind, target : Target, base : File \union {None}, step : Step]]
    BY <1>2, <2>1 DEF Step
  <2>3. dir \in [Name -> File \union {None}]
    BY <1>1 DEF File
  <2>4. loss \in BOOLEAN
    BY <1>3
  <2>5. ioFaults \in 0..MaxIoFaults
    BY <1>3, FaultAssumption
  <2> QED
    BY <1>1, <1>3, <2>2, <2>3, <2>4, <2>5 DEF WriteTypeOK
<1>5. \A w \in Writer, n \in Name : dir[n] # w
  BY <1>1, NamesDiffer
<1>6. NamesAreOwn /\ PublishedIsStable
  <2>1. \A w \in Writer : job[w].target \in Name /\ w \in Name /\ dir[w] = None
    BY <1>1, <1>4, JobFacts, NamesDiffer
  <2>2. \A t \in Target : t \in Name
    BY DEF Name
  <2> QED
    BY SMTT(20), <1>1, <1>5, <2>1, <2>2 DEF NamesAreOwn, PublishedIsStable
<1>7. \A w \in Writer : job[w].step = "start" /\ answer[w] = None /\ stable[w] = 0 /\ bytes[w] = 0
  BY <1>2, <1>3
<1>8. JobsFollow /\ AnsweredIsKept
  BY <1>7, NamesDiffer DEF JobsFollow, AnsweredIsKept, Told
<1> QED
  BY <1>4, <1>6, <1>8 DEF IInv

-----------------------------------------------------------------------------
\* A step of one job that touches its own temporary name at most: it is still on
\* its way, or it was published and says nothing that denies it.
LEMMA OwnStepKeeps ==
  ASSUME IInv, NEW w \in Writer, ~loss, WriteTypeOK',
         \A n \in Name : n # w => dir'[n] = dir[n],
         dir'[w] \in {None, w},
         UNCHANGED <<kept, replaced, loss>>,
         \A v \in Writer : v # w => /\ bytes'[v] = bytes[v] /\ stable'[v] = stable[v]
                                    /\ job'[v] = job[v] /\ answer'[v] = answer[v],
         job'[w].kind = job[w].kind, job'[w].target = job[w].target,
         stable'[w] <= bytes'[w],
         job'[w].step # "end" => answer'[w] = None,
         job'[w].step \in {"start", "created"} => stable'[w] = 0,
         job'[w].step \in {"synced", "checked", "published", "unlinked"} => stable'[w] = 2,
         \/ /\ job[w].step \notin {"published", "unlinked", "end"}
            /\ job'[w].step \notin {"published", "unlinked"}
            /\ answer'[w] # "ok"
         \/ /\ job[w].step \in {"published", "unlinked"} /\ stable'[w] = stable[w]
            /\ \/ job'[w].step = "unlinked"
               \/ /\ job'[w].step = "end" /\ answer'[w] \in {"unknown", "failed"}
                  /\ answer'[w] = "failed" => job[w].kind # "guarded"
  PROVE  IInv'
<1>1. \A v \in Writer : /\ job[v].target \in Name /\ job[v].target # w
                        /\ job'[v].target = job[v].target
                        /\ dir'[job'[v].target] = dir[job[v].target]
  BY NamesDiffer, JobFacts DEF IInv
<1>2. NamesAreOwn'
  BY <1>1, NamesDiffer DEF IInv, NamesAreOwn, Name
<1>3. PublishedIsStable'
  BY <1>1, NamesDiffer DEF IInv, PublishedIsStable
<1>4. JobsFollow'
  BY <1>1 DEF IInv, JobsFollow
<1>5. answer'[w] # "ok"
  BY NamesDiffer DEF Told
<1>6. AnsweredIsKept'
  BY <1>1, <1>5 DEF IInv, AnsweredIsKept
<1> QED
  BY <1>2, <1>3, <1>4, <1>6 DEF IInv

\* The steps of a job before its file is published, and those that refuse it.
LEMMA JobStepsKeep ==
  ASSUME IInv, NEW w \in Writer,
         \/ FindObject(w) \/ Create(w) \/ WriteHalf(w) \/ WriteRest(w) \/ Check(w) \/ Conflict(w)
         \/ LinkExists(w) \/ UnlinkObject(w) \/ FailsBefore(w) \/ FailsAfter(w)
  PROVE  IInv'
<1> USE DEF IInv
<1>1. PICK s \in Step : Go(w, s)
  BY DEF FindObject, Create, WriteHalf, WriteRest, Check, Conflict, LinkExists, UnlinkObject,
         FailsBefore, FailsAfter, Fails, Step
<1>2. /\ job' \in [Writer -> [kind : Kind, target : Target,
                              base : File \union {None}, step : Step]]
      /\ job'[w].step = s /\ job'[w].kind = job[w].kind /\ job'[w].target = job[w].target
      /\ \A v \in Writer : v # w => job'[v] = job[v]
  BY <1>1, GoFacts
<1>3. /\ job[w].step \in Step /\ w \in Name /\ bytes[w] \in 0..2 /\ stable[w] \in 0..2
      /\ stable[w] <= bytes[w] /\ dir[w] \in {None, w}
      /\ job[w].step # "end" => answer[w] = None
      /\ job[w].step \in {"start", "created"} /\ ~loss => stable[w] = 0
      /\ job[w].step \in {"synced", "checked", "published", "unlinked"} /\ ~loss => stable[w] = 2
  BY JobFacts DEF JobsFollow, NamesAreOwn
<1>4. /\ dir' \in [Name -> File \union {None}] /\ dir'[w] \in {None, w}
      /\ \A n \in Name : n # w => dir'[n] = dir[n]
  <2>1. dir' \in {dir, [dir EXCEPT ![w] = None], [dir EXCEPT ![w] = w]}
    BY DEF FindObject, Create, WriteHalf, WriteRest, Check, Conflict, LinkExists, UnlinkObject,
           FailsBefore, FailsAfter, Fails
  <2>2. dir \in [Name -> File \union {None}] /\ w \in File
    BY DEF WriteTypeOK, File
  <2> QED
    BY <1>3, <2>1, <2>2
<1>5. UNCHANGED <<kept, replaced, loss>> /\ ~loss
  BY DEF FindObject, Create, WriteHalf, WriteRest, Check, Conflict, LinkExists, UnlinkObject,
         FailsBefore, FailsAfter, Fails, At
<1>6. ioFaults' \in 0..MaxIoFaults
  BY FaultAssumption
  DEF WriteTypeOK, FindObject, Create, WriteHalf, WriteRest, Check, Conflict, LinkExists,
      UnlinkObject, FailsBefore, FailsAfter, Fails
<1>7. CASE Create(w) \/ Check(w)
  <2>1. UNCHANGED <<bytes, stable, answer>>
    BY <1>7 DEF Create, Check
  <2>2. \/ job[w].step = "start" /\ s = "created"
        \/ job[w].step = "synced" /\ s = "checked"
    BY <1>2, <1>7, JobFacts DEF Create, Check, At, Go, WriteTypeOK
  <2>3. WriteTypeOK'
    BY <1>2, <1>4, <1>5, <1>6, <2>1 DEF WriteTypeOK
  <2>4. answer'[w] # "ok"
    BY <1>3, <2>1, <2>2, NamesDiffer DEF Told
  <2> QED
    BY <1>2, <1>3, <1>4, <1>5, <2>1, <2>2, <2>3, <2>4, OwnStepKeeps
<1>8. CASE WriteHalf(w) \/ WriteRest(w)
  <2>1. /\ job[w].step \in {"created", "half"} /\ UNCHANGED answer
        /\ \/ s = "half" /\ bytes' = [bytes EXCEPT ![w] = 1] /\ UNCHANGED stable
              /\ job[w].step = "created"
           \/ s = "synced" /\ bytes' = [bytes EXCEPT ![w] = 2] /\ stable' = [stable EXCEPT ![w] = 2]
    BY <1>2, <1>8, JobFacts DEF WriteHalf, WriteRest, At, Go, WriteTypeOK
  <2>2. /\ bytes' \in [Writer -> 0..2] /\ stable' \in [Writer -> 0..2]
        /\ stable'[w] <= bytes'[w] /\ s = "synced" => stable'[w] = 2
        /\ \A v \in Writer : v # w => bytes'[v] = bytes[v] /\ stable'[v] = stable[v]
    BY SMTT(20), <1>3, <1>5, <2>1 DEF WriteTypeOK
  <2>3. WriteTypeOK'
    BY <1>2, <1>4, <1>5, <1>6, <2>1, <2>2 DEF WriteTypeOK
  <2>4. answer'[w] = None /\ answer'[w] # "ok"
    BY <1>3, <2>1, NamesDiffer DEF Told
  <2> QED
    BY <1>2, <1>3, <1>4, <1>5, <2>1, <2>2, <2>3, <2>4, OwnStepKeeps
<1>9. CASE FindObject(w) \/ Conflict(w) \/ LinkExists(w) \/ FailsBefore(w)
  <2>1. /\ job[w].step \notin {"published", "unlinked", "end"} /\ s = "end"
        /\ UNCHANGED <<bytes, stable>>
        /\ \E a \in Told \ {"ok"} : Tell(w, a)
    BY <1>2, <1>9, JobFacts
       DEF FindObject, Conflict, LinkExists, FailsBefore, Fails, At, Go, WriteTypeOK, Told
  <2>2. /\ answer' \in [Writer -> Told \union {None}] /\ answer'[w] # "ok"
        /\ \A v \in Writer : v # w => answer'[v] = answer[v]
    BY <2>1 DEF WriteTypeOK, Tell
  <2>3. WriteTypeOK'
    BY <1>2, <1>4, <1>5, <1>6, <2>1, <2>2 DEF WriteTypeOK
  <2> QED
    BY <1>2, <1>3, <1>4, <1>5, <2>1, <2>2, <2>3, OwnStepKeeps
<1>10. CASE UnlinkObject(w)
  <2>1. job[w].step = "published" /\ s = "unlinked" /\ UNCHANGED <<bytes, stable, answer>>
    BY <1>2, <1>10, JobFacts DEF UnlinkObject, At, Go, WriteTypeOK
  <2>2. WriteTypeOK'
    BY <1>2, <1>4, <1>5, <1>6, <2>1 DEF WriteTypeOK
  <2> QED
    BY <1>2, <1>3, <1>4, <1>5, <2>1, <2>2, OwnStepKeeps
<1>11. CASE FailsAfter(w)
  <2> DEFINE a == IF job[w].kind = "guarded" THEN "unknown" ELSE "failed"
  <2>1. /\ job[w].step \in {"published", "unlinked"} /\ s = "end"
        /\ UNCHANGED <<bytes, stable>> /\ Tell(w, a)
    BY <1>2, <1>11, JobFacts DEF FailsAfter, Fails, Go, WriteTypeOK
  <2>2. /\ answer' \in [Writer -> Told \union {None}] /\ answer'[w] = a
        /\ \A v \in Writer : v # w => answer'[v] = answer[v]
    BY <2>1 DEF WriteTypeOK, Tell, Told
  <2>3. WriteTypeOK'
    BY <1>2, <1>4, <1>5, <1>6, <2>1, <2>2 DEF WriteTypeOK
  <2> QED
    BY <1>2, <1>3, <1>4, <1>5, <2>1, <2>2, <2>3, OwnStepKeeps
<1> QED
  BY <1>7, <1>8, <1>9, <1>10, <1>11

\* A file is published under its target's name.
LEMMA PublishKeeps ==
  ASSUME IInv, NEW w \in Writer, Rename(w) \/ Link(w)
  PROVE  IInv'
<1> USE DEF IInv
<1> DEFINE t == job[w].target
<1>1. /\ job[w].step = "checked" /\ ~loss /\ Go(w, "published")
      /\ UNCHANGED <<kept, bytes, stable, answer, loss, ioFaults>>
      /\ dir' = [dir EXCEPT ![t] = w, ![w] = None] \/ dir' = [dir EXCEPT ![t] = w]
      /\ replaced' \subseteq Writer /\ replaced \subseteq replaced'
      /\ dir[t] \in Writer => dir[t] \in replaced'
  BY NamesDiffer DEF Rename, Link, At, WriteTypeOK
<1>2. /\ job' \in [Writer -> [kind : Kind, target : Target,
                              base : File \union {None}, step : Step]]
      /\ job'[w].step = "published" /\ job'[w].kind = job[w].kind /\ job'[w].target = t
      /\ \A v \in Writer : v # w => job'[v] = job[v]
  <2>1. "published" \in Step
    BY DEF Step
  <2> QED
    BY <1>1, <2>1, GoFacts
<1>3. t \in Target /\ t \in Name /\ w \in Name /\ t # w /\ w \in File
  BY JobFacts DEF File
<1>4. /\ dir' \in [Name -> File \union {None}] /\ dir'[t] = w /\ dir'[w] \in {None, w}
      /\ \A n \in Name : n # w /\ n # t => dir'[n] = dir[n]
  <2>1. dir \in [Name -> File \union {None}] /\ dir[w] \in {None, w}
    BY DEF WriteTypeOK, NamesAreOwn
  <2>2. CASE dir' = [dir EXCEPT ![t] = w, ![w] = None]
    BY <1>3, <2>1, <2>2
  <2>3. CASE dir' = [dir EXCEPT ![t] = w]
    BY <1>3, <2>1, <2>3
  <2> QED
    BY <1>1, <2>2, <2>3
<1>5. WriteTypeOK'
  BY <1>1, <1>2, <1>4 DEF WriteTypeOK
<1>6. \A v \in Writer : /\ job[v].target \in Name /\ job[v].target # w
                        /\ job'[v].target = job[v].target /\ v # t
  BY <1>2, <1>3, NamesDiffer, JobFacts
<1>7. NamesAreOwn'
  BY <1>1, <1>2, <1>3, <1>4, <1>6, NamesDiffer DEF NamesAreOwn, Name
<1>8. stable[w] = 2 /\ answer[w] = None
  BY <1>1 DEF JobsFollow
<1>9. PublishedIsStable'
  BY <1>1, <1>2, <1>3, <1>4, <1>6, <1>8 DEF PublishedIsStable
<1>10. JobsFollow'
  BY <1>1, <1>2, <1>3, <1>4, <1>6, <1>8 DEF JobsFollow
<1>11. AnsweredIsKept'
  BY <1>1, <1>2, <1>3, <1>4, <1>6, <1>8, NamesDiffer DEF AnsweredIsKept, Told
<1> QED
  BY <1>5, <1>7, <1>9, <1>10, <1>11

LEMMA SyncDirectoryKeeps ==
  ASSUME IInv, NEW w \in Writer, SyncDirectory(w)
  PROVE  IInv'
<1> USE DEF IInv
<1>1. /\ job[w].step \in {"published", "unlinked"} /\ ~loss /\ Go(w, "end")
      /\ kept' = dir /\ dir' = [dir EXCEPT ![w] = None]
      /\ answer' = [answer EXCEPT ![w] = "ok"]
      /\ UNCHANGED <<bytes, stable, replaced, loss, ioFaults>>
  BY DEF SyncDirectory, At, Tell
<1>2. /\ job' \in [Writer -> [kind : Kind, target : Target,
                              base : File \union {None}, step : Step]]
      /\ job'[w].step = "end" /\ job'[w].kind = job[w].kind /\ job'[w].target = job[w].target
      /\ \A v \in Writer : v # w => job'[v] = job[v]
  <2>1. "end" \in Step
    BY DEF Step
  <2> QED
    BY <1>1, <2>1, GoFacts
<1>3. /\ dir' \in [Name -> File \union {None}] /\ dir'[w] = None
      /\ \A n \in Name : n # w => dir'[n] = dir[n]
  BY <1>1 DEF WriteTypeOK, Name
<1>4. /\ answer' \in [Writer -> Told \union {None}] /\ answer'[w] = "ok"
      /\ \A v \in Writer : v # w => answer'[v] = answer[v]
  BY <1>1 DEF WriteTypeOK, Told
<1>5. WriteTypeOK'
  BY <1>1, <1>2, <1>3, <1>4 DEF WriteTypeOK
<1>6. \A v \in Writer : /\ job[v].target \in Name /\ job[v].target # w
                        /\ job'[v].target = job[v].target /\ v \in Name
  BY <1>2, NamesDiffer, JobFacts
<1>7. NamesAreOwn'
  BY <1>1, <1>2, <1>3, <1>6, NamesDiffer DEF NamesAreOwn, Name
<1>8. PublishedIsStable'
  BY <1>1, <1>2, <1>3, <1>4, <1>6 DEF PublishedIsStable
<1>9. JobsFollow'
  BY <1>1, <1>2, <1>3, <1>4, <1>6 DEF JobsFollow
<1>10. AnsweredIsKept'
  BY <1>1, <1>2, <1>3, <1>4, <1>6 DEF AnsweredIsKept, JobsFollow
<1> QED
  BY <1>5, <1>7, <1>8, <1>9, <1>10

LEMMA StrangerWritesKeeps ==
  ASSUME IInv, NEW t \in Target, StrangerWrites(t)
  PROVE  IInv'
<1> USE DEF IInv
<1>1. PICK s \in Stranger : dir' = [dir EXCEPT ![t] = s]
  BY DEF StrangerWrites
<1>2. /\ replaced' = replaced \union ({dir[t]} \intersect Writer) /\ ~loss
      /\ UNCHANGED <<kept, bytes, stable, job, answer, loss, ioFaults>>
  BY DEF StrangerWrites
<1>3. /\ dir' \in [Name -> File \union {None}] /\ dir'[t] = s
      /\ \A n \in Name : n # t => dir'[n] = dir[n]
  BY <1>1 DEF WriteTypeOK, Name, File
<1>4. WriteTypeOK'
  BY <1>2, <1>3 DEF WriteTypeOK
<1>5. \A v \in Writer : job[v].target \in Name /\ v \in Name /\ v # t /\ v # s
  BY NamesDiffer, JobFacts
<1>6. NamesAreOwn'
  BY <1>2, <1>3, <1>5 DEF NamesAreOwn, Name
<1>7. PublishedIsStable' /\ JobsFollow' /\ AnsweredIsKept'
  BY <1>2, <1>3, <1>5 DEF PublishedIsStable, JobsFollow, AnsweredIsKept
<1> QED
  BY <1>4, <1>6, <1>7

\* After a power loss every name is as it was or as it was last synced, and no
\* file is shorter than what was synced of it.
LEMMA PowerLossKeeps == IInv /\ PowerLoss => IInv'
<1> SUFFICES ASSUME IInv, PowerLoss PROVE IInv'
  OBVIOUS
<1> USE DEF IInv
<1>1. PICK lost \in SUBSET Name, cut \in [Writer -> 0..2] :
        /\ \A w \in Writer : cut[w] >= stable[w] /\ cut[w] <= bytes[w]
        /\ dir' = [n \in Name |-> IF n \in lost THEN kept[n] ELSE dir[n]]
        /\ kept' = dir'
        /\ bytes' = cut /\ stable' = cut
  BY DEF PowerLoss
<1>2. loss' = TRUE /\ UNCHANGED <<job, answer, replaced, ioFaults>>
  BY DEF PowerLoss
<1>3. \A n \in Name : dir'[n] \in {dir[n], kept[n]} /\ kept'[n] = dir'[n]
  BY <1>1
<1>4. \A w \in Writer : /\ stable'[w] = bytes'[w] /\ stable'[w] \in 0..2
                        /\ stable[w] = 2 => stable'[w] = 2
  BY <1>1, JobFacts
<1>5. WriteTypeOK'
  <2>1. dir' \in [Name -> File \union {None}]
    BY <1>1 DEF WriteTypeOK
  <2>2. loss' \in BOOLEAN
    BY <1>2
  <2> QED
    BY <1>1, <1>2, <2>1, <2>2 DEF WriteTypeOK
<1>6. \A v \in Writer : job[v].target \in Name /\ v \in Name
  BY JobFacts
<1>7. NamesAreOwn'
  BY <1>2, <1>3, <1>6 DEF NamesAreOwn, Name
<1>8. PublishedIsStable'
  BY <1>2, <1>3, <1>4, <1>6 DEF PublishedIsStable
<1>9. JobsFollow'
  BY <1>2, <1>4 DEF JobsFollow
<1>10. AnsweredIsKept'
  BY <1>2, <1>3, <1>6 DEF AnsweredIsKept
<1> QED
  BY <1>5, <1>7, <1>8, <1>9, <1>10

LEMMA CleanupTempsKeeps ==
  ASSUME IInv, NEW t \in Target, CleanupTemps(t)
  PROVE  IInv'
<1> USE DEF IInv
<1>1. /\ dir' = [n \in Name |-> IF n \in Writer /\ job[n].target = t /\ ~Links(n)
                                  THEN None ELSE dir[n]]
      /\ UNCHANGED <<kept, bytes, stable, job, answer, replaced, loss, ioFaults>>
  BY DEF CleanupTemps
<1>2. \A n \in Name : dir'[n] \in {None, dir[n]} /\ (n \in Target => dir'[n] = dir[n])
  BY <1>1, NamesDiffer
<1>3. WriteTypeOK'
  BY <1>1 DEF WriteTypeOK
<1>4. \A v \in Writer : job[v].target \in Name /\ job[v].target \in Target /\ v \in Name
  BY JobFacts
<1>5. NamesAreOwn'
  <2>1. UNCHANGED <<kept, job>> /\ \A n \in Target : dir'[n] = dir[n]
    BY <1>1, <1>2 DEF Name
  <2>2. \A v \in Writer : dir'[v] \in {None, v}
    BY <1>2, <1>4 DEF NamesAreOwn
  <2> QED
    BY <2>1, <2>2 DEF NamesAreOwn
<1>6. PublishedIsStable' /\ JobsFollow' /\ AnsweredIsKept'
  BY <1>1, <1>2, <1>4 DEF PublishedIsStable, JobsFollow, AnsweredIsKept
<1> QED
  BY <1>3, <1>5, <1>6

-----------------------------------------------------------------------------
LEMMA StepKeeps == IInv /\ [WriteNext]_writeVars => IInv'
<1> SUFFICES ASSUME IInv, [WriteNext]_writeVars PROVE IInv'
  OBVIOUS
<1>1. ASSUME NEW w \in Writer, Rename(w) \/ Link(w) \/ SyncDirectory(w) PROVE IInv'
  BY <1>1, PublishKeeps, SyncDirectoryKeeps
<1>2. CASE UNCHANGED writeVars
  BY <1>2 DEF writeVars, IInv, WriteTypeOK, NamesAreOwn, PublishedIsStable, JobsFollow,
              AnsweredIsKept
<1> QED
  BY <1>1, <1>2, JobStepsKeep, StrangerWritesKeeps, CleanupTempsKeeps, PowerLossKeeps
     DEF WriteNext

LEMMA AlwaysIInv == WriteSpec => []IInv
<1> QED
  BY InitHolds, StepKeeps, PTL DEF WriteSpec

\* The directory, the files and the jobs are what they are declared to be.
THEOREM TypeCorrect == WriteSpec => []WriteTypeOK
<1>1. IInv => WriteTypeOK
  BY DEF IInv
<1> QED
  BY <1>1, AlwaysIInv, PTL

\* Whoever writes beside whom, and whenever the power goes, what a reader finds
\* at the name of a drawing or an object is a whole file.
THEOREM TargetsAreWholeHolds == WriteSpec => []TargetsAreWhole
<1>1. IInv => TargetsAreWhole
  <2> SUFFICES ASSUME IInv, NEW t \in Target, dir[t] # None PROVE Whole(dir[t])
    BY DEF TargetsAreWhole
  <2>1. dir[t] \in Stranger \union Writer
    BY DEF IInv, WriteTypeOK, Name, File
  <2>2. ASSUME NEW w \in Writer, dir[t] = w PROVE bytes[w] = 2
    <3>1. job[w].target = t
      BY <2>2 DEF IInv, NamesAreOwn
    <3> QED
      BY <2>2, <3>1, JobFacts DEF IInv, PublishedIsStable, JobsFollow
  <2> QED
    BY <2>1, <2>2 DEF Whole
<1> QED
  BY <1>1, AlwaysIInv, PTL

\* What the caller of a write was told stays true, over a power loss and a
\* restart too: a file it was told of is there or was replaced, and one it was
\* refused never appears.
THEOREM AnswersHoldHolds == WriteSpec => []AnswersHold
<1>1. IInv => AnswersHold
  <2> SUFFICES ASSUME IInv, NEW w \in Writer
               PROVE  /\ answer[w] = "ok" => Published(w) \/ w \in replaced
                      /\ answer[w] \in {"conflict", "exists", "found"} => ~Published(w)
                      /\ answer[w] = "failed" /\ job[w].kind = "guarded" => ~Published(w)
    BY DEF AnswersHold
  <2>1. answer[w] \in Told => job[w].step = "end"
    BY NamesDiffer DEF IInv, JobsFollow
  <2> QED
    BY <2>1 DEF IInv, PublishedIsStable, AnsweredIsKept, Published, Told
<1> QED
  BY <1>1, AlwaysIInv, PTL

LEMMA StoresWrite == StoresSpec => WriteSpec
<1>1. StoresInit => WriteInit
  BY DEF StoresInit
<1>2. [StoresNext]_stores => [WriteNext]_writeVars
  BY DEF StoresNext, stores, others
<1> QED
  BY <1>1, <1>2, PTL DEF StoresSpec, WriteSpec, stores

-----------------------------------------------------------------------------
(* The identities of drawings. *)

LEMMA MaxIsIn ==
  ASSUME NEW n \in Nat, NEW S \in SUBSET (1..n), S # {}
  PROVE  Identity!Max(S) \in S /\ \A i \in S : i <= Identity!Max(S)
<1> DEFINE R == {p \in Nat \X Nat : p[1] < p[2]}
           T == {n - i : i \in S}
<1>1. OpToRel(<, Nat) = R
  BY DEF OpToRel
<1>2. IsWellFoundedOn(R, Nat)
  BY <1>1, NatLessThanWellFounded
<1>3. T \subseteq Nat /\ T # {}
  <2>1. PICK i \in S : TRUE
    OBVIOUS
  <2>2. \A k \in S : n - k \in Nat
    OBVIOUS
  <2>3. n - i \in T
    BY <2>1
  <2> QED
    BY <2>2, <2>3
<1>4. PICK m \in T : \A k \in T : <<k, m>> \notin R
  BY <1>2, <1>3, WFMin
<1>5. PICK j \in S : m = n - j
  OBVIOUS
<1>6. ASSUME NEW i \in S PROVE i <= j
  <2>1. n - i \in T /\ n - i \in Nat /\ m \in Nat
    BY <1>3
  <2>2. ~(n - i < m)
    BY <1>4, <2>1
  <2> QED
    BY <1>5, <2>2
<1> HIDE DEF T, R
<1>7. \A i, k \in S : i \in Int /\ k \in Int
  OBVIOUS
<1>8. \E x \in S : \A y \in S : x >= y
  BY <1>6, <1>7
<1> QED
  BY <1>7, <1>8 DEF Identity!Max

LEMMA LoadedIsNamed ==
  ASSUME NEW p, NEW states
  PROVE  /\ Identity!Named(p, states) # {} => Identity!Loaded(p, states) \in Identity!Named(p, states)
         /\ Identity!Named(p, states) = {} => Identity!Loaded(p, states) = None
         /\ Identity!Loaded(p, states) # None => Identity!Loaded(p, states) \in Identity!Named(p, states)
<1> DEFINE active == Identity!Named(p, {"active"} \cap states)
           named == Identity!Named(p, states)
<1>1. active \subseteq named /\ named \in SUBSET (1..MaxDocuments)
  BY DEF Identity!Named, Identity!Id
<1>2. Identity!Loaded(p, states) = IF named = {} THEN None ELSE Identity!Max(IF active # {} THEN active ELSE named)
  BY DEF Identity!Loaded
<1> HIDE DEF active, named
<1>3. named # {} => Identity!Max(IF active # {} THEN active ELSE named) \in named
  <2>1. CASE active # {}
    BY <1>1, <2>1, MaxIsIn, IdentityAssumption
  <2>2. CASE active = {}
    BY <1>1, <2>2, MaxIsIn, IdentityAssumption
  <2> QED
    BY <2>1, <2>2
<1> QED
  BY <1>2, <1>3 DEF named

LoadsNamed ==
  \A p : \A states : Identity!Named(p, states) # {} => Identity!Loaded(p, states) \in Identity!Named(p, states)

LEMMA AllLoadNamed == LoadsNamed
BY LoadedIsNamed DEF LoadsNamed

\* What a resolution finds or establishes is a row whose file is known.
LEMMA Established ==
  ASSUME Identity!IdentityInv, NEW p \in Path, s1[p] # None, NEW j \in Identity!Id, Identity!Establish(j, p),
         UNCHANGED s6
  PROVE  /\ s2' \in [Identity!Id -> Identity!Row \cup {None}] /\ s5' \in [Identity!Id -> SUBSET Object]
         /\ Identity!RowsAreKnown'
         /\ \A i \in Identity!Id : s2[i] # None => s2'[i] # None
         /\ j \in Identity!Named(p, {"active"})'
<1> USE IdentityAssumption
<1>1. s1[p] \in Object /\ s2 \in [Identity!Id -> Identity!Row \cup {None}] /\ s5 \in [Identity!Id -> SUBSET Object]
  BY DEF Identity!IdentityInv, Identity!IdentityTypeOK
<1> DEFINE r == [path |-> p, object |-> s1[p], state |-> "active"]
<1>2. /\ r \in Identity!Row /\ r.object = s1[p] /\ r.path = p /\ r.state = "active" /\ r # None
      /\ s2' = [s2 EXCEPT ![j] = r] /\ s5' = [s5 EXCEPT ![j] = {s1[p]}]
  BY <1>1 DEF Identity!Row, Identity!Establish
<1> HIDE DEF r
<1>3. s2' \in [Identity!Id -> Identity!Row \cup {None}] /\ s5' \in [Identity!Id -> SUBSET Object]
  BY <1>1, <1>2
<1>4. s2'[j] = r /\ s5'[j] = {s1[p]} /\ \A i \in Identity!Id \ {j} : s2'[i] = s2[i] /\ s5'[i] = s5[i]
  BY <1>1, <1>2
<1>5. Identity!RowsAreKnown'
  BY <1>2, <1>4 DEF Identity!IdentityInv, Identity!RowsAreKnown
<1>6. j \in Identity!Named(p, {"active"})'
  BY <1>2, <1>4 DEF Identity!Named
<1> QED
  BY <1>2, <1>3, <1>4, <1>5, <1>6

\* A row keeps its file whatever else changes of it.
LEMMA Restated ==
  ASSUME Identity!IdentityInv, UNCHANGED s5, s6 \subseteq s6',
         s2' \in [Identity!Id -> Identity!Row \cup {None}],
         \A i \in Identity!Id : s2'[i] # None => s2[i] # None /\ s2'[i].object = s2[i].object
  PROVE  Identity!RowsAreKnown'
BY DEF Identity!IdentityInv, Identity!RowsAreKnown

LEMMA KnownFiles ==
  ASSUME Identity!IdentityTypeOK, Identity!RowsAreKnown
  PROVE  Identity!FilesKeepTheirHistory
<1> SUFFICES ASSUME NEW p \in Path, NEW i, i = Identity!ResolvePath(p), i # None, i \notin s6
             PROVE  s1[p] \in s5[i]
  BY DEF Identity!FilesKeepTheirHistory
<1>1. i = Identity!Loaded(p, {"active"}) /\ s2[i].object = s1[p]
  BY DEF Identity!ResolvePath, Identity!Verified, Identity!RefersToSameFile
<1>2. i \in Identity!Id /\ s2[i] # None
  BY <1>1, LoadedIsNamed DEF Identity!Named
<1> QED
  BY <1>1, <1>2 DEF Identity!RowsAreKnown

LEMMA IdentityTyped ==
  ASSUME Identity!IdentityInv
  PROVE  /\ s1 \in [Path -> Object \cup {None}] /\ s2 \in [Identity!Id -> Identity!Row \cup {None}]
         /\ s3 \in [Path -> Identity!Command \cup {None}] /\ s5 \in [Identity!Id -> SUBSET Object]
         /\ s6 \subseteq Identity!Id /\ s7 \in 0..MaxStrange /\ s8 \in 0..MaxFaults
         /\ s4 = None \/ s4 \in Path \X Path
  BY DEF Identity!IdentityInv, Identity!IdentityTypeOK

\* A resolution of the path, for any of the commands.
LEMMA Resolved ==
  ASSUME Identity!IdentityInv, NEW p \in Path, s1[p] # None, UNCHANGED s6,
         Identity!ResolveForOpen(p) \/ Identity!ResolveForExisting(p)
  PROVE  /\ s2' \in [Identity!Id -> Identity!Row \cup {None}] /\ s5' \in [Identity!Id -> SUBSET Object]
         /\ Identity!RowsAreKnown'
         /\ \A i \in Identity!Id : s2[i] # None => s2'[i] # None
         /\ Identity!ResolveForExisting(p) => (Identity!Loaded(p, {"active"}) \in Identity!Named(p, {"active"}))'
<1> USE IdentityAssumption
<1>1. ASSUME NEW j \in Identity!Id, Identity!Establish(j, p)
      PROVE  /\ s2' \in [Identity!Id -> Identity!Row \cup {None}] /\ s5' \in [Identity!Id -> SUBSET Object]
             /\ Identity!RowsAreKnown'
             /\ \A i \in Identity!Id : s2[i] # None => s2'[i] # None
             /\ (Identity!Loaded(p, {"active"}) \in Identity!Named(p, {"active"}))'
  <2>0. LoadsNamed'
    BY AllLoadNamed, PTL
  <2>1. (Identity!Named(p, {"active"}) # {} => Identity!Loaded(p, {"active"}) \in Identity!Named(p, {"active"}))'
    BY <2>0 DEF LoadsNamed
  <2> QED
    BY <1>1, <2>1, Established
<1>2. ASSUME NEW states, NEW i, i = Identity!Loaded(p, states), i # None, UNCHANGED s5,
             s2' = [s2 EXCEPT ![i].state = "active"]
      PROVE  /\ s2' \in [Identity!Id -> Identity!Row \cup {None}] /\ s5' \in [Identity!Id -> SUBSET Object]
             /\ Identity!RowsAreKnown'
             /\ \A k \in Identity!Id : s2[k] # None => s2'[k] # None
  <2>1. i \in Identity!Id /\ s2[i] \in Identity!Row
    BY <1>2, LoadedIsNamed, IdentityTyped DEF Identity!Named
  <2> DEFINE r == [s2[i] EXCEPT !.state = "active"]
  <2>2. r \in Identity!Row /\ r.object = s2[i].object /\ r # None
    BY <2>1 DEF Identity!Row
  <2>3. s2'[i] = r /\ (\A k \in Identity!Id \ {i} : s2'[k] = s2[k]) /\ s2' = [s2 EXCEPT ![i] = r]
    BY <1>2, <2>1, IdentityTyped
  <2> HIDE DEF r
  <2>4. s2' \in [Identity!Id -> Identity!Row \cup {None}]
    BY <2>2, <2>3, IdentityTyped
  <2>5. \A k \in Identity!Id : s2'[k] # None => s2[k] # None /\ s2'[k].object = s2[k].object
    BY <2>1, <2>2, <2>3
  <2> QED
    BY <1>2, <2>2, <2>3, <2>4, <2>5, Restated, IdentityTyped
<1>3. CASE Identity!Loaded(p, {"active"}) # None /\ UNCHANGED <<s2, s5>>
  <2>1. Identity!Loaded(p, {"active"}) \in Identity!Named(p, {"active"})
    BY <1>3, LoadedIsNamed
  <2>2. (Identity!Loaded(p, {"active"}) \in Identity!Named(p, {"active"}))'
    BY <1>3, <2>1 DEF Identity!Loaded, Identity!Named
  <2> QED
    BY <1>3, <2>2, IdentityTyped DEF Identity!IdentityInv, Identity!RowsAreKnown
<1>4. CASE Identity!ResolveForExisting(p)
  BY <1>1, <1>3, <1>4 DEF Identity!ResolveForExisting
<1>5. CASE Identity!ResolveForOpen(p) /\ ~Identity!ResolveForExisting(p)
  BY <1>1, <1>2, <1>5 DEF Identity!ResolveForOpen
<1> QED
  BY <1>4, <1>5

LEMMA IdentityTypes ==
  ASSUME Identity!IdentityInv, Identity!IdentityNext
  PROVE  Identity!IdentityTypeOK' /\ Identity!RowsAreKnown' /\ Identity!CommandsAreResolved'
<1> USE IdentityAssumption
<1> DEFINE Q == Identity!IdentityTypeOK' /\ Identity!RowsAreKnown' /\ Identity!CommandsAreResolved'
<1>0. Identity!RowsAreKnown /\ Identity!CommandsAreResolved
  BY DEF Identity!IdentityInv
<1>1. ASSUME NEW p \in Path, Identity!Open(p) \/ Identity!SaveDraft(p) PROVE Q
  <2>1. /\ s1[p] # None /\ UNCHANGED <<s1, s3, s4, s6, s7, s8>>
        /\ Identity!ResolveForOpen(p) \/ Identity!ResolveForExisting(p)
    BY <1>1 DEF Identity!Open, Identity!SaveDraft, Identity!bounds
  <2>2. Identity!CommandsAreResolved'
    BY <1>0, <2>1, Resolved, IdentityTyped DEF Identity!CommandsAreResolved, Identity!Command
  <2> QED
    BY <2>1, <2>2, Resolved, IdentityTyped DEF Identity!IdentityTypeOK
<1>2. ASSUME NEW p \in Path, NEW c, s3' = [s3 EXCEPT ![p] = c], UNCHANGED <<s2, s5>>, s6 = s6',
             c \in Identity!Command \cup {None},
             c # None => /\ c.held # None => c.copy # None /\ s2[c.held] # None
                         /\ c.step \in {"detach", "note"} => c.wrote # None
                         /\ c.step = "detach" => c.held # None
      PROVE  /\ s3' \in [Path -> Identity!Command \cup {None}] /\ Identity!RowsAreKnown'
             /\ Identity!CommandsAreResolved'
  <2>1. s3' \in [Path -> Identity!Command \cup {None}] /\ s3'[p] = c /\ \A q \in Path \ {p} : s3'[q] = s3[q]
    BY <1>2, IdentityTyped
  <2>2. Identity!CommandsAreResolved'
    BY <1>0, <1>2, <2>1 DEF Identity!CommandsAreResolved
  <2> QED
    BY <1>0, <1>2, <2>1, <2>2 DEF Identity!RowsAreKnown
<1>3. ASSUME NEW p \in Path, Identity!BeginSave(p) PROVE Q
  <2>1. PICK kind \in {"save", "saveAs"} :
          s3' = [s3 EXCEPT ![p] = [kind |-> kind, step |-> "resolve", held |-> None, copy |-> None, wrote |-> None]]
    BY <1>3 DEF Identity!BeginSave
  <2> DEFINE c == [kind |-> kind, step |-> "resolve", held |-> None, copy |-> None, wrote |-> None]
  <2>2. c \in Identity!Command /\ c.held = None /\ c.step = "resolve" /\ s3' = [s3 EXCEPT ![p] = c]
    BY <2>1 DEF Identity!Command
  <2> HIDE DEF c
  <2>3. UNCHANGED <<s1, s2, s4, s5, s6, s7, s8>>
    BY <1>3 DEF Identity!BeginSave, Identity!bounds
  <2> QED
    BY <1>2, <2>2, <2>3, IdentityTyped DEF Identity!IdentityTypeOK
<1>4. ASSUME NEW p \in Path, Identity!ResolveExistingOrNew(p) PROVE Q
  <2>0. /\ s3[p] \in Identity!Command /\ s3[p].step = "resolve" /\ UNCHANGED <<s1, s4, s6, s7, s8>>
    BY <1>4, IdentityTyped DEF Identity!ResolveExistingOrNew, Identity!bounds
  <2>1. CASE s1[p] = None
    <3> DEFINE c == [s3[p] EXCEPT !.step = "write"]
    <3>1. c \in Identity!Command /\ c.held = s3[p].held /\ c.copy = s3[p].copy /\ c.step = "write"
      BY <2>0 DEF Identity!Command
    <3>2. s3' = [s3 EXCEPT ![p] = c] /\ UNCHANGED <<s2, s5>>
      BY <1>4, <2>1 DEF Identity!ResolveExistingOrNew, Identity!Go
    <3>3. c.held # None => c.copy # None /\ s2[c.held] # None
      BY <1>0, <2>0, <3>1 DEF Identity!CommandsAreResolved
    <3> HIDE DEF c
    <3> QED
      BY <1>2, <2>0, <3>1, <3>2, <3>3, IdentityTyped DEF Identity!IdentityTypeOK
  <2>2. CASE s1[p] # None
    <3>1. PICK i : i = Identity!Loaded(p, {"active"})'
      OBVIOUS
    <3>2. Identity!ResolveForExisting(p) /\ s3' = [s3 EXCEPT ![p].step = "write", ![p].held = i, ![p].copy = s2'[i]]
      BY <1>4, <2>2, <3>1 DEF Identity!ResolveExistingOrNew
    <3>3. /\ s2' \in [Identity!Id -> Identity!Row \cup {None}] /\ s5' \in [Identity!Id -> SUBSET Object]
          /\ Identity!RowsAreKnown'
          /\ \A k \in Identity!Id : s2[k] # None => s2'[k] # None
          /\ i \in Identity!Id /\ s2'[i] # None
      BY <2>0, <2>2, <3>1, <3>2, Resolved DEF Identity!Named
    <3> DEFINE c == [s3[p] EXCEPT !.step = "write", !.held = i, !.copy = s2'[i]]
    <3>4. c \in Identity!Command /\ c.held = i /\ c.copy = s2'[i] /\ c.step = "write"
      BY <2>0, <3>3 DEF Identity!Command
    <3>5. s3' = [s3 EXCEPT ![p] = c]
      BY <3>2, IdentityTyped
    <3> HIDE DEF c
    <3>6. s3' \in [Path -> Identity!Command \cup {None}] /\ s3'[p] = c /\ \A q \in Path \ {p} : s3'[q] = s3[q]
      BY <3>4, <3>5, IdentityTyped
    <3>7. \A q \in Path : s3[q] # None => s3[q].held \in Identity!Id \cup {None}
      BY IdentityTyped DEF Identity!Command
    <3>8. Identity!CommandsAreResolved'
      BY <1>0, <3>3, <3>4, <3>6, <3>7 DEF Identity!CommandsAreResolved
    <3> QED
      BY <2>0, <3>3, <3>6, <3>8, IdentityTyped DEF Identity!IdentityTypeOK
  <2> QED
    BY <2>1, <2>2
<1>5. ASSUME NEW p \in Path, Identity!ResolveFails(p) PROVE Q
  <2>0. /\ s3[p] \in Identity!Command /\ UNCHANGED <<s1, s2, s4, s5, s6, s7>> /\ s8' \in 0..MaxFaults
    BY <1>5, IdentityTyped DEF Identity!ResolveFails, Identity!StoreFails
  <2> DEFINE c == [s3[p] EXCEPT !.step = "write"]
  <2>1. c \in Identity!Command /\ c.held = s3[p].held /\ c.copy = s3[p].copy /\ c.step = "write"
    BY <2>0 DEF Identity!Command
  <2>2. s3' = [s3 EXCEPT ![p] = c]
    BY <1>5 DEF Identity!ResolveFails, Identity!Go
  <2>3. c.held # None => c.copy # None /\ s2[c.held] # None
    BY <1>0, <2>0, <2>1 DEF Identity!CommandsAreResolved
  <2> HIDE DEF c
  <2> QED
    BY <1>2, <2>0, <2>1, <2>2, <2>3, IdentityTyped DEF Identity!IdentityTypeOK
<1>6. ASSUME NEW p \in Path, Identity!Write(p) PROVE Q
  <2>0. /\ s3[p] \in Identity!Command /\ s3[p].step = "write" /\ UNCHANGED <<s2, s4, s5, s6, s7, s8>>
    BY <1>6, IdentityTyped DEF Identity!Write, Identity!bounds
  <2>1. PICK o \in Identity!New :
          /\ s1' = [s1 EXCEPT ![p] = o]
          /\ s3' = [s3 EXCEPT ![p].wrote = o,
                      ![p].step = IF @ # None /\ s3[p].kind = "saveAs" /\ s3[p].held # None THEN "detach" ELSE "note"]
    BY <1>6 DEF Identity!Write
  <2>2. PICK step \in {"detach", "note"} :
          s3' = [s3 EXCEPT ![p].wrote = o, ![p].step = step] /\ (step = "detach" => s3[p].held # None)
    BY <2>0, <2>1, IdentityTyped
  <2> DEFINE c == [s3[p] EXCEPT !.wrote = o, !.step = step]
  <2>3. o \in Object
    BY DEF Identity!New
  <2>4. /\ c \in Identity!Command /\ c.held = s3[p].held /\ c.copy = s3[p].copy /\ c.step = step /\ c.wrote = o
    BY <2>0, <2>3 DEF Identity!Command
  <2>5. s3' = [s3 EXCEPT ![p] = c]
    BY <2>0, <2>2, IdentityTyped
  <2> HIDE DEF c
  <2>6. /\ c.held # None => c.copy # None /\ s2[c.held] # None
        /\ c.wrote # None /\ (c.step = "detach" => c.held # None)
    BY <1>0, <2>0, <2>2, <2>3, <2>4 DEF Identity!CommandsAreResolved
  <2>7. s1' \in [Path -> Object \cup {None}]
    BY <2>1, <2>3, IdentityTyped
  <2> QED
    BY <1>2, <2>0, <2>4, <2>5, <2>6, <2>7, IdentityTyped DEF Identity!IdentityTypeOK
<1>7. ASSUME NEW p \in Path, Identity!DetachPrevious(p) PROVE Q
  <2>0. /\ s3[p] \in Identity!Command /\ s3[p].step = "detach" /\ UNCHANGED <<s1, s4, s5, s6, s7, s8>>
    BY <1>7, IdentityTyped DEF Identity!DetachPrevious, Identity!bounds
  <2>1. PICK h : h = s3[p].held
    OBVIOUS
  <2>2. h \in Identity!Id /\ s2[h] \in Identity!Row /\ s3[p].copy # None /\ s3[p].wrote # None
    BY <1>0, <2>0, <2>1, IdentityTyped DEF Identity!CommandsAreResolved, Identity!Command
  <2>3. PICK state \in {"deleting", "detached"} : s2' = [s2 EXCEPT ![h].state = state]
    BY <1>7, <2>1, <2>2, IdentityTyped DEF Identity!DetachPrevious
  <2> DEFINE r == [s2[h] EXCEPT !.state = state]
             c == [s3[p] EXCEPT !.step = "note"]
  <2>4. r \in Identity!Row /\ r.object = s2[h].object /\ r # None
    BY <2>2 DEF Identity!Row
  <2>5. s2' = [s2 EXCEPT ![h] = r]
    BY <2>2, <2>3, IdentityTyped
  <2>6. /\ c \in Identity!Command /\ c.held = h /\ c.copy = s3[p].copy /\ c.step = "note" /\ c.wrote = s3[p].wrote
    BY <2>0, <2>1 DEF Identity!Command
  <2>7. s3' = [s3 EXCEPT ![p] = c]
    BY <1>7 DEF Identity!DetachPrevious, Identity!Go
  <2> HIDE DEF r, c
  <2>8. /\ s2' \in [Identity!Id -> Identity!Row \cup {None}] /\ s2'[h] = r
        /\ \A i \in Identity!Id \ {h} : s2'[i] = s2[i]
    BY <2>2, <2>4, <2>5, IdentityTyped
  <2>9. Identity!RowsAreKnown'
    BY <2>0, <2>2, <2>4, <2>8, Restated
  <2>10. s3' \in [Path -> Identity!Command \cup {None}] /\ s3'[p] = c /\ \A q \in Path \ {p} : s3'[q] = s3[q]
    BY <2>6, <2>7, IdentityTyped
  <2>11. \A q \in Path : s3[q] # None => s3[q].held \in Identity!Id \cup {None}
    BY IdentityTyped DEF Identity!Command
  <2>12. Identity!CommandsAreResolved'
    BY <1>0, <2>2, <2>4, <2>6, <2>8, <2>10, <2>11 DEF Identity!CommandsAreResolved
  <2> QED
    BY <2>0, <2>8, <2>9, <2>10, <2>12, IdentityTyped DEF Identity!IdentityTypeOK
<1>8. ASSUME NEW p \in Path, UNCHANGED <<s1, s2, s4, s5, s6>>, s3' = [s3 EXCEPT ![p] = None],
             s7' \in 0..MaxStrange, s8' \in 0..MaxFaults
      PROVE  Q
  BY <1>2, <1>8, IdentityTyped DEF Identity!IdentityTypeOK
<1>9. ASSUME NEW p \in Path, Identity!Note(p) PROVE Q
  <2>0. PICK t : t = s3[p]
    OBVIOUS
  <2>1. /\ t \in Identity!Command /\ t.step = "note" /\ t.wrote \in Object /\ s1[p] \in Object
        /\ t.held # None => t.copy \in Identity!Row /\ t.held \in Identity!Id
        /\ s3' = [s3 EXCEPT ![p] = None] /\ UNCHANGED <<s1, s4, s7, s8>>
    BY <1>0, <1>9, <2>0, IdentityTyped DEF Identity!Note, Identity!CommandsAreResolved, Identity!Command,
                                           Identity!End, Identity!bounds
  <2>2. PICK i \in Identity!Id, r \in Identity!Row :
          /\ s2' = [s2 EXCEPT ![i] = r] /\ r.object = s1[p]
          /\ s5' = [s5 EXCEPT ![i] = @ \cup {t.wrote}]
          /\ s6' = IF s1[p] = t.wrote THEN s6 ELSE s6 \cup {i}
    <3>1. PICK i \in Identity!Id :
            /\ IF t.kind = "save" /\ t.held # None
               THEN i = t.held /\ s2' = [s2 EXCEPT ![i] = [t.copy EXCEPT !.object = s1[p]]]
               ELSE Identity!Fresh(i) /\ s2' = [s2 EXCEPT ![i] = [path |-> p, object |-> s1[p], state |-> "active"]]
            /\ s5' = [s5 EXCEPT ![i] = @ \cup {t.wrote}]
            /\ s6' = IF s1[p] = t.wrote THEN s6 ELSE s6 \cup {i}
      BY <1>9, <2>0 DEF Identity!Note
    <3>2. t.held # None => /\ [t.copy EXCEPT !.object = s1[p]] \in Identity!Row
                           /\ [t.copy EXCEPT !.object = s1[p]].object = s1[p]
      BY <2>1 DEF Identity!Row
    <3>3. [path |-> p, object |-> s1[p], state |-> "active"] \in Identity!Row
      BY <2>1 DEF Identity!Row
    <3> QED
      BY <3>1, <3>2, <3>3
  <2>3. /\ s2' \in [Identity!Id -> Identity!Row \cup {None}] /\ s5' \in [Identity!Id -> SUBSET Object]
        /\ s6' \subseteq Identity!Id /\ s6 \subseteq s6'
        /\ s2'[i] = r /\ s5'[i] = s5[i] \cup {t.wrote}
        /\ \A j \in Identity!Id \ {i} : s2'[j] = s2[j] /\ s5'[j] = s5[j]
        /\ i \notin s6' => s1[p] = t.wrote
    BY <2>1, <2>2, IdentityTyped
  <2>4. Identity!RowsAreKnown'
    BY <1>0, <2>2, <2>3 DEF Identity!RowsAreKnown
  <2>5. s3' \in [Path -> Identity!Command \cup {None}] /\ s3'[p] = None /\ \A q \in Path \ {p} : s3'[q] = s3[q]
    BY <2>1, IdentityTyped
  <2>6. \A q \in Path : s3[q] # None => s3[q].held \in Identity!Id \cup {None}
    BY IdentityTyped DEF Identity!Command
  <2>7. Identity!CommandsAreResolved'
    BY <1>0, <2>2, <2>3, <2>5, <2>6 DEF Identity!CommandsAreResolved
  <2> QED
    BY <2>1, <2>3, <2>4, <2>5, <2>7, IdentityTyped DEF Identity!IdentityTypeOK
<1>10. ASSUME NEW p \in Path, Identity!RefuseSave(p) \/ Identity!NoteFails(p) PROVE Q
  BY <1>8, <1>10, IdentityTyped DEF Identity!RefuseSave, Identity!NoteFails, Identity!End, Identity!StoreFails,
                                    Identity!bounds
<1>11. ASSUME UNCHANGED <<s2, s3, s5, s6>>, s1' \in [Path -> Object \cup {None}],
              s7' \in 0..MaxStrange, s8' \in 0..MaxFaults, s4' = None \/ s4' \in Path \X Path
       PROVE  Q
  BY <1>0, <1>11, IdentityTyped DEF Identity!IdentityTypeOK, Identity!RowsAreKnown, Identity!CommandsAreResolved
<1>12. ASSUME NEW p \in Path, NEW q \in Path,
              Identity!StrangeFile(p) \/ Identity!StrangeMove(p, q) \/ Identity!RenameEntry(p, q)
       PROVE  Q
  <2>1. s1' \in [Path -> Object \cup {None}]
    BY <1>12, IdentityTyped DEF Identity!StrangeFile, Identity!StrangeMove, Identity!RenameEntry
  <2> QED
    BY <1>11, <1>12, <2>1, IdentityTyped
       DEF Identity!StrangeFile, Identity!StrangeMove, Identity!RenameEntry, Identity!Strange, Identity!bounds
<1>13. ASSUME s2' \in [Identity!Id -> Identity!Row \cup {None}], UNCHANGED <<s3, s5, s6, s7, s8>>,
              s1' \in [Path -> Object \cup {None}], s4' = None \/ s4' \in Path \X Path,
              \A i \in Identity!Id : /\ s2[i] = None => s2'[i] = None
                                     /\ s2[i] # None => s2'[i] # None /\ s2'[i].object = s2[i].object
       PROVE  Q
  <2>1. \A q \in Path : s3[q] # None => s3[q].held \in Identity!Id \cup {None}
    BY IdentityTyped DEF Identity!Command
  <2>2. Identity!CommandsAreResolved'
    BY <1>0, <1>13, <2>1 DEF Identity!CommandsAreResolved
  <2> QED
    BY <1>13, <2>2, Restated, IdentityTyped DEF Identity!IdentityTypeOK
<1>14. ASSUME NEW p \in Path, Identity!DeleteEntry(p) PROVE Q
  <2>1. PICK i : i = Identity!Loaded(p, {"active"})
    OBVIOUS
  <2>2. /\ s1' = [s1 EXCEPT ![p] = None] /\ UNCHANGED <<s3, s4, s5, s6, s7, s8>>
        /\ s2' = IF i = None THEN s2 ELSE [s2 EXCEPT ![i].state = "deleting"]
    BY <1>14, <2>1 DEF Identity!DeleteEntry, Identity!bounds
  <2>3. s1' \in [Path -> Object \cup {None}]
    BY <2>2, IdentityTyped
  <2>4. CASE i = None
    BY <1>13, <2>2, <2>3, <2>4, IdentityTyped
  <2>5. CASE i # None
    <3>1. i \in Identity!Id /\ s2[i] \in Identity!Row
      BY <2>1, <2>5, LoadedIsNamed, IdentityTyped DEF Identity!Named
    <3> DEFINE r == [s2[i] EXCEPT !.state = "deleting"]
    <3>2. r \in Identity!Row /\ r.object = s2[i].object /\ r # None
      BY <3>1 DEF Identity!Row
    <3>3. s2' = [s2 EXCEPT ![i] = r]
      BY <2>2, <2>5
    <3> HIDE DEF r
    <3>4. /\ s2' \in [Identity!Id -> Identity!Row \cup {None}] /\ s2'[i] = r
          /\ \A j \in Identity!Id \ {i} : s2'[j] = s2[j]
      BY <3>1, <3>2, <3>3, IdentityTyped
    <3> QED
      BY <1>13, <2>2, <2>3, <3>1, <3>2, <3>4, IdentityTyped
  <2> QED
    BY <2>4, <2>5
<1>15. CASE Identity!MigrateAppRename
  <2>1. PICK q : q = s4[2]
    OBVIOUS
  <2>2. PICK moved : moved = Identity!Named(s4[1], {"active"})
    OBVIOUS
  <2>3. /\ s2' = [i \in Identity!Id |-> IF i \in moved THEN [s2[i] EXCEPT !.path = q] ELSE s2[i]]
        /\ s4' = None /\ UNCHANGED <<s1, s3, s5, s6, s7, s8>> /\ q \in Path
        /\ \A i \in moved : i \in Identity!Id /\ s2[i] \in Identity!Row
    BY <1>15, <2>1, <2>2, IdentityTyped DEF Identity!MigrateAppRename, Identity!bounds, Identity!Named
  <2>4. \A i \in moved : /\ [s2[i] EXCEPT !.path = q] \in Identity!Row
                         /\ [s2[i] EXCEPT !.path = q].object = s2[i].object
    BY <2>3 DEF Identity!Row
  <2>5. /\ s2' \in [Identity!Id -> Identity!Row \cup {None}]
        /\ \A i \in Identity!Id : /\ s2[i] = None => s2'[i] = None
                                  /\ s2[i] # None => s2'[i] # None /\ s2'[i].object = s2[i].object
    BY <2>3, <2>4, IdentityTyped
  <2> QED
    BY <1>13, <2>3, <2>5, IdentityTyped
<1>16. CASE Identity!Crash
  <2>1. s3' = [q \in Path |-> None] /\ UNCHANGED <<s1, s2, s4, s5, s6, s7>> /\ s8' \in 0..MaxFaults
    BY <1>16, IdentityTyped DEF Identity!Crash, Identity!StoreFails
  <2> QED
    BY <1>0, <2>1, IdentityTyped DEF Identity!IdentityTypeOK, Identity!RowsAreKnown, Identity!CommandsAreResolved
<1> QED
  BY <1>1, <1>3, <1>4, <1>5, <1>6, <1>7, <1>9, <1>10, <1>12, <1>14, <1>15, <1>16 DEF Identity!IdentityNext

FilesKept ==
  Identity!IdentityTypeOK /\ Identity!RowsAreKnown => Identity!FilesKeepTheirHistory

LEMMA FilesAreKept == FilesKept
BY KnownFiles DEF FilesKept

LEMMA IdentityKept ==
  ASSUME Identity!IdentityInv, Identity!IdentityNext
  PROVE  Identity!IdentityInv'
<1>1. FilesKept'
  BY FilesAreKept, PTL
<1> QED
  BY <1>1, IdentityTypes DEF FilesKept, Identity!IdentityInv

LEMMA IdentityBegins == Identity!IdentityInit => Identity!IdentityInv
<1> SUFFICES ASSUME Identity!IdentityInit PROVE Identity!IdentityInv
  OBVIOUS
<1>1. Identity!IdentityTypeOK /\ Identity!RowsAreKnown /\ Identity!CommandsAreResolved
  BY IdentityAssumption
     DEF Identity!IdentityInit, Identity!IdentityTypeOK, Identity!RowsAreKnown, Identity!CommandsAreResolved
<1> QED
  BY <1>1, KnownFiles DEF Identity!IdentityInv

LEMMA IdentityStays == Identity!IdentityInv /\ UNCHANGED <<s1, s2, s3, s4, s5, s6, s7, s8>> => Identity!IdentityInv'
<1> SUFFICES ASSUME Identity!IdentityInv, UNCHANGED <<s1, s2, s3, s4, s5, s6, s7, s8>>
             PROVE  Identity!IdentityInv'
  OBVIOUS
<1>1. (Identity!IdentityTypeOK /\ Identity!RowsAreKnown /\ Identity!CommandsAreResolved)'
  BY DEF Identity!IdentityInv, Identity!IdentityTypeOK, Identity!RowsAreKnown, Identity!CommandsAreResolved
<1>2. FilesKept'
  BY FilesAreKept, PTL
<1> QED
  BY <1>1, <1>2 DEF FilesKept, Identity!IdentityInv

LEMMA IdentityHolds == StoresSpec => [](setting = "identity" => Identity!IdentityInv)
<1> DEFINE Inv == setting = "identity" => Identity!IdentityInv
<1>1. StoresInit => Inv
  BY IdentityBegins DEF StoresInit
<1>2. Inv /\ [StoresNext]_stores => Inv'
  <2> SUFFICES ASSUME Inv, [StoresNext]_stores, (setting = "identity")' PROVE Identity!IdentityInv'
    OBVIOUS
  <2>1. setting = "identity" /\ (Identity!IdentityNext \/ UNCHANGED <<s1, s2, s3, s4, s5, s6, s7, s8>>)
    BY DEF StoresNext, stores, all, others
  <2> QED
    BY <2>1, IdentityKept, IdentityStays
<1> QED
  BY <1>1, <1>2, PTL DEF StoresSpec, stores

\* No history command works on a document for a file that the document was
\* neither found at nor written to, whatever is renamed, replaced, copied or
\* restored in between and however often the store fails (HistoryIdentity).
THEOREM FilesKeepTheirHistoryHolds == StoresSpec => []FilesKeepTheirHistory
<1>1. (setting = "identity" => Identity!IdentityInv) => FilesKeepTheirHistory
  BY DEF Identity!IdentityInv, FilesKeepTheirHistory
<1> QED
  BY <1>1, IdentityHolds, PTL

-----------------------------------------------------------------------------
(* Images. *)

LEMMA ImageTypes ==
  ASSUME Images!ImageTypeOK, Images!ImageNext
  PROVE  Images!ImageTypeOK'
<1> USE ImagesAssumption
<1> USE DEF Images!ImageTypeOK
<1>0. Images!Scene = [Image -> {"none", "bytes", "ref", "stray"}]
  BY DEF Images!Scene, Images!Form
<1>1. ASSUME NEW c \in {None, "this", "another"}, Images!Claim(c) PROVE Images!ImageTypeOK'
  BY <1>1 DEF Images!Claim, Images!Event, Images!Spend
<1>2. ASSUME NEW d \in Drawing,
             \/ Images!Open(d) \/ Images!Restored(d) \/ Images!Resolve(d) \/ Images!Edit(d)
             \/ Images!Close(d) 
      PROVE  Images!ImageTypeOK'
  <2>0. Images!ShownRoot(d) \in Images!Place /\ d \in Images!Place /\ Images!AssetRoot(d) \in Images!Place
    BY DEF Images!ShownRoot, Images!Place, Images!AssetRoot, Images!owning_workspace
  <2>1. CASE Images!Open(d)
    BY <1>2, <2>0, <2>1 DEF Images!Open, Images!Show, Images!Grant, Images!Shown, Images!Written
  <2>2. CASE Images!Restored(d)
    BY <1>2, <2>0, <2>2 DEF Images!Restored, Images!Show, Images!Shown, Images!Written
  <2>3. CASE Images!Resolve(d)
    <3>0. s7[d] \in Images!Shown
      BY <2>3 DEF Images!Resolve
    <3>1. Images!Resolved(s7[d].scene, Images!ShownRoot(d)) \in Images!Scene
      BY <1>0, <3>0 DEF Images!Resolved, Images!Shown
    <3>2. [s7[d] EXCEPT !.canvas = Images!Resolved(s7[d].scene, Images!ShownRoot(d)),
                        !.from = Images!ShownRoot(d)] \in Images!Shown
      BY <2>0, <3>0, <3>1 DEF Images!Shown
    <3>3. s7' \in [Drawing -> Images!Shown \cup {None}]
      BY <2>3, <3>2 DEF Images!Resolve
    <3> QED
      BY <2>3, <3>3 DEF Images!Resolve
  <2>4. CASE Images!Edit(d)
    <3>1. PICK added \in SUBSET Image :
            LET c == [i \in Image |-> IF i \in added THEN "bytes" ELSE s7[d].canvas[i]]
            IN s7' = [s7 EXCEPT ![d].canvas = c, ![d].scene = c]
      BY <2>4 DEF Images!Edit
    <3> DEFINE c == [i \in Image |-> IF i \in added THEN "bytes" ELSE s7[d].canvas[i]]
    <3>a. s7[d] \in Images!Shown /\ s7[d].canvas # None
      BY <2>4 DEF Images!Edit
    <3>b. s7[d].canvas \in [Image -> {"none", "bytes", "ref", "stray"}]
      BY <3>a, <1>0 DEF Images!Shown
    <3>2. c \in Images!Scene /\ s7[d] \in Images!Shown /\ s7' = [s7 EXCEPT ![d].canvas = c, ![d].scene = c]
      BY <3>a, <3>b, <3>1, <1>0
    <3> HIDE DEF c
    <3>3. [s7[d] EXCEPT !.canvas = c, !.scene = c] \in Images!Shown
      BY <3>2 DEF Images!Shown
    <3>4. s7' \in [Drawing -> Images!Shown \cup {None}]
      BY <3>2, <3>3
    <3> QED
      BY <2>4, <3>4 DEF Images!Edit, Images!Edited, Images!Spend
  <2>5. CASE Images!Close(d)
    BY <2>5 DEF Images!Close
  <2> QED
    BY <1>2, <2>1, <2>2, <2>3, <2>4, <2>5
<1>3. ASSUME NEW d \in Drawing, NEW t \in Drawing,
             \/ Images!Save(d) \/ Images!RestoreVersion(d)
             \/ Images!SaveOrphanedAs(d, t) \/ Images!SaveElsewhere(d, t)
      PROVE  Images!ImageTypeOK'
  <2>1. \A k \in {"draft", "save", "saveAs", "elsewhere", "recover", "restore"}, p, q \in Drawing, s \in Images!Scene : \A r :
          Images!Begin(k, p, q, s, r) => s9' \in Images!Task
    BY <1>0 DEF Images!Begin, Images!Task, Images!AssetRoot, Images!owning_workspace, Images!Place
  <2>2. \A x : Images!Held(x, "bytes") \in Images!Scene
    BY <1>0 DEF Images!Held
  <2>3. s7[d] # None => s7[d].scene \in Images!Scene
    BY DEF Images!Shown
  <2>4. s9' \in Images!Task
    BY <1>3, <2>1, <2>2, <2>3 DEF Images!Save, Images!RestoreVersion, Images!SaveOrphanedAs, Images!SaveElsewhere
  <2> QED
    BY <1>3, <2>4 DEF Images!Save, Images!RestoreVersion, Images!SaveOrphanedAs, Images!SaveElsewhere, Images!Called, Images!Spend
<1>4. ASSUME Images!Mount \/ Images!StoreImages \/ Images!StoreFails \/ Images!Refuse \/ Images!WriteFails
      PROVE  Images!ImageTypeOK'
  <2>1. CASE Images!Mount
    BY <2>1 DEF Images!Mount
  <2>2. CASE Images!StoreImages
    BY <2>2 DEF Images!StoreImages, Images!Goto, Images!At, Images!Task, Images!Fresh, Images!Bytes
  <2>3. CASE Images!StoreFails
    <3>1. PICK some \in SUBSET Image : s3' = [s3 EXCEPT ![s9.root] = @ \cup some]
      BY <2>3 DEF Images!StoreFails, Images!Fresh, Images!Bytes
    <3> QED
      BY <2>3, <3>1 DEF Images!StoreFails, Images!At
  <2>4. CASE Images!Refuse \/ Images!WriteFails
    BY <2>4 DEF Images!Refuse, Images!WriteFails
  <2> QED
    BY <1>4, <2>1, <2>2, <2>3, <2>4
<1>5. ASSUME Images!WriteDraft \/ Images!WriteFile \/ Images!WriteElsewhere \/ Images!WriteVersion \/ Images!Publish
      PROVE  Images!ImageTypeOK'
  <2>1. s9 # None => /\ s9 \in Images!Task /\ Images!References(s9) \in Images!Scene /\ s9.scene \in Images!Scene
                     /\ s9.of \in Drawing /\ s9.to \in Drawing /\ s9.root \in Images!Place
                     /\ Images!Record(s9) \in Images!Written
                     /\ [scene |-> s9.scene, root |-> s9.root] \in Images!Written
    BY <1>0 DEF Images!References, Images!Task, Images!Record, Images!Written
  <2>2. CASE Images!WriteDraft
    BY <2>1, <2>2 DEF Images!WriteDraft, Images!At
  <2>3. CASE Images!WriteFile
    BY <2>1, <2>3 DEF Images!WriteFile, Images!At, Images!Goto, Images!Task
  <2>4. CASE Images!WriteElsewhere
    BY <2>1, <2>4 DEF Images!WriteElsewhere, Images!At
  <2>5. CASE Images!WriteVersion
    BY <2>1, <2>5 DEF Images!WriteVersion, Images!At, Images!Grant, Images!Show, Images!Shown, Images!Record, Images!Place
  <2>6. CASE Images!Publish
    BY <2>1, <2>6 DEF Images!Publish, Images!At, Images!Images, Images!Refers, Images!Bytes
  <2> QED
    BY <1>5, <2>2, <2>3, <2>4, <2>5, <2>6
<1>6. ASSUME NEW d \in Drawing, Images!Foreign(d) \/ Images!Remove(d) PROVE Images!ImageTypeOK'
  BY <1>6, <1>0 DEF Images!Foreign, Images!Remove, Images!Event, Images!Spend, Images!Held, Images!Written, Images!Place
<1>7. ASSUME Images!Crash PROVE Images!ImageTypeOK'
  BY <1>7 DEF Images!Crash, Images!Event, Images!Spend
<1> QED
  BY <1>1, <1>2, <1>3, <1>4, <1>5, <1>6, <1>7 DEF Images!ImageNext

LEMMA StandsStill ==
  ASSUME Images!ImageTypeOK, \A p \in Images!Place : s3[p] \subseteq s3'[p],
         NEW scene, NEW root \in Images!Place, Images!Stands(scene, root)
  PROVE  Images!Stands(scene, root)'
BY DEF Images!Stands

\* What is written stands if it did, or was stored first.
LEMMA WrittenStands ==
  ASSUME Images!ImageTypeOK, Images!ImagesStand,
         \A p \in Images!Place : s3[p] \subseteq s3'[p],
         \A d \in Drawing : \A w \in {s5'[d], s6'[d]} \ {None} :
           w \in {s5[d], s6[d]} \/ Images!Stands(w.scene, w.root)'
  PROVE  Images!ImagesStand'
<1> SUFFICES ASSUME NEW d \in Drawing, NEW w \in {s5'[d], s6'[d]} \ {None}
             PROVE  Images!Stands(w.scene, w.root)'
  BY DEF Images!ImagesStand
<1>1. CASE w \in {s5[d], s6[d]}
  <2>1. w \in Images!Written /\ Images!Stands(w.scene, w.root)
    BY <1>1 DEF Images!ImagesStand, Images!ImageTypeOK
  <2> QED
    BY <2>1, StandsStill DEF Images!Written
<1>2. CASE w \notin {s5[d], s6[d]}
  BY <1>2
<1> QED
  BY <1>1, <1>2

\* A session shows its images if it did, wherever it is shown, or if it is a
\* new one that does.
LEMMA SessionsStand ==
  ASSUME Images!ImageInv, \A p \in Images!Place : s3[p] \subseteq s3'[p],
         s4 \subseteq s4' \/ \A d \in Drawing : s7'[d] = None,
         \A d \in Drawing : \A s \in {s7'[d]} \ {None} :
           \/ \E e \in Drawing : s = s7[e]
           \/ Images!SessionStands(s)' /\ Images!Shows(s)
  PROVE  Images!ImagesAreShown' /\ (\A d \in Drawing : s7[d] # None => Images!SessionStands(s7[d]))'
<1>1. ASSUME NEW d \in Drawing, NEW s, s = s7'[d], s # None
      PROVE  Images!SessionStands(s)' /\ Images!Shows(s)
  <2>1. CASE \E e \in Drawing : s = s7[e]
    <3>1. s \in Images!Shown /\ Images!SessionStands(s) /\ Images!Shows(s) /\ Images!ImageTypeOK
      BY <1>1, <2>1 DEF Images!ImageInv, Images!ImageTypeOK, Images!ImagesAreShown
    <3>2. s.origin \in Images!Place
      BY <3>1 DEF Images!Shown
    <3>3. Images!Stands(s.scene, s.origin)' /\ (s.canvas # None => Images!Stands(s.canvas, s.origin)')
      BY <3>1, <3>2, StandsStill DEF Images!SessionStands
    <3>4. \A i \in Image : Images!Readable(s.origin, i) => Images!Readable(s.origin, i)'
      BY <1>1, <3>2 DEF Images!Readable
    <3> QED
      BY <3>1, <3>3, <3>4 DEF Images!SessionStands
  <2> QED
    BY <1>1, <2>1
<1> QED
  BY <1>1 DEF Images!ImagesAreShown

\* The references of what a command writes, once it has stored its images.
LEMMA RecordStands ==
  ASSUME Images!ImageInv, NEW w, w = s9, w # None, w.step # "store", UNCHANGED s3
  PROVE  /\ w \in Images!Task
         /\ Images!Stands(w.scene, w.root)'
         /\ Images!Stores(w) =>
              /\ Images!Record(w) = [scene |-> Images!References(w), root |-> w.root]
              /\ Images!Stands(Images!References(w), w.root)'
<1>1. w \in Images!Task /\ Images!WorkStands
  BY DEF Images!ImageInv, Images!ImageTypeOK
<1>2. \A i \in Image : w.scene[i] = "bytes" => i \in Images!Fresh(w)
  BY DEF Images!Fresh, Images!Bytes
<1>3. Images!Stands(w.scene, w.root)'
  BY <1>1 DEF Images!WorkStands, Images!Stands
<1>4. Images!Stores(w) => \A i \in Images!Fresh(w) : i \in s3'[w.root]
  BY <1>1 DEF Images!WorkStands
<1>5. \A i \in Image : Images!References(w)[i] = "ref" => w.scene[i] \in {"bytes", "ref"}
  BY DEF Images!References
<1> QED
  BY <1>1, <1>2, <1>3, <1>4, <1>5 DEF Images!Stands, Images!Record

LEMMA ImagesWritten ==
  ASSUME Images!ImageInv, Images!ImageNext, NEW d \in Drawing, NEW w \in {s5'[d], s6'[d]} \ {None}
  PROVE  w \in {s5[d], s6[d]} \/ Images!Stands(w.scene, w.root)'
<1> USE DEF Images!ImageInv, Images!ImageTypeOK
<1> DEFINE W == Images!WriteDraft \/ Images!WriteFile \/ Images!WriteElsewhere \/ Images!WriteVersion
<1>1. CASE W
  <2>1. PICK t : t = s9
    OBVIOUS
  <2>2. t # None /\ t.step = "write" /\ UNCHANGED s3
    BY <1>1, <2>1 DEF Images!WriteDraft, Images!WriteFile, Images!WriteElsewhere, Images!WriteVersion, Images!At
  <2>3. /\ Images!Stands(t.scene, t.root)'
        /\ Images!Stores(t) => /\ Images!Record(t) = [scene |-> Images!References(t), root |-> t.root]
                               /\ Images!Stands(Images!References(t), t.root)'
    BY <2>1, <2>2, RecordStands
  <2>4. t.kind # "recover" => Images!Stores(t)
    BY DEF Images!Stores
  <2>5. \/ w \in {s5[d], s6[d]}
        \/ w = Images!Record(t) /\ Images!Stores(t)
        \/ w = [scene |-> t.scene, root |-> t.root]
    BY <1>1, <2>1, <2>4 DEF Images!WriteDraft, Images!WriteFile, Images!WriteElsewhere, Images!WriteVersion, Images!At
  <2> QED
    BY <2>3, <2>5
<1>5. ASSUME NEW e \in Drawing, Images!Foreign(e) \/ Images!Remove(e) \/ Images!Close(e)
      PROVE  w \in {s5[d], s6[d]} \/ Images!Stands(w.scene, w.root)'
  BY <1>5 DEF Images!Foreign, Images!Remove, Images!Close, Images!Held, Images!Stands
<1>6. (s5' = s5 /\ s6' = s6) => w \in {s5[d], s6[d]}
  OBVIOUS
<1> QED
  BY <1>1, <1>5, <1>6
     DEF Images!ImageNext, Images!Claim, Images!Mount, Images!Open, Images!Restored, Images!Resolve,
         Images!Edit, Images!Save, Images!SaveOrphanedAs, Images!SaveElsewhere,
         Images!RestoreVersion, Images!StoreImages, Images!StoreFails, Images!Refuse,
         Images!WriteFails, Images!Publish, Images!Crash

\* A drawing that opens is granted what it refers to in the store it asks for.
LEMMA OpensGranted ==
  ASSUME Images!ImageTypeOK, UNCHANGED s3, NEW scene, NEW root \in Images!Place, NEW asked \in Images!Place,
         NEW d \in Drawing, NEW s \in Images!Shown,
         s = [scene |-> scene, canvas |-> None, origin |-> root, from |-> d, asked |-> asked],
         Images!Grant(asked, scene), Images!Stands(scene, root)
  PROVE  Images!SessionStands(s)' /\ Images!Shows(s)
<1>1. \A i \in Image : scene[i] = "ref" => i \in Images!Refers(scene)
  BY DEF Images!Refers
<1> QED
  BY <1>1 DEF Images!SessionStands, Images!Shows, Images!Stands, Images!Readable, Images!Grant

LEMMA ImagesShown ==
  ASSUME Images!ImageInv, Images!ImageTypeOK', Images!ImageNext,
         NEW d \in Drawing, NEW s \in {s7'[d]} \ {None}
  PROVE  \/ \E e \in Drawing : s = s7[e]
         \/ Images!SessionStands(s)' /\ Images!Shows(s)
<1> USE ImagesAssumption
<1>0. /\ Images!ImageTypeOK /\ Images!ImagesStand /\ s \in Images!Shown
      /\ Drawing \subseteq Images!Place /\ None \notin Images!Place
  BY DEF Images!ImageInv, Images!ImageTypeOK, Images!Place
<1>1. ASSUME NEW e \in Drawing, Images!Open(e) PROVE \/ \E x \in Drawing : s = s7[x]
                                                     \/ Images!SessionStands(s)' /\ Images!Shows(s)
  <2>1. PICK w : w = s5[e]
    OBVIOUS
  <2>2. PICK asked : asked = Images!AssetRoot(e)
    OBVIOUS
  <2>3. w \in Images!Written /\ Images!Stands(w.scene, w.root) /\ asked \in Images!Place
    BY <1>0, <1>1, <2>1, <2>2 DEF Images!Open, Images!ImagesStand, Images!ImageTypeOK, Images!AssetRoot,
                                  Images!owning_workspace, Images!Place
  <2>4. UNCHANGED s3 /\ Images!Grant(asked, w.scene)
    BY <1>1, <2>1, <2>2 DEF Images!Open
  <2>5. d = e => s = [scene |-> w.scene, canvas |-> None, origin |-> w.root, from |-> d, asked |-> asked]
    BY <1>0, <1>1, <2>1, <2>2 DEF Images!Open, Images!Show, Images!ImageTypeOK
  <2>6. d # e => s = s7[d]
    BY <1>0, <1>1 DEF Images!Open, Images!Show, Images!ImageTypeOK
  <2>7. w.root \in Images!Place
    BY <2>3 DEF Images!Written
  <2> QED
    BY <1>0, <2>3, <2>4, <2>5, <2>6, <2>7, OpensGranted
<1>2. ASSUME NEW e \in Drawing, Images!Restored(e) PROVE \/ \E x \in Drawing : s = s7[x]
                                                         \/ Images!SessionStands(s)' /\ Images!Shows(s)
  <2>1. PICK w : w = s6[e]
    OBVIOUS
  <2>3. w \in Images!Written /\ Images!Stands(w.scene, w.root)
    BY <1>0, <1>2, <2>1 DEF Images!Restored, Images!ImagesStand, Images!ImageTypeOK
  <2>5. d = e => s = [scene |-> w.scene, canvas |-> None, origin |-> w.root, from |-> d, asked |-> None]
    BY <1>0, <1>2, <2>1 DEF Images!Restored, Images!Show, Images!ImageTypeOK
  <2>6. d # e => s = s7[d]
    BY <1>0, <1>2 DEF Images!Restored, Images!Show, Images!ImageTypeOK
  <2>7. w.root \in Images!Place /\ UNCHANGED s3
    BY <1>2, <2>3 DEF Images!Written, Images!Restored
  <2> QED
    BY <1>0, <2>3, <2>5, <2>6, <2>7 DEF Images!SessionStands, Images!Shows, Images!Stands
<1>3. ASSUME NEW e \in Drawing, Images!Resolve(e) PROVE \/ \E x \in Drawing : s = s7[x]
                                                        \/ Images!SessionStands(s)' /\ Images!Shows(s)
  <2>1. PICK o : o = s7[e]
    OBVIOUS
  <2>2. PICK root : root = Images!ShownRoot(e)
    OBVIOUS
  <2>3. o \in Images!Shown /\ o.canvas = None /\ Images!SessionStands(o)
    BY <1>3, <2>1 DEF Images!Resolve, Images!ImageInv, Images!ImageTypeOK
  <2> DEFINE c == Images!Resolved(o.scene, root)
  <2>4. /\ \A i \in Image : c[i] = "ref" => o.scene[i] = "ref" /\ ~Images!Readable(root, i)
        /\ c # None
    <3>1. c \in Images!Scene
      BY <2>3 DEF Images!Resolved, Images!Shown, Images!Scene, Images!Form
    <3> QED
      BY <3>1 DEF Images!Resolved, Images!Refers
  <2> HIDE DEF c
  <2>5. d = e => s = [o EXCEPT !.canvas = c, !.from = root]
    BY <1>0, <1>3, <2>1, <2>2 DEF Images!Resolve, Images!ImageTypeOK, c
  <2>6. d # e => s = s7[d]
    BY <1>0, <1>3 DEF Images!Resolve, Images!ImageTypeOK
  <2>7. UNCHANGED s3
    BY <1>3 DEF Images!Resolve
  <2>8. ASSUME d = e PROVE /\ s.scene = o.scene /\ s.origin = o.origin /\ s.asked = o.asked
                           /\ s.canvas = c /\ s.from = root
    BY <2>3, <2>5, <2>8 DEF Images!Shown
  <2>9. ASSUME d = e PROVE Images!SessionStands(s)'
    BY <2>3, <2>4, <2>7, <2>8, <2>9 DEF Images!SessionStands, Images!Stands
  <2>10. ASSUME d = e, s.from = s.origin, s.origin \in AtHome \/ s.asked = s.origin,
                NEW i \in Image, s.canvas[i] = "ref"
         PROVE  FALSE
    BY <2>3, <2>4, <2>8, <2>10 DEF Images!SessionStands, Images!Stands, Images!Readable
  <2> QED
    BY <2>6, <2>9, <2>10 DEF Images!Shows
<1>4. ASSUME NEW e \in Drawing, Images!Edit(e) PROVE \/ \E x \in Drawing : s = s7[x]
                                                     \/ Images!SessionStands(s)' /\ Images!Shows(s)
  <2>1. PICK o : o = s7[e]
    OBVIOUS
  <2>2. o \in Images!Shown /\ o.canvas # None /\ Images!SessionStands(o) /\ Images!Shows(o)
    BY <1>4, <2>1 DEF Images!Edit, Images!ImageInv, Images!ImageTypeOK, Images!ImagesAreShown
  <2>3. PICK c : /\ s7' = [s7 EXCEPT ![e].canvas = c, ![e].scene = c]
                 /\ \A i \in Image : c[i] \in {"bytes", o.canvas[i]}
                 /\ c # None
    <3>1. PICK added \in SUBSET Image :
            LET c == [i \in Image |-> IF i \in added THEN "bytes" ELSE s7[e].canvas[i]]
            IN s7' = [s7 EXCEPT ![e].canvas = c, ![e].scene = c]
      BY <1>4 DEF Images!Edit
    <3> DEFINE c == [i \in Image |-> IF i \in added THEN "bytes" ELSE s7[e].canvas[i]]
    <3>2. s7[e].canvas \in [Image -> Images!Form]
      BY <2>1, <2>2 DEF Images!Shown, Images!Scene
    <3>3. c \in Images!Scene
      BY <3>2 DEF Images!Scene, Images!Form
    <3>4. \A i \in Image : c[i] \in {"bytes", o.canvas[i]}
      BY <2>1
    <3>5. s7' = [s7 EXCEPT ![e].canvas = c, ![e].scene = c]
      BY <3>1
    <3> HIDE DEF c
    <3> QED
      BY <3>3, <3>4, <3>5
  <2>4. d = e => s = [o EXCEPT !.canvas = c, !.scene = c]
    BY <1>0, <2>1, <2>3 DEF Images!ImageTypeOK
  <2>5. d # e => s = s7[d]
    BY <1>0, <2>3 DEF Images!ImageTypeOK
  <2>6. UNCHANGED s3
    BY <1>4 DEF Images!Edit
  <2>7. ASSUME d = e PROVE /\ s.scene = c /\ s.origin = o.origin /\ s.asked = o.asked
                           /\ s.canvas = c /\ s.from = o.from
    BY <2>2, <2>4, <2>7 DEF Images!Shown
  <2>8. ASSUME d = e PROVE Images!SessionStands(s)' /\ Images!Shows(s)
    BY <2>2, <2>3, <2>6, <2>7, <2>8 DEF Images!SessionStands, Images!Stands, Images!Shows
  <2> QED
    BY <2>5, <2>8
<1>5. ASSUME Images!WriteVersion PROVE \/ \E x \in Drawing : s = s7[x]
                                       \/ Images!SessionStands(s)' /\ Images!Shows(s)
  <2>1. PICK t : t = s9
    OBVIOUS
  <2>2. t # None /\ t.step = "write" /\ t.kind = "restore" /\ UNCHANGED s3
    BY <1>5, <2>1 DEF Images!WriteVersion, Images!At
  <2>3. /\ t \in Images!Task /\ t.root \in Images!Place /\ t.of \in Drawing
        /\ Images!Record(t) = [scene |-> Images!References(t), root |-> t.root]
        /\ Images!Stands(Images!References(t), t.root)'
    BY <2>1, <2>2, RecordStands DEF Images!Stores, Images!Task
  <2>4. d = t.of => s = [scene |-> Images!References(t), canvas |-> None, origin |-> t.root,
                         from |-> d, asked |-> t.root]
    BY <1>0, <1>5, <2>1, <2>3 DEF Images!WriteVersion, Images!Show, Images!ImageTypeOK
  <2>5. d # t.of => s = s7[d]
    BY <1>0, <1>5, <2>1 DEF Images!WriteVersion, Images!Show, Images!ImageTypeOK
  <2>6. Images!Grant(t.root, Images!References(t))
    BY <1>5, <2>1 DEF Images!WriteVersion
  <2>7. Images!Stands(Images!References(t), t.root)
    BY <2>2, <2>3 DEF Images!Stands
  <2> QED
    BY <1>0, <2>2, <2>3, <2>4, <2>5, <2>6, <2>7, OpensGranted
<1>6. ASSUME Images!WriteFile \/ Images!WriteElsewhere \/ Images!Crash \/ \E e \in Drawing : Images!Close(e)
      PROVE  \E x \in Drawing : s = s7[x]
  BY <1>0, <1>6 DEF Images!WriteFile, Images!WriteElsewhere, Images!Crash, Images!Close, Images!At,
     Images!ImageTypeOK, Images!Task
<1>7. ASSUME UNCHANGED s7 PROVE \E x \in Drawing : s = s7[x]
  BY <1>7
<1> QED
  BY <1>1, <1>2, <1>3, <1>4, <1>5, <1>6, <1>7
     DEF Images!ImageNext, Images!Claim, Images!Mount, Images!Save, Images!SaveOrphanedAs,
         Images!SaveElsewhere, Images!RestoreVersion, Images!StoreImages, Images!StoreFails,
         Images!Refuse, Images!WriteFails, Images!WriteDraft, Images!Publish, Images!Foreign, Images!Remove

LEMMA ImagesGrow ==
  ASSUME Images!ImageTypeOK, Images!ImageNext
  PROVE  /\ \A p \in Images!Place : s3[p] \subseteq s3'[p]
         /\ s4 \subseteq s4' \/ \A d \in Drawing : s7'[d] = None
<1>1. \A p \in Images!Place : s3[p] \subseteq s3'[p]
  <2>1. CASE Images!StoreImages \/ Images!StoreFails
    BY <2>1 DEF Images!StoreImages, Images!StoreFails, Images!ImageTypeOK
  <2>2. CASE UNCHANGED s3
    BY <2>2
  <2> QED
    BY <2>1, <2>2
       DEF Images!ImageNext, Images!Claim, Images!Mount, Images!Open, Images!Restored, Images!Resolve,
           Images!Edit, Images!Close, Images!Save, Images!SaveOrphanedAs, Images!SaveElsewhere,
           Images!RestoreVersion, Images!Refuse, Images!WriteFails, Images!WriteDraft,
           Images!WriteFile, Images!WriteElsewhere, Images!WriteVersion, Images!Publish,
           Images!Foreign, Images!Remove, Images!Crash
<1>2. CASE Images!Crash
  BY <1>1, <1>2 DEF Images!Crash
<1>3. CASE s4 \subseteq s4'
  BY <1>1, <1>3
<1>4. ASSUME NEW d \in Drawing, Images!Open(d) PROVE s4 \subseteq s4'
  BY <1>4 DEF Images!Open, Images!Grant
<1>5. ASSUME Images!WriteVersion PROVE s4 \subseteq s4'
  BY <1>5 DEF Images!WriteVersion, Images!Grant
<1> QED
  BY <1>1, <1>2, <1>3, <1>4, <1>5
       DEF Images!ImageNext, Images!Claim, Images!Mount, Images!Restored, Images!Resolve,
           Images!Edit, Images!Close, Images!Save, Images!SaveOrphanedAs, Images!SaveElsewhere,
           Images!RestoreVersion, Images!StoreImages, Images!StoreFails, Images!Refuse,
           Images!WriteFails, Images!WriteDraft,
           Images!WriteFile, Images!WriteElsewhere, Images!Publish,
           Images!Foreign, Images!Remove

\* A command begins with references into the store it works with, or none.
LEMMA ImagesWorked ==
  ASSUME Images!ImageInv, Images!ImageTypeOK', Images!ImageNext, s9' # None
  PROVE  Images!WorkStands'
<1>0. Images!ImageTypeOK /\ \A p \in Images!Place : s3[p] \subseteq s3'[p]
  BY ImagesGrow DEF Images!ImageInv
<1>1. PICK t : t = s9'
  OBVIOUS
<1>2. t # None /\ t \in Images!Task
  BY <1>1 DEF Images!ImageTypeOK
<1>3. ASSUME NEW kind, NEW d, NEW to, NEW scene \in Images!Scene, NEW origin, Images!Begin(kind, d, to, scene, origin),
             \A i \in Image : scene[i] = "ref" => i \in s3[origin]
      PROVE  Images!WorkStands'
  <2>1. /\ t.step = "store"
        /\ \A i \in Image : t.scene[i] = "ref" => t.root = origin /\ scene[i] = "ref"
    BY <1>1, <1>3 DEF Images!Begin
  <2>2. \A i \in Image : t.scene[i] = "ref" => i \in s3'[t.root]
    BY <1>0, <1>2, <1>3, <2>1 DEF Images!Task
  <2> QED
    BY <1>1, <2>1, <2>2 DEF Images!WorkStands, Images!Stands
<1>4. ASSUME NEW d \in Drawing, Images!Save(d) \/ \E to \in Drawing : Images!SaveOrphanedAs(d, to)
      PROVE  Images!WorkStands'
  <2>1. s7[d] # None
    BY <1>4 DEF Images!Save, Images!SaveOrphanedAs
  <2>2. s7[d].scene \in Images!Scene /\ \A i \in Image : s7[d].scene[i] = "ref" => i \in s3[s7[d].origin]
    BY <2>1 DEF Images!ImageInv, Images!ImageTypeOK, Images!SessionStands, Images!Stands, Images!Shown
  <2> QED
    BY <1>3, <1>4, <2>2 DEF Images!Save, Images!SaveOrphanedAs
<1>5. ASSUME NEW d \in Drawing, Images!RestoreVersion(d) \/ \E to \in Drawing : Images!SaveElsewhere(d, to)
      PROVE  Images!WorkStands'
  <2>1. \A x : /\ Images!Held(x, "bytes") \in Images!Scene
               /\ \A i \in Image : Images!Held(x, "bytes")[i] # "ref"
    BY DEF Images!Held, Images!Scene, Images!Form
  <2> QED
    BY <1>3, <1>5, <2>1 DEF Images!RestoreVersion, Images!SaveElsewhere
<1>6. CASE Images!StoreImages \/ Images!WriteFile
  <2>1. PICK o : o = s9
    OBVIOUS
  <2>2. /\ o # None /\ o \in Images!Task /\ Images!WorkStands
        /\ t = [o EXCEPT !.step = IF Images!StoreImages THEN "write" ELSE "publish"]
        /\ Images!Stores(o) /\ Images!StoreImages => s3' = [s3 EXCEPT ![o.root] = @ \cup Images!Fresh(o)]
        /\ ~Images!StoreImages => o.step = "write" /\ UNCHANGED s3
    BY <1>0, <1>1, <1>6, <2>1
       DEF Images!StoreImages, Images!WriteFile, Images!Goto, Images!At, Images!ImageInv, Images!ImageTypeOK
  <2>3. /\ t.scene = o.scene /\ t.root = o.root /\ t.kind = o.kind /\ o.root \in Images!Place
        /\ Images!Fresh(t) = Images!Fresh(o) /\ (Images!Stores(t) <=> Images!Stores(o))
    BY <2>2 DEF Images!Task, Images!Fresh, Images!Bytes, Images!Stores
  <2>4. Images!Stands(t.scene, t.root)'
    BY <1>0, <2>1, <2>2, <2>3 DEF Images!WorkStands, Images!Stands
  <2>5. Images!Stores(t) => Images!Fresh(t) \subseteq s3'[t.root]
    BY <1>0, <2>1, <2>2, <2>3 DEF Images!WorkStands, Images!ImageTypeOK
  <2> QED
    BY <1>1, <2>4, <2>5 DEF Images!WorkStands, Images!Stands
<1>7. CASE UNCHANGED s9
  <2>1. UNCHANGED s9 /\ s9 # None /\ Images!WorkStands /\ s9.root \in Images!Place
    BY <1>0, <1>7 DEF Images!ImageInv, Images!ImageTypeOK, Images!Task
  <2> QED
    BY <1>0, <2>1 DEF Images!WorkStands, Images!Stands, Images!Stores, Images!Fresh, Images!Bytes
<1> QED
  BY <1>4, <1>5, <1>6, <1>7
     DEF Images!ImageNext, Images!Claim, Images!Mount, Images!Open, Images!Restored, Images!Resolve,
         Images!Edit, Images!Close, Images!StoreFails, Images!Refuse, Images!WriteFails,
         Images!WriteDraft, Images!WriteElsewhere, Images!WriteVersion, Images!Publish,
         Images!Foreign, Images!Remove, Images!Crash

LEMMA ImagesKept ==
  ASSUME Images!ImageInv, Images!ImageNext
  PROVE  Images!ImageInv'
<1>1. Images!ImageTypeOK /\ Images!ImagesStand
  BY DEF Images!ImageInv
<1>2. Images!ImageTypeOK'
  BY <1>1, ImageTypes
<1>3. Images!ImagesStand'
  BY <1>1, ImagesGrow, ImagesWritten, WrittenStands
<1>4. Images!ImagesAreShown' /\ (\A d \in Drawing : s7[d] # None => Images!SessionStands(s7[d]))'
  BY <1>1, <1>2, ImagesGrow, ImagesShown, SessionsStand
<1>5. (s9 # None => Images!WorkStands)'
  BY <1>2, ImagesWorked
<1> QED
  BY <1>2, <1>3, <1>4, <1>5 DEF Images!ImageInv

LEMMA ImagesBegin == Images!ImageInit => Images!ImageInv
<1> SUFFICES ASSUME Images!ImageInit PROVE Images!ImageInv
  OBVIOUS
<1> USE ImagesAssumption DEF Images!ImageInit
<1>1. Images!Held({}, "ref") \in Images!Scene /\ \A i \in Image : Images!Held({}, "ref")[i] = "none"
  BY DEF Images!Held, Images!Scene, Images!Form
<1>2. Images!ImageTypeOK
  <2>1. \A d \in Drawing : s5[d] \in Images!Written
    BY <1>1 DEF Images!Written, Images!Place
  <2>2. s5 \in [Drawing -> Images!Written \cup {None}]
    BY <2>1
  <2>3. s3 \in [Images!Place -> SUBSET Image] /\ s4 \subseteq Images!Place \X Image
    OBVIOUS
  <2>4. s10 \in [edits : 0..MaxEdits, commands : 0..MaxCommands, events : 0..MaxEvents]
    OBVIOUS
  <2>5. /\ s6 \in [Drawing -> Images!Written \cup {None}]
        /\ s7 \in [Drawing -> Images!Shown \cup {None}]
        /\ s8 \in [Drawing -> (SUBSET Image) \cup {None}]
    OBVIOUS
  <2>6. s1 \in {None, "this", "another"} /\ s2 \in BOOLEAN /\ s9 \in Images!Task \cup {None}
    OBVIOUS
  <2> HIDE DEF Images!ImageInit
  <2> QED
    BY <2>2, <2>3, <2>4, <2>5, <2>6 DEF Images!ImageTypeOK
<1>3. Images!ImagesStand /\ Images!ImagesAreShown
  BY <1>1 DEF Images!ImagesStand, Images!Stands, Images!ImagesAreShown
<1> QED
  BY <1>2, <1>3 DEF Images!ImageInv

LEMMA ImagesStay == Images!ImageInv /\ UNCHANGED Images!imageVars => Images!ImageInv'
  BY DEF Images!ImageInv, Images!imageVars, Images!ImageTypeOK, Images!ImagesStand, Images!Stands,
         Images!ImagesAreShown, Images!Shows, Images!SessionStands, Images!Readable, Images!WorkStands,
         Images!Stores, Images!Fresh, Images!Bytes

LEMMA ImagesHold == StoresSpec => [](setting = "images" => Images!ImageInv)
<1> DEFINE Inv == setting = "images" => Images!ImageInv
<1>1. StoresInit => Inv
  BY ImagesBegin DEF StoresInit
<1>2. Inv /\ [StoresNext]_stores => Inv'
  <2> SUFFICES ASSUME Inv, [StoresNext]_stores, (setting = "images")' PROVE Images!ImageInv'
    OBVIOUS
  <2>1. setting = "images" /\ (Images!ImageNext \/ UNCHANGED Images!imageVars)
    BY DEF StoresNext, stores, all, from9, from11, from12, from14, from16, others, Images!imageVars
  <2> QED
    BY <2>1, ImagesKept, ImagesStay
<1> QED
  BY <1>1, <1>2, PTL DEF StoresSpec, stores

\* Images are stored before a reference to them is written (externalize_files):
\* what a drawing or a draft refers to is in the store it was written for,
\* through every save, save elsewhere, recovery, claim and release.  Nothing is
\* said of references read under one store and written under another: these
\* are stray, not "ref", and dangle.
THEOREM ImagesStandHolds == StoresSpec => []ImagesStand
<1>1. (setting = "images" => Images!ImageInv) => ImagesStand
  BY DEF Images!ImageInv, ImagesStand
<1> QED
  BY <1>1, ImagesHold, PTL

\* A drawing shows its images, if its window looks for them where they were
\* meant to be and that store is at home or is what opening it asked for.
THEOREM ImagesAreShownHolds == StoresSpec => []ImagesAreShown
<1>1. (setting = "images" => Images!ImageInv) => ImagesAreShown
  BY DEF Images!ImageInv, ImagesAreShown
<1> QED
  BY <1>1, ImagesHold, PTL

-----------------------------------------------------------------------------
(* The placement of windows. *)

LEMMA Rects ==
  ASSUME Placement!PlacementTypeOK
  PROVE  /\ s2 \in Placement!Rect /\ s2.width >= Grabbable /\ s1 \subseteq Placement!Rect
         /\ \A area \in Placement!Rect : Placement!initial_rect(area) \in Placement!Rect
         /\ \A r, area \in Placement!Rect : Placement!staggered_rect(r, area) \in Placement!Rect
         /\ \A r \in Placement!Rect : Placement!restored_rect(r) \in Placement!Rect
<1> USE PlacementAssumption
<1>1. s2 \in Placement!Rect /\ s2.width >= Grabbable /\ s1 \subseteq Placement!Rect
  BY DEF Placement!PlacementTypeOK
<1>2. \A i, j \in Int : Placement!Least(i, j) \in {i, j} /\ Placement!Most(i, j) \in {i, j}
                        /\ Placement!Most(i, j) >= i /\ Placement!Most(i, j) >= j
  BY DEF Placement!Least, Placement!Most
<1>3. \A n \in Nat, area \in Placement!Rect : Placement!centered_in(n, area) \in Placement!Rect
  BY DEF Placement!centered_in, Placement!Rect
<1>4. \A area \in Placement!Rect : Placement!initial_size(area) \in Nat
  BY DEF Placement!initial_size, Placement!Rect, Placement!Least, Placement!Most
<1>5. \A area \in Placement!Rect : Placement!initial_rect(area) \in Placement!Rect
  BY <1>3, <1>4 DEF Placement!initial_rect
<1>6. \A r, area \in Placement!Rect : Placement!staggered_rect(r, area) \in Placement!Rect
  BY <1>4 DEF Placement!staggered_rect, Placement!Rect, Placement!right
<1>7. ASSUME NEW r \in Placement!Rect PROVE Placement!restored_rect(r) \in Placement!Rect
  <2>1. r.width \in Nat /\ r.x \in Int /\ s2.width \in Nat
    BY <1>1 DEF Placement!Rect
  <2>2. /\ [r EXCEPT !.width = Placement!Most(@, MinWidth)] = [x |-> r.x, width |-> Placement!Most(r.width, MinWidth)]
        /\ Placement!Most(r.width, MinWidth) \in Nat
    BY <2>1 DEF Placement!Rect, Placement!Most
  <2>3. \A i \in Nat : Placement!Most(MinWidth, Placement!Least(i, s2.width)) \in Nat
    BY <2>1 DEF Placement!Most, Placement!Least
  <2> QED
    BY <1>1, <1>3, <2>1, <2>2, <2>3 DEF Placement!restored_rect, Placement!Rect
<1> QED
  BY <1>1, <1>5, <1>6, <1>7

\* Whatever is put in the middle of the primary display can be reached.
LEMMA MiddleIsReachable ==
  ASSUME Placement!PlacementTypeOK, NEW n \in Nat, n >= Grabbable
  PROVE  Placement!is_grabbable(Placement!centered_in(n, s2), s1)
<1>1. s2 \in s1 /\ s2.x \in Int /\ s2.width \in Nat /\ s2.width >= Grabbable /\ Grabbable \in Nat
  BY Rects, PlacementAssumption DEF Placement!PlacementTypeOK, Placement!Rect
<1> DEFINE x == s2.x + (s2.width - n) \div 2
<1>2. x \in Int /\ 2 * (x - s2.x) <= s2.width - n /\ s2.width - n <= 2 * (x - s2.x) + 1
  BY <1>1
<1>3. Placement!centered_in(n, s2) = [x |-> x, width |-> n]
  BY DEF Placement!centered_in
<1> HIDE DEF x
<1>4. Placement!Least(x + n, s2.x + s2.width) - Placement!Most(x, s2.x) >= Grabbable
  BY <1>1, <1>2 DEF Placement!Least, Placement!Most
<1> QED
  BY <1>1, <1>3, <1>4 DEF Placement!is_grabbable, Placement!right

LEMMA PlacesAreReachable ==
  ASSUME Placement!PlacementTypeOK
  PROVE  /\ Placement!is_grabbable(Placement!initial_rect(s2), s1)
         /\ \A r \in Placement!Rect : Placement!is_grabbable(Placement!restored_rect(r), s1)
<1> USE PlacementAssumption
<1>1. s2.width \in Nat
  BY Rects DEF Placement!Rect
<1>2. Placement!initial_size(s2) \in Nat /\ Placement!initial_size(s2) >= Grabbable
  BY <1>1 DEF Placement!initial_size, Placement!Least, Placement!Most
<1>3. \A i \in Nat : /\ Placement!Most(MinWidth, Placement!Least(i, s2.width)) \in Nat
                     /\ Placement!Most(MinWidth, Placement!Least(i, s2.width)) >= Grabbable
  BY <1>1 DEF Placement!Least, Placement!Most
<1>4. ASSUME NEW r \in Placement!Rect PROVE Placement!is_grabbable(Placement!restored_rect(r), s1)
  <2> DEFINE sized == [r EXCEPT !.width = Placement!Most(@, MinWidth)]
  <2>1. sized.width \in Nat
    BY DEF Placement!Rect, Placement!Most
  <2> HIDE DEF sized
  <2>2. Placement!restored_rect(r) =
          IF Placement!is_grabbable(sized, s1) THEN sized
          ELSE Placement!centered_in(Placement!Most(MinWidth, Placement!Least(sized.width, s2.width)), s2)
    BY DEF Placement!restored_rect, sized
  <2> QED
    BY <1>3, <2>1, <2>2, MiddleIsReachable
<1> QED
  BY <1>2, <1>4, MiddleIsReachable DEF Placement!initial_rect

LEMMA RecordTypes ==
  ASSUME Placement!PlacementTypeOK, Placement!WindowsFollow,
         NEW w \in Placement!Opened, Placement!Record(w)
  PROVE  /\ Placement!remembered_placement(w) \in Placement!Remembered
         /\ s6' = [s6 EXCEPT ![w] = Placement!remembered_placement(w).rect]
         /\ s6' \in [Window -> Placement!Rect \cup {None}]
         /\ s7' \in Placement!Placements /\ s12' \in Placement!Placements
         /\ s8' \in BOOLEAN /\ s13' \in SUBSET Placement!Opened
<1>1. /\ w \in Window /\ s3[w] \in Placement!Placed /\ s6[w] \in Placement!Rect
      /\ s3[w].workspace \in Workspace \cup {None}
  BY DEF Placement!Opened, Placement!PlacementTypeOK, Placement!WindowsFollow, Placement!Placed
<1>2. Placement!remembered_placement(w) \in Placement!Remembered
  BY <1>1 DEF Placement!remembered_placement, Placement!Placed, Placement!Remembered
<1>3. Placement!remembered_placement(w).rect \in Placement!Rect
  BY <1>2 DEF Placement!Remembered
<1>4. s6' = [s6 EXCEPT ![w] = Placement!remembered_placement(w).rect]
  BY DEF Placement!Record
<1>5. s6' \in [Window -> Placement!Rect \cup {None}]
  BY <1>1, <1>3, <1>4 DEF Placement!PlacementTypeOK
<1>6. CASE s3[w].workspace = None
  BY <1>2, <1>4, <1>5, <1>6 DEF Placement!Record, Placement!PlacementTypeOK
<1>7. CASE s3[w].workspace # None
  <2>1. /\ s7' = [s7 EXCEPT ![s3[w].workspace] = Placement!remembered_placement(w)]
        /\ s12' = [s12 EXCEPT ![s3[w].workspace] = Placement!remembered_placement(w)]
        /\ s8' = TRUE /\ s13' = s13 \cup {w}
    BY <1>7 DEF Placement!Record
  <2> QED
    BY <1>1, <1>2, <1>4, <1>5, <1>7, <2>1 DEF Placement!PlacementTypeOK, Placement!Placements
<1> QED
  BY <1>6, <1>7

LEMMA PlacementTypes ==
  ASSUME Placement!PlacementTypeOK, Placement!WindowsFollow, Placement!PlacementNext
  PROVE  Placement!PlacementTypeOK'
<1> USE PlacementAssumption
<1>1. ASSUME NEW w \in Window, Placement!Notice(w) PROVE Placement!PlacementTypeOK'
  BY <1>1, RecordTypes DEF Placement!Notice, Placement!PlacementTypeOK, Placement!Opened
<1>2. ASSUME NEW w \in Window, NEW plan \in Placement!Remembered, NEW a \in Workspace \cup {None},
             Placement!Build(w, plan, a), s14' \in {s14 \cup {w}, s14 \ {w}},
             \E c : Placement!Spend("changes", c)
      PROVE  Placement!PlacementTypeOK'
  <2>1. [rect |-> plan.rect, mode |-> plan.mode, workspace |-> a] \in Placement!Placed
        /\ plan.rect \in Placement!Rect
    BY <1>2 DEF Placement!Placed, Placement!Remembered
  <2>2. s3' \in [Window -> Placement!Placed \cup {None}] /\ s6' \in [Window -> Placement!Rect \cup {None}]
    BY <1>2, <2>1 DEF Placement!Build, Placement!PlacementTypeOK
  <2>3. Placement!Opened \subseteq Placement!Opened' /\ s5' \subseteq Placement!Opened' /\ s13' \subseteq Placement!Opened'
    BY <1>2, <2>1 DEF Placement!Build, Placement!PlacementTypeOK, Placement!Opened
  <2> QED
    BY <1>2, <2>2, <2>3 DEF Placement!Build, Placement!PlacementTypeOK, Placement!Spend
<1>3. \A r \in Placement!Rect : Placement!Plain(r) \in Placement!Remembered
  BY DEF Placement!Plain, Placement!Remembered, Placement!Mode
<1>4. \A a \in Workspace : s10[a] # None => Placement!remembered_plan(a) \in Placement!Remembered
  BY Rects DEF Placement!remembered_plan, Placement!Remembered, Placement!PlacementTypeOK, Placement!Placements
<1>5. ASSUME NEW w \in Window, Placement!Open(w) PROVE Placement!PlacementTypeOK'
  <2>1. \A front \in Placement!Opened : s3[front].rect \in Placement!Rect
    BY DEF Placement!Opened, Placement!PlacementTypeOK, Placement!Placed
  <2>2. \A r \in Placement!Rect : Placement!Monitors(r) \subseteq Placement!Rect
    BY Rects DEF Placement!Monitors
  <2>3. \E plan \in Placement!Remembered : Placement!Build(w, plan, None)
    BY <1>3, <1>5, <2>1, <2>2, Rects DEF Placement!Open
  <2> QED
    BY <1>2, <1>5, <2>3 DEF Placement!Open
<1>6. ASSUME NEW w \in Window, NEW a \in Workspace, Placement!OpenRestored(w, a) PROVE Placement!PlacementTypeOK'
  BY <1>2, <1>4, <1>6 DEF Placement!OpenRestored
<1>7. ASSUME NEW w \in Window, NEW a \in Workspace, Placement!Claim(w, a) PROVE Placement!PlacementTypeOK'
  <2>1. s3[w] \in Placement!Placed /\ [s3[w] EXCEPT !.workspace = a] \in Placement!Placed
    BY <1>7 DEF Placement!Claim, Placement!PlacementTypeOK, Placement!Opened, Placement!Placed
  <2>2. s3' \in [Window -> Placement!Placed \cup {None}] /\ Placement!Opened' = Placement!Opened
    BY <1>7, <2>1 DEF Placement!Claim, Placement!PlacementTypeOK, Placement!Opened
  <2> QED
    BY <1>7, <2>2 DEF Placement!Claim, Placement!PlacementTypeOK, Placement!trackerVars
<1>8. ASSUME NEW w \in Window, Placement!PlaceForWorkspace(w) PROVE Placement!PlacementTypeOK'
  <2>0. w \in Placement!Opened
    BY <1>8 DEF Placement!PlaceForWorkspace, Placement!PlacementTypeOK
  <2> DEFINE a == s3[w].workspace
  <2>1. CASE s10[a] = None
    <3>1. Placement!Record(w) /\ UNCHANGED <<s3, s4, s14>>
      BY <1>8, <2>1 DEF Placement!PlaceForWorkspace
    <3> QED
      BY <1>8, <2>0, <3>1, RecordTypes DEF Placement!PlaceForWorkspace, Placement!PlacementTypeOK, Placement!Opened
  <2>2. CASE s10[a] # None
    <3>0. a \in Workspace /\ s3[w] \in Placement!Placed
      BY <1>8, <2>0 DEF Placement!PlaceForWorkspace, Placement!WindowsFollow, Placement!PlacementTypeOK,
                        Placement!Opened, Placement!Placed
    <3>1. PICK plan \in Placement!Remembered : plan = Placement!remembered_plan(a)
      BY <1>4, <2>2, <3>0
    <3>2. /\ s6' = [s6 EXCEPT ![w] = plan.rect]
          /\ s3' = [s3 EXCEPT ![w].rect = plan.rect, ![w].mode = plan.mode]
          /\ s4' = [s4 EXCEPT ![w] = @ /\ s3' = s3 /\ s6' = s6]
          /\ s14' = s14 \cup {w} /\ UNCHANGED <<s7, s8, s12, s13>>
      BY <1>8, <2>2, <3>1 DEF Placement!PlaceForWorkspace
    <3>3. [s3[w] EXCEPT !.rect = plan.rect, !.mode = plan.mode] \in Placement!Placed /\ plan.rect \in Placement!Rect
      BY <3>0 DEF Placement!Placed, Placement!Remembered
    <3>4. s3' \in [Window -> Placement!Placed \cup {None}] /\ Placement!Opened' = Placement!Opened
      BY <2>0, <3>2, <3>3 DEF Placement!PlacementTypeOK, Placement!Opened
    <3>5. s4' \in [Window -> BOOLEAN]
      <4>1. s4[w] \in BOOLEAN /\ s4 \in [Window -> BOOLEAN]
        BY <1>8 DEF Placement!PlacementTypeOK
      <4>2. (s4[w] /\ s3' = s3 /\ s6' = s6) \in BOOLEAN
        OBVIOUS
      <4> QED
        BY <3>2, <4>1, <4>2
    <3> QED
      BY <1>8, <3>2, <3>3, <3>4, <3>5 DEF Placement!PlaceForWorkspace, Placement!PlacementTypeOK
  <2> QED
    BY <2>1, <2>2
<1>9. ASSUME NEW w \in Window, Placement!Change(w) PROVE Placement!PlacementTypeOK'
  <2>1. s3[w] \in Placement!Placed /\ w \in Placement!Opened
    BY <1>9 DEF Placement!Change, Placement!PlacementTypeOK, Placement!Opened
  <2>2. \E x \in Placement!Placed : s3' = [s3 EXCEPT ![w] = x]
    <3>1. \A r \in Spot : [s3[w] EXCEPT !.rect = r] \in Placement!Placed
      BY <2>1 DEF Placement!Placed
    <3>2. \A m \in Placement!Mode : [s3[w] EXCEPT !.mode = m] \in Placement!Placed
      BY <2>1 DEF Placement!Placed
    <3> QED
      BY <1>9, <3>1, <3>2 DEF Placement!Change
  <2>3. s3' \in [Window -> Placement!Placed \cup {None}] /\ Placement!Opened' = Placement!Opened
    BY <2>1, <2>2 DEF Placement!PlacementTypeOK, Placement!Opened
  <2> QED
    BY <1>9, <2>3 DEF Placement!Change, Placement!PlacementTypeOK, Placement!Spend, Placement!trackerVars
<1>10. ASSUME NEW w \in Window, Placement!Close(w) PROVE Placement!PlacementTypeOK'
  BY <1>10 DEF Placement!Close, Placement!PlacementTypeOK, Placement!Opened
<1>11. ASSUME NEW i \in 1..3, NEW a \in Workspace, Placement!WriteOne(i, a) PROVE Placement!PlacementTypeOK'
  BY <1>11 DEF Placement!WriteOne, Placement!PlacementTypeOK, Placement!Opened, Placement!Spend,
               Placement!Placements, Placement!trackerVars
<1>12. Placement!Idle \in Placement!Placements
  BY DEF Placement!Idle, Placement!Placements
<1>13. ASSUME NEW i \in 1..3, Placement!Drain(i)
       PROVE  s9' \in [1..3 -> Placement!Placements] /\ s7' \in Placement!Placements /\ s15' \subseteq Workspace
  BY <1>12, <1>13 DEF Placement!Drain, Placement!PlacementTypeOK, Placement!Overtaken
<1>14. CASE Placement!DelayElapses
  <2>1. PICK i \in 1..3 : Placement!Drain(i)
    BY <1>14 DEF Placement!DelayElapses
  <2> QED
    BY <1>13, <1>14, <2>1 DEF Placement!DelayElapses, Placement!PlacementTypeOK, Placement!Opened
<1>15. CASE Placement!Exit
  BY <1>13, <1>15 DEF Placement!Exit, Placement!PlacementTypeOK, Placement!Opened, Placement!Spend
<1>16. CASE Placement!ChangeDisplays
  BY <1>16 DEF Placement!ChangeDisplays, Placement!PlacementTypeOK, Placement!Opened, Placement!Spend, Placement!trackerVars
<1>17. CASE Placement!Gone
  BY <1>12, <1>17 DEF Placement!Gone, Placement!PlacementTypeOK, Placement!Opened
<1>18. CASE Placement!Launch
  BY <1>18 DEF Placement!Launch, Placement!PlacementTypeOK, Placement!Opened, Placement!trackerVars, Placement!historyVars
<1> QED
  BY <1>1, <1>5, <1>6, <1>7, <1>8, <1>9, <1>10, <1>11, <1>14, <1>15, <1>16, <1>17, <1>18
     DEF Placement!PlacementNext

\* A window is recorded as it is, and nothing else is.
LEMMA RecordKeeps ==
  ASSUME Placement!PlacementTypeOK, Placement!WindowsFollow,
         NEW w \in Placement!Opened, Placement!Record(w), UNCHANGED s3
  PROVE  /\ \A v \in Placement!Opened : s6'[v] # None
         /\ \A v \in s13' : s3[v].workspace # None
         /\ \A v \in s13' \ {w} : v \in s13 /\ s6'[v] = s6[v] /\ s12'[s3[v].workspace] = s12[s3[v].workspace]
         /\ w \in s13' => s12'[s3[w].workspace] = Placement!remembered_placement(w)'
<1>1. PICK p : p = Placement!remembered_placement(w)
  OBVIOUS
<1>2. PICK a : a = s3[w].workspace
  OBVIOUS
<1>3. /\ w \in Window /\ s6 \in [Window -> Placement!Rect \cup {None}] /\ p \in Placement!Remembered
      /\ s6' = [s6 EXCEPT ![w] = p.rect] /\ p.rect # None /\ Placement!Opened \subseteq Window
      /\ s12 \in [Workspace -> Placement!Remembered \cup {None}] /\ a \in Workspace \cup {None}
  BY <1>1, <1>2, RecordTypes, PlacementAssumption
     DEF Placement!Opened, Placement!PlacementTypeOK, Placement!Placements, Placement!Remembered, Placement!Placed
<1>4. Placement!remembered_placement(w)' = p
  <2>1. p = [rect |-> IF s3[w].mode = "normal" THEN s3[w].rect ELSE s6[w], mode |-> s3[w].mode]
    BY <1>1 DEF Placement!remembered_placement
  <2>2. Placement!remembered_placement(w)' =
          [rect |-> IF s3[w].mode = "normal" THEN s3[w].rect ELSE s6'[w], mode |-> s3[w].mode]
    BY DEF Placement!remembered_placement
  <2>3. s6'[w] = p.rect
    BY <1>3
  <2> QED
    BY <2>1, <2>2, <2>3
<1>5. CASE a = None
  BY <1>2, <1>3, <1>4, <1>5 DEF Placement!Record, Placement!WindowsFollow, Placement!PlacementTypeOK
<1>6. CASE a # None
  <2>1. s12' = [s12 EXCEPT ![a] = p] /\ s13' = s13 \cup {w}
    BY <1>1, <1>2, <1>6 DEF Placement!Record
  <2>2. \A v \in s13 : v \in Placement!Opened /\ s3[v].workspace # None /\ (s3[v].workspace = a => v = w)
    BY <1>2, <1>6 DEF Placement!WindowsFollow, Placement!PlacementTypeOK
  <2> QED
    BY <1>2, <1>3, <1>4, <1>6, <2>1, <2>2 DEF Placement!WindowsFollow
<1> QED
  BY <1>5, <1>6

WindowsInv ==
  Placement!WindowsFollow /\ Placement!HeardAreLast /\ Placement!WindowsComeBackReachable

LEMMA BuildKeeps ==
  ASSUME Placement!PlacementTypeOK, WindowsInv,
         NEW w \in Window, w \notin Placement!Opened,
         NEW plan \in Placement!Remembered, NEW a \in Workspace \cup {None}, Placement!Build(w, plan, a),
         a = None \/ Placement!Holder(a) = {},
         s14' \subseteq s14 \cup {w}, w \in s14' => Placement!is_grabbable(plan.rect, s1)
  PROVE  WindowsInv'
<1> USE PlacementAssumption DEF WindowsInv
<1> DEFINE c == [rect |-> plan.rect, mode |-> plan.mode, workspace |-> a]
<1>1. c \in Placement!Placed /\ c # None /\ c.workspace = a /\ c.rect = plan.rect /\ plan.rect # None
  BY DEF Placement!Placed, Placement!Remembered
<1>2. /\ s3' = [s3 EXCEPT ![w] = c] /\ s6' = [s6 EXCEPT ![w] = plan.rect]
      /\ s4' = [s4 EXCEPT ![w] = TRUE] /\ s13' = s13 \ {w}
      /\ UNCHANGED <<s1, s5, s12>>
  BY DEF Placement!Build
<1> HIDE DEF c
<1>3. /\ s3'[w] = c /\ s6'[w] = plan.rect
      /\ \A v \in Window \ {w} : s3'[v] = s3[v] /\ s6'[v] = s6[v] /\ s4'[v] = s4[v]
      /\ Placement!Opened' = Placement!Opened \cup {w}
      /\ s5 \subseteq Placement!Opened /\ s13 \subseteq Placement!Opened /\ Placement!Opened \subseteq Window
  BY <1>1, <1>2 DEF Placement!PlacementTypeOK, Placement!Opened
<1>4. \A v \in Placement!Opened : a # None => s3[v].workspace # a
  BY DEF Placement!Holder
<1>5. Placement!WindowsFollow'
  BY <1>1, <1>2, <1>3, <1>4 DEF Placement!WindowsFollow
<1>6. Placement!HeardAreLast'
  BY <1>2, <1>3 DEF Placement!HeardAreLast, Placement!remembered_placement
<1>7. Placement!WindowsComeBackReachable'
  BY <1>1, <1>2, <1>3 DEF Placement!WindowsComeBackReachable, Placement!is_grabbable
<1> QED
  BY <1>5, <1>6, <1>7

LEMMA PlansAreReachable ==
  ASSUME Placement!PlacementTypeOK, NEW a \in Workspace, s10[a] # None
  PROVE  /\ Placement!remembered_plan(a) \in Placement!Remembered
         /\ Placement!is_grabbable(Placement!remembered_plan(a).rect, s1)
BY Rects, PlacesAreReachable DEF Placement!remembered_plan, Placement!Remembered, Placement!PlacementTypeOK, Placement!Placements

LEMMA WindowsKept ==
  ASSUME Placement!PlacementTypeOK, WindowsInv, Placement!PlacementNext
  PROVE  WindowsInv'
<1> USE PlacementAssumption
<1>0. /\ Placement!Opened \subseteq Window /\ s5 \subseteq Placement!Opened /\ s13 \subseteq Placement!Opened
      /\ \A w \in Placement!Opened : s3[w] \in Placement!Placed
      /\ s3 \in [Window -> Placement!Placed \cup {None}] /\ s4 \in [Window -> BOOLEAN]
      /\ s6 \in [Window -> Placement!Rect \cup {None}]
  BY DEF Placement!PlacementTypeOK, Placement!Opened
<1>1. ASSUME NEW w \in Placement!Opened, Placement!Record(w), UNCHANGED <<s1, s3, s14>>,
             s5' \in {s5, s5 \ {w}}, s4' \in {s4, [s4 EXCEPT ![w] = TRUE]}
      PROVE  WindowsInv'
  <2>1. Placement!Opened' = Placement!Opened
    BY <1>1 DEF Placement!Opened
  <2>2. Placement!WindowsFollow'
    BY <1>1, <2>1, RecordKeeps DEF WindowsInv, Placement!WindowsFollow
  <2>3. Placement!HeardAreLast'
    <3> SUFFICES ASSUME NEW v \in s13', s4'[v] PROVE s12'[s3[v].workspace] = Placement!remembered_placement(v)'
      BY <1>1 DEF Placement!HeardAreLast
    <3>1. CASE v = w
      BY <1>1, <3>1, RecordKeeps DEF WindowsInv
    <3>2. CASE v # w
      <4>1. v \in s13 /\ s6'[v] = s6[v] /\ s12'[s3[v].workspace] = s12[s3[v].workspace]
        BY <1>1, <3>2, RecordKeeps DEF WindowsInv
      <4>2. s4[v]
        BY <1>0, <1>1, <3>2, <4>1
      <4> QED
        BY <1>1, <4>1, <4>2 DEF WindowsInv, Placement!HeardAreLast, Placement!remembered_placement
    <3> QED
      BY <3>1, <3>2
  <2>4. Placement!WindowsComeBackReachable'
    BY <1>1, <2>1 DEF WindowsInv, Placement!WindowsComeBackReachable, Placement!is_grabbable
  <2> QED
    BY <2>2, <2>3, <2>4 DEF WindowsInv
<1>2. ASSUME NEW w \in Window, Placement!Notice(w) PROVE WindowsInv'
  BY <1>1, <1>2 DEF Placement!Notice
<1>3. ASSUME NEW w \in Window, Placement!Open(w) PROVE WindowsInv'
  <2>1. \A r \in Placement!Rect : Placement!Plain(r) \in Placement!Remembered /\ Placement!Plain(r).rect = r
    BY DEF Placement!Plain, Placement!Remembered, Placement!Mode
  <2>2. CASE Placement!Build(w, Placement!Plain(Placement!initial_rect(s2)), None) /\ s14' = s14 \cup {w}
    <3>1. Placement!initial_rect(s2) \in Placement!Rect
      BY Rects
    <3> QED
      BY <1>3, <2>1, <2>2, <3>1, PlacesAreReachable, BuildKeeps DEF Placement!Open
  <2>3. CASE /\ \E front \in Placement!Opened : \E area \in Placement!Monitors(s3[front].rect) :
                  Placement!Build(w, Placement!Plain(Placement!staggered_rect(s3[front].rect, area)), None)
             /\ s14' = s14 \ {w}
    <3>0. PICK front \in Placement!Opened : \E area \in Placement!Monitors(s3[front].rect) :
               Placement!Build(w, Placement!Plain(Placement!staggered_rect(s3[front].rect, area)), None)
      BY <2>3
    <3>1. PICK area \in Placement!Monitors(s3[front].rect) :
               Placement!Build(w, Placement!Plain(Placement!staggered_rect(s3[front].rect, area)), None)
      BY <3>0
    <3>2. s3[front].rect \in Placement!Rect /\ area \in Placement!Rect
      BY <1>0, Rects DEF Placement!Placed, Placement!Monitors
    <3> QED
      BY <1>3, <2>1, <2>3, <3>1, <3>2, Rects, BuildKeeps DEF Placement!Open
  <2> QED
    BY <1>3, <2>2, <2>3 DEF Placement!Open
<1>4. ASSUME NEW w \in Window, NEW a \in Workspace, Placement!OpenRestored(w, a) PROVE WindowsInv'
  BY <1>4, PlansAreReachable, BuildKeeps DEF Placement!OpenRestored
<1>5. ASSUME NEW w \in Window, NEW a \in Workspace, Placement!Claim(w, a) PROVE WindowsInv'
  <2> DEFINE c == [s3[w] EXCEPT !.workspace = a]
  <2>1. c \in Placement!Placed /\ c.workspace = a /\ c.rect = s3[w].rect /\ c # None
    BY <1>0, <1>5 DEF Placement!Claim, Placement!Placed
  <2>2. s3' = [s3 EXCEPT ![w] = c] /\ s5' = s5 \cup {w} /\ s13' = s13 \ {w} /\ UNCHANGED <<s1, s4, s6, s12, s14>>
    BY <1>5 DEF Placement!Claim, Placement!trackerVars
  <2> HIDE DEF c
  <2>3. /\ s3'[w] = c /\ w \in Placement!Opened /\ Placement!Opened' = Placement!Opened
        /\ \A v \in Window \ {w} : s3'[v] = s3[v]
    BY <1>0, <1>5, <2>1, <2>2 DEF Placement!Claim, Placement!Opened
  <2>4. \A v \in Placement!Opened : s3[v].workspace # a
    BY <1>5 DEF Placement!Claim, Placement!Holder
  <2>5. Placement!WindowsFollow'
    BY <1>0, <2>1, <2>2, <2>3, <2>4 DEF WindowsInv, Placement!WindowsFollow
  <2>6. Placement!HeardAreLast'
    BY <1>0, <2>2, <2>3 DEF WindowsInv, Placement!HeardAreLast, Placement!remembered_placement
  <2>7. Placement!WindowsComeBackReachable'
    BY <1>0, <2>1, <2>2, <2>3 DEF WindowsInv, Placement!WindowsComeBackReachable, Placement!is_grabbable
  <2> QED
    BY <2>5, <2>6, <2>7 DEF WindowsInv
<1>6. ASSUME NEW w \in Window, Placement!PlaceForWorkspace(w) PROVE WindowsInv'
  <2>0. w \in Placement!Opened /\ s5' = s5 \ {w} /\ UNCHANGED s1
    BY <1>0, <1>6 DEF Placement!PlaceForWorkspace
  <2>1. PICK a : a = s3[w].workspace
    OBVIOUS
  <2>2. CASE s10[a] = None
    BY <1>1, <1>6, <2>0, <2>1, <2>2 DEF Placement!PlaceForWorkspace
  <2>3. CASE s10[a] # None
    <3>1. a \in Workspace /\ s3[w] \in Placement!Placed
      BY <1>0, <1>6, <2>0, <2>1 DEF Placement!PlaceForWorkspace, WindowsInv, Placement!WindowsFollow, Placement!Placed
    <3>2. PICK plan \in Placement!Remembered :
               plan = Placement!remembered_plan(a) /\ Placement!is_grabbable(plan.rect, s1)
      BY <2>3, <3>1, PlansAreReachable
    <3>3. /\ s6' = [s6 EXCEPT ![w] = plan.rect]
          /\ s3' = [s3 EXCEPT ![w].rect = plan.rect, ![w].mode = plan.mode]
          /\ s4' = [s4 EXCEPT ![w] = @ /\ s3' = s3 /\ s6' = s6]
          /\ s14' = s14 \cup {w} /\ UNCHANGED <<s12, s13>>
      BY <1>6, <2>1, <2>3, <3>2 DEF Placement!PlaceForWorkspace
    <3> DEFINE c == [s3[w] EXCEPT !.rect = plan.rect, !.mode = plan.mode]
    <3>4. c \in Placement!Placed /\ c.workspace = s3[w].workspace /\ c.rect = plan.rect /\ c # None
          /\ plan.rect \in Placement!Rect
      BY <3>1 DEF Placement!Placed, Placement!Remembered
    <3>5. s3'[w] = c /\ \A v \in Window \ {w} : s3'[v] = s3[v]
      BY <1>0, <2>0, <3>3
    <3> HIDE DEF c
    <3>6. /\ Placement!Opened' = Placement!Opened
          /\ s6'[w] = plan.rect /\ \A v \in Window \ {w} : s6'[v] = s6[v] /\ s4'[v] = s4[v]
      <4>1. s6'[w] = plan.rect /\ \A v \in Window \ {w} : s6'[v] = s6[v]
        BY <1>0, <2>0, <3>3
      <4>2. \A v \in Window \ {w} : s4'[v] = s4[v]
        BY <1>0, <2>0, <3>3
      <4>3. w \in Window /\ s3[w] # None /\ s3'[w] # None
        BY <2>0, <3>4, <3>5 DEF Placement!Opened
      <4>4. Placement!Opened' = Placement!Opened
        BY <3>5, <4>3 DEF Placement!Opened
      <4> QED
        BY <4>1, <4>2, <4>4
    <3>7. s4'[w] => s4[w] /\ s3' = s3 /\ s6' = s6
      <4>1. s4'[w] = (s4[w] /\ s3' = s3 /\ s6' = s6)
        BY <1>0, <2>0, <3>3
      <4> QED
        BY <4>1
    <3>8. Placement!WindowsFollow'
      BY <1>0, <2>0, <3>3, <3>4, <3>5, <3>6 DEF WindowsInv, Placement!WindowsFollow
    <3>9. Placement!HeardAreLast'
      <4>1. \A v \in s13 : s4'[v] => s4[v] /\ s3'[v] = s3[v] /\ s6'[v] = s6[v]
        BY <1>0, <3>5, <3>6, <3>7
      <4>2. s12' = s12 /\ s13' = s13
        BY <3>3
      <4> QED
        BY <4>1, <4>2 DEF WindowsInv, Placement!HeardAreLast, Placement!remembered_placement
    <3>10. Placement!WindowsComeBackReachable'
      BY <1>0, <2>0, <3>2, <3>3, <3>4, <3>5, <3>6
         DEF WindowsInv, Placement!WindowsComeBackReachable, Placement!is_grabbable
    <3> QED
      BY <3>8, <3>9, <3>10 DEF WindowsInv
  <2> QED
    BY <2>2, <2>3
<1>7. ASSUME NEW w \in Window, Placement!Change(w) PROVE WindowsInv'
  <2>1. PICK c : /\ s3' = [s3 EXCEPT ![w] = c] /\ c.workspace = s3[w].workspace /\ c \in Placement!Placed
    <3>1. s3[w] \in Placement!Placed
      BY <1>0, <1>7 DEF Placement!Change
    <3>2. \A r \in Spot : /\ [s3[w] EXCEPT !.rect = r] \in Placement!Placed
                          /\ [s3[w] EXCEPT !.rect = r].workspace = s3[w].workspace
      BY <3>1 DEF Placement!Placed
    <3>3. \A m \in Placement!Mode : /\ [s3[w] EXCEPT !.mode = m] \in Placement!Placed
                          /\ [s3[w] EXCEPT !.mode = m].workspace = s3[w].workspace
      BY <3>1 DEF Placement!Placed
    <3> QED
      BY <1>7, <3>2, <3>3 DEF Placement!Change
  <2>2. /\ s4' = [s4 EXCEPT ![w] = FALSE] /\ s14' = s14 \ {w} /\ UNCHANGED <<s1, s5, s6, s12, s13>>
        /\ w \in Placement!Opened
    BY <1>7 DEF Placement!Change, Placement!trackerVars
  <2>3. /\ s3'[w] = c /\ Placement!Opened' = Placement!Opened
        /\ \A v \in Window \ {w} : s3'[v] = s3[v] /\ s4'[v] = s4[v]
        /\ ~s4'[w]
    BY <1>0, <2>1, <2>2 DEF Placement!Opened
  <2>5. Placement!WindowsFollow'
    BY <1>0, <2>1, <2>2, <2>3 DEF WindowsInv, Placement!WindowsFollow
  <2>6. Placement!HeardAreLast'
    BY <1>0, <2>2, <2>3 DEF WindowsInv, Placement!HeardAreLast, Placement!remembered_placement
  <2>7. Placement!WindowsComeBackReachable'
    BY <1>0, <2>1, <2>2, <2>3 DEF WindowsInv, Placement!WindowsComeBackReachable, Placement!is_grabbable
  <2> QED
    BY <2>5, <2>6, <2>7 DEF WindowsInv
<1>8. ASSUME NEW w \in Window, Placement!Close(w) PROVE WindowsInv'
  <2>1. /\ s3' = [s3 EXCEPT ![w] = None] /\ s6' = [s6 EXCEPT ![w] = None] /\ s4' = [s4 EXCEPT ![w] = TRUE]
        /\ s5' = s5 \ {w} /\ s13' = s13 \ {w} /\ s14' = s14 \ {w} /\ UNCHANGED <<s1, s12>>
    BY <1>8 DEF Placement!Close
  <2>2. /\ Placement!Opened' = Placement!Opened \ {w}
        /\ \A v \in Window \ {w} : s3'[v] = s3[v] /\ s4'[v] = s4[v] /\ s6'[v] = s6[v]
    BY <1>0, <2>1 DEF Placement!Opened
  <2>5. Placement!WindowsFollow'
    BY <1>0, <2>1, <2>2 DEF WindowsInv, Placement!WindowsFollow
  <2>6. Placement!HeardAreLast'
    BY <1>0, <2>1, <2>2 DEF WindowsInv, Placement!HeardAreLast, Placement!remembered_placement
  <2>7. Placement!WindowsComeBackReachable'
    BY <1>0, <2>1, <2>2 DEF WindowsInv, Placement!WindowsComeBackReachable, Placement!is_grabbable
  <2> QED
    BY <2>5, <2>6, <2>7 DEF WindowsInv
<1>9. CASE UNCHANGED <<s3, s4, s5, s6, s12, s13>> /\ (UNCHANGED <<s1, s14>> \/ s14' = {})
  BY <1>9 DEF WindowsInv, Placement!WindowsFollow, Placement!HeardAreLast, Placement!WindowsComeBackReachable,
              Placement!Opened, Placement!remembered_placement, Placement!is_grabbable
<1>10. CASE Placement!Gone
  BY <1>10 DEF Placement!Gone, WindowsInv, Placement!WindowsFollow, Placement!HeardAreLast,
               Placement!WindowsComeBackReachable, Placement!Opened
<1>11. \/ \E i \in 1..3, a \in Workspace : Placement!WriteOne(i, a)
       \/ Placement!DelayElapses \/ Placement!ChangeDisplays \/ Placement!Exit \/ Placement!Launch
       => UNCHANGED <<s3, s4, s5, s6, s12, s13>> /\ (UNCHANGED <<s1, s14>> \/ s14' = {})
  BY DEF Placement!WriteOne, Placement!DelayElapses, Placement!ChangeDisplays, Placement!Exit,
         Placement!Launch, Placement!trackerVars, Placement!historyVars
<1> QED
  BY <1>2, <1>3, <1>4, <1>5, <1>6, <1>7, <1>8, <1>9, <1>10, <1>11 DEF Placement!PlacementNext

RowsAreLast ==
  \A a \in Workspace : ~Placement!OnItsWay(a) /\ a \notin s15 => s10[a] = s12[a]

QueueInv ==
  /\ s7 # Placement!Idle => s8
  /\ RowsAreLast
  /\ Placement!LastIsWhere
  /\ s11 # "running" => s7 = Placement!Idle

\* What is drained is in the hands of one flush, or it is excused.
LEMMA DrainKeeps ==
  ASSUME Placement!PlacementTypeOK, RowsAreLast, Placement!LastIsWhere,
         NEW i \in 1..3, Placement!Drain(i), UNCHANGED <<s10, s12>>
  PROVE  s7' = Placement!Idle /\ RowsAreLast' /\ Placement!LastIsWhere'
<1>1. /\ s7' = Placement!Idle /\ s9' = [s9 EXCEPT ![i] = s7] /\ s9[i] = Placement!Idle
      /\ \A a \in Workspace : s7'[a] = None /\ s9[i][a] = None
  BY DEF Placement!Drain, Placement!Idle
<1>2. s9'[i] = s7 /\ \A j \in (1..3) \ {i} : s9'[j] = s9[j]
  BY <1>1 DEF Placement!PlacementTypeOK
<1>3. ASSUME NEW a \in Workspace, a \notin s15'
      PROVE  /\ a \notin s15
             /\ \A j, k \in 1..3 : s9'[j][a] # None /\ s9'[k][a] # None => j = k
  BY <1>3 DEF Placement!Drain, Placement!Overtaken
<1>4. RowsAreLast'
  BY <1>1, <1>2, <1>3 DEF RowsAreLast, Placement!OnItsWay
<1>5. ASSUME NEW a \in Workspace, a \notin s15', NEW j \in 1..3, s9'[j][a] # None
      PROVE  s12[a] = s9'[j][a]
  <2>1. CASE j = i
    BY <1>2, <1>3, <1>5, <2>1 DEF Placement!LastIsWhere
  <2>2. CASE j # i
    <3>1. s7[a] = None /\ s9[j][a] # None /\ s9'[j] = s9[j]
      BY <1>2, <1>3, <1>5, <2>2
    <3> QED
      BY <1>3, <1>5, <3>1 DEF Placement!LastIsWhere
  <2> QED
    BY <2>1, <2>2
<1>6. Placement!LastIsWhere'
  BY <1>1, <1>3, <1>5 DEF Placement!LastIsWhere
<1> QED
  BY <1>1, <1>4, <1>6

LEMMA QueueKept ==
  ASSUME Placement!PlacementTypeOK, Placement!WindowsFollow, QueueInv, Placement!PlacementNext
  PROVE  QueueInv'
<1> USE PlacementAssumption
<1>1. ASSUME NEW w \in Placement!Opened, Placement!Record(w), UNCHANGED <<s9, s10, s11, s15>>, s11 = "running"
      PROVE  QueueInv'
  <2>1. CASE s3[w].workspace = None
    BY <1>1, <2>1 DEF Placement!Record, QueueInv, RowsAreLast, Placement!LastIsWhere, Placement!OnItsWay, Placement!Idle
  <2>2. CASE s3[w].workspace # None
    <3>1. PICK a : a = s3[w].workspace
      OBVIOUS
    <3>2. PICK p \in Placement!Remembered : p = Placement!remembered_placement(w)
      BY <1>1, RecordTypes
    <3>3. s7' = [s7 EXCEPT ![a] = p] /\ s12' = [s12 EXCEPT ![a] = p] /\ s8' = TRUE
      BY <1>1, <2>2, <3>1, <3>2 DEF Placement!Record
    <3>4. /\ \A b \in Workspace \ {a} : s7'[b] = s7[b] /\ s12'[b] = s12[b]
          /\ a \in Workspace => s7'[a] = p /\ s12'[a] = p
          /\ p # None
      BY <3>2, <3>3 DEF Placement!PlacementTypeOK, Placement!Placements
    <3>5. RowsAreLast'
      BY <1>1, <3>4 DEF QueueInv, RowsAreLast, Placement!OnItsWay
    <3>6. Placement!LastIsWhere'
      BY <1>1, <3>4 DEF QueueInv, Placement!LastIsWhere
    <3> QED
      BY <1>1, <3>3, <3>5, <3>6 DEF QueueInv
  <2> QED
    BY <2>1, <2>2
<1>2. ASSUME NEW w \in Window, Placement!Notice(w) \/ (Placement!PlaceForWorkspace(w) /\ Placement!Record(w))
      PROVE  QueueInv'
  BY <1>1, <1>2 DEF Placement!Notice, Placement!PlaceForWorkspace, Placement!PlacementTypeOK
<1>3. ASSUME NEW i \in 1..3, NEW a \in Workspace, Placement!WriteOne(i, a) PROVE QueueInv'
  <2>1. /\ s9' = [s9 EXCEPT ![i][a] = None] /\ s9[i][a] # None
        /\ UNCHANGED <<s7, s8, s11, s12>>
        /\ \/ s10' = [s10 EXCEPT ![a] = s9[i][a]] /\ UNCHANGED s15
           \/ s15' = s15 \cup {a} /\ UNCHANGED s10
    BY <1>3 DEF Placement!WriteOne, Placement!trackerVars
  <2>2. /\ s9'[i][a] = None /\ \A b \in Workspace \ {a} : s9'[i][b] = s9[i][b]
        /\ \A j \in (1..3) \ {i} : s9'[j] = s9[j]
        /\ \A b \in Workspace \ {a} : s10'[b] = s10[b]
    BY <2>1 DEF Placement!PlacementTypeOK, Placement!Placements
  <2>3. a \notin s15' => a \notin s15 /\ s10'[a] = s9[i][a] /\ \A j \in 1..3 : s9'[j][a] = None
    BY <2>1, <2>2 DEF QueueInv, Placement!LastIsWhere, Placement!PlacementTypeOK, Placement!Placements
  <2>4. a \notin s15' /\ s7[a] = None => s12[a] = s9[i][a]
    BY <2>1, <2>3 DEF QueueInv, Placement!LastIsWhere
  <2>5. ASSUME NEW b \in Workspace, ~Placement!OnItsWay(b)', b \notin s15' PROVE s10'[b] = s12'[b]
    <3>1. CASE b = a
      BY <2>1, <2>3, <2>4, <2>5, <3>1 DEF Placement!OnItsWay
    <3>2. CASE b # a
      BY <2>1, <2>2, <2>5, <3>2 DEF Placement!OnItsWay, QueueInv, RowsAreLast
    <3> QED
      BY <3>1, <3>2
  <2>6. \A b \in Workspace : b \notin s15' => b \notin s15 /\ \A j \in 1..3 : s9'[j][b] \in {s9[j][b], None}
    BY <2>1, <2>2
  <2>7. Placement!LastIsWhere'
    BY <2>1, <2>6 DEF QueueInv, Placement!LastIsWhere
  <2> QED
    BY <2>1, <2>5, <2>7 DEF QueueInv, RowsAreLast
<1>4. CASE Placement!DelayElapses
  <2>1. PICK i \in 1..3 : Placement!Drain(i)
    BY <1>4 DEF Placement!DelayElapses
  <2> QED
    BY <1>4, <2>1, DrainKeeps DEF Placement!DelayElapses, QueueInv
<1>5. CASE Placement!Exit
  BY <1>5, DrainKeeps DEF Placement!Exit, QueueInv
<1>6. CASE Placement!Gone
  <2>1. /\ s7 = Placement!Idle /\ s9[3] = Placement!Idle /\ s7' = Placement!Idle
        /\ s9' = [i \in 1..3 |-> Placement!Idle] /\ UNCHANGED <<s10, s12>>
        /\ s15' = s15 \cup {a \in Workspace : \E i \in 1..2 : s9[i][a] # None}
    BY <1>6 DEF Placement!Gone, QueueInv
  <2>2. \A a \in Workspace : Placement!Idle[a] = None
    BY DEF Placement!Idle
  <2>3. \A a \in Workspace : a \notin s15' => ~Placement!OnItsWay(a) /\ a \notin s15
    BY <2>1, <2>2 DEF Placement!OnItsWay
  <2> QED
    BY <2>1, <2>2, <2>3 DEF QueueInv, RowsAreLast, Placement!LastIsWhere
<1>7. CASE UNCHANGED <<s7, s8, s9, s10, s12, s15>> /\ (UNCHANGED s11 \/ s11' = "running")
  BY <1>7 DEF QueueInv, RowsAreLast, Placement!LastIsWhere, Placement!OnItsWay
<1>8. ASSUME NEW w \in Window, \/ Placement!Open(w) \/ Placement!Change(w) \/ Placement!Close(w)
                               \/ \E a \in Workspace : Placement!OpenRestored(w, a) \/ Placement!Claim(w, a)
      PROVE  UNCHANGED <<s7, s8, s9, s10, s11, s12, s15>>
  BY <1>8 DEF Placement!Open, Placement!Change, Placement!Close, Placement!OpenRestored, Placement!Claim,
              Placement!Build, Placement!trackerVars
<1>9. ASSUME NEW w \in Window, Placement!PlaceForWorkspace(w)
      PROVE  Placement!Record(w) \/ UNCHANGED <<s7, s8, s9, s10, s11, s12, s15>>
  BY <1>9 DEF Placement!PlaceForWorkspace
<1>10. Placement!ChangeDisplays \/ Placement!Launch
       => UNCHANGED <<s7, s8, s9, s10, s12, s15>> /\ (UNCHANGED s11 \/ s11' = "running")
  BY DEF Placement!ChangeDisplays, Placement!Launch, Placement!trackerVars, Placement!historyVars
<1> QED
  BY <1>2, <1>3, <1>4, <1>5, <1>6, <1>7, <1>8, <1>9, <1>10 DEF Placement!PlacementNext

LEMMA PlacementMeans ==
  Placement!PlacementInv <=> Placement!PlacementTypeOK /\ WindowsInv /\ QueueInv
<1>1. Placement!HeardAreLast =>
        \A w \in s13 :
          s4[w] /\ w \notin s5 =>
            s12[s3[w].workspace] =
              [rect |-> IF s3[w].mode = "normal" THEN s3[w].rect ELSE s6[w], mode |-> s3[w].mode]
  BY DEF Placement!HeardAreLast, Placement!remembered_placement
<1> QED
  BY <1>1 DEF Placement!PlacementInv, WindowsInv, QueueInv, RowsAreLast, Placement!PlacementsArrive

LEMMA PlacementKept ==
  ASSUME Placement!PlacementInv, Placement!PlacementNext
  PROVE  Placement!PlacementInv'
<1>1. Placement!PlacementTypeOK /\ WindowsInv /\ QueueInv
  BY PlacementMeans
<1>2. (Placement!PlacementTypeOK /\ WindowsInv /\ QueueInv)'
  BY <1>1, PlacementTypes, WindowsKept, QueueKept DEF WindowsInv
<1>3. (Placement!PlacementInv <=> Placement!PlacementTypeOK /\ WindowsInv /\ QueueInv)'
  BY PlacementMeans, PTL
<1> QED
  BY <1>2, <1>3

LEMMA PlacementBegins == Placement!PlacementInit => Placement!PlacementInv
<1> SUFFICES ASSUME Placement!PlacementInit PROVE Placement!PlacementInv
  OBVIOUS
<1>1. Placement!Idle \in Placement!Placements /\ \A a \in Workspace : Placement!Idle[a] = None
  BY DEF Placement!Idle, Placement!Placements
<1>2. Placement!Opened = {}
  BY DEF Placement!PlacementInit, Placement!Opened
<1>3. Placement!PlacementTypeOK
  BY <1>1, <1>2 DEF Placement!PlacementInit, Placement!PlacementTypeOK
<1>4. WindowsInv
  BY <1>2 DEF Placement!PlacementInit, WindowsInv, Placement!WindowsFollow, Placement!HeardAreLast,
              Placement!WindowsComeBackReachable
<1>5. QueueInv
  BY <1>1 DEF Placement!PlacementInit, QueueInv, RowsAreLast, Placement!LastIsWhere
<1> QED
  BY <1>3, <1>4, <1>5, PlacementMeans

LEMMA PlacementStays == Placement!PlacementInv /\ UNCHANGED all => Placement!PlacementInv'
  BY DEF Placement!PlacementInv, all, from9, from11, from12, from14, from16, Placement!PlacementTypeOK,
         Placement!Opened, Placement!PlacementsArrive, Placement!OnItsWay, Placement!WindowsComeBackReachable,
         Placement!is_grabbable, Placement!WindowsFollow, Placement!LastIsWhere, Placement!HeardAreLast,
         Placement!remembered_placement

LEMMA PlacementHolds == StoresSpec => [](setting = "placement" => Placement!PlacementInv)
<1> DEFINE Inv == setting = "placement" => Placement!PlacementInv
<1>1. StoresInit => Inv
  BY PlacementBegins DEF StoresInit
<1>2. Inv /\ [StoresNext]_stores => Inv'
  <2> SUFFICES ASSUME Inv, [StoresNext]_stores, (setting = "placement")' PROVE Placement!PlacementInv'
    OBVIOUS
  <2>1. setting = "placement" /\ (Placement!PlacementNext \/ UNCHANGED all)
    BY DEF StoresNext, stores, all, others
  <2> QED
    BY <2>1, PlacementKept, PlacementStays
<1> QED
  BY <1>1, <1>2, PTL DEF StoresSpec, stores

\* When nothing is on its way, the row of a Workspace is what was recorded for
\* it last, through a quit or an exit too, unless a write failed or was overtaken.
THEOREM PlacementsArriveHolds == StoresSpec => []PlacementsArrive
<1>1. (setting = "placement" => Placement!PlacementInv) => PlacementsArrive
  BY DEF Placement!PlacementInv, PlacementsArrive
<1> QED
  BY <1>1, PlacementHolds, PTL

\* Whatever displays its placement was recorded on, a window that the app has
\* placed is where a hand reaches it on those there are (restored_rect).
THEOREM WindowsComeBackReachableHolds == StoresSpec => []WindowsComeBackReachable
<1>1. (setting = "placement" => Placement!PlacementInv) => WindowsComeBackReachable
  BY DEF Placement!PlacementInv, WindowsComeBackReachable
<1> QED
  BY <1>1, PlacementHolds, PTL

-----------------------------------------------------------------------------
(* The restoration of a session. *)

Around ==
  s4 \in {"restoring", "up"} =>
    \A d \in s13 : \/ d \in Restore!Tabs(s5)
                   \/ \E w \in Restore!Registered : d \in s6[w].restore \cup s6[w].opening \cup s6[w].tabs

RestoreCore ==
  /\ Restore!RestoreTypeOK
  /\ Restore!WindowsAreApart /\ Restore!MountedInTime /\ Restore!HandedOnce
  /\ Restore!ReportedAreStored /\ (s7 => s13 \subseteq Restore!Tabs(s3)) /\ Around

Windowed == [Restore!Label -> Restore!WindowRecord \cup {None}]

LEMMA LeastLabel ==
  ASSUME NEW S \in SUBSET Restore!Label, NEW n \in S
  PROVE  \E i \in S : \A j \in 1..(i - 1) : j \notin S
<1> DEFINE R == {p \in Nat \X Nat : p[1] < p[2]}
<1>1. OpToRel(<, Nat) = R
  BY DEF OpToRel
<1>2. IsWellFoundedOn(R, Nat)
  BY <1>1, NatLessThanWellFounded
<1>3. S \subseteq Nat /\ S # {}
  BY DEF Restore!Label
<1>4. PICK m \in S : \A k \in S : <<k, m>> \notin R
  BY <1>2, <1>3, WFMin
<1>5. \A j \in 1..(m - 1) : j \notin S
  <2> SUFFICES ASSUME NEW j \in 1..(m - 1), j \in S PROVE FALSE
    OBVIOUS
  <2>1. j \in Nat /\ m \in Nat /\ j < m
    BY <1>3
  <2> QED
    BY <1>4, <2>1
<1> QED
  BY <1>5

\* A drawing that is listed and there is planned, by the first that lists it.
LEMMA PlanCovers ==
  ASSUME NEW entries \in [Restore!Label -> Restore!Entry], NEW d \in s1, d \in Restore!Tabs(entries)
  PROVE  d \in Restore!Tabs(Restore!plan_restore(entries))
<1> DEFINE S == {i \in Restore!Label : d \in entries[i].tabs}
<1>1. PICK n \in S : TRUE
  BY DEF Restore!Tabs
<1>2. PICK i \in S : \A j \in 1..(i - 1) : j \notin S
  <2>1. S \in SUBSET Restore!Label
    OBVIOUS
  <2> HIDE DEF S
  <2> QED
    BY <1>1, <2>1, LeastLabel
<1>3. \A j \in 1..(i - 1) : d \notin entries[j].tabs
  BY <1>2, RestoreAssumption DEF Restore!Label
<1> QED
  BY <1>2, <1>3 DEF Restore!Tabs, Restore!plan_restore

LEMMA PlanTypes ==
  ASSUME NEW entries \in [Restore!Label -> Restore!Entry]
  PROVE  Restore!plan_restore(entries) \in [Restore!Label -> Restore!Entry]
<1>1. ASSUME NEW i \in Restore!Label
      PROVE  Restore!plan_restore(entries)[i] \in Restore!Entry
  BY DEF Restore!plan_restore, Restore!Entry, Restore!Optional
<1> QED
  BY <1>1 DEF Restore!plan_restore

LEMMA NothingIsPlanned ==
  /\ Restore!NoPlan \in [Restore!Label -> Restore!Entry]
  /\ Restore!Tabs(Restore!NoPlan) = {}
  /\ \A i \in Restore!Label : Restore!NoPlan[i] = Restore!Nothing
<1>1. Restore!Nothing \in Restore!Entry /\ Restore!Nothing.tabs = {}
  BY DEF Restore!Nothing, Restore!Entry, Restore!Optional
<1> QED
  BY <1>1 DEF Restore!NoPlan, Restore!Tabs

LEMMA SnapshotTypes ==
  ASSUME s6 \in Windowed
  PROVE  /\ Restore!Snapshot \in [Restore!Label -> Restore!Entry]
         /\ \A w \in Restore!Registered : s6[w].session_tabs \subseteq Restore!Tabs(Restore!Snapshot)
<1>1. \A w \in Restore!Label : Restore!Snapshot[w] \in Restore!Entry
  BY DEF Restore!Snapshot, Restore!Nothing, Restore!Entry, Restore!Optional, Windowed, Restore!WindowRecord
<1>2. Restore!Snapshot \in [Restore!Label -> Restore!Entry]
  BY <1>1 DEF Restore!Snapshot
<1>3. \A w \in Restore!Registered : Restore!Snapshot[w].tabs = s6[w].session_tabs
  BY DEF Restore!Snapshot, Restore!Registered
<1> QED
  BY <1>2, <1>3 DEF Restore!Tabs, Restore!Registered

SnapshotIsTyped ==
  s6 \in Windowed => /\ Restore!Snapshot \in [Restore!Label -> Restore!Entry]
                     /\ \A w \in Restore!Registered : s6[w].session_tabs \subseteq Restore!Tabs(Restore!Snapshot)

LEMMA SnapshotsAreTyped == SnapshotIsTyped
BY SnapshotTypes DEF SnapshotIsTyped

LEMMA Registers ==
  ASSUME NEW role \in {"normal", "recovery"}, NEW a \in Workspace \cup {None},
         NEW unavailable \in Workspace \cup {None}, NEW restore \in SUBSET Drawing
  PROVE  Restore!Registering(role, a, unavailable, restore) \in Restore!WindowRecord
BY DEF Restore!Registering, Restore!WindowRecord, Restore!Optional

\* One window is another one than before, or is there where none was.
LEMMA Altered ==
  ASSUME s6 \in Windowed, NEW w \in Restore!Label, NEW c \in Restore!WindowRecord, s6' = [s6 EXCEPT ![w] = c]
  PROVE  /\ s6' \in Windowed /\ s6'[w] = c
         /\ \A v \in Restore!Label \ {w} : s6'[v] = s6[v]
         /\ Restore!Registered' = Restore!Registered \cup {w}
BY RestoreAssumption DEF Windowed, Restore!Registered

LEMMA CoreSuffices == RestoreCore <=> Restore!RestoreInv
<1>1. ASSUME RestoreCore PROVE Restore!SessionComesBack
  <2>1. s4 = "recovery" => s7
    BY <1>1 DEF RestoreCore, Restore!ReportedAreStored
  <2>2. ASSUME s4 = "up", Restore!Reported, ~s8, NEW d \in s13 PROVE d \in Restore!Tabs(s3)
    <3>1. PICK w \in Restore!Registered : d \in s6[w].restore \cup s6[w].opening \cup s6[w].tabs
      BY <1>1, <2>2, NothingIsPlanned DEF RestoreCore, Around, Restore!ReportedAreStored
    <3>2. s6[w].restore = {} /\ s6[w].opening = {} /\ s6[w].session_tabs = s6[w].tabs
      BY <1>1, <2>2 DEF Restore!Reported, RestoreCore, Restore!HandedOnce
    <3> QED
      BY <1>1, <2>2, <3>1, <3>2 DEF RestoreCore, Restore!ReportedAreStored
  <2> QED
    BY <1>1, <2>1, <2>2 DEF RestoreCore, Around, Restore!SessionComesBack
<1>2. ASSUME RestoreCore PROVE Restore!MountedAreOpen
  BY <1>2 DEF RestoreCore, Restore!MountedInTime, Restore!MountedAreOpen
<1>3. Restore!SessionComesBack => Around /\ (s7 => s13 \subseteq Restore!Tabs(s3))
  BY DEF Restore!SessionComesBack, Around
<1> QED
  BY <1>1, <1>2, <1>3 DEF RestoreCore, Restore!RestoreInv

LEMMA CoreTyped ==
  ASSUME RestoreCore
  PROVE  /\ s1 \subseteq Drawing /\ s2 \subseteq Workspace
         /\ s3 \in [Restore!Label -> Restore!Entry] /\ s5 \in [Restore!Label -> Restore!Entry]
         /\ s6 \in Windowed /\ s7 \in BOOLEAN /\ s8 \in BOOLEAN
         /\ s9 \subseteq Workspace /\ s14 \subseteq Workspace /\ s13 \subseteq Drawing
         /\ s10 \in Restore!Label \cup {None} /\ s11 \in 0..MaxWindows /\ s12 \in Nat /\ s15 \in 0..MaxEvents
         /\ Restore!Registered \subseteq Restore!Label
         /\ \A w \in Restore!Registered : s6[w] \in Restore!WindowRecord
         /\ \A w \in Restore!Label : s6[w] # None => w \in Restore!Registered
BY DEF RestoreCore, Restore!RestoreTypeOK, Windowed, Restore!Registered

\* A window that keeps its Workspace, and does not lose what it was handed.
LEMMA Alike ==
  ASSUME RestoreCore, NEW w \in Restore!Registered, NEW c \in Restore!WindowRecord, s6' = [s6 EXCEPT ![w] = c],
         c.workspace = s6[w].workspace, c.role = s6[w].role,
         IF c.bootstrapped THEN c.restore = {} ELSE c.opening = {},
         w = s10 \/ c.role = "recovery" => c.restore = {} /\ c.opening = {},
         UNCHANGED <<s1, s2, s3, s4, s5, s7, s9, s10, s11, s12, s14>>,
         s13' \subseteq s13, s15' \in 0..MaxEvents, s8' \in BOOLEAN, ~s8' => ~s8,
         ~s8' => c.session_tabs = s6[w].session_tabs,
         \A d \in s13' \cap (s6[w].restore \cup s6[w].opening \cup s6[w].tabs) :
           \/ d \in c.restore \cup c.opening \cup c.tabs
           \/ \E v \in Restore!Registered : v # w /\ d \in s6[v].tabs
  PROVE  RestoreCore'
<1>1. /\ s6' \in Windowed /\ s6'[w] = c
      /\ \A v \in Restore!Label \ {w} : s6'[v] = s6[v]
      /\ Restore!Registered' = Restore!Registered /\ w \in Restore!Label
  <2>1. w \in Restore!Label /\ s6 \in Windowed /\ Restore!Registered \cup {w} = Restore!Registered
    BY CoreTyped
  <2> QED
    BY <2>1, Altered
<1>2. Restore!RestoreTypeOK'
  BY <1>1, CoreTyped DEF Restore!RestoreTypeOK, RestoreCore, Windowed
<1>3. \A v \in Restore!Registered : s6'[v].workspace = s6[v].workspace
  BY <1>1, CoreTyped
<1>4. Restore!WindowsAreApart'
  BY <1>1, <1>3 DEF RestoreCore, Restore!WindowsAreApart
<1>5. \A a : Restore!Holders(a)' = Restore!Holders(a)
  BY <1>1, <1>3 DEF Restore!Holders
<1>6. Restore!MountedInTime'
  BY <1>1, <1>3, <1>5 DEF RestoreCore, Restore!MountedInTime
<1>7. Restore!HandedOnce'
  BY <1>1, CoreTyped DEF RestoreCore, Restore!HandedOnce
<1>8. Restore!Tabs(s3)' = Restore!Tabs(s3) /\ Restore!Tabs(s5)' = Restore!Tabs(s5)
  BY DEF Restore!Tabs
<1>9. Restore!ReportedAreStored'
  <2>1. \A v \in Restore!Registered : ~s8' => s6'[v].session_tabs = s6[v].session_tabs
    BY <1>1, CoreTyped
  <2> QED
    BY <1>1, <1>8, <2>1 DEF RestoreCore, Restore!ReportedAreStored
<1>10. Around'
  <2> SUFFICES ASSUME s4 \in {"restoring", "up"}, NEW d \in s13', d \notin Restore!Tabs(s5)
               PROVE  \E v \in Restore!Registered : d \in s6'[v].restore \cup s6'[v].opening \cup s6'[v].tabs
    BY <1>1, <1>8 DEF Around
  <2>1. PICK v \in Restore!Registered : d \in s6[v].restore \cup s6[v].opening \cup s6[v].tabs
    BY DEF RestoreCore, Around
  <2>2. CASE v # w
    BY <1>1, <2>1, <2>2, CoreTyped
  <2>3. CASE v = w
    BY <1>1, <2>1, <2>3, CoreTyped
  <2> QED
    BY <2>2, <2>3
<1> QED
  BY <1>2, <1>4, <1>6, <1>7, <1>8, <1>9, <1>10 DEF RestoreCore

LEMMA Alterations ==
  ASSUME RestoreCore, NEW w \in Restore!Label,
         \/ Restore!Handshake(w) \/ Restore!Report(w)
         \/ \E d \in Drawing : Restore!OpenTab(w, d) \/ Restore!UserOpens(w, d) \/ Restore!UserCloses(w, d)
  PROVE  RestoreCore'
<1>0. /\ w \in Restore!Registered /\ s6[w] \in Restore!WindowRecord /\ s6 \in Windowed /\ s15 \in 0..MaxEvents
      /\ s8 \in BOOLEAN
      /\ IF s6[w].bootstrapped THEN s6[w].restore = {} ELSE s6[w].opening = {}
      /\ w = s10 \/ s6[w].role = "recovery" => s6[w].restore = {} /\ s6[w].opening = {}
  BY CoreTyped DEF Restore!Handshake, Restore!Report, Restore!OpenTab, Restore!UserOpens, Restore!UserCloses,
                   RestoreCore, Restore!HandedOnce
<1>1. Restore!Event => s15' \in 0..MaxEvents
  BY <1>0, RestoreAssumption DEF Restore!Event
<1>2. CASE Restore!Handshake(w)
  <2> DEFINE c == [s6[w] EXCEPT !.bootstrapped = TRUE, !.opening = s6[w].restore,
                                !.restore = {}, !.unavailable = None]
  <2>1. /\ c \in Restore!WindowRecord /\ c.workspace = s6[w].workspace /\ c.role = s6[w].role
        /\ c.bootstrapped /\ c.restore = {} /\ c.opening = s6[w].restore /\ c.tabs = s6[w].tabs
        /\ c.session_tabs = s6[w].session_tabs
    BY <1>0 DEF Restore!WindowRecord, Restore!Optional
  <2>2. /\ s6' = [s6 EXCEPT ![w] = c] /\ ~s6[w].bootstrapped
        /\ UNCHANGED <<s1, s2, s3, s4, s5, s7, s8, s9, s10, s11, s12, s13, s14, s15>>
    BY <1>0, <1>2 DEF Restore!Handshake, Windowed
  <2> HIDE DEF c
  <2> QED
    BY <1>0, <2>1, <2>2, Alike
<1>3. CASE Restore!Report(w)
  <2>1. PICK t : t = Restore!Accepted(w, s6[w].tabs)
    OBVIOUS
  <2> DEFINE c == [s6[w] EXCEPT !.session_tabs = t]
  <2>2. t \subseteq s6[w].tabs
    BY <2>1 DEF Restore!Accepted
  <2>3. /\ c \in Restore!WindowRecord /\ c.workspace = s6[w].workspace /\ c.role = s6[w].role
        /\ c.bootstrapped = s6[w].bootstrapped /\ c.restore = s6[w].restore /\ c.opening = s6[w].opening
        /\ c.tabs = s6[w].tabs
    BY <1>0, <2>2 DEF Restore!WindowRecord
  <2>4. /\ s6' = [s6 EXCEPT ![w] = c] /\ s8' = TRUE
        /\ UNCHANGED <<s1, s2, s3, s4, s5, s7, s9, s10, s11, s12, s13, s14, s15>>
    BY <1>3, <2>1 DEF Restore!Report
  <2> HIDE DEF c
  <2> QED
    BY <1>0, <2>3, <2>4, Alike
<1>4. ASSUME NEW d \in Drawing, Restore!OpenTab(w, d) PROVE RestoreCore'
  <2>1. PICK tabs \in SUBSET Drawing : tabs = IF d \in s1 /\ Restore!Owners(d) = {} THEN s6[w].tabs \cup {d} ELSE s6[w].tabs
    BY <1>0 DEF Restore!WindowRecord
  <2> DEFINE c == [s6[w] EXCEPT !.opening = @ \ {d}, !.tabs = tabs]
  <2>2. /\ c \in Restore!WindowRecord /\ c.workspace = s6[w].workspace /\ c.role = s6[w].role
        /\ c.bootstrapped = s6[w].bootstrapped /\ c.restore = s6[w].restore /\ c.opening = s6[w].opening \ {d}
        /\ c.tabs = tabs /\ c.session_tabs = s6[w].session_tabs
    BY <1>0 DEF Restore!WindowRecord
  <2>3. /\ s6' = [s6 EXCEPT ![w] = c] /\ d \in s6[w].opening
        /\ UNCHANGED <<s1, s2, s3, s4, s5, s7, s8, s9, s10, s11, s12, s13, s14, s15>>
    BY <1>0, <1>4, <2>1 DEF Restore!OpenTab, Windowed
  <2> HIDE DEF c
  <2>4. d \in s13 => d \in s1
    BY <1>4 DEF RestoreCore, Restore!ReportedAreStored, Restore!WindowsAreApart, Restore!OpenTab
  <2>5. d \in s13 /\ d \notin tabs => \E v \in Restore!Registered : v # w /\ d \in s6[v].tabs
    BY <2>1, <2>4 DEF Restore!Owners
  <2>6. \A e \in s13' \cap (s6[w].restore \cup s6[w].opening \cup s6[w].tabs) :
           \/ e \in c.restore \cup c.opening \cup c.tabs
           \/ \E v \in Restore!Registered : v # w /\ e \in s6[v].tabs
    BY <2>1, <2>2, <2>3, <2>5
  <2> QED
    BY <1>0, <2>2, <2>3, <2>6, Alike
<1>5. ASSUME NEW d \in Drawing, NEW tabs \in SUBSET Drawing,
             s6' = [s6 EXCEPT ![w].tabs = tabs], s13' \subseteq s13, s13' \cap s6[w].tabs \subseteq tabs,
             s15' \in 0..MaxEvents, UNCHANGED <<s1, s2, s3, s4, s5, s7, s8, s9, s10, s11, s12, s14>>
      PROVE  RestoreCore'
  <2> DEFINE c == [s6[w] EXCEPT !.tabs = tabs]
  <2>1. /\ c \in Restore!WindowRecord /\ c.workspace = s6[w].workspace /\ c.role = s6[w].role
        /\ c.bootstrapped = s6[w].bootstrapped /\ c.restore = s6[w].restore /\ c.opening = s6[w].opening
        /\ c.tabs = tabs /\ c.session_tabs = s6[w].session_tabs /\ s6' = [s6 EXCEPT ![w] = c]
    BY <1>0, <1>5 DEF Restore!WindowRecord
  <2> HIDE DEF c
  <2>2. \A e \in s13' \cap (s6[w].restore \cup s6[w].opening \cup s6[w].tabs) :
           e \in c.restore \cup c.opening \cup c.tabs
    BY <1>5, <2>1
  <2>3. ~s8' => ~s8 /\ c.session_tabs = s6[w].session_tabs
    BY <1>5, <2>1
  <2>4. s8' \in BOOLEAN
    BY <1>0, <1>5
  <2>5. /\ IF c.bootstrapped THEN c.restore = {} ELSE c.opening = {}
        /\ w = s10 \/ c.role = "recovery" => c.restore = {} /\ c.opening = {}
    BY <1>0, <2>1
  <2>6. UNCHANGED <<s1, s2, s3, s4, s5, s7, s9, s10, s11, s12, s14>> /\ s13' \subseteq s13 /\ s15' \in 0..MaxEvents
    BY <1>5
  <2>7. w \in Restore!Registered
    BY <1>0
  <2> QED
    BY <2>1, <2>2, <2>3, <2>4, <2>5, <2>6, <2>7, Alike
<1>6. ASSUME NEW d \in Drawing, Restore!UserOpens(w, d) PROVE RestoreCore'
  <2>1. /\ s6' = [s6 EXCEPT ![w].tabs = s6[w].tabs \cup {d}] /\ s6[w].tabs \cup {d} \in SUBSET Drawing
        /\ UNCHANGED <<s1, s2, s3, s4, s5, s7, s8, s9, s10, s11, s12, s13, s14>> /\ s15' \in 0..MaxEvents
    BY <1>0, <1>1, <1>6 DEF Restore!UserOpens, Restore!WindowRecord
  <2> QED
    BY <1>5, <2>1
<1>7. ASSUME NEW d \in Drawing, Restore!UserCloses(w, d) PROVE RestoreCore'
  <2>1. /\ s6' = [s6 EXCEPT ![w].tabs = s6[w].tabs \ {d}] /\ s6[w].tabs \ {d} \in SUBSET Drawing
        /\ UNCHANGED <<s1, s2, s3, s4, s5, s7, s8, s9, s10, s11, s12, s14>> /\ s15' \in 0..MaxEvents
        /\ s13' = s13 \ {d}
    BY <1>0, <1>1, <1>7 DEF Restore!UserCloses, Restore!WindowRecord
  <2> QED
    BY <1>5, <2>1
<1> QED
  BY <1>2, <1>3, <1>4, <1>6, <1>7

\* A window that is new: it is registered with what it is handed.
LEMMA Added ==
  ASSUME RestoreCore, NEW w \in Restore!Label, w = s11 + 1, s11' = w,
         NEW a \in Workspace \cup {None}, a # None => Restore!Holders(a) = {},
         NEW unavailable \in Workspace \cup {None}, NEW restore \in SUBSET Drawing,
         s6' = [s6 EXCEPT ![w] = Restore!Registering("normal", a, unavailable, restore)],
         s4' # "down", UNCHANGED <<s10, s14>>, s9' = s9 \cup ({a} \ {None}),
         s4' \in {"restoring", "up"} => s4 \in {"restoring", "up"}
  PROVE  /\ s6' \in Windowed /\ Restore!Registered' = Restore!Registered \cup {w} /\ w \notin Restore!Registered
         /\ Restore!WindowsAreApart' /\ Restore!MountedInTime' /\ Restore!HandedOnce'
         /\ s6'[w].restore = restore /\ s6'[w].session_tabs = {}
         /\ \A v \in Restore!Registered : s6'[v] = s6[v]
<1> DEFINE c == Restore!Registering("normal", a, unavailable, restore)
<1>1. /\ c \in Restore!WindowRecord /\ c.workspace = a /\ c.role = "normal" /\ c.restore = restore
      /\ ~c.bootstrapped /\ c.opening = {} /\ c.session_tabs = {}
  BY Registers DEF Restore!Registering
<1> HIDE DEF c
<1>2. /\ s6' \in Windowed /\ s6'[w] = c
      /\ \A v \in Restore!Label \ {w} : s6'[v] = s6[v]
      /\ Restore!Registered' = Restore!Registered \cup {w}
  <2>1. s6 \in Windowed /\ s6' = [s6 EXCEPT ![w] = c]
    BY CoreTyped DEF c
  <2> QED
    BY <1>1, <2>1, Altered
<1>3. s11 \in Nat
  BY CoreTyped
<1>4. \A v \in Restore!Registered : v \in Restore!Label /\ v <= s11 /\ v # w /\ s6'[v] = s6[v]
  BY <1>2, <1>3, CoreTyped DEF RestoreCore, Restore!WindowsAreApart, Restore!Label
<1>5. s10 # None => s10 <= s11 /\ s10 # w /\ s10 \in Restore!Label
  BY <1>3, CoreTyped DEF RestoreCore, Restore!WindowsAreApart, Restore!Label
<1>6. \A v \in Restore!Registered : a # None => s6[v].workspace # a
  BY DEF Restore!Holders
<1>7. Restore!WindowsAreApart'
  <2>1. \A v \in Restore!Label : v \in Int
    BY DEF Restore!Label
  <2>0. s11' = s11 + 1 /\ \A v \in Restore!Label : v <= s11 => v <= s11'
    BY <1>3, <2>1
  <2>2. \A v \in Restore!Registered' : v <= s11'
    <3>1. w <= s11'
      BY <1>3
    <3> QED
      BY <1>2, <1>4, <2>0, <3>1
  <2>3. \A u, v \in Restore!Registered' :
          s6'[u].workspace = s6'[v].workspace /\ s6'[u].workspace # None => u = v
    BY <1>1, <1>2, <1>4, <1>6 DEF RestoreCore, Restore!WindowsAreApart
  <2>4. s10 # None => s10 <= s11'
    BY <1>5, <2>0
  <2> QED
    BY <2>2, <2>3, <2>4 DEF Restore!WindowsAreApart
<1>8. Restore!MountedInTime'
  <2>1. \A v \in Restore!Registered' : s6'[v].workspace \in s9' \cup {None}
    BY <1>1, <1>2, <1>4 DEF RestoreCore, Restore!MountedInTime
  <2>2. ASSUME s4' \in {"restoring", "up"}, NEW b \in s9', b \notin s14 PROVE Restore!Holders(b)' # {}
    <3>1. CASE b = a
      BY <1>1, <1>2, <3>1 DEF Restore!Holders
    <3>2. CASE b # a
      BY <1>2, <1>4, <2>2, <3>2 DEF RestoreCore, Restore!MountedInTime, Restore!Holders
    <3> QED
      BY <3>1, <3>2
  <2> QED
    BY <2>1, <2>2 DEF Restore!MountedInTime
<1>9. Restore!HandedOnce'
  <2>1. \A v \in Restore!Registered : s6'[v] = s6[v]
    BY <1>4
  <2>2. s10 # w
    BY <1>5, RestoreAssumption
  <2> QED
    BY <1>1, <1>2, <2>1, <2>2 DEF RestoreCore, Restore!HandedOnce
<1> QED
  BY <1>1, <1>2, <1>4, <1>7, <1>8, <1>9

LEMMA TakenTypes ==
  ASSUME RestoreCore, NEW i \in Restore!Label, Restore!Taken(i)
  PROVE  /\ s5' \in [Restore!Label -> Restore!Entry]
         /\ \A d \in Restore!Tabs(s5) : d \in s5[i].tabs \/ d \in Restore!Tabs(s5)'
<1>1. Restore!Nothing \in Restore!Entry /\ s5 \in [Restore!Label -> Restore!Entry]
  BY CoreTyped DEF Restore!Nothing, Restore!Entry, Restore!Optional
<1>2. /\ s5' \in [Restore!Label -> Restore!Entry]
      /\ \A j \in Restore!Label \ {i} : s5'[j] = s5[j]
  BY <1>1 DEF Restore!Taken
<1> QED
  BY <1>2 DEF Restore!Tabs

LEMMA Restorations ==
  ASSUME RestoreCore,
         \/ \E w \in Restore!Label : Restore!RestoreWindow(w)
         \/ Restore!RestoreFails \/ Restore!RestoredAtStart \/ Restore!RestoredAfterRecovery
  PROVE  RestoreCore'
<1> USE RestoreAssumption
<1>0. /\ s4 = "restoring" /\ s7 /\ s13 \subseteq s1 /\ s13 \subseteq Restore!Tabs(s3)
  BY DEF Restore!RestoreWindow, Restore!RestoreFails, Restore!RestoredAtStart, Restore!RestoredAfterRecovery,
         RestoreCore, Restore!ReportedAreStored
<1>1. ASSUME NEW w \in Restore!Label, Restore!RestoreWindow(w) PROVE RestoreCore'
  <2>1. PICK i \in Restore!Label :
          LET e == s5[i]
              a == IF e.workspace \in s2 /\ Restore!Holders(e.workspace) = {} THEN e.workspace ELSE None
          IN  /\ Restore!NextPlanned(i) /\ Restore!Taken(i)
              /\ s6' = [s6 EXCEPT ![w] =
                   Restore!Registering("normal", a, IF a = None THEN e.workspace ELSE None, e.tabs)]
              /\ s9' = s9 \cup ({a} \ {None})
    BY <1>1 DEF Restore!RestoreWindow
  <2>2. PICK a : a = IF s5[i].workspace \in s2 /\ Restore!Holders(s5[i].workspace) = {} THEN s5[i].workspace ELSE None
    OBVIOUS
  <2>3. PICK unavailable : unavailable = IF a = None THEN s5[i].workspace ELSE None
    OBVIOUS
  <2>4. PICK restore : restore = s5[i].tabs
    OBVIOUS
  <2>5. /\ Restore!Taken(i) /\ s9' = s9 \cup ({a} \ {None})
        /\ s6' = [s6 EXCEPT ![w] = Restore!Registering("normal", a, unavailable, restore)]
    BY <2>1, <2>2, <2>3, <2>4
  <2>6. /\ a \in Workspace \cup {None} /\ (a # None => Restore!Holders(a) = {})
        /\ unavailable \in Workspace \cup {None} /\ restore \in SUBSET Drawing
    BY <2>2, <2>3, <2>4, CoreTyped DEF Restore!Entry, Restore!Optional
  <2>7. /\ w = s11 + 1 /\ s11' = w /\ UNCHANGED <<s1, s2, s3, s4, s7, s8, s10, s13, s14, s15>> /\ s12' = s12 + 1
    BY <1>1 DEF Restore!RestoreWindow, Restore!Allocate
  <2>8. /\ s6' \in Windowed /\ Restore!Registered' = Restore!Registered \cup {w}
        /\ Restore!WindowsAreApart' /\ Restore!MountedInTime' /\ Restore!HandedOnce'
        /\ s6'[w].restore = restore
        /\ \A v \in Restore!Registered : s6'[v] = s6[v]
    <3>1. s4' # "down" /\ (s4' \in {"restoring", "up"} => s4 \in {"restoring", "up"}) /\ UNCHANGED <<s10, s14>>
      BY <1>0, <2>5, <2>7
    <3>2. w \in Restore!Label
      BY <1>0, <2>7
    <3> QED
      BY <2>5, <2>6, <2>7, <3>1, <3>2, Added
  <2>9. s5' \in [Restore!Label -> Restore!Entry]
        /\ \A d \in Restore!Tabs(s5) : d \in s5[i].tabs \/ d \in Restore!Tabs(s5)'
    BY <2>5, TakenTypes
  <2>10. Restore!RestoreTypeOK'
    BY <2>5, <2>6, <2>7, <2>8, <2>9, CoreTyped DEF RestoreCore, Restore!RestoreTypeOK, Windowed, Restore!Label
  <2>11. Around'
    BY <1>0, <2>4, <2>7, <2>8, <2>9 DEF RestoreCore, Around
  <2>12. Restore!ReportedAreStored' /\ (s7 => s13 \subseteq Restore!Tabs(s3))'
    BY <1>0, <2>7 DEF RestoreCore, Restore!ReportedAreStored, Restore!Tabs
  <2> QED
    BY <2>8, <2>10, <2>11, <2>12 DEF RestoreCore
<1>2. CASE Restore!RestoreFails
  <2>1. PICK i \in Restore!Label :
          LET claimed == {a \in s2 : a = s5[i].workspace /\ Restore!Holders(a) = {}}
          IN  /\ Restore!NextPlanned(i) /\ Restore!Taken(i)
              /\ s9' = s9 \cup claimed /\ s14' = s14 \cup claimed
              /\ s13' = s13 \ s5[i].tabs
    BY <1>2 DEF Restore!RestoreFails
  <2>2. PICK claimed \in SUBSET Workspace : s9' = s9 \cup claimed /\ s14' = s14 \cup claimed
    BY <2>1, CoreTyped
  <2>3. /\ s5' \in [Restore!Label -> Restore!Entry]
        /\ \A d \in Restore!Tabs(s5) : d \in s5[i].tabs \/ d \in Restore!Tabs(s5)'
    BY <2>1, TakenTypes
  <2>4. UNCHANGED <<s1, s2, s3, s4, s6, s7, s8, s10, s11, s12>> /\ s15' \in 0..MaxEvents /\ s13' \subseteq s13
    BY <1>2, <2>1, CoreTyped DEF Restore!RestoreFails, Restore!Event
  <2>5. Restore!RestoreTypeOK'
    BY <2>2, <2>3, <2>4, CoreTyped DEF RestoreCore, Restore!RestoreTypeOK
  <2>6. Restore!WindowsAreApart' /\ Restore!HandedOnce'
    BY <2>4 DEF RestoreCore, Restore!WindowsAreApart, Restore!HandedOnce, Restore!Registered
  <2>7. Restore!MountedInTime'
    BY <2>2, <2>4 DEF RestoreCore, Restore!MountedInTime, Restore!Registered, Restore!Holders
  <2>8. Around'
    BY <1>0, <2>1, <2>3, <2>4 DEF RestoreCore, Around, Restore!Registered
  <2>9. Restore!ReportedAreStored' /\ (s7 => s13 \subseteq Restore!Tabs(s3))'
    BY <1>0, <2>4 DEF RestoreCore, Restore!ReportedAreStored, Restore!Tabs
  <2> QED
    BY <2>5, <2>6, <2>7, <2>8, <2>9 DEF RestoreCore
<1>3. CASE Restore!RestoredAtStart
  <2>1. /\ s4' = "up" /\ s7' = FALSE /\ s5 = Restore!NoPlan
        /\ UNCHANGED <<s1, s2, s5, s3, s8, s9, s10, s12, s13, s14, s15>>
        /\ \/ UNCHANGED <<s6, s11>>
           \/ \E w \in Restore!Label :
                /\ w = s11 + 1 /\ s11' = w
                /\ s6' = [s6 EXCEPT ![w] = Restore!Registering("normal", None, None, {})]
    BY <1>3 DEF Restore!RestoredAtStart, Restore!Allocate
  <2>2. /\ s6' \in Windowed /\ Restore!Registered \subseteq Restore!Registered'
        /\ s11' \in 0..MaxWindows
        /\ Restore!WindowsAreApart' /\ Restore!MountedInTime' /\ Restore!HandedOnce'
        /\ \A v \in Restore!Registered : s6'[v] = s6[v]
        /\ \A v \in Restore!Registered' \ Restore!Registered : s6'[v].session_tabs = {}
    <3>1. CASE UNCHANGED <<s6, s11>>
      <4>1. Restore!WindowsAreApart' /\ Restore!HandedOnce' /\ Restore!Registered' = Restore!Registered
        BY <2>1, <3>1 DEF RestoreCore, Restore!WindowsAreApart, Restore!HandedOnce, Restore!Registered
      <4>2. Restore!MountedInTime'
        BY <1>0, <2>1, <3>1 DEF RestoreCore, Restore!MountedInTime, Restore!Registered, Restore!Holders
      <4> QED
        BY <3>1, <4>1, <4>2, CoreTyped
    <3>2. ASSUME NEW w \in Restore!Label, w = s11 + 1, s11' = w,
                 s6' = [s6 EXCEPT ![w] = Restore!Registering("normal", None, None, {})]
          PROVE  /\ s6' \in Windowed /\ Restore!Registered' = Restore!Registered \cup {w}
                 /\ Restore!WindowsAreApart' /\ Restore!MountedInTime' /\ Restore!HandedOnce'
                 /\ \A v \in Restore!Registered : s6'[v] = s6[v]
                 /\ s6'[w].session_tabs = {}
      <4>1. s9' = s9 \cup ({None} \ {None}) /\ s4' # "down" /\ UNCHANGED <<s10, s14>>
        BY <2>1
      <4>2. None \in Workspace \cup {None} /\ {} \in SUBSET Drawing
        OBVIOUS
      <4> QED
        BY <1>0, <3>2, <4>1, <4>2, Added
    <3>3. \A w \in Restore!Label : w \in 0..MaxWindows
      BY DEF Restore!Label
    <3> QED
      BY <2>1, <3>1, <3>2, <3>3
  <2>3. Restore!RestoreTypeOK'
    BY <2>1, <2>2, CoreTyped DEF RestoreCore, Restore!RestoreTypeOK, Windowed
  <2>4. Around'
    BY <1>0, <2>1, <2>2 DEF RestoreCore, Around, Restore!Tabs
  <2>5. Restore!ReportedAreStored' /\ (s7 => s13 \subseteq Restore!Tabs(s3))'
    BY <1>0, <2>1, <2>2 DEF RestoreCore, Restore!ReportedAreStored, Restore!Tabs
  <2> QED
    BY <2>2, <2>3, <2>4, <2>5 DEF RestoreCore
<1>4. CASE Restore!RestoredAfterRecovery
  <2>1. PICK closing : /\ closing \in SUBSET {w \in Restore!Registered : w = s10 /\ s12 > 0
                                                 /\ s6[w].workspace = None /\ s6[w].tabs = {}}
                       /\ s6' = [w \in Restore!Label |-> IF w \in closing THEN None ELSE s6[w]]
    BY <1>4 DEF Restore!RestoredAfterRecovery
  <2>2. /\ s4' = "up" /\ s7' = FALSE /\ s3' = Restore!Snapshot /\ s5 = Restore!NoPlan
        /\ UNCHANGED <<s1, s2, s5, s8, s9, s10, s11, s12, s13, s14, s15>>
    BY <1>4 DEF Restore!RestoredAfterRecovery
  <2>3. /\ s6' \in Windowed /\ Restore!Registered' = Restore!Registered \ closing
        /\ \A v \in Restore!Registered \ closing : s6'[v] = s6[v]
        /\ \A w \in closing : /\ s6[w].workspace = None /\ s6[w].tabs = {}
                              /\ s6[w].restore = {} /\ s6[w].opening = {}
    <3>1. s6' \in Windowed
      BY <2>1, CoreTyped DEF Windowed
    <3>2. Restore!Registered' = Restore!Registered \ closing
      BY <2>1 DEF Restore!Registered
    <3>3. \A w \in closing : w \in Restore!Registered /\ w = s10
      BY <2>1
    <3> QED
      BY <2>1, <3>1, <3>2, <3>3, CoreTyped DEF RestoreCore, Restore!HandedOnce
  <2>4. Restore!RestoreTypeOK'
    BY <2>2, <2>3, CoreTyped, SnapshotTypes DEF RestoreCore, Restore!RestoreTypeOK, Windowed
  <2>5. Restore!WindowsAreApart' /\ Restore!HandedOnce'
    BY <1>0, <2>2, <2>3 DEF RestoreCore, Restore!WindowsAreApart, Restore!HandedOnce
  <2>6. Restore!MountedInTime'
    <3>1. \A a \in s9 : Restore!Holders(a)' = Restore!Holders(a)
      BY <2>3, CoreTyped DEF Restore!Holders
    <3> QED
      BY <1>0, <2>2, <2>3, <3>1 DEF RestoreCore, Restore!MountedInTime
  <2>7. Around'
    BY <1>0, <2>2, <2>3 DEF RestoreCore, Around, Restore!Tabs
  <2>8. Restore!ReportedAreStored'
    <3>1. \A w \in Restore!Registered : s6[w].session_tabs \subseteq Restore!Tabs(s3)'
      <4>1. PICK t : t = Restore!Snapshot
        OBVIOUS
      <4>2. \A w \in Restore!Registered : s6[w].session_tabs \subseteq Restore!Tabs(t)
        BY <4>1, CoreTyped, SnapshotTypes
      <4> QED
        BY <2>2, <4>1, <4>2 DEF Restore!Tabs
    <3> QED
      BY <1>0, <2>2, <2>3, <3>1 DEF Restore!ReportedAreStored
  <2> QED
    BY <2>2, <2>4, <2>5, <2>6, <2>7, <2>8 DEF RestoreCore
<1> QED
  BY <1>1, <1>2, <1>3, <1>4

LEMMA Launches ==
  ASSUME RestoreCore, NEW abnormal \in BOOLEAN, Restore!Launch(abnormal)
  PROVE  RestoreCore'
<1> USE RestoreAssumption
<1>0. /\ s4 = "down" /\ s7' = TRUE /\ s8' = FALSE /\ s10' = None /\ s12' = 0 /\ s14' = {} /\ s13' = s13 \cap s1
      /\ UNCHANGED <<s1, s2, s3, s15>>
      /\ s13' \subseteq Restore!Tabs(s3) /\ Restore!Registered = {} /\ \A w \in Restore!Label : s6[w] = None
  BY DEF Restore!Launch, RestoreCore, Restore!WindowsAreApart, Restore!ReportedAreStored, Restore!Registered
<1>1. Restore!Tabs(s3)' = Restore!Tabs(s3)
  BY <1>0 DEF Restore!Tabs
<1>2. CASE abnormal
  <2> DEFINE c == Restore!Registering("recovery", None, None, {})
  <2>1. c \in Restore!WindowRecord /\ c.workspace = None /\ c.restore = {} /\ c.opening = {} /\ ~c.bootstrapped
    BY Registers DEF Restore!Registering
  <2>2. /\ s4' = "recovery" /\ s5' = Restore!NoPlan /\ s6' = [s6 EXCEPT ![1] = c] /\ s11' = 1 /\ s9' = s9
    BY <1>2 DEF Restore!Launch
  <2> HIDE DEF c
  <2>3. /\ s6' \in Windowed /\ Restore!Registered' = {1} /\ s6'[1] = c
    <3>1. s6 \in Windowed /\ 1 \in Restore!Label
      BY CoreTyped DEF Restore!Label
    <3>2. s6' \in Windowed /\ \A w \in Restore!Label : s6'[w] = IF w = 1 THEN c ELSE None
      BY <1>0, <2>1, <2>2, <3>1 DEF Windowed
    <3> QED
      BY <2>1, <2>2, <3>1, <3>2 DEF Restore!Registered
  <2>4. s5' \in [Restore!Label -> Restore!Entry]
    BY <2>2, NothingIsPlanned
  <2>5. Restore!RestoreTypeOK'
    <3>1. s4' \in {"down", "recovery", "restoring", "up"} /\ s7' \in BOOLEAN /\ s8' \in BOOLEAN
      BY <1>0, <2>2
    <3>2. s10' \in Restore!Label \union {None} /\ s11' \in 0..MaxWindows /\ s12' \in Nat
      BY <1>0, <2>2
    <3>3. s14' \subseteq Workspace /\ s13' \subseteq Drawing
      BY <1>0, <2>2 DEF RestoreCore, Restore!RestoreTypeOK
    <3> QED
      BY <1>0, <2>2, <2>3, <2>4, <3>1, <3>2, <3>3 DEF RestoreCore, Restore!RestoreTypeOK, Windowed
  <2>6. Restore!WindowsAreApart' /\ Restore!MountedInTime' /\ Restore!HandedOnce'
    <3>1. Restore!WindowsAreApart'
      BY <1>0, <2>2, <2>3 DEF Restore!WindowsAreApart
    <3>2. Restore!MountedInTime'
      BY <1>0, <2>1, <2>2, <2>3 DEF Restore!MountedInTime
    <3>3. Restore!HandedOnce'
      BY <1>0, <2>1, <2>2, <2>3 DEF Restore!HandedOnce
    <3> QED
      BY <3>1, <3>2, <3>3
  <2> QED
    BY <1>0, <1>1, <2>2, <2>5, <2>6 DEF RestoreCore, Restore!ReportedAreStored, Around
<1>3. CASE ~abnormal
  <2>1. s4' = "restoring" /\ s5' = Restore!plan_restore(s3) /\ s9' = {} /\ s11' = 0 /\ UNCHANGED s6
    BY <1>3 DEF Restore!Launch
  <2>2. s5' \in [Restore!Label -> Restore!Entry] /\ Restore!Registered' = {}
    BY <1>0, <2>1, PlanTypes, CoreTyped DEF Restore!Registered
  <2>3. Restore!RestoreTypeOK'
    <3>1. s4' \in {"down", "recovery", "restoring", "up"} /\ s7' \in BOOLEAN /\ s8' \in BOOLEAN
      BY <1>0, <2>1
    <3>2. s10' \in Restore!Label \union {None} /\ s11' \in 0..MaxWindows /\ s12' \in Nat
      BY <1>0, <2>1
    <3>3. s14' \subseteq Workspace /\ s13' \subseteq Drawing /\ s9' \subseteq Workspace
      BY <1>0, <2>1 DEF RestoreCore, Restore!RestoreTypeOK
    <3> QED
      BY <1>0, <2>1, <2>2, <3>1, <3>2, <3>3 DEF RestoreCore, Restore!RestoreTypeOK
  <2>4. Restore!WindowsAreApart' /\ Restore!MountedInTime' /\ Restore!HandedOnce'
    BY <1>0, <2>1, <2>2 DEF Restore!WindowsAreApart, Restore!MountedInTime, Restore!HandedOnce
  <2>5. ASSUME NEW d \in s13' PROVE d \in Restore!Tabs(s5)'
    <3>1. PICK p : p = Restore!plan_restore(s3)
      OBVIOUS
    <3>2. d \in Restore!Tabs(p)
      BY <1>0, <3>1, PlanCovers, CoreTyped
    <3> QED
      BY <2>1, <3>1, <3>2 DEF Restore!Tabs
  <2> QED
    BY <1>0, <1>1, <2>1, <2>3, <2>4, <2>5 DEF RestoreCore, Restore!ReportedAreStored, Around
<1> QED
  BY <1>2, <1>3

LEMMA Recoveries ==
  ASSUME RestoreCore, NEW w \in Restore!Label, Restore!FinishRecovery(w)
  PROVE  RestoreCore'
<1> USE RestoreAssumption
<1>0. /\ w \in Restore!Registered /\ s6[w] \in Restore!WindowRecord /\ s6 \in Windowed
      /\ s4 = "recovery" /\ s7 /\ s13 \subseteq s1 /\ s13 \subseteq Restore!Tabs(s3)
      /\ s6[w].role = "recovery" /\ s6[w].restore = {} /\ s6[w].opening = {} /\ w <= s11
  BY CoreTyped DEF Restore!FinishRecovery, RestoreCore, Restore!ReportedAreStored, Restore!HandedOnce,
                   Restore!WindowsAreApart
<1> DEFINE c == [s6[w] EXCEPT !.role = "normal"]
<1>1. /\ c \in Restore!WindowRecord /\ c.workspace = s6[w].workspace /\ c.role = "normal"
      /\ c.restore = {} /\ c.opening = {} /\ c.tabs = s6[w].tabs
  BY <1>0 DEF Restore!WindowRecord
<1>2. PICK entries : entries = [i \in Restore!Label |-> Restore!NotOwned(s3[i])]
  OBVIOUS
<1>3. /\ s4' = "restoring" /\ s10' = w /\ s6' = [s6 EXCEPT ![w] = c]
      /\ s9' = {a \in s9 : Restore!Holders(a) # {}}
      /\ s5' = Restore!plan_restore(entries)
      /\ UNCHANGED <<s1, s2, s3, s7, s8, s11, s12, s13, s14, s15>>
  BY <1>2 DEF Restore!FinishRecovery
<1> HIDE DEF c
<1>4. /\ s6' \in Windowed /\ s6'[w] = c
      /\ \A v \in Restore!Label \ {w} : s6'[v] = s6[v]
      /\ Restore!Registered' = Restore!Registered
  <2>1. Restore!Registered \cup {w} = Restore!Registered
    BY <1>0
  <2> QED
    BY <1>0, <1>1, <1>3, <2>1, Altered
<1>5. entries \in [Restore!Label -> Restore!Entry]
  <2>1. \A i \in Restore!Label : Restore!NotOwned(s3[i]) \in Restore!Entry
    BY CoreTyped DEF Restore!NotOwned, Restore!Entry, Restore!Optional
  <2> QED
    BY <1>2, <2>1
<1>6. s5' \in [Restore!Label -> Restore!Entry]
  BY <1>3, <1>5, PlanTypes
<1>7. Restore!RestoreTypeOK'
  BY <1>0, <1>3, <1>4, <1>6, CoreTyped DEF RestoreCore, Restore!RestoreTypeOK, Windowed
<1>8. \A v \in Restore!Registered : /\ s6'[v].workspace = s6[v].workspace /\ s6'[v].tabs = s6[v].tabs
  BY <1>1, <1>4, CoreTyped
<1>9. Restore!WindowsAreApart'
  BY <1>0, <1>3, <1>4, <1>8 DEF RestoreCore, Restore!WindowsAreApart
<1>10. Restore!MountedInTime'
  <2>1. \A a \in s9 : Restore!Holders(a)' = Restore!Holders(a)
    BY <1>4, <1>8 DEF Restore!Holders
  <2>2. \A v \in Restore!Registered : s6[v].workspace # None => v \in Restore!Holders(s6[v].workspace)
    BY DEF Restore!Holders
  <2> QED
    BY <1>3, <1>4, <1>8, <2>1, <2>2 DEF RestoreCore, Restore!MountedInTime
<1>11. Restore!HandedOnce'
  BY <1>1, <1>3, <1>4, CoreTyped DEF RestoreCore, Restore!HandedOnce
<1>12. Restore!ReportedAreStored' /\ (s7 => s13 \subseteq Restore!Tabs(s3))'
  BY <1>0, <1>3 DEF RestoreCore, Restore!ReportedAreStored, Restore!Tabs
<1>13. Around'
  <2> SUFFICES ASSUME NEW d \in s13,
                      \A v \in Restore!Registered : d \notin s6[v].tabs
               PROVE  d \in Restore!Tabs(s5)'
    BY <1>3, <1>4, <1>8 DEF Around
  <2>1. PICK i \in Restore!Label : d \in s3[i].tabs
    BY <1>0 DEF Restore!Tabs
  <2>2. Restore!Owners(d) = {}
    BY DEF Restore!Owners
  <2>3. d \in entries[i].tabs
    BY <1>2, <2>1, <2>2 DEF Restore!NotOwned
  <2>4. d \in Restore!Tabs(entries)
    BY <2>3 DEF Restore!Tabs
  <2>5. PICK p : p = Restore!plan_restore(entries)
    OBVIOUS
  <2>6. d \in Restore!Tabs(p)
    BY <1>0, <1>5, <2>4, <2>5, PlanCovers
  <2> QED
    BY <1>3, <2>5, <2>6 DEF Restore!Tabs
<1> QED
  BY <1>7, <1>9, <1>10, <1>11, <1>12, <1>13 DEF RestoreCore

LEMMA Claims ==
  ASSUME RestoreCore, NEW w \in Restore!Label, NEW a \in Workspace, Restore!UserClaims(w, a)
  PROVE  RestoreCore'
<1> USE RestoreAssumption
<1>0. /\ w \in Restore!Registered /\ s6[w] \in Restore!WindowRecord /\ s6 \in Windowed
      /\ s15' \in 0..MaxEvents
      /\ \A v \in Restore!Registered : s6[v].workspace # a
  BY CoreTyped DEF Restore!UserClaims, Restore!Event, Restore!Holders
<1> DEFINE c == [s6[w] EXCEPT !.workspace = a]
<1>1. /\ c \in Restore!WindowRecord /\ c.workspace = a /\ c.role = s6[w].role
      /\ c.bootstrapped = s6[w].bootstrapped /\ c.restore = s6[w].restore /\ c.opening = s6[w].opening
      /\ c.tabs = s6[w].tabs /\ c.session_tabs = s6[w].session_tabs
  BY <1>0 DEF Restore!WindowRecord, Restore!Optional
<1>2. PICK left : left = s6[w].workspace
  OBVIOUS
<1>3. /\ s6' = [s6 EXCEPT ![w] = c] /\ s9' = (s9 \ {left}) \cup {a} /\ s14' = s14 \ {a}
      /\ s3' = IF s7 THEN s3 ELSE Restore!Snapshot'
      /\ UNCHANGED <<s1, s2, s4, s5, s7, s8, s10, s11, s12, s13>>
  BY <1>2 DEF Restore!UserClaims
<1> HIDE DEF c
<1>4. /\ s6' \in Windowed /\ s6'[w] = c
      /\ \A v \in Restore!Label \ {w} : s6'[v] = s6[v]
      /\ Restore!Registered' = Restore!Registered
  <2>1. Restore!Registered \cup {w} = Restore!Registered
    BY <1>0
  <2> QED
    BY <1>0, <1>1, <1>3, <2>1, Altered
<1>5. /\ Restore!Snapshot' \in [Restore!Label -> Restore!Entry]
      /\ \A v \in Restore!Registered' : s6'[v].session_tabs \subseteq Restore!Tabs(Restore!Snapshot)'
  <2>1. SnapshotIsTyped'
    BY SnapshotsAreTyped, PTL
  <2>2. Windowed' = Windowed
    BY DEF Windowed
  <2> QED
    BY <1>4, <2>1, <2>2 DEF SnapshotIsTyped
<1>6. Restore!RestoreTypeOK'
  BY <1>0, <1>3, <1>4, <1>5, CoreTyped DEF RestoreCore, Restore!RestoreTypeOK, Windowed
<1>7. \A v \in Restore!Registered : v # w => s6'[v] = s6[v]
  BY <1>4, CoreTyped
<1>8. Restore!WindowsAreApart'
  BY <1>0, <1>1, <1>3, <1>4, <1>7 DEF RestoreCore, Restore!WindowsAreApart
<1>9. Restore!MountedInTime'
  <2>1. \A v \in Restore!Registered : v # w /\ s6[v].workspace # None => s6[v].workspace # left
    BY <1>0, <1>2 DEF RestoreCore, Restore!WindowsAreApart
  <2>2. \A v \in Restore!Registered : s6'[v].workspace \in s9' \cup {None}
    BY <1>1, <1>3, <1>4, <1>7, <2>1 DEF RestoreCore, Restore!MountedInTime
  <2>3. ASSUME s4 \in {"restoring", "up"}, NEW b \in s9', b \notin s14' PROVE Restore!Holders(b)' # {}
    <3>1. CASE b = a
      BY <1>0, <1>1, <1>4, <3>1 DEF Restore!Holders
    <3>2. CASE b # a
      <4>1. PICK v \in Restore!Holders(b) : TRUE
        BY <1>3, <2>3, <3>2 DEF RestoreCore, Restore!MountedInTime
      <4>2. v # w
        BY <1>2, <1>3, <2>3, <3>2, <4>1 DEF Restore!Holders
      <4> QED
        BY <1>4, <1>7, <4>1, <4>2 DEF Restore!Holders
    <3> QED
      BY <3>1, <3>2
  <2> QED
    BY <1>3, <1>4, <2>2, <2>3 DEF Restore!MountedInTime
<1>10. Restore!HandedOnce'
  BY <1>0, <1>1, <1>3, <1>4, <1>7 DEF RestoreCore, Restore!HandedOnce
<1>11. Around'
  <2>1. \A v \in Restore!Registered : s6'[v].restore \cup s6'[v].opening \cup s6'[v].tabs =
                                      s6[v].restore \cup s6[v].opening \cup s6[v].tabs
    BY <1>1, <1>4, <1>7
  <2> QED
    BY <1>3, <1>4, <2>1 DEF RestoreCore, Around, Restore!Tabs
<1>12. Restore!ReportedAreStored' /\ (s7 => s13 \subseteq Restore!Tabs(s3))'
  <2>0. s4 # "down"
    BY <1>0 DEF RestoreCore, Restore!WindowsAreApart
  <2>1. CASE s7
    <3>1. s4 # "up"
      BY <2>0, <2>1 DEF RestoreCore, Restore!ReportedAreStored
    <3> QED
      BY <1>3, <2>0, <2>1, <3>1 DEF RestoreCore, Restore!ReportedAreStored, Restore!Tabs
  <2>2. CASE ~s7
    <3>1. \A v \in Restore!Registered' : s6'[v].session_tabs \subseteq Restore!Tabs(s3)'
      BY <1>3, <1>5, <2>2 DEF Restore!Tabs
    <3> QED
      BY <1>3, <2>0, <2>2, <3>1 DEF RestoreCore, Restore!ReportedAreStored
  <2> QED
    BY <2>1, <2>2
<1> QED
  BY <1>6, <1>8, <1>9, <1>10, <1>11, <1>12 DEF RestoreCore

LEMMA Closes ==
  ASSUME RestoreCore, NEW w \in Restore!Label, Restore!CloseWindow(w)
  PROVE  RestoreCore'
<1>0. /\ w \in Restore!Registered /\ s15' \in 0..MaxEvents /\ s8' = TRUE
      /\ s6' = [s6 EXCEPT ![w] = None] /\ s9' = s9 \ {s6[w].workspace}
      /\ s13' = s13 \ (s6[w].restore \cup s6[w].opening \cup s6[w].tabs)
      /\ UNCHANGED <<s1, s2, s3, s4, s5, s7, s10, s11, s12, s14>>
  BY CoreTyped, RestoreAssumption DEF Restore!CloseWindow, Restore!Event
<1>1. /\ s6' \in Windowed /\ Restore!Registered' = Restore!Registered \ {w}
      /\ \A v \in Restore!Registered' : s6'[v] = s6[v] /\ v # w
  <2>1. s6 \in Windowed /\ w \in Restore!Label
    BY CoreTyped
  <2>2. s6' \in Windowed /\ s6'[w] = None /\ \A v \in Restore!Label \ {w} : s6'[v] = s6[v]
    BY <1>0, <2>1 DEF Windowed
  <2> QED
    BY <2>2 DEF Restore!Registered
<1>2. Restore!RestoreTypeOK'
  BY <1>0, <1>1, CoreTyped DEF RestoreCore, Restore!RestoreTypeOK, Windowed
<1>3. Restore!WindowsAreApart' /\ Restore!HandedOnce'
  BY <1>0, <1>1 DEF RestoreCore, Restore!WindowsAreApart, Restore!HandedOnce
<1>4. Restore!MountedInTime'
  <2>1. \A v \in Restore!Registered' : s6[v].workspace # None => s6[v].workspace # s6[w].workspace
    BY <1>0, <1>1 DEF RestoreCore, Restore!WindowsAreApart
  <2>2. \A v \in Restore!Registered' : s6'[v].workspace \in s9' \cup {None}
    BY <1>0, <1>1, <2>1 DEF RestoreCore, Restore!MountedInTime
  <2>3. ASSUME s4 \in {"restoring", "up"}, NEW b \in s9', b \notin s14 PROVE Restore!Holders(b)' # {}
    <3>1. PICK v \in Restore!Holders(b) : TRUE
      BY <1>0, <2>3 DEF RestoreCore, Restore!MountedInTime
    <3>2. v # w /\ v \in Restore!Registered
      BY <1>0, <2>3, <3>1 DEF Restore!Holders
    <3> QED
      BY <1>1, <3>1, <3>2 DEF Restore!Holders
  <2> QED
    BY <1>0, <2>2, <2>3 DEF Restore!MountedInTime
<1>5. Around'
  BY <1>0, <1>1 DEF RestoreCore, Around, Restore!Tabs
<1>6. Restore!ReportedAreStored' /\ (s7 => s13 \subseteq Restore!Tabs(s3))'
  <2>0. s4 # "down"
    BY <1>0 DEF RestoreCore, Restore!WindowsAreApart
  <2> QED
    BY <1>0, <1>1, <2>0 DEF RestoreCore, Restore!ReportedAreStored, Restore!Tabs
<1> QED
  BY <1>2, <1>3, <1>4, <1>5, <1>6 DEF RestoreCore

LEMMA Ends ==
  ASSUME RestoreCore, Restore!Quit \/ Restore!Crash \/ Restore!DelayElapses
                      \/ (\E d \in Drawing : Restore!FileGone(d)) \/ \E a \in Workspace : Restore!RootGone(a)
  PROVE  RestoreCore'
<1>0. Restore!Event => s15' \in 0..MaxEvents
  BY CoreTyped, RestoreAssumption DEF Restore!Event
<1>1. CASE Restore!Quit \/ Restore!Crash
  <2>1. /\ s4' = "down" /\ s5' = Restore!NoPlan /\ s6' = [w \in Restore!Label |-> None]
        /\ s13' = Restore!Tabs(s3)' /\ s15' \in 0..MaxEvents /\ s3' \in {s3, Restore!Snapshot}
        /\ UNCHANGED <<s1, s2, s7, s8, s9, s10, s11, s12, s14>>
    BY <1>0, <1>1 DEF Restore!Quit, Restore!Crash, Restore!Down, Restore!Tabs
  <2>2. s6' \in Windowed /\ Restore!Registered' = {}
    BY <2>1 DEF Windowed, Restore!Registered
  <2>3. s3' \in [Restore!Label -> Restore!Entry] /\ s5' \in [Restore!Label -> Restore!Entry]
    BY <2>1, SnapshotTypes, NothingIsPlanned, CoreTyped
  <2>4. s13' \subseteq Drawing
    BY <2>1, <2>3 DEF Restore!Tabs, Restore!Entry
  <2>5. Restore!RestoreTypeOK'
    BY <2>1, <2>2, <2>3, <2>4, CoreTyped DEF RestoreCore, Restore!RestoreTypeOK, Windowed
  <2> QED
    BY <2>1, <2>2, <2>5 DEF RestoreCore, Restore!WindowsAreApart, Restore!MountedInTime, Restore!HandedOnce,
                            Restore!ReportedAreStored, Around
<1>2. ASSUME UNCHANGED <<s4, s5, s6, s7, s9, s10, s11, s12, s14>>, s13' \subseteq s13
      PROVE  Restore!WindowsAreApart' /\ Restore!MountedInTime' /\ Restore!HandedOnce' /\ Around'
  BY <1>2 DEF RestoreCore, Restore!WindowsAreApart, Restore!MountedInTime, Restore!HandedOnce,
              Around, Restore!Registered, Restore!Holders, Restore!Tabs
<1>3. CASE Restore!DelayElapses
  <2>1. /\ s4 # "down" /\ s8' = FALSE /\ s3' = IF s7 THEN s3 ELSE Restore!Snapshot
        /\ UNCHANGED <<s1, s2, s4, s5, s6, s7, s9, s10, s11, s12, s13, s14, s15>>
    BY <1>3 DEF Restore!DelayElapses
  <2>2. Restore!RestoreTypeOK'
    BY <2>1, SnapshotTypes, CoreTyped DEF RestoreCore, Restore!RestoreTypeOK
  <2>3. Restore!ReportedAreStored' /\ (s7 => s13 \subseteq Restore!Tabs(s3))'
    <3>1. CASE s7
      BY <2>1, <3>1 DEF RestoreCore, Restore!ReportedAreStored, Restore!Tabs
    <3>2. CASE ~s7
      <4>1. PICK t : t = Restore!Snapshot
        OBVIOUS
      <4>2. \A v \in Restore!Registered : s6[v].session_tabs \subseteq Restore!Tabs(t)
        BY <4>1, SnapshotTypes, CoreTyped
      <4>3. \A v \in Restore!Registered' : s6'[v].session_tabs \subseteq Restore!Tabs(s3)'
        BY <2>1, <3>2, <4>1, <4>2 DEF Restore!Tabs, Restore!Registered
      <4> QED
        BY <2>1, <3>2, <4>3 DEF RestoreCore, Restore!ReportedAreStored
    <3> QED
      BY <3>1, <3>2
  <2> QED
    BY <1>2, <2>1, <2>2, <2>3 DEF RestoreCore
<1>4. CASE (\E d \in Drawing : Restore!FileGone(d)) \/ \E a \in Workspace : Restore!RootGone(a)
  <2>1. /\ UNCHANGED <<s3, s4, s5, s6, s7, s8, s9, s10, s11, s12, s14>> /\ s15' \in 0..MaxEvents
        /\ s1' \subseteq s1 /\ s2' \subseteq s2 /\ s13' \subseteq s13 /\ s13 \cap (s1 \ s1') \cap s13' = {}
    BY <1>0, <1>4 DEF Restore!FileGone, Restore!RootGone
  <2>2. Restore!RestoreTypeOK'
    BY <2>1, CoreTyped DEF RestoreCore, Restore!RestoreTypeOK
  <2>3. Restore!ReportedAreStored' /\ (s7 => s13 \subseteq Restore!Tabs(s3))'
    BY <2>1 DEF RestoreCore, Restore!ReportedAreStored, Restore!Tabs, Restore!Registered
  <2> QED
    BY <1>2, <2>1, <2>2, <2>3 DEF RestoreCore
<1> QED
  BY <1>1, <1>3, <1>4

LEMMA RestoreKept ==
  ASSUME Restore!RestoreInv, Restore!RestoreNext
  PROVE  Restore!RestoreInv'
<1>1. RestoreCore
  BY CoreSuffices
<1>2. RestoreCore'
  BY <1>1, Launches, Recoveries, Restorations, Alterations, Claims, Closes, Ends DEF Restore!RestoreNext
<1>3. (RestoreCore <=> Restore!RestoreInv)'
  BY CoreSuffices, PTL
<1> QED
  BY <1>2, <1>3

LEMMA RestoreBegins == Restore!RestoreInit => Restore!RestoreInv
<1> SUFFICES ASSUME Restore!RestoreInit PROVE RestoreCore
  BY CoreSuffices
<1> USE DEF Restore!RestoreInit
<1>1. Restore!Registered = {}
  BY DEF Restore!Registered
<1>2. s9 \subseteq Workspace /\ s13 \subseteq Drawing
  BY DEF Restore!Tabs, Restore!Entry, Restore!Optional
<1>3. Restore!RestoreTypeOK
  <2>1. s4 \in {"down", "recovery", "restoring", "up"} /\ s7 \in BOOLEAN /\ s8 \in BOOLEAN
    OBVIOUS
  <2>3. s11 \in 0..MaxWindows /\ s12 \in Nat /\ s15 \in 0..MaxEvents
    BY RestoreAssumption
  <2>4. s6 \in [Restore!Label -> Restore!WindowRecord \union {None}]
    OBVIOUS
  <2>5. s14 \subseteq Workspace /\ s1 \subseteq Drawing /\ s2 \subseteq Workspace
    OBVIOUS
  <2>2. s3 \in [Restore!Label -> Restore!Entry] /\ s5 \in [Restore!Label -> Restore!Entry]
        /\ s10 \in Restore!Label \union {None}
    BY NothingIsPlanned
  <2> QED
    BY <1>2, <2>1, <2>2, <2>3, <2>4, <2>5 DEF Restore!RestoreTypeOK
<1> QED
  BY <1>1, <1>3 DEF RestoreCore, Restore!WindowsAreApart, Restore!MountedInTime, Restore!HandedOnce,
                    Restore!ReportedAreStored, Around

LEMMA RestoreStays == Restore!RestoreInv /\ UNCHANGED Restore!restoreVars => Restore!RestoreInv'
<1> SUFFICES ASSUME RestoreCore, UNCHANGED Restore!restoreVars PROVE RestoreCore'
  <2>1. (RestoreCore <=> Restore!RestoreInv)'
    BY CoreSuffices, PTL
  <2> QED
    BY <2>1, CoreSuffices
<1> QED
  BY DEF RestoreCore, Restore!restoreVars, Restore!RestoreTypeOK, Restore!WindowsAreApart, Restore!MountedInTime,
         Restore!HandedOnce, Restore!ReportedAreStored, Around, Restore!Registered, Restore!Holders, Restore!Tabs

LEMMA RestoreHolds == StoresSpec => [](setting = "restore" => Restore!RestoreInv)
<1> DEFINE Inv == setting = "restore" => Restore!RestoreInv
<1>1. StoresInit => Inv
  BY RestoreBegins DEF StoresInit
<1>2. Inv /\ [StoresNext]_stores => Inv'
  <2> SUFFICES ASSUME Inv, [StoresNext]_stores, (setting = "restore")' PROVE Restore!RestoreInv'
    OBVIOUS
  <2>1. setting = "restore" /\ (Restore!RestoreNext \/ UNCHANGED Restore!restoreVars)
    BY DEF StoresNext, stores, all, from9, from11, from12, from14, from16, others, Restore!restoreVars
  <2> QED
    BY <2>1, RestoreKept, RestoreStays
<1> QED
  BY <1>1, <1>2, PTL DEF StoresSpec, stores

\* Nothing of the last session that is still wanted is lost by a launch, by
\* Recovery or in the handshake: it is planned, handed to one window or shown,
\* and stored until the session may be stored anew (restore_session).
THEOREM SessionComesBackHolds == StoresSpec => []SessionComesBack
<1>1. (setting = "restore" => Restore!RestoreInv) => SessionComesBack
  BY DEF Restore!RestoreInv, SessionComesBack
<1> QED
  BY <1>1, RestoreHolds, PTL

\* When setup or Recovery is over, exactly the Workspaces of the windows are
\* mounted, but for those whose window could not be built.
THEOREM MountedAreOpenHolds == StoresSpec => []MountedAreOpen
<1>1. (setting = "restore" => Restore!RestoreInv) => MountedAreOpen
  BY DEF Restore!RestoreInv, MountedAreOpen
<1> QED
  BY <1>1, RestoreHolds, PTL

-----------------------------------------------------------------------------
(* The list of versions. *)

LEMMA Cards == \A S : Versions!Cardinality(S) = Cardinality(S)
BY DEF Versions!Cardinality, Cardinality

\* The latest of some versions are before none of the others.
LEMMA Orders ==
  ASSUME NEW a \in Versions!Key, NEW b \in Versions!Key
  PROVE  /\ ~(Versions!Before(a, b) /\ Versions!Before(b, a))
         /\ ~Versions!Before(a, a)
         /\ a # b => Versions!Before(a, b) \/ Versions!Before(b, a)
         /\ \A c \in Versions!Key : Versions!Before(a, b) /\ Versions!Before(b, c) => Versions!Before(a, c)
<1>1. \A c \in Versions!Key : c[1] \in Int /\ c[2] \in Int /\ c[3] \in Int /\ c = <<c[1], c[2], c[3]>>
  BY VersionsAssumption DEF Versions!Key, Versions!Id
<1>2. a # b => a[1] # b[1] \/ a[2] # b[2] \/ a[3] # b[3]
  BY <1>1
<1> QED
  BY <1>1, <1>2 DEF Versions!Before

LEMMA FiniteVersions ==
  ASSUME Versions!ListTypeOK, NEW S \in SUBSET s1
  PROVE  IsFiniteSet(S)
<1> DEFINE f == [v \in S |-> v.id]
<1>1. S \subseteq Versions!Version /\ \A u, v \in S : u.id = v.id => u = v
  BY DEF Versions!ListTypeOK
<1>2. f \in [S -> Versions!Id]
  BY <1>1 DEF Versions!Version
<1>3. f \in Injection(S, Versions!Id)
  BY <1>1, <1>2 DEF Injection, IsInjective
<1>4. IsFiniteSet(Versions!Id)
  BY FS_Interval, VersionsAssumption DEF Versions!Id
<1> HIDE DEF f
<1> QED
  BY <1>3, <1>4, FS_Injection

LEMMA Keys ==
  ASSUME Versions!ListTypeOK, NEW v \in s1
  PROVE  v \in Versions!Version /\ Versions!KeyOf(v) \in Versions!Key /\ v.id \in Versions!Id
         /\ \A u \in s1 : u # v => u.id # v.id /\ Versions!KeyOf(u) # Versions!KeyOf(v)
BY DEF Versions!ListTypeOK, Versions!KeyOf, Versions!Key, Versions!Version

\* What is later than one of the newest is one of them.
LEMMA NewestAreFirst ==
  ASSUME Versions!ListTypeOK, NEW S \in SUBSET s1, NEW n \in Nat,
         NEW v \in Versions!Newest(S, n), NEW u \in S, Versions!Later(u, v)
  PROVE  u \in Versions!Newest(S, n)
<1> DEFINE A == {x \in S : Versions!Later(x, u)}
           B == {x \in S : Versions!Later(x, v)}
<1>1. v \in S /\ Versions!Cardinality(B) < n
  BY DEF Versions!Newest
<1>2. A \subseteq B
  BY <1>1, Keys, Orders DEF Versions!Later
<1>3. IsFiniteSet(B)
  BY FiniteVersions
<1> HIDE DEF A, B
<1>4. IsFiniteSet(A) /\ Cardinality(A) <= Cardinality(B)
  BY <1>2, <1>3, FS_Subset
<1>5. Cardinality(A) \in Nat /\ Cardinality(B) \in Nat
  BY <1>3, <1>4, FS_CardinalityType
<1>6. Versions!Cardinality(A) < n
  BY <1>1, <1>4, <1>5, Cards
<1> QED
  BY <1>6 DEF Versions!Newest, A

LEMMA GreatestIsIn ==
  ASSUME NEW n \in Nat, NEW S \in SUBSET (0..n), S # {}
  PROVE  Versions!Max(S) \in S
<1> DEFINE R == {p \in Nat \X Nat : p[1] < p[2]}
           T == {n - i : i \in S}
<1>1. OpToRel(<, Nat) = R
  BY DEF OpToRel
<1>2. IsWellFoundedOn(R, Nat)
  BY <1>1, NatLessThanWellFounded
<1>3. T \subseteq Nat /\ T # {}
  <2>1. PICK i \in S : TRUE
    OBVIOUS
  <2>2. \A k \in S : n - k \in Nat
    OBVIOUS
  <2>3. n - i \in T
    BY <2>1
  <2> QED
    BY <2>2, <2>3
<1>4. PICK m \in T : \A k \in T : <<k, m>> \notin R
  BY <1>2, <1>3, WFMin
<1>5. PICK j \in S : m = n - j
  OBVIOUS
<1>6. ASSUME NEW i \in S PROVE i <= j
  <2>1. n - i \in T /\ n - i \in Nat /\ m \in Nat
    BY <1>3
  <2>2. ~(n - i < m)
    BY <1>4, <2>1
  <2> QED
    BY <1>5, <2>2
<1> HIDE DEF T, R
<1>7. \A i, k \in S : i \in Int /\ k \in Int
  OBVIOUS
<1>8. \E x \in S : \A y \in S : x >= y
  BY <1>6, <1>7
<1> QED
  BY <1>7, <1>8 DEF Versions!Max

LEMMA NextSequences ==
  ASSUME Versions!ListTypeOK
  PROVE  Versions!NextSequence \in 1..(MaxVersions + 1)
<1> DEFINE S == {v.sequence : v \in s1} \cup {0}
<1>1. S \in SUBSET (0..MaxVersions) /\ S # {}
  BY VersionsAssumption DEF Versions!ListTypeOK, Versions!Version
<1> HIDE DEF S
<1>2. Versions!Max(S) \in 0..MaxVersions
  BY <1>1, GreatestIsIn, VersionsAssumption
<1> QED
  BY <1>2, VersionsAssumption DEF Versions!NextSequence, S

\* What is published, changed, evicted or deleted leaves the reader's place alone.
LEMMA ChangeKeeps ==
  ASSUME Versions!ListInv, s9 # "done", UNCHANGED <<s8, s9, s10>>,
         s1' \subseteq Versions!Version,
         \A v \in s1' : \/ v.id \in s2' \ s2
                        \/ \E u \in s1 : u.id = v.id /\ Versions!KeyOf(u) = Versions!KeyOf(v),
         s2 \subseteq s2', s11' \subseteq s11, s11' \subseteq Versions!Ids(s1')
  PROVE  Versions!ListIsComplete' /\ Versions!ReadAreListed'
<1>0. Versions!ListTypeOK /\ Versions!ReadAreListed /\ Versions!ListIsComplete
  BY DEF Versions!ListInv
<1>1. \A u \in s1 : u.id \in s2
  BY <1>0 DEF Versions!ReadAreListed, Versions!Ids
<1>2. \A i \in Versions!Ids(s1') : i \in s2'
  BY <1>1 DEF Versions!Ids
<1>3. ASSUME NEW v \in s1', s9 = "yes"
      PROVE  /\ s10[v.id] = 1 => v \notin Versions!Unread'
             /\ v.id \in s11' /\ v \notin Versions!Unread' => s10[v.id] = 1
  <2>1. v.id \in Versions!Id /\ v \in Versions!Version
    BY DEF Versions!Version
  <2>2. CASE v.id \in s2' \ s2
    <3>1. v.id \notin s11
      BY <1>0, <2>2 DEF Versions!ReadAreListed
    <3>2. ~(s10[v.id] > 0) /\ s10[v.id] \in Nat
      BY <1>0, <2>1, <2>2 DEF Versions!ReadAreListed, Versions!ListTypeOK
    <3> QED
      BY <3>1, <3>2
  <2>3. ASSUME NEW u \in s1, u.id = v.id, Versions!KeyOf(u) = Versions!KeyOf(v)
        PROVE  /\ s10[v.id] = 1 => v \notin Versions!Unread'
               /\ v.id \in s11' /\ v \notin Versions!Unread' => s10[v.id] = 1
    <3>1. v \in Versions!Unread' <=> u \in Versions!Unread
      <4>1. (Versions!KeyOf(v))' = Versions!KeyOf(v)
        BY DEF Versions!KeyOf
      <4> QED
        BY <2>3, <4>1 DEF Versions!Unread, Versions!KeyOf
    <3> QED
      BY <1>0, <1>3, <2>3, <3>1 DEF Versions!ReadAreListed
  <2> QED
    BY <2>2, <2>3
<1>4. Versions!ListIsComplete'
  BY <1>0 DEF Versions!ListIsComplete
<1>5. s11' \subseteq Versions!Ids(s1') /\ \A i \in Versions!Id : s10[i] > 0 => i \in s2'
  BY <1>0 DEF Versions!ReadAreListed
<1>6. Versions!Ids(s1') = (Versions!Ids(s1))'
  BY DEF Versions!Ids
<1> QED
  BY <1>0, <1>2, <1>3, <1>4, <1>5, <1>6 DEF Versions!ReadAreListed

\* A new version is published, and others are evicted for it.
LEMMA NewIsTyped ==
  ASSUME Versions!ListInv, NEW i \in Versions!Id, NEW sequence \in 1..(MaxVersions + 1), NEW marked \in BOOLEAN,
         Versions!New(i, sequence, marked)
  PROVE  /\ s1' \subseteq Versions!Version /\ \A u, v \in s1' : u.id = v.id => u = v
         /\ s2' \subseteq Versions!Id /\ s2 \subseteq s2'
         /\ \A v \in s1' : v.id \in s2' \ s2 \/ \E u \in s1 : u.id = v.id /\ Versions!KeyOf(u) = Versions!KeyOf(v)
         /\ s11' \subseteq s11 /\ s11' \subseteq Versions!Ids(s1')
<1>0. Versions!ListTypeOK /\ \A u \in s1 : u.id \in s2
  BY DEF Versions!ListInv, Versions!ReadAreListed, Versions!Ids
<1> DEFINE new == [id |-> i, at |-> s4, sequence |-> sequence, marked |-> marked]
<1>1. /\ i \notin s2 /\ s2' = s2 \cup {i} /\ new \in Versions!Version /\ new.id = i
      /\ s1' \subseteq s1 \cup {new} /\ s11' = s11 \cap Versions!Ids(s1')
  <2>1. i \in Versions!Id \ s2 /\ s2' = s2 \cup {i} /\ sequence <= MaxVersions
    BY DEF Versions!New
  <2>2. sequence \in 1..MaxVersions /\ s4 \in 0..MaxTime
    BY <1>0, <2>1, VersionsAssumption DEF Versions!ListTypeOK
  <2>3. new \in Versions!Version
    BY <2>1, <2>2 DEF Versions!Version
  <2>4. s1' = IF marked THEN s1 \cup {new} ELSE Versions!Prune(s1 \cup {new})
    BY DEF Versions!New, Versions!Becomes
  <2>5. \A S : Versions!Prune(S) \subseteq S
    BY DEF Versions!Prune
  <2>6. s11' = s11 \cap Versions!Ids(s1')
    BY DEF Versions!New, Versions!Becomes
  <2>7. s1' \subseteq s1 \cup {new}
    BY <2>4, <2>5
  <2> QED
    BY <2>1, <2>3, <2>6, <2>7
<1> HIDE DEF new
<1> QED
  BY <1>0, <1>1 DEF Versions!ListTypeOK

LEMMA PublicationsKeep ==
  ASSUME Versions!ListInv, s9 # "done",
         Versions!Automatic \/ Versions!Protect \/ Versions!BeginMark \/ Versions!Mark
  PROVE  Versions!ListInv'
<1> USE VersionsAssumption
<1>0. Versions!ListTypeOK
  BY DEF Versions!ListInv
<1>1. UNCHANGED <<s4, s6, s7, s8, s9, s10>>
  BY DEF Versions!Automatic, Versions!Protect, Versions!BeginMark, Versions!Mark, Versions!readerVars
<1>2. s3' \in (0..MaxTime) \cup {None}
  BY <1>0 DEF Versions!Automatic, Versions!Protect, Versions!BeginMark, Versions!Mark, Versions!ListTypeOK
<1>3. s5' = None \/ s5' \in 1..(MaxVersions + 1)
  BY <1>0, NextSequences
     DEF Versions!Automatic, Versions!Protect, Versions!BeginMark, Versions!Mark, Versions!ListTypeOK
<1>4. \/ UNCHANGED <<s1, s2, s11>>
      \/ \E i \in Versions!Id, sequence \in 1..(MaxVersions + 1), marked \in BOOLEAN :
           Versions!New(i, sequence, marked)
  <2>1. CASE Versions!Automatic
    BY <1>0, <2>1, NextSequences DEF Versions!Automatic
  <2>2. CASE Versions!Protect
    BY <1>0, <2>2, NextSequences DEF Versions!Protect
  <2>3. CASE Versions!BeginMark
    BY <2>3 DEF Versions!BeginMark
  <2>4. CASE Versions!Mark
    BY <1>0, <2>4 DEF Versions!Mark, Versions!ListTypeOK
  <2> QED
    BY <2>1, <2>2, <2>3, <2>4
<1>5. CASE UNCHANGED <<s1, s2, s11>>
  <2>1. Versions!ListTypeOK'
    BY <1>0, <1>1, <1>2, <1>3, <1>5 DEF Versions!ListTypeOK
  <2>2. s11 \subseteq Versions!Ids(s1)
    BY DEF Versions!ListInv, Versions!ReadAreListed
  <2> QED
    BY <1>0, <1>1, <1>5, <2>1, <2>2, ChangeKeeps DEF Versions!ListInv, Versions!ListTypeOK
<1>6. ASSUME NEW i \in Versions!Id, NEW sequence \in 1..(MaxVersions + 1), NEW marked \in BOOLEAN,
             Versions!New(i, sequence, marked)
      PROVE  Versions!ListInv'
  <2>1. /\ s1' \subseteq Versions!Version /\ \A u, v \in s1' : u.id = v.id => u = v
        /\ s2' \subseteq Versions!Id /\ s2 \subseteq s2'
        /\ \A v \in s1' : v.id \in s2' \ s2 \/ \E u \in s1 : u.id = v.id /\ Versions!KeyOf(u) = Versions!KeyOf(v)
        /\ s11' \subseteq s11 /\ s11' \subseteq Versions!Ids(s1')
    BY <1>6, NewIsTyped
  <2>2. Versions!ListTypeOK'
    BY <1>0, <1>1, <1>2, <1>3, <2>1 DEF Versions!ListTypeOK
  <2> QED
    BY <1>1, <2>1, <2>2, ChangeKeeps DEF Versions!ListInv
<1> QED
  BY <1>4, <1>5, <1>6

LEMMA MarksKeep ==
  ASSUME Versions!ListInv, s9 # "done",
         NEW r \in Request, NEW i \in Versions!Id, NEW marked \in BOOLEAN, Versions!SetMarked(r, i, marked)
  PROVE  Versions!ListInv'
<1> USE VersionsAssumption
<1>0. Versions!ListTypeOK /\ s11 \subseteq Versions!Ids(s1)
  BY DEF Versions!ListInv, Versions!ReadAreListed
<1>1. UNCHANGED <<s2, s3, s4, s5, s8, s9, s10>>
  BY DEF Versions!SetMarked, Versions!readerVars
<1>2. CASE s6[r] # None
  <2>1. /\ s7' = [s7 EXCEPT ![r] = @ \union {s6[r].retained}] /\ UNCHANGED <<s1, s6, s11>>
        /\ s6[r].retained \in BOOLEAN
    BY <1>0, <1>2 DEF Versions!SetMarked, Versions!ListTypeOK, Versions!Receipt
  <2>2. s7' \in [Request -> SUBSET BOOLEAN]
    BY <1>0, <2>1 DEF Versions!ListTypeOK
  <2>3. Versions!ListTypeOK'
    BY <1>0, <1>1, <2>1, <2>2 DEF Versions!ListTypeOK
  <2> QED
    BY <1>0, <1>1, <2>1, <2>3, ChangeKeeps DEF Versions!ListInv, Versions!ListTypeOK
<1>3. CASE s6[r] = None
  <2> DEFINE set == {IF v.id = i THEN [v EXCEPT !.marked = marked] ELSE v : v \in s1}
             left == IF marked THEN set ELSE Versions!Prune(set)
             receipt == [id |-> i, marked |-> marked, retained |-> i \in Versions!Ids(left)]
  <2>1. /\ s1' = left /\ s11' = s11 \cap Versions!Ids(left)
        /\ s6' = [s6 EXCEPT ![r] = receipt] /\ s7' = [s7 EXCEPT ![r] = @ \union {i \in Versions!Ids(left)}]
    BY <1>3 DEF Versions!SetMarked, Versions!Becomes
  <2>2. \A v \in set : \E u \in s1 : v = IF u.id = i THEN [u EXCEPT !.marked = marked] ELSE u
    OBVIOUS
  <2>3. \A v \in set : v \in Versions!Version /\ \E u \in s1 :
          /\ u.id = v.id /\ Versions!KeyOf(u) = Versions!KeyOf(v)
          /\ v = IF u.id = i THEN [u EXCEPT !.marked = marked] ELSE u
    <3> SUFFICES ASSUME NEW v \in set
                 PROVE  v \in Versions!Version /\ \E u \in s1 :
                          /\ u.id = v.id /\ Versions!KeyOf(u) = Versions!KeyOf(v)
                          /\ v = IF u.id = i THEN [u EXCEPT !.marked = marked] ELSE u
      OBVIOUS
    <3>1. PICK u \in s1 : v = IF u.id = i THEN [u EXCEPT !.marked = marked] ELSE u
      BY <2>2
    <3>2. u \in Versions!Version
      BY <1>0 DEF Versions!ListTypeOK
    <3>3. v \in Versions!Version /\ v.id = u.id /\ v.at = u.at /\ v.sequence = u.sequence
      BY <3>1, <3>2 DEF Versions!Version
    <3> QED
      BY <3>1, <3>3 DEF Versions!KeyOf
  <2>4. left \subseteq set
    BY DEF Versions!Prune
  <2>5. (i \in Versions!Ids(left)) \in BOOLEAN
    OBVIOUS
  <2> HIDE DEF set, left
  <2>6. receipt \in Versions!Receipt
    BY <2>5 DEF Versions!Receipt
  <2> HIDE DEF receipt
  <2>7. s6' \in [Request -> Versions!Receipt \cup {None}] /\ s7' \in [Request -> SUBSET BOOLEAN]
    BY <1>0, <2>1, <2>5, <2>6 DEF Versions!ListTypeOK
  <2>8. s1' \subseteq Versions!Version /\ \A u, v \in s1' : u.id = v.id => u = v
    BY <1>0, <2>1, <2>3, <2>4 DEF Versions!ListTypeOK
  <2>9. Versions!ListTypeOK'
    BY <1>0, <1>1, <2>1, <2>7, <2>8 DEF Versions!ListTypeOK
  <2>10. s11' \subseteq s11 /\ s11' \subseteq Versions!Ids(s1')
    BY <2>1
  <2>11. \A v \in s1' : \E u \in s1 : u.id = v.id /\ Versions!KeyOf(u) = Versions!KeyOf(v)
    BY <2>1, <2>3, <2>4
  <2> QED
    BY <1>1, <2>8, <2>9, <2>10, <2>11, ChangeKeeps DEF Versions!ListInv
<1> QED
  BY <1>2, <1>3

LEMMA OthersKeepList ==
  ASSUME Versions!ListInv, s9 # "done",
         Versions!SetClock \/ \E v \in s1 : Versions!Delete(v)
  PROVE  Versions!ListInv'
<1>0. Versions!ListTypeOK /\ s11 \subseteq Versions!Ids(s1)
  BY DEF Versions!ListInv, Versions!ReadAreListed
<1>1. /\ UNCHANGED <<s2, s3, s5, s6, s7, s8, s9, s10>> /\ s4' \in 0..MaxTime /\ s1' \subseteq s1
      /\ s11' \subseteq s11 /\ s11' \subseteq Versions!Ids(s1')
  BY <1>0 DEF Versions!SetClock, Versions!Delete, Versions!readerVars, Versions!Becomes, Versions!ListTypeOK
<1>2. Versions!ListTypeOK'
  BY <1>0, <1>1 DEF Versions!ListTypeOK
<1>3. s1' \subseteq Versions!Version
  BY <1>0, <1>1 DEF Versions!ListTypeOK
<1> QED
  BY <1>1, <1>2, <1>3, ChangeKeeps DEF Versions!ListInv

\* A page gives what has not been given, and leaves behind the cursor only what has.
LEMMA ReadKeeps ==
  ASSUME Versions!ListInv, Versions!ReadPage
  PROVE  Versions!ListInv'
<1> USE VersionsAssumption
<1>0. Versions!ListTypeOK /\ Versions!ReadAreListed /\ Versions!ListIsComplete
  BY DEF Versions!ListInv
<1>1. PICK page : page = Versions!Newest(Versions!Unread, Page)
  OBVIOUS
<1>2. PICK rest : rest = Versions!Unread
  OBVIOUS
<1>3. /\ s9 \in {"no", "yes"} /\ page \subseteq rest /\ rest \subseteq s1
      /\ s10' = [i \in Versions!Id |-> IF i \in Versions!Ids(page) THEN s10[i] + 1 ELSE s10[i]]
      /\ s11' = IF s9 = "no" THEN Versions!Ids(s1) ELSE s11
      /\ UNCHANGED <<s1, s2, s3, s4, s5, s6, s7>>
  BY <1>0, <1>1, <1>2 DEF Versions!ReadPage, Versions!Gives, Versions!Newest, Versions!Unread, Versions!ListTypeOK
<1>4. s10 \in [Versions!Id -> Nat] /\ \A i \in Versions!Id : s10[i] \in {0, 1}
  BY <1>0 DEF Versions!ListTypeOK, Versions!ListIsComplete
<1>5. \A v \in rest : s10[v.id] = 0
  <2>1. \A v \in rest : v.id \in Versions!Id
    BY <1>0, <1>3, Keys
  <2> QED
    BY <1>0, <1>2, <1>3, <1>4, <2>1 DEF Versions!ReadAreListed
<1>6. \A v \in s1 : s10'[v.id] = IF v \in page THEN 1 ELSE s10[v.id]
  <2>1. \A v \in s1 : v.id \in Versions!Ids(page) <=> v \in page
    BY <1>0, <1>3, Keys DEF Versions!Ids
  <2> QED
    BY <1>0, <1>3, <1>5, <2>1, Keys
<1>7. s10' \in [Versions!Id -> Nat] /\ \A i \in Versions!Id : s10'[i] <= 1 /\ (s10'[i] > 0 => i \in s2)
  <2>1. \A i \in Versions!Ids(page) : s10[i] = 0 /\ i \in s2
    BY <1>0, <1>3, <1>5 DEF Versions!Ids, Versions!ReadAreListed
  <2> QED
    BY <1>0, <1>3, <1>4, <2>1 DEF Versions!ReadAreListed
<1>8. s11' \subseteq Versions!Ids(s1) /\ Versions!Ids(s1) \subseteq s2 /\ s2 \subseteq Versions!Id
  BY <1>0, <1>3 DEF Versions!ReadAreListed, Versions!ListTypeOK
<1>9. CASE page = rest
  <2>1. s9' = "done" /\ s8' = s8
    BY <1>1, <1>2, <1>9 DEF Versions!ReadPage, Versions!LastPage
  <2>2. Versions!ListTypeOK'
    BY <1>0, <1>3, <1>7, <1>8, <2>1 DEF Versions!ListTypeOK
  <2>3. ASSUME NEW i \in s11' PROVE s10'[i] = 1
    <3>1. PICK v \in s1 : v.id = i
      BY <1>8 DEF Versions!Ids
    <3>2. s9 = "no" => v \in rest
      BY <1>0, <1>2 DEF Versions!ReadAreListed, Versions!Unread
    <3>3. s9 = "yes" /\ v \notin rest => s10[i] = 1
      BY <1>0, <1>2, <1>3, <3>1 DEF Versions!ReadAreListed
    <3> QED
      BY <1>3, <1>6, <1>9, <3>1, <3>2, <3>3
  <2>4. Versions!ListIsComplete'
    BY <1>7, <2>3 DEF Versions!ListIsComplete
  <2>5. Versions!ReadAreListed'
    BY <1>3, <1>7, <1>8, <2>1 DEF Versions!ReadAreListed, Versions!Ids
  <2> QED
    BY <2>2, <2>4, <2>5 DEF Versions!ListInv
<1>10. CASE page # rest
  <2>1. PICK last \in page : /\ \A v \in page : v = last \/ Versions!Later(v, last)
                             /\ s9' = "yes" /\ s8' = Versions!KeyOf(last)
    BY <1>1, <1>2, <1>10 DEF Versions!ReadPage, Versions!NextPage
  <2>2. last \in s1 /\ s8' \in Versions!Key /\ s8' # None
    BY <1>0, <1>3, <2>1, Keys
  <2>3. Versions!ListTypeOK'
    BY <1>0, <1>3, <1>7, <1>8, <2>1, <2>2 DEF Versions!ListTypeOK
  <2>4. ASSUME NEW v \in s1
        PROVE  /\ v \in Versions!Unread' <=> Versions!Later(last, v)
               /\ v \in rest <=> s8 = None \/ Versions!Before(Versions!KeyOf(v), s8)
    <3>1. (Versions!KeyOf(v))' = Versions!KeyOf(v)
      BY DEF Versions!KeyOf
    <3>2. v \in Versions!Unread' <=> Versions!Before(Versions!KeyOf(v), s8')
      BY <1>3, <2>2, <3>1 DEF Versions!Unread, Versions!KeyOf
    <3> QED
      BY <1>2, <2>1, <3>2 DEF Versions!Later, Versions!Unread
  <2>5. ASSUME NEW v \in s1, s10'[v.id] = 1 PROVE v \notin Versions!Unread'
    <3>1. CASE v \in page
      <4>1. ~Versions!Later(last, v)
        BY <1>0, <2>1, <2>2, <3>1, Keys, Orders DEF Versions!Later
      <4> QED
        BY <2>4, <4>1
    <3>2. CASE v \notin page
      <4>1. s10[v.id] = 1 /\ v.id \in Versions!Id
        BY <1>0, <1>6, <2>5, <3>2, Keys
      <4>2. s9 = "yes" /\ v \notin rest /\ s8 # None /\ last \in rest
        BY <1>0, <1>2, <1>3, <1>4, <2>1, <4>1 DEF Versions!ReadAreListed
      <4>3. /\ ~Versions!Before(Versions!KeyOf(v), s8) /\ Versions!Before(Versions!KeyOf(last), s8)
            /\ s8 \in Versions!Key
        BY <1>0, <2>2, <2>4, <4>2 DEF Versions!ListTypeOK
      <4>4. ~Versions!Before(Versions!KeyOf(v), Versions!KeyOf(last))
        BY <1>0, <2>2, <4>3, Keys, Orders
      <4> QED
        BY <2>4, <4>4 DEF Versions!Later
    <3> QED
      BY <3>1, <3>2
  <2>6. ASSUME NEW v \in s1, v.id \in s11', v \notin Versions!Unread' PROVE s10'[v.id] = 1
    <3>1. CASE v \in page
      BY <1>6, <3>1
    <3>2. CASE v \in rest \ page
      <4>1. ~Versions!Later(last, v) /\ v # last
        BY <2>1, <2>4, <2>6, <3>2
      <4>2. Versions!Later(v, last)
        BY <1>0, <2>2, <4>1, Keys, Orders DEF Versions!Later
      <4>3. v \in page
        BY <1>0, <1>1, <1>2, <1>3, <2>1, <3>2, <4>2, NewestAreFirst
      <4> QED
        BY <3>2, <4>3
    <3>3. CASE v \notin rest
      <4>1. s9 = "yes"
        BY <1>0, <1>2, <1>3, <3>3 DEF Versions!ReadAreListed, Versions!Unread
      <4>2. s10[v.id] = 1
        BY <1>0, <1>2, <1>3, <2>6, <3>3, <4>1 DEF Versions!ReadAreListed
      <4> QED
        BY <1>3, <1>6, <3>3, <4>2
    <3> QED
      BY <3>1, <3>2, <3>3
  <2>7. Versions!ListIsComplete'
    BY <1>7, <2>1 DEF Versions!ListIsComplete
  <2>8. Versions!ReadAreListed'
    BY <1>3, <1>7, <1>8, <2>1, <2>2, <2>5, <2>6 DEF Versions!ReadAreListed, Versions!Ids
  <2> QED
    BY <2>3, <2>7, <2>8 DEF Versions!ListInv
<1> QED
  BY <1>9, <1>10

LEMMA ListKept ==
  ASSUME Versions!ListInv, Versions!ListNext
  PROVE  Versions!ListInv'
<1>1. s2 \subseteq Versions!Id
  BY DEF Versions!ListInv, Versions!ListTypeOK
<1>2. s9 # "done"
  BY DEF Versions!ListNext
<1> QED
  BY <1>1, <1>2, PublicationsKeep, MarksKeep, OthersKeepList, ReadKeeps DEF Versions!ListNext

LEMMA ListBegins == Versions!ListInit => Versions!ListInv
BY VersionsAssumption
   DEF Versions!ListInit, Versions!ListInv, Versions!ListTypeOK, Versions!ListIsComplete, Versions!ReadAreListed,
       Versions!Ids, Versions!Unread

LEMMA ListStays ==
  Versions!ListInv /\ UNCHANGED <<s1, s2, s3, s4, s5, s6, s7, s8, s9, s10, s11>> => Versions!ListInv'
BY DEF Versions!ListInv, Versions!ListTypeOK, Versions!ListIsComplete, Versions!ReadAreListed, Versions!Ids,
       Versions!Unread, Versions!KeyOf

LEMMA ListHolds == StoresSpec => [](setting = "versions" => Versions!ListInv)
<1> DEFINE Inv == setting = "versions" => Versions!ListInv
<1>1. StoresInit => Inv
  BY ListBegins DEF StoresInit
<1>2. Inv /\ [StoresNext]_stores => Inv'
  <2> SUFFICES ASSUME Inv, [StoresNext]_stores, (setting = "versions")' PROVE Versions!ListInv'
    OBVIOUS
  <2>1. setting = "versions" /\ (Versions!ListNext \/ UNCHANGED <<s1, s2, s3, s4, s5, s6, s7, s8, s9, s10, s11>>)
    BY DEF StoresNext, stores, all, from9, from11, others
  <2> QED
    BY <2>1, ListKept, ListStays
<1> QED
  BY <1>1, <1>2, PTL DEF StoresSpec, stores

\* A reader who goes through the list page by page is given no version twice, and
\* each one that was there all the time, whatever is published, evicted, marked
\* or deleted meanwhile, with equal numbers and a clock set back (query_list).
THEOREM ListIsCompleteHolds == StoresSpec => []ListIsComplete
<1>1. (setting = "versions" => Versions!ListInv) => ListIsComplete
  BY DEF Versions!ListInv, ListIsComplete
<1> QED
  BY <1>1, ListHolds, PTL

-----------------------------------------------------------------------------
(* The watcher's notices. *)

Notice == Watched \X Watcher!Raw
Brought == Watcher!Triplet \cup {Watcher!Orphaned}
Noticed(n, p) == \E i \in 1..Len(n) : n[i][1] = p

LEMMA Joined ==
  ASSUME NEW n \in Seq(Notice), NEW r \in Seq(Notice), NEW p
  PROVE  n \o r \in Seq(Notice) /\ (Noticed(n, p) \/ Noticed(r, p) => Noticed(n \o r, p))
<1>1. n \o r \in Seq(Notice) /\ Len(n \o r) = Len(n) + Len(r)
  OBVIOUS
<1>2. ASSUME NEW i \in 1..Len(n) PROVE i \in 1..Len(n \o r) /\ (n \o r)[i] = n[i]
  OBVIOUS
<1>3. ASSUME NEW i \in 1..Len(r) PROVE Len(n) + i \in 1..Len(n \o r) /\ (n \o r)[Len(n) + i] = r[i]
  OBVIOUS
<1> QED
  BY <1>1, <1>2, <1>3 DEF Noticed

LEMMA Appended ==
  ASSUME NEW n \in Seq(Notice), NEW x \in Notice, NEW p
  PROVE  /\ Append(n, x) \in Seq(Notice) /\ Noticed(Append(n, x), x[1])
         /\ Noticed(n, p) => Noticed(Append(n, x), p)
<1>1. Append(n, x) \in Seq(Notice) /\ Len(Append(n, x)) = Len(n) + 1 /\ Append(n, x)[Len(n) + 1] = x
  OBVIOUS
<1>2. \A i \in 1..Len(n) : Append(n, x)[i] = n[i] /\ i \in 1..Len(Append(n, x))
  OBVIOUS
<1>3. Len(n) + 1 \in 1..Len(Append(n, x))
  BY <1>1
<1> QED
  BY <1>1, <1>2, <1>3 DEF Noticed

LEMMA Shortened ==
  ASSUME NEW n \in Seq(Notice), n # <<>>, NEW p
  PROVE  /\ Tail(n) \in Seq(Notice) /\ Head(n) \in Notice
         /\ Noticed(n, p) => Head(n)[1] = p \/ Noticed(Tail(n), p)
<1>1. Tail(n) \in Seq(Notice) /\ Head(n) \in Notice /\ Len(Tail(n)) = Len(n) - 1 /\ Len(n) \in Nat
  OBVIOUS
<1>2. ASSUME NEW i \in 1..Len(n), i # 1 PROVE \E j \in 1..Len(Tail(n)) : Tail(n)[j] = n[i]
  <2>1. PICK j \in Int : j = i - 1
    OBVIOUS
  <2>4. PICK l \in Nat : l = Len(n)
    BY <1>1
  <2>5. i \in 1..l /\ i # 1 /\ j = i - 1
    BY <1>2, <2>1, <2>4
  <2>6. j \in 1..(l - 1) /\ j + 1 = i
    BY <2>5
  <2>2. j \in 1..Len(Tail(n)) /\ j + 1 = i
    BY <1>1, <2>4, <2>6
  <2>3. Tail(n)[j] = n[j + 1]
    BY <2>2
  <2> QED
    BY <2>2, <2>3
<1>3. n[1] = Head(n)
  OBVIOUS
<1> QED
  BY <1>1, <1>2, <1>3 DEF Noticed

\* Each report names the path, or both paths, that it is about.
LEMMA ReportsName ==
  ASSUME NEW p \in Watched
  PROVE  /\ \A r \in Watcher!Reports(p) \cup {<< <<p, "Created">> >>, << <<p, "Removed">> >>} :
              r \in Seq(Notice) /\ Noticed(r, p)
         /\ \A q \in Watched : \A r \in Watcher!MoveReports(p, q) :
              r \in Seq(Notice) /\ Noticed(r, p) /\ Noticed(r, q)
<1>1. ASSUME NEW k \in Watcher!Raw
      PROVE  << <<p, k>> >> \in Seq(Notice) /\ Noticed(<< <<p, k>> >>, p)
  BY DEF Notice, Noticed
<1>2. ASSUME NEW q \in Watched, NEW k \in Watcher!Raw, NEW l \in Watcher!Raw
      PROVE  /\ << <<p, k>>, <<q, l>> >> \in Seq(Notice)
             /\ Noticed(<< <<p, k>>, <<q, l>> >>, p) /\ Noticed(<< <<p, k>>, <<q, l>> >>, q)
  BY DEF Notice, Noticed
<1>3. "Created" \in Watcher!Raw /\ "Modified" \in Watcher!Raw /\ "Removed" \in Watcher!Raw
  BY DEF Watcher!Raw
<1> QED
  BY <1>1, <1>2, <1>3 DEF Watcher!Reports, Watcher!MoveReports

WatchCore ==
  Watcher!WatchTypeOK /\ Watcher!ChangesAreComing /\ Watcher!KnownAreTold /\ Watcher!TripletsAreMade

LEMMA OnItsWays ==
  ASSUME NEW p
  PROVE  Watcher!OnItsWay(p) <=> Noticed(s3, p) \/ s4[p] # None \/ \E c \in s5 : p \in {c.path, c.new}
BY DEF Watcher!OnItsWay, Noticed

LEMMA WatchTyped ==
  ASSUME WatchCore
  PROVE  /\ s1 \in [Watched -> Watcher!Triplet] /\ s6 \in [Watched -> Watcher!Triplet]
         /\ s8 \in [Watched -> Watcher!Triplet] /\ s9 \in [Watched -> Brought]
         /\ s2 \in 0..MaxWrites /\ s3 \in Seq(Notice) /\ s4 \in [Watched -> Watcher!Raw \cup {None}]
         /\ s5 \subseteq Watcher!Change /\ s7 \subseteq (1..MaxEchoes) \X Watched \X {"Created", "Removed"}
         /\ s10 \subseteq Watched /\ s11 \in 0..MaxChanges /\ s12 \in 0..MaxEchoes /\ s13 \subseteq Watched
BY DEF WatchCore, Watcher!WatchTypeOK, Notice, Brought

LEMMA WatchCoreSuffices == WatchCore <=> Watcher!WatchInv
<1> SUFFICES ASSUME WatchCore PROVE Watcher!ChangesAreTold
  BY DEF WatchCore, Watcher!WatchInv
<1>1. ASSUME Watcher!Quiet, NEW p \in Watched PROVE ~Watcher!OnItsWay(p)
  BY <1>1 DEF Watcher!Quiet, Watcher!OnItsWay
<1> QED
  BY <1>1 DEF WatchCore, Watcher!ChangesAreTold, Watcher!ChangesAreComing

\* What is on its way stays so when notices come, and what they name is.
LEMMA NoticesCome ==
  ASSUME WatchCore, NEW r \in Seq(Notice), s3' = s3 \o r, UNCHANGED <<s4, s5>>, NEW p
  PROVE  s3' \in Seq(Notice) /\ (Watcher!OnItsWay(p) \/ Noticed(r, p) => Watcher!OnItsWay(p)')
<1>1. s3 \in Seq(Notice)
  BY WatchTyped
<1>2. PICK t : t = s3 \o r
  OBVIOUS
<1>3. t \in Seq(Notice) /\ (Noticed(s3, p) \/ Noticed(r, p) => Noticed(t, p))
  BY <1>1, <1>2, Joined
<1>4. Watcher!OnItsWay(p)' <=> Noticed(t, p) \/ s4[p] # None \/ \E c \in s5 : p \in {c.path, c.new}
  BY <1>2 DEF Watcher!OnItsWay, Noticed
<1> QED
  BY <1>2, <1>3, <1>4, OnItsWays

LEMMA NoticeComes ==
  ASSUME WatchCore, NEW x \in Notice, s3' = Append(s3, x), UNCHANGED <<s4, s5>>, NEW p
  PROVE  s3' \in Seq(Notice) /\ (Watcher!OnItsWay(p) \/ p = x[1] => Watcher!OnItsWay(p)')
<1>1. s3 \in Seq(Notice)
  BY WatchTyped
<1>2. PICK t : t = Append(s3, x)
  OBVIOUS
<1>3. t \in Seq(Notice) /\ Noticed(t, x[1]) /\ (Noticed(s3, p) => Noticed(t, p))
  BY <1>1, <1>2, Appended
<1>4. Watcher!OnItsWay(p)' <=> Noticed(t, p) \/ s4[p] # None \/ \E c \in s5 : p \in {c.path, c.new}
  BY <1>2 DEF Watcher!OnItsWay, Noticed
<1> QED
  BY <1>2, <1>3, <1>4, OnItsWays

ToldOf(p) == s9[p] \in {None, Watcher!Orphaned, s1[p]}
KnownToldOf(p) == s6[p] = s1[p] => ToldOf(p) \/ s1[p] = None

\* The core, path by path.
LEMMA PathByPath ==
  WatchCore <=> /\ Watcher!WatchTypeOK
                /\ \A p \in Watched \ s10 : (ToldOf(p) \/ Watcher!OnItsWay(p)) /\ KnownToldOf(p)
                /\ \A p \in Watched : {s1[p], s6[p], s8[p]} \subseteq 1..s2 \cup {None}
BY DEF WatchCore, ToldOf, KnownToldOf, Watcher!ChangesAreComing, Watcher!KnownAreTold, Watcher!TripletsAreMade,
       Watcher!Stale, Watcher!Other

\* A step that changes files, announces them and tells the windows at most of
\* the paths in S keeps the core.
FilesTyped ==
  /\ s1' \in [Watched -> Watcher!Triplet] /\ s9' \in [Watched -> Brought]
  /\ s8' \in [Watched -> Watcher!Triplet] /\ s2' \in 0..MaxWrites /\ s2 <= s2' /\ s10' \subseteq Watched
  /\ s7' \subseteq (1..MaxEchoes) \X Watched \X {"Created", "Removed"}
  /\ s11' \in 0..MaxChanges /\ s12' \in 0..MaxEchoes /\ s3' \in Seq(Notice) /\ s13' \subseteq Watched
  /\ \A p \in Watched : {s1[p], s8[p]} \subseteq 1..s2 \cup {None} => {s1'[p], s8'[p]} \subseteq 1..s2' \cup {None}

Elsewhere(S) ==
  \A p \in Watched \ S : /\ s1'[p] = s1[p] /\ s9'[p] = s9[p] /\ (p \in s10 => p \in s10')
                         /\ Watcher!OnItsWay(p) => Watcher!OnItsWay(p)'

LEMMA FilesChange ==
  ASSUME WatchCore, NEW S \in SUBSET Watched, UNCHANGED <<s4, s5, s6>>, FilesTyped, Elsewhere(S),
         \A p \in S : p \notin s10' => (ToldOf(p)' \/ Watcher!OnItsWay(p)') /\ KnownToldOf(p)'
  PROVE  WatchCore'
<1> USE DEF FilesTyped, Elsewhere
<1>1. Watcher!WatchTypeOK'
  BY WatchTyped DEF Watcher!WatchTypeOK, Notice, Brought
<1>2. \A p \in Watched : {s1'[p], s6[p], s8'[p]} \subseteq 1..s2' \cup {None}
  <2>1. \A p \in Watched : {s1[p], s6[p], s8[p]} \subseteq 1..s2 \cup {None}
    BY PathByPath
  <2>2. 1..s2 \subseteq 1..s2'
    BY WatchTyped, WatcherAssumption
  <2> QED
    BY <2>1, <2>2
<1>3. ASSUME NEW p \in Watched \ s10' PROVE (ToldOf(p)' \/ Watcher!OnItsWay(p)') /\ KnownToldOf(p)'
  <2>1. CASE p \notin S
    <3>1. p \in Watched \ s10
      BY <2>1
    <3>2. (ToldOf(p) \/ Watcher!OnItsWay(p)) /\ KnownToldOf(p)
      BY <3>1, PathByPath
    <3>3. (ToldOf(p)' <=> ToldOf(p)) /\ (KnownToldOf(p)' <=> KnownToldOf(p))
      BY <2>1 DEF ToldOf, KnownToldOf
    <3> QED
      BY <2>1, <3>2, <3>3
  <2> QED
    BY <2>1
<1> QED
  BY <1>1, <1>2, <1>3 DEF WatchCore, ToldOf, KnownToldOf, Watcher!ChangesAreComing, Watcher!KnownAreTold, Watcher!Stale, Watcher!Other,
                          Watcher!TripletsAreMade

LEMMA StrangersKeep ==
  ASSUME WatchCore, NEW p \in Watched,
         \/ Watcher!StrangeWrite(p) \/ Watcher!StrangeDelete(p) \/ \E q \in Watched : Watcher!StrangeMove(p, q)
  PROVE  WatchCore'
<1> USE WatcherAssumption
<1>0. /\ UNCHANGED <<s4, s5, s6, s7, s8, s9, s12, s13>> /\ s11' \in 0..MaxChanges
  BY WatchTyped DEF Watcher!StrangeWrite, Watcher!StrangeDelete, Watcher!StrangeMove, Watcher!watcherVars,
                    Watcher!Changes
<1>4. /\ s9' \in [Watched -> Brought] /\ s8' \in [Watched -> Watcher!Triplet]
       /\ s7' \subseteq (1..MaxEchoes) \X Watched \X {"Created", "Removed"} /\ s12' \in 0..MaxEchoes
       /\ s13' \subseteq Watched
  BY <1>0, WatchTyped
<1>1. CASE Watcher!StrangeWrite(p)
  <2>1. /\ s2 < MaxWrites /\ s2' = s2 + 1 /\ s1' = [s1 EXCEPT ![p] = s2 + 1] /\ UNCHANGED s10
    BY <1>1 DEF Watcher!StrangeWrite, Watcher!NewTriplet
  <2>2. PICK r : /\ r \in Watcher!Reports(p) \cup {<< <<p, "Created">> >>, << <<p, "Removed">> >>}
                 /\ s3' = s3 \o r
    BY <1>1 DEF Watcher!StrangeWrite
  <2>3. r \in Seq(Notice) /\ Noticed(r, p)
    BY <2>2, ReportsName
  <2>4. /\ s1' \in [Watched -> Watcher!Triplet] /\ s1'[p] = s2 + 1 /\ s2' \in 0..MaxWrites
        /\ \A q \in Watched \ {p} : s1'[q] = s1[q]
    BY <2>1, WatchTyped DEF Watcher!Triplet
  <2>5. s6[p] # s1'[p]
    <3>1. s6[p] \in 1..s2 \cup {None} /\ s2 \in Nat
      BY WatchTyped, PathByPath
    <3> QED
      BY <2>4, <3>1
  <2>6. s3' \in Seq(Notice) /\ Watcher!OnItsWay(p)' /\ \A q : Watcher!OnItsWay(q) => Watcher!OnItsWay(q)'
    BY <1>0, <2>2, <2>3, NoticesCome
  <2>7. \A q \in Watched : {s1[q], s8[q]} \subseteq 1..s2 \cup {None} => {s1'[q], s8'[q]} \subseteq 1..s2' \cup {None}
    BY <1>0, <2>1, <2>4, WatchTyped
  <2>8. KnownToldOf(p)'
    BY <1>0, <2>5 DEF KnownToldOf
  <2>9. s2 <= s2'
    BY <2>1, WatchTyped
  <2>20. \A t \in Watched \ {p} : /\ s1'[t] = s1[t] /\ s9'[t] = s9[t] /\ (t \in s10 => t \in s10')
                                  /\ Watcher!OnItsWay(t) => Watcher!OnItsWay(t)'
    BY <1>0, <2>1, <2>4, <2>6, <2>7, <2>8, <2>9
  <2>21. \A t \in {p} : t \notin s10' => (ToldOf(t)' \/ Watcher!OnItsWay(t)') /\ KnownToldOf(t)'
    BY <2>1, <2>4, <2>6, <2>7, <2>8, <2>9
  <2>22. UNCHANGED <<s4, s5, s6>> /\ s10' \subseteq Watched /\ {p} \in SUBSET Watched
    BY <1>0, <2>1, <2>4, <2>6, <2>7, <2>8, <2>9, WatchTyped
  <2>23. FilesTyped
    BY <1>0, <1>4, <2>1, <2>4, <2>6, <2>7, <2>8, <2>9, <2>22 DEF FilesTyped
  <2>24. Elsewhere({p})
    BY <2>20 DEF Elsewhere
  <2> QED
    BY <2>21, <2>22, <2>23, <2>24, FilesChange
<1>2. CASE Watcher!StrangeDelete(p)
  <2>1. s1' = [s1 EXCEPT ![p] = None] /\ s3' = Append(s3, <<p, "Removed">>) /\ UNCHANGED <<s2, s10>>
    BY <1>2 DEF Watcher!StrangeDelete
  <2>2. <<p, "Removed">> \in Notice
    BY DEF Notice, Watcher!Raw
  <2>3. s3' \in Seq(Notice) /\ Watcher!OnItsWay(p)' /\ \A q : Watcher!OnItsWay(q) => Watcher!OnItsWay(q)'
    BY <1>0, <2>1, <2>2, NoticeComes
  <2>4. /\ s1' \in [Watched -> Watcher!Triplet] /\ s1'[p] = None
        /\ \A q \in Watched \ {p} : s1'[q] = s1[q]
    BY <2>1, WatchTyped DEF Watcher!Triplet
  <2>5. KnownToldOf(p)'
    BY <2>4 DEF KnownToldOf
  <2>6. \A q \in Watched : {s1[q], s8[q]} \subseteq 1..s2 \cup {None} => {s1'[q], s8'[q]} \subseteq 1..s2' \cup {None}
    BY <1>0, <2>1, <2>4
  <2>7. s2 <= s2' /\ s2' \in 0..MaxWrites
    BY <2>1, WatchTyped
  <2>20. \A t \in Watched \ {p} : /\ s1'[t] = s1[t] /\ s9'[t] = s9[t] /\ (t \in s10 => t \in s10')
                                  /\ Watcher!OnItsWay(t) => Watcher!OnItsWay(t)'
    BY <1>0, <2>1, <2>3, <2>4, <2>5, <2>6, <2>7
  <2>21. \A t \in {p} : t \notin s10' => (ToldOf(t)' \/ Watcher!OnItsWay(t)') /\ KnownToldOf(t)'
    BY <2>1, <2>3, <2>4, <2>5, <2>6, <2>7
  <2>22. UNCHANGED <<s4, s5, s6>> /\ s10' \subseteq Watched /\ {p} \in SUBSET Watched
    BY <1>0, <2>1, <2>3, <2>4, <2>5, <2>6, <2>7, WatchTyped
  <2>23. FilesTyped
    BY <1>0, <1>4, <2>1, <2>3, <2>4, <2>5, <2>6, <2>7, <2>22 DEF FilesTyped
  <2>24. Elsewhere({p})
    BY <2>20 DEF Elsewhere
  <2> QED
    BY <2>21, <2>22, <2>23, <2>24, FilesChange
<1>3. ASSUME NEW q \in Watched, Watcher!StrangeMove(p, q) PROVE WatchCore'
  <2>1. /\ p # q /\ s1' = [s1 EXCEPT ![q] = s1[p], ![p] = None] /\ UNCHANGED s2
        /\ s10' = IF s6[q] = s1[p] THEN s10 \union {q} ELSE s10
    BY <1>3 DEF Watcher!StrangeMove
  <2>2. PICK r \in Watcher!MoveReports(p, q) : s3' = s3 \o r
    BY <1>3 DEF Watcher!StrangeMove
  <2>3. r \in Seq(Notice) /\ Noticed(r, p) /\ Noticed(r, q)
    BY <2>2, ReportsName
  <2>4. /\ s3' \in Seq(Notice) /\ Watcher!OnItsWay(p)' /\ Watcher!OnItsWay(q)'
        /\ \A t : Watcher!OnItsWay(t) => Watcher!OnItsWay(t)'
    BY <1>0, <2>2, <2>3, NoticesCome
  <2>5. /\ s1' \in [Watched -> Watcher!Triplet] /\ s1'[p] = None /\ s1'[q] = s1[p]
        /\ \A t \in Watched \ {p, q} : s1'[t] = s1[t]
    BY <2>1, WatchTyped DEF Watcher!Triplet
  <2>6. KnownToldOf(p)' /\ (q \notin s10' => KnownToldOf(q)')
    BY <1>0, <2>1, <2>5 DEF KnownToldOf
  <2>7. \A t \in Watched : {s1[t], s8[t]} \subseteq 1..s2 \cup {None} => {s1'[t], s8'[t]} \subseteq 1..s2' \cup {None}
    <3>1. s1[p] \in 1..s2 \cup {None}
      BY PathByPath
    <3> QED
      BY <1>0, <2>1, <2>5, <3>1
  <2>8. s2 <= s2' /\ s2' \in 0..MaxWrites /\ s10' \subseteq Watched
    BY <2>1, WatchTyped
  <2>20. \A t \in Watched \ {p, q} : /\ s1'[t] = s1[t] /\ s9'[t] = s9[t] /\ (t \in s10 => t \in s10')
                                     /\ Watcher!OnItsWay(t) => Watcher!OnItsWay(t)'
    BY <1>0, <2>1, <2>4, <2>5, <2>6, <2>7, <2>8
  <2>21. \A t \in {p, q} : t \notin s10' => (ToldOf(t)' \/ Watcher!OnItsWay(t)') /\ KnownToldOf(t)'
    BY <2>1, <2>4, <2>5, <2>6, <2>7, <2>8
  <2>22. UNCHANGED <<s4, s5, s6>> /\ s10' \subseteq Watched /\ {p, q} \in SUBSET Watched
    BY <1>0, <2>1, <2>4, <2>5, <2>6, <2>7, <2>8, WatchTyped
  <2>23. FilesTyped
    BY <1>0, <1>4, <2>1, <2>4, <2>5, <2>6, <2>7, <2>8, <2>22 DEF FilesTyped
  <2>24. Elsewhere({p, q})
    BY <2>20 DEF Elsewhere
  <2> QED
    BY <2>21, <2>22, <2>23, <2>24, FilesChange
<1> QED
  BY <1>1, <1>2, <1>3

LEMMA Announced ==
  ASSUME WatchCore, NEW e \in SUBSET (Watched \X {"Created", "Removed"}), Watcher!Announce(e)
  PROVE  s7' \subseteq (1..MaxEchoes) \X Watched \X {"Created", "Removed"} /\ s12' \in 0..MaxEchoes
<1>1. s12 < MaxEchoes /\ s12' = s12 + 1 /\ s12 \in 0..MaxEchoes
  BY WatchTyped DEF Watcher!Announce
<1>2. s12' \in 1..MaxEchoes
  BY <1>1, WatcherAssumption
<1>3. s7' = s7 \union {<<s12', x[1], x[2]>> : x \in e}
  BY DEF Watcher!Announce
<1> QED
  BY <1>2, <1>3, WatchTyped

LEMMA OwnStepsKeep ==
  ASSUME WatchCore, NEW p \in Watched,
         Watcher!OwnWrite(p) \/ Watcher!DeleteEntry(p) \/ \E q \in Watched : Watcher!RenameEntry(p, q)
  PROVE  WatchCore'
<1> USE WatcherAssumption
<1>0. UNCHANGED <<s4, s5, s6>> /\ s11' \in 0..MaxChanges
  <2>1. UNCHANGED <<s4, s5, s6>> /\ s11 < MaxChanges /\ s11' = s11 + 1
    BY DEF Watcher!OwnWrite, Watcher!DeleteEntry, Watcher!RenameEntry, Watcher!watcherVars, Watcher!Changes
  <2> QED
    BY <2>1, WatchTyped
<1>1. CASE Watcher!OwnWrite(p)
  <2>1. /\ s2 < MaxWrites /\ s2' = s2 + 1 /\ s1' = [s1 EXCEPT ![p] = s2 + 1]
        /\ s9' = [s9 EXCEPT ![p] = s2 + 1] /\ s8' = [s8 EXCEPT ![p] = s2 + 1] /\ s10' = s10 \ {p}
        /\ s13' = s13 \union {p} /\ UNCHANGED <<s7, s12>>
    BY <1>1 DEF Watcher!OwnWrite, Watcher!NewTriplet
  <2>2. PICK r : /\ r \in Watcher!Reports(p) \cup {<< <<p, "Created">> >>, << <<p, "Removed">> >>}
                 /\ s3' = s3 \o r
    BY <1>1 DEF Watcher!OwnWrite
  <2>3. r \in Seq(Notice) /\ Noticed(r, p)
    BY <2>2, ReportsName
  <2>4. s2 + 1 \in Watcher!Triplet \cap Brought /\ s2' \in 0..MaxWrites /\ s2 <= s2' /\ s13' \subseteq Watched
    BY <2>1, WatchTyped DEF Watcher!Triplet, Brought
  <2>5. /\ s1' \in [Watched -> Watcher!Triplet] /\ s8' \in [Watched -> Watcher!Triplet]
        /\ s9' \in [Watched -> Brought]
        /\ s1'[p] = s2 + 1 /\ s8'[p] = s2 + 1 /\ s9'[p] = s2 + 1
        /\ \A q \in Watched \ {p} : s1'[q] = s1[q] /\ s8'[q] = s8[q] /\ s9'[q] = s9[q]
    BY <2>1, <2>4, WatchTyped
  <2>6. s3' \in Seq(Notice) /\ \A q : Watcher!OnItsWay(q) => Watcher!OnItsWay(q)'
    BY <1>0, <2>2, <2>3, NoticesCome
  <2>7. \A q \in Watched : {s1[q], s8[q]} \subseteq 1..s2 \cup {None} => {s1'[q], s8'[q]} \subseteq 1..s2' \cup {None}
    BY <2>1, <2>5, WatchTyped
  <2>8. ToldOf(p)' /\ KnownToldOf(p)'
    BY <2>5 DEF ToldOf, KnownToldOf
  <2>20. \A t \in Watched \ {p} : /\ s1'[t] = s1[t] /\ s9'[t] = s9[t] /\ (t \in s10 => t \in s10')
                                  /\ Watcher!OnItsWay(t) => Watcher!OnItsWay(t)'
    BY <1>0, <2>1, <2>4, <2>5, <2>6, <2>7, <2>8
  <2>21. \A t \in {p} : t \notin s10' => (ToldOf(t)' \/ Watcher!OnItsWay(t)') /\ KnownToldOf(t)'
    BY <2>1, <2>4, <2>5, <2>6, <2>7, <2>8
  <2>22. UNCHANGED <<s4, s5, s6>> /\ s10' \subseteq Watched /\ {p} \in SUBSET Watched
    BY <1>0, <2>1, <2>4, <2>5, <2>6, <2>7, <2>8, WatchTyped
  <2>23. s7' \subseteq (1..MaxEchoes) \X Watched \X {"Created", "Removed"} /\ s12' \in 0..MaxEchoes
    BY <2>1, WatchTyped
  <2>30. /\ s1' \in [Watched -> Watcher!Triplet] /\ s9' \in [Watched -> Brought]
         /\ s8' \in [Watched -> Watcher!Triplet] /\ s2' \in 0..MaxWrites /\ s2 <= s2'
         /\ s7' \subseteq (1..MaxEchoes) \X Watched \X {"Created", "Removed"}
         /\ s11' \in 0..MaxChanges /\ s12' \in 0..MaxEchoes /\ s3' \in Seq(Notice) /\ s13' \subseteq Watched
    BY <1>0, <2>4, <2>5, <2>6, <2>23
  <2>31. FilesTyped
    BY <2>7, <2>22, <2>30 DEF FilesTyped
  <2>32. Elsewhere({p})
    BY <2>20 DEF Elsewhere
  <2> QED
    BY <2>21, <2>22, <2>31, <2>32, FilesChange
<1>2. CASE Watcher!DeleteEntry(p)
  <2>1. /\ s1' = [s1 EXCEPT ![p] = None] /\ s9' = [s9 EXCEPT ![p] = None] /\ s10' = s10 \ {p}
        /\ s3' = Append(s3, <<p, "Removed">>) /\ UNCHANGED <<s2, s8, s13>>
    BY <1>2 DEF Watcher!DeleteEntry
  <2>2. <<p, "Removed">> \in Notice
    BY DEF Notice, Watcher!Raw
  <2>3. s3' \in Seq(Notice) /\ \A q : Watcher!OnItsWay(q) => Watcher!OnItsWay(q)'
    BY <1>0, <2>1, <2>2, NoticeComes
  <2>4. /\ s1' \in [Watched -> Watcher!Triplet] /\ s1'[p] = None
        /\ s9' \in [Watched -> Brought] /\ s9'[p] = None
        /\ \A q \in Watched \ {p} : s1'[q] = s1[q] /\ s9'[q] = s9[q]
    BY <2>1, WatchTyped DEF Watcher!Triplet, Brought
  <2>5. ToldOf(p)' /\ KnownToldOf(p)'
    BY <2>4 DEF KnownToldOf, ToldOf
  <2>6. \A q \in Watched : {s1[q], s8[q]} \subseteq 1..s2 \cup {None} => {s1'[q], s8'[q]} \subseteq 1..s2' \cup {None}
    BY <2>1, <2>4
  <2>7. s2 <= s2' /\ s2' \in 0..MaxWrites /\ s13' \subseteq Watched
    BY <2>1, WatchTyped
  <2>8. s7' \subseteq (1..MaxEchoes) \X Watched \X {"Created", "Removed"} /\ s12' \in 0..MaxEchoes
    BY <1>2, Announced DEF Watcher!DeleteEntry
  <2>9. s8' \in [Watched -> Watcher!Triplet]
    BY <2>1, WatchTyped
  <2>20. \A t \in Watched \ {p} : /\ s1'[t] = s1[t] /\ s9'[t] = s9[t] /\ (t \in s10 => t \in s10')
                                  /\ Watcher!OnItsWay(t) => Watcher!OnItsWay(t)'
    BY <1>0, <2>1, <2>3, <2>4, <2>5, <2>6, <2>7, <2>8, <2>9
  <2>21. \A t \in {p} : t \notin s10' => (ToldOf(t)' \/ Watcher!OnItsWay(t)') /\ KnownToldOf(t)'
    BY <2>1, <2>3, <2>4, <2>5, <2>6, <2>7, <2>8, <2>9
  <2>22. UNCHANGED <<s4, s5, s6>> /\ s10' \subseteq Watched /\ {p} \in SUBSET Watched
    BY <1>0, <2>1, <2>3, <2>4, <2>5, <2>6, <2>7, <2>8, <2>9, WatchTyped
  <2>30. /\ s1' \in [Watched -> Watcher!Triplet] /\ s9' \in [Watched -> Brought]
         /\ s8' \in [Watched -> Watcher!Triplet] /\ s2' \in 0..MaxWrites /\ s2 <= s2'
         /\ s7' \subseteq (1..MaxEchoes) \X Watched \X {"Created", "Removed"}
         /\ s11' \in 0..MaxChanges /\ s12' \in 0..MaxEchoes /\ s3' \in Seq(Notice) /\ s13' \subseteq Watched
    BY <1>0, <2>3, <2>4, <2>7, <2>8, <2>9
  <2>31. FilesTyped
    BY <2>6, <2>22, <2>30 DEF FilesTyped
  <2>32. Elsewhere({p})
    BY <2>20 DEF Elsewhere
  <2> QED
    BY <2>21, <2>22, <2>31, <2>32, FilesChange
<1>3. ASSUME NEW q \in Watched, Watcher!RenameEntry(p, q) PROVE WatchCore'
  <2>1. /\ p # q /\ s1' = [s1 EXCEPT ![q] = s1[p], ![p] = None]
        /\ s9' = [s9 EXCEPT ![q] = IF s9[p] = None THEN @ ELSE s9[p], ![p] = None] /\ UNCHANGED <<s2, s8, s13>>
        /\ s10' = (s10 \ {p}) \union
             (IF p \in s10 \/ s6[q] = s1[p] \/ Watcher!Meet(p, q) THEN {q} ELSE {})
    BY <1>3 DEF Watcher!RenameEntry
  <2>2. PICK r \in Watcher!MoveReports(p, q) : s3' = s3 \o r
    BY <1>3 DEF Watcher!RenameEntry
  <2>3. r \in Seq(Notice) /\ Noticed(r, p) /\ Noticed(r, q)
    BY <2>2, ReportsName
  <2>4. /\ s3' \in Seq(Notice) /\ Watcher!OnItsWay(p)' /\ Watcher!OnItsWay(q)'
        /\ \A t : Watcher!OnItsWay(t) => Watcher!OnItsWay(t)'
    BY <1>0, <2>2, <2>3, NoticesCome
  <2>5. /\ s1' \in [Watched -> Watcher!Triplet] /\ s1'[p] = None /\ s1'[q] = s1[p]
        /\ s9' \in [Watched -> Brought] /\ s9'[p] = None
        /\ \A t \in Watched \ {p, q} : s1'[t] = s1[t] /\ s9'[t] = s9[t]
    BY <2>1, WatchTyped DEF Watcher!Triplet, Brought
  <2>6. KnownToldOf(p)' /\ (q \notin s10' => KnownToldOf(q)')
    BY <1>0, <2>1, <2>5 DEF KnownToldOf
  <2>7. \A t \in Watched : {s1[t], s8[t]} \subseteq 1..s2 \cup {None} => {s1'[t], s8'[t]} \subseteq 1..s2' \cup {None}
    <3>1. s1[p] \in 1..s2 \cup {None}
      BY PathByPath
    <3> QED
      BY <2>1, <2>5, <3>1
  <2>8. /\ s2 <= s2' /\ s2' \in 0..MaxWrites /\ s10' \subseteq Watched /\ s13' \subseteq Watched
        /\ s8' \in [Watched -> Watcher!Triplet]
    BY <2>1, WatchTyped
  <2>9. s7' \subseteq (1..MaxEchoes) \X Watched \X {"Created", "Removed"} /\ s12' \in 0..MaxEchoes
    BY <1>3, Announced DEF Watcher!RenameEntry
  <2>20. \A t \in Watched \ {p, q} : /\ s1'[t] = s1[t] /\ s9'[t] = s9[t] /\ (t \in s10 => t \in s10')
                                     /\ Watcher!OnItsWay(t) => Watcher!OnItsWay(t)'
    BY <1>0, <2>1, <2>4, <2>5, <2>6, <2>7, <2>8, <2>9
  <2>21. \A t \in {p, q} : t \notin s10' => (ToldOf(t)' \/ Watcher!OnItsWay(t)') /\ KnownToldOf(t)'
    BY <2>1, <2>4, <2>5, <2>6, <2>7, <2>8, <2>9
  <2>22. UNCHANGED <<s4, s5, s6>> /\ s10' \subseteq Watched /\ {p, q} \in SUBSET Watched
    BY <1>0, <2>1, <2>4, <2>5, <2>6, <2>7, <2>8, <2>9, WatchTyped
  <2>30. /\ s1' \in [Watched -> Watcher!Triplet] /\ s9' \in [Watched -> Brought]
         /\ s8' \in [Watched -> Watcher!Triplet] /\ s2' \in 0..MaxWrites /\ s2 <= s2'
         /\ s7' \subseteq (1..MaxEchoes) \X Watched \X {"Created", "Removed"}
         /\ s11' \in 0..MaxChanges /\ s12' \in 0..MaxEchoes /\ s3' \in Seq(Notice) /\ s13' \subseteq Watched
    BY <1>0, <2>4, <2>5, <2>8, <2>9
  <2>31. FilesTyped
    BY <2>7, <2>22, <2>30 DEF FilesTyped
  <2>32. Elsewhere({p, q})
    BY <2>20 DEF Elsewhere
  <2> QED
    BY <2>21, <2>22, <2>31, <2>32, FilesChange
<1> QED
  BY <1>1, <1>2, <1>3

LEMMA NotesKeep ==
  ASSUME WatchCore, (\E p \in Watched : Watcher!NoteOwnWrite(p)) \/ Watcher!ForgetEchoes
  PROVE  WatchCore'
<1> USE WatcherAssumption
<1>1. ASSUME NEW p \in Watched, Watcher!NoteOwnWrite(p) PROVE WatchCore'
  <2>1. /\ s6' = [s6 EXCEPT ![p] = s8[p]] /\ s8' = [s8 EXCEPT ![p] = None]
        /\ s10' = IF {s1[p], s9[p]} # {s8[p]} THEN s10 \union {p} ELSE s10
        /\ UNCHANGED <<s1, s2, s3, s4, s5, s7, s9, s11, s12, s13>>
    BY <1>1 DEF Watcher!NoteOwnWrite
  <2>2. s6' \in [Watched -> Watcher!Triplet] /\ s8' \in [Watched -> Watcher!Triplet] /\ s10' \subseteq Watched
    BY <2>1, WatchTyped DEF Watcher!Triplet
  <2>3. Watcher!WatchTypeOK'
    BY <2>1, <2>2 DEF WatchCore, Watcher!WatchTypeOK
  <2>4. \A t \in Watched : {s1'[t], s6'[t], s8'[t]} \subseteq 1..s2' \cup {None}
    BY <2>1, WatchTyped, PathByPath
  <2>5. ASSUME NEW t \in Watched \ s10' PROVE (ToldOf(t)' \/ Watcher!OnItsWay(t)') /\ KnownToldOf(t)'
    <3>1. (ToldOf(t) \/ Watcher!OnItsWay(t)) /\ KnownToldOf(t) /\ (t = p => s9[t] = s1[t])
      BY <2>1, PathByPath
    <3>2. (ToldOf(t)' <=> ToldOf(t)) /\ (Watcher!OnItsWay(t)' <=> Watcher!OnItsWay(t))
      BY <2>1 DEF ToldOf, Watcher!OnItsWay
    <3>3. KnownToldOf(t)'
      BY <2>1, <3>1, WatchTyped DEF KnownToldOf, ToldOf
    <3> QED
      BY <3>1, <3>2, <3>3
  <2> QED
    BY <2>3, <2>4, <2>5 DEF WatchCore, ToldOf, KnownToldOf, Watcher!ChangesAreComing, Watcher!KnownAreTold, Watcher!Stale, Watcher!Other,
                            Watcher!TripletsAreMade
<1>2. CASE Watcher!ForgetEchoes
  <2>1. s7' \subseteq s7 /\ UNCHANGED <<s1, s2, s3, s4, s5, s6, s8, s9, s10, s11, s12, s13>>
    BY <1>2 DEF Watcher!ForgetEchoes, Watcher!watcherVars
  <2> QED
    BY <2>1 DEF WatchCore, Watcher!WatchTypeOK, Watcher!ChangesAreComing, Watcher!KnownAreTold, Watcher!Stale, Watcher!Other,
                Watcher!TripletsAreMade, Watcher!OnItsWay
<1> QED
  BY <1>1, <1>2

\* A step of the task that carries notices on keeps the core.
LEMMA CarriedOn ==
  ASSUME WatchCore, UNCHANGED <<s1, s2, s6, s7, s8, s9, s10, s11, s12, s13>>,
         s3' \in Seq(Notice), s4' \in [Watched -> Watcher!Raw \cup {None}], s5' \subseteq Watcher!Change,
         \A p \in Watched : Watcher!OnItsWay(p) => Watcher!OnItsWay(p)'
  PROVE  WatchCore'
<1>1. Watcher!WatchTypeOK'
  BY WatchTyped DEF Watcher!WatchTypeOK, Notice, Brought
<1>2. \A p \in Watched : (ToldOf(p)' <=> ToldOf(p)) /\ (KnownToldOf(p)' <=> KnownToldOf(p))
  BY DEF ToldOf, KnownToldOf
<1>3. \A p \in Watched \ s10' : (ToldOf(p)' \/ Watcher!OnItsWay(p)') /\ KnownToldOf(p)'
  BY <1>2, PathByPath
<1>4. \A p \in Watched : {s1'[p], s6'[p], s8'[p]} \subseteq 1..s2' \cup {None}
  BY PathByPath
<1> QED
  BY <1>1, <1>3, <1>4 DEF WatchCore, ToldOf, KnownToldOf, Watcher!ChangesAreComing, Watcher!KnownAreTold, Watcher!Stale, Watcher!Other,
                          Watcher!TripletsAreMade

LEMMA NoticesAreRecorded ==
  ASSUME WatchCore, Watcher!Record
  PROVE  WatchCore'
<1> USE WatcherAssumption
<1>1. /\ s3 \in Seq(Notice) /\ s3 # <<>> /\ s3' = Tail(s3) /\ UNCHANGED <<s1, s2, s5, s6, s7, s8, s9, s10, s11, s12, s13>>
  BY WatchTyped DEF Watcher!Record
<1>2. PICK p, kind : /\ p = Head(s3)[1] /\ kind = Head(s3)[2]
                     /\ s4' = [s4 EXCEPT ![p] = IF @ = None THEN kind ELSE Watcher!MergeKinds(@, kind)]
  BY DEF Watcher!Record
<1>3. PICK t : t = Tail(s3)
  OBVIOUS
<1>4. /\ t \in Seq(Notice) /\ p \in Watched /\ kind \in Watcher!Raw
      /\ \A q : Noticed(s3, q) => p = q \/ Noticed(t, q)
  BY <1>1, <1>2, <1>3, Shortened DEF Notice
<1>5. \A k \in Watcher!Raw : Watcher!MergeKinds(k, kind) \in Watcher!Raw
  BY <1>4 DEF Watcher!MergeKinds, Watcher!Raw
<1>6. /\ s4' \in [Watched -> Watcher!Raw \cup {None}] /\ s4'[p] # None
      /\ \A q \in Watched \ {p} : s4'[q] = s4[q]
  BY <1>2, <1>4, <1>5, WatchTyped
<1>7. ASSUME NEW q \in Watched, Watcher!OnItsWay(q) PROVE Watcher!OnItsWay(q)'
  <2>1. Watcher!OnItsWay(q)' <=> Noticed(t, q) \/ s4'[q] # None \/ \E c \in s5 : q \in {c.path, c.new}
    BY <1>1, <1>3 DEF Watcher!OnItsWay, Noticed
  <2> QED
    BY <1>4, <1>6, <1>7, <2>1, OnItsWays
<1> QED
  BY <1>1, <1>3, <1>4, <1>6, <1>7, CarriedOn, WatchTyped

\* Each path whose notices are drained is in the batch they resolve to.
LEMMA BatchesCover ==
  ASSUME WatchCore, NEW ready \in SUBSET {p \in Watched : s4[p] # None}
  PROVE  /\ Watcher!ResolveBatch(ready) \subseteq Watcher!Change
         /\ \A p \in ready : \E c \in Watcher!ResolveBatch(ready) : p \in {c.path, c.new}
<1>1. \A p \in ready : p \in Watched /\ s4[p] \in Watcher!Raw
  BY WatchTyped
<1>2. CASE \E p, q \in ready : ready = {p, q} /\ s4[p] = "Removed" /\ s4[q] = "Created"
  <2>1. PICK p, q \in ready : ready = {p, q} /\ s4[p] = "Removed" /\ s4[q] = "Created"
    BY <1>2
  <2>2. Watcher!ResolveBatch(ready) =
          {[kind |-> "Renamed", path |-> e[1], new |-> e[2]] :
             e \in {x \in ready \X ready : s4[x[1]] = "Removed" /\ s4[x[2]] = "Created"}}
    BY <1>2 DEF Watcher!ResolveBatch
  <2>3. <<p, q>> \in {x \in ready \X ready : s4[x[1]] = "Removed" /\ s4[x[2]] = "Created"}
    BY <2>1
  <2>4. [kind |-> "Renamed", path |-> p, new |-> q] \in Watcher!ResolveBatch(ready)
    BY <2>2, <2>3
  <2>5. Watcher!ResolveBatch(ready) \subseteq Watcher!Change
    BY <1>1, <2>2 DEF Watcher!Change
  <2> QED
    BY <2>1, <2>4, <2>5
<1>3. CASE ~\E p, q \in ready : ready = {p, q} /\ s4[p] = "Removed" /\ s4[q] = "Created"
  <2>1. Watcher!ResolveBatch(ready) = {[kind |-> s4[p], path |-> p, new |-> None] : p \in ready}
    BY <1>3 DEF Watcher!ResolveBatch
  <2>2. ASSUME NEW p \in ready, NEW c, c = [kind |-> s4[p], path |-> p, new |-> None]
        PROVE  c \in Watcher!Change /\ p \in {c.path, c.new}
    BY <1>1, <2>2 DEF Watcher!Change
  <2>3. \A p \in ready : [kind |-> s4[p], path |-> p, new |-> None] \in Watcher!ResolveBatch(ready)
    BY <2>1
  <2>4. Watcher!ResolveBatch(ready) \subseteq Watcher!Change
    BY <2>1, <2>2
  <2> QED
    BY <2>2, <2>3, <2>4
<1> QED
  BY <1>2, <1>3

LEMMA NoticesAreDrained ==
  ASSUME WatchCore, Watcher!Drain
  PROVE  WatchCore'
<1> USE WatcherAssumption
<1>1. s5 = {} /\ UNCHANGED <<s1, s2, s3, s6, s7, s8, s9, s10, s11, s12, s13>>
  BY DEF Watcher!Drain
<1>2. PICK ready \in SUBSET {p \in Watched : s4[p] # None} :
        s5' = Watcher!ResolveBatch(ready) /\ s4' = [p \in Watched |-> IF p \in ready THEN None ELSE s4[p]]
  BY DEF Watcher!Drain
<1>3. /\ s5' \subseteq Watcher!Change
      /\ \A p \in ready : \E c \in s5' : p \in {c.path, c.new}
  BY <1>2, BatchesCover
<1>4. /\ s4' \in [Watched -> Watcher!Raw \cup {None}]
      /\ \A p \in Watched \ ready : s4'[p] = s4[p]
  BY <1>2, WatchTyped
<1>5. ASSUME NEW p \in Watched, Watcher!OnItsWay(p) PROVE Watcher!OnItsWay(p)'
  <2>1. Watcher!OnItsWay(p)' <=> Noticed(s3, p) \/ s4'[p] # None \/ \E c \in s5' : p \in {c.path, c.new}
    BY <1>1 DEF Watcher!OnItsWay, Noticed
  <2>2. Noticed(s3, p) \/ s4[p] # None
    BY <1>1, <1>5, OnItsWays
  <2> QED
    BY <1>3, <1>4, <2>1, <2>2
<1>6. s3' \in Seq(Notice)
  BY <1>1, WatchTyped
<1> QED
  BY <1>1, <1>3, <1>4, <1>5, <1>6, CarriedOn

\* A change that is taken from the batch leaves the windows of its paths told.
ChangeTaken(c) ==
  /\ c \in s5 /\ s5' = s5 \ {c} /\ UNCHANGED <<s1, s2, s3, s4, s8, s11, s12, s13>> /\ s7' \subseteq s7
  /\ s6' \in [Watched -> Watcher!Triplet] /\ s9' \in [Watched -> Brought] /\ s10' \subseteq Watched
  /\ \A p \in Watched : s6'[p] \in {s1[p], s6[p], None}
  /\ \A p \in Watched \ {c.path, c.new} : s6'[p] = s6[p] /\ s9'[p] = s9[p] /\ (p \in s10 => p \in s10')
  /\ \A p \in Watched \cap {c.path, c.new} : p \notin s10' => s9'[p] \in {None, Watcher!Orphaned, s1[p]}

LEMMA ChangesAreTaken ==
  ASSUME WatchCore, NEW c, ChangeTaken(c)
  PROVE  WatchCore'
<1> USE WatcherAssumption DEF ChangeTaken
<1>1. Watcher!WatchTypeOK'
  BY WatchTyped DEF Watcher!WatchTypeOK, Notice, Brought
<1>2. \A p \in Watched : {s1'[p], s6'[p], s8'[p]} \subseteq 1..s2' \cup {None}
  BY PathByPath
<1>3. ASSUME NEW p \in Watched \ s10' PROVE (ToldOf(p)' \/ Watcher!OnItsWay(p)') /\ KnownToldOf(p)'
  <2>1. CASE p \in {c.path, c.new}
    BY <2>1 DEF ToldOf, KnownToldOf
  <2>2. CASE p \notin {c.path, c.new}
    <3>1. (ToldOf(p) \/ Watcher!OnItsWay(p)) /\ KnownToldOf(p)
      BY <2>2, PathByPath
    <3>2. (ToldOf(p)' <=> ToldOf(p)) /\ (KnownToldOf(p)' <=> KnownToldOf(p))
      BY <2>2 DEF ToldOf, KnownToldOf
    <3>3. Watcher!OnItsWay(p) => Watcher!OnItsWay(p)'
      BY <2>2 DEF Watcher!OnItsWay
    <3> QED
      BY <3>1, <3>2, <3>3
  <2> QED
    BY <2>1, <2>2
<1> QED
  BY <1>1, <1>2, <1>3 DEF WatchCore, ToldOf, KnownToldOf, Watcher!ChangesAreComing, Watcher!KnownAreTold, Watcher!Stale, Watcher!Other,
                          Watcher!TripletsAreMade

LEMMA EchoKeeps ==
  ASSUME WatchCore, NEW c \in s5, Watcher!Echo(c)
  PROVE  WatchCore'
<1> USE WatcherAssumption
<1>1. /\ s5' = s5 \ {c} /\ s7' \subseteq s7 /\ UNCHANGED <<s1, s2, s3, s4, s8, s9, s11, s12, s13>>
      /\ s10' = s10 \cup {p \in {c.path, c.new} \ {None} : Watcher!Stale(p)}
  BY DEF Watcher!Echo
<1>2. s6' = [p \in Watched |->
               IF (c.kind = "Renamed" /\ p = c.new) \/ (c.kind = "Created" /\ p = c.path)
                 THEN IF s1[p] # None THEN s1[p] ELSE s6[p]
               ELSE IF p = c.path THEN None ELSE s6[p]]
  BY DEF Watcher!Echo
<1>3. c.path \in Watched /\ c.new \in Watched \cup {None} /\ (c.kind = "Renamed" => c.new \in Watched)
  BY WatchTyped DEF Watcher!Change, Watcher!Raw
<1>4. \A p \in Watched : s6'[p] \in {s1[p], s6[p], None}
  BY <1>2
<1>5. s6' \in [Watched -> Watcher!Triplet]
  BY <1>2, WatchTyped DEF Watcher!Triplet
<1>6. \A p \in Watched \ {c.path, c.new} : s6'[p] = s6[p]
  BY <1>2
<1>7. s10' \subseteq Watched
  BY <1>1, <1>3, WatchTyped
<1>8. \A p \in Watched \cap {c.path, c.new} : p \notin s10' => s9[p] \in {None, Watcher!Orphaned, s1[p]}
  BY <1>1, <1>3, WatcherAssumption DEF Watcher!Stale, Watcher!Other
<1>9. ChangeTaken(c)
  BY <1>1, <1>4, <1>5, <1>6, <1>7, <1>8, WatchTyped DEF ChangeTaken
<1> QED
  BY <1>9, ChangesAreTaken

\* The session at p, if the event reaches it, is brought to what it is told; if
\* not, what it has not got is excused.
LEMMA Telling ==
  ASSUME WatchCore, NEW p \in Watched, NEW now \in {Watcher!Orphaned, s1[p]}, Watcher!Tell(p, now)
  PROVE  /\ s9' \in [Watched -> Brought] /\ s10' \subseteq Watched
         /\ \A q \in Watched \ {p} : s9'[q] = s9[q] /\ (q \in s10 => q \in s10')
         /\ p \notin s10' => s9'[p] \in {None, Watcher!Orphaned, s1[p]}
<1>1. now \in Brought
  BY WatchTyped DEF Brought
<1>2. CASE s9[p] # None /\ p \in s13
  <2>1. s9' = [s9 EXCEPT ![p] = now] /\ s10' = s10 \ {p}
    BY <1>2 DEF Watcher!Tell
  <2> QED
    BY <1>1, <2>1, WatchTyped
<1>3. CASE s9[p] = None \/ p \notin s13
  <2>1. s9' = s9 /\ s10' = IF p \in s13 THEN s10 \ {p} ELSE IF Watcher!Stale(p) THEN s10 \union {p} ELSE s10
    BY <1>3 DEF Watcher!Tell
  <2> QED
    BY <1>3, <2>1, WatchTyped DEF Watcher!Stale, Watcher!Other, Watcher!Tell
<1> QED
  BY <1>2, <1>3

\* Of a path whose file is read the window is told, unless the table knew it.
LEMMA ReadNow ==
  ASSUME WatchCore, NEW p \in Watched, NEW kind, NEW gone \in BOOLEAN, Watcher!ModifiedNow(p, kind, gone),
         gone \/ s1[p] # None, UNCHANGED s1
  PROVE  /\ s6' \in [Watched -> Watcher!Triplet] /\ s9' \in [Watched -> Brought] /\ s10' \subseteq Watched
         /\ s6'[p] \in {s1[p], s6[p], None}
         /\ \A q \in Watched \ {p} : s6'[q] = s6[q] /\ s9'[q] = s9[q] /\ (q \in s10 => q \in s10')
         /\ p \notin s10' => s9'[p] \in {None, Watcher!Orphaned, s1[p]}
<1>0. None \in Watcher!Triplet
  BY DEF Watcher!Triplet
<1>1. CASE s1[p] = None
  <2>1. s6' = [s6 EXCEPT ![p] = None] /\ Watcher!Tell(p, Watcher!Orphaned)
    BY <1>1 DEF Watcher!ModifiedNow
  <2> QED
    BY <1>0, <2>1, Telling, WatchTyped
<1>2. CASE s1[p] # None /\ s6[p] = s1[p]
  <2>1. UNCHANGED <<s6, s9, s10>>
    BY <1>2 DEF Watcher!ModifiedNow
  <2>2. p \notin s10 => KnownToldOf(p)
    BY PathByPath
  <2> QED
    BY <1>2, <2>1, <2>2, WatchTyped DEF KnownToldOf, ToldOf
<1>3. CASE s1[p] # None /\ s6[p] # s1[p]
  <2>1. s6' = [s6 EXCEPT ![p] = s1[p]] /\ (Watcher!Ignored(p) \/ Watcher!Tell(p, s1[p]))
    BY <1>3 DEF Watcher!ModifiedNow
  <2>2. CASE Watcher!Tell(p, s1[p])
    BY <2>1, <2>2, Telling, WatchTyped
  <2>3. CASE Watcher!Ignored(p)
    BY <2>1, <2>3, WatchTyped DEF Watcher!Ignored, Watcher!Stale, Watcher!Other
  <2> QED
    BY <2>1, <2>2, <2>3
<1> QED
  BY <1>1, <1>2, <1>3

LEMMA NewsKeep ==
  ASSUME WatchCore, NEW c \in s5, Watcher!Modified(c) \/ Watcher!Removed(c)
  PROVE  WatchCore'
<1> USE WatcherAssumption
<1>1. /\ s5' = s5 \ {c} /\ UNCHANGED <<s1, s2, s3, s4, s7, s8, s11, s12, s13>>
      /\ c.kind \in Watcher!Raw
  BY DEF Watcher!Modified, Watcher!Removed, Watcher!Take, Watcher!Raw
<1>2. c.path \in Watched /\ c.new = None
  BY <1>1, WatchTyped DEF Watcher!Change, Watcher!Raw
<1>3. PICK p \in Watched : p = c.path
  BY <1>2
<1>4. /\ s6' \in [Watched -> Watcher!Triplet] /\ s9' \in [Watched -> Brought] /\ s10' \subseteq Watched
      /\ s6'[p] \in {s1[p], s6[p], None}
      /\ \A q \in Watched \ {p} : s6'[q] = s6[q] /\ s9'[q] = s9[q] /\ (q \in s10 => q \in s10')
      /\ p \notin s10' => s9'[p] \in {None, Watcher!Orphaned, s1[p]}
  <2>1. CASE Watcher!Modified(c)
    <3>1. Watcher!ModifiedNow(p, c.kind, TRUE)
      BY <1>3, <2>1 DEF Watcher!Modified
    <3> QED
      BY <1>1, <3>1, ReadNow
  <2>2. CASE Watcher!Removed(c) /\ s1[p] # None
    <3>1. Watcher!ModifiedNow(p, "Modified", FALSE)
      BY <1>3, <2>2 DEF Watcher!Removed
    <3> QED
      BY <1>1, <2>2, <3>1, ReadNow
  <2>3. CASE Watcher!Removed(c) /\ s1[p] = None
    <3>1. s6' = [s6 EXCEPT ![p] = None] /\ Watcher!Tell(p, Watcher!Orphaned)
      BY <1>3, <2>3 DEF Watcher!Removed
    <3> QED
      BY <3>1, Telling, WatchTyped DEF Watcher!Triplet
  <2> QED
    BY <2>1, <2>2, <2>3
<1>5. Watched \ {c.path, c.new} = Watched \ {p} /\ Watched \cap {c.path, c.new} = {p}
  BY <1>2, <1>3
<1>6. \A q \in Watched : s6'[q] \in {s1[q], s6[q], None}
  BY <1>4
<1>7. ChangeTaken(c)
  BY <1>1, <1>4, <1>5, <1>6, WatchTyped DEF ChangeTaken
<1> QED
  BY <1>7, ChangesAreTaken

LEMMA MovesKeep ==
  ASSUME WatchCore, NEW c \in s5, Watcher!Renamed(c)
  PROVE  WatchCore'
<1> USE WatcherAssumption
<1>1. /\ s5' = s5 \ {c} /\ UNCHANGED <<s1, s2, s3, s4, s7, s8, s11, s12, s13>>
      /\ c.kind = "Renamed"
  BY DEF Watcher!Renamed, Watcher!Take
<1>2. c.path \in Watched /\ c.new \in Watched
  BY <1>1, WatchTyped DEF Watcher!Change, Watcher!Raw
<1>3. PICK p \in Watched, q \in Watched : p = c.path /\ q = c.new
  BY <1>2
<1>4. /\ s6' = IF s1[q] = None THEN s6 ELSE [s6 EXCEPT ![p] = None, ![q] = s1[q]]
      /\ s9' = IF Watcher!Follows(p) THEN [s9 EXCEPT ![p] = None, ![q] = IF Watcher!Shown(q) THEN @ ELSE s9[p]]
               ELSE s9
      /\ s10' = (s10 \ {p}) \cup {t \in {p, q} : Watcher!Other(t, s9'[t])}
                  \cup {t \in {q} : Watcher!Follows(p) /\ (s9[p] = Watcher!Orphaned \/ Watcher!Meet(p, t))}
  BY <1>3 DEF Watcher!Renamed, Watcher!Follow
<1>5. None \in Watcher!Triplet /\ None \in Brought
  BY DEF Watcher!Triplet, Brought
<1>6. /\ s6' \in [Watched -> Watcher!Triplet] /\ \A t \in Watched : s6'[t] \in {s1[t], s6[t], None}
      /\ \A t \in Watched \ {p, q} : s6'[t] = s6[t]
  BY <1>4, <1>5, WatchTyped
<1>7. s9' \in [Watched -> Brought] /\ \A t \in Watched \ {p, q} : s9'[t] = s9[t]
  BY <1>4, <1>5, WatchTyped
<1>9. s10' \subseteq Watched /\ \A t \in Watched \ {p, q} : t \in s10 => t \in s10'
  BY <1>4, WatchTyped
<1>10. \A t \in {p, q} : t \notin s10' => s9'[t] \in {None, Watcher!Orphaned, s1[t]}
  <2>1. \A t \in {p, q} : t \notin s10' => ~Watcher!Other(t, s9'[t])
    BY <1>4
  <2> QED
    BY <2>1 DEF Watcher!Other
<1>8. ChangeTaken(c)
  BY <1>1, <1>3, <1>6, <1>7, <1>9, <1>10, WatchTyped DEF ChangeTaken
<1> QED
  BY <1>8, ChangesAreTaken

LEMMA WatchKept ==
  ASSUME WatchCore, [Watcher!WatchNext]_<<s1, s2, s3, s4, s5, s6, s7, s8, s9, s10, s11, s12, s13>>
  PROVE  WatchCore'
<1>1. CASE Watcher!WatchNext
  BY <1>1, StrangersKeep, OwnStepsKeep, NotesKeep, NoticesAreRecorded, NoticesAreDrained, EchoKeeps, NewsKeep, MovesKeep
     DEF Watcher!WatchNext
<1>2. CASE UNCHANGED <<s1, s2, s3, s4, s5, s6, s7, s8, s9, s10, s11, s12, s13>>
  BY <1>2 DEF WatchCore, Watcher!WatchTypeOK, Watcher!ChangesAreComing, Watcher!KnownAreTold, Watcher!Stale, Watcher!Other,
              Watcher!TripletsAreMade, Watcher!OnItsWay
<1> QED
  BY <1>1, <1>2

LEMMA WatchBegins ==
  ASSUME StoresInit, setting = "watcher"
  PROVE  WatchCore
<1> USE WatcherAssumption
<1>1. Watcher!WatchInit
  BY DEF StoresInit
<1>2. /\ s1 \in [Watched -> {1, 2, None}] /\ s2 = 2 /\ s9 = s1 /\ s3 = <<>> /\ s4 = [p \in Watched |-> None] /\ s5 = {}
      /\ s7 = {} /\ s8 = [p \in Watched |-> None] /\ s10 = {} /\ s11 = 0 /\ s12 = 0 /\ s13 \subseteq Watched
  BY <1>1 DEF Watcher!WatchInit
<1>3. PICK seeded \in SUBSET Watched : s6 = [p \in Watched |-> IF p \in seeded THEN s1[p] ELSE None]
  BY <1>1 DEF Watcher!WatchInit
<1>4. {1, 2, None} \subseteq Watcher!Triplet /\ {1, 2, None} \subseteq 1..s2 \cup {None} /\ None \in Watcher!Triplet
  BY <1>2 DEF Watcher!Triplet
<1>5. Watcher!WatchTypeOK
  BY <1>2, <1>3, <1>4 DEF Watcher!WatchTypeOK
<1>6. Watcher!TripletsAreMade
  BY <1>2, <1>3, <1>4 DEF Watcher!TripletsAreMade
<1> QED
  BY <1>2, <1>5, <1>6 DEF WatchCore, Watcher!ChangesAreComing, Watcher!KnownAreTold, Watcher!Stale,
                          Watcher!Other

LEMMA WatchStays ==
  ASSUME setting = "watcher" => WatchCore, [StoresNext]_stores
  PROVE  (setting = "watcher" => WatchCore)'
<1>1. setting' = setting
  BY DEF StoresNext, stores, others
<1> SUFFICES ASSUME setting = "watcher" PROVE WatchCore'
  BY <1>1
<1>2. [Watcher!WatchNext]_<<s1, s2, s3, s4, s5, s6, s7, s8, s9, s10, s11, s12, s13>>
  <2>1. CASE StoresNext
    BY <2>1 DEF StoresNext
  <2>2. CASE UNCHANGED stores
    BY <2>2 DEF stores, all, from9, from11, from12
  <2> QED
    BY <2>1, <2>2
<1> QED
  BY <1>2, WatchKept

LEMMA WatchHolds == StoresSpec => [](setting = "watcher" => Watcher!WatchInv)
<1> DEFINE Inv == setting = "watcher" => WatchCore
<1>1. StoresInit => Inv
  BY WatchBegins
<1>2. Inv /\ [StoresNext]_stores => Inv'
  BY WatchStays
<1>3. Inv => (setting = "watcher" => Watcher!WatchInv)
  BY WatchCoreSuffices
<1> QED
  BY <1>1, <1>2, <1>3, PTL DEF StoresSpec, stores

\* No window is left showing a drawing that is no longer at its path, or another
\* one than is there, when all notices are dealt with: each change that no window
\* was told of has a notice on its way, and the table of known files does not know
\* the file it is about (the task of watcher/mod.rs).  Only a modification counts
\* as a reload, and a renaming keeps the scene; `excused` are the losses that the
\* comment of ChangesAreTold lists.
THEOREM ChangesAreToldHolds == StoresSpec => []ChangesAreTold
<1>1. (setting = "watcher" => Watcher!WatchInv) => ChangesAreTold
  BY DEF Watcher!WatchInv, ChangesAreTold
<1> QED
  BY <1>1, WatchHolds, PTL
===============================================================================
