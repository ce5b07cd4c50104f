---------------------------- MODULE DocumentProofs ----------------------------
(***************************************************************************)
(* Proofs about a drawing at work.  First DocumentSession, in its window,  *)
(* for any number of edits, of other programs' writes, of failures and of  *)
(* replacements; then DocumentService, in the backend, for any number of   *)
(* commands at once, in the undisturbed setting of its run.                *)
(***************************************************************************)
EXTENDS DocumentSession, MCDocumentServiceSettings, TLAPS

Timer == {"draft", "idle", "maxWait"}
Sched == [payload : Version \cup {None}, count : Nat, held : BOOLEAN, timers : SUBSET Timer]
Doc == [scene : Scene, gen : Nat, rev : Nat, state : SaveState]
Draft == [scene : Scene, dirty : BOOLEAN]
Closing == [shown : Scene, saving : BOOLEAN, overtaken : BOOLEAN]

\* The file has nothing newer than the latest edit it has ever had, nor has a
\* draft anything that was not edited.
Stores ==
  /\ disk \in Scene \cup {None}
  /\ row \in Draft \cup {None}
  /\ made \in 0..MaxEdits /\ kept \in 0..made
  /\ disk # None => disk <= kept
  /\ row # None => row.scene <= made

\* What the window shows and has to write was edited.
Shown ==
  /\ doc \in Doc /\ doc.scene <= made
  /\ sched \in Sched
  /\ sched.payload # None => sched.payload.scene <= made
  /\ closing \in Closing \cup {None}
  /\ closing # None => closing.shown <= made

Around ==
  /\ flagged \in BOOLEAN
  /\ changed \in {"none", "created", "modified", "removed"}
  /\ event \in [kind : {"modified", "removed"}, scene : Scene \cup {None}] \cup {None}
  /\ seen \in Scene \cup {None}
  /\ tab \in {"open", "closed"}
  /\ calling \in BOOLEAN
  /\ frozen \in {"no", "preparing", "running", "pending", "pendingDone"}
  /\ context \in Version \cup {None}
  /\ writes \in 0..MaxWrites /\ failures \in 0..MaxFailures

\* The operations of a closing.
Ends(op) == op.kind \in {"close", "discard"} \/ op.caller = "close"

Operations(q, m) ==
  /\ q \in Seq(Operation)
  /\ \A i \in DOMAIN q : q[i].version.scene <= m

\* There is one of them while a tab is closing, and none otherwise.
Alone(q, c) ==
  /\ \A i, j \in DOMAIN q : Ends(q[i]) /\ Ends(q[j]) => i = j
  /\ c = None => \A i \in DOMAIN q : ~Ends(q[i])
  /\ \A i \in DOMAIN q : q[i].caller = "close" => q[i].kind = "checkpoint"

\* What a closing has to save, and no file has had, is what its checkpoint is to
\* write, and will write if the window shows it still; the closing itself comes
\* after that only when the checkpoint was passed over.
Saves(q, c, d, k) ==
  c # None /\ c.saving /\ c.shown > k =>
    \A i \in DOMAIN q :
      /\ q[i].kind = "close" => c.overtaken
      /\ q[i].caller = "close" =>
           q[i].version.scene = c.shown /\ (d.scene = c.shown => q[i].version = d)

\* Nothing rebases the session before that checkpoint.
Ahead(q, c) ==
  c # None /\ c.saving =>
    \A i, j \in DOMAIN q :
      q[i].caller = "close" /\ j < i => q[j].kind \notin Renaming \cup Resolution

Queue(q, c, d, k, m) == Operations(q, m) /\ Alone(q, c) /\ Saves(q, c, d, k) /\ Ahead(q, c)

\* A write under way is of the session as it is but for later edits.
WritingIsCurrent ==
  calling => queue # <<>> /\ (First.kind \in Writing => First.version.gen = doc.gen)

IInv ==
  /\ Stores
  /\ Shown
  /\ Around
  /\ Queue(queue, closing, VersionOf(doc), kept, made)
  /\ WritingIsCurrent

-----------------------------------------------------------------------------
\* What operations do to the queue.

LEMMA BoundsAreNumbers ==
  MaxEdits \in Nat /\ MaxWrites \in Nat /\ MaxFailures \in Nat
  BY BoundsAssumption

LEMMA ScenesAreNumbers ==
  /\ Scene \subseteq Int
  /\ Earlier \in Scene /\ Opened \in Scene
  /\ \A n \in 0..MaxEdits : n \in Scene
  /\ \A v \in Version : v.scene \in Int
  /\ None \notin Int
<1>1. MaxEdits \in Nat /\ External \subseteq Int /\ None \notin Int
  BY ExternalAssumption, BoundsAssumption, NoneAssumption
<1>2. Scene \subseteq Int
  BY <1>1 DEF Scene, Earlier
<1>3. Earlier \in Scene /\ Opened \in Scene /\ \A n \in 0..MaxEdits : n \in Scene
  BY <1>1 DEF Scene, Earlier, Opened
<1> QED
  BY <1>1, <1>2, <1>3 DEF Version

LEMMA ClosingIsSome == None \notin Closing
<1>1. Closing \subseteq [shown : Int, saving : BOOLEAN, overtaken : BOOLEAN]
  BY ScenesAreNumbers DEF Closing
<1> QED
  BY <1>1, NoneAssumption

LEMMA Appended ==
  ASSUME NEW q, NEW c, NEW d, NEW k, NEW m, Queue(q, c, d, k, m),
         NEW op \in Operation, op.version.scene <= m, ~Ends(op)
  PROVE  /\ Queue(Append(q, op), c, d, k, m)
         /\ q # <<>> => Append(q, op) # <<>> /\ Head(Append(q, op)) = Head(q)
<1> DEFINE r == Append(q, op)
<1>1. /\ q \in Seq(Operation) /\ r \in Seq(Operation) /\ Len(r) = Len(q) + 1 /\ Len(q) \in Nat
      /\ DOMAIN r = 1..Len(r) /\ DOMAIN q = 1..Len(q)
      /\ r[Len(r)] = op
      /\ \A i \in DOMAIN q : i \in DOMAIN r /\ i < Len(r) /\ r[i] = q[i]
      /\ \A i \in DOMAIN r : i \in DOMAIN q \/ i = Len(r)
  BY DEF Queue, Operations
<1>2. q # <<>> => r # <<>> /\ Head(r) = Head(q)
  BY <1>1
<1> HIDE DEF r
<1>3. Operations(r, m)
  BY <1>1 DEF Queue, Operations
<1>4. Alone(r, c)
  BY <1>1 DEF Queue, Alone, Ends
<1>5. Saves(r, c, d, k)
  BY <1>1 DEF Queue, Saves, Ends
<1>6. Ahead(r, c)
  BY <1>1 DEF Queue, Ahead, Ends
<1> QED
  BY <1>2, <1>3, <1>4, <1>5, <1>6 DEF Queue, r

LEMMA Taken ==
  ASSUME NEW q, NEW c, NEW d, NEW k, NEW m, Queue(q, c, d, k, m), q # <<>>
  PROVE  /\ Queue(Tail(q), c, d, k, m)
         /\ Ends(Head(q)) => \A i \in DOMAIN Tail(q) : ~Ends(Tail(q)[i])
         /\ Ends(Head(q)) => Queue(Tail(q), None, d, k, m)
<1> DEFINE r == Tail(q)
<1>1. /\ q \in Seq(Operation) /\ r \in Seq(Operation) /\ Len(q) = Len(r) + 1 /\ Len(r) \in Nat
      /\ DOMAIN r = 1..Len(r) /\ DOMAIN q = 1..Len(q)
      /\ Head(q) = q[1] /\ 1 \in DOMAIN q
      /\ \A i \in DOMAIN r : i + 1 \in DOMAIN q /\ i + 1 # 1 /\ r[i] = q[i + 1]
      /\ \A i, j \in DOMAIN r : i + 1 = j + 1 => i = j
      /\ \A i, j \in DOMAIN r : i < j => i + 1 < j + 1
  BY DEF Queue, Operations
<1> HIDE DEF r
<1>2. Operations(r, m)
  BY <1>1 DEF Queue, Operations
<1>3. Alone(r, c)
  BY <1>1 DEF Queue, Alone, Ends
<1>4. Saves(r, c, d, k) /\ Saves(r, None, d, k)
  BY <1>1 DEF Queue, Saves, Ends
<1>5. Ahead(r, c) /\ Ahead(r, None)
  BY <1>1 DEF Queue, Ahead, Ends
<1>6. Ends(Head(q)) => \A i \in DOMAIN r : ~Ends(r[i])
  BY <1>1 DEF Queue, Alone
<1>7. Ends(Head(q)) => Alone(r, None)
  BY <1>3, <1>6 DEF Alone
<1> QED
  BY <1>2, <1>3, <1>4, <1>5, <1>6, <1>7 DEF Queue, r

\* The checkpoint of a closing is followed by the closing itself.
LEMMA Followed ==
  ASSUME NEW q, NEW c, NEW d \in Version, NEW k \in Int, NEW m, Queue(q, c, d, k, m), q # <<>>,
         Head(q).caller = "close",
         NEW e \in Closing, e.saving /\ e.shown > k => e.overtaken,
         NEW op \in Operation, op.version.scene <= m, op.kind = "close", op.caller = "user"
  PROVE  Queue(Append(Tail(q), op), e, d, k, m)
<1> DEFINE t == Tail(q)
           r == Append(t, op)
<1>1. Queue(t, c, d, k, m) /\ Operations(t, m) /\ \A i \in DOMAIN t : ~Ends(t[i])
  BY Taken DEF Queue, Ends
<1>2. /\ r \in Seq(Operation) /\ Len(r) = Len(t) + 1 /\ Len(t) \in Nat
      /\ DOMAIN r = 1..Len(r)
      /\ r[Len(r)] = op
      /\ \A i \in DOMAIN r : i = Len(r) \/ (i \in DOMAIN t /\ r[i] = t[i])
  BY <1>1 DEF Operations
<1>3. e # None
  BY ClosingIsSome
<1> HIDE DEF t, r
<1>4. Operations(r, m)
  BY <1>1, <1>2 DEF Operations
<1>5. Alone(r, e)
  BY <1>1, <1>2, <1>3 DEF Alone, Ends
<1>6. Saves(r, e, d, k)
  BY <1>1, <1>2 DEF Saves, Ends
<1>7. Ahead(r, e)
  BY <1>1, <1>2 DEF Ahead, Ends
<1> QED
  BY <1>4, <1>5, <1>6, <1>7 DEF Queue, t, r

\* Operations look at the session when their turn comes.
LEMMA Refreshed ==
  ASSUME NEW q, NEW c, NEW d, NEW k, NEW m, Queue(q, c, d, k, m), q # <<>>,
         Head(q).kind \notin Writing, NEW v \in Version, v.scene <= m
  PROVE  /\ Queue(<<[Head(q) EXCEPT !.version = v]>> \o Tail(q), c, d, k, m)
         /\ Head(<<[Head(q) EXCEPT !.version = v]>> \o Tail(q)).kind = Head(q).kind
         /\ <<[Head(q) EXCEPT !.version = v]>> \o Tail(q) # <<>>
<1> DEFINE h == [Head(q) EXCEPT !.version = v]
           r == <<h>> \o Tail(q)
<1>1. q \in Seq(Operation) /\ Head(q) = q[1] /\ 1 \in DOMAIN q /\ Head(q) \in Operation
  BY DEF Queue, Operations
<1>2. h \in Operation /\ h.kind = q[1].kind /\ h.caller = q[1].caller /\ h.version = v
  BY <1>1 DEF Operation
<1> HIDE DEF h
<1>3. /\ r \in Seq(Operation) /\ DOMAIN r = DOMAIN q /\ r[1] = h
      /\ r # <<>> /\ Head(r) = h
      /\ \A i \in DOMAIN r : i # 1 => r[i] = q[i]
  BY <1>1, <1>2
<1> HIDE DEF r
<1>4. \A i \in DOMAIN r : r[i].kind = q[i].kind /\ r[i].caller = q[i].caller
  BY <1>2, <1>3
<1>5. Operations(r, m)
  BY <1>2, <1>3 DEF Queue, Operations
<1>6. Alone(r, c)
  BY <1>3, <1>4 DEF Queue, Alone, Ends
<1>7. q[1].caller # "close"
  BY <1>1 DEF Queue, Alone, Writing
<1>8. Saves(r, c, d, k)
  BY <1>2, <1>3, <1>4, <1>7 DEF Queue, Saves
<1>9. Ahead(r, c)
  BY <1>3, <1>4 DEF Queue, Ahead
<1> QED
  BY <1>1, <1>2, <1>3, <1>5, <1>6, <1>8, <1>9 DEF Queue, r, h

\* A closing begins, when there is no other.
LEMMA Begun ==
  ASSUME NEW q, NEW c, NEW d, NEW k, NEW m, Queue(q, None, d, k, m), c # None,
         NEW op \in Operation, op.version.scene <= m,
         op.caller = "close" => op.kind = "checkpoint",
         c.saving => /\ op.kind # "close"
                     /\ op.caller = "close" => op.version = d /\ d.scene = c.shown
                     /\ \A i \in DOMAIN q : q[i].kind \notin Renaming \cup Resolution
  PROVE  /\ Queue(Append(q, op), c, d, k, m)
         /\ q # <<>> => Append(q, op) # <<>> /\ Head(Append(q, op)) = Head(q)
<1> DEFINE r == Append(q, op)
<1>1. /\ q \in Seq(Operation) /\ r \in Seq(Operation) /\ Len(r) = Len(q) + 1 /\ Len(q) \in Nat
      /\ DOMAIN r = 1..Len(r) /\ DOMAIN q = 1..Len(q)
      /\ r[Len(r)] = op
      /\ \A i \in DOMAIN r : (i \in DOMAIN q /\ r[i] = q[i]) \/ i = Len(r)
      /\ \A i \in DOMAIN r, j \in DOMAIN r : j < i => j \in DOMAIN q
  BY DEF Queue, Operations
<1>2. q # <<>> => r # <<>> /\ Head(r) = Head(q)
  BY <1>1
<1> HIDE DEF r
<1>3. Operations(r, m)
  BY <1>1 DEF Queue, Operations
<1>4. \A i \in DOMAIN q : ~Ends(q[i])
  BY DEF Queue, Alone
<1>5. Alone(r, c)
  BY <1>1, <1>4 DEF Alone, Ends
<1>6. Saves(r, c, d, k)
  BY <1>1, <1>4 DEF Saves, Ends
<1>7. Ahead(r, c)
  BY <1>1, <1>4 DEF Ahead, Ends
<1> QED
  BY <1>2, <1>3, <1>5, <1>6, <1>7 DEF Queue, r

LEMMA Emptied ==
  ASSUME NEW d, NEW k, NEW m
  PROVE  Queue(<<>>, None, d, k, m)
  BY DEF Queue, Operations, Alone, Saves, Ahead

\* The session shows what is stored, or something newer than the closing saves.
LEMMA Shows ==
  ASSUME NEW q, NEW c \in Closing \cup {None}, NEW d \in Version, NEW k \in Int, NEW m \in Int,
         Queue(q, c, d, k, m),
         NEW e \in Version, NEW l \in Int, NEW n \in Int, k <= l, m <= n,
         \/ e = d
         \/ e.scene <= l
         \/ c # None => e.scene > c.shown
  PROVE  Queue(q, c, e, l, n)
<1>1. Operations(q, n)
  <2> SUFFICES ASSUME NEW i \in DOMAIN q PROVE q[i].version.scene <= n
    BY DEF Queue, Operations
  <2>1. q[i] \in Operation /\ q[i].version.scene <= m
    BY DEF Queue, Operations
  <2>2. q[i].version.scene \in Int
    BY <2>1, ScenesAreNumbers DEF Operation
  <2> QED
    BY <2>1, <2>2
<1>2. d.scene \in Int /\ e.scene \in Int
  BY ScenesAreNumbers
<1>3. c # None => c.shown \in Int
  BY ScenesAreNumbers DEF Closing
<1>4. Saves(q, c, e, l)
  BY <1>2, <1>3 DEF Queue, Saves
<1> QED
  BY <1>1, <1>4 DEF Queue

\* It is rebased, after which there is no checkpoint of the closing to come.
LEMMA Rebased ==
  ASSUME NEW q, NEW c \in Closing \cup {None}, NEW d \in Version, NEW k \in Int, NEW m \in Int,
         Queue(q, c, d, k, m), q # <<>>,
         Head(q).kind \in Renaming \cup Resolution,
         NEW e \in Version, e.scene = d.scene, NEW l \in Int, k <= l
  PROVE  Queue(Tail(q), c, e, l, m)
<1> DEFINE r == Tail(q)
<1>1. Queue(r, c, d, k, m)
  BY Taken
<1>2. /\ q \in Seq(Operation) /\ Head(q) = q[1] /\ 1 \in DOMAIN q
      /\ \A i \in DOMAIN r : i + 1 \in DOMAIN q /\ 1 < i + 1 /\ r[i] = q[i + 1]
  BY DEF Queue, Operations
<1> HIDE DEF r
<1>3. c # None /\ c.saving => \A i \in DOMAIN r : r[i].caller # "close"
  BY <1>2 DEF Queue, Ahead
<1>4. c # None => c.shown \in Int
  BY ScenesAreNumbers DEF Closing
<1>5. Saves(r, c, e, l)
  BY <1>1, <1>3, <1>4 DEF Queue, Saves
<1> QED
  BY <1>1, <1>5 DEF Queue, r

-----------------------------------------------------------------------------
\* What the operators of the session return.

LEMMA VersionTyped ==
  ASSUME NEW d \in Doc
  PROVE  VersionOf(d) \in Version /\ VersionOf(d).scene = d.scene /\ VersionOf(d).gen = d.gen
  BY DEF VersionOf, Version, Doc

LEMMA RecordedTyped ==
  ASSUME NEW s \in Sched, NEW v \in Version
  PROVE  Recorded(s, v) \in Sched /\ Recorded(s, v).payload = v
<1> DEFINE T == IF s.held THEN s.timers \ {"draft", "idle"} ELSE Timer
<1>1. T \in SUBSET Timer /\ s.count + 1 \in Nat
  BY DEF Sched, Timer
<1>2. Recorded(s, v) = [s EXCEPT !.payload = v, !.count = s.count + 1, !.timers = T]
  BY DEF Recorded, Timer
<1> HIDE DEF T
<1> QED
  BY <1>1, <1>2 DEF Sched

LEMMA HoldTyped ==
  ASSUME NEW s \in Sched
  PROVE  Hold(s) \in Sched /\ Hold(s).payload = s.payload
  BY DEF Hold, Sched

LEMMA ReleaseTyped ==
  ASSUME NEW s \in Sched
  PROVE  Release(s) \in Sched /\ Release(s).payload = s.payload
<1> DEFINE t == [s EXCEPT !.held = FALSE]
<1>1. t \in Sched /\ t.payload = s.payload
  BY DEF Sched
<1>2. Release(s) = IF t.payload = None THEN t ELSE Recorded(t, t.payload)
  BY DEF Release
<1>3. t.payload \in Version \cup {None}
  BY <1>1 DEF Sched
<1> HIDE DEF t
<1> QED
  BY <1>1, <1>2, <1>3, RecordedTyped

LEMMA SettledTyped ==
  ASSUME NEW s \in Sched, NEW op
  PROVE  Settled(s, op) \in Sched /\ Settled(s, op).payload \in {s.payload, None}
  BY DEF Settled, Sched, Timer

LEMMA TimersTyped ==
  ASSUME NEW s \in Sched, NEW T \in SUBSET Timer
  PROVE  /\ [s EXCEPT !.timers = T] \in Sched
         /\ [s EXCEPT !.timers = T].payload = s.payload
         /\ [s EXCEPT !.payload = None, !.timers = {}] \in Sched
         /\ [s EXCEPT !.payload = None, !.timers = {}].payload = None
  BY DEF Sched

LEMMA StateTyped ==
  ASSUME NEW d \in Doc, NEW t \in SaveState
  PROVE  /\ [d EXCEPT !.state = t] \in Doc
         /\ VersionOf([d EXCEPT !.state = t]) = VersionOf(d)
         /\ [d EXCEPT !.state = t].scene = d.scene
         /\ [d EXCEPT !.state = t].gen = d.gen
  BY DEF Doc, VersionOf

LEMMA IdleTyped ==
  ASSUME NEW s \in Sched, NEW t, t = s \/ t = [s EXCEPT !.timers = {}]
  PROVE  t \in Sched /\ t.payload = s.payload
  BY DEF Sched

\* What the window asks for is an operation on the session as it is.
LEMMA OpTyped ==
  ASSUME Shown, Stores, NEW kind \in Kind
  PROVE  /\ Op(kind) \in Operation /\ Op(kind).version.scene <= made
         /\ Op(kind).kind = kind /\ Op(kind).caller = "user"
  BY VersionTyped DEF Op, Operation, Shown, Stores

LEMMA ScheduledTyped ==
  ASSUME Shown, HasWork, NEW kind \in Writing, NEW caller \in {"timer", "user", "close", "replace"}
  PROVE  /\ Scheduled(kind, caller) \in Operation /\ Scheduled(kind, caller).version.scene <= made
         /\ Scheduled(kind, caller).kind = kind /\ Scheduled(kind, caller).caller = caller
         /\ Scheduled(kind, caller).version = sched.payload
  BY DEF Scheduled, Operation, Shown, HasWork, Sched, Kind

LEMMA FirstTyped ==
  ASSUME IInv, queue # <<>>
  PROVE  /\ First \in Operation /\ First.version \in Version
         /\ First.version.scene \in Scene /\ First.version.scene <= made
<1>1. queue \in Seq(Operation) /\ \A i \in DOMAIN queue : queue[i].version.scene <= made
  BY DEF IInv, Queue, Operations
<1>2. 1 \in DOMAIN queue /\ First = queue[1]
  BY <1>1 DEF First
<1>3. First \in Operation /\ First.version.scene <= made
  BY <1>1, <1>2
<1> QED
  BY <1>3 DEF Operation, Version

LEMMA KeepTyped ==
  ASSUME Stores, NEW scene \in Scene, scene <= made, Keep(scene)
  PROVE  kept' \in 0..made /\ kept <= kept' /\ scene <= kept'
  BY ScenesAreNumbers DEF Stores, Keep

\* An operation is added, if any.
LEMMA QueueGrows ==
  ASSUME IInv, NEW op \in Operation, op.version.scene <= made, ~Ends(op),
         queue' \in {queue, Append(queue, op)}, UNCHANGED <<calling, closing, made, kept>>,
         doc' \in Doc, VersionOf(doc') = VersionOf(doc), doc'.gen = doc.gen
  PROVE  Queue(queue, closing, VersionOf(doc), kept, made)' /\ WritingIsCurrent'
<1>1. Queue(queue', closing', VersionOf(doc'), kept', made')
  BY Appended DEF IInv
<1>2. queue # <<>> => queue' # <<>> /\ Head(queue') = Head(queue)
  BY Appended DEF IInv
<1>3. WritingIsCurrent'
  BY <1>2 DEF IInv, WritingIsCurrent, First
<1> QED
  BY <1>1, <1>3

\* The first operation ends.
LEMMA QueueShrinks ==
  ASSUME IInv, queue # <<>>, queue' = Tail(queue), calling' = FALSE, UNCHANGED made,
         \/ closing' = closing
         \/ closing' = None /\ Ends(First),
         kept' \in Int, kept <= kept', doc' \in Doc,
         \/ VersionOf(doc') = VersionOf(doc)
         \/ doc'.scene <= kept'
         \/ First.kind \in Renaming \cup Resolution /\ doc'.scene = doc.scene
  PROVE  Queue(queue, closing, VersionOf(doc), kept, made)' /\ WritingIsCurrent'
<1>1. Queue(Tail(queue), closing', VersionOf(doc), kept, made)
  BY Taken DEF IInv, First
<1>2. /\ closing \in Closing \cup {None} /\ closing' \in Closing \cup {None}
      /\ VersionOf(doc) \in Version /\ VersionOf(doc') \in Version
      /\ VersionOf(doc').scene = doc'.scene /\ VersionOf(doc).scene = doc.scene
      /\ kept \in Int /\ made \in Int
  BY VersionTyped DEF IInv, Shown, Stores
<1>3. CASE VersionOf(doc') = VersionOf(doc) \/ doc'.scene <= kept'
  <2>1. Queue(Tail(queue), closing', VersionOf(doc'), kept', made)
    BY <1>1, <1>2, <1>3, Shows
  <2> QED
    BY <2>1 DEF WritingIsCurrent
<1>4. CASE First.kind \in Renaming \cup Resolution /\ doc'.scene = doc.scene
  <2>1. Queue(Tail(queue), closing, VersionOf(doc'), kept', made)
    BY <1>2, <1>4, Rebased DEF IInv, First
  <2>2. closing' = closing \/ Queue(Tail(queue), None, VersionOf(doc'), kept', made)
    <3> SUFFICES ASSUME Ends(First) PROVE Queue(Tail(queue), None, VersionOf(doc'), kept', made)
      OBVIOUS
    <3> QED
      BY <2>1, Taken DEF IInv, Queue, Saves, Ahead, First
  <2> QED
    BY <2>1, <2>2 DEF WritingIsCurrent
<1> QED
  BY <1>3, <1>4

-----------------------------------------------------------------------------
LEMMA InitHolds == Init => IInv
<1> SUFFICES ASSUME Init PROVE IInv
  OBVIOUS
<1>1. Stores
  <2> DEFINE left == [scene |-> Earlier, dirty |-> TRUE]
  <2>1. left \in Draft /\ left.scene = Earlier
    BY ScenesAreNumbers DEF Draft
  <2>a. row = None \/ row = left
    BY Zenon DEF Init
  <2> HIDE DEF left
  <2>2. row = None \/ (row \in Draft /\ row.scene = Earlier)
    BY <2>1, <2>a
  <2>3. disk \in Scene /\ disk = 0 /\ made = 0 /\ kept = 0 /\ Earlier <= 0
    BY ScenesAreNumbers DEF Init, Opened, Earlier
  <2> QED
    BY <2>2, <2>3, BoundsAreNumbers DEF Stores
<1>2. Shown
  BY ScenesAreNumbers DEF Init, Shown, Doc, SaveState, Unsaving, Sched, Closing, Opened
<1>3. Around
  <2>1. writes \in 0..MaxWrites /\ failures \in 0..MaxFailures
    BY BoundsAreNumbers DEF Init
  <2>2. flagged \in BOOLEAN /\ calling \in BOOLEAN
    BY DEF Init
  <2> QED
    BY <2>1, <2>2 DEF Init, Around
<1>4. Queue(queue, closing, VersionOf(doc), kept, made)
  BY Emptied DEF Init
<1>5. WritingIsCurrent
  BY DEF Init, WritingIsCurrent
<1> QED
  BY <1>1, <1>2, <1>3, <1>4, <1>5 DEF IInv

LEMMA StutterKeeps ==
  ASSUME IInv, UNCHANGED vars
  PROVE  IInv'
<1>1. Stores' /\ Shown' /\ Around'
  BY DEF IInv, vars, Stores, Shown, Around
<1>2. Queue(queue', closing', VersionOf(doc'), kept', made')
  BY DEF IInv, vars
<1>3. WritingIsCurrent'
  BY DEF IInv, vars, WritingIsCurrent, First
<1> QED
  BY <1>1, <1>2, <1>3 DEF IInv

-----------------------------------------------------------------------------
\* The timers.

LEMMA TimersKeep ==
  ASSUME IInv, Timers
  PROVE  IInv'
<1> USE DEF IInv
<1>1. PICK op \in Operation : /\ op.version.scene <= made /\ ~Ends(op)
                              /\ queue' \in {queue, Append(queue, op)}
  <2>1. CASE HasWork
    <3>1. /\ Scheduled("draft", "timer") \in Operation /\ ~Ends(Scheduled("draft", "timer"))
          /\ Scheduled("draft", "timer").version.scene <= made
          /\ Scheduled("checkpoint", "timer") \in Operation /\ ~Ends(Scheduled("checkpoint", "timer"))
          /\ Scheduled("checkpoint", "timer").version.scene <= made
      BY <2>1, ScheduledTyped DEF Ends, Writing
    <3> QED
      BY <3>1 DEF Timers, DraftTimer, CheckpointTimer, Checkpoint
  <2>2. CASE ~HasWork
    <3>1. Op("reload") \in Operation /\ Op("reload").version.scene <= made /\ ~Ends(Op("reload"))
      BY OpTyped DEF Ends, Kind
    <3> QED
      BY <2>2, <3>1 DEF Timers, DraftTimer, CheckpointTimer
  <2> QED
    BY <2>1, <2>2
<1>2. UNCHANGED <<backend, watcher, tab, doc, calling, frozen, context, closing, bounds>>
  BY DEF Timers, DraftTimer, CheckpointTimer
<1>3. /\ UNCHANGED <<disk, row, flagged, changed, event, seen, tab, doc, calling, frozen, context, closing>>
      /\ UNCHANGED <<made, writes, failures, kept>>
  BY <1>2 DEF backend, watcher, bounds
<1>4. sched' \in Sched /\ sched'.payload = sched.payload
  <2>1. PICK T \in SUBSET Timer : sched' = [sched EXCEPT !.timers = T]
    <3>1. \A t : sched.timers \ {t} \in SUBSET Timer
      BY DEF Shown, Sched
    <3> QED
      BY <3>1 DEF Timers, DraftTimer, CheckpointTimer, Checkpoint
  <2> QED
    BY <2>1, TimersTyped DEF Shown
<1>5. Stores' /\ Around'
  BY <1>3 DEF Stores, Around
<1>6. Shown'
  BY <1>3, <1>4 DEF Shown
<1>7. Queue(queue, closing, VersionOf(doc), kept, made)' /\ WritingIsCurrent'
  BY <1>1, <1>3, QueueGrows DEF Shown
<1> QED
  BY <1>5, <1>6, <1>7

-----------------------------------------------------------------------------
\* The user.

\* What is asked of the queue, and does nothing else yet.
LEMMA AskingKeeps ==
  ASSUME IInv, NEW op \in Operation, op.version.scene <= made, ~Ends(op),
         queue' = Append(queue, op),
         UNCHANGED <<backend, watcher, tab, doc, calling, context, closing, bounds>>,
         sched' = sched \/ sched' = [sched EXCEPT !.timers = {}],
         frozen' \in {frozen, "preparing", "running"}
  PROVE  IInv'
<1> USE DEF IInv
<1>1. /\ UNCHANGED <<disk, row, flagged, changed, event, seen, tab, doc, calling, context, closing>>
      /\ UNCHANGED <<made, writes, failures, kept>>
  BY DEF backend, watcher, bounds
<1>2. Stores' /\ Around'
  BY <1>1 DEF Stores, Around
<1>3. sched' \in Sched /\ sched'.payload = sched.payload
  BY IdleTyped DEF Shown
<1>4. Shown'
  BY <1>1, <1>3 DEF Shown
<1>5. Queue(queue, closing, VersionOf(doc), kept, made)' /\ WritingIsCurrent'
  BY <1>1, QueueGrows DEF Shown
<1> QED
  BY <1>2, <1>4, <1>5

LEMMA RequestsKeep ==
  ASSUME IInv,
         \/ SaveNow \/ DeleteEntry \/ AskReplacement \/ AskStatus
         \/ \E kind \in {"saveHere", "saveElsewhere"} : SaveOrphan(kind)
         \/ \E resolution \in Resolution : Resolve(resolution)
  PROVE  IInv'
<1>1. CASE SaveNow
  <2>1. HasWork /\ Checkpoint("user")
    BY <1>1 DEF SaveNow
  <2> DEFINE op == Scheduled("checkpoint", "user")
  <2>2. op \in Operation /\ op.version.scene <= made /\ ~Ends(op)
    BY <2>1, ScheduledTyped DEF IInv, Ends, Writing
  <2> HIDE DEF op
  <2>3. queue' = Append(queue, op) /\ sched' = [sched EXCEPT !.timers = {}]
    BY <2>1 DEF Checkpoint, op
  <2> QED
    BY <1>1, <2>2, <2>3, AskingKeeps DEF SaveNow
<1>2. CASE AskReplacement
  <2>1. CASE HasWork
    <3> DEFINE op == Scheduled("checkpoint", "replace")
    <3>1. op \in Operation /\ op.version.scene <= made /\ ~Ends(op)
      BY <2>1, ScheduledTyped DEF IInv, Ends, Writing
    <3> HIDE DEF op
    <3>2. queue' = Append(queue, op) /\ sched' = [sched EXCEPT !.timers = {}]
      BY <1>2, <2>1 DEF AskReplacement, Checkpoint, op
    <3> QED
      BY <1>2, <2>1, <3>1, <3>2, AskingKeeps DEF AskReplacement
  <2>2. CASE ~HasWork
    <3> DEFINE op == Op("replace")
    <3>1. op \in Operation /\ op.version.scene <= made /\ ~Ends(op)
      BY OpTyped DEF IInv, Ends, Kind
    <3> HIDE DEF op
    <3>2. queue' = Append(queue, op)
      BY <1>2, <2>2 DEF AskReplacement, op
    <3> QED
      BY <1>2, <2>2, <3>1, <3>2, AskingKeeps DEF AskReplacement
  <2> QED
    BY <2>1, <2>2
<1>3. ASSUME NEW kind \in Kind \ {"close", "discard"}, Asks(kind), UNCHANGED closing
      PROVE  IInv'
  <2> DEFINE op == Op(kind)
  <2>1. op \in Operation /\ op.version.scene <= made /\ ~Ends(op)
    BY OpTyped DEF IInv, Ends
  <2> HIDE DEF op
  <2>2. queue' = Append(queue, op)
    BY <1>3 DEF Asks, op
  <2> QED
    BY <1>3, <2>1, <2>2, AskingKeeps DEF Asks
<1> QED
  BY <1>1, <1>2, <1>3 DEF DeleteEntry, AskStatus, SaveOrphan, Resolve, Kind, Resolution

LEMMA EditKeeps ==
  ASSUME IInv, Edit
  PROVE  IInv'
<1> USE DEF IInv
<1> DEFINE t == IF doc.state \in {"orphaned", "conflicted"} THEN doc.state ELSE "dirty"
<1>1. /\ UNCHANGED <<disk, row, flagged, changed, event, seen, tab, queue, calling, frozen, context, closing>>
      /\ UNCHANGED <<writes, failures, kept>>
      /\ made' = made + 1 /\ made < MaxEdits
      /\ doc' = [doc EXCEPT !.scene = made + 1, !.rev = @ + 1, !.state = t]
      /\ sched' = Recorded(sched, VersionOf(doc'))
  BY DEF Edit, backend, watcher
<1>2. t \in SaveState
  BY DEF Shown, Doc, SaveState, Unsaving
<1> HIDE DEF t
<1>3. /\ made \in Nat /\ made' \in 0..MaxEdits /\ made + 1 \in Scene /\ kept \in Int /\ made \in Int
      /\ kept \in 0..made' /\ made <= made' /\ made' \in Int
  BY <1>1, BoundsAreNumbers, ScenesAreNumbers DEF Stores
<1>4. doc' \in Doc /\ doc'.scene = made + 1 /\ doc'.gen = doc.gen
  <2>1. doc \in Doc /\ doc.rev + 1 \in Nat
    BY DEF Shown, Doc
  <2> QED
    BY <1>1, <1>2, <1>3, <2>1 DEF Doc
<1>5. /\ VersionOf(doc') \in Version /\ VersionOf(doc').scene = made'
      /\ sched' \in Sched /\ sched'.payload = VersionOf(doc')
  BY <1>1, <1>4, VersionTyped, RecordedTyped DEF Shown
<1>6. closing # None => (closing.shown <= made' /\ closing.shown < made')
  BY <1>1, <1>3, ScenesAreNumbers DEF Shown, Closing
<1>7. Stores' /\ Around'
  <2>1. row # None => row.scene \in Int
    BY ScenesAreNumbers DEF Stores, Draft
  <2> QED
    BY <1>1, <1>3, <2>1 DEF Stores, Around
<1>8. Shown'
  BY <1>1, <1>3, <1>4, <1>5, <1>6 DEF Shown
<1>9. Queue(queue', closing', VersionOf(doc'), kept', made')
  BY <1>1, <1>3, <1>5, <1>6, Shows, VersionTyped DEF Shown
<1>10. WritingIsCurrent'
  BY <1>1, <1>4 DEF WritingIsCurrent, First
<1> QED
  BY <1>7, <1>8, <1>9, <1>10

LEMMA ClosingKeeps ==
  ASSUME IInv, Close \/ DiscardOrphan
  PROVE  IInv'
<1> USE DEF IInv
<1>1. /\ UNCHANGED <<disk, row, flagged, changed, event, seen, tab, doc, calling, frozen, context>>
      /\ UNCHANGED <<made, writes, failures, kept>>
      /\ closing = None
      /\ closing' = [shown |-> doc.scene, saving |-> Saving, overtaken |-> FALSE]
  BY DEF Close, DiscardOrphan, Asks, backend, watcher, bounds
<1>2. /\ closing' \in Closing /\ closing'.shown = doc.scene /\ ~closing'.overtaken
      /\ closing' # None
      /\ closing'.saving => Saving
  <2>1. Saving \in BOOLEAN
    BY DEF Saving, HasWork
  <2> HIDE DEF Saving
  <2>2. /\ doc.scene \in Scene
        /\ closing' = [shown |-> doc.scene, saving |-> Saving, overtaken |-> FALSE]
    BY <1>1 DEF Shown, Doc
  <2>3. closing' \in Closing
    BY <2>1, <2>2 DEF Closing
  <2>4. closing'.shown = doc.scene /\ closing'.saving = Saving /\ ~closing'.overtaken
    BY <2>2
  <2> QED
    BY <2>3, <2>4, ClosingIsSome
<1>4. PICK op \in Operation :
        /\ queue' = Append(queue, op) /\ op.version.scene <= made
        /\ op.caller = "close" => op.kind = "checkpoint"
        /\ Saving => /\ op.kind # "close"
                     /\ op.caller = "close" => op.version = VersionOf(doc)
  <2>1. CASE Close /\ HasWork
    BY <2>1, ScheduledTyped DEF Close, Checkpoint, Saving, Writing
  <2>2. CASE Close /\ ~HasWork
    BY <2>2, OpTyped DEF Close, Saving, Kind
  <2>3. CASE DiscardOrphan
    BY <2>3, OpTyped DEF DiscardOrphan, Asks, Kind
  <2> QED
    BY <2>1, <2>2, <2>3
<1>5. Saving => \A i \in DOMAIN queue : queue[i].kind \notin Renaming \cup Resolution
  BY DEF Saving, Queued
<1>6. sched' = sched \/ sched' = [sched EXCEPT !.timers = {}]
  BY DEF Close, DiscardOrphan, Asks, Checkpoint
<1> HIDE DEF Saving
<1>7. sched' \in Sched /\ sched'.payload = sched.payload
  BY <1>6, IdleTyped DEF Shown
<1>8. Stores' /\ Around'
  BY <1>1 DEF Stores, Around
<1>9. Shown'
  BY <1>1, <1>2, <1>7 DEF Shown
<1>10. /\ Queue(queue', closing', VersionOf(doc), kept, made)
       /\ queue # <<>> => queue' # <<>> /\ Head(queue') = Head(queue)
  <2>1. VersionOf(doc).scene = closing'.shown
    BY <1>2, VersionTyped DEF Shown
  <2> QED
    BY <1>1, <1>2, <1>4, <1>5, <2>1, Begun
<1>11. WritingIsCurrent'
  BY <1>1, <1>10 DEF WritingIsCurrent, First
<1> QED
  BY <1>1, <1>8, <1>9, <1>10, <1>11

-----------------------------------------------------------------------------
\* The queue begins its first operation.

\* A checkpoint that has succeeded: its caller goes on.
LEMMA QueueFollows ==
  ASSUME IInv, queue # <<>>, First.kind \in Writing, queue' = After(First),
         calling' = FALSE, UNCHANGED made,
         First.caller # "close" => closing' = closing,
         First.caller = "close" =>
           /\ closing' \in Closing
           /\ closing'.saving /\ closing'.shown > kept' => closing'.overtaken,
         kept' \in Int, kept <= kept', doc' \in Doc, VersionOf(doc') = VersionOf(doc)
  PROVE  Queue(queue, closing, VersionOf(doc), kept, made)' /\ WritingIsCurrent'
<1> DEFINE d == VersionOf(doc)
<1>1. /\ closing \in Closing \cup {None} /\ d \in Version
      /\ kept \in Int /\ made \in Int
  BY VersionTyped DEF IInv, Shown, Stores
<1>2. Queue(queue, closing, d, kept', made)
  BY <1>1, Shows DEF IInv
<1>3. /\ Op("close") \in Operation /\ Op("close").version.scene <= made
      /\ Op("close").kind = "close" /\ Op("close").caller = "user"
      /\ Op("replace") \in Operation /\ Op("replace").version.scene <= made /\ ~Ends(Op("replace"))
  BY OpTyped DEF IInv, Ends, Kind
<1>4. Queue(Tail(queue), closing, d, kept', made)
  BY <1>2, Taken
<1>5. CASE First.caller = "close"
  <2>1. queue' = Append(Tail(queue), Op("close"))
    BY <1>5 DEF After
  <2>2. Queue(Append(Tail(queue), Op("close")), closing', d, kept', made)
    BY <1>1, <1>2, <1>3, <1>5, Followed DEF First
  <2> QED
    BY <2>1, <2>2 DEF WritingIsCurrent
<1>6. CASE First.caller = "replace"
  <2>1. queue' = Append(Tail(queue), Op("replace"))
    BY <1>6 DEF After
  <2> QED
    BY <1>3, <1>4, <1>6, <2>1, Appended DEF WritingIsCurrent
<1>7. CASE First.caller \notin {"close", "replace"}
  BY <1>4, <1>7 DEF After, WritingIsCurrent
<1> QED
  BY <1>5, <1>6, <1>7

\* The checkpoint of a closing is what the closing has to save.
LEMMA ClosingSaves ==
  ASSUME IInv, queue # <<>>, First.caller = "close"
  PROVE  /\ closing \in Closing
         /\ closing.saving /\ closing.shown > kept =>
              /\ First.version.scene = closing.shown
              /\ (doc.scene = closing.shown => First.version = VersionOf(doc))
<1>1. 1 \in DOMAIN queue /\ queue[1] = First
  BY DEF IInv, Queue, Operations, First
<1>2. closing # None
  BY <1>1 DEF IInv, Queue, Alone, Ends
<1>3. VersionOf(doc).scene = doc.scene
  BY VersionTyped DEF IInv, Shown
<1> QED
  BY <1>1, <1>2, <1>3 DEF IInv, Shown, Queue, Saves

LEMMA SkipWriteKeeps ==
  ASSUME IInv, SkipWrite
  PROVE  IInv'
<1> USE DEF IInv
<1>1. /\ UNCHANGED <<disk, row, flagged, changed, event, seen, tab, doc, calling, context>>
      /\ UNCHANGED <<made, writes, failures, kept>>
      /\ queue # <<>> /\ ~calling /\ First.kind \in Writing /\ First.version # VersionOf(doc)
      /\ queue' = After(First)
  BY DEF SkipWrite, backend, watcher, bounds, Rejected
<1>2. sched' \in Sched /\ sched'.payload \in {sched.payload, None}
  BY SettledTyped DEF SkipWrite, Shown
<1>3. Stores' /\ Around'
  BY <1>1 DEF Stores, Around, SkipWrite
<1>4. ASSUME First.caller = "close"
      PROVE  /\ closing' \in Closing /\ closing'.shown = closing.shown
             /\ (closing'.saving /\ closing'.shown > kept' => closing'.overtaken)
  <2>1. closing' = [closing EXCEPT !.overtaken = First.version.scene # doc.scene]
    BY <1>4 DEF SkipWrite
  <2>2. closing \in Closing
    BY <1>1, <1>4, ClosingSaves
  <2>3. /\ closing' \in Closing /\ closing'.shown = closing.shown /\ closing'.saving = closing.saving
        /\ closing'.overtaken <=> First.version.scene # doc.scene
    BY <2>1, <2>2 DEF Closing
  <2> QED
    BY <1>1, <1>4, <2>3, ClosingSaves
<1>5. First.caller # "close" => closing' = closing
  BY DEF SkipWrite
<1>6. Shown'
  <2>1. closing' \in Closing \cup {None} /\ (closing' # None => closing'.shown <= made)
    <3>1. CASE First.caller = "close"
      BY <1>1, <1>4, <3>1, ClosingSaves, ClosingIsSome DEF Shown
    <3>2. CASE First.caller # "close"
      BY <1>5, <3>2 DEF Shown
    <3> QED
      BY <3>1, <3>2
  <2> QED
    BY <1>1, <1>2, <2>1 DEF Shown
<1>7. /\ calling' = FALSE /\ kept' \in Int /\ kept <= kept' /\ doc' \in Doc
      /\ VersionOf(doc') = VersionOf(doc)
  BY <1>1 DEF Around, Stores, Shown
<1>8. Queue(queue, closing, VersionOf(doc), kept, made)' /\ WritingIsCurrent'
  BY <1>1, <1>4, <1>5, <1>7, QueueFollows
<1> QED
  BY <1>3, <1>6, <1>8

LEMMA BeginWriteKeeps ==
  ASSUME IInv, BeginWrite
  PROVE  IInv'
<1> USE DEF IInv
<1>1. /\ UNCHANGED <<disk, row, flagged, changed, event, seen, tab, sched, queue, frozen, context, closing>>
      /\ UNCHANGED <<made, writes, failures, kept>>
      /\ queue # <<>> /\ calling' = TRUE /\ First.version = VersionOf(doc)
  BY DEF BeginWrite, backend, watcher, bounds, Rejected
<1>2. PICK t \in SaveState : doc' = [doc EXCEPT !.state = t]
  BY DEF BeginWrite, SaveState, Unsaving
<1>3. /\ doc' \in Doc /\ VersionOf(doc') = VersionOf(doc) /\ doc'.scene = doc.scene
      /\ doc'.gen = doc.gen /\ VersionOf(doc).gen = doc.gen
  BY <1>2, StateTyped, VersionTyped DEF Shown
<1>4. Stores' /\ Around'
  BY <1>1 DEF Stores, Around
<1>5. Shown'
  BY <1>1, <1>3 DEF Shown
<1>6. Queue(queue', closing', VersionOf(doc'), kept', made')
  BY <1>1, <1>3
<1>7. WritingIsCurrent'
  BY <1>1, <1>3 DEF WritingIsCurrent, First
<1> QED
  BY <1>4, <1>5, <1>6, <1>7

LEMMA BeginCallKeeps ==
  ASSUME IInv, BeginCall
  PROVE  IInv'
<1> USE DEF IInv
<1>1. /\ UNCHANGED <<disk, row, flagged, changed, event, seen, tab, doc, sched, frozen, context, closing>>
      /\ UNCHANGED <<made, writes, failures, kept>>
      /\ queue # <<>> /\ calling' = TRUE /\ First.kind \notin Writing
      /\ queue' = queue \/ queue' = <<[First EXCEPT !.version = VersionOf(doc)]>> \o Tail(queue)
  BY DEF BeginCall, backend, watcher, bounds
<1>2. /\ VersionOf(doc) \in Version /\ VersionOf(doc).scene <= made
  BY VersionTyped DEF Shown
<1>3. Stores' /\ Around'
  BY <1>1 DEF Stores, Around
<1>4. Shown'
  BY <1>1 DEF Shown
<1>5. /\ Queue(queue', closing, VersionOf(doc), kept, made)
      /\ queue' # <<>> /\ Head(queue').kind \notin Writing
  BY <1>1, <1>2, Refreshed DEF First
<1>6. WritingIsCurrent'
  BY <1>5 DEF WritingIsCurrent, First
<1> QED
  BY <1>1, <1>3, <1>4, <1>5, <1>6

-----------------------------------------------------------------------------
\* The backend answers.

Frozen == {"no", "preparing", "running", "pending", "pendingDone"}

\* What has to be shown of an answer after which the queue goes on.
LEMMA AnswerKeeps ==
  ASSUME IInv, calling, Done, UNCHANGED <<tab, made, writes>>,
         Stores', kept <= kept',
         UNCHANGED watcher \/ (changed' = "none" /\ event' = None /\ seen' = None),
         flagged' \in BOOLEAN, frozen' \in Frozen, context' \in Version \cup {None},
         failures' \in 0..MaxFailures,
         closing' = closing \/ (closing' = None /\ Ends(First)),
         doc' \in Doc, doc'.scene <= made,
         \/ VersionOf(doc') = VersionOf(doc)
         \/ doc'.scene <= kept'
         \/ First.kind \in Renaming \cup Resolution /\ doc'.scene = doc.scene,
         sched' \in Sched, sched'.payload \in {sched.payload, None, VersionOf(doc')}
  PROVE  IInv'
<1> USE DEF IInv
<1>1. queue # <<>> /\ queue' = Tail(queue) /\ calling' = FALSE
  BY DEF WritingIsCurrent, Done
<1>2. Around'
  <2>1. changed' \in {"none", "created", "modified", "removed"}
    BY DEF Around, watcher
  <2>2. event' \in [kind : {"modified", "removed"}, scene : Scene \cup {None}] \cup {None}
    BY DEF Around, watcher
  <2>3. seen' \in Scene \cup {None}
    BY DEF Around, watcher
  <2> QED
    BY <1>1, <2>1, <2>2, <2>3 DEF Around, Frozen
<1>3. Shown'
  <2>1. sched'.payload # None => sched'.payload.scene <= made
    BY VersionTyped DEF Shown
  <2>2. closing' \in Closing \cup {None} /\ (closing' # None => closing'.shown <= made)
    BY DEF Shown
  <2> QED
    BY <2>1, <2>2 DEF Shown
<1>4. kept' \in Int
  BY DEF Stores
<1>5. Queue(queue, closing, VersionOf(doc), kept, made)' /\ WritingIsCurrent'
  BY <1>1, <1>4, QueueShrinks
<1> QED
  BY <1>2, <1>3, <1>5

\* What is as it was before an answer.
LEMMA BeforeAnswer ==
  ASSUME IInv
  PROVE  /\ flagged \in BOOLEAN /\ frozen \in Frozen /\ context \in Version \cup {None}
         /\ failures \in 0..MaxFailures
         /\ doc \in Doc /\ doc.scene <= made /\ sched \in Sched
         /\ kept \in Int /\ kept <= kept /\ made \in Int
         /\ doc.scene \in Int
<1>1. doc.scene \in Int
  BY ScenesAreNumbers DEF IInv, Shown, Doc
<1>2. kept \in Int /\ made \in Int
  BY DEF IInv, Stores
<1> QED
  BY <1>1, <1>2 DEF IInv, Around, Shown, Frozen

LEMMA FailureTyped ==
  ASSUME IInv, Fail \/ UNCHANGED failures
  PROVE  failures' \in 0..MaxFailures
  BY BoundsAreNumbers DEF IInv, Around, Fail

\* A failure changes no more than the state that is shown.
LEMMA FailureKeeps ==
  ASSUME IInv, calling, Done, Fail \/ UNCHANGED failures,
         UNCHANGED <<backend, watcher, tab, sched, made, writes, kept>>,
         NEW t \in SaveState, doc' \in {doc, [doc EXCEPT !.state = t]},
         frozen' \in Frozen, context' \in {context, None},
         closing' = closing \/ (closing' = None /\ Ends(First))
  PROVE  IInv'
<1>1. /\ doc' \in Doc /\ VersionOf(doc') = VersionOf(doc) /\ doc'.scene = doc.scene
  BY StateTyped, BeforeAnswer
<1>2. Stores' /\ flagged' = flagged /\ kept' = kept /\ tab' = tab /\ made' = made /\ writes' = writes
  BY DEF IInv, Stores, backend
<1>3. sched' = sched
  OBVIOUS
<1> QED
  BY <1>1, <1>2, <1>3, BeforeAnswer, FailureTyped, AnswerKeeps

LEMMA FailuresKeep ==
  ASSUME IInv,
         \/ DraftFails \/ CheckpointFails \/ CloseFails \/ ReplaceFails \/ StatusFails
         \/ \E kind, reason : CallFails(kind, reason)
  PROVE  IInv'
<1>1. frozen \in Frozen /\ "no" \in Frozen /\ "error" \in SaveState
  BY BeforeAnswer DEF Frozen, SaveState
<1>2. ASSUME NEW reason, Refused(reason) PROVE Fail \/ UNCHANGED failures
  BY <1>2 DEF Refused
<1>3. CASE DraftFails
  BY <1>1, <1>2, <1>3, FailureKeeps DEF DraftFails, Answered
<1>4. CASE CheckpointFails
  <2>1. Ends(First) \/ First.caller # "close"
    BY DEF Ends
  <2>2. frozen' \in Frozen
    BY <1>1, <1>4 DEF CheckpointFails
  <2> QED
    BY <1>1, <1>2, <1>4, <2>1, <2>2, FailureKeeps DEF CheckpointFails, Answered
<1>5. CASE CloseFails
  <2>1. Ends(First)
    BY <1>5 DEF CloseFails, Answered, Ends
  <2> QED
    BY <1>1, <1>2, <1>5, <2>1, FailureKeeps DEF CloseFails, Answered
<1>6. CASE ReplaceFails
  BY <1>1, <1>2, <1>6, FailureKeeps DEF ReplaceFails, Answered
<1>7. CASE StatusFails
  BY <1>1, <1>7, FailureKeeps DEF StatusFails, Answered
<1>8. ASSUME NEW kind, NEW reason, CallFails(kind, reason) PROVE IInv'
  BY <1>1, <1>2, <1>8, FailureKeeps DEF CallFails, Answered
<1> QED
  BY <1>3, <1>4, <1>5, <1>6, <1>7, <1>8

\* A write that is stored was made: nothing else is written.
LEMMA SavedTyped ==
  ASSUME NEW scene \in Scene
  PROVE  Saved(scene) \in Draft /\ Saved(scene).scene = scene
  BY DEF Saved, Draft

LEMMA StoredScene ==
  ASSUME IInv, NEW scene \in Scene, scene <= made, UNCHANGED made, kept' \in 0..made,
         \/ disk' = scene /\ scene <= kept'
         \/ disk' = disk /\ kept <= kept',
         row' \in Draft /\ row'.scene = scene
  PROVE  Stores'
<1>1. disk' \in Scene \cup {None} /\ row' \in Draft \cup {None} /\ made' \in 0..MaxEdits /\ kept' \in 0..made'
  BY DEF IInv, Stores
<1>2. disk' # None => disk' <= kept'
  BY ScenesAreNumbers DEF IInv, Stores
<1> QED
  BY <1>1, <1>2 DEF Stores

LEMMA CurrentFirst ==
  ASSUME IInv, calling
  PROVE  /\ queue # <<>> /\ First \in Operation /\ First.version \in Version
         /\ First.version.scene \in Scene /\ First.version.scene <= made
         /\ First.version.scene \in Int /\ First.version.gen \in Nat /\ First.version.rev \in Nat
<1>1. queue # <<>>
  BY DEF IInv, WritingIsCurrent
<1> QED
  BY <1>1, FirstTyped, ScenesAreNumbers DEF Version

LEMMA DraftLandsKeeps ==
  ASSUME IInv, DraftLands
  PROVE  IInv'
<1> DEFINE s == First.version.scene
<1>1. /\ calling /\ Done /\ UNCHANGED <<tab, made, writes, watcher, flagged, frozen, context, failures, closing, sched>>
      /\ UNCHANGED <<disk, kept>> /\ row' = [scene |-> s, dirty |-> TRUE]
      /\ doc' = doc \/ doc' = [doc EXCEPT !.state = "draftSaved"]
  BY DEF DraftLands, Answered, bounds
<1>2. s \in Scene /\ s <= made
  BY <1>1, CurrentFirst
<1>3. kept' \in 0..made /\ kept <= kept'
  BY <1>1, BeforeAnswer DEF IInv, Stores
<1>4. row' \in Draft /\ row'.scene = s
  BY <1>1, <1>2 DEF Draft
<1> HIDE DEF s
<1>5. Stores'
  BY <1>1, <1>2, <1>3, <1>4, StoredScene
<1>6. doc' \in Doc /\ VersionOf(doc') = VersionOf(doc) /\ doc'.scene = doc.scene
  <2>1. "draftSaved" \in SaveState
    BY DEF SaveState, Unsaving
  <2>2. CASE doc' = doc
    BY <2>2, BeforeAnswer
  <2>3. CASE doc' = [doc EXCEPT !.state = "draftSaved"]
    BY <2>1, <2>3, BeforeAnswer, StateTyped
  <2> QED
    BY <1>1, <2>2, <2>3
<1> QED
  BY <1>1, <1>3, <1>5, <1>6, BeforeAnswer, AnswerKeeps

LEMMA CheckpointLandsKeeps ==
  ASSUME IInv, CheckpointLands
  PROVE  IInv'
<1> DEFINE s == First.version.scene
<1>1. /\ calling /\ UNCHANGED <<tab, made, writes, watcher, flagged, context, failures, closing>>
      /\ First.kind \in Writing
      /\ Keep(s) /\ row' = Saved(s) /\ disk' = s
      /\ queue' = After(First) /\ calling' = FALSE
      /\ frozen' \in {"running", frozen}
      /\ sched' = Settled(sched, First)
  BY DEF CheckpointLands, Answered, Writing
<1>2. PICK t \in SaveState : doc' = [doc EXCEPT !.state = t]
  BY DEF CheckpointLands, SaveState, Unsaving
<1>3. s \in Scene /\ s <= made /\ s \in Int /\ queue # <<>>
  BY <1>1, CurrentFirst
<1>4. kept' \in 0..made /\ kept <= kept' /\ s <= kept'
  BY <1>1, <1>3, KeepTyped DEF IInv
<1>5. doc' \in Doc /\ VersionOf(doc') = VersionOf(doc) /\ doc'.scene = doc.scene
  BY <1>2, BeforeAnswer, StateTyped
<1>6. sched' \in Sched /\ sched'.payload \in {sched.payload, None}
  BY <1>1, SettledTyped, BeforeAnswer
<1>7. First.caller = "close" =>
        /\ closing' \in Closing
        /\ closing'.saving /\ closing'.shown > kept' => closing'.overtaken
  <2> SUFFICES ASSUME First.caller = "close"
               PROVE  closing \in Closing /\ ~(closing.saving /\ closing.shown > kept')
    BY <1>1
  <2>1. closing \in Closing /\ closing.shown \in Int
    BY <1>3, ClosingSaves, ScenesAreNumbers DEF Closing
  <2>2. closing.saving /\ closing.shown > kept => s = closing.shown
    BY <1>3, ClosingSaves
  <2> QED
    BY <1>3, <1>4, <2>1, <2>2, BeforeAnswer
<1> HIDE DEF s
<1>8. Stores'
  BY <1>1, <1>3, <1>4, SavedTyped, StoredScene
<1>9. Queue(queue, closing, VersionOf(doc), kept, made)' /\ WritingIsCurrent'
  <2>1. kept' \in Int /\ made' = made /\ closing' = closing
    BY <1>1, <1>4
  <2> QED
    BY <1>1, <1>3, <1>4, <1>5, <1>7, <2>1, QueueFollows
<1>10. Shown'
  BY <1>1, <1>5, <1>6 DEF IInv, Shown
<1>11. Around'
  BY <1>1 DEF IInv, Around, watcher
<1> QED
  BY <1>8, <1>9, <1>10, <1>11 DEF IInv

\* The tab is closed, whatever was in the queue.
LEMMA DropKeeps ==
  ASSUME IInv, CloseLands \/ DeleteLands
  PROVE  IInv'
<1>1. /\ UNCHANGED <<flagged, changed, event, seen, doc, made, writes, failures, kept>>
      /\ row' = None /\ disk' \in {disk, None} /\ Drop
  BY DEF CloseLands, DeleteLands, watcher, bounds
<1>2. Stores'
  BY <1>1 DEF IInv, Stores
<1>3. sched' \in Sched /\ sched'.payload = None
  <2>1. {} \in SUBSET Timer
    OBVIOUS
  <2> QED
    BY <1>1, <2>1, TimersTyped, BeforeAnswer DEF Drop
<1>4. Shown'
  BY <1>1, <1>3 DEF IInv, Shown, Drop
<1>5. Around'
  BY <1>1 DEF IInv, Around, Drop
<1>6. Queue(queue', closing', VersionOf(doc'), kept', made')
  BY <1>1, Emptied DEF Drop
<1>7. WritingIsCurrent'
  BY <1>1 DEF WritingIsCurrent, Drop
<1> QED
  BY <1>2, <1>4, <1>5, <1>6, <1>7 DEF IInv

\* The session shows what is stored.
LEMMA AdoptTyped ==
  ASSUME NEW scene \in Scene, NEW version, version.gen \in Nat, version.rev \in Nat, Adopt(scene, version)
  PROVE  doc' \in Doc /\ doc'.scene = scene
  BY DEF Adopt, Doc, SaveState

LEMMA RebaseTyped ==
  ASSUME IInv, calling, NEW state \in SaveState, Rebase(state)
  PROVE  doc' \in Doc /\ doc'.scene = doc.scene
<1>1. First.version.gen + 1 \in Nat
  BY CurrentFirst
<1> QED
  BY <1>1, BeforeAnswer DEF Rebase, Doc

LEMMA ReloadKeeps ==
  ASSUME IInv, ReloadLands \/ TakeExternalLands
  PROVE  IInv'
<1>1. /\ calling /\ Done /\ UNCHANGED <<tab, made, writes, watcher, frozen, context, failures, closing, disk, kept>>
      /\ disk # None /\ Adopt(disk, First.version) /\ sched' = Release(sched)
      /\ (flagged' = flagged /\ row' = row) \/ (flagged' = FALSE /\ row' = Saved(disk))
  BY DEF ReloadLands, TakeExternalLands, Answered, ResolveRefused, backend, bounds
<1>2. disk \in Scene /\ disk <= kept /\ kept <= made /\ disk \in Int /\ kept' \in 0..made /\ kept \in Int /\ made \in Int
  BY <1>1, ScenesAreNumbers DEF IInv, Stores
<1>3. doc' \in Doc /\ doc'.scene = disk
  BY <1>1, <1>2, CurrentFirst, AdoptTyped
<1>4. Stores'
  <2>1. CASE row' = row
    BY <1>1, <2>1 DEF IInv, Stores
  <2>2. CASE row' = Saved(disk)
    BY <1>1, <1>2, <2>2, SavedTyped, StoredScene
  <2> QED
    BY <1>1, <2>1, <2>2
<1>5. sched' \in Sched /\ sched'.payload = sched.payload
  BY <1>1, ReleaseTyped, BeforeAnswer
<1>6. kept' = kept /\ doc'.scene <= made /\ doc'.scene <= kept'
  BY <1>1, <1>2, <1>3
<1>7. flagged' \in BOOLEAN
  BY <1>1, BeforeAnswer
<1> QED
  BY <1>1, <1>3, <1>4, <1>5, <1>6, <1>7, BeforeAnswer, AnswerKeeps

LEMMA KeepLocalKeeps ==
  ASSUME IInv, KeepLocalLands
  PROVE  IInv'
<1>1. /\ calling /\ Done /\ UNCHANGED <<tab, made, writes, watcher, frozen, context, failures, closing, disk, row, kept>>
      /\ flagged' = FALSE /\ Rebase("dirty") /\ First.kind = "keepLocal"
      /\ sched' = Recorded(Release(sched), VersionOf(doc'))
  BY DEF KeepLocalLands, Answered, bounds
<1>2. "dirty" \in SaveState /\ First.kind \in Renaming \cup Resolution
  BY <1>1 DEF SaveState, Unsaving, Resolution
<1>3. doc' \in Doc /\ doc'.scene = doc.scene
  BY <1>1, <1>2, RebaseTyped
<1>4. Stores'
  BY <1>1 DEF IInv, Stores
<1>5. sched' \in Sched /\ sched'.payload = VersionOf(doc')
  BY <1>1, <1>3, ReleaseTyped, RecordedTyped, VersionTyped, BeforeAnswer
<1> QED
  BY <1>1, <1>2, <1>3, <1>4, <1>5, BeforeAnswer, AnswerKeeps

\* Saves under this name or another, and of an orphan.
LEMMA RenamingKeeps ==
  ASSUME IInv, SaveAsNewLands \/ SaveHereLands \/ SaveElsewhereLands
  PROVE  IInv'
<1>1. PICK scene :
        /\ disk' = scene /\ row' = Saved(scene)
        /\ Keep(scene)
        /\ scene = First.version.scene \/ (row # None /\ scene = row.scene)
  BY DEF SaveAsNewLands, SaveHereLands, SaveElsewhereLands, Follow, bounds, ResolveRefused
<1>2. /\ calling /\ Done /\ UNCHANGED <<tab, made, writes, frozen, context, failures, closing>>
      /\ UNCHANGED watcher \/ (changed' = "none" /\ event' = None /\ seen' = None)
      /\ flagged' \in {flagged, FALSE}
      /\ Rebase("clean") /\ First.kind \in Renaming
      /\ sched' = Release(sched)
  BY DEF SaveAsNewLands, SaveHereLands, SaveElsewhereLands, Follow, bounds, Answered, Renaming
<1>3. scene \in Scene /\ scene <= made /\ scene <= kept' /\ kept' \in 0..made /\ kept <= kept' /\ kept' \in Int
  <2>1. scene \in Scene /\ scene <= made
    BY <1>1, <1>2, CurrentFirst DEF IInv, Stores, Draft
  <2> QED
    BY <1>1, <2>1, KeepTyped DEF IInv
<1>4. Stores'
  BY <1>1, <1>2, <1>3, SavedTyped, StoredScene
<1>5. doc' \in Doc /\ doc'.scene = doc.scene
  BY <1>2, RebaseTyped DEF SaveState
<1>6. sched' \in Sched /\ sched'.payload = sched.payload
  BY <1>2, ReleaseTyped, BeforeAnswer
<1>7. flagged' \in BOOLEAN /\ frozen' \in Frozen /\ context' \in Version \cup {None}
      /\ failures' \in 0..MaxFailures
  BY <1>2, BeforeAnswer
<1> QED
  BY <1>2, <1>3, <1>4, <1>5, <1>6, <1>7, BeforeAnswer, AnswerKeeps

\* What a replacement stores, keeping the scene that it replaces.
LEMMA ReplacedStores ==
  ASSUME IInv, UNCHANGED made, Replaced
  PROVE  Stores' /\ kept <= kept' /\ kept' \in 0..made
<1>1. kept' \in 0..made /\ kept <= kept' /\ kept' \in Int
      /\ Earlier \in Scene /\ Earlier <= kept' /\ Earlier <= made
  <2>1. doc.scene \in Scene /\ doc.scene <= made /\ Keep(doc.scene)
    BY DEF IInv, Shown, Doc, Replaced
  <2>2. kept' \in 0..made /\ kept <= kept'
    BY <2>1, KeepTyped DEF IInv
  <2> QED
    BY <2>2, ScenesAreNumbers, BeforeAnswer DEF Earlier
<1> QED
  BY <1>1, SavedTyped, StoredScene DEF Replaced

\* An outcome is adopted, or waits.
LEMMA AdoptsTyped ==
  ASSUME IInv, NEW version \in Version \cup {None}, Adopts(version) \/ Defers(version), kept' \in 0..made
  PROVE  /\ doc' \in Doc /\ doc'.scene <= made
         /\ VersionOf(doc') = VersionOf(doc) \/ doc'.scene <= kept'
         /\ sched' \in Sched /\ sched'.payload = sched.payload
         /\ frozen' \in Frozen /\ context' \in Version \cup {None}
<1>1. CASE Adopts(version)
  <2>1. version.gen \in Nat /\ version.rev \in Nat
    BY <1>1, BeforeAnswer DEF Adopts, Doc
  <2>2. doc' \in Doc /\ doc'.scene = Earlier
    BY <1>1, <2>1, AdoptTyped, ScenesAreNumbers DEF Adopts
  <2>3. Earlier <= kept' /\ Earlier <= made
    BY BeforeAnswer DEF Earlier
  <2> QED
    BY <1>1, <2>2, <2>3, ReleaseTyped, BeforeAnswer DEF Adopts, Frozen
<1>2. CASE Defers(version)
  BY <1>2, BeforeAnswer DEF Defers, Frozen
<1> QED
  BY <1>1, <1>2

LEMMA ReplacementKeeps ==
  ASSUME IInv, ReplaceLands \/ ReplaceUncertain \/ StatusLands
  PROVE  IInv'
<1>1. /\ calling /\ Done /\ UNCHANGED <<flagged, watcher, tab, closing, made, writes>>
      /\ Fail \/ UNCHANGED failures
  BY DEF ReplaceLands, ReplaceUncertain, StatusLands, Answered, backend, bounds
<1>2. First.version \in Version /\ flagged' \in BOOLEAN /\ failures' \in 0..MaxFailures
  BY <1>1, CurrentFirst, BeforeAnswer, FailureTyped
<1>3. Stores' /\ kept <= kept' /\ kept' \in 0..made
  <2>1. Replaced \/ UNCHANGED <<disk, row, kept>>
    BY DEF ReplaceLands, ReplaceUncertain, StatusLands, backend, bounds
  <2>2. CASE Replaced
    BY <1>1, <2>2, ReplacedStores
  <2>3. CASE UNCHANGED <<disk, row, kept>>
    BY <1>1, <2>3, BeforeAnswer DEF IInv, Stores
  <2> QED
    BY <2>1, <2>2, <2>3
<1>4. CASE ReplaceLands
  <2>1. Adopts(First.version) \/ Defers(First.version)
    BY <1>4 DEF ReplaceLands
  <2> QED
    BY <1>1, <1>2, <1>3, <2>1, AdoptsTyped, AnswerKeeps
<1>5. CASE ReplaceUncertain
  <2>1. UNCHANGED <<doc, sched>> /\ frozen' \in Frozen /\ context' \in Version \cup {None}
    BY <1>2, <1>5 DEF ReplaceUncertain, Frozen
  <2> QED
    BY <1>1, <1>2, <1>3, <2>1, BeforeAnswer, AnswerKeeps
<1>6. CASE StatusLands
  <2>1. CASE frozen = "pendingDone"
    <3>1. Adopts(context) \/ Defers(context)
      BY <1>6, <2>1 DEF StatusLands
    <3> QED
      BY <1>1, <1>2, <1>3, <3>1, BeforeAnswer, AdoptsTyped, AnswerKeeps
  <2>2. CASE frozen # "pendingDone"
    <3>1. UNCHANGED <<doc, sched>> /\ frozen' \in Frozen /\ context' \in Version \cup {None}
      BY <1>6, <2>2 DEF StatusLands, Frozen
    <3> QED
      BY <1>1, <1>2, <1>3, <3>1, BeforeAnswer, AnswerKeeps
  <2> QED
    BY <2>1, <2>2
<1> QED
  BY <1>4, <1>5, <1>6

-----------------------------------------------------------------------------
\* Other programs, and what the window hears of them.

\* What changes neither the session nor what the app has stored.
LEMMA AroundKeeps ==
  ASSUME IInv, UNCHANGED <<row, session, made, kept>>,
         disk' = disk \/ disk' \in External \cup {None}, Around'
  PROVE  IInv'
<1>1. UNCHANGED <<tab, doc, sched, queue, calling, frozen, context, closing, row, made, kept>>
  BY DEF session
<1>2. Stores'
  <2>1. disk' \in External => disk' \in Scene /\ disk' < -1 /\ disk' \in Int
    BY ExternalAssumption DEF Scene, Earlier
  <2>2. kept \in Int /\ 0 <= kept
    BY DEF IInv, Stores
  <2>3. disk' \in Scene \cup {None} /\ (disk' # None => disk' <= kept)
    <3>1. CASE disk' = disk
      BY <3>1 DEF IInv, Stores
    <3>2. CASE disk' \in External
      BY <2>1, <2>2, <3>2, ScenesAreNumbers
    <3> QED
      BY <3>1, <3>2
  <2> QED
    BY <1>1, <2>3 DEF IInv, Stores
<1>3. Shown'
  BY <1>1 DEF IInv, Shown
<1>4. Queue(queue', closing', VersionOf(doc'), kept', made')
  BY <1>1 DEF IInv
<1>5. WritingIsCurrent'
  BY <1>1 DEF IInv, WritingIsCurrent, First
<1> QED
  BY <1>2, <1>3, <1>4, <1>5 DEF IInv

LEMMA ExternalKeeps ==
  ASSUME IInv, NEW content \in External \cup {None}, ExternalStep(content)
  PROVE  IInv'
<1>1. /\ UNCHANGED <<row, session, made, kept>> /\ disk' \in External \cup {None}
      /\ UNCHANGED <<flagged, event, seen, failures>>
      /\ UNCHANGED <<tab, calling, frozen, context>>
      /\ writes' = writes + 1 /\ writes < MaxWrites
      /\ changed' \in {"removed", "created", "modified"}
  BY DEF ExternalStep, session
<1>2. writes' \in 0..MaxWrites
  BY <1>1, BoundsAreNumbers DEF IInv, Around
<1>3. Around'
  BY <1>1, <1>2 DEF IInv, Around
<1> QED
  BY <1>1, <1>3, AroundKeeps

LEMMA WatchKeeps ==
  ASSUME IInv, Watch
  PROVE  IInv'
<1>1. /\ UNCHANGED <<disk, row, session, made, kept>>
      /\ UNCHANGED <<seen, writes, failures>>
      /\ UNCHANGED <<tab, calling, frozen, context>>
      /\ changed' = "none"
  BY DEF Watch, session, bounds
<1>2. event' \in [kind : {"modified", "removed"}, scene : Scene \cup {None}] \cup {None}
  <2>1. disk \in Scene \cup {None}
    BY DEF IInv, Stores
  <2> QED
    BY <2>1 DEF Watch
<1>3. flagged' \in BOOLEAN
  <2>1. flagged \in BOOLEAN /\ (row # None => row.dirty \in BOOLEAN)
    BY DEF IInv, Stores, Draft, Around
  <2>2. flagged' \in {FALSE, flagged, flagged \/ row.dirty}
    BY DEF Watch
  <2> QED
    BY <2>1, <2>2
<1>4. Around'
  BY <1>1, <1>2, <1>3 DEF IInv, Around
<1> QED
  BY <1>1, <1>4, AroundKeeps

\* The session is orphaned or conflicted, and a reload may be added.
LEMMA HandlingKeeps ==
  ASSUME IInv, HandleRemoved \/ HandleModified
  PROVE  IInv'
<1>1. /\ UNCHANGED <<disk, row, flagged, changed, tab, calling, frozen, context, closing>>
      /\ UNCHANGED <<made, writes, failures, kept>>
      /\ event # None /\ event' = None
  BY DEF HandleRemoved, HandleModified, backend, bounds
<1>2. \/ UNCHANGED <<doc, sched>>
      \/ sched' = Hold(sched) /\ \E t \in {"orphaned", "conflicted"} : doc' = [doc EXCEPT !.state = t]
  BY DEF HandleRemoved, HandleModified
<1>3. queue' \in {queue, Append(queue, Op("reload"))} /\ seen' \in {seen, event.scene}
  BY DEF HandleRemoved, HandleModified
<1>4. doc' \in Doc /\ VersionOf(doc') = VersionOf(doc) /\ doc'.scene = doc.scene /\ doc'.gen = doc.gen
  <2>1. {"orphaned", "conflicted"} \subseteq SaveState
    BY DEF SaveState
  <2>2. CASE doc' = doc
    BY <2>2, BeforeAnswer
  <2>3. ASSUME NEW t \in {"orphaned", "conflicted"}, doc' = [doc EXCEPT !.state = t]
        PROVE  doc' \in Doc /\ VersionOf(doc') = VersionOf(doc) /\ doc'.scene = doc.scene /\ doc'.gen = doc.gen
    BY <2>1, <2>3, BeforeAnswer, StateTyped
  <2> QED
    BY <1>2, <2>2, <2>3
<1>5. sched' \in Sched /\ sched'.payload = sched.payload
  BY <1>2, HoldTyped, BeforeAnswer
<1>6. Stores'
  BY <1>1 DEF IInv, Stores
<1>7. Shown'
  BY <1>1, <1>4, <1>5 DEF IInv, Shown
<1>8. Around'
  <2>1. seen' \in Scene \cup {None}
    BY <1>1, <1>3 DEF IInv, Around
  <2> QED
    BY <1>1, <2>1 DEF IInv, Around
<1>9. Queue(queue, closing, VersionOf(doc), kept, made)' /\ WritingIsCurrent'
  <2>1. Op("reload") \in Operation /\ Op("reload").version.scene <= made /\ ~Ends(Op("reload"))
    BY OpTyped DEF IInv, Ends, Kind
  <2> QED
    BY <1>1, <1>3, <1>4, <2>1, QueueGrows
<1> QED
  BY <1>6, <1>7, <1>8, <1>9 DEF IInv

-----------------------------------------------------------------------------
LEMMA StepKeeps == IInv /\ [Next]_vars => IInv'
<1> SUFFICES ASSUME IInv, [Next]_vars PROVE IInv'
  OBVIOUS
<1>1. CASE Timers
  BY <1>1, TimersKeep
<1>2. CASE User
  BY <1>2, RequestsKeep, EditKeeps, ClosingKeeps DEF User
<1>3. CASE Begin
  BY <1>3, SkipWriteKeeps, BeginWriteKeeps, BeginCallKeeps DEF Begin
<1>4. CASE Answer
  <2>1. CASE \/ CallFails("delete", DeleteRefused) \/ CallFails("reload", disk = None)
             \/ \E resolution \in Resolution : CallFails(resolution, ResolveRefused)
             \/ CallFails("saveHere", flagged)
             \/ CallFails("saveElsewhere", disk # None \/ row = None)
    BY <2>1, FailuresKeep
  <2>2. CASE DraftFails \/ CheckpointFails \/ CloseFails \/ ReplaceFails \/ StatusFails
    BY <2>2, FailuresKeep
  <2>3. CASE DraftLands \/ CheckpointLands \/ CloseLands \/ DeleteLands
    BY <2>3, DraftLandsKeeps, CheckpointLandsKeeps, DropKeeps
  <2>4. CASE \/ ReloadLands \/ TakeExternalLands \/ KeepLocalLands
             \/ SaveAsNewLands \/ SaveHereLands \/ SaveElsewhereLands
    BY <2>4, ReloadKeeps, KeepLocalKeeps, RenamingKeeps
  <2>5. CASE ReplaceLands \/ ReplaceUncertain \/ StatusLands
    BY <2>5, ReplacementKeeps
  <2> QED
    BY <1>4, <2>1, <2>2, <2>3, <2>4, <2>5 DEF Answer
<1>5. CASE Others
  BY <1>5, ExternalKeeps DEF Others
<1>6. CASE Listen
  BY <1>6, WatchKeeps, HandlingKeeps DEF Listen
<1>7. CASE UNCHANGED vars
  BY <1>7, StutterKeeps
<1> QED
  BY <1>1, <1>2, <1>3, <1>4, <1>5, <1>6, <1>7 DEF Next

LEMMA Invariant == Spec => []IInv
<1>1. Init => IInv
  BY InitHolds
<1>2. IInv /\ [Next]_vars => IInv'
  BY StepKeeps
<1> QED
  BY <1>1, <1>2, PTL DEF Spec

\* Session, scheduler, queue and stores are well formed, and nothing is stored
\* that was not edited, for any number of edits, failures and replacements.
THEOREM TypeCorrect == Spec => []TypeOK
<1>1. IInv => TypeOK
  <2> SUFFICES ASSUME IInv PROVE TypeOK
    OBVIOUS
  <2>1. \A i \in DOMAIN queue : queue[i] \in Operation
    BY DEF IInv, Queue, Operations
  <2>2. /\ disk \in Scene \cup {None} /\ (row = None \/ row \in [scene : Scene, dirty : BOOLEAN])
        /\ made \in 0..MaxEdits /\ kept \in 0..made
    BY DEF IInv, Stores, Draft
  <2>3. /\ doc \in [scene : Scene, gen : Nat, rev : Nat, state : SaveState]
        /\ sched.payload = None \/ sched.payload \in Version
        /\ sched.count \in Nat /\ sched.held \in BOOLEAN
        /\ sched.timers \in SUBSET {"draft", "idle", "maxWait"}
        /\ closing = None \/ closing \in [shown : Scene, saving : BOOLEAN, overtaken : BOOLEAN]
    BY DEF IInv, Shown, Doc, Sched, Timer, Closing
  <2> QED
    BY <2>1, <2>2, <2>3 DEF TypeOK, IInv, Around, WritingIsCurrent
<1> QED
  BY <1>1, Invariant, PTL

\* No draft or checkpoint that was scheduled before the session was reloaded,
\* resolved or replaced is stored after it (historyAutosaveProbeRejection),
\* however many of these there are and whatever fails.
THEOREM WritesAreCurrentHolds == Spec => WritesAreCurrent
<1>1. IInv => (AnswerOf(Writing) /\ row' # row => First.version.gen = doc.gen)
  BY DEF IInv, WritingIsCurrent, AnswerOf
<1> QED
  BY <1>1, Invariant, PTL DEF WritesAreCurrent

\* What a tab showed when it was asked to close, and had the scheduler write, the
\* file has by the time the tab is closed, or had before it was replaced
\* (closeExclusive), in any number of closings, refused or not, whatever fails; a
\* draft does not count.  Nothing is said of a closing whose checkpoint is passed
\* over because of a later edit, nor of what a conflict holds back or a renaming
\* or resolution under way may forget: there edits may be lost.
THEOREM CloseKeepsEditsHolds == Spec => CloseKeepsEdits
<1>1. IInv => (AnswerOf({"close"}) /\ tab' = "closed" /\ closing.saving /\ ~closing.overtaken =>
                 closing.shown <= kept)
  <2> SUFFICES ASSUME IInv, AnswerOf({"close"}), closing.saving, ~closing.overtaken
               PROVE  closing.shown <= kept
    OBVIOUS
  <2>1. queue # <<>> /\ queue \in Seq(Operation) /\ First.kind = "close"
    BY DEF IInv, WritingIsCurrent, AnswerOf, Queue, Operations
  <2>2. 1 \in DOMAIN queue /\ queue[1].kind = "close"
    BY <2>1 DEF First
  <2>3. closing # None
    BY <2>2 DEF IInv, Queue, Alone, Ends
  <2>4. closing.shown \in Int /\ kept \in Int
    BY <2>3, ScenesAreNumbers, BeforeAnswer DEF IInv, Shown, Closing
  <2>5. ~(closing.shown > kept)
    BY <2>2, <2>3 DEF IInv, Queue, Saves
  <2> QED
    BY <2>4, <2>5
<1> QED
  BY <1>1, Invariant, PTL DEF CloseKeepsEdits

-----------------------------------------------------------------------------
\* That no edit is stranded: what the scheduler and the queue have to do with
\* each other, and with the state that is shown.

\* A checkpoint counts the changes it was scheduled for: one that has counted
\* them all is of the payload.
Counts(q, s) ==
  \A i \in DOMAIN q : q[i].kind = "checkpoint" =>
    /\ q[i].count <= s.count
    /\ (q[i].count = s.count /\ s.payload # None) => q[i].version = s.payload

SInv ==
  /\ "draft" \in sched.timers => "idle" \in sched.timers
  /\ Counts(queue, sched)
  /\ (calling /\ First.kind = "checkpoint" /\ First.version = VersionOf(doc)) =>
       (doc.state = "checkpointing" \/ sched.held)

\* What a step may do to the scheduler, ...
Advances(s, t) ==
  /\ t \in Sched
  /\ ("draft" \in s.timers => "idle" \in s.timers) => ("draft" \in t.timers => "idle" \in t.timers)
  /\ \/ t.count = s.count /\ t.payload \in {s.payload, None}
     \/ t.count > s.count

\* ... and to the queue.
Comes(q, r, s) ==
  /\ r \in Seq(Operation)
  /\ \A i \in DOMAIN r : r[i].kind = "checkpoint" =>
       \/ \E j \in DOMAIN q : r[i] = q[j]
       \/ r[i].count = s.count /\ r[i].version = s.payload

LEMMA NoneIsNoVersion == None \notin Version
<1>1. Version \subseteq [scene : Int, gen : Nat, rev : Nat]
  BY ScenesAreNumbers DEF Version
<1> QED
  BY <1>1, NoneAssumption

LEMMA CountsKeep ==
  ASSUME NEW q \in Seq(Operation), NEW s \in Sched, NEW r, NEW t,
         Counts(q, s), Advances(s, t), Comes(q, r, s)
  PROVE  Counts(r, t)
<1> SUFFICES ASSUME NEW i \in DOMAIN r, r[i].kind = "checkpoint"
             PROVE  /\ r[i].count <= t.count
                    /\ (r[i].count = t.count /\ t.payload # None) => r[i].version = t.payload
  BY DEF Counts
<1>1. s.count \in Nat /\ t.count \in Nat
  BY DEF Sched, Advances
<1>2. CASE r[i].count = s.count /\ r[i].version = s.payload
  BY <1>1, <1>2 DEF Advances
<1>3. ASSUME NEW k \in DOMAIN q, r[i] = q[k]
      PROVE  /\ r[i].count <= t.count
             /\ (r[i].count = t.count /\ t.payload # None) => r[i].version = t.payload
  <2>a. q[k] \in Operation
    OBVIOUS
  <2>1. q[k].count \in Nat
    BY <2>a DEF Operation
  <2>2. q[k].count <= s.count /\ ((q[k].count = s.count /\ s.payload # None) => q[k].version = s.payload)
    BY <1>3 DEF Counts
  <2> QED
    BY <1>1, <1>3, <2>1, <2>2 DEF Advances
<1> QED
  BY <1>2, <1>3 DEF Comes

LEMMA OperatorsAdvance ==
  ASSUME NEW s \in Sched, NEW v \in Version, NEW op
  PROVE  /\ Advances(s, s) /\ Advances(s, Recorded(s, v)) /\ Advances(s, Hold(s))
         /\ Advances(s, Release(s)) /\ Advances(s, Recorded(Release(s), v))
         /\ Advances(s, Settled(s, op))
         /\ Advances(s, [s EXCEPT !.timers = {}])
         /\ Advances(s, [s EXCEPT !.payload = None, !.timers = {}])
         /\ \A timer \in Timer : (timer = "idle" => "draft" \notin s.timers) =>
              Advances(s, [s EXCEPT !.timers = @ \ {timer}])
<1>1. ASSUME NEW t \in Sched, NEW w \in Version
      PROVE  /\ Recorded(t, w) \in Sched
             /\ Recorded(t, w).count = t.count + 1
             /\ ("draft" \in Recorded(t, w).timers => "idle" \in Recorded(t, w).timers)
  <2>1. Recorded(t, w) \in Sched
    BY RecordedTyped
  <2> DEFINE T == IF t.held THEN t.timers \ {"draft", "idle"} ELSE {"draft", "idle", "maxWait"}
  <2>2. "draft" \in T => "idle" \in T
    OBVIOUS
  <2>3. Recorded(t, w) = [t EXCEPT !.payload = w, !.count = t.count + 1, !.timers = T]
    BY DEF Recorded
  <2> HIDE DEF T
  <2> QED
    BY <2>1, <2>2, <2>3 DEF Sched
<1>2. s.count \in Nat
  BY DEF Sched
<1>3. Advances(s, s) /\ Advances(s, Recorded(s, v))
  BY <1>1, <1>2 DEF Advances
<1>4. Advances(s, Hold(s))
  BY HoldTyped DEF Advances, Hold, Sched
<1>5. Advances(s, Release(s)) /\ Advances(s, Recorded(Release(s), v)) 
  <2> DEFINE t == [s EXCEPT !.held = FALSE]
  <2>1. t \in Sched /\ t.payload = s.payload /\ t.count = s.count /\ t.timers = s.timers
    BY DEF Sched
  <2>2. Release(s) = IF t.payload = None THEN t ELSE Recorded(t, t.payload)
    BY DEF Release
  <2> HIDE DEF t
  <2>3. t.payload # None => t.payload \in Version
    BY <2>1 DEF Sched
  <2>4. Release(s) \in Sched /\ Release(s).count \in {s.count, s.count + 1}
    BY <1>1, <2>1, <2>2, <2>3
  <2>5. Advances(s, Release(s))
    <3>1. CASE t.payload = None
      BY <2>1, <2>2, <3>1 DEF Advances
    <3>2. CASE t.payload # None
      BY <1>1, <1>2, <2>1, <2>2, <2>3, <3>2 DEF Advances
    <3> QED
      BY <3>1, <3>2
  <2>6. Advances(s, Recorded(Release(s), v))
    BY <1>1, <1>2, <2>4 DEF Advances
  <2> QED
    BY <2>5, <2>6
<1>6. Advances(s, Settled(s, op))
  <2>1. Settled(s, op) \in Sched /\ Settled(s, op).payload \in {s.payload, None}
    BY SettledTyped
  <2>2. Settled(s, op).count = s.count /\ Settled(s, op).timers \in {s.timers, s.timers \cup {"maxWait"}}
    BY DEF Settled, Sched
  <2> QED
    BY <2>1, <2>2 DEF Advances
<1>7. /\ Advances(s, [s EXCEPT !.timers = {}])
      /\ Advances(s, [s EXCEPT !.payload = None, !.timers = {}])
  BY DEF Advances, Sched
<1>8. ASSUME NEW timer \in Timer, timer = "idle" => "draft" \notin s.timers
      PROVE  Advances(s, [s EXCEPT !.timers = @ \ {timer}])
  BY <1>8 DEF Advances, Sched
<1> QED
  BY <1>3, <1>4, <1>5, <1>6, <1>7, <1>8

LEMMA SchedulerSteps ==
  ASSUME IInv, [Next]_vars
  PROVE  Advances(sched, sched')
<1>1. sched \in Sched /\ doc \in Doc
  BY BeforeAnswer
<1>2. \A v \in Version : Advances(sched, Recorded(sched, v)) /\ Advances(sched, Recorded(Release(sched), v))
  BY <1>1, OperatorsAdvance
<1>3. VersionOf(doc) \in Version
  BY <1>1, VersionTyped
<1>4. /\ Advances(sched, sched) /\ Advances(sched, Hold(sched)) /\ Advances(sched, Release(sched))
      /\ Advances(sched, [sched EXCEPT !.timers = {}])
      /\ Advances(sched, [sched EXCEPT !.payload = None, !.timers = {}])
      /\ \A op : Advances(sched, Settled(sched, op))
      /\ \A timer \in Timer : (timer = "idle" => "draft" \notin sched.timers) =>
              Advances(sched, [sched EXCEPT !.timers = @ \ {timer}])
  BY <1>1, <1>3, OperatorsAdvance
<1>5. VersionOf(doc') \in Version
  BY StepKeeps, VersionTyped DEF IInv, Shown
<1>6. CASE Timers
  BY <1>4, <1>6 DEF Timers, DraftTimer, CheckpointTimer, Checkpoint, Timer
<1>7. CASE User
  <2>1. CASE Edit
    BY <1>2, <1>5, <2>1 DEF Edit
  <2>2. CASE User /\ ~Edit
    BY <1>4, <2>2 DEF User, SaveNow, Close, DiscardOrphan, DeleteEntry, SaveOrphan, Resolve,
          AskReplacement, AskStatus, Asks, Checkpoint
  <2> QED
    BY <1>7, <2>1, <2>2
<1>8. CASE Begin
  BY <1>4, <1>8 DEF Begin, SkipWrite, BeginWrite, BeginCall
<1>9. CASE Answer
  <2>1. CASE KeepLocalLands
    BY <1>2, <1>5, <2>1 DEF KeepLocalLands
  <2>2. CASE ReplaceLands \/ StatusLands
    BY <1>4, <2>2 DEF ReplaceLands, StatusLands, Adopts, Defers
  <2>3. CASE CloseLands \/ DeleteLands
    BY <1>4, <2>3 DEF CloseLands, DeleteLands, Drop
  <2>4. CASE ReloadLands \/ TakeExternalLands \/ SaveAsNewLands \/ SaveHereLands \/ SaveElsewhereLands \/ CheckpointLands
    BY <1>4, <2>4 DEF ReloadLands, TakeExternalLands, SaveAsNewLands, SaveHereLands, SaveElsewhereLands, CheckpointLands
  <2>5. CASE sched' = sched
    BY <1>4, <2>5
  <2> QED
    BY <1>9, <2>1, <2>2, <2>3, <2>4, <2>5 DEF Answer, DraftLands, DraftFails, CheckpointFails, CloseFails,
          CallFails, ReplaceUncertain, ReplaceFails, StatusFails
<1>10. CASE Others \/ Listen \/ UNCHANGED vars
  BY <1>4, <1>10 DEF Others, ExternalStep, session, Listen, Watch, HandleRemoved, HandleModified, vars
<1> QED
  BY <1>6, <1>7, <1>8, <1>9, <1>10 DEF Next

\* Every operation is one that was there, or a checkpoint as scheduled, or no checkpoint.
LEMMA QueueSteps ==
  ASSUME IInv, [Next]_vars
  PROVE  Comes(queue, queue', sched)
<1>1. queue' \in Seq(Operation)
  BY StepKeeps DEF IInv, Queue, Operations
<1>2. queue \in Seq(Operation)
  BY DEF IInv, Queue, Operations
<1>3. ASSUME NEW op \in Operation,
             queue' = Append(queue, op) \/ (queue # <<>> /\ queue' = Append(Tail(queue), op)),
             op.kind = "checkpoint" => op.count = sched.count /\ op.version = sched.payload
      PROVE  Comes(queue, queue', sched)
  <2> SUFFICES ASSUME NEW i \in DOMAIN queue', queue'[i].kind = "checkpoint"
               PROVE  (\E j \in DOMAIN queue : queue'[i] = queue[j]) \/ queue'[i] = op
    BY <1>1, <1>3 DEF Comes
  <2>1. CASE queue' = Append(queue, op)
    BY <1>2, <2>1
  <2>2. CASE queue' = Append(Tail(queue), op) /\ queue # <<>>
    <3>1. Tail(queue) \in Seq(Operation) /\ \A k \in DOMAIN Tail(queue) : k + 1 \in DOMAIN queue /\ Tail(queue)[k] = queue[k + 1]
      BY <1>2, <2>2
    <3> QED
      BY <2>2, <3>1
  <2> QED
    BY <1>3, <2>1, <2>2
<1>4. ASSUME queue' \in {queue, <<>>} PROVE Comes(queue, queue', sched)
  BY <1>1, <1>4 DEF Comes
<1>5. ASSUME queue # <<>>, queue' = Tail(queue) PROVE Comes(queue, queue', sched)
  <2>1. \A k \in DOMAIN Tail(queue) : k + 1 \in DOMAIN queue /\ Tail(queue)[k] = queue[k + 1]
    BY <1>2, <1>5
  <2> QED
    BY <1>1, <1>5, <2>1 DEF Comes
<1>6. CASE BeginCall
  <2>1. CASE queue' = queue
    BY <1>4, <2>1
  <2>2. CASE queue' = <<[First EXCEPT !.version = VersionOf(doc)]>> \o Tail(queue)
    <3>1. queue # <<>> /\ First.kind \notin Writing /\ First \in Operation
      BY <1>6, FirstTyped DEF BeginCall
    <3> DEFINE h == [First EXCEPT !.version = VersionOf(doc)]
    <3>2. h.kind = First.kind
      BY <3>1 DEF Operation
    <3> HIDE DEF h
    <3>3. \A i \in DOMAIN queue' : (i = 1 /\ queue'[i] = h) \/ (i \in DOMAIN queue /\ queue'[i] = queue[i])
      BY <1>2, <2>2, <3>1 DEF h
    <3> QED
      BY <1>1, <3>1, <3>2, <3>3 DEF Comes, Writing
  <2> QED
    BY <1>6, <2>1, <2>2 DEF BeginCall
<1>7. ASSUME NEW caller \in {"timer", "user", "close", "replace"}, HasWork,
             queue' \in {Append(queue, Scheduled("checkpoint", caller)), Append(queue, Scheduled("draft", caller))}
      PROVE  Comes(queue, queue', sched)
  <2>1. ASSUME NEW kind \in Writing, queue' = Append(queue, Scheduled(kind, caller))
        PROVE  Comes(queue, queue', sched)
    <3>1. Scheduled(kind, caller) \in Operation
      BY <1>7, ScheduledTyped DEF IInv
    <3>2. Scheduled(kind, caller).count = sched.count /\ Scheduled(kind, caller).version = sched.payload
      BY DEF Scheduled
    <3> HIDE DEF Scheduled
    <3> QED
      BY <1>2, <1>3, <2>1, <3>1, <3>2
  <2> QED
    BY <1>7, <2>1 DEF Writing
<1>8. ASSUME NEW kind \in Kind \ {"checkpoint"},
             queue' = Append(queue, Op(kind)) \/ (queue # <<>> /\ queue' = Append(Tail(queue), Op(kind)))
      PROVE  Comes(queue, queue', sched)
  <2>1. Op(kind) \in Operation /\ Op(kind).kind = kind
    BY OpTyped DEF IInv
  <2> HIDE DEF Op
  <2> QED
    BY <1>3, <1>8, <2>1
<1>9. ASSUME queue # <<>>, queue' = After(First) PROVE Comes(queue, queue', sched)
  BY <1>5, <1>8, <1>9 DEF After, Kind
<1>10. CASE Timers
  BY <1>4, <1>7, <1>10 DEF Timers, DraftTimer, CheckpointTimer, Checkpoint
<1>11. CASE User
  <2>1. CASE Edit
    BY <1>4, <2>1 DEF Edit
  <2>2. CASE SaveNow
    BY <1>7, <2>2 DEF SaveNow, Checkpoint
  <2>3. CASE Close
    BY <1>7, <1>8, <2>3 DEF Close, Checkpoint, Kind
  <2>4. CASE AskReplacement
    BY <1>7, <1>8, <2>4 DEF AskReplacement, Checkpoint, Kind
  <2>5. ASSUME NEW kind \in Kind \ {"checkpoint"}, Asks(kind) PROVE Comes(queue, queue', sched)
    BY <1>8, <2>5 DEF Asks
  <2> QED
    BY <1>11, <2>1, <2>2, <2>3, <2>4, <2>5 DEF User, DiscardOrphan, DeleteEntry, SaveOrphan, Resolve, AskStatus,
          Kind, Resolution
<1>12. CASE Begin
  BY <1>4, <1>6, <1>9, <1>12 DEF Begin, SkipWrite, BeginWrite
<1>13. CASE Answer
  <2>1. queue # <<>>
    BY <1>13, CurrentFirst DEF Answer, DraftLands, DraftFails, CheckpointLands, CheckpointFails, CloseLands, CloseFails,
          DeleteLands, CallFails, ReloadLands, TakeExternalLands, KeepLocalLands, SaveAsNewLands, SaveHereLands,
          SaveElsewhereLands, ReplaceLands, ReplaceUncertain, ReplaceFails, StatusLands, StatusFails, Answered
  <2>2. CASE CheckpointLands
    BY <1>9, <2>1, <2>2 DEF CheckpointLands
  <2>3. CASE CloseLands \/ DeleteLands
    BY <1>4, <2>3 DEF CloseLands, DeleteLands, Drop
  <2>4. CASE Answer /\ ~CheckpointLands /\ ~CloseLands /\ ~DeleteLands
    BY <1>5, <2>1, <2>4 DEF Answer, DraftLands, DraftFails, CheckpointFails, CloseFails,
          CallFails, ReloadLands, TakeExternalLands, KeepLocalLands, SaveAsNewLands, SaveHereLands,
          SaveElsewhereLands, ReplaceLands, ReplaceUncertain, ReplaceFails, StatusLands, StatusFails, Done
  <2> QED
    BY <1>13, <2>2, <2>3, <2>4
<1>14. CASE Others \/ Listen \/ UNCHANGED vars
  BY <1>4, <1>8, <1>14 DEF Others, ExternalStep, session, Listen, Watch, HandleRemoved, HandleModified, vars, Kind
<1> QED
  BY <1>10, <1>11, <1>12, <1>13, <1>14 DEF Next

\* The running operation stays first, whatever is added to the queue.
LEMMA FirstStays ==
  ASSUME IInv, queue # <<>>, NEW op, queue' = queue \/ queue' = Append(queue, op)
  PROVE  First' = First
<1>1. queue \in Seq(Operation)
  BY DEF IInv, Queue, Operations
<1>2. Head(Append(queue, op)) = Head(queue)
  BY <1>1
<1> QED
  BY <1>2 DEF First

LEMMA ShownWhileSaving ==
  ASSUME IInv, SInv, [Next]_vars, calling', First'.kind = "checkpoint", First'.version = VersionOf(doc)'
  PROVE  doc'.state = "checkpointing" \/ sched'.held
<1>1. sched \in Sched /\ doc \in Doc
  BY BeforeAnswer
<1>2. ASSUME calling, First' = First, UNCHANGED doc, sched'.held = sched.held
      PROVE  doc'.state = "checkpointing" \/ sched'.held
  BY <1>2 DEF SInv
<1>3. calling => queue # <<>>
  BY CurrentFirst
<1>4. ASSUME calling, NEW op, queue' = queue \/ queue' = Append(queue, op) PROVE First' = First
  BY <1>3, <1>4, FirstStays
<1>5. \A T : [sched EXCEPT !.timers = T].held = sched.held
  BY <1>1 DEF Sched
<1>6. CASE Timers
  <2>1. UNCHANGED <<doc, calling>> /\ (sched' = sched \/ \E T : sched' = [sched EXCEPT !.timers = T])
    BY <1>6 DEF Timers, DraftTimer, CheckpointTimer, Checkpoint
  <2>2. \E op : queue' = queue \/ queue' = Append(queue, op)
    BY <1>6 DEF Timers, DraftTimer, CheckpointTimer, Checkpoint
  <2> QED
    BY <1>2, <1>4, <1>5, <2>1, <2>2
<1>7. CASE Edit
  <2>1. /\ calling /\ queue' = queue /\ made' = made + 1 /\ doc' = [doc EXCEPT !.scene = made + 1, !.rev = @ + 1,
                          !.state = IF @ \in {"orphaned", "conflicted"} THEN @ ELSE "dirty"]
    BY <1>7 DEF Edit
  <2>2. VersionOf(doc').scene = made + 1
    BY <1>1, <2>1 DEF Doc, VersionOf
  <2>3. First.version = VersionOf(doc')
    BY <2>1 DEF First, VersionOf
  <2> QED
    BY <2>1, <2>2, <2>3, CurrentFirst, BeforeAnswer
<1>8. CASE User /\ ~Edit
  <2>1. UNCHANGED <<doc, calling>> /\ (sched' = sched \/ \E T : sched' = [sched EXCEPT !.timers = T])
    BY <1>8 DEF User, SaveNow, Close, DiscardOrphan, DeleteEntry, SaveOrphan, Resolve,
          AskReplacement, AskStatus, Asks, Checkpoint
  <2>2. \E op : queue' = queue \/ queue' = Append(queue, op)
    BY <1>8 DEF User, SaveNow, Close, DiscardOrphan, DeleteEntry, SaveOrphan, Resolve,
          AskReplacement, AskStatus, Asks, Checkpoint
  <2> QED
    BY <1>2, <1>4, <1>5, <2>1, <2>2
<1>9. CASE Begin
  <2>1. ~SkipWrite
    BY DEF SkipWrite
  <2>2. CASE BeginWrite
    <3>1. queue' = queue /\ First.kind \in Writing
          /\ doc' = [doc EXCEPT !.state = IF First.kind = "draft" THEN "savingDraft" ELSE "checkpointing"]
      BY <2>2 DEF BeginWrite
    <3>2. First.kind = "checkpoint"
      BY <3>1 DEF First
    <3> QED
      BY <1>1, <3>1, <3>2 DEF Doc
  <2>3. CASE BeginCall
    <3>1. /\ queue # <<>> /\ First.kind \notin Writing
          /\ queue' = queue \/ queue' = <<[First EXCEPT !.version = VersionOf(doc)]>> \o Tail(queue)
      BY <2>3 DEF BeginCall
    <3>2. VersionOf(doc) \in Version /\ VersionOf(doc).scene <= made
      BY <1>1, VersionTyped, BeforeAnswer
    <3>3. Head(queue').kind \notin Writing
      BY <3>1, <3>2, Refreshed DEF First, IInv
    <3> QED
      BY <3>3 DEF First, Writing
  <2> QED
    BY <1>9, <2>1, <2>2, <2>3 DEF Begin
<1>10. ~Answer
  BY DEF Answer, DraftLands, DraftFails, CheckpointLands, CheckpointFails, CloseLands, CloseFails,
         DeleteLands, CallFails, ReloadLands, TakeExternalLands, KeepLocalLands, SaveAsNewLands, SaveHereLands,
         SaveElsewhereLands, ReplaceLands, ReplaceUncertain, ReplaceFails, StatusLands, StatusFails, Done, Drop
<1>11. CASE Others \/ Listen \/ UNCHANGED vars
  <2>1. calling /\ (UNCHANGED <<doc, sched>> \/ sched' = Hold(sched))
    BY <1>11 DEF Others, ExternalStep, session, Listen, Watch, HandleRemoved, HandleModified, vars
  <2>2. \E op : queue' = queue \/ queue' = Append(queue, op)
    BY <1>11 DEF Others, ExternalStep, session, Listen, Watch, HandleRemoved, HandleModified, vars
  <2>3. Hold(sched).held
    BY <1>1 DEF Hold, Sched
  <2> QED
    BY <1>2, <1>4, <2>1, <2>2, <2>3
<1> QED
  BY <1>6, <1>7, <1>8, <1>9, <1>10, <1>11 DEF Next

LEMMA SInitHolds == Init => SInv
  BY DEF Init, SInv, Counts

LEMMA SStepKeeps == IInv /\ SInv /\ [Next]_vars => SInv'
<1> SUFFICES ASSUME IInv, SInv, [Next]_vars PROVE SInv'
  OBVIOUS
<1>1. queue \in Seq(Operation) /\ sched \in Sched
  BY BeforeAnswer DEF IInv, Queue, Operations
<1>2. Counts(queue', sched')
  BY <1>1, CountsKeep, SchedulerSteps, QueueSteps DEF SInv
<1>3. "draft" \in sched'.timers => "idle" \in sched'.timers
  BY SchedulerSteps DEF SInv, Advances
<1> QED
  BY <1>2, <1>3, ShownWhileSaving DEF SInv

\* A checkpoint that would write the session as it is.
Writes(op) == op.kind = "checkpoint" /\ op.version = VersionOf(doc)

LEMMA WritesStay ==
  ASSUME IInv, NEW op, NEW i \in DOMAIN queue, Writes(queue[i]),
         \/ queue' \in {queue, Append(queue, op)}
         \/ ~Writes(First) /\ queue' \in {Tail(queue), Append(Tail(queue), op)}
  PROVE  \E k \in DOMAIN queue' : queue'[k] = queue[i]
<1>1. queue \in Seq(Operation) /\ queue # <<>>
  BY DEF IInv, Queue, Operations
<1>2. CASE queue' \in {queue, Append(queue, op)}
  <2>1. i \in DOMAIN queue' /\ queue'[i] = queue[i]
    BY <1>1, <1>2
  <2> QED
    BY <2>1
<1>3. CASE ~Writes(First) /\ queue' \in {Tail(queue), Append(Tail(queue), op)}
  <2>1. First = queue[1] /\ i # 1
    BY <1>1, <1>3 DEF First
  <2>2. i - 1 \in DOMAIN Tail(queue) /\ Tail(queue)[i - 1] = queue[i] /\ Tail(queue) \in Seq(Operation)
    BY <1>1, <2>1
  <2>3. i - 1 \in DOMAIN queue' /\ queue'[i - 1] = queue[i]
    BY <1>3, <2>2
  <2> QED
    BY <2>3
<1> QED
  BY <1>2, <1>3

LEMMA ScheduledWrites ==
  ASSUME IInv, HasWork, sched.payload = VersionOf(doc),
         NEW caller \in {"timer", "user", "close", "replace"},
         queue' = Append(queue, Scheduled("checkpoint", caller))
  PROVE  \E k \in DOMAIN queue' : Writes(queue'[k])
<1> DEFINE op == Scheduled("checkpoint", caller)
<1>1. Writes(op)
  BY DEF Writes, Scheduled
<1>2. queue \in Seq(Operation) /\ op \in Operation
  BY ScheduledTyped DEF IInv, Queue, Operations, Writing
<1> HIDE DEF op
<1>3. Len(queue) + 1 \in DOMAIN Append(queue, op) /\ Append(queue, op)[Len(queue) + 1] = op
  BY <1>2
<1> QED
  BY <1>1, <1>3 DEF op

LEMMA EditsStayOnTheirWay ==
  ASSUME IInv, SInv, [Next]_vars, ~Stranded, Stranded', ~AnswerOf(Renaming), doc'.state # "error"
  PROVE  FALSE
<1>1. /\ sched \in Sched /\ doc \in Doc /\ VersionOf(doc) \in Version /\ VersionOf(doc).scene = doc.scene
      /\ kept \in Int /\ doc.scene \in Int /\ made \in Int
  BY BeforeAnswer, VersionTyped
<1>2. sched' \in Sched /\ doc' \in Doc /\ VersionOf(doc') \in Version /\ VersionOf(doc').scene = doc'.scene
      /\ kept' \in Int /\ doc'.scene \in Int
  <2>1. sched' \in Sched /\ doc' \in Doc /\ kept' \in 0..made'
    BY StepKeeps DEF IInv, Shown, Stores
  <2>2. kept' \in Int /\ doc'.scene \in Int
    <3>1. made' \in 0..MaxEdits /\ doc'.scene \in Scene
      BY <2>1, StepKeeps DEF IInv, Stores, Doc
    <3>2. doc'.scene \in Int
      BY <3>1, ScenesAreNumbers
    <3> QED
      BY <2>1, <3>1, <3>2
  <2> QED
    BY <2>1, <2>2, VersionTyped
<1>3. /\ tab' = "open" /\ doc'.scene > kept' /\ ~sched'.held
      /\ sched'.payload = VersionOf(doc') => sched'.timers = {}
      /\ sched'.payload = VersionOf(doc') =>
           \A k \in DOMAIN queue' : ~(queue'[k].kind = "checkpoint" /\ queue'[k].version = VersionOf(doc'))
  BY DEF Stranded, Unsaved, OnItsWay
<1>4. \/ tab # "open" \/ doc.scene <= kept \/ sched.held
      \/ /\ sched.payload = VersionOf(doc)
         /\ sched.timers # {} \/ \E i \in DOMAIN queue : Writes(queue[i])
  BY <1>1 DEF Stranded, Unsaved, OnItsWay, Writes
\* Nothing happens to what is on its way.
<1>5. ASSUME NEW op, tab' = tab, VersionOf(doc') = VersionOf(doc), kept <= kept', sched.held => sched'.held,
             \/ queue' \in {queue, Append(queue, op)}
             \/ ~Writes(First) /\ queue' \in {Tail(queue), Append(Tail(queue), op)},
             sched.payload = VersionOf(doc) => sched'.payload = sched.payload,
             \/ sched.timers # {} => sched'.timers # {}
             \/ sched.payload = VersionOf(doc) /\ ~sched.held => \E k \in DOMAIN queue' : Writes(queue'[k])
      PROVE  FALSE
  <2>1. doc.scene > kept /\ tab = "open" /\ ~sched.held
    BY <1>1, <1>2, <1>3, <1>5
  <2>2. sched.payload = VersionOf(doc) /\ (sched.timers # {} \/ \E i \in DOMAIN queue : Writes(queue[i]))
    BY <1>1, <1>4, <2>1
  <2>3. sched'.timers = {} /\ \A k \in DOMAIN queue' : ~Writes(queue'[k])
    BY <1>3, <1>5, <2>2 DEF Writes
  <2>4. ASSUME NEW i \in DOMAIN queue, Writes(queue[i]) PROVE FALSE
    <3>1. \E k \in DOMAIN queue' : queue'[k] = queue[i]
      BY <1>5, <2>4, WritesStay
    <3> QED
      BY <2>3, <2>4, <3>1
  <2> QED
    BY <1>5, <2>1, <2>2, <2>3, <2>4
<1>6. \A T : /\ [sched EXCEPT !.timers = T].payload = sched.payload
             /\ [sched EXCEPT !.timers = T].held = sched.held
             /\ [sched EXCEPT !.timers = T].timers = T
  BY <1>1 DEF Sched
<1>7. sched.payload = VersionOf(doc) /\ ~sched.held => HasWork
  BY <1>1, NoneIsNoVersion DEF HasWork
<1>8. CASE DraftTimer
  <2>1. "idle" \in sched.timers \ {"draft"}
    BY <1>8 DEF SInv, DraftTimer
  <2>2. UNCHANGED <<tab, doc, kept>> /\ sched' = [sched EXCEPT !.timers = sched.timers \ {"draft"}]
    BY <1>8 DEF DraftTimer, bounds
  <2>3. PICK op : queue' \in {queue, Append(queue, op)}
    BY <1>8 DEF DraftTimer
  <2>4. VersionOf(doc') = VersionOf(doc) /\ kept <= kept' /\ tab' = tab
    BY <1>1, <2>2
  <2>5. sched'.timers # {} /\ sched'.payload = sched.payload /\ sched'.held = sched.held
    BY <1>6, <2>1, <2>2
  <2> QED
    BY <1>5, <2>3, <2>4, <2>5
<1>9. ASSUME NEW timer, CheckpointTimer(timer) PROVE FALSE
  <2>1. UNCHANGED <<tab, doc, kept>> /\ \E T : sched' = [sched EXCEPT !.timers = T]
    BY <1>9 DEF CheckpointTimer, Checkpoint, bounds
  <2>2. CASE HasWork
    <3>1. queue' = Append(queue, Scheduled("checkpoint", "timer"))
      BY <1>9, <2>2 DEF CheckpointTimer, Checkpoint
    <3>2. VersionOf(doc') = VersionOf(doc) /\ kept <= kept' /\ tab' = tab
      BY <1>1, <2>1
    <3>3. sched'.payload = sched.payload /\ sched'.held = sched.held
      BY <1>6, <2>1
    <3>4. sched.payload = VersionOf(doc) => \E k \in DOMAIN queue' : Writes(queue'[k])
      BY <2>2, <3>1, ScheduledWrites
    <3> QED
      BY <1>5, <3>1, <3>2, <3>3, <3>4
  <2>3. CASE ~HasWork
    <3>1. queue' = queue
      BY <1>9, <2>3 DEF CheckpointTimer
    <3> QED
      BY <1>1, <1>5, <1>6, <1>7, <2>1, <2>3, <3>1
  <2> QED
    BY <2>2, <2>3
<1>10. CASE Edit
  <2>1. sched' = Recorded(sched, VersionOf(doc'))
    BY <1>10 DEF Edit
  <2> DEFINE T == IF sched.held THEN sched.timers \ {"draft", "idle"} ELSE {"draft", "idle", "maxWait"}
  <2>2. sched' = [sched EXCEPT !.payload = VersionOf(doc'), !.count = sched.count + 1, !.timers = T]
    BY <2>1 DEF Recorded
  <2>3. sched'.payload = VersionOf(doc') /\ sched'.timers = T /\ sched'.held = sched.held
    BY <1>1, <2>2 DEF Sched
  <2>4. T = {"draft", "idle", "maxWait"}
    BY <1>3, <2>3
  <2> QED
    BY <1>3, <2>3, <2>4
<1>11. ASSUME NEW caller \in {"timer", "user", "close", "replace"}, HasWork, Checkpoint(caller),
              UNCHANGED <<tab, doc, kept>>
       PROVE  FALSE
  BY <1>1, <1>5, <1>6, <1>11, ScheduledWrites DEF Checkpoint
<1>12. ASSUME NEW op, UNCHANGED <<tab, doc, kept, sched>>, queue' \in {queue, Append(queue, op)}
       PROVE  FALSE
  <2>1. VersionOf(doc') = VersionOf(doc) /\ kept <= kept' /\ tab' = tab /\ sched' = sched
    BY <1>1, <1>12
  <2> QED
    BY <1>5, <1>12, <2>1
<1>13. CASE User /\ ~Edit
  <2>1. UNCHANGED <<tab, doc, kept>>
    BY <1>13 DEF User, SaveNow, Close, DiscardOrphan, DeleteEntry, SaveOrphan, Resolve,
          AskReplacement, AskStatus, Asks, bounds
  <2>2. \/ \E caller \in {"timer", "user", "close", "replace"} : HasWork /\ Checkpoint(caller)
        \/ \E op : sched' = sched /\ queue' \in {queue, Append(queue, op)}
    BY <1>13 DEF User, SaveNow, Close, DiscardOrphan, DeleteEntry, SaveOrphan, Resolve,
          AskReplacement, AskStatus, Asks
  <2> QED
    BY <1>11, <1>12, <2>1, <2>2
\* A checkpoint that is done with: it was of an older version, or stored this one.
<1>14. ASSUME queue # <<>>, First.kind \in Writing, queue' = After(First), tab' = tab, VersionOf(doc') = VersionOf(doc),
              kept <= kept', First.version # VersionOf(doc),
              First.kind = "checkpoint" => sched' = Settled(sched, First),
              First.kind # "checkpoint" => sched' = sched
       PROVE  FALSE
  <2>1. PICK op : queue' \in {Tail(queue), Append(Tail(queue), op)}
    BY <1>14 DEF After
  <2>2. ~Writes(First)
    BY <1>14 DEF Writes
  <2>3. CASE First.kind = "checkpoint"
    <3>1. 1 \in DOMAIN queue /\ First = queue[1]
      BY <1>14 DEF IInv, Queue, Operations, First
    <3>2. (First.count = sched.count /\ sched.payload # None) => First.version = sched.payload
      BY <2>3, <3>1 DEF SInv, Counts
    <3>3. /\ Settled(sched, First).held = sched.held
          /\ sched.timers # {} => Settled(sched, First).timers # {}
          /\ sched.count # First.count => Settled(sched, First).payload = sched.payload
      BY <1>1 DEF Settled, Sched
    <3>4. sched.payload = VersionOf(doc) => sched'.payload = sched.payload
      BY <1>1, <1>14, <2>3, <3>2, <3>3, NoneIsNoVersion
    <3> QED
      BY <1>5, <1>14, <2>1, <2>2, <2>3, <3>3, <3>4
  <2>4. CASE First.kind # "checkpoint"
    BY <1>5, <1>14, <2>1, <2>2, <2>4
  <2> QED
    BY <2>3, <2>4
<1>15. CASE SkipWrite
  BY <1>1, <1>14, <1>15 DEF SkipWrite, Rejected, bounds
<1>16. CASE BeginWrite
  <2>1. UNCHANGED <<tab, kept, sched, queue>> /\ \E t : doc' = [doc EXCEPT !.state = t]
    BY <1>16 DEF BeginWrite, bounds
  <2>2. VersionOf(doc') = VersionOf(doc)
    BY <1>1, <2>1 DEF VersionOf, Doc
  <2> QED
    BY <1>1, <1>5, <2>1, <2>2
<1>17. CASE BeginCall
  <2>1. /\ UNCHANGED <<tab, doc, kept, sched>> /\ queue # <<>> /\ First.kind \notin Writing
        /\ queue' = queue \/ queue' = <<[First EXCEPT !.version = VersionOf(doc)]>> \o Tail(queue)
    BY <1>17 DEF BeginCall, bounds
  <2>2. sched.payload = VersionOf(doc) /\ \E i \in DOMAIN queue : Writes(queue[i])
    BY <1>1, <1>3, <1>4, <2>1
  <2>3. PICK i \in DOMAIN queue : Writes(queue[i])
    BY <2>2
  <2>4. queue \in Seq(Operation) /\ First = queue[1]
    BY <2>1 DEF IInv, Queue, Operations, First
  <2>5. i # 1
    BY <2>1, <2>3, <2>4 DEF Writes, Writing
  <2>6. i \in DOMAIN queue' /\ queue'[i] = queue[i]
    BY <2>1, <2>4, <2>5
  <2> QED
    BY <1>3, <2>1, <2>2, <2>3, <2>6 DEF Writes
<1>18. ASSUME queue' = Tail(queue), tab' = tab, VersionOf(doc') = VersionOf(doc), kept <= kept', sched' = sched,
              ~Writes(First)
       PROVE  FALSE
  BY <1>5, <1>18
<1>19. kept <= kept' \/ ~(\E scene \in Scene : Keep(scene))
  BY <1>1, ScenesAreNumbers DEF Keep
<1>20. ASSUME calling PROVE queue # <<>> /\ First.version \in Version /\ First.version.scene \in Scene
                            /\ First.version.scene \in Int
  BY <1>20, CurrentFirst
<1>21. CASE DraftLands
  <2>1. /\ calling /\ First.kind = "draft" /\ UNCHANGED <<tab, sched, kept>> /\ queue' = Tail(queue)
        /\ doc' = doc \/ \E t : doc' = [doc EXCEPT !.state = t]
    BY <1>21 DEF DraftLands, Answered, Done, bounds
  <2>2. VersionOf(doc') = VersionOf(doc)
    BY <1>1, <2>1 DEF VersionOf, Doc
  <2>3. ~Writes(First)
    BY <2>1 DEF Writes
  <2> QED
    BY <1>1, <1>18, <2>1, <2>2, <2>3
<1>22. ~DraftFails
  BY <1>1 DEF DraftFails, Doc
<1>23. CASE CheckpointLands
  <2>1. /\ calling /\ First.kind = "checkpoint" /\ tab' = tab /\ sched' = Settled(sched, First)
        /\ Keep(First.version.scene) /\ queue' = After(First)
        /\ \E t : doc' = [doc EXCEPT !.state = t]
    BY <1>23 DEF CheckpointLands, Answered
  <2>2. VersionOf(doc') = VersionOf(doc)
    BY <1>1, <2>1 DEF VersionOf, Doc
  <2>3. First.version.scene <= kept'
    BY <1>1, <1>20, <2>1 DEF Keep
  <2>4. First.version # VersionOf(doc)
    BY <1>1, <1>2, <1>3, <2>2, <2>3
  <2> QED
    BY <1>14, <1>19, <1>20, <2>1, <2>2, <2>4 DEF Writing
<1>24. CASE CheckpointFails
  <2>1. /\ calling /\ First.kind = "checkpoint" /\ tab' = tab /\ sched' = sched /\ kept' = kept /\ queue' = Tail(queue)
        /\ doc' = IF doc.state = "checkpointing" \/ First.caller = "timer"
                  THEN [doc EXCEPT !.state = "error"] ELSE doc
    BY <1>24 DEF CheckpointFails, Answered, Done
  <2>2. doc.state # "checkpointing" /\ doc' = doc
    BY <1>1, <2>1 DEF Doc
  <2>3. ~Writes(First)
    BY <1>3, <2>1, <2>2 DEF Writes, SInv
  <2> QED
    BY <1>1, <1>18, <2>1, <2>2, <2>3
<1>25. ~CloseLands /\ ~DeleteLands
  BY <1>3 DEF CloseLands, DeleteLands, Drop
<1>26. ASSUME calling, Done, First.kind # "checkpoint", UNCHANGED <<tab, doc, sched>>, kept <= kept' PROVE FALSE
  BY <1>18, <1>26 DEF Done, Writes
<1>27. ASSUME NEW kind, NEW reason, kind # "checkpoint", CallFails(kind, reason) PROVE FALSE
  BY <1>1, <1>26, <1>27 DEF CallFails, Answered
<1>28. ~CloseFails /\ ~ReplaceFails /\ ~StatusFails
  BY <1>1, <1>26 DEF CloseFails, ReplaceFails, StatusFails, Answered
<1>29. ~ReplaceUncertain
  <2>1. doc.scene \in Scene
    BY <1>1 DEF Doc
  <2> QED
    BY <1>1, <1>19, <1>26, <2>1 DEF ReplaceUncertain, Answered, Replaced
<1>30. ASSUME NEW scene, NEW version, Adopt(scene, version), scene <= kept' PROVE FALSE
  <2>1. doc'.scene = scene
    BY <1>30 DEF Adopt
  <2> QED
    BY <1>2, <1>3, <1>30, <2>1
<1>31. ~ReloadLands /\ ~TakeExternalLands
  <2>1. disk # None => disk <= kept
    BY DEF IInv, Stores
  <2> QED
    BY <1>30, <2>1 DEF ReloadLands, TakeExternalLands, ResolveRefused, bounds
<1>32. ~KeepLocalLands
  <2>1. SUFFICES ASSUME KeepLocalLands PROVE FALSE
    OBVIOUS
  <2> DEFINE s == Release(sched)
             T == IF s.held THEN s.timers \ {"draft", "idle"} ELSE {"draft", "idle", "maxWait"}
  <2>2. s \in Sched
    BY <1>1, ReleaseTyped
  <2>3. sched' = [s EXCEPT !.payload = VersionOf(doc'), !.count = s.count + 1, !.timers = T]
    BY <2>1 DEF KeepLocalLands, Recorded
  <2> HIDE DEF s
  <2>4. sched'.payload = VersionOf(doc') /\ sched'.timers = T /\ sched'.held = s.held
    BY <2>2, <2>3 DEF Sched
  <2>5. T = {"draft", "idle", "maxWait"}
    BY <1>3, <2>4
  <2> QED
    BY <1>3, <2>4, <2>5
<1>33. ~SaveAsNewLands /\ ~SaveHereLands /\ ~SaveElsewhereLands
  BY DEF SaveAsNewLands, SaveHereLands, SaveElsewhereLands, Answered, Done, AnswerOf, Renaming
<1>34. ASSUME NEW version, Adopts(version) \/ Defers(version), calling, Done, First.kind # "checkpoint", tab' = tab, kept <= kept'
       PROVE  FALSE
  <2>1. Earlier <= kept'
    BY StepKeeps DEF IInv, Stores, Earlier
  <2> QED
    BY <1>26, <1>30, <1>34, <2>1 DEF Adopts, Defers
<1>35. ~ReplaceLands
  <2>1. doc.scene \in Scene
    BY <1>1 DEF Doc
  <2> QED
    BY <1>19, <1>34, <2>1 DEF ReplaceLands, Answered, Replaced
<1>36. ~StatusLands
  <2>1. SUFFICES ASSUME StatusLands PROVE FALSE
    OBVIOUS
  <2>2. calling /\ Done /\ First.kind # "checkpoint" /\ tab' = tab /\ kept <= kept'
    BY <1>1, <2>1 DEF StatusLands, Answered, bounds
  <2>3. (\E version : Adopts(version) \/ Defers(version)) \/ UNCHANGED <<doc, sched>>
    BY <2>1 DEF StatusLands
  <2> QED
    BY <1>26, <1>34, <2>2, <2>3
<1>37. ~Answer
  BY <1>21, <1>22, <1>23, <1>24, <1>25, <1>27, <1>28, <1>29, <1>31, <1>32, <1>33, <1>35, <1>36 DEF Answer, Resolution
<1>38. CASE Others \/ Watch \/ UNCHANGED vars
  BY <1>12, <1>38 DEF Others, ExternalStep, session, Watch, bounds, vars
<1>39. CASE HandleRemoved \/ HandleModified
  <2>1. UNCHANGED <<tab, kept>>
    BY <1>39 DEF HandleRemoved, HandleModified, bounds
  <2>2. Hold(sched).held
    BY <1>1 DEF Hold, Sched
  <2>3. sched' # Hold(sched)
    BY <1>3, <2>2
  <2>4. UNCHANGED <<doc, sched>> /\ \E op : queue' \in {queue, Append(queue, op)}
    BY <1>39, <2>3 DEF HandleRemoved, HandleModified
  <2> QED
    BY <1>12, <2>1, <2>4
<1> QED
  BY <1>8, <1>9, <1>10, <1>13, <1>15, <1>16, <1>17, <1>37, <1>38, <1>39
     DEF Next, Timers, User, Begin, Listen

\* Whatever timers, saves, conflicts and replacements do to the scheduler, an
\* edit that it may write stays on its way, unless its failure is shown, for any
\* number of edits, failures and replacements; but the answer to a save under
\* another name, or of an orphan, forgets what was edited meanwhile
\* (recordChange, setConflicted, settle).
THEOREM OnlySavingStrands == Spec => OnlySavingAsStrands
<1>1. Init => IInv /\ SInv
  BY InitHolds, SInitHolds
<1>2. (IInv /\ SInv) /\ [Next]_vars => (IInv /\ SInv)'
  BY StepKeeps, SStepKeeps
<1>3. (IInv /\ SInv) /\ [Next]_vars =>
        [Stranded' => Stranded \/ AnswerOf(Renaming) \/ doc'.state = "error"]_vars
  BY EditsStayOnTheirWay
<1> QED
  BY <1>1, <1>2, <1>3, PTL DEF Spec, OnlySavingAsStrands

-----------------------------------------------------------------------------
(* The backend's service. *)

CallRecord ==
  [op : Command, step : HeldStep \union {"idle", "waiting"}, scene : MaybeContent, base : MaybeContent]

\* The lock is with the call that is past it.
LocksAreHeld == \A c \in Call : calls[c].step \in HeldStep <=> lock = c

\* A call carries what it was asked with; a file that is there is not discarded.
Carries(r) == r.op # "discard" /\ (r.op \in {"draft", "checkpoint"} => r.scene \in Content)

\* What a call at this step has made of the drawing so far.
StepFollows(r) ==
  /\ r.step = "stored" => draft # NoDraft /\ draft.dirty /\ draft.scene = r.scene
  /\ r.step \in {"written", "identified"} => file = r.scene
  /\ r.step = "read" => draft # NoDraft /\ file = r.scene
  /\ r.step \in {"clean", "cleared"} => ~Dirty

\* What agrees, but for the stretches of a call that bring it about.
Agrees(r) ==
  /\ r.step \notin {"written", "identified"} => (draft # NoDraft /\ ~draft.dirty => file = draft.scene)
  /\ r.step # "stored" => (Dirty => snapshot = draft.scene)
  /\ r.step # "written" => identity # "stale"

ServiceInv ==
  /\ ServiceTypeOK /\ LocksAreHeld /\ file # Missing
  /\ \A c \in Call : Carries(calls[c]) /\ StepFollows(calls[c])
  /\ lock = Free => Agrees(Idle)
  /\ lock # Free => Agrees(calls[lock])

DrawingTyped ==
  /\ file' # Missing /\ file' \in MaybeContent
  /\ identity' \in {"none", "current", "stale"}
  /\ draft' \in DraftRow \union {NoDraft} /\ snapshot' \in MaybeContent

WatcherTyped ==
  /\ conflicted' \in BOOLEAN /\ known' \in MaybeContent
  /\ pending' \in {"none", "Created", "Modified", "Removed"}
  /\ watch' \in [at : {"idle", "read", "changed", "dirty"}, kind : {"Created", "Modified"}, scene : MaybeContent]

LEMMA ServiceTyped ==
  ASSUME ServiceInv
  PROVE  /\ calls \in [Call -> CallRecord] /\ lock \in Call \union {Free} /\ Idle \in CallRecord
         /\ file \in MaybeContent /\ file # Missing /\ identity \in {"none", "current", "stale"}
         /\ draft \in DraftRow \union {NoDraft} /\ snapshot \in MaybeContent
         /\ conflicted \in BOOLEAN /\ known \in MaybeContent
         /\ pending \in {"none", "Created", "Modified", "Removed"}
         /\ watch \in [at : {"idle", "read", "changed", "dirty"}, kind : {"Created", "Modified"}, scene : MaybeContent]
BY DEF ServiceInv, ServiceTypeOK, CallRecord, Idle, Command, MaybeContent

LEMMA IdleAgrees ==
  /\ Carries(Idle) /\ StepFollows(Idle) /\ Idle.step \notin HeldStep
  /\ \A r : r.step \notin HeldStep => StepFollows(r)
  /\ \A r : r.step \notin {"stored", "written", "identified"} => (Agrees(r) <=> Agrees(Idle))
BY DEF Carries, StepFollows, Agrees, Idle, HeldStep

\* A step of the call that has the lock is about its own record and the drawing.
LEMMA HeldSteps ==
  ASSUME ServiceInv, NEW c \in Call, calls[c].step \in HeldStep, NEW r \in CallRecord,
         calls' = [calls EXCEPT ![c] = r],
         (r.step \in HeldStep /\ lock' = lock) \/ (r = Idle /\ lock' = Free),
         DrawingTyped, WatcherTyped, Carries(r), StepFollows(r)', Agrees(r)'
  PROVE  ServiceInv'
<1>1. calls \in [Call -> CallRecord] /\ lock = c /\ \A d \in Call \ {c} : calls[d].step \notin HeldStep
  BY ServiceTyped DEF ServiceInv, LocksAreHeld
<1>2. calls' \in [Call -> CallRecord] /\ calls'[c] = r /\ \A d \in Call \ {c} : calls'[d] = calls[d]
  BY <1>1
<1>3. ServiceTypeOK'
  BY <1>1, <1>2 DEF ServiceTypeOK, DrawingTyped, WatcherTyped, CallRecord
<1>4. LocksAreHeld'
  <2>1. Free \notin Call /\ Idle.step \notin HeldStep
    BY SceneAssumption, IdleAgrees
  <2> QED
    BY <1>1, <1>2, <2>1 DEF LocksAreHeld
<1>5. \A d \in Call : (Carries(calls[d]) /\ StepFollows(calls[d]))'
  <2>1. ASSUME NEW d \in Call \ {c} PROVE (Carries(calls[d]) /\ StepFollows(calls[d]))'
    <3>1. PICK x : x = calls[d]
      OBVIOUS
    <3>2. Carries(x) /\ x.step \notin HeldStep /\ calls'[d] = x
      BY <1>1, <1>2, <3>1 DEF ServiceInv
    <3>3. StepFollows(x)'
      BY <3>2 DEF StepFollows, HeldStep
    <3> QED
      BY <3>2, <3>3 DEF StepFollows, Carries
  <2>2. StepFollows(calls[c])'
    BY <1>2 DEF StepFollows
  <2> QED
    BY <1>2, <2>1, <2>2
<1>6. (lock = Free => Agrees(Idle))' /\ (lock # Free => Agrees(calls[lock]))'
  <2>1. CASE r.step \in HeldStep /\ lock' = lock
    <3>1. lock' = c /\ c # Free
      BY <1>1, <2>1, SceneAssumption
    <3> QED
      BY <1>2, <3>1 DEF Agrees
  <2>2. CASE r = Idle /\ lock' = Free
    BY <2>2
  <2> QED
    BY <2>1, <2>2
<1> QED
  BY <1>3, <1>4, <1>5, <1>6 DEF ServiceInv, DrawingTyped

\* What a call that has the lock finds.
LEMMA HeldAgrees ==
  ASSUME ServiceInv, NEW c \in Call, calls[c].step \in HeldStep
  PROVE  /\ lock = c /\ calls[c] \in CallRecord /\ calls \in [Call -> CallRecord]
         /\ Carries(calls[c]) /\ StepFollows(calls[c]) /\ Agrees(calls[c])
BY ServiceTyped, SceneAssumption DEF ServiceInv, LocksAreHeld

\* A step that gives the lock back leaves all in agreement.
LEMMA Returns ==
  ASSUME ServiceInv, NEW c \in Call, calls[c].step \in HeldStep, Healthy!Return(c), DrawingTyped, WatcherTyped, Agrees(Idle)'
  PROVE  ServiceInv'
<1>1. calls' = [calls EXCEPT ![c] = Idle] /\ lock' = Free
  BY DEF Healthy!Return, Healthy!Idle, Idle
<1>2. StepFollows(Idle)' /\ Carries(Idle) /\ Idle \in CallRecord
  BY ServiceTyped DEF StepFollows, Idle, Carries
<1> QED
  BY <1>1, <1>2, HeldSteps

\* A step that keeps the lock moves the call's record on.
Moved(c, r) ==
  /\ calls' = [calls EXCEPT ![c] = r] /\ lock' = lock
  /\ r \in CallRecord /\ r.step \in HeldStep /\ Carries(r)

LEMMA Moves ==
  ASSUME ServiceInv, NEW c \in Call, calls[c].step \in HeldStep, NEW r, Moved(c, r),
         DrawingTyped, WatcherTyped, StepFollows(r)', Agrees(r)'
  PROVE  ServiceInv'
BY HeldSteps DEF Moved

LEMMA GoesOn ==
  ASSUME ServiceInv, NEW c \in Call, calls[c].step \in HeldStep, NEW step \in HeldStep, Healthy!Go(c, step)
  PROVE  \E r : /\ Moved(c, r) /\ r.step = step /\ r.scene = calls[c].scene /\ r.base = calls[c].base
                /\ r.op = calls[c].op
<1>1. calls[c] \in CallRecord /\ calls \in [Call -> CallRecord] /\ Carries(calls[c])
  BY HeldAgrees
<1>2. PICK r : r = [calls[c] EXCEPT !.step = step]
  OBVIOUS
<1>3. r \in CallRecord /\ r.step = step /\ r.scene = calls[c].scene /\ r.base = calls[c].base /\ r.op = calls[c].op
  BY <1>1, <1>2 DEF CallRecord
<1>4. calls' = [calls EXCEPT ![c] = r] /\ lock' = lock
  BY <1>1, <1>2 DEF Healthy!Go, Healthy!Goto
<1>5. Carries(r)
  BY <1>1, <1>3 DEF Carries
<1> QED
  BY <1>3, <1>4, <1>5 DEF Moved

LEMMA WatcherStays ==
  ASSUME ServiceInv, UNCHANGED <<conflicted, known, pending, watch>>
  PROVE  WatcherTyped
BY ServiceTyped DEF WatcherTyped

LEMMA OpenKeeps ==
  ASSUME ServiceInv, NEW c \in Call, Healthy!Open(c) \/ Healthy!OpenRefused(c)
  PROVE  ServiceInv'
<1>1. /\ Healthy!Return(c) /\ UNCHANGED <<file, draft, snapshot, conflicted, known, pending, watch>>
      /\ identity' \in {identity, "current"} /\ calls[c].step = "locked"
  BY DEF Healthy!Open, Healthy!OpenRefused, Healthy!IdentityResolved, Healthy!At, Healthy!watcherVars, Healthy!durable
<1>2. calls[c].step \in HeldStep
  BY <1>1 DEF HeldStep
<1>3. Agrees(calls[c]) /\ Agrees(Idle)
  BY <1>1, <1>2, HeldAgrees, IdleAgrees
<1>4. Agrees(Idle)'
  BY <1>1, <1>3 DEF Agrees, Dirty, Idle
<1>5. DrawingTyped /\ WatcherTyped
  BY <1>1, ServiceTyped, WatcherStays DEF DrawingTyped
<1> QED
  BY <1>1, <1>2, <1>4, <1>5, Returns

LEMMA DraftKeeps ==
  ASSUME ServiceInv, NEW c \in Call, Healthy!DraftBase(c) \/ Healthy!DraftUpsert(c) \/ Healthy!DraftSnapshot(c)
  PROVE  ServiceInv'
<1>0. UNCHANGED <<file, conflicted, known, pending, watch>> /\ calls[c].op = "draft"
      /\ calls[c].step \in {"locked", "based", "stored"}
  BY DEF Healthy!DraftBase, Healthy!DraftUpsert, Healthy!DraftSnapshot, Healthy!At, Healthy!watcherVars
<1>h. calls[c].step \in HeldStep
  BY <1>0 DEF HeldStep
<1>w. WatcherTyped
  BY <1>0, WatcherStays
<1>c. /\ calls[c] \in CallRecord /\ calls \in [Call -> CallRecord] /\ calls[c].scene \in Content
      /\ Carries(calls[c]) /\ StepFollows(calls[c]) /\ Agrees(calls[c])
  BY <1>0, <1>h, HeldAgrees DEF Carries
<1>1. CASE Healthy!DraftBase(c)
  <2>1. UNCHANGED <<draft, snapshot>> /\ calls[c].step = "locked" /\ identity' \in {identity, "current"}
    BY <1>1 DEF Healthy!DraftBase, Healthy!IdentityResolved, Healthy!At
  <2>2. DrawingTyped
    BY <1>0, <2>1, ServiceTyped DEF DrawingTyped
  <2>3. Agrees(Idle)
    BY <1>c, <2>1, IdleAgrees
  <2>4. CASE Healthy!Return(c)
    <3>1. Agrees(Idle)'
      BY <1>0, <2>1, <2>3 DEF Agrees, Dirty, Idle
    <3> QED
      BY <1>h, <1>w, <2>2, <2>4, <3>1, Returns
  <2>5. CASE ~Healthy!Return(c)
    <3>1. PICK r : r = [calls[c] EXCEPT !.step = "based", !.base = IF draft = NoDraft THEN file ELSE draft.base]
      OBVIOUS
    <3>2. calls' = [calls EXCEPT ![c] = r] /\ lock' = lock
      BY <1>1, <1>c, <2>5, <3>1 DEF Healthy!DraftBase
    <3>3. r \in CallRecord /\ r.step = "based" /\ r.op = "draft" /\ r.scene = calls[c].scene
      BY <1>0, <1>c, <3>1, ServiceTyped DEF CallRecord, DraftRow, HeldStep
    <3>4. Moved(c, r)
      BY <1>c, <3>2, <3>3 DEF Moved, Carries, HeldStep
    <3>5. StepFollows(r)' /\ Agrees(r)'
      BY <1>0, <2>1, <2>3, <3>3 DEF StepFollows, Agrees, Dirty, Idle
    <3> QED
      BY <1>h, <1>w, <2>2, <3>4, <3>5, Moves
  <2> QED
    BY <2>4, <2>5
<1>2. CASE Healthy!DraftUpsert(c)
  <2>1. /\ draft' = [scene |-> calls[c].scene, base |-> calls[c].base, dirty |-> TRUE]
        /\ Healthy!Go(c, "stored") /\ UNCHANGED <<identity, snapshot>> /\ calls[c].step = "based"
    BY <1>2 DEF Healthy!DraftUpsert, Healthy!At
  <2>2. PICK r : Moved(c, r) /\ r.step = "stored" /\ r.scene = calls[c].scene
    BY <1>h, <2>1, GoesOn DEF HeldStep
  <2>3. draft' \in DraftRow /\ draft' # NoDraft /\ draft'.dirty /\ draft'.scene = calls[c].scene
    <3>1. draft' \in DraftRow
      BY <1>c, <2>1 DEF DraftRow, CallRecord
    <3> QED
      BY <2>1, <3>1, SceneAssumption DEF DraftRow, MaybeContent
  <2>4. DrawingTyped
    BY <1>0, <2>1, <2>3, ServiceTyped DEF DrawingTyped
  <2>5. StepFollows(r)' /\ Agrees(r)'
    BY <1>0, <1>c, <2>1, <2>2, <2>3 DEF StepFollows, Agrees, Dirty
  <2> QED
    BY <1>h, <1>w, <2>2, <2>4, <2>5, Moves
<1>3. CASE Healthy!DraftSnapshot(c)
  <2>1. snapshot' = calls[c].scene /\ Healthy!Return(c) /\ UNCHANGED <<identity, draft>> /\ calls[c].step = "stored"
    BY <1>3 DEF Healthy!DraftSnapshot, Healthy!At
  <2>2. DrawingTyped
    BY <1>0, <1>c, <2>1, ServiceTyped DEF DrawingTyped, MaybeContent
  <2>3. Agrees(Idle)'
    BY <1>0, <1>c, <2>1 DEF StepFollows, Agrees, Dirty, Idle
  <2> QED
    BY <1>h, <1>w, <2>1, <2>2, <2>3, Returns
<1> QED
  BY <1>1, <1>2, <1>3

LEMMA CheckpointKeeps ==
  ASSUME ServiceInv, NEW c \in Call,
         \/ Healthy!CheckpointIdentity(c) \/ Healthy!CheckpointWrite(c) \/ Healthy!CheckpointSelfWrite(c)
         \/ Healthy!CheckpointCommit(c) \/ Healthy!CheckpointNote(c)
  PROVE  ServiceInv'
<1>0. /\ UNCHANGED <<snapshot, conflicted, watch>> /\ calls[c].op = "checkpoint"
      /\ calls[c].step \in {"locked", "ready", "written", "identified", "committed"}
  BY DEF Healthy!CheckpointIdentity, Healthy!CheckpointWrite, Healthy!CheckpointSelfWrite,
         Healthy!CheckpointCommit, Healthy!CheckpointNote, Healthy!At, Healthy!watcherVars, Healthy!durable
<1>h. calls[c].step \in HeldStep
  BY <1>0 DEF HeldStep
<1>c. /\ calls[c].scene \in Content /\ StepFollows(calls[c]) /\ Agrees(calls[c])
      /\ file \in Content
  BY <1>0, <1>h, HeldAgrees, ServiceTyped DEF Carries, MaybeContent
<1>1. CASE Healthy!CheckpointIdentity(c)
  <2>1. /\ UNCHANGED <<file, draft, known, pending>> /\ calls[c].step = "locked" /\ identity' \in {identity, "current"}
        /\ Healthy!Go(c, "ready") \/ Healthy!Return(c)
    BY <1>1 DEF Healthy!CheckpointIdentity, Healthy!IdentityResolved, Healthy!At, Healthy!watcherVars
  <2>2. DrawingTyped /\ WatcherTyped
    BY <1>0, <2>1, ServiceTyped, WatcherStays DEF DrawingTyped
  <2>3. Agrees(Idle)
    BY <1>c, <2>1, IdleAgrees
  <2>4. Agrees(Idle)'
    BY <1>0, <2>1, <2>3 DEF Agrees, Dirty, Idle
  <2>5. CASE Healthy!Go(c, "ready")
    <3>1. PICK r : Moved(c, r) /\ r.step = "ready"
      BY <1>h, <2>5, GoesOn DEF HeldStep
    <3>2. StepFollows(r)' /\ Agrees(r)'
      BY <2>4, <3>1 DEF StepFollows, Agrees, Idle
    <3> QED
      BY <1>h, <2>2, <3>1, <3>2, Moves
  <2> QED
    BY <1>h, <2>1, <2>2, <2>4, <2>5, Returns
<1>2. CASE Healthy!CheckpointWrite(c)
  <2>1. /\ file' = calls[c].scene /\ identity' = IF identity = "current" THEN "stale" ELSE identity
        /\ UNCHANGED <<draft, known>> /\ calls[c].step = "ready" /\ Healthy!Go(c, "written")
        /\ \E kind \in RawKind : pending' = Healthy!Merge(pending, kind)
    BY <1>2 DEF Healthy!CheckpointWrite, Healthy!Published, Healthy!At
  <2>2. pending' \in {"none", "Created", "Modified", "Removed"}
    BY <2>1, SceneAssumption DEF Healthy!Merge
  <2>3. WatcherTyped /\ DrawingTyped
    BY <1>0, <1>c, <2>1, <2>2, ServiceTyped, SceneAssumption DEF DrawingTyped, WatcherTyped, MaybeContent
  <2>4. PICK r : Moved(c, r) /\ r.step = "written" /\ r.scene = calls[c].scene
    BY <1>h, <2>1, GoesOn DEF HeldStep
  <2>5. StepFollows(r)' /\ Agrees(r)'
    BY <1>0, <1>c, <2>1, <2>4 DEF StepFollows, Agrees, Dirty
  <2> QED
    BY <1>h, <2>3, <2>4, <2>5, Moves
<1>3. CASE Healthy!CheckpointSelfWrite(c)
  <2>1. /\ UNCHANGED <<file, draft, known, pending>> /\ calls[c].step = "written"
        /\ identity' = "current" /\ Healthy!Go(c, "identified")
    BY <1>3, ServiceTyped DEF Healthy!CheckpointSelfWrite, Healthy!At, Healthy!watcherVars
  <2>2. DrawingTyped /\ WatcherTyped
    BY <1>0, <2>1, ServiceTyped, WatcherStays DEF DrawingTyped
  <2>3. PICK r : Moved(c, r) /\ r.step = "identified" /\ r.scene = calls[c].scene
    BY <1>h, <2>1, GoesOn DEF HeldStep
  <2>4. StepFollows(r)' /\ Agrees(r)'
    BY <1>0, <1>c, <2>1, <2>3 DEF StepFollows, Agrees, Dirty
  <2> QED
    BY <1>h, <2>2, <2>3, <2>4, Moves
<1>4. CASE Healthy!CheckpointCommit(c)
  <2>1. /\ UNCHANGED <<file, identity, known, pending>> /\ calls[c].step = "identified"
        /\ draft' = [scene |-> calls[c].scene, base |-> calls[c].scene, dirty |-> FALSE]
        /\ Healthy!Go(c, "committed")
    BY <1>4, ServiceTyped DEF Healthy!CheckpointCommit, Healthy!At, Healthy!watcherVars
  <2>2. draft' \in DraftRow /\ ~draft'.dirty /\ draft'.scene = calls[c].scene
    BY <1>c, <2>1 DEF DraftRow, MaybeContent
  <2>3. DrawingTyped /\ WatcherTyped
    BY <1>0, <2>1, <2>2, ServiceTyped, WatcherStays DEF DrawingTyped
  <2>4. PICK r : Moved(c, r) /\ r.step = "committed" /\ r.scene = calls[c].scene
    BY <1>h, <2>1, GoesOn DEF HeldStep
  <2>5. StepFollows(r)' /\ Agrees(r)'
    BY <1>0, <1>c, <2>1, <2>2, <2>4 DEF StepFollows, Agrees, Dirty
  <2> QED
    BY <1>h, <2>3, <2>4, <2>5, Moves
<1>5. CASE Healthy!CheckpointNote(c)
  <2>1. /\ UNCHANGED <<file, identity, draft, pending>> /\ calls[c].step = "committed"
        /\ known' = calls[c].scene /\ Healthy!Return(c)
    BY <1>5 DEF Healthy!CheckpointNote, Healthy!At, Healthy!durable
  <2>2. DrawingTyped /\ WatcherTyped
    BY <1>0, <1>c, <2>1, ServiceTyped DEF DrawingTyped, WatcherTyped, MaybeContent
  <2>3. Agrees(Idle)
    BY <1>c, <2>1, IdleAgrees
  <2>4. Agrees(Idle)'
    BY <1>0, <2>1, <2>3 DEF Agrees, Dirty, Idle
  <2> QED
    BY <1>h, <2>1, <2>2, <2>4, Returns
<1> QED
  BY <1>1, <1>2, <1>3, <1>4, <1>5

LEMMA ResolveKeeps ==
  ASSUME ServiceInv, NEW c \in Call,
         Healthy!ResolveRead(c) \/ Healthy!ResolveApply(c) \/ Healthy!ResolveClear(c)
  PROVE  ServiceInv'
<1>0. /\ UNCHANGED <<file, identity, snapshot, known, pending, watch>>
      /\ calls[c].op \in ConflictResolution /\ calls[c].step \in {"locked", "read", "resolved"}
  BY DEF Healthy!ResolveRead, Healthy!ResolveApply, Healthy!ResolveClear, Healthy!Resolving,
         Healthy!ConflictResolution, ConflictResolution, Healthy!watcherVars, Healthy!durable
<1>h. calls[c].step \in HeldStep
  BY <1>0 DEF HeldStep
<1>c. /\ calls[c] \in CallRecord /\ StepFollows(calls[c]) /\ Agrees(calls[c]) /\ calls \in [Call -> CallRecord]
      /\ Agrees(Idle) /\ file \in Content
  BY <1>0, <1>h, HeldAgrees, ServiceTyped, IdleAgrees DEF MaybeContent
<1>1. CASE Healthy!ResolveRead(c)
  <2>1. UNCHANGED <<draft, conflicted>> /\ calls[c].step = "locked"
    BY <1>1 DEF Healthy!ResolveRead, Healthy!Resolving, Healthy!durable
  <2>2. DrawingTyped /\ WatcherTyped
    BY <1>0, <2>1, ServiceTyped, WatcherStays DEF DrawingTyped
  <2>3. Agrees(Idle)'
    BY <1>0, <1>c, <2>1 DEF Agrees, Dirty, Idle
  <2>4. CASE draft = NoDraft
    <3>1. Healthy!Return(c)
      BY <1>1, <2>4 DEF Healthy!ResolveRead
    <3> QED
      BY <1>h, <2>2, <2>3, <3>1, Returns
  <2>5. CASE draft # NoDraft
    <3>1. PICK r : r = [calls[c] EXCEPT !.step = "read", !.scene = file]
      OBVIOUS
    <3>2. calls' = [calls EXCEPT ![c] = r] /\ lock' = lock
      BY <1>1, <1>c, <2>5, <3>1, ServiceTyped DEF Healthy!ResolveRead
    <3>3. r \in CallRecord /\ r.step = "read" /\ r.scene = file /\ r.op = calls[c].op
      BY <1>c, <3>1, ServiceTyped DEF CallRecord, HeldStep
    <3>4. Moved(c, r)
      BY <1>0, <3>2, <3>3 DEF Moved, Carries, HeldStep, ConflictResolution
    <3>5. StepFollows(r)' /\ Agrees(r)'
      BY <1>0, <2>1, <2>3, <2>5, <3>3 DEF StepFollows, Agrees, Idle
    <3> QED
      BY <1>h, <2>2, <3>4, <3>5, Moves
  <2> QED
    BY <2>4, <2>5
<1>2. CASE Healthy!ResolveApply(c)
  <2>1. /\ draft' = CASE calls[c].op = "takeExternal" ->
                           [scene |-> calls[c].scene, base |-> calls[c].scene, dirty |-> FALSE]
                      [] calls[c].op = "keepLocal" -> [draft EXCEPT !.base = calls[c].scene]
                      [] OTHER -> NoDraft
        /\ Healthy!Go(c, "resolved") /\ UNCHANGED conflicted /\ calls[c].step = "read"
    BY <1>2 DEF Healthy!ResolveApply, Healthy!Resolving, Healthy!watcherVars
  <2>2. draft # NoDraft /\ draft \in DraftRow /\ calls[c].scene = file
    BY <1>c, <2>1, ServiceTyped DEF StepFollows
  <2>3. /\ draft' \in DraftRow \union {NoDraft}
        /\ \/ draft' = NoDraft
           \/ ~draft'.dirty /\ draft'.scene = file
           \/ draft'.dirty = draft.dirty /\ draft'.scene = draft.scene
    BY <1>c, <2>1, <2>2 DEF DraftRow, MaybeContent
  <2>4. DrawingTyped /\ WatcherTyped
    BY <1>0, <2>1, <2>3, ServiceTyped, WatcherStays DEF DrawingTyped
  <2>5. PICK r : Moved(c, r) /\ r.step = "resolved"
    BY <1>h, <2>1, GoesOn DEF HeldStep
  <2>6. StepFollows(r)' /\ Agrees(r)'
    BY <1>0, <1>c, <2>2, <2>3, <2>5 DEF StepFollows, Agrees, Dirty, Idle
  <2> QED
    BY <1>h, <2>4, <2>5, <2>6, Moves
<1>3. CASE Healthy!ResolveClear(c)
  <2>1. conflicted' = FALSE /\ Healthy!Return(c) /\ UNCHANGED draft
    BY <1>3 DEF Healthy!ResolveClear, Healthy!durable
  <2>2. DrawingTyped /\ WatcherTyped
    BY <1>0, <2>1, ServiceTyped DEF DrawingTyped, WatcherTyped
  <2>3. Agrees(Idle)'
    BY <1>0, <1>c, <2>1 DEF Agrees, Dirty, Idle
  <2> QED
    BY <1>h, <2>1, <2>2, <2>3, Returns
<1> QED
  BY <1>1, <1>2, <1>3

LEMMA CloseKeeps ==
  ASSUME ServiceInv, NEW c \in Call,
         Healthy!CloseCheck(c) \/ Healthy!CloseSnapshots(c) \/ Healthy!CloseDraft(c)
  PROVE  ServiceInv'
<1>0. /\ UNCHANGED <<file, identity, conflicted, known, pending, watch>>
      /\ calls[c].step \in {"locked", "clean", "cleared"}
  BY DEF Healthy!CloseCheck, Healthy!CloseSnapshots, Healthy!CloseDraft, Healthy!At,
         Healthy!watcherVars, Healthy!durable
<1>h. calls[c].step \in HeldStep
  BY <1>0 DEF HeldStep
<1>c. /\ Carries(calls[c]) /\ StepFollows(calls[c]) /\ Agrees(calls[c]) /\ Agrees(Idle)
  BY <1>0, <1>h, HeldAgrees, IdleAgrees
<1>1. CASE Healthy!CloseCheck(c)
  <2>1. /\ UNCHANGED <<draft, snapshot>> /\ calls[c].op = "close"
        /\ (Dirty /\ Healthy!Return(c)) \/ (~Dirty /\ Healthy!Go(c, "clean"))
    BY <1>1, <1>c DEF Healthy!CloseCheck, Healthy!At, Healthy!durable, Healthy!Dirty, Dirty, Carries
  <2>2. DrawingTyped /\ WatcherTyped
    BY <1>0, <2>1, ServiceTyped, WatcherStays DEF DrawingTyped
  <2>3. Agrees(Idle)'
    BY <1>0, <1>c, <2>1 DEF Agrees, Dirty, Idle
  <2>4. CASE ~Dirty /\ Healthy!Go(c, "clean")
    <3>1. PICK r : Moved(c, r) /\ r.step = "clean"
      BY <1>h, <2>4, GoesOn DEF HeldStep
    <3>2. StepFollows(r)' /\ Agrees(r)'
      BY <2>1, <2>3, <2>4, <3>1 DEF StepFollows, Agrees, Idle, Dirty
    <3> QED
      BY <1>h, <2>2, <3>1, <3>2, Moves
  <2> QED
    BY <1>h, <2>1, <2>2, <2>3, <2>4, Returns
<1>2. CASE Healthy!CloseSnapshots(c)
  <2>1. UNCHANGED draft /\ snapshot' = Missing /\ calls[c].step = "clean" /\ Healthy!Go(c, "cleared")
    BY <1>2 DEF Healthy!CloseSnapshots
  <2>2. DrawingTyped /\ WatcherTyped
    BY <1>0, <2>1, ServiceTyped, WatcherStays DEF DrawingTyped, MaybeContent
  <2>3. PICK r : Moved(c, r) /\ r.step = "cleared"
    BY <1>h, <2>1, GoesOn DEF HeldStep
  <2>4. StepFollows(r)' /\ Agrees(r)'
    BY <1>0, <1>c, <2>1, <2>3 DEF StepFollows, Agrees, Idle, Dirty
  <2> QED
    BY <1>h, <2>2, <2>3, <2>4, Moves
<1>3. CASE Healthy!CloseDraft(c)
  <2>1. UNCHANGED snapshot /\ draft' = NoDraft /\ Healthy!Return(c)
    BY <1>3 DEF Healthy!CloseDraft
  <2>2. DrawingTyped /\ WatcherTyped
    BY <1>0, <2>1, ServiceTyped, WatcherStays DEF DrawingTyped
  <2>3. Agrees(Idle)'
    BY <1>0, <1>c, <2>1 DEF Agrees, Idle, Dirty
  <2> QED
    BY <1>h, <2>1, <2>2, <2>3, Returns
<1> QED
  BY <1>1, <1>2, <1>3

\* What leaves drawing and lock alone.
LEMMA AsideKeeps ==
  ASSUME ServiceInv, UNCHANGED <<file, identity, draft, snapshot, lock>>, WatcherTyped,
         \/ UNCHANGED calls
         \/ \E c \in Call, r \in CallRecord :
              /\ calls[c].step \notin HeldStep /\ r.step \notin HeldStep /\ Carries(r)
              /\ calls' = [calls EXCEPT ![c] = r]
  PROVE  ServiceInv'
<1>1. /\ calls' \in [Call -> CallRecord]
      /\ \A d \in Call : \/ calls'[d] = calls[d]
                         \/ calls[d].step \notin HeldStep /\ calls'[d].step \notin HeldStep /\ Carries(calls'[d])
  BY ServiceTyped
<1>2. ServiceTypeOK'
  BY <1>1, ServiceTyped DEF ServiceTypeOK, WatcherTyped, CallRecord
<1>3. LocksAreHeld'
  BY <1>1 DEF ServiceInv, LocksAreHeld
<1>4. \A r : (StepFollows(r)' <=> StepFollows(r)) /\ (Agrees(r)' <=> Agrees(r))
  BY DEF StepFollows, Agrees, Dirty
<1>5. \A d \in Call : (Carries(calls[d]) /\ StepFollows(calls[d]))'
  <2>1. ASSUME NEW d \in Call PROVE (Carries(calls[d]) /\ StepFollows(calls[d]))'
    <3>1. PICK x : x = calls'[d]
      OBVIOUS
    <3>2. Carries(x) /\ StepFollows(x)
      BY <1>1, <3>1, IdleAgrees DEF ServiceInv
    <3>3. StepFollows(x)'
      BY <1>4, <3>2
    <3> QED
      BY <3>1, <3>2, <3>3 DEF Carries, StepFollows
  <2> QED
    BY <2>1
<1>6. (lock = Free => Agrees(Idle))'
  BY <1>4 DEF ServiceInv
<1>7. (lock # Free => Agrees(calls[lock]))'
  <2> SUFFICES ASSUME lock # Free PROVE Agrees(calls[lock])'
    OBVIOUS
  <2>1. PICK x : x = calls[lock]
    OBVIOUS
  <2>2. calls'[lock] = x
    BY <1>1, <2>1, ServiceTyped DEF ServiceInv, LocksAreHeld
  <2>3. Agrees(x)'
    BY <1>4, <2>1 DEF ServiceInv
  <2> QED
    BY <2>2, <2>3 DEF Agrees
<1> QED
  BY <1>2, <1>3, <1>5, <1>6, <1>7 DEF ServiceInv

LEMMA AskedKeeps ==
  ASSUME ServiceInv, NEW c \in Call, Healthy!Asked(c)
  PROVE  ServiceInv'
<1>1. PICK op \in Command, s \in MaybeContent : Healthy!Request(c, op, s) /\ (op \in {"draft", "checkpoint"} => s \in Content)
  BY DEF Healthy!Asked, Healthy!Command, Command, Healthy!ConflictResolution, ConflictResolution, MaybeContent, Content
<1>2. PICK r : r = [Idle EXCEPT !.op = op, !.step = "waiting", !.scene = s]
  OBVIOUS
<1>3. /\ calls[c] = Idle /\ calls' = [calls EXCEPT ![c] = r] /\ op # "discard"
      /\ UNCHANGED <<file, identity, draft, snapshot, lock, conflicted, known, pending, watch>>
  BY <1>1, <1>2, ServiceTyped
     DEF Healthy!Request, Healthy!Idle, Idle, Healthy!durable, Healthy!watcherVars
<1>4. r \in CallRecord /\ r.step = "waiting" /\ Carries(r)
  BY <1>1, <1>2, <1>3 DEF CallRecord, Idle, Carries, MaybeContent
<1>5. calls[c].step \notin HeldStep /\ r.step \notin HeldStep
  BY <1>3, <1>4, IdleAgrees DEF HeldStep
<1> QED
  BY <1>3, <1>4, <1>5, AsideKeeps, WatcherStays

LEMMA WatchesKeep ==
  ASSUME ServiceInv, Healthy!Watches
  PROVE  ServiceInv'
<1>1. UNCHANGED <<file, identity, draft, snapshot, lock, calls>>
  BY DEF Healthy!Watches, Healthy!WatchRead, Healthy!WatchCompare, Healthy!WatchDraft, Healthy!WatchMark, Healthy!durable
<1>2. WatcherTyped
  <2>0. watch.scene \in MaybeContent /\ file \in MaybeContent /\ Missing \in MaybeContent /\ Healthy!WatchIdle = WatchIdle
    BY ServiceTyped DEF MaybeContent, Healthy!WatchIdle, WatchIdle
  <2>1. CASE Healthy!WatchRead
    BY <2>0, <2>1, ServiceTyped DEF Healthy!WatchRead, WatcherTyped
  <2>2. CASE Healthy!WatchCompare
    BY <2>0, <2>2, ServiceTyped DEF Healthy!WatchCompare, WatcherTyped, WatchIdle
  <2>3. CASE Healthy!WatchDraft
    BY <2>0, <2>3, ServiceTyped DEF Healthy!WatchDraft, WatcherTyped, WatchIdle
  <2>4. CASE Healthy!WatchMark
    BY <2>0, <2>4, ServiceTyped DEF Healthy!WatchMark, WatcherTyped, WatchIdle
  <2> QED
    BY <2>1, <2>2, <2>3, <2>4 DEF Healthy!Watches
<1> QED
  BY <1>1, <1>2, AsideKeeps

LEMMA AcquireKeeps ==
  ASSUME ServiceInv, NEW c \in Call, Healthy!Acquire(c)
  PROVE  ServiceInv'
<1>0. /\ calls[c].step = "waiting" /\ lock = Free /\ lock' = c /\ calls' = [calls EXCEPT ![c].step = "locked"]
      /\ UNCHANGED <<file, identity, draft, snapshot, conflicted, known, pending, watch>>
  BY DEF Healthy!Acquire, Healthy!Goto, Healthy!durable, Healthy!watcherVars
<1>1. calls \in [Call -> CallRecord] /\ Carries(calls[c]) /\ \A d \in Call : calls[d].step \notin HeldStep
  BY <1>0, ServiceTyped, SceneAssumption DEF ServiceInv, LocksAreHeld
<1>2. /\ calls' \in [Call -> CallRecord] /\ calls'[c].step = "locked" /\ Carries(calls'[c])
      /\ \A d \in Call \ {c} : calls'[d] = calls[d]
  BY <1>0, <1>1 DEF CallRecord, Carries, HeldStep
<1>3. ServiceTypeOK'
  BY <1>0, <1>2, ServiceTyped DEF ServiceTypeOK, CallRecord
<1>4. LocksAreHeld'
  BY <1>0, <1>1, <1>2 DEF LocksAreHeld, HeldStep
<1>5. \A d \in Call : (Carries(calls[d]) /\ StepFollows(calls[d]))'
  <2>1. ASSUME NEW d \in Call PROVE (Carries(calls[d]) /\ StepFollows(calls[d]))'
    <3>1. Carries(calls'[d])
      BY <1>2 DEF ServiceInv
    <3>2. calls'[d].step \notin HeldStep \/ calls'[d].step = "locked"
      BY <1>1, <1>2
    <3> QED
      BY <3>1, <3>2 DEF Carries, StepFollows, HeldStep
  <2> QED
    BY <2>1
<1>6. Agrees(calls[lock])'
  <2>1. Agrees(Idle)
    BY <1>0 DEF ServiceInv
  <2>2. calls'[lock'].step = "locked"
    BY <1>0, <1>2
  <2> QED
    BY <1>0, <2>1, <2>2 DEF Agrees, Idle, Dirty
<1> QED
  BY <1>0, <1>3, <1>4, <1>5, <1>6, ServiceTyped, SceneAssumption DEF ServiceInv

LEMMA ServiceKept ==
  ASSUME ServiceInv, Healthy!NextUndisturbed
  PROVE  ServiceInv'
BY OpenKeeps, DraftKeeps, CheckpointKeeps, ResolveKeeps, CloseKeeps, AskedKeeps, AcquireKeeps, WatchesKeep
   DEF Healthy!NextUndisturbed, Healthy!Runs

LEMMA ServiceBegins ==
  ASSUME ServiceInit
  PROVE  ServiceInv
<1>1. ServiceTypeOK
  BY DEF ServiceInit, ServiceTypeOK, MaybeContent, Content, Idle, Command, WatchIdle
<1>2. LocksAreHeld /\ \A c \in Call : Carries(calls[c]) /\ StepFollows(calls[c])
  BY SceneAssumption, IdleAgrees DEF ServiceInit, LocksAreHeld
<1> QED
  BY <1>1, <1>2, SceneAssumption DEF ServiceInit, ServiceInv, Agrees, Dirty, Content

LEMMA ServiceHolds == SettingSpec => [](setting = "undisturbed" => ServiceInv)
<1> DEFINE Inv == setting = "undisturbed" => ServiceInv
<1>1. SettingInit => Inv
  BY ServiceBegins DEF SettingInit
<1>2. Inv /\ [SettingNext]_<<serviceVars, setting>> => Inv'
  <2> SUFFICES ASSUME Inv, [SettingNext]_<<serviceVars, setting>>, (setting = "undisturbed")' PROVE ServiceInv'
    OBVIOUS
  <2>1. setting = "undisturbed" /\ ServiceInv
    BY DEF SettingNext
  <2>2. CASE SettingNext
    BY <2>1, <2>2, ServiceKept DEF SettingNext
  <2>3. CASE UNCHANGED <<serviceVars, setting>>
    <3>1. UNCHANGED <<file, identity, draft, snapshot, lock, calls, conflicted, known, pending, watch>>
      BY <2>3 DEF serviceVars, durable, watcherVars
    <3> QED
      BY <2>1, <3>1, AsideKeeps, WatcherStays
  <2> QED
    BY <2>2, <2>3
<1> QED
  BY <1>1, <1>2, PTL DEF SettingSpec

\* While nothing fails and nobody else touches the file, the file and a clean row
\* of `drafts` are one version whenever no command has the drawing's lock, the
\* latest snapshot is the unsaved draft, and the app does not take its own file
\* for somebody else's: any number of commands at once, of any contents, and the
\* watcher beside them (DocumentService of commands/documents.rs).
THEOREM VersionsAgreeHolds == SettingSpec => []VersionsAgree
<1>1. (setting = "undisturbed" => ServiceInv) => VersionsAgree
  BY DEF ServiceInv, Agrees, Idle, Dirty, VersionsAgree, OneVersion, DraftIsRecoverable, StaysOpenable
<1> QED
  BY <1>1, ServiceHolds, PTL
===============================================================================
