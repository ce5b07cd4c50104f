----------------------------- MODULE RecoveryProofs -----------------------------
(***************************************************************************)
(* Proofs about Recovery, for any drawings, rings of any size and any      *)
(* number of edits, seconds, crashes and changes by other programs.        *)
(***************************************************************************)
EXTENDS Recovery, SequenceTheorems, FunctionTheorems, FiniteSetTheorems, WellFoundedInduction, TLAPS

\* The kinds of every variable; a ring has a slot once.
Typed ==
  /\ file \in [Drawing -> File \union {None}]
  /\ draft \in [Drawing -> Draft \union {None}]
  /\ ring \in [Drawing -> Seq(Snapshot)]
  /\ lock \in BOOLEAN
  /\ app \in {"down", "checking", "deciding", "working"}
  /\ tab \in [Drawing -> Tab \union {None}]
  /\ command \in [Drawing -> Command \union {None}]
  /\ remaining \subseteq dialog /\ dialog \subseteq Drawing
  /\ decision \in Decision \union {None}
  /\ now \in Time /\ edits \in 0..MaxEdits
  /\ faults \in 0..MaxFaults
  /\ owed \in [Drawing -> Scene]
  /\ excused \subseteq Drawing /\ settled \subseteq Drawing

SlotsDiffer ==
  \A d \in Drawing : \A i, j \in 1..Len(ring[d]) : ring[d][i].slot = ring[d][j].slot => i = j

\* What there is in each phase of the app.
PhasesAgree ==
  /\ app # "down" => lock
  /\ app # "deciding" => decision = None /\ remaining = {}
  /\ app \in {"down", "checking"} => \A d \in Drawing : tab[d] = None

Deciding(d) == decision # None /\ decision.of = d

Dirty(d) == draft[d] # None /\ draft[d].dirty
Newer(d, i) == file[d] # None /\ ring[d][i].savedAt > file[d].mtime

\* A tab has every edit the app has answered for, and so has the draft under
\* way; one that Recovery has made and that is clean was checkpointed.
TabHolds(d) ==
  /\ tab[d] # None => /\ file[d] # None
                      /\ owed[d] \subseteq tab[d].scene
                      /\ tab[d].state = "clean" =>
                           /\ tab[d].scene = file[d].scene
                           /\ tab[d].restored \/ app = "deciding" => ~Dirty(d)
  /\ command[d] # None => tab[d] # None
  /\ Upserted(d) => owed[d] \subseteq command[d].scene /\ command[d].scene \subseteq tab[d].scene
  /\ Closing(d) => app = "working" /\ tab[d].state = "clean" /\ ~Dirty(d)

\* While decisions are applied nothing is drawn: a tab, its drafts, its
\* snapshots and the offer that is applied to it again are one scene.
ScenesAgree(d) ==
  app = "deciding" /\ tab[d] # None =>
    /\ \A i \in 1..Len(ring[d]) : ring[d][i].scene = tab[d].scene
    /\ Upserted(d) => command[d].scene = tab[d].scene
    /\ Deciding(d) => decision.scene = tab[d].scene

\* The offer under way has every such edit, until it is given up.
OfferHolds(d) ==
  Deciding(d) =>
    /\ owed[d] \subseteq decision.scene
    /\ decision.step = "adopted" => d \notin remaining
    /\ tab[d] = None =>
         /\ \/ decision.action = "discard"
            \/ decision.action = "saveAsNew" /\ decision.step # "read"
            => owed[d] = {}
         /\ decision.step = "adopted" => decision.action # "restore"
         /\ decision.step \in {"removed", "answered", "adopted"} => ring[d] = <<>>

\* The drawing's edits are in the memory of a window, its snapshots removed.
InHand(d) ==
  IF tab[d] # None THEN tab[d].restored
  ELSE Deciding(d) /\ decision.step \in {"removing", "removed", "answered"}

\* Otherwise the newest snapshot has those its file lacks, and is newer.
OnDisk(d) ==
  ~InHand(d) /\ Unsaved(d) # {} =>
    /\ ring[d] # <<>> /\ Unsaved(d) \subseteq Latest(d).scene
    /\ d \notin excused /\ file[d] # None => Latest(d).savedAt > file[d].mtime

\* What Recovery may put in the place of the file has what the file has of them.
LatestHolds(d) ==
  /\ ~InHand(d) /\ ring[d] # <<>>
  /\ Newer(d, Len(ring[d])) \/ (app = "deciding" /\ d \in dialog)
  => owed[d] \subseteq Latest(d).scene

\* A close is refused while the row is dirty: else any snapshot that its
\* removals uncover, and that is newer than the file, has them all the same.
UncoveredHold(d) ==
  ~Dirty(d) =>
    \A i \in 1..Len(ring[d]) :
      Newer(d, i) =>
      /\ owed[d] \subseteq ring[d][i].scene
      /\ Upserted(d) => command[d].scene \subseteq ring[d][i].scene

\* No snapshot is from the future.
TimesPass(d) ==
  /\ \A i \in 1..Len(ring[d]) : ring[d][i].savedAt <= now
  /\ Upserted(d) => command[d].at <= now

\* An app that ended in order has left nothing that is not excused, and one
\* that runs has it in a tab or offers it.
NotOverlooked(d) ==
  Unsaved(d) # {} =>
    /\ app = "down" /\ ~lock => d \in excused
    /\ app \in {"deciding", "working"} => tab[d] # None \/ d \in remaining

DrawingInv(d) ==
  /\ TabHolds(d) /\ ScenesAgree(d) /\ OfferHolds(d)
  /\ OnDisk(d) /\ LatestHolds(d) /\ UncoveredHold(d) /\ TimesPass(d)
  /\ NotOverlooked(d)

IInv ==
  /\ Typed /\ SlotsDiffer
  /\ PhasesAgree
  /\ \A d \in Drawing : DrawingInv(d)

-----------------------------------------------------------------------------
(* The ring of a drawing.                                                  *)
LEMMA MinFacts ==
  ASSUME NEW S, S \subseteq Nat, S # {}
  PROVE  Min(S) \in S /\ \A x \in S : Min(S) <= x
<1> DEFINE R == {ss \in Nat \X Nat : ss[1] < ss[2]}
<1>1. IsWellFoundedOn(R, Nat)
  BY NatLessThanWellFounded DEF OpToRel
<1>2. \E x \in S : \A y \in S : <<y, x>> \notin R
  <2> HIDE DEF R
  <2> QED
    BY <1>1, WFMin
<1>3. \E x \in S : \A y \in S : ~ (y < x)
  BY <1>2
<1>4. \E x \in S : \A y \in S : x <= y
  BY <1>3
<1> QED
  BY <1>4 DEF Min

LEMMA RemoveFacts ==
  ASSUME NEW S, NEW s \in Seq(S), NEW i \in 1..Len(s)
  PROVE  /\ Len(s) \in Nat
         /\ RemoveAt(s, i) \in Seq(S) /\ Len(RemoveAt(s, i)) = Len(s) - 1
         /\ \A k \in 1..(Len(s) - 1) : RemoveAt(s, i)[k] = IF k < i THEN s[k] ELSE s[k + 1]
<1> DEFINE front == SubSeq(s, 1, i - 1)
           back == SubSeq(s, i + 1, Len(s))
<1>1. Len(s) \in Nat /\ \A k \in 1..Len(s) : s[k] \in S
  BY LenProperties, ElementOfSeq
<1>2. /\ front \in Seq(S) /\ Len(front) = IF 1 <= i - 1 THEN i - 1 - 1 + 1 ELSE 0
      /\ \A k \in 1..(i - 1 - 1 + 1) : front[k] = s[1 + k - 1]
  <2>1. 1 \in Int /\ i - 1 \in Int /\ \A k \in 1..(i - 1) : s[k] \in S
    BY <1>1
  <2> QED
    BY <2>1, SubSeqProperties
<1>3. /\ back \in Seq(S) /\ Len(back) = IF i + 1 <= Len(s) THEN Len(s) - (i + 1) + 1 ELSE 0
      /\ \A k \in 1..(Len(s) - (i + 1) + 1) : back[k] = s[i + 1 + k - 1]
  <2>1. i + 1 \in Int /\ Len(s) \in Int /\ \A k \in (i + 1)..Len(s) : s[k] \in S
    BY <1>1
  <2> QED
    BY <2>1, SubSeqProperties
<1> HIDE DEF front, back
<1>4. Len(front) = i - 1 /\ Len(back) = Len(s) - i
  BY <1>1, <1>2, <1>3
<1>5. /\ front \o back \in Seq(S) /\ Len(front \o back) = Len(front) + Len(back)
      /\ \A k \in 1..(Len(front) + Len(back)) : (front \o back)[k] =
           IF k <= Len(front) THEN front[k] ELSE back[k - Len(front)]
  BY <1>2, <1>3, ConcatProperties
<1>6. RemoveAt(s, i) = front \o back
  BY DEF RemoveAt, front, back
<1>7. \A k \in 1..(Len(s) - 1) : RemoveAt(s, i)[k] = IF k < i THEN s[k] ELSE s[k + 1]
  BY <1>1, <1>2, <1>3, <1>4, <1>5, <1>6
<1> QED
  BY <1>1, <1>4, <1>5, <1>6, <1>7

LEMMA SlotFacts ==
  ASSUME Typed, NEW d \in Drawing
  PROVE  NextSlot(d) \in 1..Slots
<1> DEFINE empty == (1..Slots) \ {ring[d][i].slot : i \in DOMAIN ring[d]}
<1>1. NextSlot(d) = IF empty # {} THEN Min(empty) ELSE (Latest(d).slot % Slots) + 1
  BY DEF NextSlot
<1>2. empty \subseteq 1..Slots /\ empty \subseteq Nat
  OBVIOUS
<1>3. Slots \in Nat /\ Slots # 0
  BY RecoveryAssumption
<1>4. CASE empty # {}
  <2> HIDE DEF empty
  <2> QED
    BY <1>1, <1>2, <1>4, MinFacts
<1>5. CASE empty = {}
  <2>1. ring[d] \in Seq(Snapshot) /\ Len(ring[d]) \in Nat /\ DOMAIN ring[d] = 1..Len(ring[d])
    BY LenProperties DEF Typed
  <2>2. Len(ring[d]) # 0
    <3>1. 1 \in 1..Slots
      BY <1>3
    <3> QED
      BY <1>5, <2>1, <3>1
  <2>3. Latest(d) \in Snapshot
    BY <2>1, <2>2, ElementOfSeq DEF Latest
  <2>4. Latest(d).slot \in Int
    BY <2>3 DEF Snapshot
  <2>5. (Latest(d).slot % Slots) + 1 \in 1..Slots
    BY <1>3, <2>4
  <2> QED
    BY <1>1, <1>5, <2>5
<1> QED
  BY <1>4, <1>5

LEMMA WriteFacts ==
  ASSUME Typed, SlotsDiffer, NEW d \in Drawing,
         NEW scene \in Scene, NEW base \in Scene, NEW at \in Time,
         WriteSnapshot(d, scene, base, at)
  PROVE  /\ ring' \in [Drawing -> Seq(Snapshot)] /\ SlotsDiffer'
         /\ \A e \in Drawing : e # d => ring'[e] = ring[e]
         /\ ring'[d] # <<>> /\ Latest(d)'.scene = scene /\ Latest(d)'.savedAt = at
         /\ \A i \in 1..Len(ring'[d]) :
              \/ ring'[d][i].scene = scene /\ ring'[d][i].savedAt = at
              \/ \E j \in 1..Len(ring[d]) : ring'[d][i] = ring[d][j]
<1> DEFINE slot == NextSlot(d)
           old == {i \in DOMAIN ring[d] : ring[d][i].slot = slot}
           rest == IF old = {} THEN ring[d] ELSE RemoveAt(ring[d], Min(old))
           new == [slot |-> slot, scene |-> scene, base |-> base, savedAt |-> at]
<1>1. ring' = [ring EXCEPT ![d] = Append(rest, new)]
  BY DEF WriteSnapshot
<1>2. new \in Snapshot /\ new.slot = slot /\ new.scene = scene /\ new.savedAt = at
  BY SlotFacts DEF Snapshot
<1>3. ring[d] \in Seq(Snapshot) /\ Len(ring[d]) \in Nat /\ DOMAIN ring[d] = 1..Len(ring[d])
  BY LenProperties DEF Typed
<1>4. \A i \in old : i \in 1..Len(ring[d]) /\ ring[d][i].slot = slot
  BY <1>3
<1>5. \A i \in 1..Len(ring[d]) : ring[d][i].slot = slot => i \in old
  BY <1>3
<1> HIDE DEF new, slot
<1>6. /\ rest \in Seq(Snapshot) /\ Len(rest) \in Nat
      /\ \A i \in 1..Len(rest) : \E j \in 1..Len(ring[d]) : rest[i] = ring[d][j] /\ ring[d][j].slot # slot
      /\ \A i, k \in 1..Len(rest) : rest[i].slot = rest[k].slot => i = k
  <2>1. CASE old = {}
    <3>1. rest = ring[d]
      BY <2>1
    <3>2. \A i \in 1..Len(ring[d]) : ring[d][i].slot # slot
      BY <1>5, <2>1
    <3> HIDE DEF rest, old
    <3> QED
      BY <1>3, <3>1, <3>2 DEF SlotsDiffer
  <2>2. CASE old # {}
    <3> DEFINE m == Min(old)
    <3>1. old \subseteq Nat
      BY <1>4
    <3>2. m \in old
      <4> HIDE DEF old
      <4> QED
        BY <2>2, <3>1, MinFacts
    <3>3. m \in 1..Len(ring[d]) /\ ring[d][m].slot = slot
      BY <1>4, <3>2
    <3>4. rest = RemoveAt(ring[d], m)
      BY <2>2
    <3> HIDE DEF rest, old, m
    <3>5. /\ rest \in Seq(Snapshot) /\ Len(rest) = Len(ring[d]) - 1
          /\ \A k \in 1..(Len(ring[d]) - 1) : rest[k] = IF k < m THEN ring[d][k] ELSE ring[d][k + 1]
      BY <1>3, <3>3, <3>4, RemoveFacts
    <3>6. \A i \in 1..Len(rest) : \E j \in 1..Len(ring[d]) :
            /\ rest[i] = ring[d][j] /\ j # m /\ j = IF i < m THEN i ELSE i + 1
      BY <1>3, <3>3, <3>5
    <3>7. \A i \in 1..Len(ring[d]) : ring[d][i].slot = slot => i = m
      BY <3>3 DEF SlotsDiffer
    <3>8. Len(rest) \in Nat
      BY <1>3, <3>3, <3>5
    <3>9. \A i \in 1..Len(rest) : \E j \in 1..Len(ring[d]) : rest[i] = ring[d][j] /\ ring[d][j].slot # slot
      BY <3>6, <3>7
    <3>10. \A i, k \in 1..Len(rest) : rest[i].slot = rest[k].slot => i = k
      <4> SUFFICES ASSUME NEW i \in 1..Len(rest), NEW k \in 1..Len(rest), rest[i].slot = rest[k].slot
                   PROVE  i = k
        OBVIOUS
      <4>1. PICK j \in 1..Len(ring[d]) : rest[i] = ring[d][j] /\ j = IF i < m THEN i ELSE i + 1
        BY <3>6
      <4>2. PICK l \in 1..Len(ring[d]) : rest[k] = ring[d][l] /\ l = IF k < m THEN k ELSE k + 1
        BY <3>6
      <4>3. j = l
        BY <4>1, <4>2 DEF SlotsDiffer
      <4>4. i \in Int /\ k \in Int /\ m \in Int
        BY <3>3, <3>8
      <4> QED
        BY <4>1, <4>2, <4>3, <4>4
    <3> QED
      BY <3>5, <3>8, <3>9, <3>10
  <2> QED
    BY <2>1, <2>2
<1> HIDE DEF rest, old
<1>7. /\ Append(rest, new) \in Seq(Snapshot) /\ Len(Append(rest, new)) = Len(rest) + 1
      /\ \A i \in 1..Len(rest) : Append(rest, new)[i] = rest[i]
      /\ Append(rest, new)[Len(rest) + 1] = new
  BY <1>2, <1>6, AppendProperties
<1>8. ring' \in [Drawing -> Seq(Snapshot)] /\ ring'[d] = Append(rest, new)
      /\ \A e \in Drawing : e # d => ring'[e] = ring[e]
  BY <1>1, <1>7 DEF Typed
<1>9. /\ Len(ring'[d]) = Len(rest) + 1 /\ ring'[d][Len(rest) + 1] = new
      /\ \A i \in 1..Len(rest) : ring'[d][i] = rest[i]
      /\ \A i \in 1..Len(ring'[d]) : i \in 1..Len(rest) \/ i = Len(rest) + 1
  BY <1>6, <1>7, <1>8
<1>10. SlotsDiffer'
  <2>1. \A i \in 1..Len(rest) : rest[i].slot # slot
    BY <1>6
  <2>2. \A i, k \in 1..Len(ring'[d]) : ring'[d][i].slot = ring'[d][k].slot => i = k
    BY <1>2, <1>6, <1>9, <2>1
  <2> QED
    BY <1>8, <2>2 DEF SlotsDiffer
<1>11. ring'[d] # <<>>
  <2>1. Len(ring'[d]) # 0
    BY <1>6, <1>9
  <2> QED
    BY <2>1
<1>12. Latest(d)' = new
  BY <1>9 DEF Latest
<1>13. \A i \in 1..Len(ring'[d]) :
         \/ ring'[d][i].scene = scene /\ ring'[d][i].savedAt = at
         \/ \E j \in 1..Len(ring[d]) : ring'[d][i] = ring[d][j]
  BY <1>2, <1>6, <1>9
<1> QED
  BY <1>2, <1>8, <1>10, <1>11, <1>12, <1>13

LEMMA SlotGone ==
  ASSUME Typed, SlotsDiffer, NEW d \in Drawing, RemoveSlot(d)
  PROVE  /\ ring' \in [Drawing -> Seq(Snapshot)] /\ SlotsDiffer'
         /\ \A e \in Drawing : e # d => ring'[e] = ring[e]
         /\ \A i \in 1..Len(ring'[d]) : \E j \in 1..Len(ring[d]) : ring'[d][i] = ring[d][j]
<1>1. PICK m \in DOMAIN ring[d] : ring' = [ring EXCEPT ![d] = RemoveAt(@, m)]
  BY DEF RemoveSlot
<1>2. ring[d] \in Seq(Snapshot) /\ Len(ring[d]) \in Nat /\ m \in 1..Len(ring[d])
  BY <1>1, LenProperties DEF Typed
<1>3. /\ RemoveAt(ring[d], m) \in Seq(Snapshot) /\ Len(RemoveAt(ring[d], m)) = Len(ring[d]) - 1
      /\ \A k \in 1..(Len(ring[d]) - 1) :
           RemoveAt(ring[d], m)[k] = IF k < m THEN ring[d][k] ELSE ring[d][k + 1]
  BY <1>2, RemoveFacts
<1>4. /\ ring' \in [Drawing -> Seq(Snapshot)] /\ ring'[d] = RemoveAt(ring[d], m)
      /\ \A e \in Drawing : e # d => ring'[e] = ring[e]
  BY <1>1, <1>3 DEF Typed
<1>5. \A i \in 1..Len(ring'[d]) : \E j \in 1..Len(ring[d]) :
        ring'[d][i] = ring[d][j] /\ j = IF i < m THEN i ELSE i + 1
  BY <1>2, <1>3, <1>4
<1>6. \A i, k \in 1..Len(ring'[d]) : ring'[d][i].slot = ring'[d][k].slot => i = k
  <2> SUFFICES ASSUME NEW i \in 1..Len(ring'[d]), NEW k \in 1..Len(ring'[d]),
                      ring'[d][i].slot = ring'[d][k].slot
               PROVE  i = k
    OBVIOUS
  <2>1. PICK j \in 1..Len(ring[d]) : ring'[d][i] = ring[d][j] /\ j = IF i < m THEN i ELSE i + 1
    BY <1>5
  <2>2. PICK l \in 1..Len(ring[d]) : ring'[d][k] = ring[d][l] /\ l = IF k < m THEN k ELSE k + 1
    BY <1>5
  <2>3. j = l
    BY <2>1, <2>2 DEF SlotsDiffer
  <2>4. i \in Int /\ k \in Int /\ m \in Int
    BY <1>2
  <2> QED
    BY <2>1, <2>2, <2>3, <2>4
<1>7. SlotsDiffer'
  BY <1>4, <1>6 DEF SlotsDiffer
<1> QED
  BY <1>4, <1>5, <1>7

-----------------------------------------------------------------------------
(* One drawing at a time.                                                  *)

\* What a step on another drawing leaves alone.
Untouched(d) ==
  /\ file'[d] = file[d] /\ ring'[d] = ring[d] /\ tab'[d] = tab[d] /\ command'[d] = command[d]
  /\ owed'[d] = owed[d] /\ draft'[d] = draft[d]
  /\ d \in excused' <=> d \in excused
  /\ d \in remaining' <=> d \in remaining
  /\ d \in dialog' <=> d \in dialog

LEMMA OthersKeep ==
  ASSUME NEW d \in Drawing, DrawingInv(d), Untouched(d), app' = app, lock' = lock, now' = now,
         \/ decision' = decision
         \/ ~Deciding(d) /\ ~Deciding(d)'
  PROVE  DrawingInv(d)'
<1>1. UNCHANGED <<Unsaved(d), Upserted(d), Closing(d), Latest(d), Dirty(d)>>
  BY DEF Untouched, Unsaved, SceneOf, Upserted, Closing, Running, Latest, Dirty
<1>2. (Deciding(d)' <=> Deciding(d)) /\ (Deciding(d) => decision' = decision)
  BY DEF Deciding
<1>3. TabHolds(d)'
  BY <1>1 DEF DrawingInv, TabHolds, Untouched
<1>4. ScenesAgree(d)'
  BY <1>1, <1>2 DEF DrawingInv, ScenesAgree, Untouched
<1>5. OfferHolds(d)'
  BY <1>1, <1>2 DEF DrawingInv, OfferHolds, Untouched
<1>6. InHand(d)' <=> InHand(d)
  BY <1>2 DEF InHand, Untouched
<1>7. OnDisk(d)'
  BY <1>1, <1>6 DEF DrawingInv, OnDisk, Untouched
<1>8. NotOverlooked(d)'
  BY <1>1 DEF DrawingInv, NotOverlooked, Untouched
<1>9. LatestHolds(d)'
  BY <1>1, <1>6 DEF DrawingInv, LatestHolds, Newer, Untouched
<1>10. UncoveredHold(d)' /\ TimesPass(d)'
  BY <1>1 DEF DrawingInv, UncoveredHold, TimesPass, Newer, Untouched
<1> QED
  BY <1>3, <1>4, <1>5, <1>7, <1>8, <1>9, <1>10 DEF DrawingInv

\* A window, a draft and a decision are what they look like.
LEMMA Kinds ==
  ASSUME Typed
  PROVE  /\ \A d \in Drawing : tab[d] # None => tab[d] \in Tab
         /\ \A d \in Drawing : file[d] # None => file[d] \in File
         /\ \A d \in Drawing : command[d] # None => command[d] \in Command
         /\ decision # None => decision \in Decision
         /\ \A x \in Tab \union File \union Command \union Decision \union Draft : x # None
         /\ \A d \in Drawing : /\ Len(ring[d]) \in Nat
                               /\ \A i \in 1..Len(ring[d]) : ring[d][i] \in Snapshot
                               /\ ring[d] # <<>> => Len(ring[d]) \in 1..Len(ring[d]) /\ Latest(d) \in Snapshot
<1>1. \A d \in Drawing : ring[d] \in Seq(Snapshot)
  BY DEF Typed
<1>2. \A d \in Drawing : Len(ring[d]) \in Nat /\ \A i \in 1..Len(ring[d]) : ring[d][i] \in Snapshot
  BY <1>1, LenProperties, ElementOfSeq
<1>3. \A d \in Drawing : ring[d] # <<>> => Len(ring[d]) # 0
  BY <1>1, EmptySeq
<1>4. \A d \in Drawing : ring[d] # <<>> => Len(ring[d]) \in 1..Len(ring[d]) /\ Latest(d) \in Snapshot
  BY <1>2, <1>3 DEF Latest
<1> QED
  BY <1>2, <1>4, NoneAssumption DEF Typed

LEMMA InitHolds == RecoveryInit => IInv
<1> SUFFICES ASSUME RecoveryInit PROVE IInv
  OBVIOUS
<1> USE DEF RecoveryInit
<1>1. \A d \in Drawing : Unsaved(d) = {}
  BY DEF Unsaved
<1>2. [scene |-> {}, mtime |-> 0] \in File
  BY RecoveryAssumption DEF File, Scene, Time
<1>3. <<>> \in Seq(Snapshot) /\ Len(<<>>) = 0
  BY EmptySeq
<1>4. Typed
  <2>1. /\ lock \in BOOLEAN /\ app \in {"down", "checking", "deciding", "working"}
        /\ remaining \subseteq dialog /\ dialog \subseteq Drawing /\ decision \in Decision \union {None}
        /\ excused \subseteq Drawing /\ settled \subseteq Drawing
    OBVIOUS
  <2>2. now \in Time /\ edits \in 0..MaxEdits /\ faults \in 0..MaxFaults
    BY RecoveryAssumption DEF Time
  <2>3. owed \in [Drawing -> Scene]
    BY DEF Scene
  <2> QED
    BY <1>2, <1>3, <2>1, <2>2, <2>3 DEF Typed
<1>5. SlotsDiffer /\ PhasesAgree
  BY <1>3 DEF SlotsDiffer, PhasesAgree
<1>6. \A d \in Drawing : DrawingInv(d)
  BY <1>1, <1>3 DEF DrawingInv, TabHolds, ScenesAgree, OfferHolds, OnDisk, LatestHolds, UncoveredHold,
    TimesPass, NotOverlooked, Upserted, Closing, Running, Deciding
<1> QED
  BY <1>4, <1>5, <1>6 DEF IInv

-----------------------------------------------------------------------------
\* A drawing is opened: there is nothing its file lacks.
LEMMA OpenKeeps ==
  ASSUME IInv, NEW d \in Drawing, Open(d)
  PROVE  IInv'
<1> DEFINE opened == [scene |-> file[d].scene, state |-> "clean", restored |-> FALSE]
<1>1. /\ app = "working" /\ tab[d] = None /\ file[d] # None
      /\ tab' = [tab EXCEPT ![d] = opened]
      /\ UNCHANGED <<file, draft, ring, lock, app, command, owed, excused, settled>>
      /\ UNCHANGED <<dialog, remaining, decision, now, edits, faults>>
  BY DEF Open, Quiet, disk, counters, history
<1>2. opened \in Tab /\ opened # None /\ opened.scene = file[d].scene /\ opened.restored = FALSE
  <2>1. file[d] \in File
    BY <1>1, Kinds DEF IInv
  <2>2. opened \in Tab
    BY <2>1 DEF File, Tab
  <2> QED
    BY <2>2, Kinds DEF IInv
<1> HIDE DEF opened
<1>3. tab'[d] = opened /\ tab' \in [Drawing -> Tab \union {None}] /\ \A e \in Drawing \ {d} : tab'[e] = tab[e]
  BY <1>1, <1>2 DEF IInv, Typed
<1>4. Typed'
  BY <1>1, <1>3 DEF IInv, Typed
<1>5. SlotsDiffer' /\ PhasesAgree'
  BY <1>1 DEF IInv, SlotsDiffer, PhasesAgree
<1>6. \A e \in Drawing \ {d} : DrawingInv(e)'
  BY <1>1, <1>3, OthersKeep DEF IInv, Untouched
<1>7. Unsaved(d) = {} /\ UNCHANGED Unsaved(d)
  BY <1>1 DEF IInv, DrawingInv, NotOverlooked, PhasesAgree, Unsaved
<1>8. command[d] = None /\ decision = None
  BY <1>1 DEF IInv, DrawingInv, TabHolds, PhasesAgree
<1>9. TabHolds(d)'
  BY <1>1, <1>2, <1>3, <1>7, <1>8 DEF TabHolds, Upserted, Closing, Running, Unsaved, SceneOf
<1>10. ScenesAgree(d)' /\ OfferHolds(d)' /\ OnDisk(d)' /\ NotOverlooked(d)'
  BY <1>1, <1>7, <1>8 DEF ScenesAgree, OfferHolds, OnDisk, NotOverlooked, Deciding
<1>11. LatestHolds(d)'
  BY <1>1, <1>8 DEF IInv, DrawingInv, LatestHolds, InHand, Deciding, Newer, Latest
<1>12. UncoveredHold(d)' /\ TimesPass(d)'
  BY <1>1, <1>8 DEF IInv, DrawingInv, UncoveredHold, TimesPass, Newer, Dirty, Upserted, Running
<1> QED
  BY <1>4, <1>5, <1>6, <1>9, <1>10, <1>11, <1>12 DEF IInv, DrawingInv

LEMMA EditKeeps ==
  ASSUME IInv, NEW d \in Drawing, Edit(d)
  PROVE  IInv'
<1> DEFINE edited == [tab[d] EXCEPT !.scene = tab[d].scene \union {edits'}, !.state = "dirty"]
<1>1. /\ app = "working" /\ tab[d] # None /\ ~Closing(d) /\ edits < MaxEdits /\ edits' = edits + 1
      /\ tab' = [tab EXCEPT ![d].scene = tab[d].scene \union {edits'}, ![d].state = "dirty"]
      /\ UNCHANGED <<file, draft, ring, lock, app, command, owed, excused, settled>>
      /\ UNCHANGED <<dialog, remaining, decision, now, faults>>
  BY DEF Edit, disk, recovery, history
<1>2. tab[d] \in Tab
  BY <1>1, Kinds DEF IInv
<1>3. edits' \in 0..MaxEdits /\ edits' \in Edits
  BY <1>1, RecoveryAssumption DEF IInv, Typed, Edits
<1>4. /\ edited \in Tab /\ tab[d].scene \subseteq edited.scene /\ edited.state = "dirty"
      /\ edited.restored = tab[d].restored
  BY <1>2, <1>3 DEF Tab, Scene
<1>5. tab'[d] = edited /\ tab' = [tab EXCEPT ![d] = edited]
  BY <1>1, <1>2 DEF IInv, Typed, Tab
<1> HIDE DEF edited
<1>6. edited # None
  BY <1>4, Kinds DEF IInv
<1>7. tab' \in [Drawing -> Tab \union {None}] /\ \A e \in Drawing \ {d} : tab'[e] = tab[e]
  BY <1>4, <1>5 DEF IInv, Typed
<1>8. Typed'
  BY <1>1, <1>3, <1>7 DEF IInv, Typed
<1>9. SlotsDiffer' /\ PhasesAgree'
  BY <1>1 DEF IInv, SlotsDiffer, PhasesAgree
<1>10. \A e \in Drawing \ {d} : DrawingInv(e)'
  BY <1>1, <1>7, OthersKeep DEF IInv, Untouched
<1>11. UNCHANGED <<Unsaved(d), Upserted(d), Closing(d), Latest(d), Dirty(d)>> /\ decision = None
  BY <1>1 DEF Unsaved, Upserted, Closing, Running, Latest, Dirty, IInv, PhasesAgree
<1>12. TabHolds(d)'
  BY <1>1, <1>4, <1>5, <1>6, <1>11 DEF IInv, DrawingInv, TabHolds
<1>13. OnDisk(d)' /\ NotOverlooked(d)' /\ LatestHolds(d)'
  BY <1>1, <1>4, <1>5, <1>6, <1>11 DEF IInv, DrawingInv, OnDisk, NotOverlooked, LatestHolds, InHand, Deciding,
    Newer
<1>14. ScenesAgree(d)' /\ OfferHolds(d)'
  BY <1>1, <1>11 DEF ScenesAgree, OfferHolds, Deciding
<1>15. UncoveredHold(d)' /\ TimesPass(d)'
  BY <1>1, <1>11 DEF IInv, DrawingInv, UncoveredHold, TimesPass, Newer
<1> QED
  BY <1>8, <1>9, <1>10, <1>12, <1>13, <1>14, <1>15 DEF IInv, DrawingInv

LEMMA UpsertDraftKeeps ==
  ASSUME IInv, NEW d \in Drawing, UpsertDraft(d)
  PROVE  IInv'
<1> DEFINE base == IF draft[d] = None THEN file[d].scene ELSE draft[d].base
           saving == [step |-> "upserted", scene |-> tab[d].scene, base |-> base, at |-> now]
           row == [base |-> base, dirty |-> TRUE]
<1>1. /\ tab[d] # None /\ tab[d].state = "dirty" /\ command[d] = None /\ file[d] # None
      /\ draft' = [draft EXCEPT ![d] = row] /\ command' = [command EXCEPT ![d] = saving]
      /\ UNCHANGED <<file, ring, lock, app, tab, owed, excused, settled>>
      /\ UNCHANGED <<dialog, remaining, decision, now, edits, faults>>
  BY DEF UpsertDraft, Quiet, counters, history
<1>2. base \in Scene
  <2>1. file[d] \in File /\ (draft[d] # None => draft[d] \in Draft)
    BY <1>1, Kinds DEF IInv, Typed
  <2> QED
    BY <2>1 DEF File, Draft
<1> HIDE DEF base
<1>3. saving \in Command /\ row \in Draft /\ saving # None /\ row # None
  <2>1. tab[d] \in Tab
    BY <1>1, Kinds DEF IInv
  <2>2. saving \in Command /\ row \in Draft
    BY <1>2, <2>1 DEF Tab, Command, Draft, IInv, Typed
  <2> QED
    BY <2>2, Kinds DEF IInv
<1>4. saving.step = "upserted" /\ saving.scene = tab[d].scene /\ saving.at = now /\ row.dirty = TRUE
  OBVIOUS
<1> HIDE DEF saving, row
<1>5. /\ command' \in [Drawing -> Command \union {None}] /\ draft' \in [Drawing -> Draft \union {None}]
      /\ command'[d] = saving /\ draft'[d] = row
      /\ \A e \in Drawing \ {d} : command'[e] = command[e] /\ draft'[e] = draft[e]
  BY <1>1, <1>3 DEF IInv, Typed
<1>6. Typed'
  BY <1>1, <1>5 DEF IInv, Typed
<1>7. SlotsDiffer' /\ PhasesAgree'
  BY <1>1 DEF IInv, SlotsDiffer, PhasesAgree
<1>8. \A e \in Drawing \ {d} : DrawingInv(e)'
  BY <1>1, <1>5, OthersKeep DEF IInv, Untouched
<1>9. UNCHANGED <<Unsaved(d), Latest(d), InHand(d), Deciding(d)>>
  BY <1>1 DEF Unsaved, Latest, InHand, Deciding
<1>10. ~Closing(d)' /\ Dirty(d)'
  BY <1>3, <1>4, <1>5 DEF Closing, Running, Dirty
<1>11. TabHolds(d)'
  BY <1>1, <1>4, <1>5, <1>9, <1>10 DEF IInv, DrawingInv, TabHolds
<1>12. ScenesAgree(d)' /\ OfferHolds(d)'
  BY <1>1, <1>4, <1>5, <1>9 DEF IInv, DrawingInv, ScenesAgree, OfferHolds
<1>13. OnDisk(d)' /\ NotOverlooked(d)' /\ LatestHolds(d)'
  BY <1>1, <1>9 DEF IInv, DrawingInv, OnDisk, NotOverlooked, LatestHolds, Newer
<1>14. UncoveredHold(d)'
  BY <1>10 DEF UncoveredHold
<1>15. TimesPass(d)'
  <2>1. now <= now
    BY RecoveryAssumption DEF IInv, Typed, Time
  <2> QED
    BY <1>1, <1>4, <1>5, <2>1 DEF IInv, DrawingInv, TimesPass
<1> QED
  BY <1>6, <1>7, <1>8, <1>11, <1>12, <1>13, <1>14, <1>15 DEF IInv, DrawingInv

\* The snapshot is written: the newest one has every edit answered for.
LEMMA SaveSnapshotKeeps ==
  ASSUME IInv, NEW d \in Drawing, SaveSnapshot(d)
  PROVE  IInv'
<1> DEFINE scene == command[d].scene
           after == [tab[d] EXCEPT !.restored = FALSE,
                     !.state = IF tab[d].scene = command[d].scene THEN "draftSaved" ELSE tab[d].state]
<1>1. /\ Upserted(d) /\ WriteSnapshot(d, command[d].scene, command[d].base, command[d].at)
      /\ command' = [command EXCEPT ![d] = None]
      /\ tab' = [tab EXCEPT ![d].restored = FALSE,
                 ![d].state = IF tab[d].scene = command[d].scene THEN "draftSaved" ELSE tab[d].state]
      /\ owed' = [owed EXCEPT ![d] = owed[d] \union scene]
      /\ excused' = IF file[d] # None /\ command[d].at <= file[d].mtime
                    THEN excused \union {d} ELSE excused \ {d}
      /\ settled' = settled \ {d}
      /\ UNCHANGED <<file, draft, lock, app, dialog, remaining, decision, now, edits, faults>>
  BY DEF SaveSnapshot, Quiet, counters
<1>2. command[d] # None /\ command[d] \in Command /\ tab[d] # None /\ tab[d] \in Tab
      /\ file[d] # None /\ file[d] \in File
  BY <1>1, Kinds DEF IInv, DrawingInv, TabHolds, Upserted, Running
<1>3. scene \in Scene /\ command[d].base \in Scene /\ command[d].at \in Time
  BY <1>2 DEF Command
<1>4. /\ ring' \in [Drawing -> Seq(Snapshot)] /\ SlotsDiffer'
      /\ \A e \in Drawing : e # d => ring'[e] = ring[e]
      /\ ring'[d] # <<>> /\ Latest(d)'.scene = scene /\ Latest(d)'.savedAt = command[d].at
      /\ \A i \in 1..Len(ring'[d]) :
           \/ ring'[d][i].scene = scene /\ ring'[d][i].savedAt = command[d].at
           \/ \E j \in 1..Len(ring[d]) : ring'[d][i] = ring[d][j]
  BY <1>1, <1>3, WriteFacts DEF IInv
<1>5. /\ after \in Tab /\ after.scene = tab[d].scene /\ after.restored = FALSE
      /\ after.state = "clean" => tab[d].state = "clean"
      /\ tab' = [tab EXCEPT ![d] = after]
  BY <1>1, <1>2 DEF Tab
<1>6. after # None
  BY <1>5, Kinds DEF IInv
<1> HIDE DEF after
<1>7. /\ tab' \in [Drawing -> Tab \union {None}] /\ tab'[d] = after /\ \A e \in Drawing \ {d} : tab'[e] = tab[e]
      /\ command' \in [Drawing -> Command \union {None}] /\ command'[d] = None
      /\ \A e \in Drawing \ {d} : command'[e] = command[e]
  <2>1. tab' \in [Drawing -> Tab \union {None}] /\ tab'[d] = after /\ \A e \in Drawing \ {d} : tab'[e] = tab[e]
    <3>1. tab \in [Drawing -> Tab \union {None}]
      BY DEF IInv, Typed
    <3>2. tab' = [tab EXCEPT ![d] = after] /\ after \in Tab
      BY <1>1, <1>5
    <3> QED
      BY <3>1, <3>2
  <2>2. /\ command' \in [Drawing -> Command \union {None}] /\ command'[d] = None
        /\ \A e \in Drawing \ {d} : command'[e] = command[e]
    BY <1>1 DEF IInv, Typed
  <2> QED
    BY <2>1, <2>2
<1>8. /\ owed[d] \subseteq scene /\ scene \subseteq tab[d].scene
      /\ app = "deciding" => scene = tab[d].scene
      /\ command[d].at <= now
      /\ ~Dirty(d) => \A i \in 1..Len(ring[d]) : Newer(d, i) => scene \subseteq ring[d][i].scene
  BY <1>1, <1>2 DEF IInv, DrawingInv, TabHolds, ScenesAgree, UncoveredHold, TimesPass
<1> HIDE DEF scene
<1>9. /\ owed' \in [Drawing -> Scene] /\ owed'[d] = scene
      /\ \A e \in Drawing \ {d} : owed'[e] = owed[e]
  BY <1>1, <1>3, <1>8 DEF IInv, Typed, Scene
<1>10. Typed'
  BY <1>1, <1>4, <1>7, <1>9 DEF IInv, Typed
<1>11. PhasesAgree'
  BY <1>1, <1>2, <1>7 DEF IInv, PhasesAgree
<1>12. \A e \in Drawing \ {d} : DrawingInv(e)'
  BY <1>1, <1>4, <1>7, <1>9, OthersKeep DEF IInv, Untouched
<1>13. UNCHANGED <<Deciding(d), Dirty(d)>> /\ ~Upserted(d)' /\ ~Closing(d)'
  BY <1>1, <1>7 DEF Deciding, Dirty, Upserted, Closing, Running
<1>14. TabHolds(d)'
  BY <1>1, <1>2, <1>5, <1>7, <1>8, <1>9, <1>13 DEF IInv, DrawingInv, TabHolds
<1>15. ScenesAgree(d)'
  <2>1. app = "deciding" => \A i \in 1..Len(ring'[d]) : ring'[d][i].scene = tab[d].scene
    <3>1. app = "deciding" => \A j \in 1..Len(ring[d]) : ring[d][j].scene = tab[d].scene
      BY <1>2 DEF IInv, DrawingInv, ScenesAgree
    <3> QED
      BY <1>4, <1>8, <3>1
  <2>2. app = "deciding" /\ Deciding(d) => decision.scene = tab[d].scene
    BY <1>2 DEF IInv, DrawingInv, ScenesAgree
  <2> QED
    BY <1>1, <1>5, <1>7, <1>13, <2>1, <2>2 DEF ScenesAgree
<1>16. OfferHolds(d)'
  <2>1. Deciding(d) => app = "deciding"
    BY DEF IInv, PhasesAgree, Deciding
  <2> QED
    BY <1>1, <1>2, <1>6, <1>7, <1>8, <1>9, <1>13, <2>1 DEF IInv, DrawingInv, ScenesAgree, OfferHolds
<1>17. OnDisk(d)' /\ LatestHolds(d)'
  <2>1. file[d].mtime \in Int /\ command[d].at \in Int
    BY <1>2, <1>3, RecoveryAssumption DEF File, Time
  <2>2. Unsaved(d)' \subseteq scene
    BY <1>9 DEF Unsaved
  <2>3. OnDisk(d)'
    BY <1>1, <1>2, <1>4, <2>1, <2>2 DEF OnDisk
  <2> QED
    BY <1>4, <1>9, <2>3 DEF LatestHolds
<1>18. UncoveredHold(d)' /\ TimesPass(d)'
  <2>1. UncoveredHold(d)'
    BY <1>1, <1>4, <1>8, <1>9, <1>13 DEF UncoveredHold, Newer
  <2> QED
    BY <1>1, <1>4, <1>8, <1>13, <2>1 DEF IInv, DrawingInv, TimesPass
<1>19. NotOverlooked(d)'
  BY <1>1, <1>2, <1>6, <1>7 DEF IInv, NotOverlooked, PhasesAgree
<1> QED
  BY <1>4, <1>10, <1>11, <1>12, <1>14, <1>15, <1>16, <1>17, <1>18, <1>19 DEF IInv, DrawingInv

\* A draft or a close fails.
LEMMA CommandFailsKeeps ==
  ASSUME IInv, NEW d \in Drawing, SnapshotFails(d) \/ CloseFails(d)
  PROVE  IInv'
<1>1. /\ command' = [command EXCEPT ![d] = None]
      /\ UNCHANGED <<file, draft, ring, lock, app, tab, owed, excused, settled>>
      /\ UNCHANGED <<dialog, remaining, decision, now, edits, faults>>
  BY DEF SnapshotFails, CloseFails, Quiet, disk, counters, history
<1>2. /\ command' \in [Drawing -> Command \union {None}]
      /\ command'[d] = None /\ \A e \in Drawing \ {d} : command'[e] = command[e]
  BY <1>1 DEF IInv, Typed
<1>3. Typed'
  BY <1>1, <1>2 DEF IInv, Typed
<1>4. SlotsDiffer' /\ PhasesAgree'
  BY <1>1 DEF IInv, SlotsDiffer, PhasesAgree
<1>5. \A e \in Drawing \ {d} : DrawingInv(e)'
  BY <1>1, <1>2, OthersKeep DEF IInv, Untouched
<1>6. UNCHANGED <<Unsaved(d), Latest(d), InHand(d), Deciding(d), Dirty(d)>> /\ ~Upserted(d)' /\ ~Closing(d)'
  BY <1>1, <1>2 DEF Unsaved, Latest, InHand, Deciding, Upserted, Closing, Running, Dirty
<1>7. TabHolds(d)' /\ ScenesAgree(d)' /\ OfferHolds(d)'
  BY <1>1, <1>2, <1>6 DEF IInv, DrawingInv, TabHolds, ScenesAgree, OfferHolds
<1>8. OnDisk(d)' /\ NotOverlooked(d)' /\ LatestHolds(d)' /\ UncoveredHold(d)' /\ TimesPass(d)'
  BY <1>1, <1>6 DEF IInv, DrawingInv, OnDisk, NotOverlooked, LatestHolds, UncoveredHold, TimesPass, Newer
<1> QED
  BY <1>3, <1>4, <1>5, <1>7, <1>8 DEF IInv, DrawingInv

LEMMA CheckpointKeeps ==
  ASSUME IInv, NEW d \in Drawing, Checkpoint(d)
  PROVE  IInv'
<1> DEFINE saved == [scene |-> tab[d].scene, mtime |-> now]
           row == [base |-> tab[d].scene, dirty |-> FALSE]
           after == [tab[d] EXCEPT !.state = "clean", !.restored = FALSE]
<1>1. /\ tab[d] # None /\ command[d] = None /\ file[d] # None
      /\ file' = [file EXCEPT ![d] = saved] /\ draft' = [draft EXCEPT ![d] = row]
      /\ tab' = [tab EXCEPT ![d].state = "clean", ![d].restored = FALSE]
      /\ owed' = [owed EXCEPT ![d] = owed[d] \union tab[d].scene]
      /\ UNCHANGED <<ring, lock, app, command, excused, settled, dialog, remaining, decision, now, edits, faults>>
  BY DEF Checkpoint, Quiet, counters
<1>2. tab[d] \in Tab /\ tab[d].scene \in Scene /\ owed[d] \subseteq tab[d].scene
  BY <1>1, Kinds DEF IInv, DrawingInv, TabHolds, Tab
<1>3. saved \in File /\ row \in Draft /\ saved # None /\ saved.scene = tab[d].scene /\ saved.mtime = now
  <2>1. saved \in File /\ row \in Draft
    BY <1>2 DEF File, Draft, IInv, Typed
  <2> QED
    BY <2>1, Kinds DEF IInv
<1>4. /\ after \in Tab /\ after.scene = tab[d].scene /\ after.restored = FALSE /\ after # None
      /\ tab' = [tab EXCEPT ![d] = after]
  <2>1. after \in Tab /\ after.scene = tab[d].scene /\ after.restored = FALSE
    BY <1>2 DEF Tab
  <2>2. tab' = [tab EXCEPT ![d] = after]
    BY <1>1, <1>2 DEF Tab
  <2> QED
    BY <2>1, <2>2, Kinds DEF IInv
<1> HIDE DEF saved, row, after
<1>5. tab' \in [Drawing -> Tab \union {None}] /\ tab'[d] = after /\ \A e \in Drawing \ {d} : tab'[e] = tab[e]
  BY <1>4 DEF IInv, Typed
<1>6. /\ file' \in [Drawing -> File \union {None}] /\ file'[d] = saved
      /\ \A e \in Drawing \ {d} : file'[e] = file[e]
  BY <1>1, <1>3 DEF IInv, Typed
<1>7. draft' \in [Drawing -> Draft \union {None}] /\ \A e \in Drawing \ {d} : draft'[e] = draft[e]
  BY <1>1, <1>3 DEF IInv, Typed
<1>8. /\ owed' \in [Drawing -> Scene] /\ owed'[d] = tab[d].scene
      /\ \A e \in Drawing \ {d} : owed'[e] = owed[e]
  BY <1>1, <1>2 DEF IInv, Typed, Scene
<1>9. Typed'
  BY <1>1, <1>5, <1>6, <1>7, <1>8 DEF IInv, Typed
<1>10. SlotsDiffer'
  BY <1>1 DEF IInv, SlotsDiffer
<1>11. PhasesAgree'
  BY <1>1, <1>5 DEF IInv, PhasesAgree
<1>12. \A e \in Drawing \ {d} : DrawingInv(e)'
  BY <1>1, <1>5, <1>6, <1>7, <1>8, OthersKeep DEF IInv, Untouched
<1>13. Unsaved(d)' = {} /\ ~Upserted(d)' /\ ~Closing(d)'
  BY <1>1, <1>3, <1>6, <1>8 DEF Unsaved, SceneOf, Upserted, Closing, Running
<1>14. TabHolds(d)'
  <2>1. ~Dirty(d)'
    BY <1>1 DEF IInv, Typed, Dirty, row
  <2> QED
    BY <1>1, <1>3, <1>4, <1>5, <1>6, <1>8, <1>13, <2>1 DEF TabHolds
<1>15. ScenesAgree(d)'
  BY <1>1, <1>4, <1>5, <1>13 DEF IInv, DrawingInv, ScenesAgree, Deciding
<1>16. OfferHolds(d)'
  <2>1. Deciding(d) => app = "deciding" /\ decision.scene = tab[d].scene
    BY <1>1 DEF IInv, DrawingInv, PhasesAgree, ScenesAgree, Deciding
  <2>2. Deciding(d) /\ decision.step = "adopted" => d \notin remaining
    BY DEF IInv, DrawingInv, OfferHolds
  <2> QED
    BY <1>1, <1>4, <1>5, <1>8, <2>1, <2>2 DEF OfferHolds, Deciding
<1>17. \A i \in 1..Len(ring[d]) : ~Newer(d, i)'
  <2>1. \A i \in 1..Len(ring[d]) : ring[d][i].savedAt \in Int /\ ring[d][i].savedAt <= now
    BY Kinds, RecoveryAssumption DEF IInv, DrawingInv, TimesPass, Snapshot, Time
  <2>2. now \in Int
    BY DEF IInv, Typed, Time
  <2> QED
    BY <1>1, <1>3, <1>6, <2>1, <2>2 DEF Newer
<1>18. LatestHolds(d)'
  <2>1. ring[d] # <<>> => Len(ring[d]) \in 1..Len(ring[d])
    BY Kinds DEF IInv
  <2>2. app = "deciding" /\ ring[d] # <<>> => Latest(d).scene = tab[d].scene
    BY <1>1, <2>1 DEF IInv, DrawingInv, ScenesAgree, Latest
  <2>3. UNCHANGED Latest(d)
    BY <1>1 DEF Latest
  <2> QED
    BY <1>1, <1>8, <1>17, <2>1, <2>2, <2>3 DEF LatestHolds
<1>19. UncoveredHold(d)' /\ TimesPass(d)'
  BY <1>1, <1>13, <1>17 DEF IInv, DrawingInv, UncoveredHold, TimesPass
<1>20. OnDisk(d)' /\ NotOverlooked(d)'
  BY <1>13 DEF OnDisk, NotOverlooked
<1> QED
  BY <1>9, <1>10, <1>11, <1>12, <1>14, <1>15, <1>16, <1>18, <1>19, <1>20 DEF IInv, DrawingInv

LEMMA BeginCloseKeeps ==
  ASSUME IInv, NEW d \in Drawing, BeginClose(d)
  PROVE  IInv'
<1> DEFINE closing == [step |-> "closing", scene |-> {}, base |-> {}, at |-> now]
<1>1. /\ app = "working" /\ tab[d] # None /\ tab[d].state = "clean" /\ command[d] = None /\ file[d] # None
      /\ ~Dirty(d) /\ command' = [command EXCEPT ![d] = closing]
      /\ UNCHANGED <<file, draft, ring, lock, app, tab, owed, excused, settled>>
      /\ UNCHANGED <<dialog, remaining, decision, now, edits, faults>>
  BY DEF BeginClose, Quiet, disk, counters, history, Dirty
<1>2. closing \in Command /\ closing.step = "closing" /\ closing # None
  <2>1. closing \in Command
    BY DEF Command, Scene, IInv, Typed
  <2> QED
    BY <2>1, Kinds DEF IInv
<1> HIDE DEF closing
<1>3. /\ command' \in [Drawing -> Command \union {None}]
      /\ command'[d] = closing /\ \A e \in Drawing \ {d} : command'[e] = command[e]
  BY <1>1, <1>2 DEF IInv, Typed
<1>4. Typed'
  BY <1>1, <1>3 DEF IInv, Typed
<1>5. SlotsDiffer' /\ PhasesAgree'
  BY <1>1 DEF IInv, SlotsDiffer, PhasesAgree
<1>6. \A e \in Drawing \ {d} : DrawingInv(e)'
  BY <1>1, <1>3, OthersKeep DEF IInv, Untouched
<1>7. UNCHANGED <<Unsaved(d), Latest(d), InHand(d), Deciding(d), Dirty(d)>> /\ ~Upserted(d)'
  BY <1>1, <1>2, <1>3 DEF Unsaved, Latest, InHand, Deciding, Upserted, Running, Dirty
<1>8. TabHolds(d)'
  BY <1>1, <1>7 DEF IInv, DrawingInv, TabHolds
<1>9. ScenesAgree(d)' /\ OfferHolds(d)' /\ OnDisk(d)' /\ NotOverlooked(d)'
  BY <1>1, <1>7 DEF IInv, DrawingInv, ScenesAgree, OfferHolds, OnDisk, NotOverlooked
<1>10. LatestHolds(d)' /\ UncoveredHold(d)' /\ TimesPass(d)'
  BY <1>1, <1>7 DEF IInv, DrawingInv, LatestHolds, UncoveredHold, TimesPass, Newer
<1> QED
  BY <1>4, <1>5, <1>6, <1>8, <1>9, <1>10 DEF IInv, DrawingInv

\* A close removes the snapshots of a drawing whose file lacks nothing.
LEMMA ClosingIsSaved ==
  ASSUME IInv, NEW d \in Drawing, Closing(d)
  PROVE  /\ app = "working" /\ decision = None /\ Unsaved(d) = {}
         /\ tab[d] # None /\ tab[d].state = "clean" /\ ~Upserted(d) /\ ~Dirty(d)
<1>1. app = "working" /\ decision = None /\ tab[d] # None /\ tab[d].state = "clean" /\ ~Upserted(d) /\ ~Dirty(d)
  BY DEF IInv, DrawingInv, TabHolds, PhasesAgree, Closing, Upserted, Running
<1>2. Unsaved(d) = {}
  BY <1>1 DEF IInv, DrawingInv, TabHolds, Unsaved, SceneOf
<1> QED
  BY <1>1, <1>2

LEMMA RemoveClosedKeeps ==
  ASSUME IInv, NEW d \in Drawing, RemoveClosed(d)
  PROVE  IInv'
<1>1. /\ Closing(d) /\ RemoveSlot(d)
      /\ UNCHANGED <<file, draft, lock, app, tab, command, owed, excused, settled>>
      /\ UNCHANGED <<dialog, remaining, decision, now, edits, faults>>
  BY DEF RemoveClosed, Quiet, counters, history
<1>2. /\ ring' \in [Drawing -> Seq(Snapshot)] /\ SlotsDiffer'
      /\ \A e \in Drawing : e # d => ring'[e] = ring[e]
      /\ \A i \in 1..Len(ring'[d]) : \E j \in 1..Len(ring[d]) : ring'[d][i] = ring[d][j]
  BY <1>1, SlotGone DEF IInv
<1>3. Typed'
  BY <1>1, <1>2 DEF IInv, Typed
<1>4. PhasesAgree'
  BY <1>1 DEF IInv, PhasesAgree
<1>5. \A e \in Drawing \ {d} : DrawingInv(e)'
  BY <1>1, <1>2, OthersKeep DEF IInv, Untouched
<1>6. Unsaved(d)' = {} /\ app = "working" /\ decision = None /\ ~Dirty(d)
  BY <1>1, ClosingIsSaved DEF Unsaved, SceneOf
<1>7. UNCHANGED <<Dirty(d), Upserted(d), Closing(d)>>
  BY <1>1 DEF Dirty, Upserted, Closing, Running
<1>8. TabHolds(d)'
  BY <1>1, <1>7 DEF IInv, DrawingInv, TabHolds
<1>9. ScenesAgree(d)' /\ OfferHolds(d)' /\ OnDisk(d)' /\ NotOverlooked(d)'
  BY <1>1, <1>6 DEF ScenesAgree, OfferHolds, OnDisk, NotOverlooked, Deciding
<1>10. UncoveredHold(d)' /\ TimesPass(d)'
  BY <1>1, <1>2, <1>7 DEF IInv, DrawingInv, UncoveredHold, TimesPass, Newer
<1>11. LatestHolds(d)'
  <2>1. ring'[d] # <<>> => Len(ring'[d]) \in 1..Len(ring'[d])
    <3>1. ring'[d] \in Seq(Snapshot)
      BY <1>2
    <3>2. Len(ring'[d]) \in Nat /\ (ring'[d] # <<>> => Len(ring'[d]) # 0)
      BY <3>1, LenProperties, EmptySeq
    <3> QED
      BY <3>2
  <2> QED
    BY <1>1, <1>6, <1>7, <1>10, <2>1 DEF LatestHolds, UncoveredHold, Latest
<1> QED
  BY <1>2, <1>3, <1>4, <1>5, <1>8, <1>9, <1>10, <1>11 DEF IInv, DrawingInv

LEMMA EndCloseKeeps ==
  ASSUME IInv, NEW d \in Drawing, EndClose(d)
  PROVE  IInv'
<1>1. /\ Closing(d) /\ ring[d] = <<>> /\ draft' = [draft EXCEPT ![d] = None]
      /\ command' = [command EXCEPT ![d] = None] /\ tab' = [tab EXCEPT ![d] = None]
      /\ UNCHANGED <<file, ring, lock, app, owed, excused, settled>>
      /\ UNCHANGED <<dialog, remaining, decision, now, edits, faults>>
  BY DEF EndClose, Quiet, counters, history
<1>2. /\ command' \in [Drawing -> Command \union {None}] /\ tab' \in [Drawing -> Tab \union {None}]
      /\ draft' \in [Drawing -> Draft \union {None}] /\ command'[d] = None /\ tab'[d] = None
      /\ \A e \in Drawing \ {d} : command'[e] = command[e] /\ tab'[e] = tab[e] /\ draft'[e] = draft[e]
  BY <1>1 DEF IInv, Typed
<1>3. Typed'
  BY <1>1, <1>2 DEF IInv, Typed
<1>4. app = "working" /\ decision = None /\ Unsaved(d)' = {}
  BY <1>1, ClosingIsSaved DEF Unsaved, SceneOf
<1>5. SlotsDiffer' /\ PhasesAgree'
  BY <1>1, <1>4 DEF IInv, SlotsDiffer, PhasesAgree
<1>6. \A e \in Drawing \ {d} : DrawingInv(e)'
  BY <1>1, <1>2, OthersKeep DEF IInv, Untouched
<1>7. TabHolds(d)' /\ ScenesAgree(d)' /\ OfferHolds(d)' /\ OnDisk(d)' /\ NotOverlooked(d)'
  BY <1>1, <1>2, <1>4 DEF TabHolds, ScenesAgree, OfferHolds, OnDisk, NotOverlooked, Upserted,
    Closing, Running, Deciding
<1>8. LatestHolds(d)' /\ UncoveredHold(d)' /\ TimesPass(d)'
  <2>1. 1..Len(ring'[d]) = {} /\ ~Upserted(d)'
    BY <1>1, <1>2, EmptySeq DEF Upserted, Running
  <2> QED
    BY <1>1, <2>1 DEF LatestHolds, UncoveredHold, TimesPass
<1> QED
  BY <1>3, <1>5, <1>6, <1>7, <1>8 DEF IInv, DrawingInv

\* Another program writes a drawing no window shows: what it had is no more owed.
LEMMA ForeignWriteKeeps ==
  ASSUME IInv, NEW d \in Drawing, ForeignWrite(d)
  PROVE  IInv'
<1>1. /\ app \in {"down", "working"} /\ tab[d] = None /\ faults < MaxFaults /\ faults' = faults + 1
      /\ \E after \in {None, [scene |-> {Foreign}, mtime |-> now]} : file' = [file EXCEPT ![d] = after]
      /\ owed' = [owed EXCEPT ![d] = owed[d] \ SceneOf(file[d])]
      /\ excused' = excused \union {d}
      /\ UNCHANGED <<draft, ring, lock, app, tab, command, dialog, remaining, decision, now, edits, settled>>
  BY DEF ForeignWrite, Forgo, recovery
<1>2. PICK after \in {None, [scene |-> {Foreign}, mtime |-> now]} : file' = [file EXCEPT ![d] = after]
  BY <1>1
<1>3. after \in File \union {None} /\ (after # None => after.mtime = now)
  <2>1. [scene |-> {Foreign}, mtime |-> now] \in File
    BY DEF File, Scene, Edits, IInv, Typed
  <2> QED
    BY <2>1
<1>4. /\ file' \in [Drawing -> File \union {None}] /\ file'[d] = after
      /\ \A e \in Drawing \ {d} : file'[e] = file[e]
  BY <1>2, <1>3 DEF IInv, Typed
<1>5. /\ owed' \in [Drawing -> Scene] /\ owed'[d] = owed[d] \ SceneOf(file[d])
      /\ \A e \in Drawing \ {d} : owed'[e] = owed[e]
  BY <1>1 DEF IInv, Typed, Scene
<1>6. faults' \in 0..MaxFaults
  BY <1>1, RecoveryAssumption DEF IInv, Typed
<1>7. Typed'
  BY <1>1, <1>4, <1>5, <1>6 DEF IInv, Typed
<1>8. SlotsDiffer' /\ PhasesAgree'
  BY <1>1 DEF IInv, SlotsDiffer, PhasesAgree
<1>9. \A e \in Drawing \ {d} : DrawingInv(e)'
  BY <1>1, <1>4, <1>5, OthersKeep DEF IInv, Untouched
<1>10. Unsaved(d)' \subseteq Unsaved(d) /\ UNCHANGED Latest(d)
  BY <1>1, <1>5 DEF Unsaved, Latest
<1>11. command[d] = None /\ decision = None
  BY <1>1 DEF IInv, DrawingInv, TabHolds, PhasesAgree
<1>12. TabHolds(d)' /\ ScenesAgree(d)' /\ OfferHolds(d)'
  BY <1>1, <1>11 DEF TabHolds, ScenesAgree, OfferHolds, Upserted, Closing, Running, Deciding
<1>13. OnDisk(d)'
  BY <1>1, <1>10, <1>11 DEF IInv, DrawingInv, OnDisk, InHand, Deciding
<1>14. NotOverlooked(d)'
  BY <1>1, <1>10 DEF IInv, DrawingInv, NotOverlooked
<1>15. \A i \in 1..Len(ring[d]) : ~Newer(d, i)'
  <2>1. \A i \in 1..Len(ring[d]) : ring[d][i].savedAt \in Int /\ ring[d][i].savedAt <= now
    BY Kinds, RecoveryAssumption DEF IInv, DrawingInv, TimesPass, Snapshot, Time
  <2>2. now \in Int
    BY DEF IInv, Typed, Time
  <2> QED
    BY <1>1, <1>3, <1>4, <2>1, <2>2 DEF Newer
<1>16. LatestHolds(d)' /\ UncoveredHold(d)' /\ TimesPass(d)'
  <2>1. ring[d] # <<>> => Len(ring[d]) \in 1..Len(ring[d])
    BY Kinds DEF IInv
  <2>2. ~Upserted(d)'
    BY <1>1, <1>11 DEF Upserted, Running
  <2> QED
    BY <1>1, <1>15, <2>1, <2>2 DEF IInv, DrawingInv, LatestHolds, UncoveredHold, TimesPass
<1> QED
  BY <1>7, <1>8, <1>9, <1>12, <1>13, <1>14, <1>16 DEF IInv, DrawingInv

LEMMA TickKeeps ==
  ASSUME IInv, Tick
  PROVE  IInv'
<1>1. /\ now < MaxTime /\ now' = now + 1
      /\ UNCHANGED <<file, draft, ring, lock, app, tab, command, owed, excused, settled>>
      /\ UNCHANGED <<dialog, remaining, decision, edits, faults>>
  BY DEF Tick, disk, recovery, counters, history
<1>2. now' \in Time /\ now \in Int /\ now' \in Int /\ now <= now'
  BY <1>1, RecoveryAssumption DEF IInv, Typed, Time
<1>3. Typed'
  BY <1>1, <1>2 DEF IInv, Typed
<1>4. SlotsDiffer' /\ PhasesAgree'
  BY <1>1 DEF IInv, SlotsDiffer, PhasesAgree
<1>5. ASSUME NEW d \in Drawing PROVE DrawingInv(d)'
  <2>1. UNCHANGED <<Unsaved(d), Upserted(d), Closing(d), Latest(d), Dirty(d), InHand(d), Deciding(d)>>
    BY <1>1 DEF Unsaved, SceneOf, Upserted, Closing, Running, Latest, Dirty, InHand, Deciding
  <2>2. TabHolds(d)' /\ ScenesAgree(d)' /\ OfferHolds(d)'
    BY <1>1, <2>1 DEF IInv, DrawingInv, TabHolds, ScenesAgree, OfferHolds
  <2>3. OnDisk(d)' /\ NotOverlooked(d)' /\ LatestHolds(d)' /\ UncoveredHold(d)'
    BY <1>1, <2>1 DEF IInv, DrawingInv, OnDisk, NotOverlooked, LatestHolds, UncoveredHold, Newer
  <2>4. TimesPass(d)'
    <3>1. \A i \in 1..Len(ring[d]) : ring[d][i].savedAt \in Int
      BY Kinds, RecoveryAssumption DEF IInv, Snapshot, Time
    <3>2. Upserted(d) => command[d].at \in Int
      BY Kinds, RecoveryAssumption DEF IInv, Upserted, Running, Command, Time
    <3> QED
      BY <1>1, <1>2, <2>1, <3>1, <3>2 DEF IInv, DrawingInv, TimesPass
  <2> QED
    BY <2>2, <2>3, <2>4 DEF DrawingInv
<1> QED
  BY <1>3, <1>4, <1>5 DEF IInv

-----------------------------------------------------------------------------
\* An offer is decided: its snapshot has every edit answered for.
LEMMA DecideKeeps ==
  ASSUME IInv, NEW d \in Drawing, NEW action \in {"restore", "saveAsNew", "discard"}, Decide(d, action)
  PROVE  IInv'
<1> DEFINE taken == [of |-> d, step |-> "read", scene |-> Latest(d).scene,
                     action |-> IF action = "restore" /\ file[d] = None THEN "saveAsNew" ELSE action]
<1>1. /\ app = "deciding" /\ decision = None /\ d \in dialog /\ ring[d] # <<>>
      /\ decision' = taken
      /\ owed' = [owed EXCEPT ![d] = owed[d] \ (IF action = "discard" THEN Latest(d).scene ELSE {})]
      /\ UNCHANGED <<file, draft, ring, lock, app, tab, command, dialog, remaining, now, edits, faults>>
      /\ UNCHANGED <<excused, settled>>
  BY DEF Decide, Forgo, disk, counters
<1>2. Latest(d) \in Snapshot /\ Latest(d).scene \in Scene /\ Len(ring[d]) \in 1..Len(ring[d])
  BY <1>1, Kinds DEF IInv, Snapshot
<1>3. taken \in Decision /\ taken # None
  <2>1. taken \in Decision
    BY <1>2 DEF Decision
  <2> QED
    BY <2>1, Kinds DEF IInv
<1>4. /\ taken.of = d /\ taken.step = "read" /\ taken.scene = Latest(d).scene
      /\ taken.action = "discard" => action = "discard"
  OBVIOUS
<1> HIDE DEF taken
<1>5. /\ owed' \in [Drawing -> Scene] /\ owed'[d] \subseteq owed[d]
      /\ action = "discard" => owed'[d] = owed[d] \ Latest(d).scene
      /\ \A e \in Drawing \ {d} : owed'[e] = owed[e]
  BY <1>1 DEF IInv, Typed, Scene
<1>6. Typed'
  BY <1>1, <1>3, <1>5 DEF IInv, Typed
<1>7. SlotsDiffer' /\ PhasesAgree'
  BY <1>1 DEF IInv, SlotsDiffer, PhasesAgree
<1>8. \A e \in Drawing \ {d} : DrawingInv(e)'
  BY <1>1, <1>4, <1>5, OthersKeep DEF IInv, Untouched, Deciding
<1>9. /\ UNCHANGED <<Latest(d), Upserted(d), Closing(d), Dirty(d)>> /\ Unsaved(d)' \subseteq Unsaved(d)
      /\ InHand(d)' <=> InHand(d)
  BY <1>1, <1>4, <1>5 DEF Latest, Upserted, Closing, Running, Dirty, Unsaved, SceneOf, InHand, Deciding
<1>10. owed[d] \subseteq Latest(d).scene /\ (tab[d] # None => Latest(d).scene = tab[d].scene)
  <2>1. CASE tab[d] = None
    BY <1>1, <2>1 DEF IInv, DrawingInv, LatestHolds, InHand, Deciding
  <2>2. CASE tab[d] # None
    BY <1>1, <1>2, <2>2 DEF IInv, DrawingInv, ScenesAgree, TabHolds, Latest
  <2> QED
    BY <2>1, <2>2
<1>11. TabHolds(d)'
  BY <1>1, <1>5, <1>9 DEF IInv, DrawingInv, TabHolds
<1>12. ScenesAgree(d)'
  BY <1>1, <1>4, <1>9, <1>10 DEF IInv, DrawingInv, ScenesAgree
<1>13. OfferHolds(d)'
  BY <1>1, <1>4, <1>5, <1>10 DEF OfferHolds
<1>14. OnDisk(d)' /\ NotOverlooked(d)' /\ LatestHolds(d)'
  BY <1>1, <1>5, <1>9 DEF IInv, DrawingInv, OnDisk, NotOverlooked, LatestHolds, Newer
<1>15. UncoveredHold(d)' /\ TimesPass(d)'
  BY <1>1, <1>5, <1>9 DEF IInv, DrawingInv, UncoveredHold, TimesPass, Newer
<1> QED
  BY <1>6, <1>7, <1>8, <1>11, <1>12, <1>13, <1>14, <1>15 DEF IInv, DrawingInv

\* While a decision is applied the app is deciding, and nothing else is decided.
LEMMA ApplyFacts ==
  ASSUME IInv, decision # None
  PROVE  /\ app = "deciding" /\ decision \in Decision /\ decision.of \in Drawing
         /\ Deciding(decision.of) /\ ~Closing(decision.of)
<1>1. app = "deciding" /\ decision \in Decision
  BY Kinds DEF IInv, PhasesAgree
<1>2. decision.of \in Drawing
  BY <1>1 DEF Decision
<1> QED
  BY <1>1, <1>2 DEF IInv, DrawingInv, TabHolds, Deciding

\* The decision goes on: its drawing and scene stay.
LEMMA GotoFacts ==
  ASSUME IInv, decision # None,
         NEW step \in {"read", "copied", "removing", "removed", "answered", "adopted"}, Goto(step)
  PROVE  /\ decision' \in Decision /\ decision' # None /\ decision'.of = decision.of
         /\ decision'.action = decision.action /\ decision'.scene = decision.scene
         /\ decision'.step = step
         /\ \A d \in Drawing : Deciding(d)' <=> Deciding(d)
<1>1. decision \in Decision /\ decision' = [decision EXCEPT !.step = step]
  BY ApplyFacts DEF Goto
<1>2. /\ decision' \in Decision /\ decision'.of = decision.of
      /\ decision'.action = decision.action /\ decision'.scene = decision.scene
      /\ decision'.step = step
  BY <1>1 DEF Decision
<1>3. decision' # None
  BY <1>2, Kinds DEF IInv
<1> QED
  BY <1>2, <1>3 DEF Deciding

LEMMA WriteCopyKeeps ==
  ASSUME IInv, NEW d \in Drawing, Deciding(d), WriteCopy
  PROVE  IInv'
<1> decision # None /\ decision.of = d
  BY DEF Deciding
<1>1. /\ decision # None /\ decision.step = "read" /\ decision.action = "saveAsNew"
      /\ owed' = [owed EXCEPT ![d] = owed[d] \ decision.scene]
      /\ Goto("copied")
      /\ UNCHANGED <<file, draft, ring, lock, app, tab, command, dialog, remaining, now, edits, faults>>
      /\ UNCHANGED <<excused, settled>>
  BY DEF WriteCopy, Applying, Forgo, Applied, disk, counters
<1>2. app = "deciding" /\ d \in Drawing /\ Deciding(d) /\ ~Closing(d)
  BY <1>1, ApplyFacts
<1>3. /\ decision' \in Decision /\ decision' # None /\ decision'.of = d
      /\ decision'.action = "saveAsNew" /\ decision'.scene = decision.scene
      /\ decision'.step = "copied"
      /\ \A e \in Drawing : Deciding(e)' <=> Deciding(e)
  BY <1>1, GotoFacts
<1>4. \A e \in Drawing \ {d} : ~Deciding(e)
  BY DEF Deciding
<1>5. owed[d] \subseteq decision.scene
  BY <1>2 DEF IInv, DrawingInv, OfferHolds
<1>6. /\ owed' \in [Drawing -> Scene] /\ owed'[d] = {}
      /\ \A e \in Drawing \ {d} : owed'[e] = owed[e]
  BY <1>1, <1>2, <1>5 DEF IInv, Typed, Scene
<1>7. Typed'
  BY <1>1, <1>3, <1>6 DEF IInv, Typed
<1>8. SlotsDiffer' /\ PhasesAgree'
  BY <1>1, <1>2 DEF IInv, SlotsDiffer, PhasesAgree
<1>9. \A e \in Drawing \ {d} : DrawingInv(e)'
  BY <1>1, <1>3, <1>4, <1>6, OthersKeep DEF IInv, Untouched
<1>10. UNCHANGED <<Latest(d), Upserted(d), Closing(d), Dirty(d)>> /\ Unsaved(d)' = {}
  BY <1>1, <1>6 DEF Latest, Upserted, Closing, Running, Dirty, Unsaved
<1>11. TabHolds(d)' /\ ScenesAgree(d)' /\ OfferHolds(d)'
  BY <1>1, <1>2, <1>3, <1>6, <1>10 DEF IInv, DrawingInv, TabHolds, ScenesAgree, OfferHolds
<1>12. OnDisk(d)' /\ NotOverlooked(d)' /\ LatestHolds(d)' /\ UncoveredHold(d)' /\ TimesPass(d)'
  BY <1>1, <1>2, <1>6, <1>10 DEF IInv, DrawingInv, OnDisk, NotOverlooked, LatestHolds, UncoveredHold, TimesPass,
    Newer
<1> QED
  BY <1>7, <1>8, <1>9, <1>11, <1>12 DEF IInv, DrawingInv

\* A snapshot is removed: what it had is in the answer, or in the tab.
LEMMA RemoveSnapshotsKeeps ==
  ASSUME IInv, NEW d \in Drawing, Deciding(d), RemoveSnapshots
  PROVE  IInv'
<1> decision # None /\ decision.of = d
  BY DEF Deciding
<1> DEFINE step == IF ring'[d] = <<>> THEN "removed" ELSE "removing"
           after == [tab[d] EXCEPT !.restored = TRUE]
<1>1. /\ decision # None /\ RemoveSlot(d) /\ Goto(step)
      /\ tab' = IF tab[d] = None THEN tab ELSE [tab EXCEPT ![d].restored = TRUE]
      /\ \/ decision.step = "read" /\ decision.action # "saveAsNew"
         \/ decision.step \in {"copied", "removing"}
      /\ UNCHANGED <<file, draft, lock, app, command, dialog, remaining, now, edits, faults>>
      /\ UNCHANGED <<owed, excused, settled>>
  BY DEF RemoveSnapshots, Applying, Applied, counters, history
<1>2. app = "deciding" /\ d \in Drawing /\ Deciding(d) /\ ~Closing(d)
  BY <1>1, ApplyFacts
<1>3. /\ decision' \in Decision /\ decision' # None /\ decision'.of = d
      /\ decision'.action = decision.action /\ decision'.scene = decision.scene
      /\ decision'.step \in {"removing", "removed"}
      /\ decision'.step = "removed" => ring'[d] = <<>>
      /\ \A e \in Drawing : Deciding(e)' <=> Deciding(e)
  <2>1. step \in {"removing", "removed"} /\ (step = "removed" => ring'[d] = <<>>)
    OBVIOUS
  <2> HIDE DEF step
  <2> QED
    BY <1>1, <2>1, GotoFacts
<1>4. \A e \in Drawing \ {d} : ~Deciding(e)
  BY DEF Deciding
<1> HIDE DEF step
<1>5. /\ ring' \in [Drawing -> Seq(Snapshot)] /\ SlotsDiffer'
      /\ \A e \in Drawing : e # d => ring'[e] = ring[e]
      /\ \A i \in 1..Len(ring'[d]) : \E j \in 1..Len(ring[d]) : ring'[d][i] = ring[d][j]
  BY <1>1, <1>2, SlotGone DEF IInv
<1>6. /\ tab' \in [Drawing -> Tab \union {None}] /\ \A e \in Drawing \ {d} : tab'[e] = tab[e]
      /\ tab[d] = None => tab'[d] = None
      /\ tab[d] # None => /\ tab'[d] # None /\ tab'[d].restored = TRUE
                          /\ tab'[d].scene = tab[d].scene /\ tab'[d].state = tab[d].state
  <2>1. CASE tab[d] = None
    BY <1>1, <2>1 DEF IInv, Typed
  <2>2. CASE tab[d] # None
    <3>1. tab[d] \in Tab
      BY <1>2, <2>2, Kinds DEF IInv
    <3>2. /\ after \in Tab /\ after.restored = TRUE /\ after.scene = tab[d].scene
          /\ after.state = tab[d].state /\ tab' = [tab EXCEPT ![d] = after]
      BY <1>1, <2>2, <3>1 DEF Tab
    <3>3. after # None
      BY <3>2, Kinds DEF IInv
    <3> HIDE DEF after
    <3> QED
      BY <1>2, <2>2, <3>2, <3>3 DEF IInv, Typed
  <2> QED
    BY <2>1, <2>2
<1>7. Typed'
  BY <1>1, <1>3, <1>5, <1>6 DEF IInv, Typed
<1>8. PhasesAgree'
  BY <1>1, <1>2 DEF IInv, PhasesAgree
<1>9. \A e \in Drawing \ {d} : DrawingInv(e)'
  BY <1>1, <1>3, <1>4, <1>5, <1>6, OthersKeep DEF IInv, Untouched
<1>10. UNCHANGED <<Upserted(d), Closing(d), Dirty(d), Unsaved(d)>> /\ InHand(d)'
  BY <1>1, <1>2, <1>3, <1>6 DEF Upserted, Closing, Running, Dirty, Unsaved, SceneOf, InHand
<1>11. TabHolds(d)'
  BY <1>1, <1>2, <1>6, <1>10 DEF IInv, DrawingInv, TabHolds
<1>12. ScenesAgree(d)'
  <2>1. tab[d] # None => \A i \in 1..Len(ring'[d]) : ring'[d][i].scene = tab[d].scene
    <3>1. tab[d] # None => \A i \in 1..Len(ring[d]) : ring[d][i].scene = tab[d].scene
      BY <1>2 DEF IInv, DrawingInv, ScenesAgree
    <3> QED
      BY <1>5, <3>1
  <2> QED
    BY <1>1, <1>2, <1>3, <1>6, <1>10, <2>1 DEF IInv, DrawingInv, ScenesAgree
<1>13. OfferHolds(d)'
  <2>1. tab[d] = None /\ decision.action = "saveAsNew" => decision.step # "read"
    BY <1>1
  <2> QED
    BY <1>1, <1>2, <1>3, <1>6, <2>1 DEF IInv, DrawingInv, OfferHolds
<1>14. OnDisk(d)' /\ LatestHolds(d)'
  BY <1>10 DEF OnDisk, LatestHolds
<1>15. UncoveredHold(d)' /\ TimesPass(d)'
  BY <1>1, <1>5, <1>10 DEF IInv, DrawingInv, UncoveredHold, TimesPass, Newer
<1>16. NotOverlooked(d)'
  BY <1>1, <1>2, <1>6, <1>10 DEF IInv, DrawingInv, NotOverlooked
<1> QED
  BY <1>5, <1>7, <1>8, <1>9, <1>11, <1>12, <1>13, <1>14, <1>15, <1>16 DEF IInv, DrawingInv

LEMMA DeleteDraftKeeps ==
  ASSUME IInv, NEW d \in Drawing, Deciding(d), DeleteDraft
  PROVE  IInv'
<1> decision # None /\ decision.of = d
  BY DEF Deciding
<1>1. /\ decision.step = "removed" /\ draft' = [draft EXCEPT ![d] = None] /\ Goto("answered")
      /\ UNCHANGED <<file, ring, lock, app, tab, command, dialog, remaining, now, edits, faults>>
      /\ UNCHANGED <<owed, excused, settled>>
  BY DEF DeleteDraft, Applying, Applied, counters, history
<1>2. app = "deciding" /\ ~Closing(d)
  BY ApplyFacts
<1>3. /\ decision' \in Decision /\ decision' # None /\ decision'.of = d
      /\ decision'.action = decision.action /\ decision'.scene = decision.scene
      /\ decision'.step = "answered"
      /\ \A e \in Drawing : Deciding(e)' <=> Deciding(e)
  BY <1>1, GotoFacts
<1>4. \A e \in Drawing \ {d} : ~Deciding(e)
  BY DEF Deciding
<1>5. draft' \in [Drawing -> Draft \union {None}] /\ \A e \in Drawing \ {d} : draft'[e] = draft[e]
  BY <1>1 DEF IInv, Typed
<1>6. Typed'
  BY <1>1, <1>3, <1>5 DEF IInv, Typed
<1>7. SlotsDiffer' /\ PhasesAgree'
  BY <1>1, <1>2 DEF IInv, SlotsDiffer, PhasesAgree
<1>8. \A e \in Drawing \ {d} : DrawingInv(e)'
  BY <1>1, <1>3, <1>4, <1>5, OthersKeep DEF IInv, Untouched
<1>9. UNCHANGED <<Latest(d), Upserted(d), Closing(d), Unsaved(d)>> /\ (InHand(d)' <=> InHand(d))
  BY <1>1, <1>3 DEF Latest, Upserted, Closing, Running, Unsaved, SceneOf, InHand
<1>10. TabHolds(d)' /\ ScenesAgree(d)' /\ OfferHolds(d)'
  <2>1. ~Dirty(d)'
    BY <1>1 DEF IInv, Typed, Dirty
  <2>2. TabHolds(d)'
    BY <1>1, <1>2, <1>9, <2>1 DEF IInv, DrawingInv, TabHolds
  <2>3. ScenesAgree(d)'
    BY <1>1, <1>2, <1>3, <1>9 DEF IInv, DrawingInv, ScenesAgree
  <2>4. OfferHolds(d)'
    BY <1>1, <1>3 DEF IInv, DrawingInv, OfferHolds
  <2> QED
    BY <2>2, <2>3, <2>4
<1>11. OnDisk(d)' /\ NotOverlooked(d)' /\ LatestHolds(d)' /\ TimesPass(d)'
  <2>1. OnDisk(d)' /\ NotOverlooked(d)'
    BY <1>1, <1>9 DEF IInv, DrawingInv, OnDisk, NotOverlooked
  <2>2. LatestHolds(d)'
    BY <1>1, <1>9 DEF IInv, DrawingInv, LatestHolds, Newer
  <2>3. TimesPass(d)'
    BY <1>1, <1>9 DEF IInv, DrawingInv, TimesPass
  <2> QED
    BY <2>1, <2>2, <2>3
<1>12. UncoveredHold(d)'
  <2>1. CASE tab[d] = None
    <3>1. ring'[d] = <<>>
      BY <1>1, <2>1 DEF IInv, DrawingInv, OfferHolds
    <3>2. 1..Len(ring'[d]) = {}
      BY <3>1, EmptySeq
    <3> QED
      BY <3>2 DEF UncoveredHold
  <2>2. CASE tab[d] # None
    BY <1>1, <1>2, <1>9, <2>2 DEF IInv, DrawingInv, TabHolds, ScenesAgree, UncoveredHold
  <2> QED
    BY <2>1, <2>2
<1> QED
  BY <1>6, <1>7, <1>8, <1>10, <1>11, <1>12 DEF IInv, DrawingInv

\* The answer is adopted: a restored scene is a tab's from now on.
LEMMA AdoptKeeps ==
  ASSUME IInv, NEW d \in Drawing, Deciding(d), Adopt
  PROVE  IInv'
<1> decision # None /\ decision.of = d
  BY DEF Deciding
<1> DEFINE adopted == [scene |-> decision.scene, state |-> "dirty", restored |-> TRUE]
<1>1. /\ decision.step = "answered" /\ remaining' = remaining \ {d} /\ Goto("adopted")
      /\ IF decision.action = "restore"
         THEN file[d] # None /\ tab' = [tab EXCEPT ![d] = adopted]
         ELSE tab' = tab
      /\ settled' = settled \union {d}
      /\ UNCHANGED <<file, draft, ring, lock, app, command, dialog, now, edits, faults, owed, excused>>
  BY DEF Adopt, Applying, Applied, disk, counters
<1>2. app = "deciding" /\ decision \in Decision /\ ~Closing(d)
  BY ApplyFacts
<1>3. /\ decision' \in Decision /\ decision' # None /\ decision'.of = d
      /\ decision'.action = decision.action /\ decision'.scene = decision.scene
      /\ decision'.step = "adopted"
      /\ \A e \in Drawing : Deciding(e)' <=> Deciding(e)
  BY <1>1, GotoFacts
<1>4. \A e \in Drawing \ {d} : ~Deciding(e)
  BY DEF Deciding
<1>5. /\ adopted \in Tab /\ adopted # None /\ adopted.scene = decision.scene
      /\ adopted.state = "dirty" /\ adopted.restored = TRUE
  <2>1. adopted \in Tab
    BY <1>2 DEF Decision, Tab
  <2> QED
    BY <2>1, Kinds DEF IInv
<1> HIDE DEF adopted
<1>6. /\ tab' \in [Drawing -> Tab \union {None}] /\ \A e \in Drawing \ {d} : tab'[e] = tab[e]
      /\ decision.action = "restore" => tab'[d] = adopted
      /\ decision.action # "restore" => tab'[d] = tab[d]
  BY <1>1, <1>5 DEF IInv, Typed
<1>7. Typed'
  BY <1>1, <1>3, <1>6 DEF IInv, Typed
<1>8. SlotsDiffer' /\ PhasesAgree'
  BY <1>1, <1>2 DEF IInv, SlotsDiffer, PhasesAgree
<1>9. \A e \in Drawing \ {d} : DrawingInv(e)'
  BY <1>1, <1>3, <1>4, <1>6, OthersKeep DEF IInv, Untouched
<1>10. UNCHANGED <<Latest(d), Upserted(d), Closing(d), Unsaved(d), Dirty(d)>>
  BY <1>1 DEF Latest, Upserted, Closing, Running, Unsaved, SceneOf, Dirty
<1>11. UncoveredHold(d)' /\ TimesPass(d)'
  BY <1>1, <1>10 DEF IInv, DrawingInv, UncoveredHold, TimesPass, Newer
<1>12. CASE decision.action = "restore"
  <2>1. /\ owed[d] \subseteq decision.scene
        /\ Upserted(d) => command[d].scene = decision.scene /\ owed[d] \subseteq command[d].scene
        /\ \A i \in 1..Len(ring[d]) : ring[d][i].scene = decision.scene
    <3>1. CASE tab[d] = None
      <4>1. ring[d] = <<>> /\ command[d] = None
        BY <1>1, <3>1 DEF IInv, DrawingInv, OfferHolds, TabHolds
      <4>2. 1..Len(ring[d]) = {}
        BY <4>1, EmptySeq
      <4> QED
        BY <4>1, <4>2 DEF IInv, DrawingInv, OfferHolds, Upserted, Running
    <3>2. CASE tab[d] # None
      BY <1>2, <3>2 DEF IInv, DrawingInv, OfferHolds, ScenesAgree, TabHolds
    <3> QED
      BY <3>1, <3>2
  <2>2. TabHolds(d)'
    BY <1>1, <1>2, <1>5, <1>6, <1>10, <1>12, <2>1 DEF TabHolds
  <2>3. ScenesAgree(d)' /\ OfferHolds(d)'
    BY <1>1, <1>3, <1>5, <1>6, <1>10, <1>12, <2>1 DEF ScenesAgree, OfferHolds
  <2>4. OnDisk(d)' /\ NotOverlooked(d)' /\ LatestHolds(d)'
    BY <1>1, <1>2, <1>5, <1>6, <1>12 DEF OnDisk, NotOverlooked, LatestHolds, InHand
  <2> QED
    BY <1>7, <1>8, <1>9, <1>11, <2>2, <2>3, <2>4 DEF IInv, DrawingInv
<1>13. CASE decision.action # "restore"
  <2>1. tab[d] = None => owed[d] = {} /\ Unsaved(d) = {} /\ ring[d] = <<>>
    BY <1>1, <1>2, <1>13 DEF IInv, DrawingInv, OfferHolds, Decision, Unsaved
  <2>2. tab[d] # None => (InHand(d)' <=> InHand(d))
    BY <1>6, <1>13 DEF InHand
  <2>3. TabHolds(d)' /\ ScenesAgree(d)'
    BY <1>1, <1>2, <1>3, <1>6, <1>10, <1>13 DEF IInv, DrawingInv, TabHolds, ScenesAgree
  <2>4. OfferHolds(d)'
    BY <1>1, <1>3, <1>6, <1>13, <2>1 DEF IInv, DrawingInv, OfferHolds
  <2>5. OnDisk(d)' /\ NotOverlooked(d)' /\ LatestHolds(d)'
    BY <1>1, <1>2, <1>6, <1>10, <1>13, <2>1, <2>2 DEF IInv, DrawingInv, OnDisk, NotOverlooked, LatestHolds, Newer
  <2> QED
    BY <1>7, <1>8, <1>9, <1>11, <2>3, <2>4, <2>5 DEF IInv, DrawingInv
<1> QED
  BY <1>12, <1>13

\* A decision is done with; the last one ends Recovery.
LEMMA FinishKeeps ==
  ASSUME IInv, NEW d \in Drawing, Deciding(d), Finish
  PROVE  IInv'
<1> decision # None /\ decision.of = d
  BY DEF Deciding
<1>1. /\ decision.step = "adopted" /\ decision' = None /\ dialog' = dialog \ {d}
      /\ app' = IF remaining = {} THEN "working" ELSE app
      /\ UNCHANGED <<file, draft, ring, lock, tab, command, remaining, now, edits, faults>>
      /\ UNCHANGED <<owed, excused, settled>>
  BY DEF Finish, Applying, disk, counters, history
<1>2. app = "deciding" /\ app' \in {"deciding", "working"} /\ d \notin remaining
  BY <1>1, ApplyFacts DEF IInv, DrawingInv, OfferHolds
<1>3. Typed'
  BY <1>1, <1>2 DEF IInv, Typed
<1>4. SlotsDiffer' /\ PhasesAgree'
  BY <1>1, <1>2 DEF IInv, SlotsDiffer, PhasesAgree
<1>5. ASSUME NEW e \in Drawing PROVE DrawingInv(e)'
  <2>1. UNCHANGED <<Latest(e), Upserted(e), Closing(e), Unsaved(e), Dirty(e)>> /\ (InHand(e)' <=> InHand(e))
    BY <1>1 DEF Latest, Upserted, Closing, Running, Unsaved, SceneOf, Dirty, InHand, Deciding
  <2>2. TabHolds(e)' /\ ScenesAgree(e)' /\ OfferHolds(e)'
    BY <1>1, <1>2, <2>1 DEF IInv, DrawingInv, TabHolds, ScenesAgree, OfferHolds, Deciding
  <2>3. OnDisk(e)' /\ NotOverlooked(e)' /\ LatestHolds(e)' /\ UncoveredHold(e)' /\ TimesPass(e)'
    BY <1>1, <1>2, <2>1 DEF IInv, DrawingInv, OnDisk, NotOverlooked, LatestHolds, UncoveredHold, TimesPass, Newer
  <2> QED
    BY <2>2, <2>3 DEF DrawingInv
<1> QED
  BY <1>3, <1>4, <1>5 DEF IInv

LEMMA ApplyFailsKeeps ==
  ASSUME IInv, NEW d \in Drawing, Deciding(d), ApplyFails
  PROVE  IInv'
<1> decision # None /\ decision.of = d
  BY DEF Deciding
<1>1. /\ decision' = None
      /\ owed' = [owed EXCEPT ![d] = owed[d] \ (IF tab[d] = None THEN InMemory(d) ELSE {})]
      /\ UNCHANGED <<file, draft, ring, lock, app, tab, command, dialog, remaining, now, edits, faults>>
      /\ UNCHANGED <<excused, settled>>
  BY DEF ApplyFails, Forgo, Applied, disk, counters
<1>2. app = "deciding" /\ ~Closing(d)
  BY ApplyFacts
<1>3. /\ owed' \in [Drawing -> Scene] /\ owed'[d] \subseteq owed[d]
      /\ owed'[d] = owed[d] \ (IF tab[d] = None THEN InMemory(d) ELSE {})
      /\ \A e \in Drawing \ {d} : owed'[e] = owed[e]
  BY <1>1 DEF IInv, Typed, Scene
<1>4. tab[d] = None /\ InHand(d) => owed'[d] = {}
  <2>1. owed[d] \subseteq decision.scene
    BY DEF IInv, DrawingInv, OfferHolds
  <2>2. tab[d] = None /\ InHand(d) => decision.scene \subseteq InMemory(d)
    BY DEF InHand, InMemory, Deciding
  <2> QED
    BY <1>3, <2>1, <2>2
<1>5. Typed'
  BY <1>1, <1>3 DEF IInv, Typed
<1>6. SlotsDiffer' /\ PhasesAgree'
  BY <1>1, <1>2 DEF IInv, SlotsDiffer, PhasesAgree
<1>7. \A e \in Drawing \ {d} : DrawingInv(e)'
  BY <1>1, <1>3, OthersKeep DEF IInv, Untouched, Deciding
<1>8. /\ UNCHANGED <<Latest(d), Upserted(d), Closing(d), Dirty(d)>> /\ Unsaved(d)' \subseteq Unsaved(d)
      /\ InHand(d)' => InHand(d)
      /\ InHand(d) /\ ~InHand(d)' => owed'[d] = {} /\ Unsaved(d)' = {}
  BY <1>1, <1>3, <1>4 DEF Latest, Upserted, Closing, Running, Dirty, Unsaved, SceneOf, InHand, Deciding
<1>9. TabHolds(d)' /\ ScenesAgree(d)' /\ OfferHolds(d)'
  BY <1>1, <1>2, <1>3, <1>8 DEF IInv, DrawingInv, TabHolds, ScenesAgree, OfferHolds, Deciding
<1>10. OnDisk(d)' /\ NotOverlooked(d)' /\ LatestHolds(d)'
  BY <1>1, <1>3, <1>8 DEF IInv, DrawingInv, OnDisk, NotOverlooked, LatestHolds, Newer
<1>11. UncoveredHold(d)' /\ TimesPass(d)'
  BY <1>1, <1>3, <1>8 DEF IInv, DrawingInv, UncoveredHold, TimesPass, Newer
<1> QED
  BY <1>5, <1>6, <1>7, <1>9, <1>10, <1>11 DEF IInv, DrawingInv

-----------------------------------------------------------------------------
\* The app ends without asking: what was only in memory is nobody's any more.
LEMMA EndAbruptlyKeeps ==
  ASSUME IInv, EndAbruptly, lock' \in BOOLEAN, excused \subseteq excused', excused' \subseteq Drawing,
         lock' \/ excused' = Drawing
  PROVE  IInv'
<1>1. /\ app # "down" /\ faults < MaxFaults /\ faults' = faults + 1 /\ app' = "down"
      /\ tab' = [d \in Drawing |-> None] /\ command' = [d \in Drawing |-> None]
      /\ dialog' = {} /\ remaining' = {} /\ decision' = None
      /\ owed' = [d \in Drawing |-> owed[d] \ InMemory(d)]
      /\ UNCHANGED <<file, draft, ring, now, edits, settled>>
  BY DEF EndAbruptly
<1>2. owed' \in [Drawing -> Scene]
  BY <1>1 DEF IInv, Typed, Scene
<1>3. faults' \in 0..MaxFaults
  BY <1>1, RecoveryAssumption DEF IInv, Typed
<1>4. Typed'
  BY <1>1, <1>2, <1>3 DEF IInv, Typed
<1>5. SlotsDiffer' /\ PhasesAgree'
  BY <1>1 DEF IInv, SlotsDiffer, PhasesAgree
<1>6. ASSUME NEW d \in Drawing PROVE DrawingInv(d)'
  <2>1. tab'[d] = None /\ command'[d] = None /\ owed'[d] = owed[d] \ InMemory(d)
    BY <1>1
  <2>2. UNCHANGED <<Latest(d), Dirty(d)>> /\ Unsaved(d)' \subseteq Unsaved(d)
    BY <1>1, <2>1 DEF Latest, Dirty, Unsaved, SceneOf
  <2>3. InHand(d) => owed'[d] = {}
    <3>1. CASE tab[d] # None
      BY <2>1, <3>1 DEF IInv, DrawingInv, TabHolds, InHand, InMemory
    <3>2. CASE tab[d] = None
      BY <2>1, <3>2 DEF IInv, DrawingInv, OfferHolds, InHand, InMemory, Deciding
    <3> QED
      BY <3>1, <3>2
  <2>4. TabHolds(d)' /\ ScenesAgree(d)' /\ OfferHolds(d)' /\ ~Upserted(d)'
    BY <1>1, <2>1 DEF TabHolds, ScenesAgree, OfferHolds, Deciding, Upserted, Closing, Running
  <2>5. OnDisk(d)' /\ LatestHolds(d)'
    <3>1. Unsaved(d)' \subseteq owed'[d]
      BY DEF Unsaved
    <3> QED
      BY <1>1, <2>1, <2>2, <2>3, <3>1 DEF IInv, DrawingInv, OnDisk, LatestHolds, Newer
  <2>6. UncoveredHold(d)' /\ TimesPass(d)'
    BY <1>1, <2>1, <2>2, <2>4 DEF IInv, DrawingInv, UncoveredHold, TimesPass, Newer
  <2>7. NotOverlooked(d)'
    BY <1>1 DEF NotOverlooked
  <2> QED
    BY <2>4, <2>5, <2>6, <2>7 DEF DrawingInv
<1> QED
  BY <1>4, <1>5, <1>6 DEF IInv

LEMMA CrashKeeps ==
  ASSUME IInv, Crash
  PROVE  IInv'
<1>1. EndAbruptly /\ lock' = lock /\ excused' = excused /\ app # "down"
  BY DEF Crash, EndAbruptly
<1>2. lock /\ lock \in BOOLEAN /\ excused \subseteq Drawing
  BY <1>1 DEF IInv, Typed, PhasesAgree
<1> QED
  BY <1>1, <1>2, EndAbruptlyKeeps

LEMMA TerminateKeeps ==
  ASSUME IInv, Terminate
  PROVE  IInv'
<1>1. EndAbruptly /\ lock' = FALSE /\ excused' = Drawing
  BY DEF Terminate
<1>2. lock' \in BOOLEAN /\ excused \subseteq Drawing
  BY <1>1 DEF IInv, Typed
<1> QED
  BY <1>1, <1>2, EndAbruptlyKeeps

\* A quit leaves nothing in a tab that its file lacks.
LEMMA QuitKeeps ==
  ASSUME IInv, Quit
  PROVE  IInv'
<1>1. /\ app \in {"working", "deciding"} /\ decision = None /\ app' = "down" /\ lock' = FALSE
      /\ \A d \in Drawing : command[d] = None /\ (tab[d] # None => tab[d].state = "clean")
      /\ tab' = [d \in Drawing |-> None] /\ dialog' = {} /\ remaining' = {}
      /\ excused' = excused \union remaining
      /\ UNCHANGED <<file, draft, ring, command, decision, now, edits, faults, owed, settled>>
  BY DEF Quit, counters
<1>2. Typed'
  <2>1. excused' \subseteq Drawing /\ lock' \in BOOLEAN
    BY <1>1 DEF IInv, Typed
  <2> QED
    BY <1>1, <2>1 DEF IInv, Typed
<1>3. SlotsDiffer' /\ PhasesAgree'
  BY <1>1 DEF IInv, SlotsDiffer, PhasesAgree
<1>4. ASSUME NEW d \in Drawing PROVE DrawingInv(d)'
  <2>1. tab'[d] = None /\ command[d] = None /\ (tab[d] # None => tab[d].state = "clean")
    BY <1>1
  <2>2. UNCHANGED <<Latest(d), Dirty(d), Unsaved(d)>> /\ ~Upserted(d)'
    BY <1>1, <2>1 DEF Latest, Dirty, Unsaved, SceneOf, Upserted, Running
  <2>3. TabHolds(d)' /\ ScenesAgree(d)' /\ OfferHolds(d)'
    BY <1>1, <2>1 DEF TabHolds, ScenesAgree, OfferHolds, Deciding, Upserted, Closing, Running
  <2>4. tab[d] # None => Unsaved(d) = {} /\ (tab[d].restored => ~Dirty(d))
    BY <2>1 DEF IInv, DrawingInv, TabHolds, Unsaved, SceneOf
  <2>5. OnDisk(d)'
    BY <1>1, <2>2, <2>4 DEF IInv, DrawingInv, OnDisk, InHand, Deciding
  <2>6. LatestHolds(d)'
    <3>1. ring[d] # <<>> => Len(ring[d]) \in 1..Len(ring[d])
      BY Kinds DEF IInv
    <3>2. CASE InHand(d)
      <4>1. ~Dirty(d)
        BY <1>1, <2>4, <3>2 DEF InHand, Deciding
      <4> QED
        BY <1>1, <2>2, <3>1, <4>1 DEF IInv, DrawingInv, UncoveredHold, LatestHolds, Newer, Latest
    <3>3. CASE ~InHand(d)
      BY <1>1, <2>2, <3>3 DEF IInv, DrawingInv, LatestHolds, Newer
    <3> QED
      BY <3>2, <3>3
  <2>7. UncoveredHold(d)' /\ TimesPass(d)'
    BY <1>1, <2>2 DEF IInv, DrawingInv, UncoveredHold, TimesPass, Newer
  <2>8. NotOverlooked(d)'
    BY <1>1, <2>2, <2>4 DEF IInv, DrawingInv, NotOverlooked
  <2> QED
    BY <2>3, <2>5, <2>6, <2>7, <2>8 DEF DrawingInv
<1> QED
  BY <1>2, <1>3, <1>4 DEF IInv

\* A start finds no tab, decision or command.
LEMMA NothingRuns ==
  ASSUME IInv, app \in {"down", "checking"}, NEW d \in Drawing
  PROVE  /\ tab[d] = None /\ command[d] = None /\ decision = None /\ remaining = {}
         /\ ~InHand(d) /\ ~Upserted(d) /\ ~Closing(d)
<1>1. tab[d] = None /\ command[d] = None /\ decision = None /\ remaining = {}
  BY DEF IInv, PhasesAgree, DrawingInv, TabHolds
<1> QED
  BY <1>1 DEF InHand, Deciding, Upserted, Closing, Running

LEMMA PassOverFacts ==
  ASSUME IInv, NEW offers, PassOver(offers), file' = file
  PROVE  /\ owed' \in [Drawing -> Scene]
         /\ \A d \in Drawing : /\ owed'[d] \subseteq owed[d] /\ Unsaved(d)' \subseteq Unsaved(d)
                               /\ d \in excused \ offers => Unsaved(d)' = {}
<1>1. owed' = [d \in Drawing |-> owed[d] \ (IF d \in excused \ offers THEN Unsaved(d) ELSE {})]
  BY DEF PassOver
<1>2. owed' \in [Drawing -> Scene]
  BY <1>1 DEF IInv, Typed, Scene
<1> QED
  BY <1>1, <1>2 DEF Unsaved, SceneOf

LEMMA LaunchKeeps ==
  ASSUME IInv, Launch
  PROVE  IInv'
<1>1. /\ app = "down" /\ lock' = TRUE /\ app' = IF lock THEN "checking" ELSE "working"
      /\ IF lock THEN owed' = owed ELSE PassOver({})
      /\ UNCHANGED <<file, draft, ring, tab, command, dialog, remaining, decision, now, edits, faults>>
      /\ UNCHANGED <<excused, settled>>
  BY DEF Launch, recovery, counters
<1>2. /\ owed' \in [Drawing -> Scene]
      /\ \A d \in Drawing : /\ owed'[d] \subseteq owed[d] /\ Unsaved(d)' \subseteq Unsaved(d)
                            /\ ~lock /\ d \in excused => Unsaved(d)' = {}
  <2>1. CASE lock
    BY <1>1, <2>1 DEF IInv, Typed, Unsaved, SceneOf
  <2>2. CASE ~lock
    BY <1>1, <2>2, PassOverFacts
  <2> QED
    BY <2>1, <2>2
<1>3. TRUE \in BOOLEAN
  OBVIOUS
<1>4. Typed'
  BY <1>1, <1>2, <1>3 DEF IInv, Typed
<1>5. SlotsDiffer' /\ PhasesAgree'
  BY <1>1 DEF IInv, SlotsDiffer, PhasesAgree
<1>6. ASSUME NEW d \in Drawing PROVE DrawingInv(d)'
  <2>1. /\ tab[d] = None /\ command[d] = None /\ decision = None /\ remaining = {}
        /\ ~InHand(d) /\ ~Upserted(d) /\ ~Closing(d)
    BY <1>1, NothingRuns
  <2>2. UNCHANGED <<Latest(d), Dirty(d)>> /\ ~Upserted(d)' /\ ~Closing(d)' /\ ~InHand(d)' /\ ~Deciding(d)'
    BY <1>1, <2>1 DEF Latest, Dirty, Upserted, Closing, Running, InHand, Deciding
  <2>3. TabHolds(d)' /\ ScenesAgree(d)' /\ OfferHolds(d)'
    BY <1>1, <2>1, <2>2 DEF TabHolds, ScenesAgree, OfferHolds
  <2>4. OnDisk(d)' /\ LatestHolds(d)'
    BY <1>1, <1>2, <2>1, <2>2 DEF IInv, DrawingInv, OnDisk, LatestHolds, Newer
  <2>5. UncoveredHold(d)' /\ TimesPass(d)'
    BY <1>1, <1>2, <2>2 DEF IInv, DrawingInv, UncoveredHold, TimesPass, Newer
  <2>6. NotOverlooked(d)'
    BY <1>1, <1>2 DEF IInv, DrawingInv, NotOverlooked
  <2> QED
    BY <2>3, <2>4, <2>5, <2>6 DEF DrawingInv
<1> QED
  BY <1>4, <1>5, <1>6 DEF IInv

\* What a start does not offer is in its file, or may be passed over.
LEMMA ListKeeps ==
  ASSUME IInv, List
  PROVE  IInv'
<1>1. /\ app = "checking" /\ dialog' = Candidates /\ remaining' = Candidates
      /\ app' = IF Candidates = {} THEN "working" ELSE "deciding"
      /\ PassOver(Candidates)
      /\ UNCHANGED <<file, draft, ring, lock, tab, command, decision, now, edits, faults, excused, settled>>
  BY DEF List, disk, counters
<1>2. /\ owed' \in [Drawing -> Scene]
      /\ \A d \in Drawing : /\ owed'[d] \subseteq owed[d] /\ Unsaved(d)' \subseteq Unsaved(d)
                            /\ d \in excused \ Candidates => Unsaved(d)' = {}
  BY <1>1, PassOverFacts
<1>3. Candidates \subseteq Drawing
  BY DEF Candidates
<1>4. Typed'
  BY <1>1, <1>2, <1>3 DEF IInv, Typed
<1>5. SlotsDiffer' /\ PhasesAgree'
  BY <1>1 DEF IInv, SlotsDiffer, PhasesAgree
<1>6. ASSUME NEW d \in Drawing PROVE DrawingInv(d)'
  <2>1. /\ tab[d] = None /\ command[d] = None /\ decision = None
        /\ ~InHand(d) /\ ~Upserted(d) /\ ~Closing(d)
    BY <1>1, NothingRuns
  <2>2. UNCHANGED <<Latest(d), Dirty(d)>> /\ ~Upserted(d)' /\ ~Closing(d)' /\ ~InHand(d)' /\ ~Deciding(d)'
    BY <1>1, <2>1 DEF Latest, Dirty, Upserted, Closing, Running, InHand, Deciding
  <2>3. TabHolds(d)' /\ ScenesAgree(d)' /\ OfferHolds(d)'
    BY <1>1, <2>1, <2>2 DEF TabHolds, ScenesAgree, OfferHolds
  <2>4. d \in Candidates => ring[d] # <<>> /\ (file[d] # None => Newer(d, Len(ring[d])))
    BY DEF Candidates, SnapshotNewer, Newer, Latest
  <2>5. Unsaved(d) # {} /\ d \notin excused => d \in Candidates
    <3> SUFFICES ASSUME Unsaved(d) # {}, d \notin excused
                 PROVE  ring[d] # <<>> /\ SnapshotNewer(d)
      BY DEF Candidates
    <3>1. /\ ring[d] # <<>> /\ Unsaved(d) \subseteq Latest(d).scene
          /\ file[d] # None => Latest(d).savedAt > file[d].mtime
      BY <2>1 DEF IInv, DrawingInv, OnDisk
    <3>2. file[d] # None => Latest(d).scene # file[d].scene
      BY <3>1 DEF Unsaved, SceneOf
    <3> QED
      BY <3>1, <3>2 DEF SnapshotNewer
  <2>6. OnDisk(d)'
    BY <1>1, <1>2, <2>1, <2>2 DEF IInv, DrawingInv, OnDisk
  <2>7. LatestHolds(d)'
    <3>1. CASE file[d] = None
      <4>1. owed[d] = Unsaved(d)
        BY <3>1 DEF Unsaved, SceneOf
      <4>2. owed[d] \subseteq Latest(d).scene
        BY <2>1, <4>1 DEF IInv, DrawingInv, OnDisk
      <4> QED
        BY <1>2, <2>2, <4>2 DEF LatestHolds
    <3>2. CASE file[d] # None
      BY <1>1, <1>2, <2>1, <2>2, <2>4, <3>2 DEF IInv, DrawingInv, LatestHolds, Newer
    <3> QED
      BY <3>1, <3>2
  <2>8. UncoveredHold(d)' /\ TimesPass(d)'
    BY <1>1, <1>2, <2>2 DEF IInv, DrawingInv, UncoveredHold, TimesPass, Newer
  <2>9. NotOverlooked(d)'
    BY <1>1, <1>2, <2>5 DEF NotOverlooked
  <2> QED
    BY <2>3, <2>6, <2>7, <2>8, <2>9 DEF DrawingInv
<1> QED
  BY <1>4, <1>5, <1>6 DEF IInv

-----------------------------------------------------------------------------
LEMMA StutterKeeps ==
  ASSUME IInv, UNCHANGED vars
  PROVE  IInv'
<1>1. /\ UNCHANGED <<file, draft, ring, lock, app, tab, command, dialog, remaining, decision, now>>
      /\ UNCHANGED <<edits, faults, owed, excused, settled>>
  BY DEF vars, disk, recovery, counters, history
<1>2. Typed' /\ SlotsDiffer' /\ PhasesAgree'
  BY <1>1 DEF IInv, Typed, SlotsDiffer, PhasesAgree
<1>3. \A d \in Drawing : DrawingInv(d)'
  BY <1>1, OthersKeep DEF IInv, Untouched
<1> QED
  BY <1>2, <1>3 DEF IInv

LEMMA StepKeeps == IInv /\ [Next]_vars => IInv'
<1> SUFFICES ASSUME IInv, [Next]_vars PROVE IInv'
  OBVIOUS
<1>1. ASSUME NEW d \in Drawing, Open(d) \/ Edit(d) \/ UpsertDraft(d) \/ SaveSnapshot(d) \/ SnapshotFails(d)
      PROVE  IInv'
  BY <1>1, OpenKeeps, EditKeeps, UpsertDraftKeeps, SaveSnapshotKeeps, CommandFailsKeeps
<1>2. ASSUME NEW d \in Drawing,
             Checkpoint(d) \/ BeginClose(d) \/ RemoveClosed(d) \/ CloseFails(d) \/ EndClose(d) \/ ForeignWrite(d)
      PROVE  IInv'
  BY <1>2, CheckpointKeeps, BeginCloseKeeps, RemoveClosedKeeps, CommandFailsKeeps, EndCloseKeeps, ForeignWriteKeeps
<1>3. ASSUME NEW d \in Drawing, NEW action \in {"restore", "saveAsNew", "discard"}, Decide(d, action)
      PROVE  IInv'
  BY <1>3, DecideKeeps
<1>4. ASSUME WriteCopy \/ RemoveSnapshots \/ DeleteDraft \/ Adopt \/ Finish \/ ApplyFails
      PROVE  IInv'
  <2>1. decision # None
    BY <1>4 DEF WriteCopy, RemoveSnapshots, DeleteDraft, Adopt, Finish, ApplyFails, Applying
  <2>2. PICK d \in Drawing : Deciding(d)
    BY <2>1, ApplyFacts
  <2> QED
    BY <1>4, <2>2, WriteCopyKeeps, RemoveSnapshotsKeeps, DeleteDraftKeeps, AdoptKeeps, FinishKeeps, ApplyFailsKeeps
<1>5. ASSUME Crash \/ Terminate \/ Quit \/ Launch \/ List \/ Tick
      PROVE  IInv'
  BY <1>5, CrashKeeps, TerminateKeeps, QuitKeeps, LaunchKeeps, ListKeeps, TickKeeps
<1>6. ASSUME UNCHANGED vars PROVE IInv'
  BY <1>6, StutterKeeps
<1> QED
  BY <1>1, <1>2, <1>3, <1>4, <1>5, <1>6 DEF Next

\* The invariant holds throughout.
LEMMA AlwaysIInv == Spec => []IInv
<1>1. RecoveryInit => IInv
  BY InitHolds
<1>2. IInv /\ [Next]_vars => IInv'
  BY StepKeeps
<1> QED
  BY <1>1, <1>2, PTL DEF Spec

-----------------------------------------------------------------------------
\* A ring has no more snapshots than slots.
LEMMA RingIsBounded ==
  ASSUME Typed, SlotsDiffer, NEW d \in Drawing
  PROVE  Len(ring[d]) <= Slots
<1> DEFINE slotOf == [i \in 1..Len(ring[d]) |-> ring[d][i].slot]
<1>1. Len(ring[d]) \in Nat /\ \A i \in 1..Len(ring[d]) : ring[d][i] \in Snapshot
  BY Kinds
<1>2. slotOf \in [1..Len(ring[d]) -> 1..Slots]
  BY <1>1 DEF Snapshot
<1>3. \A i, j \in 1..Len(ring[d]) : slotOf[i] = slotOf[j] => i = j
  BY DEF SlotsDiffer
<1> HIDE DEF slotOf
<1>4. slotOf \in Injection(1..Len(ring[d]), 1..Slots)
  BY <1>2, <1>3, Fun_IsInj
<1>5. /\ IsFiniteSet(1..Slots) /\ Cardinality(1..Slots) = Slots
      /\ Cardinality(1..Len(ring[d])) = Len(ring[d])
  <2>1. ASSUME NEW n \in Nat PROVE IsFiniteSet(1..n) /\ Cardinality(1..n) = n
    <3>1. IsFiniteSet(1..n) /\ Cardinality(1..n) = IF 1 > n THEN 0 ELSE n - 1 + 1
      BY FS_Interval
    <3> QED
      BY <3>1
  <2> QED
    BY <1>1, <2>1, RecoveryAssumption
<1>6. Cardinality(1..Len(ring[d])) <= Cardinality(1..Slots)
  BY <1>4, <1>5, FS_Injection
<1> QED
  BY <1>5, <1>6

\* Every variable has its kind, and a ring never more snapshots than
\* RECOVERY_SNAPSHOT_COUNT (recovery.rs, write_snapshot).
THEOREM TypeCorrect == Spec => []TypeOK
<1>1. IInv => TypeOK
  <2> SUFFICES ASSUME IInv PROVE TypeOK
    OBVIOUS
  <2>1. ASSUME NEW d \in Drawing
        PROVE  Len(ring[d]) <= Slots /\ Range(ring[d]) \subseteq Snapshot
    <3>1. ring[d] \in Seq(Snapshot)
      BY DEF IInv, Typed
    <3>2. Range(ring[d]) \subseteq Snapshot
      BY <3>1, LenProperties, ElementOfSeq DEF Range
    <3> QED
      BY <3>2, RingIsBounded DEF IInv
  <2> QED
    BY <2>1 DEF TypeOK, IInv, Typed
<1> QED
  BY <1>1, AlwaysIInv, PTL

\* An edit the app has answered for is in the file, in the snapshot Recovery
\* would take, in a tab or in the offer under way (recovery.rs,
\* commands/recovery.rs, recoveryManager.ts). Not covered is a restored scene
\* that only memory holds when the app ends or a decision fails: EndAbruptly and
\* ApplyFails take it from `owed`, and it is lost.
THEOREM EditsKeptHolds == Spec => []EditsKept
<1>1. IInv => EditsKept
  <2> SUFFICES ASSUME IInv, NEW d \in Drawing
               PROVE  Unsaved(d) \subseteq
                 UNION {IF ring[d] = <<>> THEN {} ELSE Latest(d).scene, SceneOf(tab[d]),
                        IF decision # None /\ decision.of = d THEN decision.scene ELSE {}}
    BY DEF EditsKept
  <2>1. \/ Unsaved(d) \subseteq IF ring[d] = <<>> THEN {} ELSE Latest(d).scene
        \/ Unsaved(d) \subseteq SceneOf(tab[d])
        \/ Unsaved(d) \subseteq IF decision # None /\ decision.of = d THEN decision.scene ELSE {}
    <3>1. CASE tab[d] # None
      BY <3>1 DEF IInv, DrawingInv, TabHolds, Unsaved, SceneOf
    <3>2. CASE Deciding(d)
      BY <3>2 DEF IInv, DrawingInv, OfferHolds, Unsaved, Deciding
    <3>3. CASE tab[d] = None /\ ~Deciding(d)
      BY <3>3 DEF IInv, DrawingInv, OnDisk, InHand
    <3> QED
      BY <3>1, <3>2, <3>3
  <2> QED
    BY <2>1
<1> QED
  BY <1>1, AlwaysIInv, PTL

\* While the app runs, a drawing with edits its file does not hold is open or
\* offered, unless a start had a reason to pass it over (recovery.rs, list).
THEOREM NothingOverlookedHolds == Spec => []NothingOverlooked
<1>1. IInv => NothingOverlooked
  BY DEF IInv, DrawingInv, NotOverlooked, NothingOverlooked
<1> QED
  BY <1>1, AlwaysIInv, PTL

-----------------------------------------------------------------------------
(* What was decided stays decided.                                         *)

\* The window has still to draft the drawing, or is about to.
Undrafted(d) == Upserted(d) \/ (tab[d] # None /\ tab[d].state = "dirty")

\* While decisions are applied an undrafted tab is one just restored, whose
\* snapshots are gone; the drawing of the offer under way is drafted, so that
\* nothing is written into the ring that is being removed.
SettledInv ==
  /\ \A d \in settled : ring[d] = <<>> /\ d \notin remaining
  /\ app = "deciding" => \A d \in Drawing : Undrafted(d) => ring[d] = <<>>
  /\ decision # None /\ decision.step # "adopted" =>
       /\ ~Undrafted(decision.of)
       /\ decision.step \in {"removed", "answered"} => ring[decision.of] = <<>>

\* What leaves the rings, the undrafted tabs, what was decided and the offer
\* under way alone.
LEMMA SettledKeeps ==
  ASSUME SettledInv, UNCHANGED <<ring, settled>>, remaining' \subseteq remaining,
         app' = "deciding" => app = "deciding",
         \A d \in Drawing : Undrafted(d)' => Undrafted(d),
         decision' = decision \/ decision' = None, decision # None => decision.of \in Drawing
  PROVE  SettledInv'
  BY DEF SettledInv

\* A ring that grows is one of a drawing that is drafted by it.
LEMMA SaveSnapshotSettles ==
  ASSUME IInv, SettledInv, NEW d \in Drawing, SaveSnapshot(d)
  PROVE  SettledInv'
<1>1. /\ Upserted(d) /\ command' = [command EXCEPT ![d] = None] /\ settled' = settled \ {d}
      /\ tab' = [tab EXCEPT ![d].restored = FALSE,
                 ![d].state = IF tab[d].scene = command[d].scene THEN "draftSaved" ELSE tab[d].state]
      /\ UNCHANGED <<app, decision, remaining>>
  BY DEF SaveSnapshot, Quiet
<1>2. \A e \in Drawing \ {d} : ring'[e] = ring[e]
  <2>1. command[d].scene \in Scene /\ command[d].base \in Scene /\ command[d].at \in Time
    BY <1>1, Kinds DEF IInv, Upserted, Running, Command
  <2> QED
    BY <2>1, WriteFacts DEF SaveSnapshot, IInv
<1>3. tab[d] # None /\ tab[d] \in Tab
  BY <1>1, Kinds DEF IInv, DrawingInv, TabHolds, Upserted, Running
<1>4. /\ command'[d] = None /\ \A e \in Drawing \ {d} : command'[e] = command[e] /\ tab'[e] = tab[e]
      /\ tab'[d].state = IF tab[d].scene = command[d].scene THEN "draftSaved" ELSE tab[d].state
  BY <1>1, <1>3 DEF IInv, Typed, Tab
<1>5. app = "deciding" => ~Undrafted(d)'
  <2>1. app = "deciding" => command[d].scene = tab[d].scene
    BY <1>1, <1>3 DEF IInv, DrawingInv, ScenesAgree
  <2> QED
    BY <1>4, <2>1 DEF Undrafted, Upserted, Running
<1>6. \A e \in Drawing \ {d} : Undrafted(e)' <=> Undrafted(e)
  BY <1>4 DEF Undrafted, Upserted, Running
<1>7. decision # None /\ decision.step # "adopted" => decision.of \in Drawing \ {d}
  <2>1. decision # None => decision.of \in Drawing
    BY ApplyFacts
  <2> QED
    BY <1>1, <2>1 DEF SettledInv, Undrafted
<1>8. \A e \in settled' : ring'[e] = <<>> /\ e \notin remaining'
  <2>1. settled \subseteq Drawing
    BY DEF IInv, Typed
  <2> QED
    BY <1>1, <1>2, <2>1 DEF SettledInv
<1>9. app' = "deciding" => \A e \in Drawing : Undrafted(e)' => ring'[e] = <<>>
  <2>1. \A e \in Drawing \ {d} : app = "deciding" /\ Undrafted(e) => ring[e] = <<>>
    BY DEF SettledInv
  <2> QED
    BY <1>1, <1>2, <1>5, <1>6, <2>1
<1>10. ASSUME decision # None, decision.step # "adopted", NEW e \in Drawing \ {d}, e = decision.of
       PROVE  ~Undrafted(e)' /\ (decision.step \in {"removed", "answered"} => ring'[e] = <<>>)
  <2>1. ~Undrafted(e) /\ (decision.step \in {"removed", "answered"} => ring[e] = <<>>)
    BY <1>10 DEF SettledInv
  <2> QED
    BY <1>2, <1>6, <2>1
<1> QED
  BY <1>1, <1>7, <1>8, <1>9, <1>10 DEF SettledInv

\* A draft is begun of an undrafted tab only.
LEMMA UpsertDraftSettles ==
  ASSUME IInv, SettledInv, NEW d \in Drawing, UpsertDraft(d)
  PROVE  SettledInv'
<1>1. /\ tab[d] # None /\ tab[d].state = "dirty"
      /\ \E saving : command' = [command EXCEPT ![d] = saving]
      /\ UNCHANGED <<ring, settled, remaining, app, decision, tab>>
  BY DEF UpsertDraft, Quiet, history
<1>2. \A e \in Drawing \ {d} : command'[e] = command[e]
  BY <1>1 DEF IInv, Typed
<1>3. \A e \in Drawing : Undrafted(e)' => Undrafted(e)
  BY <1>1, <1>2 DEF Undrafted, Upserted, Running
<1> QED
  BY <1>1, <1>3, SettledKeeps, ApplyFacts

\* Other steps of a window: they draw only when no decision is applied, and a
\* ring only loses snapshots then.
LEMMA WindowSettles ==
  ASSUME IInv, SettledInv, NEW d \in Drawing,
         \/ Open(d) \/ Edit(d) \/ SnapshotFails(d) \/ Checkpoint(d) \/ BeginClose(d)
         \/ RemoveClosed(d) \/ CloseFails(d) \/ EndClose(d) \/ ForeignWrite(d)
  PROVE  SettledInv'
<1>1. UNCHANGED <<settled, remaining, app, decision>>
  BY DEF Open, Edit, SnapshotFails, Checkpoint, BeginClose, RemoveClosed, CloseFails, EndClose, ForeignWrite,
    Quiet, history, recovery
<1>2. decision # None => app = "deciding" /\ decision.of \in Drawing
  BY ApplyFacts
<1>3. CASE Open(d) \/ Edit(d)
  <2>1. app = "working" /\ ring' = ring
    BY <1>3 DEF Open, Edit, disk
  <2> QED
    BY <1>1, <1>2, <2>1 DEF SettledInv
<1>4. CASE RemoveClosed(d) \/ EndClose(d) \/ BeginClose(d)
  <2>1. app = "working"
    BY <1>4, ClosingIsSaved DEF RemoveClosed, EndClose, BeginClose
  <2>2. \A e \in Drawing : ring[e] = <<>> => ring'[e] = <<>>
    <3>1. CASE RemoveClosed(d)
      <4>1. \A e \in Drawing \ {d} : ring'[e] = ring[e]
        BY <3>1, SlotGone DEF RemoveClosed, IInv
      <4>2. ring[d] # <<>>
        BY <3>1 DEF RemoveClosed, RemoveSlot
      <4> QED
        BY <4>1, <4>2
    <3>2. CASE EndClose(d) \/ BeginClose(d)
      BY <3>2 DEF EndClose, BeginClose, disk
    <3> QED
      BY <1>4, <3>1, <3>2
  <2>3. settled \subseteq Drawing
    BY DEF IInv, Typed
  <2> QED
    BY <1>1, <1>2, <2>1, <2>2, <2>3 DEF SettledInv
<1>5. CASE SnapshotFails(d) \/ CloseFails(d)
  <2>1. command' = [command EXCEPT ![d] = None] /\ UNCHANGED <<tab, ring>>
    BY <1>5 DEF SnapshotFails, CloseFails, disk
  <2>2. \A e \in Drawing : Undrafted(e)' => Undrafted(e)
    BY <2>1 DEF Undrafted, Upserted, Running, IInv, Typed
  <2> QED
    BY <1>1, <1>2, <2>1, <2>2, SettledKeeps
<1>6. CASE Checkpoint(d)
  <2>1. /\ tab[d] # None /\ tab[d] \in Tab /\ UNCHANGED <<command, ring>>
        /\ tab' = [tab EXCEPT ![d].state = "clean", ![d].restored = FALSE]
    BY <1>6, Kinds DEF Checkpoint, IInv
  <2>2. tab'[d].state = "clean" /\ \A e \in Drawing \ {d} : tab'[e] = tab[e]
    BY <2>1 DEF IInv, Typed, Tab
  <2>3. \A e \in Drawing : Undrafted(e)' => Undrafted(e)
    BY <2>1, <2>2 DEF Undrafted, Upserted, Running
  <2> QED
    BY <1>1, <1>2, <2>1, <2>3, SettledKeeps
<1>7. CASE ForeignWrite(d)
  <2>1. UNCHANGED <<ring, tab, command>>
    BY <1>7 DEF ForeignWrite
  <2>2. \A e \in Drawing : Undrafted(e)' => Undrafted(e)
    BY <2>1 DEF Undrafted, Upserted, Running
  <2> QED
    BY <1>1, <1>2, <2>1, <2>2, SettledKeeps
<1> QED
  BY <1>3, <1>4, <1>5, <1>6, <1>7

\* The drawing of a decision has snapshots, so it is drafted.
LEMMA DecideSettles ==
  ASSUME IInv, SettledInv, NEW d \in Drawing, NEW action \in {"restore", "saveAsNew", "discard"},
         Decide(d, action)
  PROVE  SettledInv'
<1>1. /\ app = "deciding" /\ ring[d] # <<>> /\ decision'.of = d /\ decision'.step = "read"
      /\ UNCHANGED <<ring, settled, remaining, app, tab, command>>
  BY DEF Decide, disk
<1>2. ~Undrafted(d)
  BY <1>1 DEF SettledInv
<1>3. \A e \in Drawing : Undrafted(e)' <=> Undrafted(e)
  BY <1>1 DEF Undrafted, Upserted, Running
<1> QED
  BY <1>1, <1>2, <1>3 DEF SettledInv

LEMMA RemoveSnapshotsSettles ==
  ASSUME IInv, SettledInv, NEW d \in Drawing, Deciding(d), RemoveSnapshots
  PROVE  SettledInv'
<1> decision # None /\ decision.of = d
  BY DEF Deciding
<1> DEFINE step == IF ring'[d] = <<>> THEN "removed" ELSE "removing"
<1>1. /\ decision.step # "adopted" /\ RemoveSlot(d) /\ Goto(step)
      /\ tab' = IF tab[d] = None THEN tab ELSE [tab EXCEPT ![d].restored = TRUE]
      /\ UNCHANGED <<settled, remaining, app, command>>
  BY DEF RemoveSnapshots, Applying, Applied, history
<1>2. \A e \in Drawing \ {d} : ring'[e] = ring[e]
  BY <1>1, SlotGone DEF IInv
<1>3. ring[d] # <<>>
  BY <1>1 DEF RemoveSlot
<1>4. decision'.of = d /\ (decision'.step \in {"removed", "answered"} => ring'[d] = <<>>)
  <2>1. step \in {"removed", "removing"}
    OBVIOUS
  <2>2. decision'.of = d /\ decision'.step = step
    <3> HIDE DEF step
    <3> QED
      BY <1>1, <2>1, GotoFacts
  <2> QED
    BY <2>2
<1>5. \A e \in Drawing : Undrafted(e)' <=> Undrafted(e)
  <2>1. tab[d] # None => tab[d] \in Tab
    BY Kinds DEF IInv
  <2>2. \A e \in Drawing : (tab'[e] = None <=> tab[e] = None) /\ (tab[e] # None => tab'[e].state = tab[e].state)
    BY <1>1, <2>1, Kinds DEF IInv, Typed, Tab
  <2> QED
    BY <1>1, <2>2 DEF Undrafted, Upserted, Running
<1>6. ~Undrafted(d) /\ d \notin settled /\ settled \subseteq Drawing
  BY <1>1, <1>3 DEF SettledInv, IInv, Typed
<1> QED
  BY <1>1, <1>2, <1>4, <1>5, <1>6 DEF SettledInv

\* Whoever is answered has no snapshot, and is restored as undrafted.
LEMMA AdoptSettles ==
  ASSUME IInv, SettledInv, NEW d \in Drawing, Deciding(d), Adopt
  PROVE  SettledInv'
<1> decision # None /\ decision.of = d
  BY DEF Deciding
<1>1. /\ decision.step = "answered" /\ Goto("adopted")
      /\ remaining' = remaining \ {d} /\ settled' = settled \union {d}
      /\ UNCHANGED <<ring, app, command>>
      /\ \A e \in Drawing \ {d} : tab'[e] = tab[e]
  BY DEF Adopt, Applying, Applied, disk, IInv, Typed
<1>2. decision'.step = "adopted"
  BY <1>1, GotoFacts
<1>3. ring[d] = <<>>
  BY <1>1 DEF SettledInv
<1>4. \A e \in Drawing \ {d} : Undrafted(e)' <=> Undrafted(e)
  BY <1>1 DEF Undrafted, Upserted, Running
<1> QED
  BY <1>1, <1>2, <1>3, <1>4 DEF SettledInv

LEMMA OtherDecisionsSettle ==
  ASSUME IInv, SettledInv, NEW d \in Drawing, Deciding(d), WriteCopy \/ DeleteDraft \/ Finish \/ ApplyFails
  PROVE  SettledInv'
<1> decision # None /\ decision.of = d
  BY DEF Deciding
<1>1. /\ UNCHANGED <<ring, settled, remaining, tab, command>>
      /\ app' = app \/ app' = "working"
  BY DEF WriteCopy, DeleteDraft, Finish, ApplyFails, Applied, disk, history
<1>2. \A e \in Drawing : Undrafted(e)' <=> Undrafted(e)
  BY <1>1 DEF Undrafted, Upserted, Running
<1>3. CASE Finish \/ ApplyFails
  <2>1. decision' = None
    BY <1>3 DEF Finish, ApplyFails
  <2> QED
    BY <1>1, <1>2, <2>1, SettledKeeps, Zenon
<1>4. CASE WriteCopy
  <2>1. decision.step = "read" /\ Goto("copied")
    BY <1>4 DEF WriteCopy, Applying
  <2>2. decision'.of = d /\ decision'.step = "copied"
    BY <2>1, GotoFacts
  <2> QED
    BY <1>1, <1>2, <2>1, <2>2 DEF SettledInv
<1>5. CASE DeleteDraft
  <2>1. decision.step = "removed" /\ Goto("answered")
    BY <1>5 DEF DeleteDraft, Applying
  <2>2. decision'.of = d /\ decision'.step = "answered"
    BY <2>1, GotoFacts
  <2> QED
    BY <1>1, <1>2, <2>1, <2>2 DEF SettledInv
<1> QED
  BY <1>3, <1>4, <1>5

\* A start offers what has snapshots, before anything is undrafted.
LEMMA PhasesSettle ==
  ASSUME IInv, SettledInv, Crash \/ Terminate \/ Quit \/ Launch \/ List \/ Tick
  PROVE  SettledInv'
<1>1. UNCHANGED <<ring, settled>>
  BY DEF Crash, Terminate, EndAbruptly, Quit, Launch, List, Tick, disk, history
<1>2. CASE Crash \/ Terminate \/ Quit \/ Launch
  <2>1. /\ app' # "deciding" /\ decision' = None /\ remaining' \subseteq remaining
    <3>1. CASE Crash \/ Terminate \/ Quit
      BY <3>1 DEF Crash, Terminate, EndAbruptly, Quit
    <3>2. CASE Launch
      <4>1. decision = None
        BY <3>2 DEF IInv, PhasesAgree, Launch
      <4> QED
        BY <3>2, <4>1 DEF Launch, recovery
    <3> QED
      BY <1>2, <3>1, <3>2
  <2> QED
    BY <1>1, <2>1 DEF SettledInv
<1>3. CASE List
  <2>1. /\ decision' = decision /\ remaining' = Candidates /\ UNCHANGED <<tab, command>>
        /\ app = "checking"
    BY <1>3 DEF List
  <2>2. decision' = None /\ \A d \in Drawing : ~Undrafted(d)'
    BY <2>1, NothingRuns DEF Undrafted, Upserted, Running, IInv, PhasesAgree
  <2>3. \A d \in settled : ring[d] = <<>> /\ d \notin Candidates
    BY DEF SettledInv, Candidates
  <2> QED
    BY <1>1, <2>1, <2>2, <2>3 DEF SettledInv
<1>4. CASE Tick
  <2>1. UNCHANGED <<tab, command, remaining, decision, app>>
    BY <1>4 DEF Tick, recovery
  <2>2. \A d \in Drawing : Undrafted(d)' => Undrafted(d)
    BY <2>1 DEF Undrafted, Upserted, Running
  <2> QED
    BY <1>1, <2>1, <2>2, SettledKeeps, ApplyFacts
<1> QED
  BY <1>2, <1>3, <1>4

LEMMA SettledStep == IInv /\ SettledInv /\ [Next]_vars => SettledInv'
<1> SUFFICES ASSUME IInv, SettledInv, [Next]_vars PROVE SettledInv'
  OBVIOUS
<1>1. ASSUME NEW d \in Drawing, Open(d) \/ Edit(d) \/ UpsertDraft(d) \/ SaveSnapshot(d) \/ SnapshotFails(d)
      PROVE  SettledInv'
  BY <1>1, WindowSettles, UpsertDraftSettles, SaveSnapshotSettles
<1>2. ASSUME NEW d \in Drawing,
             Checkpoint(d) \/ BeginClose(d) \/ RemoveClosed(d) \/ CloseFails(d) \/ EndClose(d) \/ ForeignWrite(d)
      PROVE  SettledInv'
  BY <1>2, WindowSettles
<1>3. ASSUME NEW d \in Drawing, NEW action \in {"restore", "saveAsNew", "discard"}, Decide(d, action)
      PROVE  SettledInv'
  BY <1>3, DecideSettles
<1>4. ASSUME WriteCopy \/ RemoveSnapshots \/ DeleteDraft \/ Adopt \/ Finish \/ ApplyFails
      PROVE  SettledInv'
  <2>1. decision # None
    BY <1>4 DEF WriteCopy, RemoveSnapshots, DeleteDraft, Adopt, Finish, ApplyFails, Applying
  <2>2. PICK d \in Drawing : Deciding(d)
    BY <2>1, ApplyFacts
  <2> QED
    BY <1>4, <2>2, OtherDecisionsSettle, RemoveSnapshotsSettles, AdoptSettles
<1>5. ASSUME Crash \/ Terminate \/ Quit \/ Launch \/ List \/ Tick
      PROVE  SettledInv'
  BY <1>5, PhasesSettle
<1>6. ASSUME UNCHANGED vars PROVE SettledInv'
  BY <1>6 DEF vars, disk, recovery, history, SettledInv, Undrafted, Upserted, Running
<1> QED
  BY <1>1, <1>2, <1>3, <1>4, <1>5, <1>6 DEF Next

\* What was decided to the end is not offered again before it is drafted
\* again (commands/recovery.rs, recoveryManager.ts), whatever crashes or fails
\* in between.
THEOREM DecidedStaysHolds == Spec => []DecidedStays
<1>1. RecoveryInit => SettledInv
  BY DEF RecoveryInit, SettledInv
<1>2. IInv /\ SettledInv /\ [Next]_vars => SettledInv'
  BY SettledStep
<1>3. SettledInv => DecidedStays
  BY DEF SettledInv, DecidedStays
<1> QED
  BY <1>1, <1>2, <1>3, AlwaysIInv, PTL DEF Spec
===============================================================================
