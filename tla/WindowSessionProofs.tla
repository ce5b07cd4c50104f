-------------------------- MODULE WindowSessionProofs --------------------------
(***************************************************************************)
(* Proofs about QuitCoordinator, for any windows and any number of quits,  *)
(* and then about WindowSession in the settings of MCWindowSession, with   *)
(* any bound of the queue.                                                 *)
(***************************************************************************)
EXTENDS MCWindowSession, SequenceTheorems, TLAPS

-----------------------------------------------------------------------------
(* The quits: Spec is that of QuitCoordinator.                              *)

\* A window that is there, or is about to be, and would go down with the app.
AtStake(w) == windows[w] \in {"booting", "open", "closing"}

\* No window is asked before it is created.
CreatedBeforeAsked ==
  \A r \in RequestId, w \in Window : windows[w] = "none" => answers[r][w] = "none"

\* Nobody has been asked for a quit yet to come.
AskedInTurn ==
  \A r \in RequestId, w \in Window : r > quit.id => answers[r][w] = "none"

\* An answer under way is one that its window gave.
ReportsAreAnswers ==
  \A r \in RequestId, w \in Window : <<r, w>> \in reports => answers[r][w] \in {"saved", "failed"}

\* A collecting quit has been given a number, and has windows to wait for.
Collects == quit.at = "collecting" => quit.id \in RequestId /\ quit.pending # {}

\* Without a quit that collects there is nobody to wait for.
OnlyCollectingWaits == quit.at # "collecting" => quit.pending = {}

\* Each window that a quit does not wait for any more has checkpointed for it,
\* or was not there to be asked.
PassedOver ==
  quit.at # "idle" =>
    \A r \in {quit.id} \intersect RequestId, w \in Window \ quit.pending :
      AtStake(w) => answers[r][w] \in {"none", "saved"}

\* The deadline of a collecting quit is yet to come.
DeadlineStands == quit.at = "collecting" => quit.id \in timers

\* Whoever it waits for has not answered, or the answer is on its way.
PendingIsOpen ==
  quit.at = "collecting" =>
    \A w \in quit.pending :
      /\ windows[w] # "none"
      /\ AtStake(w) => \/ answers[quit.id][w] \in {"asked", "unheard"}
                       \/ <<quit.id, w>> \in reports

IInv ==
  /\ TypeOK
  /\ CreatedBeforeAsked
  /\ AskedInTurn
  /\ ReportsAreAnswers
  /\ Collects
  /\ OnlyCollectingWaits
  /\ PassedOver
  /\ DeadlineStands
  /\ PendingIsOpen

-----------------------------------------------------------------------------
LEMMA QuitInitHolds == Init => IInv
<1> SUFFICES ASSUME Init PROVE IInv
  OBVIOUS
<1>1. TypeOK
  BY WindowAssumption, RequestAssumption DEF Init, TypeOK, Life, RequestId
<1>2. CreatedBeforeAsked /\ AskedInTurn /\ ReportsAreAnswers
  BY DEF Init, CreatedBeforeAsked, AskedInTurn, ReportsAreAnswers
<1>3. Collects /\ OnlyCollectingWaits /\ PassedOver /\ DeadlineStands /\ PendingIsOpen
  BY DEF Init, Collects, OnlyCollectingWaits, PassedOver, DeadlineStands, PendingIsOpen
<1> QED
  BY <1>1, <1>2, <1>3 DEF IInv


LEMMA RequestKeeps == IInv /\ RequestQuit => IInv'
<1> SUFFICES ASSUME IInv, RequestQuit PROVE IInv'
  OBVIOUS
<1> USE RequestAssumption DEF RequestId
<1>1. CASE Labels = {}
  <2>1. \A w \in Window : windows[w] \in {"none", "gone"}
    BY <1>1 DEF Labels
  <2>2. /\ quit'.at = "exiting" /\ quit'.id = quit.id /\ quit'.pending = {}
        /\ quit' \in [at : {"idle", "collecting", "exiting"}, id : 0..MaxRequest, pending : SUBSET Window]
        /\ UNCHANGED <<windows, unsaved, answers, timers, reports>>
    BY <1>1 DEF RequestQuit, IInv, TypeOK, OnlyCollectingWaits
  <2>3. TypeOK' /\ CreatedBeforeAsked' /\ AskedInTurn' /\ ReportsAreAnswers'
    BY <2>2 DEF IInv, TypeOK, CreatedBeforeAsked, AskedInTurn, ReportsAreAnswers
  <2>4. Collects' /\ OnlyCollectingWaits' /\ DeadlineStands' /\ PendingIsOpen'
    BY <2>2 DEF Collects, OnlyCollectingWaits, DeadlineStands, PendingIsOpen
  <2>5. PassedOver'
    BY <2>1, <2>2 DEF PassedOver, AtStake
  <2> QED
    BY <2>3, <2>4, <2>5 DEF IInv
<1>2. CASE Labels # {}
  <2> DEFINE r == quit.id + 1
             asked == [w \in Window |-> IF w \notin Labels THEN "none"
                                        ELSE IF Alive(w) THEN "asked" ELSE "unheard"]
  <2>1. /\ quit' = [at |-> "collecting", id |-> r, pending |-> Labels]
        /\ answers' = [answers EXCEPT ![r] = asked]
        /\ timers' = timers \union {r}
        /\ UNCHANGED <<windows, unsaved, reports>>
        /\ r \in RequestId
    BY <1>2 DEF RequestQuit, IInv, TypeOK
  <2>2. Labels \subseteq Window
    BY DEF Labels
  <2>3. /\ quit'.at = "collecting" /\ quit'.id = r /\ quit'.pending = Labels
        /\ quit' \in [at : {"idle", "collecting", "exiting"}, id : 0..MaxRequest, pending : SUBSET Window]
    BY <2>1, <2>2
  <2>4. asked \in [Window -> {"none", "unheard", "asked", "saved", "failed"}]
    OBVIOUS
  <2>5. TypeOK'
    BY <2>1, <2>3, <2>4 DEF IInv, TypeOK
  <2>6. /\ answers'[r] = asked
        /\ \A q \in RequestId : q # r => answers'[q] = answers[q]
    BY <2>1 DEF IInv, TypeOK
  <2>7. CreatedBeforeAsked'
    BY <2>1, <2>6 DEF IInv, CreatedBeforeAsked, Labels
  <2>8. \A w \in Window : <<r, w>> \notin reports
    BY <2>1 DEF IInv, TypeOK, AskedInTurn, ReportsAreAnswers
  <2>13. AskedInTurn'
    BY <2>1, <2>3, <2>6 DEF IInv, TypeOK, AskedInTurn
  <2>9. ReportsAreAnswers'
    BY <2>1, <2>6, <2>8 DEF IInv, ReportsAreAnswers
  <2>10. Collects' /\ OnlyCollectingWaits' /\ DeadlineStands'
    BY <1>2, <2>1, <2>3 DEF Collects, OnlyCollectingWaits, DeadlineStands
  <2>11. PassedOver'
    BY <2>1, <2>3, <2>6 DEF PassedOver, Labels
  <2>12. PendingIsOpen'
    BY <2>1, <2>2, <2>3, <2>6 DEF PendingIsOpen, Labels, AtStake, Alive
  <2> QED
    BY <2>5, <2>7, <2>9, <2>10, <2>11, <2>12, <2>13 DEF IInv
<1> QED
  BY <1>1, <1>2

-----------------------------------------------------------------------------
\* A quit that gives up, whatever for.
LEMMA CancelKeeps ==
  ASSUME IInv, quit' = Cancelled, UNCHANGED <<windows, answers>>,
         reports' \subseteq reports, timers' \subseteq timers, UNCHANGED unsaved
  PROVE  IInv'
<1>1. quit' = [at |-> "idle", id |-> quit.id, pending |-> {}]
  BY DEF Cancelled
<1>2. TypeOK'
  BY <1>1 DEF IInv, TypeOK
<1>3. CreatedBeforeAsked' /\ AskedInTurn' /\ ReportsAreAnswers'
  BY <1>1 DEF IInv, CreatedBeforeAsked, AskedInTurn, ReportsAreAnswers
<1>4. Collects' /\ OnlyCollectingWaits' /\ PassedOver' /\ DeadlineStands' /\ PendingIsOpen'
  BY <1>1 DEF Collects, OnlyCollectingWaits, PassedOver, DeadlineStands, PendingIsOpen
<1> QED
  BY <1>2, <1>3, <1>4 DEF IInv

\* A window that has checkpointed, or is gone, is let go of.
LEMMA LetGoKeeps ==
  ASSUME IInv, NEW w \in quit.pending, quit.at = "collecting", quit' = Without(w),
         UNCHANGED <<unsaved, answers, timers>>,
         reports' \subseteq reports, reports \subseteq reports' \union {<<quit.id, w>>},
         windows' \in [Window -> Life],
         \A v \in Window \ {w} : windows'[v] = windows[v],
         windows[w] # "none", windows'[w] # "none",
         \A r \in {quit.id} : windows'[w] = "destroyed" \/ answers[r][w] = "saved"
  PROVE  IInv'
<1> DEFINE left == quit.pending \ {w}
<1>1. /\ quit'.at = IF left = {} THEN "exiting" ELSE "collecting"
      /\ quit'.id = quit.id /\ quit'.pending = left
      /\ quit' \in [at : {"idle", "collecting", "exiting"}, id : 0..MaxRequest, pending : SUBSET Window]
  <2>1. quit' = [at |-> IF left = {} THEN "exiting" ELSE "collecting",
                 id |-> quit.id, pending |-> left]
    BY DEF Without
  <2>2. left \subseteq Window /\ quit.id \in 0..MaxRequest
    BY DEF IInv, TypeOK
  <2> QED
    BY <2>1, <2>2
<1>2. w \in Window
  BY DEF IInv, TypeOK
<1>3. TypeOK'
  BY <1>1 DEF IInv, TypeOK
<1>4. CreatedBeforeAsked' /\ AskedInTurn' /\ ReportsAreAnswers'
  BY <1>1, <1>2 DEF IInv, CreatedBeforeAsked, AskedInTurn, ReportsAreAnswers
<1>5. Collects' /\ OnlyCollectingWaits' /\ DeadlineStands'
  BY <1>1 DEF IInv, Collects, OnlyCollectingWaits, DeadlineStands
<1>6. PassedOver'
  BY <1>1, <1>2 DEF IInv, PassedOver, AtStake
<1>7. PendingIsOpen'
  BY <1>1, <1>2 DEF IInv, TypeOK, PendingIsOpen, AtStake, Alive
<1> QED
  BY <1>3, <1>4, <1>5, <1>6, <1>7 DEF IInv

LEMMA ReadyKeeps ==
  ASSUME IInv, NEW r \in RequestId, NEW w \in Window, Ready(r, w)
  PROVE  IInv'
<1>1. CASE ~(quit.at = "collecting" /\ quit.id = r /\ w \in quit.pending)
  <2>1. /\ reports' = reports \ {<<r, w>>}
        /\ UNCHANGED <<quit, windows, unsaved, answers, timers>>
    BY <1>1 DEF Ready
  <2>2. TypeOK' /\ CreatedBeforeAsked' /\ AskedInTurn' /\ ReportsAreAnswers'
    BY <2>1 DEF IInv, TypeOK, CreatedBeforeAsked, AskedInTurn, ReportsAreAnswers
  <2>3. Collects' /\ OnlyCollectingWaits' /\ PassedOver' /\ DeadlineStands'
    BY <2>1 DEF IInv, Collects, OnlyCollectingWaits, PassedOver, DeadlineStands, AtStake
  <2>4. PendingIsOpen'
    BY <1>1, <2>1 DEF IInv, PendingIsOpen, AtStake, Alive
  <2> QED
    BY <2>2, <2>3, <2>4 DEF IInv
<1>2. CASE /\ quit.at = "collecting" /\ quit.id = r /\ w \in quit.pending
           /\ answers[r][w] # "saved"
  BY <1>2, CancelKeeps DEF Ready
<1>3. CASE /\ quit.at = "collecting" /\ quit.id = r /\ w \in quit.pending
           /\ answers[r][w] = "saved"
  <2>1. /\ quit' = Without(w)
        /\ reports' = reports \ {<<r, w>>}
        /\ UNCHANGED <<windows, unsaved, answers, timers>>
    BY <1>3 DEF Ready
  <2>2. windows \in [Window -> Life] /\ windows[w] # "none"
    BY <1>3 DEF IInv, TypeOK, CreatedBeforeAsked
  <2> QED
    BY <1>3, <2>1, <2>2, LetGoKeeps
<1> QED
  BY <1>1, <1>2, <1>3

LEMMA DestroyedKeeps ==
  ASSUME IInv, NEW w \in Window, WindowDestroyed(w)
  PROVE  IInv'
<1>1. /\ windows' \in [Window -> Life]
      /\ windows'[w] = "destroyed" /\ windows[w] # "none"
      /\ \A v \in Window \ {w} : windows'[v] = windows[v]
      /\ UNCHANGED <<unsaved, answers, reports, timers>>
  BY DEF WindowDestroyed, IInv, TypeOK, Life
<1>2. CASE quit.at = "collecting" /\ w \in quit.pending
  BY <1>1, <1>2, LetGoKeeps DEF WindowDestroyed
<1>3. CASE ~(quit.at = "collecting" /\ w \in quit.pending)
  <2>1. UNCHANGED quit
    BY <1>3 DEF WindowDestroyed
  <2>2. TypeOK' /\ CreatedBeforeAsked' /\ AskedInTurn' /\ ReportsAreAnswers'
    BY <1>1, <2>1 DEF IInv, TypeOK, CreatedBeforeAsked, AskedInTurn, ReportsAreAnswers
  <2>3. Collects' /\ OnlyCollectingWaits' /\ DeadlineStands'
    BY <1>1, <2>1 DEF IInv, Collects, OnlyCollectingWaits, DeadlineStands
  <2>4. PassedOver'
    BY <1>1, <2>1 DEF IInv, PassedOver, AtStake
  <2>5. PendingIsOpen'
    BY <1>1, <2>1 DEF IInv, TypeOK, PendingIsOpen, AtStake, Alive
  <2> QED
    BY <2>2, <2>3, <2>4, <2>5 DEF IInv
<1> QED
  BY <1>2, <1>3

LEMMA DeadlineKeeps ==
  ASSUME IInv, NEW r \in RequestId, CheckDeadline(r)
  PROVE  IInv'
<1>1. CASE quit.at = "collecting" /\ quit.id = r
  BY <1>1, CancelKeeps DEF CheckDeadline
<1>2. CASE ~(quit.at = "collecting" /\ quit.id = r)
  <2>1. /\ timers' = timers \ {r}
        /\ UNCHANGED <<quit, windows, unsaved, answers, reports>>
    BY <1>2 DEF CheckDeadline
  <2>2. TypeOK' /\ CreatedBeforeAsked' /\ AskedInTurn' /\ ReportsAreAnswers'
    BY <2>1 DEF IInv, TypeOK, CreatedBeforeAsked, AskedInTurn, ReportsAreAnswers
  <2>3. Collects' /\ OnlyCollectingWaits' /\ PassedOver' /\ DeadlineStands' /\ PendingIsOpen'
    BY <1>2, <2>1 DEF IInv, Collects, OnlyCollectingWaits, PassedOver, DeadlineStands,
                      PendingIsOpen, AtStake, Alive
  <2> QED
    BY <2>2, <2>3 DEF IInv
<1> QED
  BY <1>1, <1>2

LEMMA CheckpointKeeps ==
  ASSUME IInv, NEW r \in RequestId, NEW w \in Window, Checkpoint(r, w)
  PROVE  IInv'
<1>1. PICK s \in {"saved", "failed"} : answers' = [answers EXCEPT ![r][w] = s]
  BY DEF Checkpoint
<1>2. /\ answers' \in [RequestId -> [Window -> {"none", "unheard", "asked", "saved", "failed"}]]
      /\ answers'[r][w] = s
      /\ \A q \in RequestId, v \in Window : q # r \/ v # w => answers'[q][v] = answers[q][v]
  BY <1>1 DEF IInv, TypeOK
<1>3. /\ answers[r][w] = "asked" /\ Alive(w)
      /\ reports' = reports \union {<<r, w>>}
      /\ unsaved' \in [Window -> BOOLEAN]
      /\ UNCHANGED <<windows, quit, timers>>
  BY DEF Checkpoint, IInv, TypeOK
<1>4. TypeOK'
  BY <1>2, <1>3 DEF IInv, TypeOK
<1>5. CreatedBeforeAsked'
  BY <1>2, <1>3 DEF IInv, CreatedBeforeAsked
<1>6. AskedInTurn'
  BY <1>2, <1>3 DEF IInv, AskedInTurn
<1>7. ReportsAreAnswers'
  BY <1>2, <1>3 DEF IInv, ReportsAreAnswers
<1>8. Collects' /\ OnlyCollectingWaits' /\ DeadlineStands'
  BY <1>3 DEF IInv, Collects, OnlyCollectingWaits, DeadlineStands
<1>9. PassedOver'
  BY <1>2, <1>3 DEF IInv, PassedOver, AtStake
<1>10. PendingIsOpen'
  BY <1>2, <1>3 DEF IInv, TypeOK, Collects, PendingIsOpen, AtStake, Alive
<1> QED
  BY <1>4, <1>5, <1>6, <1>7, <1>8, <1>9, <1>10 DEF IInv

\* The steps of a window's life that the coordinator has no part in.
LifeStep(w) == CloseWindow(w) \/ Edit(w) \/ CreateWindow(w) \/ Listen(w) \/ Unregister(w)

LEMMA LifeKeeps ==
  ASSUME IInv, NEW w \in Window, LifeStep(w)
  PROVE  IInv'
<1>1. /\ UNCHANGED <<quit, answers, reports, timers>>
      /\ windows' \in [Window -> Life]
      /\ unsaved' \in [Window -> BOOLEAN]
      /\ \A v \in Window \ {w} : windows'[v] = windows[v]
  BY DEF LifeStep, CloseWindow, Edit, CreateWindow, Listen, Unregister, quitVars,
         IInv, TypeOK, Life
<1>2. /\ windows'[w] # "none" \/ windows'[w] = windows[w]
      /\ AtStake(w)' => AtStake(w) \/ windows[w] = "none"
      /\ Alive(w)' => AtStake(w)
  BY DEF LifeStep, CloseWindow, Edit, CreateWindow, Listen, Unregister, Alive, AtStake,
         IInv, TypeOK
<1>3. TypeOK' /\ AskedInTurn' /\ ReportsAreAnswers'
  BY <1>1 DEF IInv, TypeOK, AskedInTurn, ReportsAreAnswers
<1>4. CreatedBeforeAsked'
  BY <1>1, <1>2 DEF IInv, CreatedBeforeAsked
<1>5. Collects' /\ OnlyCollectingWaits' /\ DeadlineStands'
  BY <1>1 DEF IInv, Collects, OnlyCollectingWaits, DeadlineStands
<1>6. PassedOver'
  BY <1>1, <1>2 DEF IInv, PassedOver, AtStake, CreatedBeforeAsked
<1>7. PendingIsOpen'
  BY <1>1, <1>2 DEF IInv, TypeOK, PendingIsOpen, AtStake, Alive
<1> QED
  BY <1>3, <1>4, <1>5, <1>6, <1>7 DEF IInv

-----------------------------------------------------------------------------
LEMMA QuitStepKeeps == IInv /\ [Next]_vars => IInv'
<1> SUFFICES ASSUME IInv, [Next]_vars PROVE IInv'
  OBVIOUS
<1>1. CASE RequestQuit
  BY <1>1, RequestKeeps
<1>2. CASE \E r \in RequestId, w \in Window : Ready(r, w)
  BY <1>2, ReadyKeeps
<1>3. CASE \E r \in RequestId, w \in Window : Checkpoint(r, w)
  BY <1>3, CheckpointKeeps
<1>4. CASE \E r \in RequestId : CheckDeadline(r)
  BY <1>4, DeadlineKeeps
<1>5. CASE \E w \in Window : WindowDestroyed(w)
  BY <1>5, DestroyedKeeps
<1>6. CASE \E w \in Window : LifeStep(w)
  BY <1>6, LifeKeeps
<1>7. CASE UNCHANGED vars
  BY <1>7 DEF IInv, vars, quitVars, TypeOK, CreatedBeforeAsked, AskedInTurn, ReportsAreAnswers,
              Collects, OnlyCollectingWaits, PassedOver, DeadlineStands, PendingIsOpen,
              AtStake
<1> QED
  BY <1>1, <1>2, <1>3, <1>4, <1>5, <1>6, <1>7 DEF Next, LifeStep

LEMMA Invariance == Spec => []IInv
<1>1. Init => IInv
  BY QuitInitHolds
<1>2. IInv /\ [Next]_vars => IInv'
  BY QuitStepKeeps
<1> QED
  BY <1>1, <1>2, PTL DEF Spec

\* The variables of the coordinator and its windows keep to their types.
THEOREM TypeCorrect == Spec => []TypeOK
<1>1. IInv => TypeOK
  BY DEF IInv
<1> QED
  BY <1>1, Invariance, PTL

\* quit.rs never exits before every window it asked has checkpointed for this
\* very request or has been destroyed, however late answers and timers come.
THEOREM ExitsUnanimously == Spec => []ExitIsUnanimous
<1>1. IInv => ExitIsUnanimous
  <2> SUFFICES ASSUME IInv, quit.at = "exiting",
                      NEW w \in Window, NEW r \in {quit.id} \ {0}, Alive(w)
               PROVE  answers[r][w] \in {"none", "saved"}
    BY DEF ExitIsUnanimous
  <2>1. r \in {quit.id} \intersect RequestId
    BY RequestAssumption DEF IInv, TypeOK, RequestId
  <2>2. w \in Window \ quit.pending /\ AtStake(w)
    BY DEF IInv, OnlyCollectingWaits, AtStake, Alive
  <2> QED
    BY <2>1, <2>2 DEF IInv, PassedOver
<1> QED
  BY <1>1, Invariance, PTL

\* A quit that collects always has somebody to hear from: a checkpoint or an
\* answer under way, or the deadline.
THEOREM WaitsForSomebody == Spec => []NobodyIsForgotten
<1>1. IInv => NobodyIsForgotten
  BY DEF IInv, Collects, DeadlineStands, PendingIsOpen, NobodyIsForgotten, AtStake, Alive
<1> QED
  BY <1>1, Invariance, PTL

\* check_deadline and ready cancel a quit only for a reason of its own, never
\* for a timer or an answer left over from an earlier quit.
THEOREM CancelsForItsOwnReason == Spec => CancelledByItsOwn
<1> DEFINE Cause == quit.at = "collecting" /\ quit'.at = "idle" =>
             \/ quit.id \in timers \ timers'
             \/ \E w \in quit.pending :
                  answers[quit.id][w] = "failed" /\ <<quit.id, w>> \in reports \ reports'
<1>1. IInv /\ [Next]_vars => Cause
  <2> SUFFICES ASSUME IInv, [Next]_vars, quit.at = "collecting", quit'.at = "idle"
               PROVE  \/ quit.id \in timers \ timers'
                      \/ \E w \in quit.pending :
                           answers[quit.id][w] = "failed" /\ <<quit.id, w>> \in reports \ reports'
    OBVIOUS
  <2>1. quit' # quit
    OBVIOUS
  <2>2. ASSUME NEW r \in RequestId, NEW w \in Window, Ready(r, w)
        PROVE  answers[quit.id][w] = "failed" /\ <<quit.id, w>> \in reports \ reports'
               /\ w \in quit.pending
    <3>1. quit.id = r /\ w \in quit.pending /\ answers[r][w] # "saved"
      BY <2>1, <2>2 DEF Ready, Without
    <3> QED
      BY <2>2, <3>1 DEF Ready, IInv, ReportsAreAnswers
  <2>3. ASSUME NEW r \in RequestId, CheckDeadline(r) PROVE quit.id \in timers \ timers'
    BY <2>1, <2>3 DEF CheckDeadline
  <2>4. ASSUME NEW w \in Window, WindowDestroyed(w) PROVE FALSE
    BY <2>1, <2>4 DEF WindowDestroyed, Without
  <2>5. ASSUME NEW w \in Window, LifeStep(w) PROVE FALSE
    BY <2>1, <2>5 DEF LifeStep, CloseWindow, Edit, CreateWindow, Listen, Unregister, quitVars
  <2>6. ASSUME NEW r \in RequestId, NEW w \in Window, Checkpoint(r, w) PROVE FALSE
    BY <2>1, <2>6 DEF Checkpoint
  <2> QED
    BY <2>1, <2>2, <2>3, <2>4, <2>5, <2>6 DEF Next, RequestQuit, LifeStep, vars, quitVars
<1>2. IInv /\ [Next]_vars => [Cause]_vars
  BY <1>1
<1> QED
  BY <1>2, Invariance, PTL DEF Spec, CancelledByItsOwn

-----------------------------------------------------------------------------
(* The session: SettingSpec is that of MCWindowSession.                     *)

Job == [tabs : SUBSET Window, by : {"exit", "other"}]

\* The kinds of what the proofs speak of.
Typed ==
  /\ windows \in [Window -> Life]
  /\ tab \in [Window -> {"new", "shown", "closed"}]
  /\ reported \in [Window -> {"new", "shown", "closed"}]
  /\ held \in BOOLEAN /\ frozen \in BOOLEAN
  /\ writes \in Seq(Job) /\ taken \subseteq SUBSET Window
  /\ exit \in {"no", "storing", "leaving"}

\* A window that is not there has no tab, and a report is of the tab as it is or was.
TabsFollow ==
  \A w \in Window :
    /\ windows[w] = "none" => tab[w] = "new"
    /\ reported[w] \in {"new", tab[w]} \/ (reported[w] = "shown" /\ tab[w] = "closed")

\* There is one write of the exit; what it stored is known once it is through,
\* and nothing but a freeze follows.
ExitFollows ==
  /\ exit = "no" => kept = {} /\ \A i \in 1..Len(writes) : writes[i].by = "other"
  /\ exit = "leaving" => frozen /\ \A i \in 1..Len(writes) : writes[i].by = "other"
  /\ exit # "leaving" => ~frozen
  /\ \A i, j \in 1..Len(writes) : writes[i].by = "exit" /\ writes[j].by = "exit" => i = j
  /\ (\E i \in 1..Len(writes) : writes[i].by = "exit") => kept = {}
  /\ taken # {} => overtaken

\* While no thread overtakes another, a window that the exit's write stores, and
\* that is there yet, is in every write that comes after it.
InOrder ==
  ~overtaken =>
    /\ \A i \in 1..Len(writes) : \A w \in writes[i].tabs : reported[w] # "new"
    /\ \A w \in kept : w \in Window /\ reported[w] # "new"
    /\ \A i, j \in 1..Len(writes) : i <= j /\ writes[i].by = "exit" =>
         writes[i].tabs \intersect Snapshot \subseteq writes[j].tabs
    /\ \A w \in kept : w \in Snapshot \/ exit = "leaving" =>
         w \in store /\ \A j \in 1..Len(writes) : w \in writes[j].tabs

\* What was sent last agrees with the registry, or a write is due.
SentAgrees ==
  setting = "session" /\ ~held /\ ~frozen /\ ~scheduled /\ ~delayed /\ ~overtaken =>
    \A w \in Window : reported[w] # "new" /\ windows[w] # "destroyed" =>
      (w \in sent <=> w \in Snapshot)

\* Nothing is sent while the session of the last run is held.
HeldIsQuiet == held => writes = <<>> /\ taken = {}

SInv ==
  /\ Typed
  /\ TabsFollow
  /\ ExitFollows
  /\ InOrder
  /\ SentAgrees
  /\ HeldIsQuiet

-----------------------------------------------------------------------------
LEMMA QueueFacts ==
  ASSUME Typed
  PROVE  /\ Len(writes) \in Nat /\ DOMAIN writes = 1..Len(writes)
         /\ \A i \in 1..Len(writes) : /\ writes[i] \in Job /\ writes[i].by \in {"exit", "other"}
                                      /\ writes[i].tabs \subseteq Window
<1>1. writes \in Seq(Job)
  BY DEF Typed
<1>2. Len(writes) \in Nat /\ DOMAIN writes = 1..Len(writes)
  BY <1>1, LenProperties
<1>3. \A i \in 1..Len(writes) : writes[i] \in Job
  BY <1>1, ElementOfSeq
<1> QED
  BY <1>2, <1>3 DEF Job

LEMMA AppendFacts ==
  ASSUME Typed, NEW job \in Job, writes' = Append(writes, job)
  PROVE  /\ writes' \in Seq(Job) /\ Len(writes') = Len(writes) + 1 /\ Len(writes) \in Nat
         /\ Last(writes') = job /\ writes'[Len(writes) + 1] = job
         /\ \A i \in 1..Len(writes) : writes'[i] = writes[i]
<1>1. writes \in Seq(Job)
  BY DEF Typed
<1>2. /\ Append(writes, job) \in Seq(Job) /\ Len(Append(writes, job)) = Len(writes) + 1
      /\ \A i \in 1..Len(writes) : Append(writes, job)[i] = writes[i]
      /\ Append(writes, job)[Len(writes) + 1] = job
  BY <1>1, AppendProperties
<1> QED
  BY <1>2, QueueFacts DEF Last

LEMMA TailFacts ==
  ASSUME Typed, writes # <<>>, writes' = Tail(writes)
  PROVE  /\ writes' \in Seq(Job) /\ Len(writes') = Len(writes) - 1
         /\ Len(writes) \in Nat /\ Len(writes) > 0
         /\ Head(writes) = writes[1] /\ Head(writes) \in Job
         /\ \A i \in 1..Len(writes') : writes'[i] = writes[i + 1]
<1>1. writes \in Seq(Job)
  BY DEF Typed
<1>2. /\ Head(writes) \in Job /\ Tail(writes) \in Seq(Job) /\ Len(Tail(writes)) = Len(writes) - 1
      /\ \A i \in 1..Len(Tail(writes)) : Tail(writes)[i] = writes[i + 1]
  BY <1>1, HeadTailProperties
<1>3. Len(writes) \in Nat \ {0}
  BY <1>1, EmptySeq
<1>4. Head(writes) = writes[1]
  BY <1>1
<1> QED
  BY <1>2, <1>3, <1>4

\* A window once created is there till it is forgotten, and never comes back.
WindowsMove ==
  /\ windows' \in [Window -> Life]
  /\ \A w \in Window : windows'[w] = "none" => windows[w] = "none"
  /\ \A w \in Window : windows[w] = "gone" => windows'[w] = "gone"

\* No window is forgotten.
NobodyForgotten ==
  \A w \in Window : /\ windows'[w] = "gone" => windows[w] = "gone"
                    /\ windows[w] = "destroyed" => windows'[w] = "destroyed"

\* A window that has reported leaves the snapshot for good.
SnapshotsShrink ==
  \A w \in Window : reported[w] # "new" =>
    reported'[w] # "new" /\ (w \in Snapshot' => w \in Snapshot)

LEMMA LifeMoves ==
  ASSUME Typed, NEW w \in Window,
         WindowDestroyed(w) \/ CloseWindow(w) \/ CreateWindow(w) \/ Listen(w)
  PROVE  WindowsMove /\ NobodyForgotten
BY DEF Typed, WindowDestroyed, CloseWindow, CreateWindow, Listen, WindowsMove, NobodyForgotten, Life

LEMMA UnregisterMoves ==
  ASSUME Typed, NEW w \in Window, Unregister(w)
  PROVE  WindowsMove
BY DEF Typed, Unregister, WindowsMove, Life

LEMMA StayMoves ==
  ASSUME Typed, UNCHANGED windows
  PROVE  WindowsMove /\ NobodyForgotten
BY DEF Typed, WindowsMove, NobodyForgotten

LEMMA ShrinkFacts ==
  ASSUME SInv, WindowsMove, UNCHANGED <<tab, reported>>
  PROVE  TabsFollow' /\ SnapshotsShrink
BY DEF SInv, Typed, WindowsMove, TabsFollow, SnapshotsShrink, Snapshot, Labels

\* Steps that leave the queue, the store and the exit as they are.
LEMMA QuietKeeps ==
  ASSUME SInv, SnapshotsShrink, UNCHANGED <<writes, taken, store, kept, exit, frozen>>,
         held' => held, (overtaken \/ taken' # {} => overtaken')
  PROVE  ExitFollows' /\ InOrder' /\ HeldIsQuiet'
<1>1. ExitFollows'
  BY DEF SInv, ExitFollows
<1>2. InOrder'
  <2>1. \A i \in 1..Len(writes) : writes[i].tabs \subseteq Window
    BY QueueFacts DEF SInv
  <2> QED
    BY <2>1 DEF SInv, InOrder, SnapshotsShrink
<1> QED
  BY <1>1, <1>2 DEF SInv, HeldIsQuiet

LEMMA InitHolds == SettingInit => SInv
<1> SUFFICES ASSUME SettingInit PROVE SInv
  OBVIOUS
<1> USE DEF SettingInit, SessionInit, Init
<1>1. Typed
  BY EmptySeq DEF Typed, Life
<1>2. Len(writes) = 0 /\ 1..Len(writes) = {}
  BY EmptySeq
<1>3. TabsFollow /\ ExitFollows /\ InOrder
  BY <1>2 DEF TabsFollow, ExitFollows, InOrder
<1>4. SentAgrees /\ HeldIsQuiet
  BY DEF SentAgrees, HeldIsQuiet
<1> QED
  BY <1>1, <1>3, <1>4 DEF SInv

-----------------------------------------------------------------------------
\* A snapshot is sent, or taken.
LEMMA EnqueueKeeps ==
  ASSUME SInv, NEW by \in {"exit", "other"}, Enqueue(by), ~frozen, held' = FALSE,
         UNCHANGED <<windows, tab, reported, store, kept, frozen, setting>>,
         \/ by = "other" /\ exit # "leaving" /\ exit' = exit
         \/ by = "exit" /\ exit = "no" /\ exit' = "storing",
         (overtaken \/ taken' # {} => overtaken'),
         sent' = IF Len(writes') > Len(writes) THEN Last(writes').tabs ELSE sent
  PROVE  SInv'
<1> DEFINE job == [tabs |-> Snapshot, by |-> by]
<1>1. Snapshot \subseteq Window /\ UNCHANGED Snapshot
  BY DEF Snapshot, Labels
<1>2. job \in Job
  BY <1>1 DEF Job
<1>3. TabsFollow' /\ HeldIsQuiet'
  BY DEF SInv, TabsFollow, HeldIsQuiet
<1>4. CASE writes' = Append(writes, job) /\ UNCHANGED taken
  <2>1. /\ writes' \in Seq(Job) /\ Len(writes') = Len(writes) + 1 /\ Len(writes) \in Nat
        /\ Last(writes') = job /\ writes'[Len(writes) + 1] = job
        /\ \A i \in 1..Len(writes) : writes'[i] = writes[i]
    BY <1>2, <1>4, AppendFacts DEF SInv
  <2>2. \A i \in 1..Len(writes') : i \in 1..Len(writes) \/ i = Len(writes) + 1
    BY <2>1
  <2>3. job.tabs = Snapshot /\ job.by = by
    OBVIOUS
  <2> HIDE DEF job
  <2>4. Typed'
    <3>1. /\ windows' \in [Window -> Life]
          /\ tab' \in [Window -> {"new", "shown", "closed"}]
          /\ reported' \in [Window -> {"new", "shown", "closed"}]
      BY DEF SInv, Typed
    <3>2. held' \in BOOLEAN
      OBVIOUS
    <3>3. frozen' \in BOOLEAN /\ exit' \in {"no", "storing", "leaving"} /\ taken' \subseteq SUBSET Window
      BY <1>4 DEF SInv, Typed
    <3> QED
      BY <2>1, <3>1, <3>2, <3>3 DEF Typed
  <2>5. ExitFollows'
    <3>1. by = "other" => \A i \in 1..Len(writes') : writes'[i].by = "exit" => i \in 1..Len(writes)
      BY <2>1, <2>2, <2>3
    <3>2. by = "exit" => \A i \in 1..Len(writes) : writes'[i].by = "other"
      BY <2>1 DEF SInv, ExitFollows
    <3>3. \A i, j \in 1..Len(writes') : writes'[i].by = "exit" /\ writes'[j].by = "exit" => i = j
      <4>1. CASE by = "other"
        BY <2>1, <3>1, <4>1 DEF SInv, ExitFollows
      <4>2. CASE by = "exit"
        BY <2>2, <3>2, <4>2
      <4> QED
        BY <4>1, <4>2
    <3>4. (\E i \in 1..Len(writes') : writes'[i].by = "exit") => kept' = {}
      <4>1. CASE by = "other"
        BY <2>1, <3>1, <4>1 DEF SInv, ExitFollows
      <4>2. CASE by = "exit"
        BY <4>2 DEF SInv, ExitFollows
      <4> QED
        BY <4>1, <4>2
    <3>5. exit' = "no" => kept' = {} /\ \A i \in 1..Len(writes') : writes'[i].by = "other"
      <4>1. exit' = "no" => exit = "no" /\ by = "other"
        OBVIOUS
      <4> QED
        BY <2>1, <2>2, <2>3, <4>1 DEF SInv, ExitFollows
    <3>6. exit' # "leaving" /\ ~frozen' /\ (taken' # {} => overtaken')
      OBVIOUS
    <3> QED
      BY <3>3, <3>4, <3>5, <3>6 DEF ExitFollows
  <2>6. InOrder'
    <3> SUFFICES ASSUME ~overtaken' PROVE InOrder'
      BY DEF InOrder
    <3>1. \A i \in 1..Len(writes') : \A w \in writes'[i].tabs : reported'[w] # "new"
      BY <2>1, <2>2, <2>3 DEF SInv, InOrder, Snapshot
    <3>2. \A w \in kept' : w \in Window /\ reported'[w] # "new"
      BY DEF SInv, InOrder
    <3>3. \A i, j \in 1..Len(writes') : i <= j /\ writes'[i].by = "exit" =>
            writes'[i].tabs \intersect Snapshot \subseteq writes'[j].tabs
      <4> SUFFICES ASSUME NEW i \in 1..Len(writes'), NEW j \in 1..Len(writes'), i <= j,
                          writes'[i].by = "exit"
                   PROVE  writes'[i].tabs \intersect Snapshot \subseteq writes'[j].tabs
        OBVIOUS
      <4>1. CASE j = Len(writes) + 1
        BY <2>1, <2>3, <4>1
      <4>2. CASE j \in 1..Len(writes)
        <5>1. i \in 1..Len(writes)
          BY <2>1, <4>2
        <5> QED
          BY <2>1, <4>2, <5>1 DEF SInv, InOrder
      <4> QED
        BY <2>2, <4>1, <4>2
    <3>4. \A w \in kept' : w \in Snapshot \/ exit' = "leaving" =>
            w \in store /\ \A j \in 1..Len(writes') : w \in writes'[j].tabs
      BY <2>1, <2>2, <2>3 DEF SInv, InOrder
    <3> QED
      BY <1>1, <3>1, <3>2, <3>3, <3>4 DEF InOrder
  <2>7. sent' = Snapshot
    BY <2>1, <2>3
  <2>8. SentAgrees'
    BY <1>1, <2>7 DEF SentAgrees
  <2> QED
    BY <1>3, <2>4, <2>5, <2>6, <2>8 DEF SInv
<1>5. CASE by = "other" /\ taken' = taken \union {Snapshot} /\ UNCHANGED writes
  <2>1. overtaken'
    BY <1>5
  <2>2. Typed'
    <3>1. held' \in BOOLEAN
      OBVIOUS
    <3>2. taken' \subseteq SUBSET Window
      BY <1>1, <1>5 DEF SInv, Typed
    <3>3. exit' \in {"no", "storing", "leaving"}
      BY <1>5 DEF SInv, Typed
    <3> QED
      BY <1>5, <3>1, <3>2, <3>3 DEF SInv, Typed
  <2>3. ExitFollows'
    <3>1. exit' = exit
      BY <1>5
    <3> QED
      BY <1>5, <2>1, <3>1 DEF SInv, ExitFollows
  <2>4. InOrder' /\ SentAgrees'
    BY <2>1 DEF InOrder, SentAgrees
  <2> QED
    BY <1>3, <2>2, <2>3, <2>4 DEF SInv
<1> QED
  BY <1>4, <1>5 DEF Enqueue

\* A write of the queue is done, or fails.
LEMMA DatabaseWriteKeeps ==
  ASSUME SInv, DatabaseWrite, (overtaken \/ taken' # {} => overtaken'),
         sent' = IF Len(writes') > Len(writes) THEN Last(writes').tabs ELSE sent,
         UNCHANGED setting
  PROVE  SInv'
<1>1. /\ writes # <<>> /\ writes' = Tail(writes)
      /\ \/ /\ store' = Head(writes).tabs
            /\ kept' = IF Head(writes).by = "exit" THEN store' ELSE kept
         \/ UNCHANGED <<store, kept>>
      /\ UNCHANGED <<windows, tab, reported, held, frozen, scheduled, delayed, taken, exit>>
  BY DEF DatabaseWrite, vars, writer
<1>2. /\ writes' \in Seq(Job) /\ Len(writes') = Len(writes) - 1
      /\ Len(writes) \in Nat /\ Len(writes) > 0
      /\ Head(writes) = writes[1] /\ Head(writes) \in Job
      /\ \A i \in 1..Len(writes') : writes'[i] = writes[i + 1]
  BY <1>1, TailFacts DEF SInv
<1>3. \A i \in 1..Len(writes') : i + 1 \in 1..Len(writes) /\ i + 1 # 1
  BY <1>2
<1>4. 1 \in 1..Len(writes) /\ \A i \in 1..Len(writes) : 1 <= i
  BY <1>2
<1>5. UNCHANGED Snapshot /\ writes[1].tabs \subseteq Window
  BY <1>1, <1>4, QueueFacts DEF Snapshot, Labels, SInv
<1>6. Typed' /\ TabsFollow' /\ HeldIsQuiet'
  BY <1>1, <1>2 DEF SInv, Typed, TabsFollow, HeldIsQuiet
<1>7. ExitFollows'
  <2>1. \A i, j \in 1..Len(writes') : writes'[i].by = "exit" /\ writes'[j].by = "exit" => i = j
    <3> SUFFICES ASSUME NEW i \in 1..Len(writes'), NEW j \in 1..Len(writes'),
                        writes'[i].by = "exit", writes'[j].by = "exit"
                 PROVE  i = j
      OBVIOUS
    <3>1. i + 1 = j + 1
      BY <1>2, <1>3 DEF SInv, ExitFollows
    <3> QED
      BY <1>2, <3>1
  <2>2. ASSUME NEW i \in 1..Len(writes'), writes'[i].by = "exit" PROVE kept' = {}
    <3>1. kept = {}
      BY <1>2, <1>3, <2>2 DEF SInv, ExitFollows
    <3>2. writes[1].by # "exit"
      <4>1. i + 1 \in 1..Len(writes) /\ i + 1 # 1 /\ writes[i + 1].by = "exit"
        BY <1>2, <1>3, <2>2
      <4> QED
        BY <1>4, <4>1 DEF SInv, ExitFollows
    <3> QED
      BY <1>1, <1>2, <3>1, <3>2
  <2>3. exit = "no" => kept' = {}
    BY <1>1, <1>2, <1>4 DEF SInv, ExitFollows
  <2>4. exit \in {"no", "leaving"} => \A i \in 1..Len(writes') : writes'[i].by = "other"
    BY <1>2, <1>3 DEF SInv, ExitFollows
  <2>5. exit = "leaving" => frozen'
    BY <1>1 DEF SInv, ExitFollows
  <2>6. (exit # "leaving" => ~frozen') /\ (taken' # {} => overtaken')
    BY <1>1 DEF SInv, ExitFollows
  <2> QED
    BY <1>1, <2>1, <2>2, <2>3, <2>4, <2>5, <2>6 DEF ExitFollows
<1>8. InOrder'
  <2> SUFFICES ASSUME ~overtaken' PROVE InOrder'
    BY DEF InOrder
  <2>1. \A i \in 1..Len(writes') : \A w \in writes'[i].tabs : reported'[w] # "new"
    BY <1>1, <1>2, <1>3 DEF SInv, InOrder
  <2>2. \A w \in kept' : w \in Window /\ reported'[w] # "new"
    <3>1. \A w \in kept : w \in Window /\ reported[w] # "new"
      BY DEF SInv, InOrder
    <3>2. \A w \in writes[1].tabs : w \in Window /\ reported[w] # "new"
      BY <1>4, <1>5 DEF SInv, InOrder
    <3>3. kept' = kept \/ kept' = writes[1].tabs
      BY <1>1, <1>2
    <3> QED
      BY <1>1, <3>1, <3>2, <3>3
  <2>3. \A i, j \in 1..Len(writes') : i <= j /\ writes'[i].by = "exit" =>
          writes'[i].tabs \intersect Snapshot \subseteq writes'[j].tabs
    <3>1. \A i, j \in 1..Len(writes') : i <= j => i + 1 <= j + 1
      BY <1>2
    <3> QED
      BY <1>2, <1>3, <3>1 DEF SInv, InOrder
  <2>4. \A w \in kept' : w \in Snapshot \/ exit' = "leaving" =>
          w \in store' /\ \A j \in 1..Len(writes') : w \in writes'[j].tabs
    <3>1. CASE UNCHANGED <<store, kept>>
      BY <1>1, <1>2, <1>3, <3>1 DEF SInv, InOrder
    <3>2. CASE /\ store' = writes[1].tabs /\ writes[1].by = "exit" /\ kept' = store'
      <4>1. exit' # "leaving"
        BY <1>1, <1>4, <3>2 DEF SInv, ExitFollows
      <4>2. \A j \in 1..Len(writes') : writes[1].tabs \intersect Snapshot \subseteq writes'[j].tabs
        BY <1>2, <1>3, <1>4, <3>2 DEF SInv, InOrder
      <4> QED
        BY <3>2, <4>1, <4>2
    <3>3. CASE store' = writes[1].tabs /\ writes[1].by # "exit" /\ kept' = kept
      BY <1>1, <1>2, <1>3, <1>4, <3>3 DEF SInv, InOrder
    <3> QED
      BY <1>1, <1>2, <3>1, <3>2, <3>3
  <2> QED
    BY <1>5, <2>1, <2>2, <2>3, <2>4 DEF InOrder
<1>9. SentAgrees'
  <2>1. sent' = sent
    BY <1>2
  <2>2. UNCHANGED setting
    OBVIOUS
  <2> QED
    BY <1>1, <1>5, <2>1, <2>2 DEF SInv, SentAgrees
<1> QED
  BY <1>6, <1>7, <1>8, <1>9 DEF SInv

\* A write is asked for: it is sent, or the writer is held or frozen.
LEMMA PersistKeeps ==
  ASSUME SInv, Persist("other"), (overtaken \/ taken' # {} => overtaken'),
         UNCHANGED <<windows, tab, reported, held, frozen, store, kept, exit, setting>>,
         sent' = IF Len(writes') > Len(writes) THEN Last(writes').tabs ELSE sent
  PROVE  SInv'
<1>1. CASE held \/ frozen
  <2>1. UNCHANGED <<writes, taken>>
    BY <1>1 DEF Persist, queue
  <2>2. TabsFollow' /\ SnapshotsShrink
    BY StayMoves, ShrinkFacts DEF SInv
  <2>3. ExitFollows' /\ InOrder' /\ HeldIsQuiet'
    BY <2>1, <2>2, QuietKeeps
  <2>4. Typed'
    BY <2>1 DEF SInv, Typed
  <2>5. SentAgrees'
    BY <1>1 DEF SentAgrees
  <2> QED
    BY <2>2, <2>3, <2>4, <2>5 DEF SInv
<1>2. CASE ~held /\ ~frozen
  <2>1. Enqueue("other")
    BY <1>2 DEF Persist
  <2>2. exit # "leaving" /\ held' = FALSE
    BY <1>2 DEF SInv, ExitFollows, Typed
  <2> QED
    BY <1>2, <2>1, <2>2, EnqueueKeeps
<1> QED
  BY <1>1, <1>2

\* The exit asks for its write.
LEMMA StoreAtExitKeeps ==
  ASSUME SInv, StoreAtExit, (overtaken \/ taken' # {} => overtaken'), UNCHANGED setting,
         sent' = IF Len(writes') > Len(writes) THEN Last(writes').tabs ELSE sent
  PROVE  SInv'
<1>1. /\ exit = "no" /\ exit' = "storing" /\ Persist("exit")
      /\ UNCHANGED <<windows, tab, reported, held, frozen, scheduled, delayed, store, kept>>
  BY DEF StoreAtExit, vars, writer
<1>2. CASE held \/ frozen
  <2>1. UNCHANGED <<writes, taken>>
    BY <1>1, <1>2 DEF Persist, queue
  <2>2. Typed' /\ TabsFollow' /\ HeldIsQuiet'
    BY <1>1, <2>1 DEF SInv, Typed, TabsFollow, HeldIsQuiet
  <2>3. SentAgrees'
    BY <1>1, <1>2 DEF SentAgrees
  <2>4. ExitFollows'
    BY <1>1, <2>1 DEF SInv, ExitFollows
  <2>5. InOrder'
    <3>1. UNCHANGED Snapshot
      BY <1>1 DEF Snapshot, Labels
    <3>2. kept = {}
      BY <1>1 DEF SInv, ExitFollows
    <3> QED
      BY <1>1, <2>1, <3>1, <3>2 DEF SInv, InOrder
  <2> QED
    BY <2>2, <2>3, <2>4, <2>5 DEF SInv
<1>3. CASE ~held /\ ~frozen
  <2>1. Enqueue("exit") /\ held' = FALSE
    BY <1>1, <1>3 DEF Persist, SInv, Typed
  <2> QED
    BY <1>1, <1>3, <2>1, EnqueueKeeps
<1> QED
  BY <1>2, <1>3

\* A thread that was overtaken gets to the queue.
LEMMA SendKeeps ==
  ASSUME SInv, NEW tabs \in taken, Send(tabs), (overtaken \/ taken' # {} => overtaken'),
         UNCHANGED setting
  PROVE  SInv'
<1> DEFINE job == [tabs |-> tabs, by |-> "other"]
<1>1. /\ taken' = taken \ {tabs} /\ writes' = Append(writes, job)
      /\ UNCHANGED <<windows, tab, reported, held, frozen, store, kept, exit>>
  BY DEF Send, vars, writer
<1>2. job \in Job
  BY DEF SInv, Typed, Job
<1>3. /\ writes' \in Seq(Job) /\ Len(writes') = Len(writes) + 1 /\ Len(writes) \in Nat
      /\ writes'[Len(writes) + 1] = job
      /\ \A i \in 1..Len(writes) : writes'[i] = writes[i]
  BY <1>1, <1>2, AppendFacts DEF SInv
<1>4. job.by = "other"
  OBVIOUS
<1> HIDE DEF job
<1>5. overtaken /\ overtaken'
  BY DEF SInv, ExitFollows
<1>6. Typed' /\ TabsFollow'
  BY <1>1, <1>3 DEF SInv, Typed, TabsFollow
<1>7. HeldIsQuiet'
  BY <1>1 DEF SInv, HeldIsQuiet
<1>8. InOrder' /\ SentAgrees'
  BY <1>5 DEF InOrder, SentAgrees
<1>9. ExitFollows'
  <2>1. \A i \in 1..Len(writes') : i \in 1..Len(writes) \/ writes'[i].by = "other"
    BY <1>3, <1>4
  <2>2. \A i \in 1..Len(writes') :
          writes'[i].by = "other" \/ (i \in 1..Len(writes) /\ writes[i].by = "exit" /\ writes'[i] = writes[i])
    BY <1>3, <2>1, QueueFacts DEF SInv
  <2>3. \A i \in 1..Len(writes') : writes'[i].by = "exit" => i \in 1..Len(writes) /\ writes[i].by = "exit"
    BY <2>2
  <2>4. /\ \A i, j \in 1..Len(writes') : writes'[i].by = "exit" /\ writes'[j].by = "exit" => i = j
        /\ (\E i \in 1..Len(writes') : writes'[i].by = "exit") => kept' = {}
    BY <1>1, <2>3 DEF SInv, ExitFollows
  <2>5. /\ exit' = "no" => kept' = {} /\ \A i \in 1..Len(writes') : writes'[i].by = "other"
        /\ exit' = "leaving" => frozen' /\ \A i \in 1..Len(writes') : writes'[i].by = "other"
    BY <1>1, <2>2 DEF SInv, ExitFollows
  <2> QED
    BY <1>1, <1>5, <2>4, <2>5 DEF SInv, ExitFollows
<1> QED
  BY <1>6, <1>7, <1>8, <1>9 DEF SInv

\* The writer is frozen.
LEMMA FreezeKeeps ==
  ASSUME SInv, Freeze, UNCHANGED setting, (overtaken \/ taken' # {} => overtaken')
  PROVE  SInv'
<1>1. /\ exit = "storing" /\ exit' = "leaving" /\ frozen' = TRUE
      /\ kept' = {w \in kept : Alive(w) /\ reported[w] = "shown"}
      /\ UNCHANGED <<windows, tab, reported, held, scheduled, delayed, writes, taken, store>>
  BY DEF Freeze, vars, queue
<1>2. \A i \in 1..Len(writes) : writes[i].by = "other"
  BY QueueFacts DEF Freeze, SInv
<1>3. Typed'
  <2>1. frozen' \in BOOLEAN
    BY <1>1
  <2> QED
    BY <1>1, <2>1 DEF SInv, Typed
<1>4. TabsFollow' /\ HeldIsQuiet' /\ SentAgrees'
  BY <1>1 DEF SInv, TabsFollow, HeldIsQuiet, SentAgrees
<1>5. ExitFollows'
  BY <1>1, <1>2 DEF SInv, ExitFollows
<1>6. InOrder'
  <2> SUFFICES ASSUME ~overtaken' PROVE InOrder'
    BY DEF InOrder
  <2>1. \A w \in kept' : w \in kept /\ w \in Window /\ w \in Snapshot
    BY <1>1 DEF SInv, InOrder, Snapshot, Labels, Alive
  <2>2. UNCHANGED Snapshot
    BY <1>1 DEF Snapshot, Labels
  <2> QED
    BY <1>1, <1>2, <2>1, <2>2 DEF SInv, InOrder
<1> QED
  BY <1>3, <1>4, <1>5, <1>6 DEF SInv

\* Windows come and go; a window is forgotten only with a write scheduled.
LEMMA WindowsKeep ==
  ASSUME SInv, WindowsMove, (overtaken \/ taken' # {} => overtaken'),
         UNCHANGED <<tab, reported, held, frozen, writes, taken, store, kept, exit, setting>>,
         \/ setting = "quit"
         \/ scheduled' = TRUE
         \/ NobodyForgotten /\ UNCHANGED <<scheduled, delayed, sent>>
  PROVE  SInv'
<1>1. TabsFollow' /\ SnapshotsShrink
  BY ShrinkFacts
<1>2. ExitFollows' /\ InOrder' /\ HeldIsQuiet'
  BY <1>1, QuietKeeps
<1>3. Typed'
  BY DEF SInv, Typed, WindowsMove
<1>4. SentAgrees'
  <2>1. CASE setting = "quit" \/ scheduled' = TRUE
    BY <2>1 DEF SentAgrees
  <2>2. CASE NobodyForgotten /\ UNCHANGED <<scheduled, delayed, sent>>
    <3> SUFFICES ASSUME setting = "session", ~held, ~frozen, ~scheduled, ~delayed, ~overtaken',
                        NEW w \in Window, reported[w] # "new", windows'[w] # "destroyed"
                 PROVE  w \in sent <=> w \in Snapshot'
      BY <2>2 DEF SentAgrees
    <3>1. windows[w] # "destroyed" /\ windows[w] # "none"
      BY <2>2 DEF NobodyForgotten, SInv, Typed, TabsFollow
    <3>2. windows'[w] # "none" /\ (windows'[w] = "gone" <=> windows[w] = "gone")
      BY <2>2, <3>1 DEF NobodyForgotten, WindowsMove
    <3>3. w \in Snapshot' <=> w \in Snapshot
      BY <3>1, <3>2 DEF Snapshot, Labels
    <3> QED
      BY <3>1, <3>3 DEF SInv, SentAgrees
  <2> QED
    BY <2>1, <2>2
<1> QED
  BY <1>1, <1>2, <1>3, <1>4 DEF SInv

\* A tab is shown or closed.
LEMMA TabsKeep ==
  ASSUME SInv, NEW w \in Window, ShowTab(w) \/ CloseTab(w),
         UNCHANGED <<setting, sent>>, (overtaken \/ taken' # {} => overtaken')
  PROVE  SInv'
<1>1. UNCHANGED <<windows, reported, held, frozen, scheduled, delayed, writes, taken, store, exit, kept>>
  BY DEF ShowTab, CloseTab, vars, writer, queue
<1>2. /\ windows[w] # "none"
      /\ \/ tab[w] = "new" /\ tab' = [tab EXCEPT ![w] = "shown"]
         \/ tab[w] = "shown" /\ tab' = [tab EXCEPT ![w] = "closed"]
  BY DEF ShowTab, CloseTab, Alive
<1>3. Typed'
  BY <1>1, <1>2 DEF SInv, Typed
<1>4. TabsFollow'
  BY <1>1, <1>2 DEF SInv, Typed, TabsFollow
<1>5. SnapshotsShrink
  BY <1>1 DEF SnapshotsShrink, Snapshot, Labels
<1>6. ExitFollows' /\ InOrder' /\ HeldIsQuiet'
  BY <1>1, <1>5, QuietKeeps
<1>7. SentAgrees'
  BY <1>1 DEF SInv, SentAgrees, Snapshot, Labels
<1> QED
  BY <1>3, <1>4, <1>6, <1>7 DEF SInv

\* A window reports its tab.
LEMMA ReportTabsKeeps ==
  ASSUME SInv, NEW w \in Window, ReportTabs(w),
         UNCHANGED setting, (overtaken \/ taken' # {} => overtaken')
  PROVE  SInv'
<1>1. /\ UNCHANGED <<windows, tab, held, frozen, writes, taken, store, exit, kept>>
      /\ scheduled' = TRUE /\ windows[w] # "none"
      /\ reported[w] # tab[w] /\ reported' = [reported EXCEPT ![w] = tab[w]]
  BY DEF ReportTabs, Schedule, Alive, vars, queue
<1>2. Typed'
  BY <1>1 DEF SInv, Typed
<1>3. TabsFollow'
  BY <1>1 DEF SInv, Typed, TabsFollow
<1>4. SnapshotsShrink
  BY <1>1 DEF SInv, Typed, TabsFollow, SnapshotsShrink, Snapshot, Labels
<1>5. ExitFollows' /\ InOrder' /\ HeldIsQuiet'
  BY <1>1, <1>4, QuietKeeps
<1>6. SentAgrees'
  BY <1>1 DEF SentAgrees
<1> QED
  BY <1>2, <1>3, <1>5, <1>6 DEF SInv

\* A scheduled write wakes up, a deferred window is passed over, Recovery begins.
LEMMA MarksKeep ==
  ASSUME SInv, UNCHANGED <<windows, tab, reported, held, frozen, writes, taken, store, exit, kept>>,
         UNCHANGED <<setting, sent>>, (overtaken \/ taken' # {} => overtaken'),
         delayed' = TRUE \/ UNCHANGED <<scheduled, delayed>>
  PROVE  SInv'
<1>1. WindowsMove /\ NobodyForgotten
  BY StayMoves DEF SInv
<1>2. TabsFollow' /\ SnapshotsShrink
  BY <1>1, ShrinkFacts
<1>3. ExitFollows' /\ InOrder' /\ HeldIsQuiet'
  BY <1>2, QuietKeeps
<1>4. Typed'
  BY DEF SInv, Typed
<1>5. SentAgrees'
  BY DEF SInv, SentAgrees, Snapshot, Labels
<1> QED
  BY <1>2, <1>3, <1>4, <1>5 DEF SInv

\* Recovery ends, and the hold with it.
LEMMA EndRestoringKeeps ==
  ASSUME SInv, EndRestoring, UNCHANGED setting, (overtaken \/ taken' # {} => overtaken'),
         sent' = IF Len(writes') > Len(writes) THEN Last(writes').tabs ELSE sent
  PROVE  SInv'
<1>1. /\ UNCHANGED <<windows, tab, reported, frozen, store, exit, kept>>
      /\ held' = FALSE
      /\ IF frozen THEN UNCHANGED queue ELSE Enqueue("other")
  BY DEF EndRestoring, vars
<1>2. CASE frozen
  <2>1. UNCHANGED <<writes, taken>>
    BY <1>1, <1>2 DEF queue
  <2>2. TabsFollow' /\ SnapshotsShrink
    BY <1>1, StayMoves, ShrinkFacts DEF SInv
  <2>3. ExitFollows' /\ InOrder' /\ HeldIsQuiet'
    BY <1>1, <2>1, <2>2, QuietKeeps
  <2>4. held' \in BOOLEAN
    BY <1>1
  <2>5. Typed'
    BY <1>1, <2>1, <2>4 DEF SInv, Typed
  <2>6. SentAgrees'
    BY <1>1, <1>2 DEF SentAgrees
  <2> QED
    BY <2>2, <2>3, <2>5, <2>6 DEF SInv
<1>3. CASE ~frozen
  <2>1. exit # "leaving"
    BY <1>3 DEF SInv, ExitFollows
  <2> QED
    BY <1>1, <1>3, <2>1, EnqueueKeeps
<1> QED
  BY <1>2, <1>3

\* Windows are torn down only after the freeze.
LEMMA TearDownKeeps ==
  ASSUME SInv, NEW w \in Window, TearDown(w), UNCHANGED <<setting, sent>>,
         (overtaken \/ taken' # {} => overtaken')
  PROVE  SInv'
<1>1. /\ exit = "leaving" /\ Alive(w) /\ windows' = [windows EXCEPT ![w] = "destroyed"]
      /\ UNCHANGED <<tab, reported, held, frozen, writes, taken, scheduled, delayed, store, exit, kept>>
  BY DEF TearDown, sessionVars, writer, queue
<1>2. WindowsMove /\ NobodyForgotten
  BY <1>1 DEF SInv, Typed, WindowsMove, NobodyForgotten, Life, Alive
<1> QED
  BY <1>1, <1>2, WindowsKeep

-----------------------------------------------------------------------------

\* What the windows and the quit do on their own.
LEMMA WindowStepsKeep ==
  ASSUME SInv, Windows, Stores, UNCHANGED setting
  PROVE  SInv'
<1>1. /\ UNCHANGED <<tab, reported, held, frozen, scheduled, delayed, writes, taken, store, kept, exit>>
      /\ sent' = IF Len(writes') > Len(writes) THEN Last(writes').tabs ELSE sent
      /\ (overtaken \/ taken' # {} => overtaken')
  BY DEF Windows, Stores, sessionVars, writer, queue
<1>2. sent' = sent
  BY <1>1, QueueFacts DEF SInv
<1>3. WindowsMove /\ NobodyForgotten
  <2>1. \/ UNCHANGED windows
        \/ \E w \in Window : WindowDestroyed(w) \/ CloseWindow(w) \/ CreateWindow(w) \/ Listen(w)
    BY DEF Windows, RequestQuit, Ready, Checkpoint, CheckDeadline
  <2> QED
    BY <2>1, StayMoves, LifeMoves DEF SInv
<1> QED
  BY <1>1, <1>2, <1>3, WindowsKeep

LEMMA SessionStepsKeep ==
  ASSUME SInv, Session, Stores, UNCHANGED setting
  PROVE  SInv'
<1>1. /\ sent' = IF Len(writes') > Len(writes) THEN Last(writes').tabs ELSE sent
      /\ (overtaken \/ taken' # {} => overtaken')
  BY DEF Stores
<1>2. UNCHANGED writes => UNCHANGED sent
  BY <1>1, QueueFacts DEF SInv
<1>3. ASSUME NEW w \in Window, ShowTab(w) \/ CloseTab(w) PROVE SInv'
  <2>1. UNCHANGED sent
    BY <1>2, <1>3 DEF ShowTab, CloseTab, queue
  <2> QED
    BY <1>1, <1>3, <2>1, TabsKeep
<1>4. ASSUME NEW w \in Window, ReportTabs(w) PROVE SInv'
  BY <1>1, <1>4, ReportTabsKeeps
<1>5. ASSUME NEW w \in Window, ClaimPersists(w) PROVE SInv'
  <2>1. Persist("other") /\ UNCHANGED <<windows, tab, reported, held, frozen, store, kept, exit>>
    BY <1>5 DEF ClaimPersists, vars, writer
  <2> QED
    BY <1>1, <2>1, PersistKeeps
<1>6. ASSUME NEW w \in Window, RestoreWindow(w) PROVE SInv'
  <2>1. UNCHANGED <<tab, reported, held, frozen, scheduled, delayed, writes, taken, store, kept, exit>>
    BY <1>6 DEF RestoreWindow, writer, queue
  <2>2. WindowsMove /\ NobodyForgotten
    <3>1. CreateWindow(w) \/ UNCHANGED windows
      BY <1>6 DEF RestoreWindow, vars
    <3> QED
      BY <3>1, LifeMoves, StayMoves DEF SInv
  <2>3. UNCHANGED sent
    BY <1>2, <2>1
  <2> QED
    BY <1>1, <2>1, <2>2, <2>3, WindowsKeep
<1>7. ASSUME NEW w \in Window, ForgetWindow(w) PROVE SInv'
  <2>1. /\ UNCHANGED <<tab, reported, held, frozen, writes, taken, store, kept, exit>>
        /\ scheduled' = TRUE /\ Unregister(w)
    BY <1>7 DEF ForgetWindow, Schedule, queue
  <2>2. WindowsMove
    BY <2>1, UnregisterMoves DEF SInv
  <2> QED
    BY <1>1, <2>1, <2>2, WindowsKeep
<1>8. ASSUME NEW w \in Window, TearDown(w) PROVE SInv'
  <2>1. UNCHANGED sent
    BY <1>2, <1>8 DEF TearDown, sessionVars, queue
  <2> QED
    BY <1>1, <1>8, <2>1, TearDownKeeps
<1>9. ASSUME NEW tabs \in taken, Send(tabs) PROVE SInv'
  BY <1>1, <1>9, SendKeeps
<1>10. CASE DelayedPersist
  <2>1. Persist("other") /\ UNCHANGED <<windows, tab, reported, held, frozen, store, kept, exit>>
    BY <1>10 DEF DelayedPersist, vars, writer
  <2> QED
    BY <1>1, <2>1, PersistKeeps
<1>11. CASE DatabaseWrite
  BY <1>1, <1>11, DatabaseWriteKeeps
<1>12. CASE ClearScheduled
  <2>1. /\ UNCHANGED <<windows, tab, reported, held, frozen, writes, taken, store, exit, kept>>
        /\ delayed' = TRUE
    BY <1>12 DEF ClearScheduled, vars, queue
  <2> QED
    BY <1>1, <1>2, <2>1, MarksKeep
<1>13. CASE StartRestoring
  <2>1. UNCHANGED <<windows, tab, reported, held, frozen, scheduled, delayed, writes, taken, store, exit, kept>>
    BY <1>13 DEF StartRestoring, vars, writer, queue
  <2> QED
    BY <1>1, <1>2, <2>1, MarksKeep
<1>14. CASE EndRestoring
  BY <1>1, <1>14, EndRestoringKeeps
<1>15. CASE StoreAtExit
  BY <1>1, <1>15, StoreAtExitKeeps
<1>16. CASE Freeze
  BY <1>1, <1>16, FreezeKeeps
<1> QED
  BY <1>3, <1>4, <1>5, <1>6, <1>7, <1>8, <1>9, <1>10, <1>11, <1>12, <1>13, <1>14, <1>15, <1>16 DEF Session

\* In the setting of quits the session stays what it was.
LEMMA QuitStepsKeep ==
  ASSUME SInv, setting = "quit", Quits, UNCHANGED setting
  PROVE  SInv'
<1>1. /\ UNCHANGED <<tab, reported, held, frozen, scheduled, delayed, writes, taken, store, kept, exit>>
      /\ UNCHANGED <<sent, overtaken>>
  BY DEF Quits, sessionVars, writer, queue
<1>2. WindowsMove
  <2>1. \/ UNCHANGED windows
        \/ \E w \in Window :
             \/ WindowDestroyed(w) \/ CloseWindow(w) \/ CreateWindow(w) \/ Listen(w)
             \/ Unregister(w)
    BY DEF Quits, Next, RequestQuit, Ready, Checkpoint, CheckDeadline, Edit
  <2> QED
    BY <2>1, StayMoves, LifeMoves, UnregisterMoves DEF SInv
<1>3. (overtaken \/ taken' # {} => overtaken')
  BY <1>1 DEF SInv, ExitFollows
<1> QED
  BY <1>1, <1>2, <1>3, WindowsKeep

LEMMA StepKeeps == SInv /\ [SettingNext]_<<allVars, setting, sent, overtaken>> => SInv'
<1> SUFFICES ASSUME SInv, [SettingNext]_<<allVars, setting, sent, overtaken>> PROVE SInv'
  OBVIOUS
<1>1. CASE SettingNext
  <2>1. UNCHANGED setting /\ ((setting = "quit" /\ Quits) \/ Stores)
    BY <1>1 DEF SettingNext
  <2>2. Stores => Windows \/ Session
    BY DEF Stores, SessionNext
  <2> QED
    BY <2>1, <2>2, QuitStepsKeep, WindowStepsKeep, SessionStepsKeep
<1>2. CASE UNCHANGED <<allVars, setting, sent, overtaken>>
  <2>1. /\ UNCHANGED <<windows, tab, reported, held, frozen, scheduled, delayed, writes, taken>>
        /\ UNCHANGED <<store, kept, exit, setting, sent, overtaken>>
    BY <1>2 DEF allVars, sessionVars, vars, writer, queue
  <2>2. Typed' /\ TabsFollow' /\ ExitFollows' /\ HeldIsQuiet'
    BY <2>1 DEF SInv, Typed, TabsFollow, ExitFollows, HeldIsQuiet
  <2>3. InOrder' /\ SentAgrees'
    BY <2>1 DEF SInv, InOrder, SentAgrees, Snapshot, Labels
  <2> QED
    BY <2>2, <2>3 DEF SInv
<1> QED
  BY <1>1, <1>2

-----------------------------------------------------------------------------
\* What a quit stored of the windows it found is never taken back by what was
\* scheduled before it, or by the windows that the exit destroys: the one write
\* of the exit comes after every other, and nothing is stored once frozen.
THEOREM OutlivesExitInOrderHolds == SettingSpec => []OutlivesExitInOrder
<1>1. SInv => OutlivesExitInOrder
  BY DEF SInv, InOrder, OutlivesExitInOrder, SessionOutlivesExit
<1> QED
  BY <1>1, InitHolds, StepKeeps, PTL DEF SettingSpec

\* No report and no closing of a window is left out of what was sent to the
\* database last, unless a write of it is due.
THEOREM ReportsAreSentHolds == SettingSpec => []ReportsAreSent
<1>1. SInv => ReportsAreSent
  BY DEF SInv, SentAgrees, ReportsAreSent, Settled
<1> QED
  BY <1>1, InitHolds, StepKeeps, PTL DEF SettingSpec

\* The session of the run that crashed stays stored until Recovery is done.
THEOREM HeldSessionHolds == SettingSpec => HeldSessionStays
<1>1. SInv /\ [SettingNext]_<<allVars, setting, sent, overtaken>> => [held => UNCHANGED store]_allVars
  <2> SUFFICES ASSUME SInv, [SettingNext]_<<allVars, setting, sent, overtaken>>, held
               PROVE  UNCHANGED store \/ UNCHANGED allVars
    OBVIOUS
  <2>1. writes = <<>>
    BY DEF SInv, HeldIsQuiet
  <2>2. ~DatabaseWrite
    BY <2>1 DEF DatabaseWrite
  <2>3. CASE SettingNext
    <3>1. CASE Quits
      BY <3>1 DEF Quits, sessionVars
    <3>2. CASE Windows
      BY <3>2 DEF Windows, sessionVars
    <3>3. CASE Session
      BY <2>2, <3>3 DEF Session, ShowTab, CloseTab, ReportTabs, ClaimPersists, RestoreWindow,
        ForgetWindow, TearDown, Send, ClearScheduled, DelayedPersist, StartRestoring, EndRestoring,
        StoreAtExit, Freeze, sessionVars
    <3> QED
      BY <2>3, <3>1, <3>2, <3>3 DEF SettingNext, Stores, SessionNext
  <2>4. CASE UNCHANGED <<allVars, setting, sent, overtaken>>
    BY <2>4
  <2> QED
    BY <2>3, <2>4
<1> QED
  BY <1>1, InitHolds, StepKeeps, PTL DEF SettingSpec, HeldSessionStays
===============================================================================
