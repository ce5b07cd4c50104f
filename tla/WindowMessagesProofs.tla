------------------------- MODULE WindowMessagesProofs -------------------------
(***************************************************************************)
(* Proofs about WindowMessages, for any windows, drawings and folders and  *)
(* any number of requests, closings and failures, and about NativeMenu,    *)
(* for any number of windows, languages and reports.                       *)
(***************************************************************************)
EXTENDS WindowMessages, NativeMenu, SequenceTheorems, WellFoundedInduction, TLAPS

\* What the sessions are proved from: the types of what they depend on.
Typed ==
  /\ phase \in [Window -> Phase]
  /\ owner \in [Drawing -> Window \union {None}]
  /\ request \in [Requests -> Request \union {None}]
  /\ tabs \in [Window -> [Drawing -> Nat]]
  /\ tabClosing \in [Window -> [Drawing -> {"no", "asked", "released"}]]

\* r is opening d in w: it was sent to claim, or has claimed it.
Under(r, w, d) == r \in Among(w, InFlight) /\ Path(r) = d
Has(r, w, d) == r \in Among(w, {"opening", "read"}) /\ Path(r) = d

\* Only the shell of a window that listens opens drawings and has sessions.
OnlyListenersOpen ==
  \A w \in Window : ~Listening(w) =>
    /\ Among(w, InFlight \union {"sent"}) = {}
    /\ \A d \in Drawing : tabs[w][d] = 0

\* Nothing is owned by a window that has not started, or was unregistered.
OwnersAreThere ==
  \A d \in Drawing : owner[d] # None => phase[owner[d]] \in {"listening", "destroyed"}

\* A window opens a drawing once at a time, and while it has no session for it:
\* but for twice, findByPath would have found it.
OpensOnce ==
  \A w \in Window : \A d \in Drawing \ twice : \A r \in Requests : Under(r, w, d) =>
    /\ tabs[w][d] = 0
    /\ \A q \in Requests : Under(q, w, d) => q = r

\* What a window has claimed stays its own until it is shown or has failed.
ClaimsHold ==
  \A w \in Window : \A d \in Drawing \ twice : \A r \in Requests : Has(r, w, d) => owner[d] = w

\* A drawing that was its window's before it was claimed is one that the window
\* had failed to show: only then is it left owned when it cannot be read.
AlreadyIsLeaked ==
  \A w \in Window : \A d \in Drawing \ twice : \A r \in Requests :
    Has(r, w, d) /\ request[r].step = "opening" /\ request[r].already => d \in leaked

\* One session, of which the closing is under way, and not owned any more once
\* it is released.
OneSession ==
  \A w \in Window : \A d \in Drawing :
    /\ tabClosing[w][d] # "no" => tabs[w][d] > 0
    /\ d \notin twice => /\ tabs[w][d] \in {0, 1}
                         /\ tabClosing[w][d] = "released" => owner[d] # w

IInv ==
  /\ Typed
  /\ OnlyListenersOpen
  /\ OwnersAreThere
  /\ OpensOnce
  /\ ClaimsHold
  /\ AlreadyIsLeaked
  /\ OneSession
  /\ SessionsAreOwned

-----------------------------------------------------------------------------
LEMMA UnderMeans ==
  ASSUME NEW r \in Requests, NEW w, NEW d
  PROVE  /\ Under(r, w, d) <=> /\ request[r] # None /\ request[r].at = w /\ request[r].path = d
                              /\ request[r].step \in {"calling", "opening", "read"}
         /\ Has(r, w, d) <=> /\ request[r] # None /\ request[r].at = w /\ request[r].path = d
                            /\ request[r].step \in {"opening", "read"}
  BY DEF Under, Has, Among, At, Path, InFlight

LEMMA UnderMeansNext ==
  ASSUME NEW r \in Requests, NEW w, NEW d
  PROVE  /\ Under(r, w, d)' <=> /\ request'[r] # None /\ request'[r].at = w /\ request'[r].path = d
                               /\ request'[r].step \in {"calling", "opening", "read"}
         /\ Has(r, w, d)' <=> /\ request'[r] # None /\ request'[r].at = w /\ request'[r].path = d
                             /\ request'[r].step \in {"opening", "read"}
  BY DEF Under, Has, Among, At, Path, InFlight

\* The invariant about sessions, read with Has.
LEMMA OwnedMeans ==
  SessionsAreOwned <=>
    \A w \in Window, d \in Drawing :
      /\ (tabs[w][d] > 0 /\ tabClosing[w][d] # "released" /\ d \notin twice) => owner[d] = w
      /\ (owner[d] = w /\ phase[w] = "listening" /\ d \notin twice /\ d \notin leaked) =>
           (tabs[w][d] > 0 \/ \E r \in Requests : Has(r, w, d))
<1>1. \A w \in Window, d \in Drawing :
        (\E r \in Among(w, {"opening", "read"}) : Path(r) = d) <=> \E r \in Requests : Has(r, w, d)
  BY DEF Has, Among
<1> QED
  BY <1>1 DEF SessionsAreOwned, Listening

LEMMA OwnedMeansNext ==
  SessionsAreOwned' <=>
    \A w \in Window, d \in Drawing :
      /\ (tabs'[w][d] > 0 /\ tabClosing'[w][d] # "released" /\ d \notin twice') => owner'[d] = w
      /\ (owner'[d] = w /\ phase'[w] = "listening" /\ d \notin twice' /\ d \notin leaked') =>
           (tabs'[w][d] > 0 \/ \E r \in Requests : Has(r, w, d)')
<1>1. \A w \in Window, d \in Drawing :
        (\E r \in Among(w, {"opening", "read"})' : Path(r)' = d) <=> \E r \in Requests : Has(r, w, d)'
  BY DEF Has, Among, Path, At
<1> QED
  BY <1>1 DEF SessionsAreOwned, Listening

LEMMA ListenersMean ==
  OnlyListenersOpen <=>
    \A w \in Window : phase[w] # "listening" =>
      /\ \A r \in Requests : request[r] # None /\ request[r].at = w =>
           request[r].step \notin {"calling", "opening", "read", "sent"}
      /\ \A d \in Drawing : tabs[w][d] = 0
  BY DEF OnlyListenersOpen, Among, At, InFlight, Listening

LEMMA ListenersMeanNext ==
  OnlyListenersOpen' <=>
    \A w \in Window : phase'[w] # "listening" =>
      /\ \A r \in Requests : request'[r] # None /\ request'[r].at = w =>
           request'[r].step \notin {"calling", "opening", "read", "sent"}
      /\ \A d \in Drawing : tabs'[w][d] = 0
  BY DEF OnlyListenersOpen, Among, At, InFlight, Listening

LEMMA InitHolds == Init => IInv
<1> SUFFICES ASSUME Init PROVE IInv
  OBVIOUS
<1>1. Typed
  BY DEF Init, Typed, Phase, Starting
<1>2. \A r \in Requests : request[r] = None
  BY DEF Init
<1>3. OnlyListenersOpen
  BY <1>2, ListenersMean DEF Init
<1>4. OwnersAreThere
  BY DEF Init, OwnersAreThere
<1>5. OpensOnce /\ ClaimsHold /\ AlreadyIsLeaked
  BY <1>2, UnderMeans DEF OpensOnce, ClaimsHold, AlreadyIsLeaked
<1>6. OneSession
  BY DEF Init, OneSession
<1>7. SessionsAreOwned
  BY OwnedMeans, WindowsAssumption DEF Init
<1> QED
  BY <1>1, <1>3, <1>4, <1>5, <1>6, <1>7 DEF IInv

-----------------------------------------------------------------------------
(* Most steps leave sessions and ownership alone, and move requests only   *)
(* before they claim and after they are done.                              *)
Waits(q) == q = None \/ q.step \notin {"calling", "opening", "read"}

Calm ==
  /\ UNCHANGED <<owner, tabs, tabClosing, twice, leaked>>
  /\ phase' \in [Window -> Phase]
  /\ \A w \in Window : phase[w] \in {"listening", "destroyed"} => phase'[w] = phase[w]
  /\ request' \in [Requests -> Request \union {None}]
  /\ \A r \in Requests :
       \/ request'[r] = request[r]
       \/ /\ Waits(request[r])
          /\ Waits(request'[r])
          /\ request'[r] # None /\ request'[r].step = "sent" => phase'[request'[r].at] = "listening"
       \/ /\ request[r] # None /\ request[r].step = "opening"
          /\ request'[r] = [request[r] EXCEPT !.step = "read"]

LEMMA CalmKeeps == IInv /\ Calm => IInv'
<1> SUFFICES ASSUME IInv, Calm PROVE IInv'
  OBVIOUS
<1>1. Typed'
  BY DEF IInv, Typed, Calm
<1>2. \A r \in Requests, w \in Window, d \in Drawing :
        /\ Under(r, w, d)' <=> Under(r, w, d)
        /\ Has(r, w, d)' <=> Has(r, w, d)
        /\ Has(r, w, d)' /\ request'[r].step = "opening" =>
             request[r].step = "opening" /\ request'[r].already = request[r].already
  <2> SUFFICES ASSUME NEW r \in Requests, NEW w \in Window, NEW d \in Drawing
               PROVE  /\ Under(r, w, d)' <=> Under(r, w, d)
                      /\ Has(r, w, d)' <=> Has(r, w, d)
                      /\ Has(r, w, d)' /\ request'[r].step = "opening" =>
                           request[r].step = "opening" /\ request'[r].already = request[r].already
    OBVIOUS
  <2>1. CASE request'[r] = request[r]
    BY <2>1, UnderMeans, UnderMeansNext
  <2>2. CASE Waits(request[r]) /\ Waits(request'[r])
    BY <2>2, UnderMeans, UnderMeansNext DEF Waits
  <2>3. CASE /\ request[r] # None /\ request[r].step = "opening"
             /\ request'[r] = [request[r] EXCEPT !.step = "read"]
    <3>1. request[r] \in Request
      BY <2>3 DEF IInv, Typed
    <3>2. /\ request'[r] # None /\ request'[r].step = "read"
          /\ request'[r].at = request[r].at /\ request'[r].path = request[r].path
      BY <2>3, <3>1, RequestAssumption DEF Calm, Request, Step, InFlight
    <3>3. request[r] # None /\ request[r].step = "opening"
      BY <2>3
    <3>4. Under(r, w, d)' <=> Under(r, w, d)
      BY <3>2, <3>3, UnderMeans, UnderMeansNext
    <3>5. Has(r, w, d)' <=> Has(r, w, d)
      BY <3>2, <3>3, UnderMeans, UnderMeansNext
    <3> QED
      BY <3>2, <3>4, <3>5
  <2> QED
    BY <2>1, <2>2, <2>3 DEF Calm
<1>3. OnlyListenersOpen'
  <2> SUFFICES ASSUME NEW w \in Window, phase'[w] # "listening"
               PROVE  /\ \A r \in Requests : request'[r] # None /\ request'[r].at = w =>
                           request'[r].step \notin {"calling", "opening", "read", "sent"}
                      /\ \A d \in Drawing : tabs'[w][d] = 0
    BY ListenersMeanNext
  <2>1. phase[w] # "listening"
    BY DEF Calm
  <2>2. \A d \in Drawing : tabs'[w][d] = 0
    BY <2>1, ListenersMean DEF IInv, Calm
  <2>3. ASSUME NEW r \in Requests, request'[r] # None, request'[r].at = w
        PROVE  request'[r].step \notin {"calling", "opening", "read", "sent"}
    <3>1. CASE request'[r] = request[r]
      BY <2>1, <2>3, <3>1, ListenersMean DEF IInv
    <3>2. CASE Waits(request[r]) /\ Waits(request'[r]) /\ request'[r].step # "sent"
      BY <2>3, <3>2 DEF Waits
    <3>3. CASE /\ request[r] # None /\ request[r].step = "opening"
               /\ request'[r] = [request[r] EXCEPT !.step = "read"]
      <4>1. request[r] \in Request
        BY <3>3 DEF IInv, Typed
      <4>2. request[r].at = w
        BY <2>3, <3>3, <4>1 DEF Request
      <4> QED
        BY <2>1, <3>3, <4>2, ListenersMean DEF IInv
    <3> QED
      BY <2>3, <3>1, <3>2, <3>3 DEF Calm
  <2> QED
    BY <2>2, <2>3
<1>4. OwnersAreThere'
  BY DEF IInv, Typed, Calm, OwnersAreThere
<1>5. OpensOnce' /\ ClaimsHold'
  BY <1>2 DEF IInv, Calm, OpensOnce, ClaimsHold
<1>6. AlreadyIsLeaked'
  BY <1>2 DEF IInv, Calm, AlreadyIsLeaked
<1>7. OneSession'
  BY DEF IInv, Calm, OneSession
<1>8. SessionsAreOwned'
  <2>1. ASSUME NEW w \in Window, NEW d \in Drawing, owner'[d] = w, phase'[w] = "listening",
               d \notin twice' \union leaked'
        PROVE  tabs'[w][d] > 0 \/ \E r \in Requests : Has(r, w, d)'
    <3>1. owner[d] = w /\ phase[w] = "listening" /\ d \notin twice \union leaked
      BY <2>1, WindowsAssumption DEF IInv, OwnersAreThere, Calm
    <3> QED
      BY <1>2, <3>1, OwnedMeans DEF IInv, Calm
  <2>2. \A w \in Window, d \in Drawing :
          tabs'[w][d] > 0 /\ tabClosing'[w][d] # "released" /\ d \notin twice' => owner'[d] = w
    BY OwnedMeans DEF IInv, Calm
  <2> QED
    BY <2>1, <2>2, OwnedMeansNext
<1> QED
  BY <1>1, <1>3, <1>4, <1>5, <1>6, <1>7, <1>8 DEF IInv

-----------------------------------------------------------------------------
LEMMA GotoMeans ==
  ASSUME Typed, NEW r \in Requests, NEW s \in Step, request[r] # None, Goto(r, s)
  PROVE  /\ request' \in [Requests -> Request \union {None}]
         /\ request'[r] = [request[r] EXCEPT !.step = s]
         /\ request'[r] # None
         /\ request'[r].step = s /\ request'[r].at = request[r].at
         /\ request'[r].path = request[r].path
         /\ request[r].at \in Window /\ request[r].path \in Drawing
         /\ \A q \in Requests : q # r => request'[q] = request[q]
<1>1. request[r] \in Request
  BY DEF Typed
<1>2. request' = [request EXCEPT ![r] = [request[r] EXCEPT !.step = s]]
  BY DEF Goto, Typed
<1>3. [request[r] EXCEPT !.step = s] \in Request
  BY <1>1 DEF Request
<1>4. request'[r] = [request[r] EXCEPT !.step = s]
  BY <1>2 DEF Typed
<1>5. /\ request'[r].step = s /\ request'[r].at = request[r].at
      /\ request'[r].path = request[r].path
  BY <1>1, <1>4 DEF Request
<1>6. request' \in [Requests -> Request \union {None}]
  BY <1>2, <1>3 DEF Typed
<1>7. request[r].at \in Window /\ request[r].path \in Drawing
  BY <1>1 DEF Request
<1> QED
  BY <1>2, <1>3, <1>4, <1>5, <1>6, <1>7, RequestAssumption DEF Typed

LEMMA TurnMeans ==
  ASSUME Typed, NEW rs, NEW s \in Step, \A r \in rs : request[r] # None, Turn(rs, s)
  PROVE  /\ request' \in [Requests -> Request \union {None}]
         /\ \A r \in Requests : r \in rs =>
              request'[r] # None /\ request'[r].step = s /\ request'[r].at = request[r].at
         /\ \A r \in Requests : r \notin rs => request'[r] = request[r]
<1>1. ASSUME NEW r \in Requests, r \in rs
      PROVE  /\ request'[r] \in Request
             /\ request'[r] # None /\ request'[r].step = s /\ request'[r].at = request[r].at
  <2>1. request[r] \in Request /\ request'[r] = [request[r] EXCEPT !.step = s]
    BY <1>1 DEF Typed, Turn
  <2>2. /\ request'[r] \in Request
        /\ request'[r].step = s /\ request'[r].at = request[r].at
    BY <2>1 DEF Request
  <2> QED
    BY <2>2, RequestAssumption
<1>2. \A r \in Requests : r \notin rs => request'[r] = request[r]
  BY DEF Turn
<1>3. request' = [r \in Requests |-> request'[r]]
  BY DEF Turn
<1>4. \A r \in Requests : request'[r] \in Request \union {None}
  BY <1>1, <1>2 DEF Typed
<1> QED
  BY <1>1, <1>2, <1>3, <1>4

LEMMA EmittedMeans ==
  ASSUME NEW d \in Drawing, NEW w \in Window
  PROVE  /\ Emitted(d, w) \in Request /\ Emitted(d, w) # None
         /\ Emitted(d, w).step \in {"sent", "unheard"} /\ Emitted(d, w).at = w
         /\ Emitted(d, w).step = "sent" => phase[w] = "listening"
         /\ Queued(d, w) \in Request /\ Queued(d, w) # None
         /\ Queued(d, w).step \in {"sent", "unheard", "pending"} /\ Queued(d, w).at = w
         /\ Queued(d, w).step = "sent" => phase[w] = "listening"
<1>1. /\ Emitted(d, w) \in Request
      /\ Emitted(d, w).step \in {"sent", "unheard"} /\ Emitted(d, w).at = w
      /\ Emitted(d, w).step = "sent" => phase[w] = "listening"
  BY DEF Emitted, Request, Step, Dropped, Listening
<1>2. [Emitted(d, w) EXCEPT !.step = "pending", !.drained = TRUE] \in Request
  BY <1>1 DEF Request, Step
<1>3. [Emitted(d, w) EXCEPT !.step = "pending", !.drained = TRUE].at = w
  BY <1>1 DEF Request
<1>4. [Emitted(d, w) EXCEPT !.step = "pending", !.drained = TRUE].step = "pending"
  BY <1>1 DEF Request
<1>5. /\ Queued(d, w) \in Request
      /\ Queued(d, w).step \in {"sent", "unheard", "pending"} /\ Queued(d, w).at = w
      /\ Queued(d, w).step = "sent" => phase[w] = "listening"
  BY <1>1, <1>2, <1>3, <1>4 DEF Queued
<1> QED
  BY <1>1, <1>5, RequestAssumption

\* A drawing asked for anew, in a window that hears of it or does not.
LEMMA AskedIsCalm ==
  ASSUME IInv, NEW r \in Requests, New(r), NEW q \in Request,
         q # None, Waits(q), q.step = "sent" => phase[q.at] = "listening", q.at \in Window,
         request' = [request EXCEPT ![r] = q],
         UNCHANGED <<owner, tabs, tabClosing, twice, leaked>>,
         phase' \in [Window -> Phase],
         \A w \in Window : phase[w] \in {"listening", "destroyed"} => phase'[w] = phase[w]
  PROVE  Calm
<1>1. request[r] = None
  BY DEF New
<1>2. request'[r] = q /\ \A p \in Requests : p # r => request'[p] = request[p]
  BY DEF IInv, Typed
<1>3. request' \in [Requests -> Request \union {None}]
  BY DEF IInv, Typed
<1>4. Waits(request[r])
  BY <1>1 DEF Waits
<1>5. request'[r].step = "sent" => phase'[request'[r].at] = "listening"
  BY <1>2
<1> QED
  BY <1>2, <1>3, <1>4, <1>5 DEF Calm

LEMMA RouteCalm == ASSUME IInv, NEW r \in Requests, NEW d \in Drawing, Route(r, d) PROVE Calm
<1>1. PICK w \in Targets(d) :
        request' = [request EXCEPT ![r] = IF owner[d] = w THEN Emitted(d, w) ELSE Queued(d, w)]
  BY DEF Route
<1>2. w \in Window
  BY DEF Targets, Registered, IInv, Typed
<1> DEFINE q == IF owner[d] = w THEN Emitted(d, w) ELSE Queued(d, w)
<1>3. /\ q \in Request /\ q # None /\ q.step \in {"sent", "unheard", "pending"} /\ q.at = w
      /\ q.step = "sent" => phase[w] = "listening"
  BY <1>2, EmittedMeans
<1>4. Waits(q)
  BY <1>3 DEF Waits
<1>5. /\ New(r) /\ request' = [request EXCEPT ![r] = q]
      /\ UNCHANGED <<owner, tabs, tabClosing, twice, leaked, phase>>
  BY <1>1 DEF Route, registry, sessions, history
<1>6. phase' \in [Window -> Phase]
  BY <1>5 DEF IInv, Typed
<1> HIDE DEF q
<1> QED
  BY <1>2, <1>3, <1>4, <1>5, <1>6, AskedIsCalm

LEMMA RouteToNewCalm ==
  ASSUME IInv, NEW r \in Requests, NEW d \in Drawing, RouteToNew(r, d) PROVE Calm
<1> DEFINE q(w) == [path |-> d, at |-> w, step |-> "pushing", drained |-> TRUE, already |-> FALSE]
<1>1. PICK w \in Window :
        /\ phase[w] = "unused"
        /\ phase' = [phase EXCEPT ![w] = "loading"]
        /\ request' = [request EXCEPT ![r] = q(w)]
  BY DEF RouteToNew
<1>2. q(w) \in Request /\ q(w).step = "pushing" /\ q(w).at = w
  BY DEF Request, Step
<1>3. q(w) # None /\ Waits(q(w))
  BY <1>2, RequestAssumption DEF Waits
<1>4. New(r) /\ UNCHANGED <<owner, tabs, tabClosing, twice, leaked>>
  BY DEF RouteToNew, registry, sessions, history
<1>5. /\ phase' \in [Window -> Phase]
      /\ \A v \in Window : phase[v] \in {"listening", "destroyed"} => phase'[v] = phase[v]
  BY <1>1 DEF IInv, Typed, Phase, Starting
<1>6. q(w).step # "sent"
  BY <1>2
<1> HIDE DEF q
<1> QED
  BY <1>1, <1>2, <1>3, <1>4, <1>5, <1>6, AskedIsCalm

LEMMA UserOpensCalm ==
  ASSUME IInv, NEW r \in Requests, NEW d \in Drawing, UserOpens(r, d) PROVE Calm
<1>1. PICK w \in Window : request' = [request EXCEPT ![r] = Emitted(d, w)]
  BY DEF UserOpens
<1>2. /\ Emitted(d, w) \in Request /\ Emitted(d, w) # None /\ Emitted(d, w).at = w
      /\ Emitted(d, w).step \in {"sent", "unheard"}
      /\ Emitted(d, w).step = "sent" => phase[w] = "listening"
  BY EmittedMeans
<1>3. Waits(Emitted(d, w))
  BY <1>2 DEF Waits
<1>4. New(r) /\ UNCHANGED <<owner, tabs, tabClosing, twice, leaked, phase>>
  BY DEF UserOpens, registry, sessions, history
<1>5. phase' \in [Window -> Phase]
  BY <1>4 DEF IInv, Typed
<1> QED
  BY <1>1, <1>2, <1>3, <1>4, <1>5, AskedIsCalm

\* A request that has not claimed its drawing moves on, and not to do so.
LEMMA MovesCalm ==
  ASSUME IInv, NEW r \in Requests, request[r] # None, Waits(request[r]),
         NEW s \in Step \ {"calling", "opening", "read", "sent"}, Goto(r, s),
         UNCHANGED <<phase, owner, tabs, tabClosing, twice, leaked>>
  PROVE  Calm
<1>1. /\ request' \in [Requests -> Request \union {None}]
      /\ request'[r] # None /\ request'[r].step = s
      /\ \A q \in Requests : q # r => request'[q] = request[q]
  BY GotoMeans DEF IInv
<1>2. Waits(request'[r]) /\ request'[r].step # "sent"
  BY <1>1 DEF Waits
<1>3. phase' \in [Window -> Phase]
  BY DEF IInv, Typed
<1> QED
  BY <1>1, <1>2, <1>3 DEF Calm

LEMMA PushCalm == ASSUME IInv, NEW r \in Requests, Push(r) PROVE Calm
<1> DEFINE s == IF phase[At(r)] = "loading" THEN "pending"
                ELSE IF At(r) \in Registered THEN "late" ELSE "window closed"
<1>1. /\ request[r] # None /\ request[r].step = "pushing" /\ Goto(r, s)
      /\ UNCHANGED <<phase, owner, tabs, tabClosing, twice, leaked>>
  BY DEF Push, Is, registry, sessions, history
<1>2. s \in Step \ {"calling", "opening", "read", "sent"}
  BY DEF Step, Dropped, InFlight
<1>3. Waits(request[r])
  BY <1>1 DEF Waits
<1> HIDE DEF s
<1> QED
  BY <1>1, <1>2, <1>3, MovesCalm

\* Several requests of a window that wait move on together.
LEMMA TurnsCalm ==
  ASSUME IInv, NEW w, NEW steps, steps \subseteq Step \ {"calling", "opening", "read"},
         NEW s \in Step \ {"calling", "opening", "read", "sent"}, Turn(Among(w, steps), s),
         phase' \in [Window -> Phase],
         \A v \in Window : phase[v] \in {"listening", "destroyed"} => phase'[v] = phase[v],
         UNCHANGED <<owner, tabs, tabClosing, twice, leaked>>
  PROVE  Calm
<1>1. \A r \in Among(w, steps) : request[r] # None /\ Waits(request[r])
  BY DEF Among, Waits
<1>2. /\ request' \in [Requests -> Request \union {None}]
      /\ \A r \in Requests : r \in Among(w, steps) => request'[r] # None /\ request'[r].step = s
      /\ \A r \in Requests : r \notin Among(w, steps) => request'[r] = request[r]
  BY <1>1, TurnMeans DEF IInv
<1>3. \A r \in Requests : r \in Among(w, steps) => Waits(request'[r]) /\ request'[r].step # "sent"
  BY <1>2 DEF Waits
<1> QED
  BY <1>1, <1>2, <1>3 DEF Calm

LEMMA HandshakeCalm == ASSUME IInv, NEW w \in Window, Handshake(w) PROVE Calm
<1>1. /\ phase' \in [Window -> Phase]
      /\ \A v \in Window : phase[v] \in {"listening", "destroyed"} => phase'[v] = phase[v]
  BY DEF Handshake, IInv, Typed, Phase, Starting
<1>2. {"pending"} \subseteq Step \ {"calling", "opening", "read"}
  BY DEF Step
<1>3. "taken" \in Step \ {"calling", "opening", "read", "sent"}
  BY DEF Step
<1>4. Turn(Among(w, {"pending"}), "taken") /\ UNCHANGED <<owner, tabs, tabClosing, twice, leaked>>
  BY DEF Handshake, registry, sessions, history
<1> QED
  BY <1>1, <1>2, <1>3, <1>4, TurnsCalm

LEMMA HandshakeFailsCalm == ASSUME IInv, NEW w \in Window, HandshakeFails(w) PROVE Calm
<1>1. /\ phase' \in [Window -> Phase]
      /\ \A v \in Window : phase[v] \in {"listening", "destroyed"} => phase'[v] = phase[v]
  BY DEF HandshakeFails, IInv, Typed, Phase, Starting
<1>2. {"taken"} \subseteq Step \ {"calling", "opening", "read"}
  BY DEF Step
<1>3. "handshake lost" \in Step \ {"calling", "opening", "read", "sent"}
  BY DEF Step, Dropped
<1>4. /\ Turn(Among(w, {"taken"}), "handshake lost")
      /\ UNCHANGED <<owner, tabs, tabClosing, twice, leaked>>
  BY DEF HandshakeFails, registry, sessions, history
<1> QED
  BY <1>1, <1>2, <1>3, <1>4, TurnsCalm

\* Windows that start or end, and what they ask each other, leave requests alone.
LEMMA OthersCalm ==
  ASSUME IInv, UNCHANGED <<request, owner, tabs, tabClosing, twice, leaked>>,
         phase' \in [Window -> Phase],
         \A v \in Window : phase[v] \in {"listening", "destroyed"} => phase'[v] = phase[v]
  PROVE  Calm
  BY DEF Calm, IInv, Typed

LEMMA WindowsCalm ==
  ASSUME IInv, NEW w \in Window,
         \/ NewWindow(w) \/ HandshakeLands(w) \/ Mount(w) \/ FinishPeerCloses(w)
  PROVE  Calm
<1>1. UNCHANGED <<request, owner, tabs, tabClosing, twice, leaked>>
  BY DEF NewWindow, HandshakeLands, Mount, FinishPeerCloses, registry, sessions, history
<1>2. \E s \in Phase : phase' = [phase EXCEPT ![w] = s] /\ phase[w] \notin {"listening", "destroyed"}
  BY DEF NewWindow, HandshakeLands, Mount, FinishPeerCloses, Phase, Starting
<1>3. /\ phase' \in [Window -> Phase]
      /\ \A v \in Window : phase[v] \in {"listening", "destroyed"} => phase'[v] = phase[v]
  BY <1>2 DEF IInv, Typed
<1> QED
  BY <1>1, <1>3, OthersCalm

LEMMA PeersCalm ==
  ASSUME IInv, NEW w \in Window,
         \/ OpenFolder(w) \/ UserCloses(w)
         \/ \E v \in Window, f \in Folder : AskToClose(w, v, f)
         \/ EnsureContained(w) \/ BeginPeerClose(w) \/ HearPeer(w)
         \/ \E c \in Window \union {User} : CheckpointAllLands(w, c) \/ CloseFails(w, c)
         \/ ClaimForPeer(w) \/ ClaimResult(w)
  PROVE  Calm
<1>1. UNCHANGED <<phase, request, owner, tabs, tabClosing, twice, leaked>>
  BY DEF OpenFolder, UserCloses, AskToClose, EnsureContained, BeginPeerClose, HearPeer,
         CheckpointAllLands, CloseFails, ClaimForPeer, ClaimResult, registry, sessions, history
<1>2. phase' \in [Window -> Phase]
  BY <1>1 DEF IInv, Typed
<1> QED
  BY <1>1, <1>2, OthersCalm

LEMMA ReadLandsCalm == ASSUME IInv, NEW r \in Requests, ReadLands(r) PROVE Calm
<1>1. /\ request[r] # None /\ request[r].step = "opening" /\ Goto(r, "read")
      /\ UNCHANGED <<phase, owner, tabs, tabClosing, twice, leaked>>
  BY DEF ReadLands, Is, registry, sessions, history
<1>2. "read" \in Step
  BY DEF Step, InFlight
<1>3. /\ request' \in [Requests -> Request \union {None}]
      /\ request'[r] = [request[r] EXCEPT !.step = "read"]
      /\ \A q \in Requests : q # r => request'[q] = request[q]
  BY <1>1, <1>2, GotoMeans DEF IInv
<1>4. phase' \in [Window -> Phase]
  BY <1>1 DEF IInv, Typed
<1> QED
  BY <1>1, <1>3, <1>4 DEF Calm

-----------------------------------------------------------------------------
(* The steps that touch sessions, ownership or a request that claims.      *)

LEMMA SameUnder ==
  ASSUME NEW q \in Requests, request'[q] = request[q]
  PROVE  \A w \in Window, d \in Drawing :
           (Under(q, w, d)' <=> Under(q, w, d)) /\ (Has(q, w, d)' <=> Has(q, w, d))
  BY UnderMeans, UnderMeansNext

\* findByPath finds nothing: the request goes on to claim.
LEMMA SentToClaimKeeps ==
  ASSUME IInv, NEW r \in Requests, request[r] # None, Waits(request[r]),
         phase[request[r].at] = "listening", tabs[request[r].at][request[r].path] = 0,
         Goto(r, "calling"),
         twice' = twice \union
           {d \in {request[r].path} : \E q \in Among(request[r].at, InFlight) : Path(q) = d},
         UNCHANGED <<phase, owner, tabs, tabClosing, leaked>>
  PROVE  IInv'
<1> DEFINE v == request[r].at
           e == request[r].path
<1>1. "calling" \in Step
  BY DEF Step, InFlight
<1>2. /\ request' \in [Requests -> Request \union {None}]
      /\ request'[r] # None /\ request'[r].step = "calling"
      /\ request'[r].at = v /\ request'[r].path = e
      /\ v \in Window /\ e \in Drawing
      /\ \A q \in Requests : q # r => request'[q] = request[q]
  BY <1>1, GotoMeans DEF IInv
<1> HIDE DEF v, e
<1>3. \A w \in Window, d \in Drawing :
        /\ ~Under(r, w, d) /\ ~Has(r, w, d) /\ ~Has(r, w, d)'
        /\ Under(r, w, d)' <=> w = v /\ d = e
  BY <1>2, UnderMeans, UnderMeansNext DEF Waits
<1>4. \A q \in Requests, w \in Window, d \in Drawing :
        /\ Has(q, w, d)' <=> Has(q, w, d)
        /\ q # r => (Under(q, w, d)' <=> Under(q, w, d))
  BY <1>2, <1>3, SameUnder
<1>5. twice \subseteq twice'
  OBVIOUS
<1>6. e \notin twice' => \A q \in Requests : ~Under(q, v, e)
  BY DEF Under, v, e
<1>7. Typed'
  BY <1>2 DEF IInv, Typed
<1>8. OnlyListenersOpen'
  <2>1. phase[v] = "listening"
    BY DEF v
  <2> QED
    BY <1>2, <2>1, ListenersMean, ListenersMeanNext DEF IInv
<1>9. OwnersAreThere'
  BY DEF IInv, OwnersAreThere
<1>10. OpensOnce'
  <2> SUFFICES ASSUME NEW w \in Window, NEW d \in Drawing, d \notin twice',
                      NEW p \in Requests, Under(p, w, d)'
               PROVE  tabs[w][d] = 0 /\ \A q \in Requests : Under(q, w, d)' => q = p
    BY DEF OpensOnce
  <2>1. d \notin twice
    BY <1>5
  <2>2. CASE p = r
    <3>1. w = v /\ d = e
      BY <1>3, <2>2
    <3>2. tabs[w][d] = 0
      BY <3>1 DEF v, e
    <3> QED
      BY <1>4, <1>6, <2>2, <3>1, <3>2
  <2>3. CASE p # r
    <3>1. Under(p, w, d)
      BY <1>4, <2>3
    <3>2. ~(w = v /\ d = e)
      BY <1>6, <3>1
    <3>3. tabs[w][d] = 0 /\ \A q \in Requests : Under(q, w, d) => q = p
      BY <2>1, <3>1 DEF IInv, OpensOnce
    <3> QED
      BY <1>3, <1>4, <3>2, <3>3
  <2> QED
    BY <2>2, <2>3
<1>11. ClaimsHold'
  BY <1>4, <1>5 DEF IInv, ClaimsHold
<1>12. AlreadyIsLeaked'
  BY <1>2, <1>3, <1>4, <1>5 DEF IInv, AlreadyIsLeaked
<1>13. OneSession'
  BY <1>5 DEF IInv, OneSession
<1>14. SessionsAreOwned'
  BY <1>4, <1>5, OwnedMeans, OwnedMeansNext DEF IInv
<1> QED
  BY <1>7, <1>8, <1>9, <1>10, <1>11, <1>12, <1>13, <1>14 DEF IInv

LEMMA OpenRoutedKeeps == ASSUME IInv, NEW r \in Requests, OpenRouted(r) PROVE IInv'
<1>1. /\ request[r] # None /\ request[r].step \in {"sent", "taken"}
      /\ request[r].step = "taken" => phase[request[r].at] = "listening"
      /\ UNCHANGED <<phase, owner, tabs, tabClosing, leaked>>
  BY DEF OpenRouted, Is, Listening, At, registry, sessions
<1>2. Waits(request[r])
  BY <1>1 DEF Waits
<1>3. request[r].at \in Window /\ request[r].path \in Drawing
  BY <1>1 DEF IInv, Typed, Request
<1>4. phase[request[r].at] = "listening"
  BY <1>1, <1>3, ListenersMean DEF IInv
<1>5. CASE tabs[At(r)][Path(r)] > 0
  <2>1. Goto(r, "shown") /\ UNCHANGED twice
    BY <1>5 DEF OpenRouted
  <2>2. "shown" \in Step \ {"calling", "opening", "read", "sent"}
    BY DEF Step
  <2> QED
    BY <1>1, <1>2, <2>1, <2>2, MovesCalm, CalmKeeps
<1>6. CASE ~(tabs[At(r)][Path(r)] > 0)
  <2>1. /\ Goto(r, "calling")
        /\ twice' = twice \union
             {d \in {request[r].path} : \E q \in Among(request[r].at, InFlight) : Path(q) = d}
    BY <1>6 DEF OpenRouted, Path, At
  <2>2. tabs[request[r].at][request[r].path] = 0
    BY <1>3, <1>6 DEF IInv, Typed, Path, At
  <2> QED
    BY <1>1, <1>2, <1>4, <2>1, <2>2, SentToClaimKeeps
<1> QED
  BY <1>5, <1>6

\* The drawing is another window's, or lies in the Workspace of one.
LEMMA PassedOnCalm ==
  ASSUME IInv, NEW r \in Requests, request[r] # None, request[r].step = "calling",
         NEW v \in Window, request' = [request EXCEPT ![r] = Emitted(Path(r), v)],
         UNCHANGED <<phase, owner, tabs, tabClosing, twice, leaked>>
  PROVE  IInv'
<1>1. Path(r) \in Drawing
  BY DEF IInv, Typed, Request, Path
<1>2. /\ Emitted(Path(r), v) \in Request /\ Emitted(Path(r), v).at = v
      /\ Emitted(Path(r), v).step \in {"sent", "unheard"}
      /\ Emitted(Path(r), v).step = "sent" => phase[v] = "listening"
  BY <1>1, EmittedMeans
<1>3. /\ request'[r] = Emitted(Path(r), v)
      /\ \A q \in Requests : q # r => request'[q] = request[q]
  BY DEF IInv, Typed
<1>4. /\ request' \in [Requests -> Request \union {None}]
      /\ request'[r].at = v /\ request'[r].step \in {"sent", "unheard"}
      /\ request'[r].step = "sent" => phase[v] = "listening"
  BY <1>2, <1>3 DEF IInv, Typed
<1>5. \A w \in Window, d \in Drawing :
        ~Has(r, w, d) /\ ~Under(r, w, d)' /\ ~Has(r, w, d)'
  BY <1>4, UnderMeans, UnderMeansNext
<1>6. \A q \in Requests, w \in Window, d \in Drawing :
        /\ Under(q, w, d)' => Under(q, w, d)
        /\ Has(q, w, d)' <=> Has(q, w, d)
  BY <1>3, <1>5, SameUnder
<1>7. Typed'
  BY <1>4 DEF IInv, Typed
<1>8. OnlyListenersOpen'
  BY <1>3, <1>4, ListenersMean, ListenersMeanNext DEF IInv
<1>9. OwnersAreThere'
  BY DEF IInv, OwnersAreThere
<1>10. OpensOnce' /\ ClaimsHold'
  BY <1>6 DEF IInv, OpensOnce, ClaimsHold
<1>11. AlreadyIsLeaked'
  BY <1>3, <1>5, <1>6 DEF IInv, AlreadyIsLeaked
<1>12. OneSession'
  BY DEF IInv, OneSession
<1>13. SessionsAreOwned'
  BY <1>6, OwnedMeans, OwnedMeansNext DEF IInv
<1> QED
  BY <1>7, <1>8, <1>9, <1>10, <1>11, <1>12, <1>13 DEF IInv

LEMMA OpeningMeans ==
  ASSUME NEW q \in Request, NEW b \in BOOLEAN
  PROVE  LET p == [q EXCEPT !.step = "opening", !.already = b]
         IN p \in Request /\ p.step = "opening" /\ p.at = q.at /\ p.path = q.path /\ p.already = b
  BY DEF Request, Step, InFlight

LEMMA ClaimedKeeps ==
  ASSUME IInv, NEW r \in Requests, request[r] # None, request[r].step = "calling",
         owner[request[r].path] \in {None, request[r].at},
         NEW q \in Request,
         q.step = "opening", q.at = request[r].at, q.path = request[r].path,
         q.already => owner[request[r].path] = request[r].at,
         request' = [request EXCEPT ![r] = q],
         owner' = [owner EXCEPT ![request[r].path] = request[r].at],
         UNCHANGED <<phase, tabs, tabClosing, twice, leaked>>
  PROVE  IInv'
<1> DEFINE v == request[r].at
           e == request[r].path
<1>1. request[r] \in Request /\ v \in Window /\ e \in Drawing
  BY DEF IInv, Typed, Request
<1>2. /\ request'[r] = q
      /\ \A p \in Requests : p # r => request'[p] = request[p]
  BY DEF IInv, Typed
<1>5. /\ request'[r].step = "opening" /\ request'[r].at = v /\ request'[r].path = e
      /\ request'[r].already => owner[e] = v
  BY <1>2
<1>6. request'[r] # None /\ request' \in [Requests -> Request \union {None}]
  BY <1>2, <1>5, RequestAssumption DEF IInv, Typed
<1>7. request[r].at = v /\ request[r].path = e
  OBVIOUS
<1>8. /\ owner[e] \in {None, v} /\ owner'[e] = v
      /\ \A d \in Drawing : d # e => owner'[d] = owner[d]
  BY <1>1 DEF IInv, Typed
<1>9. owner' \in [Drawing -> Window \union {None}]
  BY <1>1 DEF IInv, Typed
<1> HIDE DEF v, e
<1>10. Under(r, v, e) /\ phase[v] = "listening"
  BY <1>1, <1>7, UnderMeans, ListenersMean DEF IInv
<1>11. \A w \in Window, d \in Drawing :
        /\ Under(r, w, d)' <=> w = v /\ d = e
        /\ Has(r, w, d)' <=> w = v /\ d = e
        /\ Under(r, w, d) <=> w = v /\ d = e
        /\ ~Has(r, w, d)
  <2> SUFFICES ASSUME NEW w \in Window, NEW d \in Drawing
               PROVE  /\ Under(r, w, d)' <=> w = v /\ d = e
                      /\ Has(r, w, d)' <=> w = v /\ d = e
                      /\ Under(r, w, d) <=> w = v /\ d = e
                      /\ ~Has(r, w, d)
    OBVIOUS
  <2>1. /\ Under(r, w, d)' <=> w = v /\ d = e
        /\ Has(r, w, d)' <=> w = v /\ d = e
    <3>1. /\ request'[r] # None /\ request'[r].step = "opening"
          /\ request'[r].at = v /\ request'[r].path = e
      BY <1>5, <1>6
    <3>2. Under(r, w, d)' <=> w = v /\ d = e
      BY <3>1, UnderMeansNext
    <3>3. Has(r, w, d)' <=> w = v /\ d = e
      BY <3>1, UnderMeansNext
    <3> QED
      BY <3>2, <3>3
  <2>2. /\ Under(r, w, d) <=> w = v /\ d = e
        /\ ~Has(r, w, d)
    BY <1>7, UnderMeans
  <2> QED
    BY <2>1, <2>2
<1>12. \A p \in Requests, w \in Window, d \in Drawing :
        /\ Under(p, w, d)' <=> Under(p, w, d)
        /\ p # r => (Has(p, w, d)' <=> Has(p, w, d))
  BY <1>2, <1>11, SameUnder
<1>13. e \notin twice => tabs[v][e] = 0 /\ tabClosing[v][e] = "no"
  <2> SUFFICES ASSUME e \notin twice PROVE tabs[v][e] = 0 /\ tabClosing[v][e] = "no"
    OBVIOUS
  <2>1. tabs[v][e] = 0
    BY <1>1, <1>10 DEF IInv, OpensOnce
  <2> QED
    BY <1>1, <2>1 DEF IInv, OneSession
<1>14. \A w \in Window : w # v => owner[e] # w
  BY <1>8, WindowsAssumption
<1>15. Typed'
  BY <1>6, <1>9 DEF IInv, Typed
<1>16. OnlyListenersOpen'
  <2>1. request'[r].at = v /\ phase'[v] = "listening"
    BY <1>5, <1>10
  <2> QED
    BY <1>2, <2>1, ListenersMean, ListenersMeanNext DEF IInv
<1>17. OwnersAreThere'
  BY <1>8, <1>10 DEF IInv, OwnersAreThere
<1>18. OpensOnce'
  BY <1>12 DEF IInv, OpensOnce
<1>19. ClaimsHold'
  <2> SUFFICES ASSUME NEW w \in Window, NEW d \in Drawing, d \notin twice,
                      NEW p \in Requests, Has(p, w, d)'
               PROVE  owner'[d] = w
    BY DEF ClaimsHold
  <2>1. CASE p = r
    BY <1>8, <1>11, <2>1
  <2>2. CASE p # r
    <3>1. owner[d] = w
      BY <1>12, <2>2 DEF IInv, ClaimsHold
    <3> QED
      BY <1>8, <1>14, <3>1
  <2> QED
    BY <2>1, <2>2
<1>20. AlreadyIsLeaked'
  <2> SUFFICES ASSUME NEW w \in Window, NEW d \in Drawing, d \notin twice,
                      NEW p \in Requests, Has(p, w, d)', request'[p].step = "opening",
                      request'[p].already
               PROVE  d \in leaked
    BY DEF AlreadyIsLeaked
  <2>1. CASE p = r
    <3>1. w = v /\ d = e /\ owner[e] = v
      BY <1>5, <1>11, <2>1
    <3>2. ASSUME d \notin leaked PROVE FALSE
      <4>1. PICK o \in Requests : Has(o, v, e)
        BY <1>1, <1>10, <1>13, <3>1, <3>2, OwnedMeans DEF IInv
      <4>2. Under(o, v, e)
        BY <4>1, UnderMeans
      <4>3. o = r
        BY <1>1, <1>10, <3>1, <4>2 DEF IInv, OpensOnce
      <4> QED
        BY <1>1, <1>11, <4>1, <4>3
    <3> QED
      BY <3>2
  <2>2. CASE p # r
    BY <1>2, <1>12, <2>2 DEF IInv, AlreadyIsLeaked
  <2> QED
    BY <2>1, <2>2
<1>21. OneSession'
  <2> SUFFICES ASSUME NEW w \in Window, NEW d \in Drawing, d \notin twice,
                      tabClosing[w][d] = "released"
               PROVE  owner'[d] # w
    BY DEF IInv, OneSession
  <2>1. owner[d] # w
    BY DEF IInv, OneSession
  <2> QED
    BY <1>8, <1>13, <2>1
<1>22. SessionsAreOwned'
  <2>1. ASSUME NEW w \in Window, NEW d \in Drawing, tabs[w][d] > 0, tabClosing[w][d] # "released",
               d \notin twice
        PROVE  owner'[d] = w
    <3>1. owner[d] = w
      BY <2>1, OwnedMeans DEF IInv
    <3> QED
      BY <1>8, <1>14, <3>1
  <2>2. ASSUME NEW w \in Window, NEW d \in Drawing, owner'[d] = w, phase[w] = "listening",
               d \notin twice, d \notin leaked
        PROVE  tabs[w][d] > 0 \/ \E p \in Requests : Has(p, w, d)'
    <3>1. CASE d = e
      BY <1>8, <1>11, <2>2, <3>1
    <3>2. CASE d # e
      <4>1. tabs[w][d] > 0 \/ \E p \in Requests : Has(p, w, d)
        BY <1>8, <2>2, <3>2, OwnedMeans DEF IInv
      <4> QED
        BY <1>11, <1>12, <4>1
    <3> QED
      BY <3>1, <3>2
  <2> QED
    BY <2>1, <2>2, OwnedMeansNext
<1> QED
  BY <1>15, <1>16, <1>17, <1>18, <1>19, <1>20, <1>21, <1>22 DEF IInv

LEMMA ClaimKeeps == ASSUME IInv, NEW r \in Requests, Claim(r) PROVE IInv'
<1> DEFINE d == Path(r)
           w == At(r)
           holders == IF owner[d] # None THEN {owner[d]} \ {w}
                      ELSE {v \in Registered \ {w} : Covers(v, d)}
<1>1. /\ request[r] # None /\ request[r].step = "calling"
      /\ UNCHANGED <<phase, tabs, tabClosing, twice, leaked>>
  BY DEF Claim, Is, sessions, history
<1>2. d \in Drawing /\ owner[d] \in Window \union {None}
  BY <1>1 DEF IInv, Typed, Request, Path
<1>3. CASE holders # {}
  <2>1. PICK v \in holders : request' = [request EXCEPT ![r] = Emitted(d, v)]
    BY <1>3 DEF Claim
  <2>2. UNCHANGED owner
    BY <1>3 DEF Claim
  <2>3. v \in Window
    BY <1>2 DEF Registered
  <2> QED
    BY <1>1, <2>1, <2>2, <2>3, PassedOnCalm
<1>4. CASE holders = {}
  <2>1. /\ request' = [request EXCEPT ![r].step = "opening", ![r].already = owner[d] = w]
        /\ owner' = [owner EXCEPT ![d] = w]
    BY <1>4 DEF Claim
  <2>2. owner[d] \in {None, w}
    BY <1>4
  <2> DEFINE q == [request[r] EXCEPT !.step = "opening", !.already = (owner[d] = w)]
  <2>3. request' = [request EXCEPT ![r] = q]
    BY <2>1, Zenon DEF IInv, Typed
  <2>4. /\ q \in Request /\ q.step = "opening" /\ q.at = request[r].at
        /\ q.path = request[r].path
        /\ q.already => owner[d] = w
    <3>1. request[r] \in Request /\ (owner[d] = w) \in BOOLEAN
      BY <1>1 DEF IInv, Typed
    <3> QED
      BY <3>1, OpeningMeans
  <2> HIDE DEF q
  <2>5. owner' = [owner EXCEPT ![d] = w]
    BY <2>1
  <2> QED
    <3>1. /\ owner[request[r].path] \in {None, request[r].at}
          /\ owner' = [owner EXCEPT ![request[r].path] = request[r].at]
          /\ q.already => owner[request[r].path] = request[r].at
      BY <2>2, <2>4, <2>5 DEF Path, At
    <3>2. /\ q \in Request /\ q.step = "opening" /\ q.at = request[r].at
          /\ q.path = request[r].path
      BY <2>4
    <3> QED
      BY <1>1, <2>3, <3>1, <3>2, ClaimedKeeps, Zenon
<1> QED
  BY <1>3, <1>4

\* A request that has claimed its drawing is over, and gives it up at most
\* where it was not the window's before.
LEMMA OverKeeps ==
  ASSUME IInv, NEW r \in Requests, request[r] # None, request[r].step \in {"opening", "read"},
         Goto(r, "failed"), UNCHANGED <<phase, tabs, tabClosing, twice>>,
         leaked \subseteq leaked', leaked' \subseteq Drawing \union leaked,
         \/ owner' = owner /\ request[r].path \in twice \union leaked'
         \/ owner' = [owner EXCEPT ![request[r].path] = None]
  PROVE  IInv'
<1> DEFINE v == request[r].at
           e == request[r].path
<1>1. "failed" \in Step
  BY DEF Step
<1>2. /\ request' \in [Requests -> Request \union {None}]
      /\ request'[r] # None /\ request'[r].step = "failed"
      /\ request'[r].at = v /\ request'[r].path = e
      /\ v \in Window /\ e \in Drawing
      /\ \A q \in Requests : q # r => request'[q] = request[q]
  BY <1>1, GotoMeans DEF IInv
<1>3. request[r].at = v /\ request[r].path = e
  OBVIOUS
<1>4. /\ \A d \in Drawing : owner'[d] = owner[d] \/ (owner'[d] = None /\ d = e)
      /\ e \notin twice \union leaked' => owner'[e] = None
      /\ owner' \in [Drawing -> Window \union {None}]
  <2>1. CASE owner' = owner /\ e \in twice \union leaked'
    BY <2>1 DEF IInv, Typed
  <2>2. CASE owner' = [owner EXCEPT ![e] = None]
    BY <1>2, <2>2 DEF IInv, Typed
  <2> QED
    BY <2>1, <2>2
<1> HIDE DEF v, e
<1>5. Has(r, v, e) /\ Under(r, v, e)
  BY <1>3, UnderMeans
<1>6. \A w \in Window, d \in Drawing : ~Under(r, w, d)' /\ ~Has(r, w, d)'
  BY <1>2, UnderMeansNext
<1>7. \A q \in Requests, w \in Window, d \in Drawing :
        /\ Under(q, w, d)' => q # r /\ Under(q, w, d)
        /\ Has(q, w, d)' <=> q # r /\ Has(q, w, d)
  BY <1>2, <1>6, SameUnder
<1>8. e \notin twice => /\ owner[e] = v /\ tabs[v][e] = 0
                        /\ \A q \in Requests : Under(q, v, e) => q = r
  BY <1>2, <1>5 DEF IInv, OpensOnce, ClaimsHold
<1>9. \A q \in Requests, w \in Window, d \in Drawing : Has(q, w, d) => Under(q, w, d)
  BY UnderMeans
<1>10. Typed'
  BY <1>2, <1>4 DEF IInv, Typed
<1>11. OnlyListenersOpen'
  BY <1>2, ListenersMean, ListenersMeanNext DEF IInv
<1>12. OwnersAreThere'
  BY <1>4 DEF IInv, OwnersAreThere
<1>13. OpensOnce'
  BY <1>7 DEF IInv, OpensOnce
<1>14. ClaimsHold'
  <2> SUFFICES ASSUME NEW w \in Window, NEW d \in Drawing, d \notin twice,
                      NEW q \in Requests, q # r, Has(q, w, d)
               PROVE  owner'[d] = w
    BY <1>7 DEF ClaimsHold
  <2>1. owner[d] = w
    BY DEF IInv, ClaimsHold
  <2>2. d # e
    BY <1>8, <1>9, <2>1
  <2> QED
    BY <1>4, <2>1, <2>2
<1>15. AlreadyIsLeaked'
  BY <1>2, <1>7 DEF IInv, AlreadyIsLeaked
<1>16. OneSession'
  BY <1>4, WindowsAssumption DEF IInv, OneSession
<1>17. SessionsAreOwned'
  <2>1. ASSUME NEW w \in Window, NEW d \in Drawing, tabs[w][d] > 0, tabClosing[w][d] # "released",
               d \notin twice
        PROVE  owner'[d] = w
    <3>1. owner[d] = w
      BY <2>1, OwnedMeans DEF IInv
    <3>2. d # e
      BY <1>8, <2>1, <3>1
    <3> QED
      BY <1>4, <3>1, <3>2
  <2>2. ASSUME NEW w \in Window, NEW d \in Drawing, owner'[d] = w, phase[w] = "listening",
               d \notin twice, d \notin leaked'
        PROVE  tabs[w][d] > 0 \/ \E q \in Requests : Has(q, w, d)'
    <3>1. owner[d] = w /\ d # e /\ d \notin leaked
      BY <1>4, <2>2, WindowsAssumption
    <3>2. tabs[w][d] > 0 \/ \E q \in Requests : Has(q, w, d)
      BY <2>2, <3>1, OwnedMeans DEF IInv
    <3>3. \A q \in Requests : Has(q, w, d) => q # r
      BY <1>3, <3>1, UnderMeans
    <3> QED
      BY <1>7, <3>2, <3>3
  <2> QED
    BY <2>1, <2>2, OwnedMeansNext
<1> QED
  BY <1>10, <1>11, <1>12, <1>13, <1>14, <1>15, <1>16, <1>17 DEF IInv

LEMMA ReadFailsKeeps == ASSUME IInv, NEW r \in Requests, ReadFails(r) PROVE IInv'
<1> DEFINE v == request[r].at
           e == request[r].path
<1>1. /\ request[r] # None /\ request[r].step = "opening" /\ Goto(r, "failed")
      /\ UNCHANGED <<phase, tabs, tabClosing, twice, leaked>>
      /\ owner' = IF owner[e] = v /\ ~request[r].already THEN [owner EXCEPT ![e] = None] ELSE owner
  BY DEF ReadFails, Is, Path, At, sessions, history
<1>2. v \in Window /\ e \in Drawing /\ Has(r, v, e)
  BY <1>1, UnderMeans DEF IInv, Typed, Request
<1>3. CASE owner[e] = v /\ ~request[r].already
  BY <1>1, <1>3, OverKeeps
<1>4. CASE ~(owner[e] = v /\ ~request[r].already)
  <2>1. e \in twice \union leaked
    BY <1>1, <1>2, <1>4 DEF IInv, ClaimsHold, AlreadyIsLeaked
  <2>2. owner' = owner
    BY <1>1, <1>4
  <2> QED
    BY <1>1, <2>1, <2>2, OverKeeps
<1> QED
  BY <1>3, <1>4

LEMMA RegisterFailsKeeps == ASSUME IInv, NEW r \in Requests, RegisterFails(r) PROVE IInv'
<1>1. /\ request[r] # None /\ request[r].step = "read" /\ Goto(r, "failed")
      /\ UNCHANGED <<phase, owner, tabs, tabClosing, twice>>
      /\ leaked' = leaked \union {request[r].path}
  BY DEF RegisterFails, Is, Path, At, registry, sessions
<1>2. request[r].path \in Drawing
  BY <1>1 DEF IInv, Typed, Request
<1> QED
  BY <1>1, <1>2, OverKeeps

LEMMA RegisterSessionKeeps == ASSUME IInv, NEW r \in Requests, RegisterSession(r) PROVE IInv'
<1> DEFINE v == request[r].at
           e == request[r].path
<1>1. /\ request[r] # None /\ request[r].step = "read" /\ Goto(r, "shown")
      /\ UNCHANGED <<phase, owner, tabClosing, twice>>
      /\ tabs' = [tabs EXCEPT ![v][e] = @ + 1]
      /\ leaked' = leaked \ {e}
  BY DEF RegisterSession, Is, Path, At, registry
<1>2. "shown" \in Step
  BY DEF Step
<1>3. /\ request' \in [Requests -> Request \union {None}]
      /\ request'[r] # None /\ request'[r].step = "shown"
      /\ request'[r].at = v /\ request'[r].path = e
      /\ v \in Window /\ e \in Drawing
      /\ \A q \in Requests : q # r => request'[q] = request[q]
  BY <1>1, <1>2, GotoMeans DEF IInv
<1>4. /\ tabs' \in [Window -> [Drawing -> Nat]]
      /\ tabs'[v][e] = tabs[v][e] + 1
      /\ \A w \in Window, d \in Drawing : ~(w = v /\ d = e) => tabs'[w][d] = tabs[w][d]
  BY <1>1, <1>3 DEF IInv, Typed
<1>5. request[r].at = v /\ request[r].path = e
  OBVIOUS
<1> HIDE DEF v, e
<1>6. Has(r, v, e) /\ Under(r, v, e)
  BY <1>1, <1>5, UnderMeans
<1>7. \A w \in Window, d \in Drawing : ~Under(r, w, d)' /\ ~Has(r, w, d)'
  BY <1>3, UnderMeansNext
<1>8. \A q \in Requests, w \in Window, d \in Drawing :
        /\ Under(q, w, d)' => q # r /\ Under(q, w, d)
        /\ Has(q, w, d)' <=> q # r /\ Has(q, w, d)
  BY <1>3, <1>7, SameUnder
<1>9. e \notin twice => /\ owner[e] = v /\ tabs[v][e] = 0
                        /\ \A q \in Requests : Under(q, v, e) => q = r
  BY <1>3, <1>6 DEF IInv, OpensOnce, ClaimsHold
<1>10. \A q \in Requests, w \in Window, d \in Drawing : Has(q, w, d) => Under(q, w, d)
  BY UnderMeans
<1>11. tabs[v][e] \in Nat
  BY <1>3 DEF IInv, Typed
<1>12. Typed'
  BY <1>1, <1>3, <1>4 DEF IInv, Typed
<1>13. OnlyListenersOpen'
  <2>1. phase[v] = "listening"
    BY <1>1, <1>3, <1>5, ListenersMean DEF IInv
  <2> QED
    BY <1>1, <1>3, <1>4, <2>1, ListenersMean, ListenersMeanNext DEF IInv
<1>14. OwnersAreThere'
  BY <1>1 DEF IInv, OwnersAreThere
<1>15. OpensOnce'
  <2> SUFFICES ASSUME NEW w \in Window, NEW d \in Drawing, d \notin twice,
                      NEW p \in Requests, p # r, Under(p, w, d)
               PROVE  tabs'[w][d] = 0 /\ \A q \in Requests : Under(q, w, d)' => q = p
    BY <1>1, <1>8 DEF OpensOnce
  <2>1. tabs[w][d] = 0 /\ \A q \in Requests : Under(q, w, d) => q = p
    BY DEF IInv, OpensOnce
  <2>2. ~(w = v /\ d = e)
    BY <1>9
  <2> QED
    BY <1>4, <1>8, <2>1, <2>2
<1>16. ClaimsHold'
  BY <1>1, <1>8 DEF IInv, ClaimsHold
<1>17. AlreadyIsLeaked'
  <2> SUFFICES ASSUME NEW w \in Window, NEW d \in Drawing, d \notin twice,
                      NEW q \in Requests, q # r, Has(q, w, d), request'[q].step = "opening",
                      request'[q].already
               PROVE  d \in leaked'
    BY <1>1, <1>8 DEF AlreadyIsLeaked
  <2>1. d \in leaked
    BY <1>3 DEF IInv, AlreadyIsLeaked
  <2>2. owner[d] = w
    BY DEF IInv, ClaimsHold
  <2>3. d # e
    BY <1>9, <1>10, <2>2
  <2> QED
    BY <1>1, <2>1, <2>3
<1>18. OneSession'
  <2> SUFFICES ASSUME NEW w \in Window, NEW d \in Drawing
               PROVE  /\ tabClosing[w][d] # "no" => tabs'[w][d] > 0
                      /\ d \notin twice => /\ tabs'[w][d] \in {0, 1}
                                           /\ tabClosing[w][d] = "released" => owner[d] # w
    BY <1>1 DEF OneSession
  <2>1. CASE w = v /\ d = e
    BY <1>4, <1>9, <1>11, <2>1 DEF IInv, OneSession
  <2>2. CASE ~(w = v /\ d = e)
    BY <1>4, <2>2 DEF IInv, OneSession
  <2> QED
    BY <2>1, <2>2
<1>19. SessionsAreOwned'
  <2>1. ASSUME NEW w \in Window, NEW d \in Drawing, tabs'[w][d] > 0,
               tabClosing[w][d] # "released", d \notin twice
        PROVE  owner[d] = w
    <3>1. CASE w = v /\ d = e
      BY <1>9, <2>1, <3>1
    <3>2. CASE ~(w = v /\ d = e)
      BY <1>4, <2>1, <3>2, OwnedMeans DEF IInv
    <3> QED
      BY <3>1, <3>2
  <2>2. ASSUME NEW w \in Window, NEW d \in Drawing, owner[d] = w, phase[w] = "listening",
               d \notin twice, d \notin leaked'
        PROVE  tabs'[w][d] > 0 \/ \E q \in Requests : Has(q, w, d)'
    <3>1. CASE d = e
      BY <1>4, <1>9, <1>11, <2>2, <3>1
    <3>2. CASE d # e
      <4>1. tabs[w][d] > 0 \/ \E q \in Requests : Has(q, w, d)
        BY <1>1, <2>2, <3>2, OwnedMeans DEF IInv
      <4>2. \A q \in Requests : Has(q, w, d) => q # r
        BY <1>5, <3>2, UnderMeans
      <4> QED
        BY <1>4, <1>8, <3>2, <4>1, <4>2
    <3> QED
      BY <3>1, <3>2
  <2> QED
    BY <1>1, <2>1, <2>2, OwnedMeansNext
<1> QED
  BY <1>12, <1>13, <1>14, <1>15, <1>16, <1>17, <1>18, <1>19 DEF IInv

-----------------------------------------------------------------------------
(* The closing of tabs and of windows.                                     *)

\* These steps move no request.
LEMMA SameRequests ==
  ASSUME UNCHANGED request
  PROVE  \A q \in Requests, w \in Window, d \in Drawing :
           (Under(q, w, d)' <=> Under(q, w, d)) /\ (Has(q, w, d)' <=> Has(q, w, d))
  BY UnderMeans, UnderMeansNext

\* A closing that is asked for or given up.
LEMMA AskedKeeps ==
  ASSUME IInv, NEW w \in Window, NEW d \in Drawing, NEW s \in {"no", "asked"},
         tabClosing[w][d] \in {"no", "asked"}, tabs[w][d] > 0,
         tabClosing' = [tabClosing EXCEPT ![w][d] = s],
         UNCHANGED <<phase, owner, request, tabs, twice, leaked>>
  PROVE  IInv'
<1>1. /\ tabClosing' \in [Window -> [Drawing -> {"no", "asked", "released"}]]
      /\ tabClosing'[w][d] = s
      /\ \A v \in Window, e \in Drawing :
           ~(v = w /\ e = d) => tabClosing'[v][e] = tabClosing[v][e]
  BY DEF IInv, Typed
<1>2. \A v \in Window, e \in Drawing :
        tabClosing'[v][e] = "released" <=> tabClosing[v][e] = "released"
  BY <1>1
<1>3. \A q \in Requests, v \in Window, e \in Drawing :
        (Under(q, v, e)' <=> Under(q, v, e)) /\ (Has(q, v, e)' <=> Has(q, v, e))
  BY SameRequests
<1>4. Typed'
  BY <1>1 DEF IInv, Typed
<1>5. OnlyListenersOpen'
  BY ListenersMean, ListenersMeanNext DEF IInv
<1>6. OwnersAreThere' /\ OpensOnce' /\ ClaimsHold'
  BY <1>3 DEF IInv, OwnersAreThere, OpensOnce, ClaimsHold
<1>7. AlreadyIsLeaked'
  BY <1>3 DEF IInv, AlreadyIsLeaked
<1>8. OneSession'
  BY <1>1, <1>2 DEF IInv, OneSession
<1>9. SessionsAreOwned'
  BY <1>2, <1>3, OwnedMeans, OwnedMeansNext DEF IInv
<1> QED
  BY <1>4, <1>5, <1>6, <1>7, <1>8, <1>9 DEF IInv

LEMMA CloseTabKeeps ==
  ASSUME IInv, NEW w \in Window, NEW d \in Drawing, CloseTab(w, d) \/ CloseTabFails(w, d)
  PROVE  IInv'
<1>1. UNCHANGED <<phase, owner, request, tabs, twice, leaked>>
  BY DEF CloseTab, CloseTabFails, registry, history
<1>2. CASE CloseTab(w, d)
  BY <1>1, <1>2, AskedKeeps DEF CloseTab
<1>3. CASE CloseTabFails(w, d)
  <2>1. tabs[w][d] > 0
    BY <1>3 DEF CloseTabFails, IInv, OneSession
  <2> QED
    BY <1>1, <1>3, <2>1, AskedKeeps DEF CloseTabFails
<1> QED
  BY <1>2, <1>3

LEMMA CloseTabLandsKeeps ==
  ASSUME IInv, NEW w \in Window, NEW d \in Drawing, CloseTabLands(w, d) PROVE IInv'
<1> DEFINE s == IF owner[d] \in {None, w} THEN "released" ELSE "no"
<1>1. /\ tabClosing[w][d] = "asked"
      /\ UNCHANGED <<phase, request, tabs, twice, leaked>>
  BY DEF CloseTabLands, history
<1>2. /\ tabClosing' \in [Window -> [Drawing -> {"no", "asked", "released"}]]
      /\ tabClosing'[w][d] = s
      /\ \A v \in Window, e \in Drawing :
           ~(v = w /\ e = d) => tabClosing'[v][e] = tabClosing[v][e]
  BY DEF IInv, Typed, CloseTabLands
<1>3. /\ owner' \in [Drawing -> Window \union {None}]
      /\ owner'[d] = IF owner[d] = w THEN None ELSE owner[d]
      /\ \A e \in Drawing : e # d => owner'[e] = owner[e]
  BY DEF IInv, Typed, CloseTabLands
<1>4. tabs[w][d] > 0
  BY <1>1 DEF IInv, OneSession
<1>5. d \notin twice => owner[d] = w
  BY <1>1, <1>4, OwnedMeans DEF IInv
<1>6. \A q \in Requests : d \notin twice => ~Under(q, w, d)
  BY <1>4 DEF IInv, OpensOnce
<1>7. \A q \in Requests, v \in Window, e \in Drawing :
        /\ Under(q, v, e)' <=> Under(q, v, e)
        /\ Has(q, v, e)' <=> Has(q, v, e)
        /\ Has(q, v, e) => Under(q, v, e)
  BY <1>1, SameRequests, UnderMeans
<1>8. Typed'
  BY <1>1, <1>2, <1>3 DEF IInv, Typed
<1>9. OnlyListenersOpen'
  BY <1>1, ListenersMean, ListenersMeanNext DEF IInv
<1>10. OwnersAreThere'
  BY <1>1, <1>3 DEF IInv, OwnersAreThere
<1>11. OpensOnce'
  BY <1>1, <1>7 DEF IInv, OpensOnce
<1>12. ClaimsHold'
  BY <1>1, <1>3, <1>5, <1>6, <1>7 DEF IInv, ClaimsHold
<1>13. AlreadyIsLeaked'
  BY <1>1, <1>7 DEF IInv, AlreadyIsLeaked
<1>14. OneSession'
  <2> SUFFICES ASSUME NEW v \in Window, NEW e \in Drawing
               PROVE  /\ tabClosing'[v][e] # "no" => tabs[v][e] > 0
                      /\ e \notin twice => /\ tabs[v][e] \in {0, 1}
                                           /\ tabClosing'[v][e] = "released" => owner'[e] # v
    BY <1>1 DEF OneSession
  <2>1. CASE v = w /\ e = d
    BY <1>3, <1>4, <1>5, <2>1, WindowsAssumption DEF IInv, OneSession
  <2>2. CASE ~(v = w /\ e = d)
    BY <1>2, <1>3, <2>2, WindowsAssumption DEF IInv, OneSession
  <2> QED
    BY <2>1, <2>2
<1>15. SessionsAreOwned'
  <2>1. ASSUME NEW v \in Window, NEW e \in Drawing, tabs[v][e] > 0,
               tabClosing'[v][e] # "released", e \notin twice
        PROVE  owner'[e] = v
    <3>1. ~(v = w /\ e = d)
      BY <1>2, <1>5, <2>1
    <3>2. owner[e] = v
      BY <1>2, <2>1, <3>1, OwnedMeans DEF IInv
    <3> QED
      BY <1>3, <1>5, <2>1, <3>1, <3>2
  <2>2. ASSUME NEW v \in Window, NEW e \in Drawing, owner'[e] = v, phase[v] = "listening",
               e \notin twice, e \notin leaked
        PROVE  tabs[v][e] > 0 \/ \E q \in Requests : Has(q, v, e)'
    <3>1. owner[e] = v
      BY <1>3, <2>2, WindowsAssumption
    <3> QED
      BY <1>7, <2>2, <3>1, OwnedMeans DEF IInv
  <2> QED
    BY <1>1, <2>1, <2>2, OwnedMeansNext
<1> QED
  BY <1>8, <1>9, <1>10, <1>11, <1>12, <1>13, <1>14, <1>15 DEF IInv

LEMMA DropSessionKeeps ==
  ASSUME IInv, NEW w \in Window, NEW d \in Drawing, DropSession(w, d) PROVE IInv'
<1>1. /\ tabClosing[w][d] = "released"
      /\ UNCHANGED <<phase, owner, request, twice, leaked>>
  BY DEF DropSession, registry, history
<1>2. tabs[w][d] > 0 /\ tabs[w][d] \in Nat
  BY <1>1 DEF IInv, OneSession, Typed
<1>3. /\ tabClosing' \in [Window -> [Drawing -> {"no", "asked", "released"}]]
      /\ tabClosing'[w][d] = "no"
      /\ \A v \in Window, e \in Drawing :
           ~(v = w /\ e = d) => tabClosing'[v][e] = tabClosing[v][e]
  BY DEF IInv, Typed, DropSession
<1>4. /\ tabs'[w][d] = tabs[w][d] - 1
      /\ \A v \in Window, e \in Drawing : ~(v = w /\ e = d) => tabs'[v][e] = tabs[v][e]
  BY DEF IInv, Typed, DropSession
<1>5. tabs' \in [Window -> [Drawing -> Nat]]
  <2>1. tabs[w][d] - 1 \in Nat
    BY <1>2
  <2> QED
    BY <2>1 DEF IInv, Typed, DropSession
<1>6. d \notin twice => tabs'[w][d] = 0 /\ owner[d] # w
  BY <1>1, <1>2, <1>4 DEF IInv, OneSession
<1>7. \A q \in Requests, v \in Window, e \in Drawing :
        (Under(q, v, e)' <=> Under(q, v, e)) /\ (Has(q, v, e)' <=> Has(q, v, e))
  BY <1>1, SameRequests
<1>8. Typed'
  BY <1>1, <1>3, <1>5 DEF IInv, Typed
<1>9. OnlyListenersOpen'
  <2>1. phase[w] = "listening"
    BY <1>2, ListenersMean DEF IInv
  <2> QED
    BY <1>1, <1>4, <2>1, ListenersMean, ListenersMeanNext DEF IInv
<1>10. OwnersAreThere'
  BY <1>1 DEF IInv, OwnersAreThere
<1>11. OpensOnce'
  BY <1>1, <1>4, <1>6, <1>7 DEF IInv, OpensOnce
<1>12. ClaimsHold' /\ AlreadyIsLeaked'
  BY <1>1, <1>7 DEF IInv, ClaimsHold, AlreadyIsLeaked
<1>13. OneSession'
  BY <1>1, <1>3, <1>4, <1>6 DEF IInv, OneSession
<1>14. SessionsAreOwned'
  <2>1. ASSUME NEW v \in Window, NEW e \in Drawing, tabs'[v][e] > 0,
               tabClosing'[v][e] # "released", e \notin twice
        PROVE  owner[e] = v
    BY <1>3, <1>4, <1>6, <2>1, OwnedMeans DEF IInv
  <2>2. ASSUME NEW v \in Window, NEW e \in Drawing, owner[e] = v, phase[v] = "listening",
               e \notin twice, e \notin leaked
        PROVE  tabs'[v][e] > 0 \/ \E q \in Requests : Has(q, v, e)'
    BY <1>4, <1>6, <1>7, <2>2, OwnedMeans DEF IInv
  <2> QED
    BY <1>1, <2>1, <2>2, OwnedMeansNext
<1> QED
  BY <1>8, <1>9, <1>10, <1>11, <1>12, <1>13, <1>14 DEF IInv

LEMMA GoneKeeps == ASSUME IInv, NEW v \in Window, Gone(v) PROVE IInv'
<1> DEFINE rs == Among(v, InFlight \union {"pending", "taken", "sent"})
<1>1. /\ phase' = [phase EXCEPT ![v] = "destroyed"]
      /\ Turn(rs, "window closed")
      /\ tabs' = [tabs EXCEPT ![v] = [d \in Drawing |-> 0]]
      /\ tabClosing' = [tabClosing EXCEPT ![v] = [d \in Drawing |-> "no"]]
      /\ UNCHANGED <<owner, twice, leaked>>
  BY DEF Gone, registry, history
<1>2. "window closed" \in Step /\ \A r \in rs : request[r] # None
  BY DEF Step, Dropped, Among
<1>3. \A r \in Requests : r \in rs <=> /\ request[r] # None /\ request[r].at = v
                                     /\ request[r].step \in {"calling", "opening", "read",
                                                            "pending", "taken", "sent"}
  BY DEF Among, At, InFlight
<1> HIDE DEF rs
<1>4. /\ request' \in [Requests -> Request \union {None}]
      /\ \A r \in Requests : r \in rs =>
           request'[r] # None /\ request'[r].step = "window closed" /\ request'[r].at = request[r].at
      /\ \A r \in Requests : r \notin rs => request'[r] = request[r]
  BY <1>1, <1>2, TurnMeans DEF IInv
<1>5. \A r \in Requests, w \in Window, d \in Drawing :
        /\ Under(r, w, d)' <=> w # v /\ Under(r, w, d)
        /\ Has(r, w, d)' <=> w # v /\ Has(r, w, d)
        /\ Under(r, w, d)' => request'[r] = request[r]
  <2> SUFFICES ASSUME NEW r \in Requests, NEW w \in Window, NEW d \in Drawing
               PROVE  /\ Under(r, w, d)' <=> w # v /\ Under(r, w, d)
                      /\ Has(r, w, d)' <=> w # v /\ Has(r, w, d)
                      /\ Under(r, w, d)' => request'[r] = request[r]
    OBVIOUS
  <2>1. CASE r \in rs
    <3>1. ~Under(r, w, d)' /\ ~Has(r, w, d)'
      BY <1>4, <2>1, UnderMeansNext
    <3>2. w # v => ~Under(r, w, d) /\ ~Has(r, w, d)
      BY <1>3, <2>1, UnderMeans
    <3> QED
      BY <3>1, <3>2
  <2>2. CASE r \notin rs
    <3>1. request'[r] = request[r]
      BY <1>4, <2>2
    <3>2. ~Under(r, v, d) /\ ~Has(r, v, d)
      BY <1>3, <2>2, UnderMeans
    <3> QED
      BY <3>1, <3>2, SameUnder
  <2> QED
    BY <2>1, <2>2
<1>6. /\ phase' \in [Window -> Phase] /\ phase'[v] = "destroyed"
      /\ \A w \in Window : w # v => phase'[w] = phase[w]
  BY <1>1 DEF IInv, Typed, Phase
<1>7. /\ tabs' \in [Window -> [Drawing -> Nat]]
      /\ tabClosing' \in [Window -> [Drawing -> {"no", "asked", "released"}]]
      /\ \A d \in Drawing : tabs'[v][d] = 0 /\ tabClosing'[v][d] = "no"
      /\ \A w \in Window : w # v => tabs'[w] = tabs[w] /\ tabClosing'[w] = tabClosing[w]
  BY <1>1 DEF IInv, Typed
<1>8. Typed'
  BY <1>1, <1>4, <1>6, <1>7 DEF IInv, Typed
<1>9. OnlyListenersOpen'
  <2> SUFFICES ASSUME NEW w \in Window, phase'[w] # "listening"
               PROVE  /\ \A r \in Requests : request'[r] # None /\ request'[r].at = w =>
                           request'[r].step \notin {"calling", "opening", "read", "sent"}
                      /\ \A d \in Drawing : tabs'[w][d] = 0
    BY ListenersMeanNext
  <2>1. \A d \in Drawing : tabs'[w][d] = 0
    BY <1>6, <1>7, ListenersMean DEF IInv
  <2>2. ASSUME NEW r \in Requests, request'[r] # None, request'[r].at = w
        PROVE  request'[r].step \notin {"calling", "opening", "read", "sent"}
    <3>1. CASE r \in rs
      BY <1>4, <3>1
    <3>2. CASE r \notin rs /\ w = v
      BY <1>3, <1>4, <2>2, <3>2
    <3>3. CASE r \notin rs /\ w # v
      BY <1>4, <1>6, <2>2, <3>3, ListenersMean DEF IInv
    <3> QED
      BY <3>1, <3>2, <3>3
  <2> QED
    BY <2>1, <2>2
<1>10. OwnersAreThere'
  BY <1>1, <1>6 DEF IInv, OwnersAreThere, Typed
<1>11. OpensOnce'
  <2> SUFFICES ASSUME NEW w \in Window, NEW d \in Drawing, d \notin twice, NEW r \in Requests,
                      w # v, Under(r, w, d)
               PROVE  tabs'[w][d] = 0 /\ \A q \in Requests : Under(q, w, d)' => q = r
    BY <1>1, <1>5 DEF OpensOnce
  <2>1. tabs[w][d] = 0 /\ \A q \in Requests : Under(q, w, d) => q = r
    BY DEF IInv, OpensOnce
  <2> QED
    BY <1>5, <1>7, <2>1
<1>12. ClaimsHold'
  BY <1>1, <1>5 DEF IInv, ClaimsHold
<1>13. AlreadyIsLeaked'
  <2>1. \A r \in Requests, w \in Window, d \in Drawing :
          Has(r, w, d)' => request'[r] = request[r] /\ Has(r, w, d)
    BY <1>5, UnderMeansNext
  <2> QED
    BY <1>1, <2>1 DEF IInv, AlreadyIsLeaked
<1>14. OneSession'
  <2> SUFFICES ASSUME NEW w \in Window, NEW d \in Drawing
               PROVE  /\ tabClosing'[w][d] # "no" => tabs'[w][d] > 0
                      /\ d \notin twice => /\ tabs'[w][d] \in {0, 1}
                                           /\ tabClosing'[w][d] = "released" => owner[d] # w
    BY <1>1 DEF OneSession
  <2>1. CASE w = v
    BY <1>7, <2>1
  <2>2. CASE w # v
    BY <1>7, <2>2 DEF IInv, OneSession
  <2> QED
    BY <2>1, <2>2
<1>15. SessionsAreOwned'
  <2>1. ASSUME NEW w \in Window, NEW d \in Drawing, tabs'[w][d] > 0,
               tabClosing'[w][d] # "released", d \notin twice
        PROVE  owner[d] = w
    BY <1>7, <2>1, OwnedMeans DEF IInv
  <2>2. ASSUME NEW w \in Window, NEW d \in Drawing, owner[d] = w, phase'[w] = "listening",
               d \notin twice, d \notin leaked
        PROVE  tabs'[w][d] > 0 \/ \E q \in Requests : Has(q, w, d)'
    <3>1. w # v /\ phase[w] = "listening"
      BY <1>6, <2>2
    <3> QED
      BY <1>5, <1>7, <2>2, <3>1, OwnedMeans DEF IInv
  <2> QED
    BY <1>1, <2>1, <2>2, OwnedMeansNext
<1> QED
  BY <1>8, <1>9, <1>10, <1>11, <1>12, <1>13, <1>14, <1>15 DEF IInv

LEMMA UnregisterKeeps == ASSUME IInv, NEW v \in Window, Unregister(v) PROVE IInv'
<1>1. /\ phase[v] = "destroyed"
      /\ phase' = [phase EXCEPT ![v] = "unregistered"]
      /\ owner' = [d \in Drawing |-> IF owner[d] = v THEN None ELSE owner[d]]
      /\ UNCHANGED <<request, tabs, tabClosing, twice, leaked>>
  BY DEF Unregister, sessions, history
<1>2. /\ phase' \in [Window -> Phase] /\ phase'[v] = "unregistered"
      /\ \A w \in Window : w # v => phase'[w] = phase[w]
      /\ \A w \in Window : phase'[w] = "listening" <=> phase[w] = "listening"
  BY <1>1 DEF IInv, Typed, Phase
<1>3. /\ owner' \in [Drawing -> Window \union {None}]
      /\ \A d \in Drawing, w \in Window : owner'[d] = w <=> owner[d] = w /\ w # v
  BY <1>1, WindowsAssumption DEF IInv, Typed
<1>4. \A q \in Requests, w \in Window, d \in Drawing :
        (Under(q, w, d)' <=> Under(q, w, d)) /\ (Has(q, w, d)' <=> Has(q, w, d))
  BY <1>1, SameRequests
<1>5. \A d \in Drawing : tabs[v][d] = 0 /\ \A q \in Requests : ~Has(q, v, d)
  BY <1>1, ListenersMean, UnderMeans DEF IInv
<1>6. Typed'
  BY <1>1, <1>2, <1>3 DEF IInv, Typed
<1>7. OnlyListenersOpen'
  BY <1>1, <1>2, ListenersMean, ListenersMeanNext DEF IInv
<1>8. OwnersAreThere'
  BY <1>2, <1>3 DEF IInv, Typed, OwnersAreThere
<1>9. OpensOnce'
  BY <1>1, <1>4 DEF IInv, OpensOnce
<1>10. ClaimsHold'
  BY <1>1, <1>3, <1>4, <1>5 DEF IInv, ClaimsHold
<1>11. AlreadyIsLeaked'
  BY <1>1, <1>4 DEF IInv, AlreadyIsLeaked
<1>12. OneSession'
  BY <1>1, <1>3 DEF IInv, OneSession
<1>13. SessionsAreOwned'
  <2>1. ASSUME NEW w \in Window, NEW d \in Drawing, tabs[w][d] > 0,
               tabClosing[w][d] # "released", d \notin twice
        PROVE  owner'[d] = w
    BY <1>3, <1>5, <2>1, OwnedMeans DEF IInv
  <2>2. ASSUME NEW w \in Window, NEW d \in Drawing, owner'[d] = w, phase'[w] = "listening",
               d \notin twice, d \notin leaked
        PROVE  tabs[w][d] > 0 \/ \E q \in Requests : Has(q, w, d)'
    BY <1>2, <1>3, <1>4, <2>2, OwnedMeans DEF IInv
  <2> QED
    BY <1>1, <2>1, <2>2, OwnedMeansNext
<1> QED
  BY <1>6, <1>7, <1>8, <1>9, <1>10, <1>11, <1>12, <1>13 DEF IInv

-----------------------------------------------------------------------------
LEMMA NextKeeps == IInv /\ [Next]_vars => IInv'
<1> SUFFICES ASSUME IInv, [Next]_vars PROVE IInv'
  OBVIOUS
<1>1. CASE UNCHANGED vars
  <2>1. UNCHANGED <<request, owner, tabs, tabClosing, twice, leaked, phase>>
    BY <1>1 DEF vars, registry, sessions, history
  <2>2. phase' \in [Window -> Phase]
    BY <2>1 DEF IInv, Typed
  <2> QED
    BY <2>1, <2>2, OthersCalm, CalmKeeps
<1>2. CASE Progress
  <2>1. ASSUME NEW r \in Requests,
               Push(r) \/ OpenRouted(r) \/ Claim(r) \/ ReadLands(r) \/ RegisterSession(r)
        PROVE  IInv'
    BY <2>1, PushCalm, ReadLandsCalm, CalmKeeps, OpenRoutedKeeps, ClaimKeeps, RegisterSessionKeeps
  <2>2. ASSUME NEW w \in Window, Handshake(w) \/ HandshakeLands(w) \/ Mount(w) PROVE IInv'
    BY <2>2, HandshakeCalm, WindowsCalm, CalmKeeps
  <2>3. ASSUME NEW w \in Window, NEW d \in Drawing, CloseTabLands(w, d) \/ DropSession(w, d)
        PROVE  IInv'
    BY <2>3, CloseTabLandsKeeps, DropSessionKeeps
  <2>4. ASSUME NEW w \in Window,
               \/ EnsureContained(w) \/ BeginPeerClose(w) \/ HearPeer(w)
               \/ \E c \in Window \union {User} : CheckpointAllLands(w, c)
               \/ ClaimForPeer(w) \/ ClaimResult(w)
        PROVE  IInv'
    BY <2>4, PeersCalm, CalmKeeps
  <2>5. ASSUME NEW w \in Window, Destroyed(w) \/ Unregister(w) \/ FinishPeerCloses(w)
        PROVE  IInv'
    BY <2>5, GoneKeeps, UnregisterKeeps, WindowsCalm, CalmKeeps DEF Destroyed
  <2> QED
    BY <1>2, <2>1, <2>2, <2>3, <2>4, <2>5 DEF Progress
<1>3. CASE Asked
  <2>1. ASSUME NEW r \in Requests, NEW d \in Drawing,
               Route(r, d) \/ RouteToNew(r, d) \/ UserOpens(r, d)
        PROVE  IInv'
    BY <2>1, RouteCalm, RouteToNewCalm, UserOpensCalm, CalmKeeps
  <2>2. ASSUME NEW w \in Window,
               \/ NewWindow(w) \/ OpenFolder(w) \/ UserCloses(w)
               \/ \E v \in Window, f \in Folder : AskToClose(w, v, f)
        PROVE  IInv'
    BY <2>2, WindowsCalm, PeersCalm, CalmKeeps
  <2>3. ASSUME NEW w \in Window,
               UserClosesStarting(w) \/ \E d \in Drawing : CloseTab(w, d)
        PROVE  IInv'
    BY <2>3, GoneKeeps, CloseTabKeeps DEF UserClosesStarting
  <2> QED
    BY <1>3, <2>1, <2>2, <2>3 DEF Asked
<1>4. CASE Failure
  <2>1. ASSUME NEW r \in Requests, ReadFails(r) \/ RegisterFails(r) PROVE IInv'
    BY <2>1, ReadFailsKeeps, RegisterFailsKeeps
  <2>2. ASSUME NEW w \in Window,
               \/ HandshakeFails(w) \/ \E d \in Drawing : CloseTabFails(w, d)
               \/ \E c \in Window \union {User} : CloseFails(w, c)
        PROVE  IInv'
    BY <2>2, HandshakeFailsCalm, CloseTabKeeps, PeersCalm, CalmKeeps
  <2> QED
    BY <1>4, <2>1, <2>2 DEF Failure
<1> QED
  BY <1>1, <1>2, <1>3, <1>4 DEF Next

\* Sessions and ownership agree, whoever opens, closes, fails and goes, in any
\* number and order: the registry as the commands keep it, the sessions as the
\* windows do, with awaits between the two.
THEOREM SessionsAreOwnedHolds == Spec => []SessionsAreOwned
<1>1. IInv => SessionsAreOwned
  BY DEF IInv
<1> QED
  BY InitHolds, NextKeeps, <1>1, PTL DEF Spec

\* A window opens a drawing once at a time and never while it shows it, and what
\* it has claimed no other window gets before it is shown or has failed; exempt
\* is a drawing that was asked for again before the first answer.
THEOREM OpeningsAreExclusive == Spec => [](OpensOnce /\ ClaimsHold)
<1>1. IInv => OpensOnce /\ ClaimsHold
  BY DEF IInv
<1> QED
  BY InitHolds, NextKeeps, <1>1, PTL DEF Spec

-----------------------------------------------------------------------------
(* The native menu.                                                        *)

\* The window in front is the one shown, or is about to be handled, or what the
\* main thread has begun was begun with it in front.
FrontIsKnown ==
  /\ key # Nobody => active = key \/ news = key \/ (main.at = "focus" /\ main.window = key)
  /\ news # Nobody /\ key # Nobody => news = key
  /\ main.at = "focus" => /\ news = Nobody
                          /\ key # Nobody => main.window = key
  /\ main.at \in {"sync", "history"} /\ key # Nobody => main.target = key

\* The clean-up of a window begins when it is gone, and only then is what it
\* reported lost.
CleanupOfTheClosed ==
  \A w \in AnyWindow :
    /\ cleanup[w].at # "none" => w \notin native /\ w <= opened
    /\ cleanup[w].at = "none" => windows[w] = told[w]
    /\ cleanup[w].at \in {"none", "release"} /\ w <= opened => w \in registered

\* But for what a failure or a shortcut left behind, the flags on the menu are
\* those of the window it shows, but while they are being put there or a chosen
\* item has turned itself.
ShownIsApplied ==
  "flags" \notin failed /\ ~behind /\ LockFree =>
    /\ installed.enabled = Enabled(ReportOf(windows, active), active # Nobody)
    /\ main.at # "choice" => installed.checked = Checked(ReportOf(windows, active))

LabelsAgree ==
  /\ labels = spoken
  /\ "labels" \notin failed => installed.labels = labels

MenuIInv == MenuTypeOK /\ FrontIsKnown /\ CleanupOfTheClosed /\ ShownIsApplied /\ LabelsAgree

-----------------------------------------------------------------------------
(* The operators of the menu.                                              *)

LEMMA EnabledIsItems ==
  ASSUME NEW s \in WindowState, NEW b \in BOOLEAN
  PROVE  Enabled(s, b) \in SUBSET Item /\ Checked(s) \in SUBSET CheckItem
<1>1. s.sync.on \in SUBSET CheckItem
  BY DEF WindowState, SyncState
<1>2. "view mode" \in CheckItem
  BY DEF CheckItem, Toggle
<1>3. Checked(s) \in SUBSET CheckItem
  BY <1>1, <1>2 DEF Checked
<1>4. /\ {"save", "help", "grid", "zen"} \subseteq Item
      /\ {"tool lock", "snap", "view mode"} \subseteq Item
      /\ {"open workspace"} \subseteq Item /\ {"version history"} \subseteq Item
      /\ {"new window", "quit", "export image"} \subseteq Item
      /\ Appearance \subseteq Item /\ Tongue \subseteq Item
  BY DEF Item, Forwarded, CheckItem, Toggle
<1> QED
  BY <1>3, <1>4 DEF Enabled

LEMMA MenuOfIsMenu ==
  ASSUME NEW speech \in Language, NEW states \in [AnyWindow -> WindowState], NEW w \in MaybeWindow
  PROVE  MenuOf(speech, states, w) \in Menu
<1>1. Default \in WindowState
  BY DEF Default, WindowState, SyncState, CheckItem, Appearance, Tongue
<1>2. ReportOf(states, w) \in WindowState
  BY <1>1 DEF ReportOf, MaybeWindow
<1> QED
  BY <1>2, EnabledIsItems DEF MenuOf, Menu

\* Setting one item is what the new report asks for.
LEMMA HistoryIsOneItem ==
  ASSUME NEW s \in WindowState, NEW e \in BOOLEAN, NEW b \in BOOLEAN
  PROVE  /\ Enabled([s EXCEPT !.history = e], b) =
              IF e THEN Enabled(s, b) \union {"version history"}
              ELSE Enabled(s, b) \ {"version history"}
         /\ Checked([s EXCEPT !.history = e]) = Checked(s)
<1> DEFINE n == [s EXCEPT !.history = e]
<1>1. n.sync = s.sync /\ n.history = e
  BY DEF WindowState
<1>2. /\ "version history" \notin {"save", "help", "grid", "zen"}
      /\ "version history" \notin {"tool lock", "snap", "view mode"}
      /\ "version history" \notin {"open workspace"}
      /\ "version history" \notin {"new window", "quit", "export image"}
      /\ "version history" \notin Appearance /\ "version history" \notin Tongue
  BY DEF Appearance, Tongue
<1>3. Checked(n) = Checked(s)
  BY <1>1 DEF Checked
<1>4. Enabled(n, b) = IF e THEN Enabled(s, b) \union {"version history"}
                      ELSE Enabled(s, b) \ {"version history"}
  BY <1>1, <1>2 DEF Enabled
<1> QED
  BY <1>3, <1>4

LEMMA WithoutIsSeq ==
  ASSUME NEW seq \in Seq(AnyWindow), NEW w
  PROVE  WithoutWindow(seq, w) \in Seq(AnyWindow)
<1>1. CASE ~\E i \in DOMAIN seq : seq[i] = w
  BY <1>1 DEF WithoutWindow
<1>2. CASE \E i \in DOMAIN seq : seq[i] = w
  <2> DEFINE i == CHOOSE i \in DOMAIN seq : seq[i] = w
  <2>1. i \in 1..Len(seq)
    BY <1>2
  <2>2. SubSeq(seq, 1, i - 1) \in Seq(AnyWindow) /\ SubSeq(seq, i + 1, Len(seq)) \in Seq(AnyWindow)
    <3>1. \A j \in 1..Len(seq) : seq[j] \in AnyWindow
      OBVIOUS
    <3> HIDE DEF i
    <3>2. /\ \A j \in 1..(i - 1) : seq[j] \in AnyWindow
          /\ \A j \in (i + 1)..Len(seq) : seq[j] \in AnyWindow
      BY <2>1, <3>1
    <3> QED
      BY <2>1, <3>2, SubSeqProperties
  <2> QED
    BY <1>2, <2>2 DEF WithoutWindow
<1> QED
  BY <1>1, <1>2


LEMMA GreatestWindow ==
  ASSUME NEW n \in Nat, NEW S \in SUBSET (1..n), S # {}
  PROVE  \E w \in S : \A v \in S : v <= w
<1> DEFINE R == {p \in Nat \X Nat : p[1] < p[2]}
           T == {n - i : i \in S}
<1>1. IsWellFoundedOn(R, Nat)
  <2>1. OpToRel(<, Nat) = R
    BY DEF OpToRel
  <2> QED
    BY <2>1, NatLessThanWellFounded
<1>2. T \subseteq Nat /\ T # {}
  <2>1. PICK i \in S : TRUE
    OBVIOUS
  <2>2. \A k \in S : n - k \in Nat
    OBVIOUS
  <2>3. n - i \in T
    BY <2>1
  <2> QED
    BY <2>2, <2>3
<1>3. PICK m \in T : \A k \in T : <<k, m>> \notin R
  BY <1>1, <1>2, WFMin
<1>4. PICK j \in S : m = n - j
  OBVIOUS
<1>5. ASSUME NEW i \in S PROVE i <= j
  <2>1. n - i \in T /\ n - i \in Nat /\ m \in Nat
    BY <1>2
  <2>2. ~(n - i < m)
    BY <1>3, <2>1
  <2> QED
    BY <1>4, <2>2
<1> QED
  BY <1>5

LEMMA TargetIsWindow ==
  ASSUME MenuTypeOK
  PROVE  Target \in MaybeWindow
<1>1. /\ opened \in Nat /\ opened <= MaxWindow
      /\ registered \subseteq 1..opened /\ recent \in Seq(AnyWindow)
  BY MenuAssumption DEF MenuTypeOK
<1>2. registered \subseteq AnyWindow
  BY <1>1, MenuAssumption DEF AnyWindow
<1>3. key \in MaybeWindow
  BY <1>2 DEF MenuTypeOK, MaybeWindow
<1>4. MostRecent \in MaybeWindow
  <2>1. CASE recent # <<>>
    <3>1. Head(recent) \in AnyWindow
      BY <1>1, <2>1
    <3> QED
      BY <2>1, <3>1 DEF MostRecent, MaybeWindow
  <2>2. CASE recent = <<>> /\ registered = {}
    BY <2>2 DEF MostRecent, MaybeWindow
  <2>3. CASE recent = <<>> /\ registered # {}
    <3>1. \E w \in registered : \A v \in registered : v <= w
      BY <1>1, <2>3, GreatestWindow
    <3>2. MostRecent \in registered
      BY <2>3, <3>1 DEF MostRecent
    <3> QED
      BY <1>2, <3>2 DEF MaybeWindow
  <2> QED
    BY <2>1, <2>2, <2>3
<1> QED
  BY <1>3, <1>4 DEF Target

LEMMA WindowsExist ==
  ASSUME MenuTypeOK
  PROVE  /\ opened \in Nat /\ native \subseteq registered /\ registered \subseteq AnyWindow
         /\ native \subseteq AnyWindow
         /\ \A w \in registered : w <= opened
BY MenuAssumption DEF MenuTypeOK, AnyWindow

-----------------------------------------------------------------------------
(* Every step keeps the types.                                             *)

LEMMA MenuInitHolds == MenuInit => MenuIInv
<1> SUFFICES ASSUME MenuInit PROVE MenuIInv
  OBVIOUS
<1> USE MenuAssumption DEF MenuInit
<1>1. Default \in WindowState
  BY DEF Default, WindowState, SyncState, CheckItem, Appearance, Tongue
<1>2. installed \in Menu
  BY <1>1, MenuOfIsMenu DEF MaybeWindow
<1>3. main \in Main /\ cleanup \in [AnyWindow -> Cleanup]
  BY DEF MaybeWindow, AtRest, Main, Cleanup
<1>. behind \in BOOLEAN
  OBVIOUS
<1>7. MenuTypeOK
  BY <1>1, <1>2, <1>3 DEF MenuTypeOK, MaybeWindow
<1>4. FrontIsKnown /\ LabelsAgree
  BY DEF FrontIsKnown, LabelsAgree, AtRest, MenuOf
<1>5. CleanupOfTheClosed
  BY DEF CleanupOfTheClosed, AnyWindow
<1>6. ShownIsApplied
  BY DEF ShownIsApplied, MenuOf
<1> QED
  BY <1>7, <1>4, <1>5, <1>6 DEF MenuIInv

\* What puts flags on the menu leaves it a menu, with the flags or marked.
LEMMA ApplyPuts ==
  ASSUME MenuTypeOK, NEW states \in [AnyWindow -> WindowState], NEW w \in MaybeWindow,
         ApplyOrLog(states, w)
  PROVE  /\ installed' \in Menu /\ failed' \subseteq {"flags", "labels"} /\ behind' \in BOOLEAN
         /\ installed'.labels = installed.labels
         /\ "labels" \in failed' <=> "labels" \in failed
         /\ "flags" \notin failed' => /\ installed'.enabled = Enabled(ReportOf(states, w), w # Nobody)
                                      /\ installed'.checked = Checked(ReportOf(states, w))
<1>1. installed.labels \in Language
  BY DEF MenuTypeOK, Menu
<1>2. CASE Apply(states, w)
  <2>1. installed' = MenuOf(installed.labels, states, w)
    BY <1>2 DEF Apply
  <2>2. installed' \in Menu
    BY <1>1, <2>1, MenuOfIsMenu
  <2>3. failed' \subseteq {"flags", "labels"} /\ ("labels" \in failed' <=> "labels" \in failed)
    BY <1>2 DEF Apply, MenuTypeOK
  <2>4. behind' \in BOOLEAN
    BY <1>2 DEF Apply
  <2> QED
    BY <2>1, <2>2, <2>3, <2>4 DEF MenuOf
<1>3. CASE ChangeFails
  <2>1. installed' \in Menu /\ installed' = installed /\ "flags" \in failed'
    BY <1>3 DEF ChangeFails, MenuTypeOK
  <2>2. failed' \subseteq {"flags", "labels"} /\ ("labels" \in failed' <=> "labels" \in failed)
    BY <1>3 DEF ChangeFails, MenuTypeOK
  <2>3. behind' \in BOOLEAN
    BY <1>3 DEF ChangeFails, MenuTypeOK
  <2> QED
    BY <2>1, <2>2, <2>3
<1> QED
  BY <1>2, <1>3 DEF ApplyOrLog

LEMMA RebuildPuts ==
  ASSUME MenuTypeOK, NEW speech \in Language, NEW states \in [AnyWindow -> WindowState],
         NEW w \in MaybeWindow, Rebuild(speech, states, w) \/ RebuildFails(speech, states, w)
  PROVE  /\ installed' \in Menu /\ failed' \subseteq {"flags", "labels"} /\ behind' \in BOOLEAN
         /\ "labels" \notin failed' => installed'.labels = speech
         /\ "flags" \notin failed' => /\ installed'.enabled = Enabled(ReportOf(states, w), w # Nobody)
                                      /\ installed'.checked = Checked(ReportOf(states, w))
<1>1. MenuOf(speech, states, w) \in Menu
  BY MenuOfIsMenu
<1>2. installed \in Menu
  BY DEF MenuTypeOK
<1>3. behind' \in BOOLEAN
  BY DEF Rebuild, RebuildFails, MenuTypeOK
<1>4. installed' \in Menu /\ failed' \subseteq {"flags", "labels"}
  BY <1>1, <1>2 DEF Rebuild, RebuildFails
<1>5. CASE Rebuild(speech, states, w)
  BY <1>3, <1>4, <1>5 DEF Rebuild, MenuOf
<1>6. CASE RebuildFails(speech, states, w)
  BY <1>3, <1>4, <1>6 DEF RebuildFails
<1> QED
  BY <1>5, <1>6

-----------------------------------------------------------------------------
(* Every step keeps the invariant.                                         *)

\* Steps that leave what is shown, reported and cleaned up alone.
LEMMA ShownStays ==
  ASSUME ShownIsApplied, UNCHANGED <<model, menu, cleanup>>, main.at = "choice" => main'.at = "choice"
  PROVE  ShownIsApplied'
BY DEF ShownIsApplied, LockFree, TaskAt, model, menu

LEMMA LabelsStay ==
  ASSUME LabelsAgree, UNCHANGED <<labels, spoken, installed.labels>>, "labels" \in failed => "labels" \in failed'
  PROVE  LabelsAgree'
BY DEF LabelsAgree

LEMMA OpenWindowKeeps ==
  ASSUME MenuIInv, OpenWindow
  PROVE  MenuIInv'
<1> USE DEF MenuIInv, OpenWindow
<1>1. /\ opened' \in 0..MaxWindow /\ opened' = opened + 1 /\ opened \in Nat
      /\ registered' \subseteq 1..opened'
  BY MenuAssumption DEF MenuTypeOK
<1>2. MenuTypeOK'
  <2>1. key' \in native' \union {Nobody} /\ news' \in native' \union {Nobody}
    BY DEF MenuTypeOK
  <2>2. native' \subseteq registered'
    BY DEF MenuTypeOK
  <2> QED
    BY <1>1, <2>1, <2>2 DEF MenuTypeOK, model, menu, reports
<1>3. FrontIsKnown'
  BY DEF FrontIsKnown, model, AtRest
<1>4. CleanupOfTheClosed'
  <2>1. \A w \in AnyWindow : w = opened' => ~(w <= opened)
    BY <1>1
  <2>2. \A w \in AnyWindow : w <= opened' /\ w # opened' => w <= opened
    BY <1>1 DEF AnyWindow
  <2>3. \A w \in AnyWindow : w <= opened => w <= opened'
    BY <1>1 DEF AnyWindow
  <2>4. ASSUME NEW w \in AnyWindow
        PROVE  /\ cleanup'[w].at # "none" => w \notin native' /\ w <= opened'
               /\ cleanup'[w].at = "none" => windows'[w] = told'[w]
               /\ cleanup'[w].at \in {"none", "release"} /\ w <= opened' => w \in registered'
    BY <2>1, <2>2, <2>3 DEF CleanupOfTheClosed, model, reports
  <2> QED
    BY <2>4 DEF CleanupOfTheClosed
<1>5. ShownIsApplied'
  BY ShownStays
<1>6. LabelsAgree'
  BY LabelsStay DEF model, menu, reports
<1> QED
  BY <1>2, <1>3, <1>4, <1>5, <1>6

\* What windows in front and commands that begin change is not on the menu.
LEMMA FrontKeeps ==
  ASSUME MenuIInv, NEW w \in AnyWindow,
         \/ ComesToFront(w) \/ ProgramLeaves \/ Focused
         \/ \E speech \in Language, state \in Report : StartSync(w, speech, state)
         \/ \E enabled \in BOOLEAN : StartEnable(w, enabled)
  PROVE  MenuIInv'
<1> USE DEF MenuIInv
<1> DEFINE Starts == \/ \E speech \in Language, state \in Report : StartSync(w, speech, state)
                     \/ \E enabled \in BOOLEAN : StartEnable(w, enabled)
<1>1. /\ UNCHANGED <<opened, registered, native, model, menu, reports, cleanup>>
      /\ main.at # "choice"
  BY DEF ComesToFront, ProgramLeaves, Focused, StartSync, StartEnable, AtRest, screen
<1>2. MenuTypeOK'
  <2>1. key' \in native \union {Nobody} /\ news' \in native \union {Nobody}
    BY DEF MenuTypeOK, ComesToFront, ProgramLeaves, Focused, StartSync, StartEnable, screen
  <2>2. main' \in Main
    <3>1. CASE ComesToFront(w) \/ ProgramLeaves
      BY <3>1 DEF ComesToFront, ProgramLeaves, MenuTypeOK
    <3>2. CASE Focused
      <4>1. news \in AnyWindow
        BY <3>2, WindowsExist DEF Focused, MenuTypeOK
      <4> QED
        BY <3>2, <4>1 DEF Focused, Main
    <3>3. CASE Starts
      BY <3>3, TargetIsWindow, MenuAssumption DEF StartSync, StartEnable, Main
    <3> QED
      BY <3>1, <3>2, <3>3
  <2>3. recent' \in Seq(AnyWindow)
    <3>1. CASE Focused
      <4>1. news \in AnyWindow
        BY <3>1, WindowsExist DEF Focused, MenuTypeOK
      <4>2. WithoutWindow(recent, news) \in Seq(AnyWindow) /\ <<news>> \in Seq(AnyWindow)
        BY <4>1, WithoutIsSeq DEF MenuTypeOK
      <4> QED
        BY <3>1, <4>2 DEF Focused
    <3>2. CASE ~Focused
      BY <3>2 DEF MenuTypeOK, ComesToFront, ProgramLeaves, StartSync, StartEnable, screen
    <3> QED
      BY <3>1, <3>2
  <2> QED
    BY <1>1, <2>1, <2>2, <2>3 DEF MenuTypeOK, model, menu, reports
<1>3. FrontIsKnown'
  <2>1. CASE ComesToFront(w) \/ ProgramLeaves
    BY <2>1 DEF ComesToFront, ProgramLeaves, FrontIsKnown, AtRest, model
  <2>2. CASE Focused
    BY <2>2 DEF Focused, FrontIsKnown, AtRest, model
  <2>3. CASE Starts
    BY <2>3 DEF StartSync, StartEnable, FrontIsKnown, AtRest, model, screen, Target
  <2> QED
    BY <2>1, <2>2, <2>3
<1>4. CleanupOfTheClosed'
  BY <1>1 DEF CleanupOfTheClosed, model, reports
<1>5. ShownIsApplied'
  BY <1>1, ShownStays
<1>6. LabelsAgree'
  BY <1>1, LabelsStay DEF model, menu, reports
<1> QED
  BY <1>2, <1>3, <1>4, <1>5, <1>6

LEMMA ShowWindowStateKeeps ==
  ASSUME MenuIInv, ShowWindowState
  PROVE  MenuIInv'
<1> USE DEF MenuIInv, ShowWindowState
<1>1. main.window \in AnyWindow
  BY DEF MenuTypeOK, Main, AtRest
<1>2. active' \in MaybeWindow /\ active' = main.window
  BY <1>1 DEF MaybeWindow
<1>3. /\ installed' \in Menu /\ failed' \subseteq {"flags", "labels"} /\ behind' \in BOOLEAN
      /\ installed'.labels = installed.labels /\ ("labels" \in failed' <=> "labels" \in failed)
  <2>1. CASE ApplyOrLog(windows, main.window)
    BY <1>2, <2>1, ApplyPuts DEF MenuTypeOK
  <2>2. CASE UNCHANGED menu
    BY <2>2 DEF menu, MenuTypeOK
  <2> QED
    BY <2>1, <2>2
<1>4. AtRest \in Main
  BY DEF Main
<1>5. MenuTypeOK'
  BY <1>2, <1>3, <1>4 DEF MenuTypeOK, screen, reports
<1>6. FrontIsKnown'
  BY DEF FrontIsKnown, screen, AtRest
<1>7. CleanupOfTheClosed'
  BY DEF CleanupOfTheClosed, screen, reports
<1>8. ShownIsApplied'
  <2>1. CASE active = main.window /\ UNCHANGED menu
    BY <2>1 DEF ShownIsApplied, LockFree, TaskAt, menu
  <2>2. CASE ApplyOrLog(windows, main.window)
    <3>1. "flags" \notin failed' =>
            /\ installed'.enabled = Enabled(ReportOf(windows, main.window), main.window # Nobody)
            /\ installed'.checked = Checked(ReportOf(windows, main.window))
      BY <1>2, <2>2, ApplyPuts DEF MenuTypeOK
    <3>2. windows' = windows
      OBVIOUS
    <3> QED
      BY <1>2, <3>1, <3>2 DEF ShownIsApplied, ReportOf
  <2> QED
    BY <2>1, <2>2
<1>9. LabelsAgree'
  BY <1>3, LabelsStay DEF reports
<1> QED
  BY <1>5, <1>6, <1>7, <1>8, <1>9

LEMMA SyncKeeps ==
  ASSUME MenuIInv, Sync \/ SyncFails
  PROVE  MenuIInv'
<1> USE DEF MenuIInv
<1> DEFINE w == main.window
           states == [windows EXCEPT ![w].sync = main.state]
           shown == IF main.target = w THEN w ELSE active
<1>1. /\ main.at = "sync" /\ LockFree /\ main' = AtRest
      /\ UNCHANGED <<screen, cleanup>>
  BY DEF Sync, SyncFails
<1>2. /\ w \in AnyWindow /\ main.target \in MaybeWindow /\ main.labels \in Language
      /\ main.state \in SyncState
  BY <1>1 DEF MenuTypeOK, Main, AtRest
<1>3. /\ windows[w] \in WindowState /\ [windows[w] EXCEPT !.sync = main.state] \in WindowState
      /\ told[w] \in WindowState /\ [told[w] EXCEPT !.sync = main.state] \in WindowState
  BY <1>2 DEF MenuTypeOK, WindowState
<1>4. /\ states \in [AnyWindow -> WindowState] /\ shown \in MaybeWindow
      /\ \A v \in AnyWindow \ {w} : states[v] = windows[v]
  BY <1>2, <1>3 DEF MenuTypeOK, MaybeWindow
<1> HIDE DEF states, shown
<1>5. /\ installed' \in Menu /\ failed' \subseteq {"flags", "labels"} /\ behind' \in BOOLEAN
  <2>1. CASE Rebuild(main.labels, states, shown) \/ RebuildFails(main.labels, states, shown)
    BY <1>2, <1>4, <2>1, RebuildPuts
  <2>2. CASE main.target = w /\ (Apply(states, w) \/ ChangeFails)
    <3>1. w \in MaybeWindow
      BY <1>2 DEF MaybeWindow
    <3> QED
      BY <1>4, <2>2, <3>1, ApplyPuts DEF ApplyOrLog
  <2>3. CASE behind' = (behind \/ active = w) /\ UNCHANGED <<installed, failed>>
    BY <2>3 DEF MenuTypeOK
  <2> QED
    BY <2>1, <2>2, <2>3 DEF Sync, SyncFails, states, shown
<1>6. /\ labels' \in Language /\ spoken' \in Language /\ active' \in MaybeWindow
      /\ windows' \in [AnyWindow -> WindowState] /\ told' \in [AnyWindow -> WindowState]
  <2>1. CASE Sync
    <3>1. [told EXCEPT ![w].sync = main.state] \in [AnyWindow -> WindowState]
      BY <1>2, <1>3 DEF MenuTypeOK
    <3> QED
      BY <1>2, <1>4, <2>1, <3>1 DEF Sync, states, shown
  <2>2. CASE SyncFails
    BY <2>2 DEF SyncFails, MenuTypeOK, model, reports
  <2> QED
    BY <2>1, <2>2
<1>7. MenuTypeOK'
  <2>1. AtRest \in Main
    BY DEF Main
  <2> QED
    BY <1>1, <1>5, <1>6, <2>1 DEF MenuTypeOK, screen
<1>8. FrontIsKnown'
  <2>1. CASE Sync
    <3>1. active' = IF main.target = w THEN w ELSE active
      BY <2>1 DEF Sync
    <3> QED
      BY <1>1, <3>1 DEF FrontIsKnown, screen, AtRest
  <2>2. CASE SyncFails
    BY <1>1, <2>2 DEF SyncFails, FrontIsKnown, screen, AtRest, model
  <2> QED
    BY <2>1, <2>2
<1>9. CleanupOfTheClosed'
  <2>1. CASE Sync
    <3>1. windows' = states /\ told' = [told EXCEPT ![w].sync = main.state]
      BY <2>1 DEF Sync, states
    <3>2. ASSUME NEW v \in AnyWindow, windows[v] = told[v] PROVE windows'[v] = told'[v]
      BY <1>2, <1>3, <1>4, <3>1, <3>2 DEF MenuTypeOK, states
    <3> QED
      BY <1>1, <3>2 DEF CleanupOfTheClosed, screen
  <2>2. CASE SyncFails
    BY <1>1, <2>2 DEF SyncFails, CleanupOfTheClosed, screen, model, reports
  <2> QED
    BY <2>1, <2>2
<1>10. ShownIsApplied'
  <2>1. CASE Sync
    <3>1. windows' = states /\ active' = shown
      BY <2>1 DEF Sync, states, shown
    <3>2. CASE main.labels # labels
      <4>1. Rebuild(main.labels, states, shown)
        BY <2>1, <3>2 DEF Sync, states, shown
      <4> QED
        BY <1>2, <1>4, <3>1, <4>1, RebuildPuts DEF ShownIsApplied
    <3>3. CASE main.labels = labels /\ main.target = w
      <4>1. Apply(states, w) /\ shown = w /\ w \in MaybeWindow
        BY <1>2, <2>1, <3>3 DEF Sync, states, shown, MaybeWindow
      <4> QED
        BY <1>4, <3>1, <4>1, ApplyPuts DEF ShownIsApplied, ApplyOrLog
    <3>4. CASE main.labels = labels /\ main.target # w
      <4>1. behind' = (behind \/ active = w) /\ UNCHANGED <<installed, failed>> /\ shown = active
        BY <2>1, <3>4 DEF Sync, shown
      <4>2. CASE active = w
        BY <4>1, <4>2 DEF ShownIsApplied
      <4>3. CASE active # w
        <5>1. ReportOf(states, active) = ReportOf(windows, active)
          BY <1>4, <4>3 DEF ReportOf, MenuTypeOK, MaybeWindow
        <5>2. LockFree' = LockFree
          BY <1>1 DEF LockFree, TaskAt
        <5>3. behind' = behind
          BY <4>1, <4>3 DEF MenuTypeOK
        <5> QED
          BY <1>1, <3>1, <4>1, <5>1, <5>2, <5>3 DEF ShownIsApplied
      <4> QED
        BY <4>2, <4>3
    <3> QED
      BY <3>2, <3>3, <3>4
  <2>2. CASE SyncFails
    BY <2>2 DEF SyncFails, RebuildFails, ChangeFails, ShownIsApplied
  <2> QED
    BY <2>1, <2>2
<1>11. LabelsAgree'
  <2>1. CASE Sync
    <3>1. labels' = main.labels /\ spoken' = main.labels
      BY <2>1 DEF Sync
    <3>2. CASE main.labels # labels
      <4>1. Rebuild(main.labels, states, shown)
        BY <2>1, <3>2 DEF Sync, states, shown
      <4> QED
        BY <1>2, <1>4, <3>1, <4>1, RebuildPuts DEF LabelsAgree
    <3>3. CASE main.labels = labels /\ main.target = w
      <4>1. Apply(states, w) /\ w \in MaybeWindow
        BY <1>2, <2>1, <3>3 DEF Sync, states, MaybeWindow
      <4>2. installed'.labels = installed.labels /\ ("labels" \in failed' <=> "labels" \in failed)
        BY <1>4, <4>1, ApplyPuts DEF ApplyOrLog
      <4> QED
        BY <3>1, <3>3, <4>2 DEF LabelsAgree
    <3>4. CASE main.labels = labels /\ main.target # w
      BY <2>1, <3>1, <3>4 DEF Sync, LabelsAgree
    <3> QED
      BY <3>2, <3>3, <3>4
  <2>2. CASE SyncFails
    BY <2>2 DEF SyncFails, RebuildFails, ChangeFails, LabelsAgree, model, reports
  <2> QED
    BY <2>1, <2>2
<1> QED
  BY <1>7, <1>8, <1>9, <1>10, <1>11

LEMMA EnableHistoryKeeps ==
  ASSUME MenuIInv, EnableHistory
  PROVE  MenuIInv'
<1> USE DEF MenuIInv
<1> DEFINE w == main.window
           e == main.enabled
           item == {"version history"}
<1>1. /\ main.at = "history" /\ LockFree /\ main' = AtRest
      /\ UNCHANGED <<screen, labels, spoken, cleanup>>
      /\ windows' = [windows EXCEPT ![w].history = e]
      /\ told' = [told EXCEPT ![w].history = e]
  BY DEF EnableHistory
<1>2. w \in AnyWindow /\ main.target \in MaybeWindow /\ e \in BOOLEAN
  BY <1>1 DEF MenuTypeOK, Main, AtRest
<1>3. /\ windows[w] \in WindowState /\ [windows[w] EXCEPT !.history = e] \in WindowState
      /\ told[w] \in WindowState /\ [told[w] EXCEPT !.history = e] \in WindowState
  BY <1>2 DEF MenuTypeOK, WindowState
<1>4. /\ windows' \in [AnyWindow -> WindowState] /\ told' \in [AnyWindow -> WindowState]
      /\ \A v \in AnyWindow \ {w} : windows'[v] = windows[v]
      /\ windows'[w] = [windows[w] EXCEPT !.history = e]
  BY <1>1, <1>2, <1>3 DEF MenuTypeOK
<1>5. \/ /\ main.target # w
         /\ behind' = (behind \/ active = w)
         /\ UNCHANGED <<active, installed, failed>>
      \/ /\ main.target = w
         /\ active' = w
         /\ installed' = [installed EXCEPT !.enabled = IF e THEN @ \union item ELSE @ \ item]
         /\ behind' = (behind \/ active # w)
         /\ UNCHANGED failed
      \/ main.target = w /\ active' = w /\ ChangeFails
  BY DEF EnableHistory
<1>6. MenuTypeOK'
  <2>1. AtRest \in Main
    BY DEF Main
  <2>2. active' \in MaybeWindow
    BY <1>2, <1>5 DEF MenuTypeOK, MaybeWindow
  <2>3. behind' \in BOOLEAN /\ failed' \subseteq {"flags", "labels"}
    BY <1>5 DEF MenuTypeOK, ChangeFails
  <2>4. installed' \in Menu
    <3>1. "version history" \in Item
      BY DEF Item, Forwarded
    <3>2. installed \in Menu
      BY DEF MenuTypeOK
    <3> QED
      BY <1>5, <3>1, <3>2 DEF Menu, ChangeFails
  <2> QED
    BY <1>1, <1>4, <2>1, <2>2, <2>3, <2>4 DEF MenuTypeOK, screen
<1>7. FrontIsKnown'
  BY <1>1, <1>5 DEF FrontIsKnown, screen, AtRest
<1>8. CleanupOfTheClosed'
  <2>1. ASSUME NEW v \in AnyWindow, windows[v] = told[v] PROVE windows'[v] = told'[v]
    BY <1>1, <1>2, <1>3, <2>1 DEF MenuTypeOK
  <2> QED
    BY <1>1, <2>1 DEF CleanupOfTheClosed, screen
<1>9. ShownIsApplied'
  <2>1. LockFree' = LockFree
    BY <1>1 DEF LockFree, TaskAt
  <2>2. CASE main.target # w /\ active # w /\ UNCHANGED <<active, installed, failed>>
             /\ behind' = (behind \/ active = w)
    <3>1. ReportOf(windows', active) = ReportOf(windows, active)
      BY <1>4, <2>2 DEF ReportOf, MenuTypeOK, MaybeWindow
    <3>2. behind' = behind
      BY <2>2 DEF MenuTypeOK
    <3> QED
      BY <1>1, <2>1, <2>2, <3>1, <3>2 DEF ShownIsApplied
  <2>3. CASE active = w /\ active' = w /\ UNCHANGED failed /\ behind' = (behind \/ active # w)
             /\ installed' = [installed EXCEPT !.enabled = IF e THEN @ \union item ELSE @ \ item]
    <3>1. /\ installed'.checked = installed.checked
          /\ installed'.enabled = IF e THEN installed.enabled \union item
                                  ELSE installed.enabled \ item
      BY <2>3 DEF MenuTypeOK, Menu
    <3>2. w # Nobody
      BY <1>2, MenuAssumption
    <3>3. /\ Enabled(windows'[w], TRUE) = IF e THEN Enabled(windows[w], TRUE) \union item
                                          ELSE Enabled(windows[w], TRUE) \ item
          /\ Checked(windows'[w]) = Checked(windows[w])
      BY <1>2, <1>3, <1>4, HistoryIsOneItem
    <3>4. behind' = behind
      BY <2>3 DEF MenuTypeOK
    <3>5. ASSUME "flags" \notin failed, ~behind
          PROVE  /\ installed.enabled = Enabled(windows[w], TRUE)
                 /\ installed.checked = Checked(windows[w])
      BY <1>1, <2>3, <3>2, <3>5 DEF ShownIsApplied, ReportOf
    <3>6. ReportOf(windows', active') = windows'[w] /\ (active' # Nobody) = TRUE
      BY <2>3, <3>2 DEF ReportOf
    <3> QED
      BY <2>3, <3>1, <3>3, <3>4, <3>5, <3>6 DEF ShownIsApplied
  <2>4. CASE behind' \/ "flags" \in failed'
    BY <2>4 DEF ShownIsApplied
  <2> QED
    BY <1>5, <2>2, <2>3, <2>4 DEF ChangeFails
<1>10. LabelsAgree'
  <2>1. installed'.labels = installed.labels /\ ("labels" \in failed => "labels" \in failed')
    BY <1>5 DEF MenuTypeOK, Menu, ChangeFails
  <2> QED
    BY <1>1, <2>1, LabelsStay
<1> QED
  BY <1>6, <1>7, <1>8, <1>9, <1>10

LEMMA ChooseKeeps ==
  ASSUME MenuIInv, NEW item \in MenuCommand, Choose(item)
  PROVE  MenuIInv'
<1> USE DEF MenuIInv, Choose
<1>1. item \in Forwarded
  BY MenuAssumption
<1>2. /\ installed' \in Menu /\ installed'.labels = installed.labels
      /\ installed'.enabled = installed.enabled
  <2>1. installed \in Menu
    BY DEF MenuTypeOK
  <2> DEFINE turned == IF item \notin CheckItem THEN installed.checked
                       ELSE IF item \in installed.checked THEN installed.checked \ {item}
                       ELSE installed.checked \union {item}
  <2>2. turned \in SUBSET CheckItem
    BY <2>1 DEF Menu
  <2> HIDE DEF turned
  <2>3. installed' = [installed EXCEPT !.checked = turned]
    BY DEF turned
  <2> QED
    BY <2>1, <2>2, <2>3 DEF Menu
<1>3. main' \in Main /\ main' # AtRest /\ main'.at = "choice"
  BY <1>1 DEF Main, AtRest
<1>4. MenuTypeOK'
  BY <1>2, <1>3 DEF MenuTypeOK, screen, model, reports
<1>5. FrontIsKnown'
  BY <1>3 DEF FrontIsKnown, screen, model, AtRest
<1>6. CleanupOfTheClosed'
  BY DEF CleanupOfTheClosed, screen, model, reports
<1>7. ShownIsApplied'
  BY <1>2, <1>3 DEF ShownIsApplied, model, LockFree, TaskAt
<1>8. LabelsAgree'
  BY <1>2, LabelsStay DEF model, reports
<1> QED
  BY <1>4, <1>5, <1>6, <1>7, <1>8

LEMMA ForwardKeeps ==
  ASSUME MenuIInv, NEW w \in MaybeWindow, Forward(w)
  PROVE  MenuIInv'
<1> USE DEF MenuIInv, Forward
<1>1. /\ installed' \in Menu /\ failed' \subseteq {"flags", "labels"} /\ behind' \in BOOLEAN
      /\ installed'.labels = installed.labels /\ ("labels" \in failed' <=> "labels" \in failed)
      /\ "flags" \notin failed' =>
           /\ installed'.enabled = Enabled(ReportOf(windows, active), active # Nobody)
           /\ installed'.checked = Checked(ReportOf(windows, active))
  BY ApplyPuts DEF MenuTypeOK
<1>2. MenuTypeOK'
  <2>1. AtRest \in Main
    BY DEF Main
  <2> QED
    BY <1>1, <2>1 DEF MenuTypeOK, screen, model, reports
<1>3. FrontIsKnown'
  BY DEF FrontIsKnown, screen, model, AtRest
<1>4. CleanupOfTheClosed'
  BY DEF CleanupOfTheClosed, screen, model, reports
<1>5. ShownIsApplied'
  <2>1. windows' = windows /\ active' = active
    BY DEF model
  <2> QED
    BY <1>1, <2>1 DEF ShownIsApplied
<1>6. LabelsAgree'
  BY <1>1, LabelsStay DEF model, reports
<1> QED
  BY <1>2, <1>3, <1>4, <1>5, <1>6

LEMMA DestroyKeeps ==
  ASSUME MenuIInv, NEW w \in AnyWindow, Destroy(w)
  PROVE  MenuIInv'
<1> USE DEF MenuIInv, Destroy
<1>1. /\ cleanup[w].at = "none" /\ w <= opened
      /\ cleanup' = [cleanup EXCEPT ![w].at = "release"]
      /\ UNCHANGED <<opened, registered, recent, news, model, menu, spoken, main>>
  BY WindowsExist DEF CleanupOfTheClosed, TaskGoes
<1>2. /\ cleanup' \in [AnyWindow -> Cleanup] /\ cleanup'[w].at = "release"
      /\ \A v \in AnyWindow \ {w} : cleanup'[v] = cleanup[v]
  BY <1>1 DEF MenuTypeOK, Cleanup
<1>3. told' \in [AnyWindow -> WindowState]
  <2>1. Default \in WindowState
    BY DEF Default, WindowState, SyncState, CheckItem, Appearance, Tongue
  <2> QED
    BY <2>1 DEF MenuTypeOK
<1>4. MenuTypeOK'
  <2>1. key' \in native' \union {Nobody} /\ news' \in native' \union {Nobody}
    BY DEF MenuTypeOK
  <2>2. native' \subseteq registered
    BY DEF MenuTypeOK
  <2> QED
    BY <1>1, <1>2, <1>3, <2>1, <2>2 DEF MenuTypeOK, model, menu
<1>5. FrontIsKnown'
  BY DEF FrontIsKnown, model, AtRest
<1>6. CleanupOfTheClosed'
  <2>1. \A v \in AnyWindow \ {w} : told'[v] = told[v] /\ windows'[v] = windows[v]
    BY DEF MenuTypeOK, model
  <2>2. w \in registered' /\ w \notin native' /\ w <= opened'
    BY <1>1 DEF MenuTypeOK
  <2>3. \A v \in AnyWindow \ {w} : v \notin native => v \notin native'
    OBVIOUS
  <2> QED
    BY <1>1, <1>2, <2>1, <2>2, <2>3 DEF CleanupOfTheClosed
<1>7. ShownIsApplied'
  <2>1. LockFree' => LockFree
    BY <1>1, <1>2 DEF LockFree, TaskAt
  <2> QED
    BY <2>1 DEF ShownIsApplied, model, menu
<1>8. LabelsAgree'
  BY LabelsStay DEF model, menu
<1> QED
  BY <1>4, <1>5, <1>6, <1>7, <1>8

\* The steps of the clean-up that leave the menu alone.
LEMMA TaskKeeps ==
  ASSUME MenuIInv, NEW w \in AnyWindow, UnregisterWindow(w) \/ NextWindow(w)
  PROVE  MenuIInv'
<1> USE DEF MenuIInv
<1>1. /\ cleanup' \in [AnyWindow -> Cleanup]
      /\ \A v \in AnyWindow \ {w} : cleanup'[v] = cleanup[v]
      /\ cleanup[w].at \in {"release", "target"} /\ cleanup'[w].at \in {"target", "lock"}
  <2>1. CASE UnregisterWindow(w)
    BY <2>1 DEF UnregisterWindow, TaskAt, TaskGoes, MenuTypeOK, Cleanup
  <2>2. CASE NextWindow(w)
    <3>1. [at |-> "lock", next |-> Target] \in Cleanup
      BY TargetIsWindow DEF Cleanup
    <3> QED
      BY <2>2, <3>1 DEF NextWindow, TaskAt, MenuTypeOK
  <2> QED
    BY <2>1, <2>2
<1>2. UNCHANGED <<opened, native, key, news, model, menu, reports, main>>
  BY DEF UnregisterWindow, NextWindow, screen
<1>3. MenuTypeOK'
  <2>1. CASE UnregisterWindow(w)
    <3>1. native \subseteq registered' /\ registered' \subseteq 1..opened
      BY <1>1, <2>1 DEF UnregisterWindow, MenuTypeOK, CleanupOfTheClosed
    <3>2. recent' \in Seq(AnyWindow)
      BY <2>1, WithoutIsSeq DEF UnregisterWindow, MenuTypeOK
    <3> QED
      BY <1>1, <1>2, <3>1, <3>2 DEF MenuTypeOK, model, menu, reports
  <2>2. CASE NextWindow(w)
    BY <1>1, <1>2, <2>2 DEF NextWindow, MenuTypeOK, model, menu, reports, screen
  <2> QED
    BY <2>1, <2>2
<1>4. FrontIsKnown'
  BY <1>2 DEF FrontIsKnown, model
<1>5. CleanupOfTheClosed'
  <2>1. \A v \in AnyWindow \ {w} : v \in registered => v \in registered'
    BY DEF UnregisterWindow, NextWindow, screen
  <2> QED
    BY <1>1, <1>2, <2>1 DEF CleanupOfTheClosed, model, reports
<1>6. ShownIsApplied'
  <2>1. LockFree' => LockFree
    BY <1>1 DEF LockFree, TaskAt
  <2> QED
    BY <1>2, <2>1 DEF ShownIsApplied, model, menu
<1>7. LabelsAgree'
  BY <1>2, LabelsStay DEF model, menu, reports
<1> QED
  BY <1>3, <1>4, <1>5, <1>6, <1>7

LEMMA ForgetWindowKeeps ==
  ASSUME MenuIInv, NEW w \in AnyWindow, ForgetWindow(w)
  PROVE  MenuIInv'
<1> USE DEF MenuIInv
<1>1. /\ cleanup' \in [AnyWindow -> Cleanup]
      /\ \A v \in AnyWindow \ {w} : cleanup'[v] = cleanup[v]
      /\ cleanup[w].at = "lock" /\ cleanup'[w].at \in {"apply", "done"}
      /\ UNCHANGED <<screen, labels, menu, reports, main>> /\ LockFree
      /\ windows' = [windows EXCEPT ![w] = Default]
  BY DEF ForgetWindow, TaskAt, TaskGoes, TaskEnds, MenuTypeOK, Cleanup, MaybeWindow
<1>2. w \notin native /\ active' \in MaybeWindow
  BY <1>1 DEF CleanupOfTheClosed, ForgetWindow, MenuTypeOK, Cleanup
<1>3. /\ windows' \in [AnyWindow -> WindowState]
      /\ \A v \in AnyWindow \ {w} : windows'[v] = windows[v]
  <2>1. Default \in WindowState
    BY DEF Default, WindowState, SyncState, CheckItem, Appearance, Tongue
  <2> QED
    BY <1>1, <2>1 DEF MenuTypeOK
<1>4. MenuTypeOK'
  BY <1>1, <1>2, <1>3 DEF MenuTypeOK, screen, menu, reports
<1>5. FrontIsKnown'
  <2>1. key # Nobody /\ active = key => active' = key
    <3>1. key # Nobody => key \in native
      BY DEF MenuTypeOK
    <3> QED
      BY <1>2, <3>1 DEF ForgetWindow
  <2> QED
    BY <1>1, <2>1 DEF FrontIsKnown, screen
<1>6. CleanupOfTheClosed'
  BY <1>1, <1>2, <1>3 DEF CleanupOfTheClosed, screen, reports
<1>7. ShownIsApplied'
  <2>1. CASE active \notin {w, Nobody} /\ active' = active
    <3>1. ReportOf(windows', active) = ReportOf(windows, active)
      BY <1>3, <2>1 DEF ReportOf, MenuTypeOK, MaybeWindow
    <3> QED
      BY <1>1, <2>1, <3>1 DEF ShownIsApplied, menu
  <2>2. CASE TaskGoes(w, "apply")
    <3>1. ~LockFree'
      BY <2>2 DEF LockFree, TaskAt, TaskGoes, MenuTypeOK, Cleanup
    <3> QED
      BY <3>1 DEF ShownIsApplied
  <2> QED
    BY <2>1, <2>2 DEF ForgetWindow
<1>8. LabelsAgree'
  BY <1>1, LabelsStay DEF menu, reports
<1> QED
  BY <1>4, <1>5, <1>6, <1>7, <1>8

LEMMA ShowNextKeeps ==
  ASSUME MenuIInv, NEW w \in AnyWindow, ShowNext(w)
  PROVE  MenuIInv'
<1> USE DEF MenuIInv
<1>1. /\ cleanup' \in [AnyWindow -> Cleanup]
      /\ \A v \in AnyWindow \ {w} : cleanup'[v] = cleanup[v]
      /\ cleanup[w].at = "apply" /\ cleanup'[w].at = "done"
      /\ UNCHANGED <<screen, model, reports, main>>
  BY DEF ShowNext, TaskAt, TaskEnds, MenuTypeOK, Cleanup, MaybeWindow
<1>2. /\ installed' \in Menu /\ failed' \subseteq {"flags", "labels"} /\ behind' \in BOOLEAN
      /\ installed'.labels = installed.labels /\ ("labels" \in failed' <=> "labels" \in failed)
      /\ "flags" \notin failed' =>
           /\ installed'.enabled = Enabled(ReportOf(windows, active), active # Nobody)
           /\ installed'.checked = Checked(ReportOf(windows, active))
  BY ApplyPuts DEF MenuTypeOK, ShowNext
<1>3. MenuTypeOK'
  BY <1>1, <1>2 DEF MenuTypeOK, screen, model, reports
<1>4. FrontIsKnown'
  BY <1>1 DEF FrontIsKnown, screen, model
<1>5. CleanupOfTheClosed'
  BY <1>1 DEF CleanupOfTheClosed, screen, model, reports
<1>6. ShownIsApplied'
  <2>1. windows' = windows /\ active' = active
    BY <1>1 DEF model
  <2> QED
    BY <1>2, <2>1 DEF ShownIsApplied
<1>7. LabelsAgree'
  BY <1>1, <1>2, LabelsStay DEF model, reports
<1> QED
  BY <1>3, <1>4, <1>5, <1>6, <1>7

LEMMA MenuNextKeeps == MenuIInv /\ [MenuNext]_menuVars => MenuIInv'
<1> SUFFICES ASSUME MenuIInv, [MenuNext]_menuVars PROVE MenuIInv'
  OBVIOUS
<1>1. CASE UNCHANGED menuVars
  <2>1. UNCHANGED <<screen, model, menu, reports, main, cleanup>>
    BY <1>1 DEF menuVars
  <2>2. MenuTypeOK' /\ FrontIsKnown' /\ CleanupOfTheClosed'
    BY <2>1 DEF MenuIInv, MenuTypeOK, FrontIsKnown, CleanupOfTheClosed, screen, model, menu, reports
  <2>3. ShownIsApplied' /\ LabelsAgree'
    BY <2>1, ShownStays, LabelsStay DEF MenuIInv, model, menu, reports
  <2> QED
    BY <2>2, <2>3 DEF MenuIInv
<1>2. CASE MenuUser
  <2>1. CASE OpenWindow
    BY <2>1, OpenWindowKeeps
  <2>2. ASSUME NEW w \in AnyWindow,
               \/ ComesToFront(w)
               \/ \E speech \in Language, state \in Report : StartSync(w, speech, state)
               \/ \E enabled \in BOOLEAN : StartEnable(w, enabled)
        PROVE  MenuIInv'
    BY <2>2, FrontKeeps
  <2>3. ASSUME NEW w \in AnyWindow, Destroy(w) PROVE MenuIInv'
    BY <2>3, DestroyKeeps
  <2>4. ASSUME NEW item \in MenuCommand, Choose(item) PROVE MenuIInv'
    BY <2>4, ChooseKeeps
  <2>5. CASE ProgramLeaves
    <3>1. key \in AnyWindow
      BY <2>5, WindowsExist DEF ProgramLeaves, MenuIInv, MenuTypeOK
    <3> QED
      BY <2>5, <3>1, FrontKeeps
  <2> QED
    BY <1>2, <2>1, <2>2, <2>3, <2>4, <2>5 DEF MenuUser
<1>3. CASE MainStep
  <2>1. CASE Focused
    <3>1. news \in AnyWindow
      BY <2>1, WindowsExist DEF Focused, MenuIInv, MenuTypeOK
    <3> QED
      BY <2>1, <3>1, FrontKeeps
  <2>2. CASE ShowWindowState \/ Sync \/ EnableHistory
    BY <2>2, ShowWindowStateKeeps, SyncKeeps, EnableHistoryKeeps
  <2>3. ASSUME NEW w \in MaybeWindow, Forward(w) PROVE MenuIInv'
    BY <2>3, ForwardKeeps
  <2> QED
    BY <1>3, <2>1, <2>2, <2>3 DEF MainStep
<1>4. CASE SyncFails
  BY <1>4, SyncKeeps
<1>5. CASE TaskStep
  BY <1>5, TaskKeeps, ForgetWindowKeeps, ShowNextKeeps DEF TaskStep
<1> QED
  BY <1>1, <1>2, <1>3, <1>4, <1>5 DEF MenuNext

LEMMA MenuStaysKnown == MenuSpec => []MenuIInv
BY MenuInitHolds, MenuNextKeeps, PTL DEF MenuSpec

\* The window in front sees the labels last sent and its own flags, whatever the
\* other windows report, however often windows come to the front, close and fail
\* to change the menu, in any number.
THEOREM FrontIsShownHolds == MenuSpec => [](MenuTypeOK /\ FrontIsShown)
<1>1. MenuIInv => MenuTypeOK /\ FrontIsShown
  <2> SUFFICES ASSUME MenuIInv, MenuSettled, key # Nobody PROVE MenuTypeOK /\ FrontIsShown
    BY DEF FrontIsShown, MenuIInv
  <2> USE DEF MenuIInv
  <2>1. active = key
    BY DEF MenuSettled, FrontIsKnown, AtRest
  <2>2. key \in native /\ key \in AnyWindow
    BY WindowsExist DEF MenuTypeOK
  <2>3. windows[key] = told[key]
    <3>1. cleanup[key].at = "none"
      BY <2>2 DEF CleanupOfTheClosed
    <3> QED
      BY <2>2, <3>1 DEF CleanupOfTheClosed
  <2>4. "flags" \notin failed /\ ~behind =>
          /\ installed.enabled = Enabled(told[key], TRUE)
          /\ installed.checked = Checked(told[key])
    BY <2>1, <2>3 DEF ShownIsApplied, ReportOf, MenuSettled, AtRest
  <2>5. "labels" \notin failed => installed.labels = spoken
    BY DEF LabelsAgree
  <2> QED
    BY <2>1, <2>4, <2>5 DEF FrontIsShown
<1> QED
  BY <1>1, MenuStaysKnown, PTL

\* A command the user chooses goes to the window whose flags the menu shows.
THEOREM CommandsGoToTheShownHolds == MenuSpec => CommandsGoToTheShown
<1>1. MenuIInv /\ [MenuNext]_menuVars =>
        [\A w \in MaybeWindow : Forward(w) /\ key # Nobody /\ news = Nobody => w = active]_menuVars
  <2> SUFFICES ASSUME MenuIInv, NEW w \in MaybeWindow, Forward(w), key # Nobody, news = Nobody
               PROVE  w = active
    OBVIOUS
  <2>1. w = key
    BY DEF Forward, Target
  <2>2. active = key
    BY DEF Forward, MenuIInv, FrontIsKnown
  <2> QED
    BY <2>1, <2>2
<1> QED
  BY <1>1, MenuStaysKnown, PTL DEF MenuSpec, CommandsGoToTheShown
===============================================================================
