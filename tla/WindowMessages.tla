---------------------------- MODULE WindowMessages ----------------------------
(***************************************************************************)
(* What windows are sent while they start and close: drawings to open      *)
(* (src-tauri/src/window/router.rs, src/app/openFileHandler.ts) and the    *)
(* request of a peer to close (window/peer_close.rs, commands/workspace.rs,*)
(* src/app/exitCheckpoint.ts, nestedWorkspace.ts). An event reaches a      *)
(* window whose listener is there when it is emitted, and nobody otherwise.*)
(* The registry's own operations are those of WindowRegistry; here they    *)
(* meet the windows' sessions, which the commands' awaits let lag behind.  *)
(***************************************************************************)
EXTENDS Naturals, FiniteSets

CONSTANTS
  Window, Drawing, Folder,
  None,          \* no window, folder, request
  User,          \* closes windows too
  Inside,        \* <<a, b>>: the drawing or folder a lies in the folder b
  MaxRequests,   \* bound: drawings asked for
  MaxAsks,       \* bound: folders opened, peers asked
  MaxClosings,   \* bound: closings by the user
  MaxFaults      \* bound: calls that fail

ASSUME WindowsAssumption ==
  /\ Inside \subseteq (Drawing \union Folder) \X Folder
  /\ None \notin Window \union Folder /\ User \notin Window
  /\ {MaxRequests, MaxAsks, MaxClosings, MaxFaults} \subseteq Nat

Requests == 1..MaxRequests

VARIABLES
  phase,       \* how far a window has started, or gone
  folder,      \* the registry: the Workspace of each window
  owner,       \* the registry: the window that has each drawing
  request,     \* drawings asked for: which, in which window, how far
  tabs,        \* how many sessions a window has for a drawing
  tabClosing,  \* the doc_close under way for a drawing in a window
  closing,     \* the close() calls of a window that are in checkpointAll
  called,      \* those that are in destroy()
  destroying,  \* its `destroying` flag
  ask,         \* the window's "Close it and open here"
  asks, closings, faults,
  twice,       \* history: drawings one window was opening twice at once
  leaked       \* history: drawings owned by a window that failed to show them

registry == <<folder, owner>>
sessions == <<tabs, tabClosing>>
exits == <<closing, called, destroying>>
history == <<twice, leaked>>
vars == <<phase, registry, request, sessions, exits, ask, asks, closings, faults, history>>

Starting == {"loading", "asked", "waiting"}
Phase == Starting \union {"unused", "listening", "destroyed", "unregistered", "gone"}
InFlight == {"calling", "opening", "read"}
Dropped == {"unheard", "late", "handshake lost", "window closed"}
Step == InFlight \union Dropped \union {"pushing", "pending", "taken", "sent", "shown", "failed"}
Request == [path : Drawing, at : Window, step : Step, drained : BOOLEAN, already : BOOLEAN]
ASSUME RequestAssumption == None \notin Request

Ask == [target : Window, root : Folder, heard : {"no", "coming", "yes"},
        step : {"calling", "checked", "begun", "claiming", "answered"}]

TypeOK ==
  /\ phase \in [Window -> Phase]
  /\ folder \in [Window -> Folder \union {None}]
  /\ owner \in [Drawing -> Window \union {None}]
  /\ request \in [Requests -> Request \union {None}]
  /\ tabs \in [Window -> [Drawing -> 0..MaxRequests]]
  /\ tabClosing \in [Window -> [Drawing -> {"no", "asked", "released"}]]
  /\ closing \in [Window -> SUBSET (Window \union {User})]
  /\ called \in [Window -> SUBSET (Window \union {User})]
  /\ destroying \in [Window -> BOOLEAN]
  /\ ask \in [Window -> Ask \union {None}]
  /\ asks \in 0..MaxAsks /\ closings \in 0..MaxClosings /\ faults \in 0..MaxFaults
  /\ twice \subseteq Drawing /\ leaked \subseteq Drawing

Init ==
  /\ phase \in [Window -> {"unused", "listening"}]
  /\ folder \in [Window -> Folder \union {None}]
  /\ \A w \in Window : phase[w] = "unused" => folder[w] = None
  /\ \A v, w \in Window : v # w /\ folder[v] # None =>
       folder[v] # folder[w] /\ <<folder[v], folder[w]>> \notin Inside
  /\ owner = [d \in Drawing |-> None]
  /\ request = [r \in Requests |-> None]
  /\ tabs = [w \in Window |-> [d \in Drawing |-> 0]]
  /\ tabClosing = [w \in Window |-> [d \in Drawing |-> "no"]]
  /\ closing = [w \in Window |-> {}] /\ called = [w \in Window |-> {}]
  /\ destroying = [w \in Window |-> FALSE]
  /\ ask = [w \in Window |-> None]
  /\ asks = 0 /\ closings = 0 /\ faults = 0
  /\ twice = {} /\ leaked = {}

-----------------------------------------------------------------------------
Registered == {w \in Window : phase[w] \in Starting \union {"listening", "destroyed"}}
Listening(w) == phase[w] = "listening"
Covers(w, d) == folder[w] # None /\ <<d, folder[w]>> \in Inside

Fault == faults < MaxFaults /\ faults' = faults + 1
Answers == UNCHANGED <<asks, closings>>

Path(r) == request[r].path
At(r) == request[r].at
Is(r, step) == request[r] # None /\ request[r].step = step
Goto(r, step) == request' = [request EXCEPT ![r].step = step]
Among(w, steps) == {r \in Requests : request[r] # None /\ At(r) = w /\ request[r].step \in steps}
Turn(rs, step) == request' = [r \in Requests |-> IF r \in rs THEN [request[r] EXCEPT !.step = step]
                                                 ELSE request[r]]

\* emit_to: heard where a listener is registered.
Emitted(d, w) == [path |-> d, at |-> w, step |-> IF Listening(w) THEN "sent" ELSE "unheard",
                  drained |-> FALSE, already |-> FALSE]

\* queue_open_paths: through the startup data of a window that has not read
\* it, as an event otherwise.
Queued(d, w) == IF phase[w] = "loading"
                THEN [Emitted(d, w) EXCEPT !.step = "pending", !.drained = TRUE]
                ELSE Emitted(d, w)

New(r) == request[r] = None /\ \A q \in Requests : q < r => request[q] # None

-----------------------------------------------------------------------------
(* Drawings from Finder or a second launch, and those a user opens.        *)

\* plan_routes; which window was used last is anybody's choice.
Targets(d) ==
  LET covering == {w \in Registered : Covers(w, d)}
  IN IF owner[d] # None THEN {owner[d]} ELSE IF covering # {} THEN covering ELSE Registered

Route(r, d) ==
  /\ New(r)
  /\ \E w \in Targets(d) :
       request' = [request EXCEPT ![r] = IF owner[d] = w THEN Emitted(d, w) ELSE Queued(d, w)]
  /\ UNCHANGED <<phase, registry, sessions, exits, ask, faults, history>> /\ Answers

\* With no window left a new one is made, and the paths are pushed after it.
RouteToNew(r, d) ==
  /\ New(r) /\ Registered = {}
  /\ \E w \in Window :
       /\ phase[w] = "unused"
       /\ phase' = [phase EXCEPT ![w] = "loading"]
       /\ request' = [request EXCEPT ![r] =
            [path |-> d, at |-> w, step |-> "pushing", drained |-> TRUE, already |-> FALSE]]
  /\ UNCHANGED <<registry, sessions, exits, ask, faults, history>> /\ Answers

Push(r) ==
  /\ Is(r, "pushing")
  /\ Goto(r, IF phase[At(r)] = "loading" THEN "pending"
             ELSE IF At(r) \in Registered THEN "late" ELSE "window closed")
  /\ UNCHANGED <<phase, registry, sessions, exits, ask, faults, history>> /\ Answers

UserOpens(r, d) ==
  /\ New(r)
  /\ \E w \in Window : Listening(w) /\ request' = [request EXCEPT ![r] = Emitted(d, w)]
  /\ UNCHANGED <<phase, registry, sessions, exits, ask, faults, history>> /\ Answers

NewWindow(w) ==
  /\ phase[w] = "unused" /\ closings < MaxClosings
  /\ closings' = closings + 1
  /\ phase' = [phase EXCEPT ![w] = "loading"]
  /\ UNCHANGED <<registry, request, sessions, exits, ask, asks, faults, history>>

\* A slip of Handshake: the startup data is not handed over.
HandshakeEmpty(w) ==
  /\ phase[w] = "loading"
  /\ phase' = [phase EXCEPT ![w] = "asked"]
  /\ UNCHANGED <<request, registry, sessions, exits, ask, faults, history>> /\ Answers

\* take_bootstrap, before the handshake's awaits.
Handshake(w) ==
  /\ phase[w] = "loading"
  /\ phase' = [phase EXCEPT ![w] = "asked"]
  /\ Turn(Among(w, {"pending"}), "taken")
  /\ UNCHANGED <<registry, sessions, exits, ask, faults, history>> /\ Answers

HandshakeLands(w) ==
  /\ phase[w] = "asked"
  /\ phase' = [phase EXCEPT ![w] = "waiting"]
  /\ UNCHANGED <<registry, request, sessions, exits, ask, faults, history>> /\ Answers

\* The next caller asks again, and is handed nothing.
HandshakeFails(w) ==
  /\ phase[w] = "asked" /\ Fault
  /\ phase' = [phase EXCEPT ![w] = "waiting"]
  /\ Turn(Among(w, {"taken"}), "handshake lost")
  /\ UNCHANGED <<registry, sessions, exits, ask, history>> /\ Answers

\* The shell registers its listeners when it is mounted.
Mount(w) ==
  /\ phase[w] = "waiting"
  /\ phase' = [phase EXCEPT ![w] = "listening"]
  /\ UNCHANGED <<registry, request, sessions, exits, ask, faults, history>> /\ Answers

-----------------------------------------------------------------------------
(* DocumentManager.openRouted and the commands it calls.                   *)

\* Launch files are opened one after the other, each event by itself.
OpenRouted(r) ==
  /\ \/ Is(r, "sent")
     \/ Is(r, "taken") /\ Listening(At(r)) /\ ~\E q \in Among(At(r), InFlight) : request[q].drained
  /\ IF tabs[At(r)][Path(r)] > 0
     THEN Goto(r, "shown") /\ UNCHANGED twice
     ELSE /\ Goto(r, "calling")
          /\ twice' = twice \union
               {d \in {Path(r)} : \E q \in Among(At(r), InFlight) : Path(q) = d}
  /\ UNCHANGED <<phase, registry, sessions, exits, ask, faults, leaked>> /\ Answers

\* claim_document, and the window-activate-document event for the window that
\* has the drawing or the Workspace around it.
Claim(r) ==
  LET d == Path(r)
      w == At(r)
      holders == IF owner[d] # None THEN {owner[d]} \ {w}
                 ELSE {v \in Registered \ {w} : Covers(v, d)}
  IN /\ Is(r, "calling")
     /\ IF holders # {}
        THEN /\ \E v \in holders : request' = [request EXCEPT ![r] = Emitted(d, v)]
             /\ UNCHANGED owner
        ELSE /\ request' = [request EXCEPT ![r].step = "opening", ![r].already = owner[d] = w]
             /\ owner' = [owner EXCEPT ![d] = w]
     /\ UNCHANGED <<phase, folder, sessions, exits, ask, faults, history>> /\ Answers

ReadLands(r) ==
  /\ Is(r, "opening")
  /\ Goto(r, "read")
  /\ UNCHANGED <<phase, registry, sessions, exits, ask, faults, history>> /\ Answers

ReadFails(r) ==
  /\ Is(r, "opening") /\ Fault
  /\ Goto(r, "failed")
  /\ owner' = IF owner[Path(r)] = At(r) /\ ~request[r].already
              THEN [owner EXCEPT ![Path(r)] = None] ELSE owner
  /\ UNCHANGED <<phase, folder, sessions, exits, ask, history>> /\ Answers

RegisterSession(r) ==
  /\ Is(r, "read")
  /\ Goto(r, "shown")
  /\ tabs' = [tabs EXCEPT ![At(r)][Path(r)] = @ + 1]
  /\ leaked' = leaked \ {Path(r)}
  /\ UNCHANGED <<phase, registry, tabClosing, exits, ask, faults, twice>> /\ Answers

\* The rest of doc_open fails, or the checkpoint of the tab in front does: the
\* drawing stays owned by a window that does not show it.
RegisterFails(r) ==
  /\ Is(r, "read") /\ Fault
  /\ Goto(r, "failed")
  /\ leaked' = leaked \union {Path(r)}
  /\ UNCHANGED <<phase, registry, sessions, exits, ask, twice>> /\ Answers

CloseTab(w, d) ==
  /\ Listening(w) /\ tabs[w][d] > 0 /\ tabClosing[w][d] = "no" /\ closings < MaxClosings
  /\ closings' = closings + 1
  /\ tabClosing' = [tabClosing EXCEPT ![w][d] = "asked"]
  /\ UNCHANGED <<phase, registry, request, tabs, exits, ask, asks, faults, history>>

\* A slip of CloseTabLands: the drawing is not released.
CloseTabLandsOwned(w, d) ==
  /\ tabClosing[w][d] = "asked"
  /\ tabClosing' = [tabClosing EXCEPT ![w][d] =
       IF owner[d] \in {None, w} THEN "released" ELSE "no"]
  /\ UNCHANGED <<owner, phase, folder, request, tabs, exits, ask, faults, history>> /\ Answers

CloseTabLands(w, d) ==
  /\ tabClosing[w][d] = "asked"
  /\ tabClosing' = [tabClosing EXCEPT ![w][d] =
       IF owner[d] \in {None, w} THEN "released" ELSE "no"]
  /\ owner' = IF owner[d] = w THEN [owner EXCEPT ![d] = None] ELSE owner
  /\ UNCHANGED <<phase, folder, request, tabs, exits, ask, faults, history>> /\ Answers

CloseTabFails(w, d) ==
  /\ tabClosing[w][d] = "asked" /\ Fault
  /\ tabClosing' = [tabClosing EXCEPT ![w][d] = "no"]
  /\ UNCHANGED <<phase, registry, request, tabs, exits, ask, history>> /\ Answers

DropSession(w, d) ==
  /\ tabClosing[w][d] = "released"
  /\ tabClosing' = [tabClosing EXCEPT ![w][d] = "no"]
  /\ tabs' = [tabs EXCEPT ![w][d] = @ - 1]
  /\ UNCHANGED <<phase, registry, request, exits, ask, faults, history>> /\ Answers

-----------------------------------------------------------------------------
(* "Close it and open here".                                               *)
Contains(f, w) == folder[w] # None /\ folder[w] # f /\ <<folder[w], f>> \in Inside
Claimable(w, f) ==
  \A v \in Registered \ {w} : folder[v] # None =>
    folder[v] # f /\ <<folder[v], f>> \notin Inside /\ <<f, folder[v]>> \notin Inside

OpenFolder(w) ==
  /\ Listening(w) /\ asks < MaxAsks
  /\ asks' = asks + 1
  /\ \E f \in Folder \union {None} :
       /\ f # folder[w] /\ (f # None => Claimable(w, f))
       /\ folder' = [folder EXCEPT ![w] = f]
  /\ UNCHANGED <<phase, owner, request, sessions, exits, ask, closings, faults, history>>

\* closeOtherAndClaim, once this window's tabs are closed.
AskToClose(w, v, f) ==
  /\ Listening(w) /\ ask[w] = None /\ asks < MaxAsks
  /\ v # w /\ Contains(f, v) /\ v \in Registered
  /\ \A d \in Drawing : tabs[w][d] = 0
  /\ asks' = asks + 1
  /\ ask' = [ask EXCEPT ![w] = [target |-> v, root |-> f, heard |-> "no", step |-> "calling"]]
  /\ UNCHANGED <<phase, registry, request, sessions, exits, closings, faults, history>>

Asking(w, step) == ask[w] # None /\ ask[w].step = step
Pending(w) == Asking(w, "begun")

\* ensure_still_contained; what changed meanwhile is an error to the caller.
EnsureContained(w) ==
  /\ Asking(w, "calling")
  /\ ask' = [ask EXCEPT ![w] = IF ask[w].target \in Registered /\ Contains(@.root, @.target)
                               THEN [@ EXCEPT !.step = "checked"] ELSE None]
  /\ UNCHANGED <<phase, registry, request, sessions, exits, faults, history>> /\ Answers

BeginPeerClose(w) ==
  /\ Asking(w, "checked")
  /\ ask' = [ask EXCEPT ![w].step = "begun",
             ![w].heard = IF Listening(ask[w].target) THEN "coming" ELSE "no"]
  /\ UNCHANGED <<phase, registry, request, sessions, exits, faults, history>> /\ Answers

\* The listener's close() has nothing to do once the window is `destroying`.
HearPeer(w) ==
  LET v == ask[w].target
  IN /\ Pending(w) /\ ask[w].heard = "coming" /\ Listening(v)
     /\ ask' = [ask EXCEPT ![w].heard = "yes"]
     /\ closing' = IF destroying[v] THEN closing ELSE [closing EXCEPT ![v] = @ \union {w}]
     /\ UNCHANGED <<phase, registry, request, sessions, called, destroying, faults, history>>
     /\ Answers

\* onCloseRequested; a `destroying` window's close is not held back.
UserCloses(v) ==
  /\ Listening(v) /\ closings < MaxClosings /\ User \notin closing[v] \union called[v]
  /\ closings' = closings + 1
  /\ IF destroying[v]
     THEN called' = [called EXCEPT ![v] = @ \union {User}] /\ UNCHANGED closing
     ELSE closing' = [closing EXCEPT ![v] = @ \union {User}] /\ UNCHANGED called
  /\ UNCHANGED <<phase, registry, request, sessions, destroying, ask, asks, faults, history>>

CheckpointAllLands(v, c) ==
  /\ c \in closing[v]
  /\ closing' = [closing EXCEPT ![v] = @ \ {c}]
  /\ called' = [called EXCEPT ![v] = @ \union {c}]
  /\ destroying' = [destroying EXCEPT ![v] = TRUE]
  /\ UNCHANGED <<phase, registry, request, sessions, ask, faults, history>> /\ Answers

\* window_peer_close_failed: PeerCloseRequests.take, and the cancelled result.
Reported(v, c) ==
  ask' = [w \in Window |-> IF w = c /\ Pending(w) /\ ask[w].target = v
                           THEN [ask[w] EXCEPT !.step = "answered"] ELSE ask[w]]

\* A slip of CloseFails: the peer is not told.
CloseFailsQuietly(v, c) ==
  /\ c \in closing[v] \union called[v] /\ Fault
  /\ closing' = [closing EXCEPT ![v] = @ \ {c}]
  /\ called' = [called EXCEPT ![v] = @ \ {c}]
  /\ UNCHANGED <<ask, phase, registry, request, sessions, destroying, history>> /\ Answers

\* checkpointAll fails, or destroy() does and leaves the flag as it is.
CloseFails(v, c) ==
  /\ c \in closing[v] \union called[v] /\ Fault
  /\ closing' = [closing EXCEPT ![v] = @ \ {c}]
  /\ called' = [called EXCEPT ![v] = @ \ {c}]
  /\ Reported(v, c)
  /\ UNCHANGED <<phase, registry, request, sessions, destroying, history>> /\ Answers

\* The webview goes with its sessions and everything it was about to open.
Gone(v) ==
  /\ phase' = [phase EXCEPT ![v] = "destroyed"]
  /\ Turn(Among(v, InFlight \union {"pending", "taken", "sent"}), "window closed")
  /\ tabs' = [tabs EXCEPT ![v] = [d \in Drawing |-> 0]]
  /\ tabClosing' = [tabClosing EXCEPT ![v] = [d \in Drawing |-> "no"]]
  /\ closing' = [closing EXCEPT ![v] = {}] /\ called' = [called EXCEPT ![v] = {}]
  /\ UNCHANGED <<registry, destroying, ask, asks, faults, history>>

Destroyed(v) == called[v] # {} /\ Gone(v) /\ UNCHANGED closings

\* Before the shell listens nothing holds a close back.
UserClosesStarting(v) ==
  /\ phase[v] \in Starting /\ closings < MaxClosings
  /\ closings' = closings + 1
  /\ Gone(v)

\* The Destroyed handler's task: release_for_window, unregister ...
Unregister(v) ==
  /\ phase[v] = "destroyed"
  /\ phase' = [phase EXCEPT ![v] = "unregistered"]
  /\ folder' = [folder EXCEPT ![v] = None]
  /\ owner' = [d \in Drawing |-> IF owner[d] = v THEN None ELSE owner[d]]
  /\ UNCHANGED <<request, sessions, exits, ask, faults, history>> /\ Answers

\* ... and finish_peer_closes: the window's own request is forgotten, those
\* that wait for it are taken.
FinishPeerCloses(v) ==
  /\ phase[v] = "unregistered"
  /\ phase' = [phase EXCEPT ![v] = "gone"]
  /\ ask' = [w \in Window |-> IF w = v THEN None
       ELSE IF Pending(w) /\ ask[w].target = v THEN [ask[w] EXCEPT !.step = "claiming"] ELSE ask[w]]
  /\ UNCHANGED <<registry, request, sessions, exits, faults, history>> /\ Answers

ClaimForPeer(w) ==
  /\ Asking(w, "claiming")
  /\ folder' = IF w \in Registered /\ Claimable(w, ask[w].root)
               THEN [folder EXCEPT ![w] = ask[w].root] ELSE folder
  /\ ask' = [ask EXCEPT ![w].step = "answered"]
  /\ UNCHANGED <<phase, owner, request, sessions, exits, faults, history>> /\ Answers

ClaimResult(w) ==
  /\ Asking(w, "answered") /\ Listening(w)
  /\ ask' = [ask EXCEPT ![w] = None]
  /\ UNCHANGED <<phase, registry, request, sessions, exits, faults, history>> /\ Answers

-----------------------------------------------------------------------------
\* What goes on by itself in webviews and commands.
Progress ==
  \/ \E r \in Requests : Push(r) \/ OpenRouted(r) \/ Claim(r) \/ ReadLands(r) \/ RegisterSession(r)
  \/ \E w \in Window :
       \/ Handshake(w) \/ HandshakeLands(w) \/ Mount(w)
       \/ \E d \in Drawing : CloseTabLands(w, d) \/ DropSession(w, d)
       \/ EnsureContained(w) \/ BeginPeerClose(w) \/ HearPeer(w)
       \/ \E c \in Window \union {User} : CheckpointAllLands(w, c)
       \/ Destroyed(w) \/ Unregister(w) \/ FinishPeerCloses(w) \/ ClaimForPeer(w) \/ ClaimResult(w)

Asked ==
  \/ \E r \in Requests, d \in Drawing : Route(r, d) \/ RouteToNew(r, d) \/ UserOpens(r, d)
  \/ \E w \in Window :
       \/ NewWindow(w) \/ OpenFolder(w) \/ UserCloses(w) \/ UserClosesStarting(w)
       \/ \E d \in Drawing : CloseTab(w, d)
       \/ \E v \in Window, f \in Folder : AskToClose(w, v, f)

Failure ==
  \/ \E r \in Requests : ReadFails(r) \/ RegisterFails(r)
  \/ \E w \in Window :
       \/ HandshakeFails(w)
       \/ \E d \in Drawing : CloseTabFails(w, d)
       \/ \E c \in Window \union {User} : CloseFails(w, c)

Next == Progress \/ Asked \/ Failure

\* All but Progress is bounded, and so is Progress between two other steps:
\* fairness of the whole carries each of its actions to its end.
Spec == Init /\ [][Next]_vars /\ WF_vars(Progress)

-----------------------------------------------------------------------------
(* What a window shows it owns, and what it owns it shows or is opening:   *)
(* two windows never show one drawing, and none is kept from the others by *)
(* a window that does not have it. Exempt is a drawing that one window was *)
(* opening twice at once (findByPath is asked before the awaits), and one  *)
(* whose opening failed after it was read.                                 *)
SessionsAreOwned ==
  \A w \in Window, d \in Drawing :
    /\ tabs[w][d] > 0 /\ tabClosing[w][d] # "released" /\ d \notin twice => owner[d] = w
    /\ owner[d] = w /\ Listening(w) /\ d \notin twice \union leaked =>
         tabs[w][d] > 0 \/ \E r \in Among(w, {"opening", "read"}) : Path(r) = d

(* A drawing that is asked for is shown, or its opening fails, or it falls *)
(* to one of the Dropped causes, again and again until all are; no window  *)
(* keeps it waiting or passes it on for ever.                              *)
Settled(r) == request[r] = None \/ request[r].step \in Dropped \union {"shown", "failed"}
RequestsSettle == []<>(\A r \in Requests : Settled(r))

\* The window asked cannot answer: it did not listen when it was asked (it is
\* starting, or was past taking its requests), or its destroy() failed.
Unanswerable(w) ==
  LET v == ask[w].target
  IN /\ Pending(w)
     /\ \/ ask[w].heard = "no" /\ phase[v] \notin {"destroyed", "unregistered"}
        \/ ask[w].heard = "yes" /\ destroying[v] /\ called[v] = {} /\ Listening(v)

(* closeOtherAndClaim waits without a timeout: it is answered, once the    *)
(* window it asked has heard of it, unless that window's destroy() failed. *)
PeersAreAnswered == []<>(\A w \in Window : ask[w] = None \/ Unanswerable(w))
===============================================================================
