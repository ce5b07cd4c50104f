------------------------- MODULE ReplacementOutcome -------------------------
(***************************************************************************)
(* What a protected replacement promises, whatever crashes between its     *)
(* phases and whoever else writes the drawing: a request puts its target   *)
(* into the drawing at most once and only while it is open; a request      *)
(* settled as "aborted" never did; one settled as "completed" had its      *)
(* target in the drawing; a settled request stays as it is.                *)
(***************************************************************************)
CONSTANTS Requests, Scenes, NoScene,
          Target    \* Target[r]: the scene that request r puts into the drawing

VARIABLES drawing,  \* the scene in the drawing's file, NoScene when it is gone
          replaced, \* the requests that have renamed their target over the file
          held,     \* the requests whose target the drawing has held since they began
          settled   \* what the durable record of each request says

vars == <<drawing, replaced, held, settled>>

Init ==
    /\ drawing \in Scenes
    /\ replaced = {}
    /\ held = {}
    /\ settled = [r \in Requests |-> "none"]

Holding(s) == {r \in Requests : settled[r] = "open" /\ Target[r] = s}

(* A request is recorded before it touches the drawing. *)
Record(r) ==
    /\ settled[r] = "none"
    /\ settled' = [settled EXCEPT ![r] = "open"]
    /\ held' = held \cup {x \in {r} : Target[r] = drawing}
    /\ UNCHANGED <<drawing, replaced>>

Replace(r) ==
    /\ settled[r] = "open"
    /\ r \notin replaced
    /\ replaced' = replaced \cup {r}
    /\ drawing' = Target[r]
    /\ held' = held \cup Holding(Target[r])
    /\ UNCHANGED settled

(* A checkpoint of the application or another program writes or removes the
   drawing. *)
WriteOtherwise ==
    \E s \in Scenes \cup {NoScene} :
        /\ drawing' = s
        /\ held' = held \cup Holding(s)
        /\ UNCHANGED <<replaced, settled>>

Settle(r) ==
    /\ settled[r] = "open"
    /\ \E verdict \in {"aborted", "conflict", "completed"} :
        /\ verdict = "aborted" => r \notin replaced
        /\ verdict = "completed" => r \in held
        /\ settled' = [settled EXCEPT ![r] = verdict]
    /\ UNCHANGED <<drawing, replaced, held>>

Next ==
    \/ WriteOtherwise
    \/ \E r \in Requests : Record(r) \/ Replace(r) \/ Settle(r)

Spec == Init /\ [][Next]_vars
=============================================================================
