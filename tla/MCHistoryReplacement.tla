------------------------- MODULE MCHistoryReplacement -------------------------
(* Two requests for one drawing, each for the scene the other one replaces:  *)
(* a request may find its target, or the scene it began with, put into the   *)
(* drawing by somebody else.                                                 *)
EXTENDS HistoryReplacement, TLC

CONSTANTS old, new, r1, r2

MCTarget == r1 :> new @@ r2 :> old
===============================================================================
