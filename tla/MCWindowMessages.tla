---------------------------- MODULE MCWindowMessages ----------------------------
(* Two windows and one that may be opened, a folder inside another, and a      *)
(* drawing in the inner one.                                                   *)
EXTENDS WindowMessages

CONSTANTS w1, w2, w3, inner, outer, drawing

MCInside == {<<inner, outer>>, <<drawing, inner>>, <<drawing, outer>>}

MCInit ==
  /\ Init
  /\ phase = [w \in Window |-> IF w = w3 THEN "unused" ELSE "listening"]
  /\ folder = [w \in Window |-> IF w = w1 THEN inner ELSE None]

MCSpec == MCInit /\ [][Next]_vars /\ WF_vars(Progress)
================================================================================
