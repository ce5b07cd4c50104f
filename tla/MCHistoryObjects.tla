--------------------------- MODULE MCHistoryObjects ---------------------------
(* The objects of the history and the menu, which share no state: a behaviour *)
(* is one of the component that `setting` names.                              *)
(* Two scenes that share an asset: an object outlives one reference to it and *)
(* is wanted again by the next. Two windows and two languages: a window       *)
(* closes, and another is shown.                                              *)
EXTENDS HistoryObjects, NativeMenu, TLC

CONSTANTS s1, s2, picture, d1, r1

VARIABLE setting

MCSlots == {<<d1, "locked">>, <<d1, "free">>}
MCAssetsOf == s1 :> {picture} @@ s2 :> {}
MCReport == {[document |-> TRUE, readOnly |-> TRUE,
              on |-> {"grid", "appearance system", "language system"}]}

MCInit == Init /\ MenuInit /\ setting \in {"objects", "menu"}
MCNext ==
  \/ setting = "objects" /\ Next /\ UNCHANGED <<setting, menuVars>>
  \/ setting = "menu" /\ MenuNext /\ UNCHANGED <<setting, vars>>
MCSpec == MCInit /\ [][MCNext]_<<setting, vars, menuVars>>
===============================================================================
