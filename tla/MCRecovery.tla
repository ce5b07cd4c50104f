------------------------------ MODULE MCRecovery ------------------------------
(* Two drawings and three snapshots' worth of edits in a ring of two slots: a *)
(* slot is written again, and one offer is decided while another waits.       *)
EXTENDS Recovery, TLC

CONSTANTS d1, d2

MCDrawings == Permutations(Drawing)
===============================================================================
