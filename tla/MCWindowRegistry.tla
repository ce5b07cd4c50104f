-------------------------- MODULE MCWindowRegistry --------------------------
(* A small file system for WindowRegistry: the folder "outer" holds the    *)
(* folder "inner", and each holds a drawing of its own; "inner" is a       *)
(* Workspace too, so the two Workspaces are nested. "apart" is outside.    *)
EXTENDS WindowRegistry, TLC

CONSTANTS outer, inner, apart

MCPath == {"/o", "/o/i", "/a", "/o/d1", "/o/i/d2"}
MCDrawing == {"/o/d1", "/o/i/d2"}
MCRoot == outer :> "/o" @@ inner :> "/o/i" @@ apart :> "/a"
MCInside == {<<p, p>> : p \in MCPath} \union
            {<<"/o/i", "/o">>, <<"/o/d1", "/o">>, <<"/o/i/d2", "/o">>, <<"/o/i/d2", "/o/i">>}

Symmetry == Permutations(Label) \union Permutations(Call)
=============================================================================
