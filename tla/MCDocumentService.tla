-------------------------- MODULE MCDocumentService --------------------------
(* Local and external contents are interchangeable among their kind, and so *)
(* are the calls.                                                           *)
EXTENDS DocumentService, TLC

Symmetry ==
  Permutations(LocalScene) \union Permutations(ExternalScene) \union Permutations(Call)
=============================================================================
