CONSTANTS
  here = here
  there = there
  Label = {l1, l2}
  Workspace = {here, there}
  Path <- MCPath
  Drawing = {}
  Root <- MCRoot
  Inside <- MCInside
  NoWindow = NoWindow
  NoWorkspace = NoWorkspace
  NoUndo = NoUndo
  Call = {c1, c2}
SPECIFICATION PastSpec
SYMMETRY Symmetry

INVARIANTS
  StoresFollowInTurn
  LiveOwnersAreServed
