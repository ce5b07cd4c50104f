CONSTANTS
  outer = outer
  inner = inner
  apart = apart
  Label = {l1, l2, l3}
  Workspace = {outer, inner, apart}
  Path <- MCPath
  Drawing <- MCDrawing
  Root <- MCRoot
  Inside <- MCInside
  NoWindow = NoWindow
  NoWorkspace = NoWorkspace
  NoUndo = NoUndo
  Call = {c1, c2}
SPECIFICATION Spec
SYMMETRY Symmetry
INVARIANTS
  IndexesInStep
PROPERTIES
  OnlyRollbackOverlaps
