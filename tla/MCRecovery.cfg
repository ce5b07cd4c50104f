CONSTANTS
  d1 = d1
  d2 = d2
  Drawing = {d1, d2}
  None = None
  Slots = 2
  MaxEdits = 3
  MaxTime = 1
  MaxFaults = 2
SPECIFICATION Spec
SYMMETRY MCDrawings
INVARIANTS
  EditsKept
  NothingOverlooked
CHECK_DEADLOCK FALSE
