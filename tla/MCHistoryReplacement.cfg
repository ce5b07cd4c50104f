CONSTANTS
  old = old
  new = new
  r1 = r1
  r2 = r2
  Requests = {r1, r2}
  Scenes = {old, new}
  Target <- MCTarget
  NoScene = NoScene
  None = None
  MaxWrites = 3
  MaxExternal = 1
  MaxCrashes = 1
SPECIFICATION Spec
INVARIANTS
  FailureIsHonest
  EditsKept
PROPERTIES
  OutcomeSpec
CHECK_DEADLOCK FALSE
