CONSTANTS
  p1 = p1
  p2 = p2
  p3 = p3
  f = f
  first = first
  second = second
  Paths = {p1, p2, p3}
  Home <- MCHome
  Objects = {f, g}
  Workers = {w1, w2}
  None = None
  MaxMutations = 2
  MaxExternal = 1
  MaxCrashes = 1
SYMMETRY EntrySymmetry
SPECIFICATION SettingSpec
INVARIANTS
  StoresFollowFiles
PROPERTY HistoryIsKept
CHECK_DEADLOCK FALSE
