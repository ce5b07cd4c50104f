CONSTANTS
  LocalScene = {a}
  ExternalScene = {x, y}
  Call = {c1}
  Missing = Missing
  NoDraft = NoDraft
  Free = Free
  RawKind = {"Modified"}
  HistoryMayFail = FALSE
SPECIFICATION SpecShared

PROPERTY ChangesAreFlagged
