CONSTANTS
  LocalScene = {a, b}
  ExternalScene = {x}
  Call = {c1, c2}
  Missing = Missing
  NoDraft = NoDraft
  Free = Free
  RawKind = {"Created", "Modified"}
  HistoryMayFail = TRUE
SPECIFICATION SettingSpec
SYMMETRY Symmetry
INVARIANTS
  VersionsAgree
