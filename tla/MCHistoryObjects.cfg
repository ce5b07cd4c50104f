CONSTANTS
  s1 = s1
  s2 = s2
  picture = picture
  d1 = d1
  r1 = r1
  Documents = {d1}
  Scenes = {s1, s2}
  Assets = {picture}
  Requests = {r1}
  AssetsOf <- MCAssetsOf
  None = None
  Limit = 1
  Slots <- MCSlots
  MaxVersions = 2
  MaxRestarts = 1
  MaxWindow = 2
  Language = {en, es}
  English = en
  Report <- MCReport
  MenuCommand = {"grid"}
  Nobody = Nobody
SPECIFICATION MCSpec
INVARIANTS
  ReferencedStand
  ReadsComplete
  FrontIsShown
PROPERTY KeptStay
CHECK_DEADLOCK FALSE
