CONSTANTS
  None = None
  Writer = {m1, m2}
  Target = {p1}
  Stranger = {d1, d2}
  MaxIoFaults = 1
  Path = {p1, p2}
  Object = {o1, o2, o3}
  MaxDocuments = 3
  MaxStrange = 1
  Request = {p1}
  MaxVersions = 3
  MaxTime = 1
  Interval = 1
  Retained = 1
  Page = 1
  Watched = {m1, m2}
  MaxWrites = 4
  MaxEchoes = 1
  Image = {m1, m2}
  Drawing = {d1, d2}
  Inside = {d1}
  AtHome = {d1, wks}
  Root = wks
  MaxEdits = 1
  MaxCommands = 2
  Window = {m1, m2}
  WorkArea <- MCWorkArea
  Spot <- MCSpot
  MinWidth = 2
  MaxInitialWidth = 4
  Stagger = 1
  Grabbable = 1
  MaxExits = 1
  Workspace = {wks}
  Home <- MCHome
  MaxWindows = 3
  MaxFaults = 1
  MaxChanges = 3
  MaxEvents = 2
SPECIFICATION StoresSpec
SYMMETRY Symmetry
INVARIANTS
  TargetsAreWhole
  AnswersHold
  FilesKeepTheirHistory
  ListIsComplete
  
  ImagesStand
  ImagesAreShown
  PlacementsArrive
  WindowsComeBackReachable
  SessionComesBack
  MountedAreOpen
CHECK_DEADLOCK FALSE
