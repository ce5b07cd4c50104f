CONSTANTS
  None = None
  External <- MCExternal
  MaxEdits = 2
  MaxWrites = 1
  MaxFailures = 1
  MaxGenerations = 1
  MaxQueue = 2
SPECIFICATION SettingSpec
PROPERTIES
  WritesAreCurrent
  CloseKeepsEdits
  EditsAreStored
CHECK_DEADLOCK FALSE
