SPECIFICATION SettingSpec
CONSTANTS
  w1 = w1
  w2 = w2
  Window <- MCWindow
  First <- MCFirst
  MaxRequest = 2
  MaxQueue = 1
INVARIANTS
  ExitIsUnanimous
  NobodyIsForgotten
  OutlivesExitInOrder
  ReportsAreSent
PROPERTIES
  CancelledByItsOwn
  QuitSettles
CHECK_DEADLOCK FALSE
