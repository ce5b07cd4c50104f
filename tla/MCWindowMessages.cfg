CONSTANTS
  w1 = w1
  w2 = w2
  w3 = w3
  inner = inner
  outer = outer
  drawing = drawing
  Window = {w1, w2, w3}
  Drawing = {drawing}
  Folder = {inner, outer}
  None = None
  User = User
  Inside <- MCInside
  MaxRequests = 2
  MaxAsks = 1
  MaxClosings = 2
  MaxFaults = 1
SPECIFICATION MCSpec
INVARIANT SessionsAreOwned
PROPERTIES
  RequestsSettle
  PeersAreAnswered
CHECK_DEADLOCK FALSE
