CONSTANTS
  NodeId = {1, 2, 3}
  Activity = {0, 1}
  Interaction = {0}
  ConnectionCount = {0}
  Weight = {0, 1, 4, 7}
  None = None
  Inf = Inf
  NaN = NaN
  Blank = Blank
  Unreadable = Unreadable
  Files <- AllFiles
SPECIFICATION Spec
INVARIANTS
  GraphConsistent
  ReturnsTheFile
PROPERTY EndsAsTheFileSays
CHECK_DEADLOCK FALSE
