CONSTANTS
  NodeId = {1, 2, 3}
  Activity = {0}
  Interaction = {0}
  ConnectionCount = {0}
  Weight = {1, 2}
  None = None
  Inf = Inf
  NaN = NaN
SPECIFICATION Spec
INVARIANTS
  TypeOK
  GraphConsistent
  RemovalIsTheLoop
PROPERTY NetworkSpec
