CONSTANT NodeId = {1, 2, 3, 4}
SPECIFICATION Spec
CHECK_DEADLOCK FALSE
INVARIANTS
  TypeOK
  FindsReachable
  BfsVisitsByLevel
  DfsIsRecursiveSearch
PROPERTY Terminates
