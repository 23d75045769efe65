CONSTANTS
  NodeId = {1, 2, 3, 4}
  Networks <- MCNetworks
  Lowest <- MCLowest
  NoNode = NoNode
SPECIFICATION Spec
CHECK_DEADLOCK FALSE
INVARIANTS
  TypeOK
  DistancesAreShortest
  PathIsTheDistance
  NegativeEdgeNeverEnds
PROPERTIES
  SettledIsFinal
  Terminates
