CONSTANTS
  NodeId = {1, 2, 3}
  Activity = {0, 1}
  Interaction = {0}
  ConnectionCount = {0}
  Weight = {0, 1, 7}
  None = None
  Inf = Inf
  NaN = NaN
  Documents <- AllFiles
  Samples <- AllSamples
  SavedGraphs <- SavedAtTimes
  Crowd = 1
  Window = {w1, w2}
SYMMETRY AnyHandle
SPECIFICATION Spec
INVARIANTS
  TypeOK
  GraphConsistent
  FreshIdentifier
  RegistriesClosed
  SaveKeepsEverything
PROPERTIES
  DrawingFollowsGraph
  ResetRepairsDrawing
  SaveReweighsOwnEdges
  WeightsFollowFeatures
  StalePopupStaysStale
