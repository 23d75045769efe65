CONSTANTS
  NodeId = {1, 2, 3}
  Activity = {0, 1}
  Interaction = {0}
  ConnectionCount = {0}
  Weight = {0, 1, 7}
  None = None
  Inf = Inf
  NaN = NaN
  Documents <- SoundFiles
  Samples = {}
  SavedGraphs = {}
  Crowd = 1
  Window = {w1}
SPECIFICATION Spec
PROPERTY ScrollRedrawsEveryLine
