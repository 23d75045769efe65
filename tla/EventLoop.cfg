CONSTANTS
  NodeId = {1, 2, 3}
  None = None
  MaxBusy = 2
SPECIFICATION Spec
INVARIANTS
  GlowIsExplained
  MissesAtMostOne
PROPERTY RunsToTheEnd
