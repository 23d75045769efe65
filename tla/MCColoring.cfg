CONSTANTS
  NodeId = {1, 2, 3, 4, 5}
  PaletteSize = 3
  TopN = 3
SPECIFICATION ColoringSpec
INVARIANTS
  ColoringTypeOK
  Proper
  WelshPowellBound
  SharedFillNeedsCrowd
  RankingIsTop
