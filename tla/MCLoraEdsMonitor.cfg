CONSTANTS
  ED = {1, 2}
  Position <- MCPosition
  Modes = {1, 2, 3}
  Retain = 2
  HistPeriod = 1
  ModeTime = 1
  InterTol = 2
  FilterTol = 5
  LostTolDir = 3
  LostTolKmeans = 5
  MinCluster = 2
  MaxClusters = 3
  MaxTime = 7
SPECIFICATION Spec
INVARIANTS
  TypeOK
  CoveredKept
  HistTimesOrdered
  TokenSourceFresh
  ClusterEvidence
  KmeansBlind
PROPERTIES
  DirectionTracksReach
