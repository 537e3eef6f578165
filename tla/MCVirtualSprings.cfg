SPECIFICATION FairSpec
CONSTANTS
  UAV = {1, 2}
  ED = {e1}
  Position <- MCNear
  HalfBox = 3
  Lifetime = 1
  PredictionMode <- MCMode
  MaxHops = 2
  MaxRatio = 1
  MaxPause = 0
  Word = 4
  MaxReports = 1
INVARIANTS
  TypeOK
  TokenComesHome
  SameSeeds
PROPERTIES
  ExcursionSpec
  HandedOver
  Homecoming
