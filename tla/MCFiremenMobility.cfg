\* Two strips and one below the area, walks of seven units with several
\* rebounds, a fallback time that is a multiple of the walk time.
CONSTANTS
  XMax = 2
  YMax = 2
  NumTeams = 2
  TeamId = 1
  HeightWpArea = 1
  HalfX = 3
  HalfY = 2
  WalkTime = 7
  FallbackTime = 14
  TravelTimes = {1, 2}
  Positions <- StartPositions
  Below = 1
  MaxMoves = 2
SPECIFICATION Spec
INVARIANTS OneEvent StaysInBounds
PROPERTIES FallsBackInTime FallsBack
CHECK_DEADLOCK FALSE
