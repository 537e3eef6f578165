SPECIFICATION FairSpec
CONSTANTS
  Packet = {p1, p2, p3}
  MaxBuffer = 5
INVARIANTS
  CopiesCounted
  WaitedInOrder
PROPERTIES
  Drained
