SPECIFICATION Spec
CONSTANTS
  frequencies <- MCfrequencies
  maxReceptionPaths = 3
  SF = {7, 12}
  sensitivity <- MCsensitivity
  Isolation <- MCIsolation
  Uplink <- MCUplink
  Downlink <- MCDownlink
  Sent <- MCSent
  oldEventThreshold = 2
  MaxEvents = 2
  MaxTime = 6
  MaxPackets = 4
CHECK_DEADLOCK FALSE
INVARIANTS
  TypeOK
  PoolInStep
  InterferersKept
  FateAsOnAir
  NoMutualCapture
PROPERTIES
  PathsComeFree
