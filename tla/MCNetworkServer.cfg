SPECIFICATION Spec
CONSTANTS
  Device = {d1, d2}
  Gateway = {g1, g2}
  Power = {1, 2}
  AirTime = {3}
  RestFactor <- MCRestFactor
  LinkDelay = 1
  Booking = 1
  ReplyDelay = 3
  ReceiveDelay1 = 3
  ReceiveDelay2 = 6
  WindowDuration = 2
  Cycle = 9
SYMMETRY MCSymmetry
INVARIANTS
  TypeOK
  OneReply
  RepliesInWindow
PROPERTIES
  RespectsDutyCycle
