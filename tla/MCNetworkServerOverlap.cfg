SPECIFICATION Spec
CONSTANTS
  Device = {d1, d2}
  Gateway = {g1}
  Power = {1}
  AirTime = {4}
  RestFactor <- MCRestFactor
  LinkDelay = 2
  Booking = 1
  ReplyDelay = 5
  ReceiveDelay1 = 5
  ReceiveDelay2 = 10
  WindowDuration = 4
  Cycle = 15
INVARIANT OneAtATime
