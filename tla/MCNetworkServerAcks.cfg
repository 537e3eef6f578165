SPECIFICATION Spec
CONSTANTS
  Device = {d1}
  Gateway = {g1}
  Power = {1}
  AirTime = {3}
  RestFactor <- MCRestFactor
  LinkDelay = 1
  Booking = 1
  ReplyDelay = 3
  ReceiveDelay1 = 3
  ReceiveDelay2 = 6
  WindowDuration = 2
  Cycle = 9
PROPERTY AcksConfirmed
