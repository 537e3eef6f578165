SPECIFICATION FairSpec
CONSTANTS
  AirTime = {1, 2}
  ReplyTime = {1, 2}
  ForeignTime = {1, 4}
  RestFactor = 12
  ReceiveDelay1 = 3
  ReceiveDelay2 = 6
  WindowDuration = 1
CHECK_DEADLOCK FALSE
INVARIANTS
  InStep
  AsleepUnlessOverrun
  AnsweredOnce
PROPERTIES
  FailsOnlyByGap
  Listens
