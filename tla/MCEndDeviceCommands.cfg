\* Requests that a device accepts, refuses or does not survive.
SPECIFICATION Spec
CONSTANTS
  Downlinks <- MCDownlinks
  MaxAnswers = 2
INVARIANTS
  TypeOK
  ViewAgrees
  FailsOnlyIfRisky
  EnabledChannelSupports
\* The program ends when an assertion fails.
CHECK_DEADLOCK FALSE
