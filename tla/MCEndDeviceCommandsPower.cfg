\* The current power against the limit of the channels.
SPECIFICATION Spec
CONSTANTS
  Downlinks <- MCDownlinks
  MaxAnswers = 2
INVARIANT PowerAllowed
\* The program ends when an assertion fails.
CHECK_DEADLOCK FALSE
