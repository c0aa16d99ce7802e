SPECIFICATION StreamSpec
CONSTANTS
  MaxStreamSteps = 2
  MaxStreamFaults = 0
INVARIANT NoStepShownTwice
CHECK_DEADLOCK FALSE
