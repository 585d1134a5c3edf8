SPECIFICATION GroupSpec
CONSTANTS
  Boot = 100
  Steps <- NoSteps
  MaxTime = 15
  MaxTouches = 18
  MaxForward = 0
INVARIANTS
  ThreeClearTouches
\* MaxTime and MaxTouches are reached
CHECK_DEADLOCK FALSE
