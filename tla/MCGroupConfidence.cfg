SPECIFICATION GroupSpec
CONSTANTS
  Boot = 9
  Steps <- NtpSteps
  MaxTime = 10
  MaxTouches = 16
  MaxForward = 3
INVARIANTS
  GroupTypeOK
  DecisionIsOrderFree
  ClearTouchesTakeTime
\* MaxTime and MaxTouches are reached
CHECK_DEADLOCK FALSE
