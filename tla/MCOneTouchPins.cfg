SPECIFICATION DetectorToPinSpec
CONSTANTS
  Points <- MCPoints
  Radius = 2
  MinCoordinate = 1
  MaxAlerts = 5
  Boot = 5
  Delays <- MCDelays
  MaxTime = 25
  Fixes <- MCFixes
  NoFix <- Zero
  BuzzerTypes <- MCBuzzerTypes
  Reliable = FALSE
  MaxPolls = 1
  MaxLag = 12
INVARIANTS
  PinNeedsThreePolls
\* MaxTime is reached
CHECK_DEADLOCK FALSE
