SPECIFICATION DetectorToPinSpec
CONSTANTS
  Points <- MCPoints
  Radius = 2
  MinCoordinate = 1
  MaxAlerts = 5
  Boot = 5
  Delays <- MCDelays
  MaxTime = 15
  Fixes <- MCFixes
  NoFix <- Zero
  BuzzerTypes <- MCBuzzerTypes
  Reliable = TRUE
  MaxPolls = 5
  MaxLag = 12
INVARIANTS
  TouchCountedOnce
  PinNeedsThreePolls
  NoPinWithoutFix
  SentMeansQueued
\* MaxTime is reached
CHECK_DEADLOCK FALSE
