SPECIFICATION ManagerSpec
CONSTANTS
  Points <- MCPoints
  Radius = 2
  MinCoordinate = 1
  MaxAlerts = 5
  Boot = 5
  Delays <- MCDelays
  MaxTime = 17
INVARIANTS
  IndexMatchesGroups
  SolitariesApart
  HitsConserved
  ManagerTypeOK
  HitsAgree
  PinnedIffConfirmed
  PinNeedsThreeTouches
  PinsNearCentroids
PROPERTIES
  PinsMoveLittle
  StoredTouchIsCovered
\* MaxAlerts and MaxTime are reached
CHECK_DEADLOCK FALSE
