SPECIFICATION BroadcasterSpec
CONSTANTS
  here = here
  there = there
  GroupIds <- FirstAndWrapped
  Positions <- MCPositions
  MaxConfirmations = 3
PROPERTIES
  PinGoesBackOnlyDuringRound
  MapSettles
  VehicleSettles
\* without a socket nothing happens after MaxConfirmations
CHECK_DEADLOCK FALSE
