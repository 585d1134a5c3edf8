SPECIFICATION DeliverySpec
CONSTANTS
  here = here
  there = there
  nowhere = nowhere
  Fixes <- MCFixes
  NoFix = nowhere
  BuzzerTypes <- MCBuzzerTypes
  Reliable = FALSE
  MaxPolls = 2
  MaxLag = 2
INVARIANTS
  AcknowledgedNotLost
