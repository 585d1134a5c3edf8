SPECIFICATION DeliverySpec
CONSTANTS
  here = here
  there = there
  nowhere = nowhere
  Fixes <- MCFixes
  NoFix = nowhere
  BuzzerTypes <- MCBuzzerTypes
  Reliable = FALSE
  MaxPolls = 1
  MaxLag = 2
INVARIANTS
  RetriedUntilAnswered
  CopiesInOnePlace
PROPERTIES
  BuzzerGoesOff
