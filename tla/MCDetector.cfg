SPECIFICATION DetectorSpec
CONSTANTS
  Slices = 3
  Rates <- MCRates
  MaxBlock = 4
  MaxLag = 2
INVARIANTS
  GivesUpAfterSix
  RetriesUntilFail
  LoopNeedsDevices
  FixAgeBounded
PROPERTIES
  ConnectReturns
\* A link that is lost for good, and a loop that was not created
CHECK_DEADLOCK FALSE
