SPECIFICATION BoardFairSpec
CONSTANTS
  Setups <- Surroundings
  None = None
INVARIANTS PrefixesAgree
PROPERTIES EveryOrderScored ArrivalsScored EchoGetsHalf ValidatedIsShown
CHECK_DEADLOCK FALSE
