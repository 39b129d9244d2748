SPECIFICATION BoardFairSpec
CONSTANTS
  Setups <- ShownOnly
  None = None
INVARIANTS EchoTopIsPartial
CHECK_DEADLOCK FALSE
