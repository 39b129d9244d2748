SPECIFICATION Spec
CONSTANTS
  Ranks = {1, 2, 3}
  MaxPushes = 6
INVARIANTS AgreesOnAnyList
PROPERTIES BetterNeverScoresLess
CHECK_DEADLOCK FALSE
