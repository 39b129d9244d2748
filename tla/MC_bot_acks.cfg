SPECIFICATION Spec
CONSTANTS
  MaxSlot = 3
  MaxBreaks = 0
  NoAck = NoAck
INVARIANTS AckOfOwnOrder
CHECK_DEADLOCK FALSE
