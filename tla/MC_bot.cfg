SPECIFICATION ProxiedFairSpec
CONSTANTS
  MaxSlot = 3
  MaxBreaks = 1
  NoAck = NoAck
INVARIANTS ProxiedTypeOK OneEventPerOrder AcksInOrder
PROPERTIES RunReturns ProxyIsAWire LegsFallTogether
CHECK_DEADLOCK FALSE
