SPECIFICATION FairSpec
CONSTANTS
  s1 = s1
  Subs = {s1}
  None = None
  a1 = a1
  a2 = a2
  Addresses = {a1, a2}
  MaxRequests = 1
  MaxTroubles = 1
PROPERTIES KilledTestFails
CHECK_DEADLOCK FALSE
