SPECIFICATION FairSpec
CONSTANTS
  s1 = s1
  s2 = s2
  Subs = {s1, s2}
  None = None
  a1 = a1
  a2 = a2
  Addresses = {a1, a2}
  MaxRequests = 3
  MaxTroubles = 2
INVARIANTS TypeOK FailsForAReason HeldByARecord
PROPERTIES ConnectsToOwn StoppedIsFinal RunningEnds
CHECK_DEADLOCK FALSE
