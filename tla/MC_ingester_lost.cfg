SPECIFICATION FairSpec
CONSTANTS
  s1 = s1
  Subs = {s1}
  MaxEvents = 1
  ReadCount = 1
  MaxLen = 1
  MaxCrashes = 1
  None = None
PROPERTIES ReachesBoard
CHECK_DEADLOCK FALSE
