SPECIFICATION FairSpec
CONSTANTS
  s1 = s1
  s2 = s2
  Subs = {s1, s2}
  MaxEvents = 3
  ReadCount = 2
  MaxLen = 2
  MaxCrashes = 1
  None = None
INVARIANTS TypeOK NoEventSkipped OncePerProcess WindowAccounting ErrorsCountedOnce
PROPERTIES EveryEventCounted WindowIsFlushed
CHECK_DEADLOCK FALSE
