SPECIFICATION FairSpec
CONSTANTS
  s1 = s1
  s2 = s2
  Subs = {s1, s2}
  MaxRows = 6
  QueueSize = 2
  BatchSize = 2
  MaxCrashes = 1
INVARIANTS TypeOK RowsInOrder RowsAddUp CorrectnessIsLatest
PROPERTIES OnlyOldestDropped RowsAreSettled
CHECK_DEADLOCK FALSE
