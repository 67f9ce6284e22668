SPECIFICATION FairSpec
CONSTANTS
  c1 = c1
  c2 = c2
  Callers = {c1, c2}
  Signalled = {c1}
  MaxRetries = 2
  MaxStops = 2
INVARIANTS
  RecordIsTrue
PROPERTIES
  NoSpawnOnceStopped
  EveryCallEnds
CHECK_DEADLOCK FALSE
