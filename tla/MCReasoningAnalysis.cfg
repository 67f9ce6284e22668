SPECIFICATION FairSpec
CONSTANTS
  Calls = {k1, k2}
  MaxInFlight = 1
  MaxTurns = 2
  MaxEpoch = 2
  MaxStops = 1
INVARIANTS
  EvidenceOutlivesNoCorrection
  SettledIsDecided
PROPERTIES
  TimeLimitIsFinal
  EveryCallEnds
CHECK_DEADLOCK FALSE
