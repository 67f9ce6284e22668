SPECIFICATION Spec
CONSTANTS
    MaxTurns = 2
    MaxGenerations = 2
    MaxChanges = 0
    MaxResends = 1
    MaxCrashes = 0
    MaxStops = 0
    MaxDisturbances = 2
CHECK_DEADLOCK FALSE
INVARIANTS
    CancelsOnlyOlderWork
