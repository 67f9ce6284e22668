SPECIFICATION FairSpec
CONSTANTS
    MaxTurns = 2
    MaxGenerations = 3
    MaxChanges = 0
    MaxResends = 0
    MaxCrashes = 1
    MaxStops = 1
    MaxDisturbances = 2
CHECK_DEADLOCK FALSE
PROPERTIES
    ShutdownEnds
