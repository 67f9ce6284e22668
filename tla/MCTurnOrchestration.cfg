SPECIFICATION FairSpec
CONSTANTS
    MaxTurns = 2
    MaxGenerations = 3
    MaxChanges = 1
    MaxResends = 1
    MaxCrashes = 1
    MaxStops = 1
    MaxDisturbances = 2
CONSTRAINT OneOther
CHECK_DEADLOCK FALSE
INVARIANTS
    NoTurnIsAnsweredTwice
    NoTurnIsStranded
    ActiveGenerationIsExecuted
PROPERTIES
    CancelledWorkEnds
