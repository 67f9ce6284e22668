SPECIFICATION FairSpec
CONSTANTS
    Deliveries = {d1}
    Connections = {c1, c2}
    MaxPerSession = 1
    MaxRetries = 1
    CacheLimit = 1
    Audio = {d1}
    Oversized = {}
    MaxDisturbances = 2
    None = None
CHECK_DEADLOCK FALSE
INVARIANTS
    ShownIsAccountedFor
    ShownOnce
PROPERTIES
    AwaitsAreLookedBehind
    EverythingAwaitedEnds
    UncertaintyIsResolved
