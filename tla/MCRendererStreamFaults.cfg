SPECIFICATION Spec
CONSTANTS
    Deliveries = {d1}
    Connections = {c1, c2}
    MaxPerSession = 1
    MaxRetries = 0
    CacheLimit = 1
    Audio = {d1}
    Oversized = {}
    MaxDisturbances = 4
    None = None
SYMMETRY Symmetry
CHECK_DEADLOCK FALSE
INVARIANTS
    ShownIsAccountedFor
    ShownOnce
PROPERTIES
    AwaitsAreLookedBehind
