SPECIFICATION Spec
CONSTANTS
    Deliveries = {d1}
    Connections = {c1, c2}
    MaxPerSession = 1
    MaxRetries = 0
    CacheLimit = 1
    Audio = {}
    Oversized = {}
    MaxDisturbances = 2
    None = None
CHECK_DEADLOCK FALSE
PROPERTY ReattachFindsItsPlace
