SPECIFICATION FairSpec
CONSTANTS
    Sessions = {s1, s2}
    Writers = {w1, w2, w3, w4}
    Calls = {c1, c2, c3}
    None = None
CHECK_DEADLOCK FALSE
INVARIANTS
    LiveWriterIsCurrent
    CloseDrains
PROPERTIES
    EveryCallReturns
