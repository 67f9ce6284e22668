SPECIFICATION Spec
CONSTANTS
    Sessions = {s1}
    Writers = {w1, w2}
    Calls = {c1, c2, c3}
    None = None
CHECK_DEADLOCK FALSE
INVARIANTS
    CloseAllLeavesNoWriter
