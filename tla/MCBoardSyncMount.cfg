SPECIFICATION BoardSpec
CONSTANTS
  s1 = s1
  s2 = s2
  Shapes = {s1, s2}
  Drawn = {s1}
  MaxEdits = 2
  MaxForeign = 0
  MaxVisits = 1
  MaxPending = 2
INVARIANTS
  NothingIsForgotten
  ResolvedIsCommitted
CHECK_DEADLOCK FALSE
