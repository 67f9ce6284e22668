SPECIFICATION BoardSpec
CONSTANTS
  s1 = s1
  s2 = s2
  Shapes = {s1, s2}
  Drawn = {s1}
  MaxEdits = 3
  MaxForeign = 0
  MaxVisits = 0
  MaxPending = 2
INVARIANTS
  BoundCanvasIsAlwaysAuthority
CHECK_DEADLOCK FALSE
