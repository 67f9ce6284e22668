SPECIFICATION FairBoardSpec
CONSTANTS
  s1 = s1
  s2 = s2
  Shapes = {s1, s2}
  Drawn = {s1}
  MaxEdits = 2
  MaxForeign = 1
  MaxVisits = 1
  MaxPending = 2
CONSTRAINT AnotherWindow
INVARIANTS
  BoundCanvasIsAuthority
  PromisesAreKept
PROPERTIES
  EveryMutationEnds
CHECK_DEADLOCK FALSE
