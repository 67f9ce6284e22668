SPECIFICATION FairAssetsSpec
CONSTANTS
  m1 = m1
  m2 = m2
  a1 = a1
  a2 = a2
  c1 = c1
  c2 = c2
  t1 = t1
  Nil = Nil
  Managers = {m1, m2}
  Artifacts = {a1, a2}
  Clients = {c1, c2}
  Tasks = {t1}
  Size <- MCSize
  Limit <- MCLimit
  Requests <- MCRequests
  Keeps = {{}}
  Damaged = {a2}
  MaxCrashes = 1
INVARIANTS
  NothingIsSweptAway
  AccountingIsExact
  OnlyOwnCancellation
PROPERTIES
  EveryRequestEnds
CHECK_DEADLOCK FALSE
