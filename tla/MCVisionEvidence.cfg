SPECIFICATION FairVisionSpec
CONSTANTS
  Requests = {r1, r2}
  s1 = s1
  s2 = s2
  Shapes = {s1, s2}
  Edits <- MCEdits
  Inside = {s1}
  MaxUploads = 2
  MaxInFlight = 1
  MaxAnswers = 1
  MaxBoard = 2
  MaxCrashes = 1
CONSTRAINT OneDisturbance
INVARIANTS
  EvidenceInForceIsFresh
  EvidenceIsCountedOnce
  TheAnswerStands
PROPERTY EveryUploadEnds
CHECK_DEADLOCK FALSE
