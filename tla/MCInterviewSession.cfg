CONSTANTS
  Episodes = {e1, e2}
  Utterances = {u1}
  Generations = {g1, g2}
  Atoms = {a1, a2}
  Disclosures = {d1}
  Requests = {r1}
  None = None
  MaxTranscript = 1
  MaxBoard = 1
SPECIFICATION Spec
SYMMETRY Symmetry
CHECK_DEADLOCK FALSE
INVARIANTS
  PendingOutputIsValidated
  LiveGenerationIsTheCurrentOne
PROPERTIES
  ImplementsExposureLedger
