CONSTANTS
  Tabs = {t1, t2}
  Quotes <- MCQuotes
  Definitions <- MCDefinitions
  Rounds = 3
  MaxPosition = 2
  StopLoss = 4
  MaxDrawdown = 6
  MaxQuoteSize = 2
  NoiseSize = 2
  NoiseSpread = 4
  Unit = 6
  MaxLoads = 2
  MaxDisturbances = 2
SPECIFICATION Spec
CONSTRAINT OneOrShared
SYMMETRY TabSymmetry
INVARIANTS ValidActionsPlay HistoryCanBeReplayed
PROPERTIES ShownNeverGoesBack
CHECK_DEADLOCK FALSE
