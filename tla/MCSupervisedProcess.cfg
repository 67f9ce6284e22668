CONSTANTS
  Executions = {e1, e2}
  Platform = "posix"
  MaxActive = 1
  MaxReplacements = 1
  MaxDrains = 1
  None = None
SPECIFICATION ProcessSpec
PROPERTIES ExecutionsSettle
CHECK_DEADLOCK FALSE
