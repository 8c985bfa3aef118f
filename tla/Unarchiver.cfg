SPECIFICATION Spec
CONSTANTS
  Archives <- MCArchives
  Paths <- MCPaths
  Variant = "xaderror"
  MaxSetbacks = 2
INVARIANTS
  TypeOK
  CompleteIfReported
  NothingLeftDeferred
  StopIsReported
PROPERTIES
  SealedDirectoriesRest
  RunReturns
CHECK_DEADLOCK FALSE
