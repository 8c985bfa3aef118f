SPECIFICATION Spec
CONSTANTS
  Archives <- MCArchives
  Names <- MCNames
  Renames <- MCRenames
  OldFiles <- MCOldFiles
  MaxSetbacks = 3
INVARIANTS
  TypeOK
  ForksPaired
  CleanSuccess
  ReturnsAsAssumed
  FailureHasReason
  OldFilesSurvive
PROPERTIES
  Returns
CHECK_DEADLOCK FALSE
