SPECIFICATION Spec
CONSTANTS
  Texts <- MCTexts
  Archives <- MCArchives
  Disks <- MCDisks
  Policies = {"overwrite", "skip", "rename", "ask"}
  MaxSetbacks = 1
INVARIANTS
  TypeOK
  OldFilesSurvive
  OutsideUntouched
  NothingLost
  FoldersStayWhole
  NoTemporaryLeft
PROPERTIES
  RunReturns
CHECK_DEADLOCK FALSE
