SPECIFICATION Spec
CONSTANTS
  Archives <- MCArchives
  Paths <- MCPaths
  Variant = "nserror"
  MaxSetbacks = 2
INVARIANT
  ArchiveInsteadOfFile
CHECK_DEADLOCK FALSE
