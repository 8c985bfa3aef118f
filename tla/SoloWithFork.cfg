SPECIFICATION Spec
CONSTANTS
  Texts <- MCTexts
  Archives <- MCArchives
  Disks <- MCDisks
  Policies = {"overwrite", "skip", "rename", "ask"}
  MaxSetbacks = 1
INVARIANT
  OneItemWhenSolo
CHECK_DEADLOCK FALSE
