SPECIFICATION Spec
CONSTANTS
  NBlocks = 3
  Start <- MCStart
  Lengths = {4, 7}
  MaxRequest = 4
INVARIANTS
  TypeOK
  BytesInOrder
  EndIsTheEnd
PROPERTIES
  IsAFile
  CallsReturn
