SPECIFICATION Spec
CONSTANTS
  a = a
  b = b
  NoObject = NoObject
  Source = Source
  NoPassword = NoPassword
  NEntries = 5
  Objects = {a, b}
  Solid <- MCSolid
  Encrypted = {b}
  Passwords = {p, q}
  MaxHandles = 3
  MaxRaises = 1
INVARIANTS
  TypeOK
  ChainsFollowRuns
  FromOwnStream
  PasswordInForce
  HeaderInPlace
PROPERTIES
  StopIsFinal
CHECK_DEADLOCK FALSE
