SPECIFICATION Spec
CONSTANTS
  Users = {u1}
  Dates = {d1}
  Keys = {k1, k2}
  KeyIds = {id1, id2}
  None = None
  Blocked = Blocked
  Unmanaged = Unmanaged
  StopsAt <- NoSteps
  MaxLogins = 0
  MaxKeys = 2
  Ids = {j1}
  Names = {n1}
  Defs = {1}
  NoFile = NoFile
  Torn = Torn
  NoDef = NoDef
  Values <- SomeValues
  DefaultExtensions <- OneValue
  Escapes = FALSE
  Scopes <- KeyScopes
  MaxCommands = 3
CHECK_DEADLOCK FALSE
PROPERTIES
  RemovedKeyIsGone
