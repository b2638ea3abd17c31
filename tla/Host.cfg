SPECIFICATION Spec
CONSTANTS
  Users = {u1, u2}
  Dates = {d1}
  Keys = {k1}
  KeyIds = {id1}
  None = None
  Blocked = Blocked
  Unmanaged = Unmanaged
  StopsAt <- MostSteps
  MaxLogins = 2
  MaxKeys = 1
  Ids = {j1}
  Names = {n1, n2}
  Defs = {1}
  NoFile = NoFile
  Torn = Torn
  NoDef = NoDef
  Values <- SomeValues
  DefaultExtensions <- OneValue
  Escapes = TRUE
  Scopes <- AllScopes
  MaxCommands = 3
CHECK_DEADLOCK FALSE
INVARIANTS
  TypeOK
  UpdatesAsReported
PROPERTIES
  UnlockRestores
  LogoutSparesOthers
  RuleGoesWithAccount
  ProgramsMatchFiles
  OtherSettingsStay
  CacheKeepsUp
  RunEnds
