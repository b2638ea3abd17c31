SPECIFICATION Spec
CONSTANTS
  Users = {u1}
  Databases = {d1}
  Passwords = {p1, p2}
  Root = Root
  None = None
  Socket = Socket
  NoBind = NoBind
  Binds = {local, all}
  Loopback = {local}
  BadBinds = {}
  OwnBinds = {local}
  Commands <- RootCommands
  HostFlags <- LocalFlags
  Targets <- OnlyUsers
  FaultKinds <- NoFaults
  CrashAt <- NoCrash
  MaxCommands = 3
SYMMETRY AnyPassword
CHECK_DEADLOCK FALSE
PROPERTIES
  ResetSucceeds
