SPECIFICATION Spec
CONSTANTS
  Users = {u1}
  Databases = {d1}
  Passwords = {p1, p2}
  Root = Root
  None = None
  Socket = Socket
  NoBind = NoBind
  Binds = {local, all, absent}
  Loopback = {local}
  BadBinds = {absent}
  OwnBinds = {local, all}
  Commands <- Everything
  HostFlags <- LocalFlags
  Targets <- OnlyUsers
  FaultKinds <- MostFaults
  CrashAt <- Crashes
  MaxCommands = 4
SYMMETRY AnyPassword
CHECK_DEADLOCK FALSE
INVARIANTS
  TypeOK
  PairAgrees
PROPERTIES
  PasswordChanged
  RevokedLocally
  SavedPasswordWorks
  InstallSecures
  RecoveryStopped
  DisabledIsLocal
  RemoteSettled
  DisabledOrRestored
