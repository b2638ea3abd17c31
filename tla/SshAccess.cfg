SPECIFICATION Spec
CONSTANTS
  Ports <- TwoPorts
  DefaultPort = 22
  Addrs = {a1, a2}
  Anywhere = Anywhere
  AnyPort = AnyPort
  SshName = SshName
  Backends <- BothBackends
  Sockets <- Either
  MainPorts <- SomeMain
  OldDropIns <- SomeOld
  Commands <- AllCommands
  AllowPorts <- TwoPorts
  DenyPorts <- OldPort
  AllowFrom = {Anywhere, a2}
  DenyFrom = {Anywhere, a1}
  NewPorts <- NewPort
  CloseWith <- Always
  ForceIn <- Unforced
  DryIn <- Never
  DenyIps = {a1}
  Clients = {a2, NoClient}
  NoClient = NoClient
  FaultKinds <- UndoneFaults
  CrashAt <- Crashes
  MaxRules = 3
INVARIANTS
  TypeOK
PROPERTIES
  NoLockout
  OpenBeforeListen
  OldPortKept
  SetPortUndone
