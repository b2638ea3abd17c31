SPECIFICATION Spec
CONSTANTS
  Ports <- TwoPorts
  DefaultPort = 22
  Addrs = {a1, a2}
  Anywhere = Anywhere
  AnyPort = AnyPort
  SshName = SshName
  Backends <- BothBackends
  Sockets <- Either
  MainPorts <- SomeMain
  OldDropIns <- SomeOld
  Commands <- AllCommands
  AllowPorts <- TwoPorts
  DenyPorts <- OldPort
  AllowFrom = {Anywhere}
  DenyFrom = {Anywhere}
  NewPorts <- NewPort
  CloseWith <- Always
  ForceIn <- Unforced
  DryIn <- Never
  DenyIps = {a1}
  Clients = {a2, NoClient}
  NoClient = NoClient
  FaultKinds <- ReloadFault
  CrashAt <- NoCrash
  MaxRules = 3
PROPERTIES
  NoLockout
