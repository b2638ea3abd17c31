SPECIFICATION Spec
CONSTANTS
  Layout = "sites"
  Versions = {v1}
  Revs = {r1, r2}
  Commands <- KeepOffCommands
  DryIn <- DryTls
  FaultKinds <- UndoneFaults
  CrashIn <- NoCrash
  OtherReloads = FALSE
  NoVersion = NoVersion
  NoFile = NoFile
  Torn = Torn
  NoState = NoState
INVARIANTS
  VhostMatchesState
  DisabledMatchesFiles
  LiveMatchesFiles
  NoDanglingLink
