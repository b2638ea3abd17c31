SPECIFICATION Spec
CONSTANTS
  Layout = "sites"
  Versions = {v1, v2}
  Revs = {r1}
  Commands <- Switches
  DryIn <- NotDry
  FaultKinds <- RollbackFaults
  CrashIn <- AllCommands
  OtherReloads = FALSE
  NoVersion = NoVersion
  NoFile = NoFile
  Torn = Torn
  NoState = NoState
PROPERTIES
  FailedRuntimeSetUndone
