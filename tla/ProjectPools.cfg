SPECIFICATION Spec
CONSTANTS
  Layout = "confd"
  Versions = {v1, v2}
  Revs = {r1}
  Commands <- PoolCommands
  DryIn <- DryPools
  FaultKinds <- NoDeleteFaults
  CrashIn <- NotRemoving
  OtherReloads = FALSE
  NoVersion = NoVersion
  NoFile = NoFile
  Torn = Torn
  NoState = NoState
INVARIANTS
  TypeOK
  RecordedPoolExists
  ServedPoolExists
PROPERTIES
  DryRunChangesNothing
