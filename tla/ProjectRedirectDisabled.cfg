SPECIFICATION Spec
CONSTANTS
  Layout = "sites"
  Versions = {v1}
  Revs = {r1}
  Commands <- Redirects
  DryIn <- NotDry
  FaultKinds <- NoFaults
  CrashIn <- NoCrash
  OtherReloads = FALSE
  NoVersion = NoVersion
  NoFile = NoFile
  Torn = Torn
  NoState = NoState
INVARIANTS
  DisabledMatchesFiles
