SPECIFICATION Spec
CONSTANTS
  Layout = "confd"
  Versions = {v1}
  Revs = {r1}
  Commands <- TlsCommands
  DryIn <- NotDry
  FaultKinds <- NoSaveFaults
  CrashIn <- TlsCrashes
  OtherReloads = TRUE
  NoVersion = NoVersion
  NoFile = NoFile
  Torn = Torn
  NoState = NoState
INVARIANTS
  TlsHasCertificate
