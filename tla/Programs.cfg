SPECIFICATION Spec
CONSTANTS
  Procs = {p1, p2}
  Plugin = Plugin
  Self = Self
  Versions <- SomeVersions
  Major <- MajorOf
  Reports <- SaysOf
  LocalVersion = 1
  Nothing = Nothing
  Link = Link
  Partial = Partial
  Junk = Junk
  Torn = Torn
  Faults <- AnyFault
  MaxCommands = 2
SYMMETRY Alike
CHECK_DEADLOCK FALSE
INVARIANTS
  TypeOK
PROPERTIES
  AlwaysComplete
  UpdatesForward
  SuccessSettles
