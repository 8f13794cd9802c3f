SPECIFICATION Spec

CONSTANTS
  p1 = p1
  p2 = p2
  Pids = {1, 2}
  Packages = {p1}
  NoPkg = NoPkg
  Unquotable = {}
  MaxAppId = 1
  MaxChildren = 2
  PidReuse = TRUE
  Crashes = {}
  Restarts = FALSE

INVARIANTS
  TypeOK
  IInv
  ChildIsActive
  OneProcessPerApp
PROPERTIES
  RegistrySpec

\* AppCore waits for commands: it may stop when none comes.
CHECK_DEADLOCK FALSE
