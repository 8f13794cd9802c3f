SPECIFICATION Spec

CONSTANTS
  p1 = p1
  p2 = p2
  Pids = {1}
  Packages = {p1, p2}
  NoPkg = NoPkg
  Unquotable = {}
  MaxAppId = 4
  MaxChildren = 0
  PidReuse = TRUE
  Crashes = {}
  Restarts = FALSE

INVARIANTS
  InstalledIsPersisted
  
PROPERTIES
  NoResurrection

SYMMETRY PackageSymmetry

\* AppCore waits for commands: it may stop when none comes.
CHECK_DEADLOCK FALSE
