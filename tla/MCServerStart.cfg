CONSTANTS
  Clients = {c1, c2}
  Servers = {1, 2, 3, 4}
  None = None
  MaxTries = 2
  MaxCrashes = 1
  c1 = c1
  c2 = c2
SPECIFICATION Spec
INVARIANTS
  FilesRight
PROPERTIES
  OneServer
  NobodyWaits
CHECK_DEADLOCK FALSE
