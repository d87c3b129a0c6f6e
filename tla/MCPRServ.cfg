CONSTANTS
  Servers = {s1, s2}
  Clients = {c1, c2}
  None = None
  Modes <- ModesDef
  Tables <- TablesDef
  Home <- HomeDef
  Keys = {k}
  Checksums = {h1, h2}
  Importers = {c1, c2}
  Imports = {1}
  MaxRetries = 1
  MaxAsks = 2
  MaxDowns = 2
  s1 = s1
  s2 = s2
  c1 = c1
  c2 = c2
  k = k
  h1 = h1
  h2 = h2
SPECIFICATION Spec
INVARIANTS
  NeverDecremented
  NumbersKept
PROPERTIES
  RequestsEnd
CHECK_DEADLOCK FALSE
