CONSTANTS
  Clients = {c1, c2}
  Killers = {c2}
  None = None
  Timeouts = {"none", "configured", "given"}
  MaxKilled = 1
  c1 = c1
  c2 = c2
SPECIFICATION Spec
INVARIANTS
  CommandsSound
  CleanHandover
  StrayCompletions
PROPERTIES
  ClientsEnd
CHECK_DEADLOCK FALSE
