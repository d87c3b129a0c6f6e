CONSTANTS
  Parsers = {p1, p2}
  Recipes = {r1, r2, r3}
  Jobs <- JobsDef
  MayFail = {r1}
  None = None
  PipeSize = 2
  MaxEvents = 1
  MaxKills = 1
  p1 = p1
  p2 = p2
  r1 = r1
  r2 = r2
  r3 = r3
SPECIFICATION Spec
INVARIANTS
  OutcomeRight
  NothingLeft
PROPERTIES
  EndsUndeferred
CHECK_DEADLOCK FALSE
