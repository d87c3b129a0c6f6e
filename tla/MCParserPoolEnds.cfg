CONSTANTS
  Parsers = {p1, p2}
  Recipes = {r1, r2, r3}
  Jobs <- JobsDef
  MayFail = {r1}
  None = None
  PipeSize = 1
  MaxEvents = 1
  MaxKills = 0
  p1 = p1
  p2 = p2
  r1 = r1
  r2 = r2
  r3 = r3
SPECIFICATION Spec
PROPERTY
  ParseEnds
CHECK_DEADLOCK FALSE
