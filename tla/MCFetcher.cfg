CONSTANTS
  Tasks = {t1, t2}
  Contents = {"good", "other"}
  Premirrors <- BothKinds
  Mirrors <- NetFirst
  None = None
  DatesKept = FALSE
  MaxKills = 2
  MaxBetween = 2
SPECIFICATION Spec
INVARIANTS
  DiskRight
  UnpackedRight
  SourcesTried
PROPERTIES
  FetchedRight
