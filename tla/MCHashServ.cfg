CONSTANTS
  Clients = {c1, c2}
  Taskhashes = {t1, t2, t3}
  Outhashes = {o1, o2}
  NoHash = NoHash
  Kinds = {"report", "equiv", "get", "get-all", "get-outhash", "stream", "wait"}
  MaxRequests = 3
  MaxAlone = 5
  MaxUpstream = 1
  MaxFailures = 2
  c1 = c1
  c2 = c2
  o1 = o1
  o2 = o2
  t1 = t1
  t2 = t2
  t3 = t3
SPECIFICATION Spec
INVARIANTS
  TypeOK
  ToldStays
  EquivalentAlone
  WaitersWoken
PROPERTIES
  WaitMeansCopied
SYMMETRY Symmetry
CHECK_DEADLOCK FALSE
