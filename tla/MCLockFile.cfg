\* Two processes with two calls each and every mix of the arguments: a process
\* comes back for a second file while the other still has the first one open.
\* No symmetry: one property is temporal.
CONSTANTS
  Procs = {p1, p2}
  Inodes = {i1, i2}
  NoFile = NoFile
  MaxCalls = 2
SPECIFICATION FairSpec
INVARIANTS
  Mutex
  UnlinkOwn
PROPERTIES
  CallsReturn
CHECK_DEADLOCK FALSE
