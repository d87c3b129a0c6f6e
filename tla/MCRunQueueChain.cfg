CONSTANTS
  Tasks = {1, 2, 3, 4, 5}
  depends <- ChainDepends
  Setscene = {2, 4}
  Targets = {5}
  SetsceneDepends <- HardSetsceneDepends
  number_tasks = 2
  Halt = TRUE
  Noexec = {1}
  Enforced = {}
  DepValid = {2, 4}
  Forced = FALSE
  SkipSetscene = FALSE
  SetsceneOnly = FALSE
  Fn <- ChainFn
  Recipe <- ChainFn
  Hashes = {1, 2}
  InitHash <- OneHash
  NoHash = 0
  Cached <- AllObjects
  Stamped = {1, 2}
  Rehash = {2, 4}
  FakerootFails = {5}
  Interrupts = {"stop"}
  FailingTasks = {3, 4}
  FailingSetscene = {2, 4}
  MaxDebt = 1
SPECIFICATION Spec
INVARIANTS
  TypeOK
  DependencyOrder
  OneProcess
PROPERTIES
  RunningHashStable
  HardDependsMet
