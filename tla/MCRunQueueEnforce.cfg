CONSTANTS
  Tasks = {1, 2, 3, 4, 5, 6}
  depends <- DiamondDepends
  Setscene = {1, 2, 5}
  Targets = {6}
  SetsceneDepends <- NoSetsceneDepends
  number_tasks = 1
  Halt = TRUE
  Noexec = {4}
  Enforced = {3, 4}
  DepValid = {1, 2, 5}
  Forced = FALSE
  SkipSetscene = FALSE
  SetsceneOnly = FALSE
  Fn <- DiamondFn
  Recipe <- DiamondFn
  Hashes = {1, 2}
  InitHash <- OneHash
  NoHash = 0
  Cached <- AllObjects
  Stamped = {3}
  Rehash = {}
  FakerootFails = {}
  Interrupts = {"now"}
  FailingTasks = {}
  FailingSetscene = {1}
  MaxDebt = 1
SPECIFICATION Spec
INVARIANTS
  ThreadLimit
