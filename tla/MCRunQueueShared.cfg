CONSTANTS
  Tasks = {1, 2, 3, 4, 5, 6, 7}
  depends <- SharedDepends
  Setscene = {2, 3, 6}
  Targets = {3, 7}
  SetsceneDepends <- NoSetsceneDepends
  number_tasks = 2
  Halt = FALSE
  Noexec = {}
  Enforced = {}
  DepValid = {2, 3, 6}
  Forced = TRUE
  SkipSetscene = FALSE
  SetsceneOnly = FALSE
  Fn <- SharedFn
  Recipe <- SharedRecipe
  Hashes = {1, 2}
  InitHash <- OneHash
  NoHash = 0
  Cached <- AllObjects
  Stamped = {5}
  Rehash = {2, 3}
  FakerootFails = {}
  Interrupts = {}
  FailingTasks = {4}
  FailingSetscene = {2, 6}
  MaxDebt = 1
SPECIFICATION Spec
INVARIANTS
  SoundBuild
  CoveredOrNot
  RealInputs
  KeepGoing
  ForcedTargetsRun
PROPERTIES
  CoveredTasksWait
