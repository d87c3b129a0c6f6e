CONSTANTS
  Tasks = {1, 2, 3, 4, 5, 6}
  depends <- TwinDepends
  Setscene = {2, 4}
  Targets = {5, 6}
  SetsceneDepends <- NoSetsceneDepends
  number_tasks = 2
  Halt = TRUE
  Noexec = {}
  Enforced = {}
  DepValid = {2, 4}
  Forced = FALSE
  SkipSetscene = FALSE
  SetsceneOnly = FALSE
  Fn <- TwinFn
  Recipe <- TwinRecipe
  Hashes = {1, 2}
  InitHash <- OneHash
  NoHash = 0
  Cached <- AllObjects
  Stamped = {}
  Rehash = {2}
  FakerootFails = {}
  Interrupts = {}
  FailingTasks = {1}
  FailingSetscene = {4}
  MaxDebt = 1
SPECIFICATION FairSpec
INVARIANTS
  CompleteBuild
PROPERTIES
  OrderSpec
  BuildEnds
