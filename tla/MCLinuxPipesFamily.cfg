SPECIFICATION Spec
CONSTANTS
  TaskLimit = 3
  MaxPid = 3
  FdLimit = 3
  PipeLimit = 2
  CloneLimit = 2
  Capacity = 1
  Chunks = {1}
  HandleGens = 8
  MaxGeneration = 2
  MayDup = FALSE
  AliasedForks = FALSE
  SignalsMasked = TRUE
INVARIANTS
  NoLostWake
  PipesLiveWithDescriptors
CHECK_DEADLOCK FALSE
