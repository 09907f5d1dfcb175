SPECIFICATION Spec
CONSTANTS
  TaskLimit = 2
  MaxPid = 3
  FdLimit = 3
  PipeLimit = 1
  CloneLimit = 2
  Capacity = 2
  Chunks = {1, 2}
  HandleGens = 8
  MaxGeneration = 3
  MayDup = TRUE
  AliasedForks = FALSE
  SignalsMasked = FALSE
INVARIANTS
  TypeOK
  NoLostWake
  PipesLiveWithDescriptors
  ReplaysReachTheirPipe
  OneRecordPerChild
CHECK_DEADLOCK FALSE
