SPECIFICATION Spec
CONSTANTS
  TaskLimit = 2
  MaxPid = 2
  FdLimit = 3
  PipeLimit = 1
  CloneLimit = 2
  Capacity = 2
  Chunks = {1, 2}
  HandleGens = 3
  MaxGeneration = 4
  MayDup = FALSE
  AliasedForks = FALSE
  SignalsMasked = TRUE
INVARIANTS
  NoLeakedPipe
CHECK_DEADLOCK FALSE
