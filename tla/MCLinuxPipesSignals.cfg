SPECIFICATION Spec
CONSTANTS
  TaskLimit = 2
  MaxPid = 3
  FdLimit = 3
  PipeLimit = 1
  CloneLimit = 2
  Capacity = 2
  Chunks = {1, 2}
  HandleGens = 8
  MaxGeneration = 2
  MayDup = FALSE
  AliasedForks = FALSE
  SignalsMasked = FALSE
INVARIANTS
  BlockedCallsReplay
CHECK_DEADLOCK FALSE
