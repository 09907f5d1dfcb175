SPECIFICATION Spec
CONSTANTS
  ClusterLimit = 28
  Slots = 6
  Units = 2
  VisitLimit = 3
  FirstCluster = 9
  CreateCluster = 6
  UpdateCluster = 7
  DeleteCluster = 8
  MaxFile = 6
  LongNames <- MCLong
  Paths <- MCPaths
  OwnPaths <- MCOwnPaths
  Contents <- MCContents
  Faults <- MCFaults
  Sturdy <- MCSturdy
  Seeds <- MCSeeds
  MaxScars = 1
  MaxSteps = 2
INVARIANTS
  Sound
  Clean
  Findable
PROPERTIES
  Atomic
  Truthful
  
CHECK_DEADLOCK FALSE
