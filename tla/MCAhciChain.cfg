CONSTANTS
    Ports <- MCPorts
    Cablings <- MCCablings
    MaxPlugs = 1
    MaxHandles = 3
    Grants <- MCGrants
    BlockSlots = 4
SPECIFICATION MCSpec
CONSTRAINT Explored
INVARIANTS LinkedChain OldHandlesDead BlockIsReadSector
PROPERTIES CommandsJustified
