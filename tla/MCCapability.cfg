CONSTANTS
    sys = sys
    p1 = p1
    unknown = unknown
    linux = linux
    windows = windows
    console = console
    ramfs = ramfs
    NoOwner = NoOwner
    NoClass = NoClass
    NoPersona = NoPersona
    OwnerSystem = sys
    Principals <- MCPrincipals
    OwnerArgs <- MCOwnerArgs
    RightsArgs <- MCRightsArgs
    Delegable <- OneClass
    LeaseTicks = 2
    TickSpace = 16
    Classes <- TwoClasses
    Personas <- TwoPersonas
    PersonaHosts <- OneHost
    TableLimit = 2
    MaxTick = 3
    MaxHandle = 4
    MaxGeneration = 2
SPECIFICATION MCSpec
CHECK_DEADLOCK FALSE
INVARIANTS
    TypeOK
    HandlesUnique
    DelegationAttenuates
    OrphansUnroutable
    LeaseIsShort
PROPERTIES
    DeadHandlesStayDead
