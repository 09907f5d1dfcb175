CONSTANTS
    sys = sys
    p1 = p1
    unknown = unknown
    linux = linux
    windows = windows
    console = console
    ramfs = ramfs
    NoOwner = NoOwner
    NoClass = NoClass
    NoPersona = NoPersona
    OwnerSystem = sys
    Principals <- MCPrincipals
    OwnerArgs <- MCOwnerArgs
    RightsArgs <- MCRightsArgs
    Delegable <- OneClass
    LeaseTicks = 2
    TickSpace = 6
    Classes <- OneClass
    Personas <- NoPersonas
    PersonaHosts <- NoHost
    TableLimit = 2
    MaxTick = 5
    MaxHandle = 3
    MaxGeneration = 0
SPECIFICATION Spec
CHECK_DEADLOCK FALSE
INVARIANT
    LeaseIsShort
