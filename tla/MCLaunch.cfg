CONSTANTS
    sys = sys
    none = none
    console = console
    NoOwner = NoOwner
    NoClass = NoClass
    NoPersona = NoPersona
    OwnerSystem = sys
    ClassNone = none
    Principals <- MCPrincipals
    OwnerArgs <- MCPrincipals
    RightsArgs <- MCRightsArgs
    Classes <- MCClasses
    Delegable <- MCDelegable
    Personas <- Nothing
    PersonaHosts <- Nothing
    ServiceClassOf <- MCServiceClassOf
    Bindable <- MCBindable
    TableLimit = 2
    LeaseTicks = 1
    TickSpace = 16
    MaxTick = 1
    MaxHandle = 4
    ManifestCount = 2
    RequestLimit = 6
    GenerationSpace = 3
SPECIFICATION Spec
CHECK_DEADLOCK FALSE
INVARIANTS
    HandlesNeverStale
    NoOrphans
    ImageMatchesGeneration
PROPERTIES
    HandlesStayDead
