\* The graph at LangGraph's default recursion limit.
SPECIFICATION FairSpec
CONSTANTS
    RecursionLimit = 25
    MaxRepair = 3
    MaxFailures = 32
    RecentWindow = 5
    PlatformFiles <- MCPlatform
    StorageFiles <- MCStorage
    OutsideFiles <- MCOutside
    EscapingFiles <- MCEscaping
    Sections <- MCSections
    Default = "default"
    Bodies <- MCBodies
    Payloads <- MCFewPayloads
    Exceptions <- MCOneException
    SandboxFailures <- MCOneFailure
    InitDisks <- MCUsedProject
    Setups <- MCDefault
    DiskFaults = FALSE
    MaxEdits = 1
INVARIANTS
    TypeOK
    ReviewsBounded
    DriftLoopBounded
    SecurityNeverPasses
PROPERTIES
    Terminates
