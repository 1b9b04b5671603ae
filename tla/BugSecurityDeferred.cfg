\* A traversal in the first iteration.
SPECIFICATION Spec
CONSTANTS
    MaxRepair = 3
    MaxFailures = 32
    RecentWindow = 5
    MaxIterations = 6
    HitlEnabled = TRUE
    PlatformFiles <- MCPlatform
    StorageFiles <- MCStorage
    OutsideFiles <- MCOutside
    EscapingFiles <- MCEscaping
    Sections <- MCSections
    Default = "default"
    Bodies <- MCBodies
    Payloads <- MCFewPayloads
    Exceptions <- MCOneException
    SandboxFailures <- MCOneFailure
    InitDisks <- MCNewProject
    Setups <- MCDefault
    DiskFaults = FALSE
    MaxEdits = 0
INVARIANTS
    SecurityStopsRepair
