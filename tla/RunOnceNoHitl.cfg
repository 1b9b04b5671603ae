\* HITL disabled, failing disk operations, and a human editing the project.
SPECIFICATION Spec
CONSTANTS
    MaxRepair = 2
    MaxFailures = 2
    RecentWindow = 5
    MaxIterations = 3
    HitlEnabled = FALSE
    PlatformFiles <- MCPlatform
    StorageFiles <- MCStorage
    OutsideFiles <- MCOutside
    EscapingFiles <- MCEscaping
    Sections <- MCSections
    Default = "default"
    Bodies <- MCBodies
    Payloads <- MCFewPayloads
    Exceptions <- MCOneException
    SandboxFailures <- MCOneFailure
    InitDisks <- MCUsedProject
    Setups <- MCDefault
    DiskFaults = TRUE
    MaxEdits = 1
INVARIANTS
    DroppedIsTested
    IntegrityKept
    AttemptInv
    SecurityInv
PROPERTIES
    LastFailureIsLatest
