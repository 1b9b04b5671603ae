\* The repair loop with HITL enabled, at the code's limits.
SPECIFICATION FairSpec
CONSTANTS
    MaxRepair = 3
    MaxFailures = 32
    RecentWindow = 5
    MaxIterations = 6
    HitlEnabled = TRUE
    PlatformFiles <- MCPlatform
    StorageFiles <- MCStorage
    OutsideFiles <- MCOutside
    EscapingFiles <- MCEscaping
    Sections <- MCSections
    Default = "default"
    Bodies <- MCBodies
    Payloads <- MCPayloads
    Exceptions <- MCExceptions
    SandboxFailures <- MCSandboxFailures
    InitDisks <- MCUsedProject
    Setups <- MCSetups
    DiskFaults = FALSE
    MaxEdits = 0
INVARIANTS
    TypeOK
    AttemptsBounded
    TriggersStopRepair
    HitlJustified
    SecurityNeverPasses
    PassMeansDropped
    StagingAccounted
    UnrecordableStops
PROPERTIES
    DropsOnlyTested
    Terminates
