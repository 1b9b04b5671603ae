\* A human edit between the read and the replace.
SPECIFICATION Spec
CONSTANTS
    PlatformFiles <- MCPlatform
    StorageFiles <- MCStorage
    OutsideFiles <- MCOutside
    EscapingFiles <- MCEscaping
    Sections <- MCSections
    Default = "default"
    Bodies <- MCBodies
    Requests <- MCRequests
    StartDisks <- MCStartDisks
    EditsAnytime = TRUE
    MaxWrites = 1
    MaxEdits = 1
    MaxCrashes = 0
PROPERTIES
    HumanTextKept
