\* Humans edit and remove files, and the manifest, during a write; a body is a token.
SPECIFICATION Spec
CONSTANTS
    PlatformFiles <- MCPlatform
    StorageFiles <- MCStorage
    OutsideFiles <- MCOutside
    EscapingFiles <- MCEscaping
    Sections <- MCSections
    Default = "default"
    Bodies <- MCTokenBodies
    Requests <- MCTokenRequests
    StartDisks <- MCStartDisks
    EditsAnytime = TRUE
    MaxWrites = 2
    MaxEdits = 3
    MaxCrashes = 1
PROPERTIES
    NoEditVouchedFor
