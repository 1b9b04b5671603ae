\* Writes by killed and failing processes, edits and losses of the manifest between them.
SPECIFICATION FairSpec
CONSTANTS
    PlatformFiles <- MCPlatform
    StorageFiles <- MCStorage
    OutsideFiles <- MCOutside
    EscapingFiles <- MCEscaping
    Sections <- MCSections
    Default = "default"
    Bodies <- MCBodies
    Requests <- MCRequests
    StartDisks <- MCStartDisks
    EditsAnytime = FALSE
    MaxWrites = 3
    MaxEdits = 2
    MaxCrashes = 2
INVARIANTS
    TypeOK
    OrphansBounded
PROPERTIES
    HumanTextKept
    ImplementsStore
    WritesEnd
