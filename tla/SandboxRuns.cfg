\* Both ways to run the tests, with every operation failing or cut off.
SPECIFICATION FairSpec
CONSTANTS
    Docker <- MCDocker
    Logs <- MCLogs
    Raisable <- MCRaisable
INVARIANTS
    TypeOK
    ContainersReleased
    TimeoutReported
    TraceExplains
PROPERTIES
    ImplementsService
    CallsEnd
