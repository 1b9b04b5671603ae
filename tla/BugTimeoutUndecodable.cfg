\* Tests that overran, with output cut off within a character.
SPECIFICATION Spec
CONSTANTS
    Docker <- MCDocker
    Logs <- MCFewLogs
    Raisable <- MCRaisable
INVARIANTS
    OverrunIsTimeout
