\* Each agent, with guides of all kinds, failing files and killed processes.
SPECIFICATION Spec
CONSTANTS
    MaxBytes = 14
    MaxBody = 5
    Roles <- MCRoles
    Guides <- MCGuides
    MaxCalls = 3
INVARIANTS
    TypeOK
    AuditTrail
    SentIsContract
