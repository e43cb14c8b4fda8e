SPECIFICATION Spec
CONSTANTS
    Orgs = {1}
    Ranks = {1, 2}
    Loop = loop
    Admins = {admin}
    Handlers = {h1}
    BatchPerOrg = 2
    MaxBatch = 1
    MaxAttempts = 1
    ScanCap = 9
    SkipLimit = 9
    Rationale = TRUE
    MaxTurns = 2
    MaxRequests = 6
    MaxCrashes = 0
    Exclusive = TRUE
    FaultyBlobs = FALSE
INVARIANTS
    TypeOK
    NoGhost
    QuoteHasSession
    BlobHasRecord
PROPERTIES
    NeverDowngraded
    TurnsNeverLost
    AbandonedWasTried
