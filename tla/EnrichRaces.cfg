SPECIFICATION FairSpec
CONSTANTS
    Orgs = {1}
    Ranks = {1, 2}
    Loop = loop
    Admins = {admin}
    Handlers = {h1}
    BatchPerOrg = 1
    MaxBatch = 1
    MaxAttempts = 1
    ScanCap = 9
    SkipLimit = 9
    Rationale = TRUE
    MaxTurns = 1
    MaxRequests = 3
    MaxCrashes = 1
    Exclusive = FALSE
    FaultyBlobs = TRUE
INVARIANTS
    AttemptsBounded
PROPERTIES
    Settles
