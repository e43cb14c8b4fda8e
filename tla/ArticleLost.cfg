SPECIFICATION Spec
CONSTANTS
    Digest <- MCDigest
    MaxNotes = 3
    MaxRequests = 1
    MaxCrashes = 0
    Exclusive = FALSE
    CLoop = cloop
    CAdmins = {}
    Batch = 1
    CMaxAttempts = 1
    PromoteEvidence = 3
    PromoteActors = 2
    MaxCandidates = 2
    MaxNew = 1
    OLoop = oloop
    OAdmins = {}
    MinSessions = 1
    OMaxAttempts = 1
    OMaxPerPass = 1
    Editors = {e1}
    Quotes = FALSE
    Careful = TRUE
INVARIANTS
    HumanArticleWins
