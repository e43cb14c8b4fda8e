SPECIFICATION FairSpec
CONSTANTS
    Transcript = {t1}
    MaxSegs = 2
    MaxTurns = 2
    Daemon = daemon
    Foreground = {}
    MaxPerCycle = 1
    MaxCommands = 0
    MaxCrashes = 1
    Exclusive = FALSE
    FaultyReads = FALSE
    CalmBuild = TRUE
INVARIANTS
    UpToDateTestSound
PROPERTIES
    EventuallyDelivered
