SPECIFICATION Spec
CONSTANTS
    Transcript = {t1}
    MaxSegs = 1
    MaxTurns = 2
    Daemon = daemon
    Foreground = {user}
    MaxPerCycle = 1
    MaxCommands = 3
    MaxCrashes = 1
    Exclusive = TRUE
    FaultyReads = TRUE
    CalmBuild = FALSE
INVARIANTS
    TypeOK
    WatermarkHonest
    RawCoversDigest
    SeenIsCaptured
PROPERTIES
    HeldStaysLocal
    PersonalRowStaysLocal
