SPECIFICATION Spec
CONSTANTS
    Transcript = {t1}
    MaxSegs = 1
    MaxTurns = 2
    Daemon = daemon
    Foreground = {user}
    MaxPerCycle = 1
    MaxCommands = 2
    MaxCrashes = 0
    Exclusive = FALSE
    FaultyReads = FALSE
    CalmBuild = FALSE
PROPERTIES
    HoldSurvivesCompaction
