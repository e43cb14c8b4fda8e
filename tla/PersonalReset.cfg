SPECIFICATION Spec
CONSTANTS
    Transcript = {t1}
    MaxSegs = 1
    MaxTurns = 2
    Daemon = daemon
    Foreground = {user}
    MaxPerCycle = 1
    MaxCommands = 3
    MaxCrashes = 0
    Exclusive = TRUE
    FaultyReads = FALSE
    CalmBuild = FALSE
PROPERTIES
    PersonalStaysLocal
