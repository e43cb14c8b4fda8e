SPECIFICATION Spec
CONSTANTS
    None = None
    Areas = {"desk", "update", "insights", "transcripts", "mining"}
    Sessions = {"s1"}
    Content <- MCContent
    Dispatchers = {"w","c"}
    Registered <- MCRegistered
    Cooldown <- MCCooldown
    Threshold = 3
    MaxEvents = 3
    MaxClock = 1
    MaxVersion = 2
    CHECK_INTERVAL = 1
    Local <- MCLocal
    Asked <- MCAsked
    AnswerK = 2
    ClaudeLines <- MCClaudeLines
    CodexLines <- MCCodexLines
    MaxLines = 4
    GAP = 2
    CAP = 3
    Stem = "stem"
    GitRoot <- MCGit
    Configs <- MCConfigs
    Mined <- MCMined
    Alike <- MCAlike
    Clickers = {k1, k2}
    Days = 5
    MaxItems = 4
    MaxRuns = 1
    MaxRestarts = 1
    MaxPurged = 1
    min_cluster_size = 2
    KFloor = 2
    KServer = 3
SYMMETRY Symmetry
INVARIANTS
    DeskHonest
    TranscriptsHonest
    MiningHonest
CHECK_DEADLOCK FALSE
