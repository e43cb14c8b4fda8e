SPECIFICATION Spec
CONSTANTS
    None = None
    Areas = {"accounts", "pages", "ledger", "rate", "access"}
    Person = {p1, p2, p3}
    Public = p3
    Domain = {d}
    Code = {c}
    DomainOf <- MCDomainOf
    Threads = {t1}
    MaxOrgIdAttempts = 2
    INVITE_USES = 2
    MaxRequests = 6
    MaxCrashes = 1
    Tokens <- MCTokens
    Codes = {k}
    MemberOf <- MCMemberOf
    SHARED_USES = 2
    privacy_mode = "k_anon"
    MaxActs = 2
    MaxVisits = 1
    Exclusive = TRUE
    Careful = TRUE
    Digests <- MCDigests
    NoteRows <- MCNoteRows
    Specs <- MCSpecs
    Now = 100
    HOME_WINDOW_DAYS = 7
    PROJECT_WINDOW_DAYS = 14
    STALE_AFTER_DAYS = 14
    PAGE = 2
    RELATED = 1
    K_ANON_FLOOR = 2
    NOTES_SUFFICIENT = 1
    PER_ACTOR_DRILL = 1
    DRILL_K = 2
    Mentions <- MCMentions
    MaxQuestions = 1
    MaxPurges = 1
    Callers = {c1, c2}
    Providers = {"openai"}
    llm_monthly_cap = 1
    Quotas = {0, 2}
    retries = 1
    MaxCost = 2
    MaxCalls = 2
    LIMIT = 2
    WINDOW = 2
    MaxClock = 5
SYMMETRY Symmetry
INVARIANTS
    FoundersWereMade
    InviteNotReplayed
    MembersAgree
    DeletedLeavesNothing
    SurfacesAgree
    AnswersHonest
    ReadersSeeAll
    LedgerHonest
CHECK_DEADLOCK FALSE
