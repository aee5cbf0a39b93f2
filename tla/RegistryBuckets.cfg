SPECIFICATION Spec
CONSTANTS
    Accounts = {a1, a2}
    Heirs = {h1}
    Tokens = {native}
    SilentTokens = {}
    Platforms = {}
    NoAccount = NoAccount
    NoPlatform = NoPlatform
    BpsTotal = 2
    BeneficiaryTimelock = 2
    MaxRetries = 2
    MinHeartbeat = 1
    MaxDuration = 3
    DriftTolerance = 1
    ShareChoices <- Sole
    ProposalChoices = {}
    AssetChoices <- OnlyNative
    TermChoices <- LongAndShort
    DepositChoices = {1}
    FundChoices = {}
    MoveChoices = {}
    InitialBalance = 1
    Faults = {"subscribe", "event"}
    MaxDrift = 1
    MaxTime = 4
    MaxRequestId = 0
    MaxBalance = 1
    h1 = h1
    h2 = h2
    native = native
    token = token
    p1 = p1
    p2 = p2
INVARIANTS
    ScheduleIsCurrent
PROPERTIES
    PunctualEventReachesAll
CHECK_DEADLOCK FALSE
SYMMETRY Symmetry
