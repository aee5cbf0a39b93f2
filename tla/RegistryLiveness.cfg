SPECIFICATION FairSpec
CONSTANTS
    Accounts = {a1}
    Heirs = {h1, h2}
    Tokens = {native}
    SilentTokens = {}
    Platforms = {}
    NoAccount = NoAccount
    NoPlatform = NoPlatform
    BpsTotal = 2
    BeneficiaryTimelock = 1
    MaxRetries = 2
    MinHeartbeat = 1
    MaxDuration = 3
    DriftTolerance = 1
    ShareChoices <- SplitOrSole
    ProposalChoices = {}
    AssetChoices <- OnlyNative
    TermChoices <- ShortTerms
    DepositChoices = {1}
    FundChoices = {}
    MoveChoices = {1}
    InitialBalance = 2
    Faults = {}
    MaxDrift = 0
    MaxTime = 4
    MaxRequestId = 0
    MaxBalance = 3
    h1 = h1
    h2 = h2
    native = native
    token = token
    p1 = p1
    p2 = p2
PROPERTIES
    SilentPlanPaysOut
CHECK_DEADLOCK FALSE
