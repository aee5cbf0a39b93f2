SPECIFICATION Spec
SYMMETRY FullSymmetry
CONSTANTS
    Accounts = {a1, a2}
    Heirs = {h1}
    Tokens = {native}
    SilentTokens = {}
    Platforms = {p1, p2}
    NoAccount = NoAccount
    NoPlatform = NoPlatform
    BpsTotal = 2
    BeneficiaryTimelock = 1
    MaxRetries = 1
    MinHeartbeat = 1
    MaxDuration = 3
    DriftTolerance = 1
    ShareChoices <- Sole
    ProposalChoices = {}
    AssetChoices <- OnlyNative
    TermChoices <- TightTerm
    DepositChoices = {1}
    FundChoices = {1}
    MoveChoices = {}
    InitialBalance = 0
    Faults = {}
    MaxDrift = 0
    MaxTime = 2
    MaxRequestId = 2
    MaxBalance = 1
    h1 = h1
    h2 = h2
    native = native
    token = token
    p1 = p1
    p2 = p2
INVARIANTS
    RequestsAgree
CHECK_DEADLOCK FALSE
