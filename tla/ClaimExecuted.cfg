SPECIFICATION Spec
CONSTANTS
    Accounts = {a1}
    Heirs = {h1, h2}
    Tokens = {native}
    SilentTokens = {}
    Platforms = {p1}
    NoAccount = NoAccount
    NoPlatform = NoPlatform
    BpsTotal = 2
    BeneficiaryTimelock = 1
    MaxRetries = 1
    MinHeartbeat = 1
    MaxDuration = 3
    DriftTolerance = 1
    ShareChoices <- Split
    ProposalChoices <- Split
    AssetChoices <- OnlyNative
    TermChoices <- TightTerm
    DepositChoices = {1}
    FundChoices = {2}
    MoveChoices = {}
    InitialBalance = 2
    Faults = {"transfer"}
    MaxDrift = 0
    MaxTime = 3
    MaxRequestId = 2
    MaxBalance = 2
    h1 = h1
    h2 = h2
    native = native
    token = token
    p1 = p1
    p2 = p2
INVARIANTS
    ExecutedPaysEveryBeneficiary
CHECK_DEADLOCK FALSE
