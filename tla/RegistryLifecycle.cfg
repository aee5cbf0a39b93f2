SPECIFICATION Spec
CONSTANTS
    Accounts = {a1}
    Heirs = {h1, h2}
    Tokens = {native}
    SilentTokens = {}
    Platforms = {p1}
    NoAccount = NoAccount
    NoPlatform = NoPlatform
    BpsTotal = 2
    BeneficiaryTimelock = 1
    MaxRetries = 1
    MinHeartbeat = 1
    MaxDuration = 3
    DriftTolerance = 1
    ShareChoices <- SplitOrSole
    ProposalChoices <- SplitOrSole
    AssetChoices <- OnlyNative
    TermChoices <- ShortTerms
    DepositChoices = {1}
    FundChoices = {2}
    MoveChoices = {1}
    InitialBalance = 2
    Faults = {"event", "transfer"}
    MaxDrift = 0
    MaxTime = 4
    MaxRequestId = 2
    MaxBalance = 3
    h1 = h1
    h2 = h2
    native = native
    token = token
    p1 = p1
    p2 = p2
INVARIANTS
    TypeOK
    ProgressFollowsPlan
    PaidWithinSnapshot
    ExecutedMeansPaid
    RetriesBounded
    NothingPaidInGrace
PROPERTIES
    DistributionFixesPlan
    KeepsPromise
ACTION_CONSTRAINT OneTopic
CHECK_DEADLOCK FALSE
