SPECIFICATION Spec
CONSTANTS
    Accounts = {a1}
    Calls <- TwoRisky
    Agents = {agent}
    Hooks = {validator, hook}
    NoCall = NoCall
    NoAgent = NoAgent
    NoHook = NoHook
    ApprovalTtl = 1
    MaxTime = 2
    Validator = validator
    Signers = {owner, stranger}
    OwnerOrAdmin <- Owners
    Platforms = {p1}
    NoPlatform = NoPlatform
    NoAccount = NoAccount
    BpsTotal = 2
    ConfigChoices <- Percent
    AnswerChoices <- YesOrNo
    DepositChoices = {1}
    FundChoices = {2}
    BalanceChoices = {2, 4}
    MaxGrants = 2
    MaxRequestId = 2
    MaxBalance = 2
    a1 = a1
    a2 = a2
    owner = owner
    stranger = stranger
INVARIANTS
    TypeOK
    PassesAreGranted
    ApprovalsAreFresh
PROPERTIES
    PassesAreFresh
    KeepsGuard
CHECK_DEADLOCK FALSE
