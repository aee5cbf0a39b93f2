SPECIFICATION Spec
CONSTANTS
    Accounts = {a1, a2}
    Calls <- OneRisky
    Agents = {}
    Hooks = {validator}
    NoCall = NoCall
    NoAgent = NoAgent
    NoHook = NoHook
    ApprovalTtl = 1
    MaxTime = 0
    Validator = validator
    Signers = {owner, stranger}
    OwnerOrAdmin <- Owners
    Platforms = {p1, p2}
    NoPlatform = NoPlatform
    NoAccount = NoAccount
    BpsTotal = 2
    ConfigChoices <- On
    AnswerChoices <- YesOrNo
    DepositChoices = {1}
    FundChoices = {1}
    BalanceChoices = {4}
    MaxGrants = 1
    MaxRequestId = 1
    MaxBalance = 2
    a1 = a1
    a2 = a2
    owner = owner
    stranger = stranger
PROPERTIES
    AnswerDecidesItsOwnCall
CHECK_DEADLOCK FALSE
