SPECIFICATION Spec
CONSTANTS
    Accounts = {a1, a2}
    Calls <- OneRisky
    Agents = {}
    Hooks = {validator}
    NoCall = NoCall
    NoAgent = NoAgent
    NoHook = NoHook
    ApprovalTtl = 1
    MaxTime = 0
    Validator = validator
    Signers = {owner, stranger}
    OwnerOrAdmin <- Owners
    Platforms = {p1, p2}
    NoPlatform = NoPlatform
    NoAccount = NoAccount
    BpsTotal = 2
    ConfigChoices <- On
    AnswerChoices <- AllAnswers
    DepositChoices = {1, 2}
    FundChoices = {1, 2}
    BalanceChoices = {4}
    MaxGrants = 1
    MaxRequestId = 2
    MaxBalance = 2
    a1 = a1
    a2 = a2
    owner = owner
    stranger = stranger
INVARIANTS
    ReviewsAgree
    BudgetsAreBacked
CHECK_DEADLOCK FALSE
SYMMETRY Symmetry
