SPECIFICATION Spec
CONSTANTS
    Accounts = {a}
    Account = a
    Agents = {g}
    Agent = g
    Hooks = {v}
    Validator = v
    NoCall = NoCall
    NoAgent = NoAgent
    NoHook = NoHook
    NoChat = NoChat
    c1 = c1
    c2 = c2
    o1 = o1
    o2 = o2
    NoOp = NoOp
    Calls = {c1}
    UserOps = {o1, o2}
    CallOf <- SameCall
    Chats = {k1}
    Handlers = {h1, h2}
    ApprovalTtl = 1
    ButtonTtl = 1
    MaxTime = 1
    MaxButtons = 4
INVARIANTS TypeOK OneSubmissionPerButton ExecutionsAreApproved ToldTruly
SYMMETRY Symmetry
CHECK_DEADLOCK FALSE
