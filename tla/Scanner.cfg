SPECIFICATION FairSpec
CONSTANTS
    Platforms = {p1, p2}
    NoPlatform = NoPlatform
    BatchChoices = {0, 3, 4}
    DepositChoices = {1, 2}
    OverpayChoices = {1}
    MaxItemsPerScan = 3
    MaxScans = 2
    MaxRequestId = 6
    MaxRebates = 1
INVARIANTS
    TypeOK
    ScansArePaid
    EscrowIsBacked
    RefsAgree
    FanInIsExact
PROPERTIES
    ScansMoveForward
    ScansComplete
CHECK_DEADLOCK FALSE
