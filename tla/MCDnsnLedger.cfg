SPECIFICATION FairSpec
CONSTANTS
    Requests = {"a", "b", "c"}
    Vouchers = {1, 2, 3, 4, 5, 6, 7}
    Types = {"s3a", "s3b"}
    Periods = {1, 2, 3}
    Closed = {3}
    Mapped = {"s3a", "s3b"}
    PeriodOf <- MCPeriodOf
    EntryAmount <- MCAmounts
    OldBalance <- MCOldBalance
    Plans <- MCPlans
    InitialStatus <- MCStatus
    NoOne = NoOne
INVARIANTS
    BalanceIsRebuild
    RunningIsCumulative
PROPERTIES
    EveryRequestEnds
    KeepsContract
CHECK_DEADLOCK FALSE
