SPECIFICATION Spec
CONSTANTS
    Requests = {"a", "b"}
    Vouchers = {1, 2, 3, 4}
    Closing = {3, 4}
    Rows <- MCRows
    Revenue <- MCRevenue
    Expense <- MCExpense
    Profit <- MCProfit
    PeriodOf <- MCPeriods
    Job <- TwiceJobs
    InitialStatus <- TwiceStatus
    InitialAmount <- MCAmounts
    NoOne = NoOne
INVARIANT CommittedIsProjection
CHECK_DEADLOCK FALSE
