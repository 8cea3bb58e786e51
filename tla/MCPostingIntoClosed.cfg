SPECIFICATION Spec
CONSTANTS
    Requests = {"a", "b", "c", "d"}
    Vouchers = {1, 2, 3, 4}
    Closing = {3, 4}
    Rows <- MCRows
    Revenue <- MCRevenue
    Expense <- MCExpense
    Profit <- MCProfit
    PeriodOf <- MCPeriods
    Job <- ClosingJobs
    InitialStatus <- ClosingStatus
    InitialAmount <- MCAmounts
    NoOne = NoOne
PROPERTY NothingPostedIntoClosed
CHECK_DEADLOCK FALSE
