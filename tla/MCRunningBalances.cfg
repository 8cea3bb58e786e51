SPECIFICATION Spec
CONSTANTS
    Requests = {"a", "b"}
    Vouchers = {1, 2, 3, 4}
    Closing = {3, 4}
    Rows <- TwoMonthRows
    Revenue <- TwoMonthRevenue
    Expense = {}
    Profit <- TwoMonthProfit
    PeriodOf <- TwoMonthPeriods
    Job <- TwoMonthJobs
    InitialStatus <- TwiceStatus
    InitialAmount <- TwoMonthAmounts
    NoOne = NoOne
INVARIANT RunningIsCumulative
CHECK_DEADLOCK FALSE
