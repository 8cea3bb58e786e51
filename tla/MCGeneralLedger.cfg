SPECIFICATION Spec
CONSTANTS
    MaxVoucher = 3
    Periods = {1, 2}
    Accounts <- MCAccounts
    RevenueAccounts = {"511", "515"}
    ExpenseAccounts = {"642"}
    ResultAccount = "911"
    ProfitAccount = "421"
    InitialChart = {"111", "511", "642", "911", "421"}
    Objects = {"", "KH1"}
    NoObject = ""
    Days = {30}
    Documents <- MCDocuments
    Renames <- MCRenames
    Tolerance = 1
INVARIANTS
    TypeOK
    BalanceIsProjection
    RunningIsCumulative
    TrialBalanceWithinTolerance
    AtMostOneClosing
PROPERTIES
    ClosedPeriodGainsNothing
    ClosingTransfersResult
CHECK_DEADLOCK FALSE
