SPECIFICATION Spec
CONSTANTS
    Parts = {"approvals"}
    DRequests = {"c1", "c2", "c3"}
    DWorkers = {"w1", "w2"}
    DPlans <- MCDPlans
    DMaxAttempts = 2
    DMaxFaults = 2
    DNoTask = "none"
    AClients = {"c1", "c2", "c3", "c4"}
    AChain <- MCAChain
    ARolesOf <- MCARolesOf
    APlans <- MCAPlans
    AMaxDeaths = 0
    SRequests = {"c1", "c2", "c3"}
    SWarehouses = {"A", "B"}
    SPlans <- MCSPlans
    IRequests = {"r1", "r2", "r3", "r4", "r5"}
    IInvoices = {1, 2, 3}
    INumberOf <- MCINumberOf
    IPlans <- MCIPlans
    IOverlap = FALSE
    YAccounts = {"111", "131", "511"}
    YProfit = {"511"}
    YObjects = {"", "an", "binh"}
    YYears = {1, 2}
    YMonths = {11, 12}
    YVouchers = {1, 2, 3, 4, 5}
    YDoc <- MCYDoc
    BRequests = {"b1", "b2", "b3"}
    BStatement = {1, 2, 3}
    BUnreadable = {2}
    BCandidates <- MCBCandidates
    BPlans <- MCBPlans
    BMaxDeaths = 1
    WRequests = {"k1", "k2", "k3"}
    WSources = {"law", "memo"}
    WFiles = {"law"}
    WConcepts = {"vat", "pit"}
    WAnswers <- MCWAnswers
    WPlans <- MCWPlans
    WPast = {"past"}
    ERequests = {"e1", "e2", "e3", "e4", "e5"}
    EPlans <- MCEPlans
    ELastMonth = 2
INVARIANT RejectionBlocks
CHECK_DEADLOCK FALSE
