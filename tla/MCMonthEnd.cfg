SPECIFICATION Spec
CONSTANTS
    Requests = {"r1", "r2", "r3", "r4", "r5"}
    Assets = {1, 2}
    Days = {1, 2, 3}
    Alone = {"dispose", "payroll"}
    Cost <- MCCost
    Monthly <- MCMonthly
    AccountOf <- MCAccounts
    MonthOf <- MCMonthOf
    DueDays <- MCDueDays
    Salaries <- MCSalaries
    Plans <- MCPlans
INVARIANTS
    RowsAddUp
    BooksFollowRegister
    PostedRunIsBooked
    PostedBatchIsComplete
    
CHECK_DEADLOCK FALSE
