----------------------------- MODULE MCMonthEnd -----------------------------
(***************************************************************************)
(* Plans for MonthEnd.  Days 1 and 2 are of month 1, day 3 of month 2.     *)
(* Asset 1 is fully depreciated in its second month, asset 2 in its first. *)
(* Runs of different months, disposals and payrolls do not overlap: they   *)
(* would lose updates.                                                     *)
(***************************************************************************)
EXTENDS MonthEnd

MCCost     == <<5, 3>>
MCMonthly  == <<3, 4>>
MCAccounts == <<"2141", "2142">>
MCMonthOf  == <<1, 1, 2>>
MCDueDays  == [depreciation |-> {1, 3}, payroll |-> {2, 3}, closing |-> {2, 3}]
MCSalaries == [old |-> 10, new |-> 11]

Of(op, a) == [op |-> op, asset |-> a]
In(op, m) == [op |-> op, month |-> m]
Only(op)  == [op |-> op]
Plan(a, b, c, d, e) == [r1 |-> a, r2 |-> b, r3 |-> c, r4 |-> d, r5 |-> e]

MCPlans == {
    \* two runs of one month overlap, an asset joins, the month is closed
    Plan(Of("add", 1), In("depreciate", 1), In("depreciate", 1), Of("add", 2), In("close", 1)),
    \* the scheduler is triggered three times, on any day; assets join between
    Plan(Of("add", 1), Only("runDue"), Only("runDue"), Only("runDue"), Of("add", 2)),
    \* an asset is disposed of between the scheduler's runs
    Plan(Of("add", 1), Of("dispose", 1), Only("runDue"), Only("runDue"), Of("add", 2)),
    \* payroll is calculated, posted and tried again after a hiring
    Plan(In("calculate", 1), In("payroll", 1), In("payroll", 1), Only("hire"), In("close", 1)),
    \* revaluations of one month and of two
    Plan(In("revalue", 1), In("revalue", 1), In("revalue", 2), In("payroll", 2), Only("runDue")) }

MCRerun == {Plan(Of("add", 1), In("depreciate", 1), Of("add", 2), In("depreciate", 1),
                 Only("hire"))}
=============================================================================
