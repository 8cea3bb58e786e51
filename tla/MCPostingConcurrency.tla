------------------------ MODULE MCPostingConcurrency ------------------------
(***************************************************************************)
(* Plans of concurrent requests for PostingConcurrency.  Vouchers 1 and 2  *)
(* are entered by hand, 3 and 4 are closing vouchers.                      *)
(***************************************************************************)
EXTENDS PostingConcurrency

MCRows    == {1} \X {"cash", "sales", "costs", "profit"}
MCRevenue == {<<1, "sales">>}
MCExpense == {<<1, "costs">>}
MCProfit  == <<<<1, "profit">>>>
MCPeriods == <<1, 1, 1, 1>>

\* A voucher whose lines are the given signed amounts.
Lines(sales, costs) == [r \in MCRows |-> IF r[2] = "sales" THEN sales
                                         ELSE IF r[2] = "costs" THEN costs
                                         ELSE IF r[2] = "cash" THEN -(sales + costs) ELSE 0]

\* Voucher 1 takes back a sale, and its costs; voucher 2 is a sale.
MCAmounts == <<Lines(2, -1), Lines(-5, 0), Lines(0, 0), Lines(0, 0)>>

Do(op, v) == [op |-> op, voucher |-> v]

\* Voucher 1 is posted while 2 is deleted and the month is closed twice.
ClosingJobs   == [a |-> Do("post", 1), b |-> Do("remove", 2),
                  c |-> Do("close", 3), d |-> Do("close", 4)]
ClosingStatus == <<"draft", "posted", "unused", "unused">>

\* Two requests post the same draft.
TwiceJobs   == [a |-> Do("post", 1), b |-> Do("post", 1)]
TwiceStatus == <<"draft", "draft", "unused", "unused">>

\* A voucher of month 1 and one of month 2 are posted on the same accounts.
TwoMonthRows    == (1..2) \X {"cash", "sales", "profit"}
TwoMonthRevenue == {<<1, "sales">>, <<2, "sales">>}
TwoMonthProfit  == <<<<1, "profit">>, <<2, "profit">>>>
TwoMonthPeriods == <<1, 2, 1, 2>>
SaleOf(p, x)    == [r \in TwoMonthRows |-> IF r = <<p, "cash">> THEN x
                                           ELSE IF r = <<p, "sales">> THEN -x ELSE 0]
TwoMonthAmounts == <<SaleOf(1, 5), SaleOf(2, 2), SaleOf(1, 0), SaleOf(2, 0)>>
TwoMonthJobs    == [a |-> Do("post", 1), b |-> Do("post", 2)]
=============================================================================
