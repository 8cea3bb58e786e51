--------------------------- MODULE GeneralLedger ---------------------------
(***************************************************************************)
(* The general ledger of one company and one fiscal year: accounting       *)
(* vouchers, their lines, the AccountPeriodBalance projection kept beside  *)
(* them and the running balance stored on every line.                      *)
(*                                                                         *)
(* Each action is one HTTP handler, executed as the handler executes it:   *)
(* a handler that runs two database transactions is two actions, `owed`    *)
(* says what the second one is, and the process may die between them       *)
(* (Crash).  Handlers do not interleave here; PostingConcurrency lifts     *)
(* that restriction.                                                       *)
(***************************************************************************)
EXTENDS Integers, Sequences, FiniteSets, Functions, SequencesExt

CONSTANTS
    MaxVoucher,       \* bound: how many voucher ids are ever allocated
    Periods,          \* accounting periods (months)
    Accounts,         \* account codes
    RevenueAccounts,  \* codes with a REVENUE_PREFIXES prefix (5, 7)
    ExpenseAccounts,  \* codes with an EXPENSE_PREFIXES prefix (6, 8)
    ResultAccount,    \* RESULT_ACCOUNT, 911
    ProfitAccount,    \* PROFIT_ACCOUNT, 421
    InitialChart,     \* codes of the chart of accounts at the start
    Objects,          \* object codes (customer, vendor, ...)
    NoObject,         \* the empty object code ""
    Days,             \* days of the month a document may carry
    Documents,        \* what users key in: sequences of lines
    Renames,          \* pairs of codes an account may be changed from and to
    Tolerance         \* BALANCE_TOLERANCE, in units of the smallest amount

ClosingDay == 28      \* voucher_date of a closing voucher

Line == [account : Accounts, object : Objects, debit : Int, credit : Int]

ASSUME MaxVoucherAssumption == MaxVoucher \in Nat
ASSUME PeriodAssumption == Periods # {} /\ Periods \subseteq 1..12
ASSUME AccountAssumption ==
    /\ IsFiniteSet(Accounts)
    /\ RevenueAccounts \subseteq Accounts
    /\ ExpenseAccounts \subseteq Accounts
    /\ RevenueAccounts \cap ExpenseAccounts = {}
    /\ {ResultAccount, ProfitAccount} \subseteq
           Accounts \ (RevenueAccounts \cup ExpenseAccounts)
    /\ ResultAccount # ProfitAccount
    /\ InitialChart \subseteq Accounts
ASSUME ObjectAssumption == IsFiniteSet(Objects) /\ NoObject \in Objects
ASSUME DocumentAssumption == Days \subseteq 1..31 /\ Documents \subseteq Seq(Line)
ASSUME RenameAssumption == Renames \subseteq Accounts \X Accounts
ASSUME ToleranceAssumption == Tolerance \in Nat

Vouchers == 1..MaxVoucher
Rows     == Periods \X Accounts \X Objects

VARIABLES
    status,    \* voucher id -> where the voucher is in its life
    header,    \* voucher id -> period, day of the month, source
    lines,     \* voucher id -> its voucher_line rows, in line_no order
    running,   \* voucher id -> running_balance_* of its lines
    rows,      \* the account_period_balance rows that exist
    balance,   \* their period_debit, period_credit, transaction_count
    chart,     \* the codes of the chart of accounts
    owed,      \* what the running handler has still to do
    unswept    \* history: codes renamed to whose recomputation a Crash lost

vars == <<status, header, lines, running, rows, balance, chart, owed, unswept>>

Statuses == {"unused", "draft", "posted", "deleted"}
Sources  == {"manual", "closing"}

\* The second transaction of a handler, and the voucher or code it is about.
None         == [task |-> "none"]
Finish(v)    == [task |-> "post", voucher |-> v]
Drop(v)      == [task |-> "delete", voucher |-> v]
Sweep(a)     == [task |-> "recompute", account |-> a]
Tasks        == {None} \cup {Finish(v) : v \in Vouchers} \cup {Drop(v) : v \in Vouchers}
                       \cup {Sweep(a) : a \in Accounts}

Header == [period : Periods, day : 1..31, source : Sources]
NoHeader == [period |-> CHOOSE p \in Periods : TRUE, day |-> 1, source |-> "manual"]

Entry  == [debit : Int, credit : Int, count : Nat]
Total  == [debit : Int, credit : Int]
Zero   == [debit |-> 0, credit |-> 0]

(***************************************************************************)
(* Lines and the balance rows they hit.                                    *)
(***************************************************************************)

\* Sums are over the line numbers (or vouchers, or rows) of a finite set.
Sum(f, S) == SumFunctionOnSet(f, S)

Debits(ls)  == [i \in DOMAIN ls |-> ls[i].debit]
Credits(ls) == [i \in DOMAIN ls |-> ls[i].credit]

\* Line numbers of ls, a voucher of period p, that are kept on row r.
Hits(p, ls, r) == {i \in DOMAIN ls : <<p, ls[i].account, ls[i].object>> = r}

Movement(p, ls, r) ==
    [debit  |-> Sum(Debits(ls), Hits(p, ls, r)),
     credit |-> Sum(Credits(ls), Hits(p, ls, r)),
     count  |-> Cardinality(Hits(p, ls, r))]

Touched(p, ls) == {<<p, ls[i].account, ls[i].object>> : i \in DOMAIN ls}
CodesDebited(ls) == {ls[i].account : i \in {j \in DOMAIN ls : ls[j].debit # 0}}  \* mutant
Codes(ls)      == {ls[i].account : i \in DOMAIN ls}

\* _update_balances with sign = +1: every line is added to its row.
Added(bal, p, ls) ==
    [r \in Rows |-> LET m == Movement(p, ls, r) IN
        [debit  |-> bal[r].debit + m.debit,
         credit |-> bal[r].credit + m.credit,
         count  |-> bal[r].count + m.count]]

\* Mutant: no floor under a count that is taken down by debit and by credit.
RemovedTwice(bal, p, ls) ==
    [r \in Rows |-> LET m == Movement(p, ls, r) IN
        [debit  |-> bal[r].debit - m.debit,
         credit |-> bal[r].credit - m.credit,
         count  |-> bal[r].count - 2 * m.count]]

\* _update_balances with sign = -1; transaction_count stops at zero.
Removed(bal, p, ls) ==
    [r \in Rows |-> LET m == Movement(p, ls, r) IN
        [debit  |-> bal[r].debit - m.debit,
         credit |-> bal[r].credit - m.credit,
         count  |-> IF bal[r].count > m.count THEN bal[r].count - m.count ELSE 0]]

\* _validate_balanced
Balanced(ls) ==
    LET diff == Sum(Debits(ls), DOMAIN ls) - Sum(Credits(ls), DOMAIN ls)
    IN  diff \in -Tolerance..Tolerance

(***************************************************************************)
(* Running balances.  Lines are ordered by voucher date, voucher id and    *)
(* line_no; only posted vouchers take part.                                *)
(***************************************************************************)
Before(hd, v, i, w, j) ==
    LET dateV == 31 * hd[v].period + hd[v].day
        dateW == 31 * hd[w].period + hd[w].day
    IN  \/ dateV < dateW
        \/ dateV = dateW /\ v < w
        \/ v = w /\ i <= j

PostedLines(st, ls) == UNION {{v} \X DOMAIN ls[v] : v \in {w \in Vouchers : st[w] = "posted"}}

\* The total of the posted lines of an account up to line i of voucher v.
Cumulative(st, hd, ls, v, i) ==
    LET upTo == {x \in PostedLines(st, ls) :
                    /\ ls[x[1]][x[2]].account = ls[v][i].account
                    /\ Before(hd, x[1], x[2], v, i)}
    IN  [debit  |-> Sum([x \in upTo |-> ls[x[1]][x[2]].debit], upTo),
         credit |-> Sum([x \in upTo |-> ls[x[1]][x[2]].credit], upTo)]

\* _recompute_running_balances_for_codes
Recomputed(run, codes, st, hd, ls) ==
    [v \in Vouchers |-> [i \in DOMAIN ls[v] |->
        IF st[v] = "posted" /\ ls[v][i].account \in codes
        THEN Cumulative(st, hd, ls, v, i)
        ELSE run[v][i]]]

(***************************************************************************)
(* State functions the handlers read.                                      *)
(***************************************************************************)
InUse         == {v \in Vouchers : status[v] \in {"draft", "posted"}}
Posted        == {v \in Vouchers : status[v] = "posted"}
PostedIn(p)   == {v \in Posted : header[v].period = p}

\* Vouchers with source = 'closing' of period p, whatever their status.
ClosingOf(p)  == {v \in InUse : header[v].period = p /\ header[v].source = "closing"}

\* Mutant: a closing voucher left behind as a draft does not count.
PeriodOpenUnlessPosted(v) ==
    {w \in ClosingOf(header[v].period) : status[w] = "posted"} \subseteq {v}

\* _check_period_open: another closing voucher exists for the period.
PeriodOpen(v) == ClosingOf(header[v].period) \subseteq {v}

Idle == owed = None

\* Ids are handed out in increasing order and never reused.
IsNextId(v) == status[v] = "unused" /\ \A w \in Vouchers : status[w] = "unused" => v <= w

Init ==
    /\ status  = [v \in Vouchers |-> "unused"]
    /\ header  = [v \in Vouchers |-> NoHeader]
    /\ lines   = [v \in Vouchers |-> << >>]
    /\ running = [v \in Vouchers |-> << >>]
    /\ rows    = {}
    /\ balance = [r \in Rows |-> [debit |-> 0, credit |-> 0, count |-> 0]]
    /\ chart   = InitialChart
    /\ owed    = None
    /\ unswept = {}

(***************************************************************************)
(* Posting and unposting, one transaction each.  A voucher already posted, *)
(* a closed period or an imbalance changes nothing; unposting does not ask *)
(* whether the period is closed.                                           *)
(***************************************************************************)
PostableAgain(v)     == PeriodOpen(v) /\ Balanced(lines[v])         \* mutant
PostableUnchecked(v) == status[v] = "draft" /\ PeriodOpen(v)        \* mutant
Postable(v) == status[v] = "draft" /\ PeriodOpen(v) /\ Balanced(lines[v])

Post(v) ==
    LET p == header[v].period IN
    /\ Postable(v)
    /\ status'  = [status EXCEPT ![v] = "posted"]
    /\ rows'    = rows \cup Touched(p, lines[v])
    /\ balance' = Added(balance, p, lines[v])
    /\ running' = Recomputed(running, Codes(lines[v]), status', header, lines)
    /\ unswept' = unswept \ Codes(lines[v])
    /\ UNCHANGED <<header, lines, chart>>

Unpost(v) ==
    LET p       == header[v].period
        cleared == [running EXCEPT ![v] = [i \in DOMAIN lines[v] |-> Zero]]
    IN
    /\ status[v] = "posted"
    /\ status'  = [status EXCEPT ![v] = "draft"]
    /\ rows'    = rows \cup Touched(p, lines[v])
    /\ balance' = Removed(balance, p, lines[v])
    /\ running' = Recomputed(cleared, Codes(lines[v]), status', header, lines)
    /\ unswept' = unswept \ Codes(lines[v])
    /\ UNCHANGED <<header, lines, chart>>

(***************************************************************************)
(* Entering a voucher: the form refuses an unbalanced document; the header *)
(* row and the lines are separate inserts with no enclosing transaction,   *)
(* so a handler that dies leaves the first n lines; one that does not goes *)
(* on to post the voucher, and keeps the draft when that is refused.       *)
(***************************************************************************)
CreateVoucher(v, p, day, doc, n) ==
    /\ Idle
    /\ IsNextId(v)
    /\ Balanced(doc)
    /\ status'  = [status EXCEPT ![v] = "draft"]
    /\ header'  = [header EXCEPT ![v] = [period |-> p, day |-> day, source |-> "manual"]]
    /\ lines'   = [lines EXCEPT ![v] = SubSeq(doc, 1, n)]
    /\ running' = [running EXCEPT ![v] = [i \in 1..n |-> Zero]]
    /\ owed'    = IF n = Len(doc) THEN Finish(v) ELSE None
    /\ UNCHANGED <<rows, balance, chart, unswept>>

FinishEntry(v) ==
    /\ owed = Finish(v)
    /\ owed' = None
    /\ \/ Post(v)
       \/ ~Postable(v) /\ UNCHANGED <<status, header, lines, running, rows, balance, chart, unswept>>

\* The API posts any voucher it is given.
PostVoucher(v) == Idle /\ Post(v) /\ UNCHANGED owed

\* DELETE of a voucher; its lines go with it (ON DELETE CASCADE).
Erase(v) ==
    /\ status'  = [status EXCEPT ![v] = "deleted"]
    /\ lines'   = [lines EXCEPT ![v] = << >>]
    /\ running' = [running EXCEPT ![v] = << >>]
    /\ header'  = [header EXCEPT ![v] = NoHeader]
    /\ UNCHANGED <<rows, balance, chart, unswept>>

\* VoucherDeleteView and PeriodReopenView remove a voucher alike: a posted
\* one is unposted in a transaction of its own and deleted afterwards.
RemoveVoucher(v) ==
    \/ Unpost(v) /\ owed' = Drop(v)
    \/ status[v] = "draft" /\ Erase(v) /\ UNCHANGED owed

DeleteVoucher(v)  == Idle /\ RemoveVoucher(v)
ReopenPeriod(p)   == Idle /\ \E v \in ClosingOf(p) : RemoveVoucher(v)
FinishRemoval(v)  == owed = Drop(v) /\ Erase(v) /\ owed' = None

(***************************************************************************)
(* Closing a period.  Each income row with a credit net and each expense   *)
(* row with a debit net is emptied on its account (without an object);     *)
(* the difference goes through 911 to 421.                                 *)
(***************************************************************************)
Net(r) == balance[r].debit - balance[r].credit

ClosedRevenueOfYear(p) == {r \in rows : r[2] \in RevenueAccounts /\ Net(r) < 0}  \* mutant
ClosedRevenue(p) == {r \in rows : r[1] = p /\ r[2] \in RevenueAccounts /\ Net(r) < 0}
ClosedExpense(p) == {r \in rows : r[1] = p /\ r[2] \in ExpenseAccounts /\ Net(r) > 0}

DebitLine(a, x)  == [account |-> a, object |-> NoObject, debit |-> x, credit |-> 0]
CreditLine(a, x) == [account |-> a, object |-> NoObject, debit |-> 0, credit |-> x]

ClosingLines(p) ==
    LET revenue == SetToSeq(ClosedRevenue(p))
        expense == SetToSeq(ClosedExpense(p))
        earned  == 0 - Sum([r \in ClosedRevenue(p) |-> Net(r)], ClosedRevenue(p))
        spent   == Sum([r \in ClosedExpense(p) |-> Net(r)], ClosedExpense(p))
        profit  == earned - spent
    IN     [i \in DOMAIN revenue |-> DebitLine(revenue[i][2], 0 - Net(revenue[i]))]
        \o (IF earned > 0 THEN <<CreditLine(ResultAccount, earned)>> ELSE << >>)
        \o (IF spent > 0 THEN <<DebitLine(ResultAccount, spent)>> ELSE << >>)
        \o [i \in DOMAIN expense |-> CreditLine(expense[i][2], Net(expense[i]))]
        \o (IF profit > 0 THEN <<DebitLine(ResultAccount, profit),
                                 CreditLine(ProfitAccount, profit)>> ELSE << >>)
        \o (IF profit < 0 THEN <<DebitLine(ProfitAccount, 0 - profit),
                                 CreditLine(ResultAccount, 0 - profit)>> ELSE << >>)

\* The test that makes closing idempotent: the source, whatever the status.
ClosingPosted(p) == \E v \in ClosingOf(p) : status[v] = "posted"  \* mutant
ClosingExists(p) == ClosingOf(p) # {}

\* close_period: one transaction that creates the closing voucher and posts it.
ClosePeriod(v, p) ==
    LET ls == ClosingLines(p) IN
    /\ Idle
    /\ IsNextId(v)
    /\ ~ClosingExists(p)
    /\ ls # << >>
    /\ Balanced(ls)
    /\ status'  = [status EXCEPT ![v] = "posted"]
    /\ header'  = [header EXCEPT ![v] =
                      [period |-> p, day |-> ClosingDay, source |-> "closing"]]
    /\ lines'   = [lines EXCEPT ![v] = ls]
    /\ rows'    = rows \cup Touched(p, ls)
    /\ balance' = Added(balance, p, ls)
    /\ running' = Recomputed([running EXCEPT ![v] = [i \in DOMAIN ls |-> Zero]],
                             Codes(ls), status', header', lines')
    /\ unswept' = unswept \ Codes(ls)
    /\ UNCHANGED <<chart, owed>>

(***************************************************************************)
(* Changing an account code cascades to the voucher lines and the balance  *)
(* rows; lines may carry the new code already, the chart does not.  A      *)
(* balance row of the new code in the same period and for the same object  *)
(* violates the unique key and rolls everything back.  The running         *)
(* balances of the new code are recomputed afterwards.                     *)
(***************************************************************************)
ChangeAccountCode(a, b) ==
    LET renamed(c) == IF c = a THEN b ELSE c
        moved == [v \in Vouchers |-> [i \in DOMAIN lines[v] |->
                     [lines[v][i] EXCEPT !.account = renamed(@)]]]
        clash(p, o) == {<<p, a, o>>, <<p, b, o>>} \subseteq rows
        empty == [debit |-> 0, credit |-> 0, count |-> 0]
    IN
    /\ Idle
    /\ a \in chart
    /\ b \notin chart
    /\ \A p \in Periods, o \in Objects : ~clash(p, o)
    /\ chart'   = (chart \ {a}) \cup {b}
    /\ lines'   = moved
    /\ rows'    = {<<r[1], renamed(r[2]), r[3]>> : r \in rows}
    /\ balance' = [r \in Rows |->
                      IF r[2] = b /\ <<r[1], a, r[3]>> \in rows THEN balance[<<r[1], a, r[3]>>]
                      ELSE IF r[2] = a THEN empty
                      ELSE balance[r]]
    /\ owed'    = Sweep(b)
    /\ UNCHANGED <<status, header, running, unswept>>

FinishRename(a) ==
    /\ owed = Sweep(a)
    /\ owed' = None
    /\ running' = Recomputed(running, {a}, status, header, lines)
    /\ unswept' = unswept \ {a}
    /\ UNCHANGED <<status, header, lines, rows, balance, chart>>

\* The worker dies between the two transactions of a handler.
Crash ==
    /\ ~Idle
    /\ owed' = None
    /\ unswept' = unswept \cup {a \in Accounts : owed = Sweep(a)}
    /\ UNCHANGED <<status, header, lines, running, rows, balance, chart>>

Next ==
    \/ \E v \in Vouchers, p \in Periods, day \in Days, doc \in Documents :
           \E n \in 0..Len(doc) : CreateVoucher(v, p, day, doc, n)
    \/ \E v \in Vouchers : FinishEntry(v)
    \/ \E v \in Vouchers : PostVoucher(v)
    \/ \E v \in Vouchers : DeleteVoucher(v)
    \/ \E p \in Periods : ReopenPeriod(p)
    \/ \E v \in Vouchers : FinishRemoval(v)
    \/ \E v \in Vouchers, p \in Periods : ClosePeriod(v, p)
    \/ \E ab \in Renames : ChangeAccountCode(ab[1], ab[2])
    \/ \E a \in Accounts : FinishRename(a)
    \/ Crash

Spec == Init /\ [][Next]_vars

-----------------------------------------------------------------------------
(***************************************************************************)
(* Properties                                                              *)
(***************************************************************************)

\* Types of all variables; lines and running balances stay paired.
TypeOK ==
    /\ status \in [Vouchers -> Statuses]
    /\ header \in [Vouchers -> Header]
    /\ lines \in [Vouchers -> Seq(Line)]
    /\ running \in [Vouchers -> Seq(Total)]
    /\ \A v \in Vouchers : DOMAIN running[v] = DOMAIN lines[v]
    /\ rows \subseteq Rows
    /\ balance \in [Rows -> Entry]
    /\ chart \subseteq Accounts
    /\ owed \in Tasks
    /\ unswept \subseteq Accounts

\* What a rebuild from the voucher_line table would put on row r.
Projected(r) ==
    LET on(v) == Movement(header[v].period, lines[v], r)
    IN  [debit  |-> Sum([v \in Posted |-> on(v).debit], Posted),
         credit |-> Sum([v \in Posted |-> on(v).credit], Posted),
         count  |-> Sum([v \in Posted |-> on(v).count], Posted)]

\* AccountPeriodBalance is "rebuildable from voucher_line" (balance.py): on
\* every row the movements and transaction_count are those of the posted
\* vouchers, whatever was posted, unposted, closed, reopened or renamed and
\* wherever a handler died.
BalanceIsProjection == \A r \in Rows : balance[r] = Projected(r)

\* Rows are created by the first posting: posted lines are on existing rows.
PostedRowsExist == \A v \in Posted : Touched(header[v].period, lines[v]) \subseteq rows

\* Every posted line shows the cumulative total of its account up to it in
\* (date, id, line_no) order, although each post recomputes only the accounts
\* of its own voucher, and the lines of a draft show zero.  Only a rename that
\* has not been followed by its recomputation leaves an account behind.
Stale == unswept \cup {a \in Accounts : owed = Sweep(a)}
RunningIsCumulative ==
    \A v \in InUse : \A i \in DOMAIN lines[v] :
        IF v \in Posted
        THEN lines[v][i].account \in Stale
                \/ running[v][i] = Cumulative(status, header, lines, v, i)
        ELSE running[v][i] = Zero

RowsOf(p, A)    == {r \in Rows : r[1] = p /\ r[2] \in A}
NetOf(p, A)     == Sum([r \in Rows |-> Net(r)], RowsOf(p, A))

\* The trial balance of a period is off by no more than the tolerance per
\* voucher posted by hand: closing vouchers and half-entered drafts add none.
TrialBalanceWithinTolerance ==
    \A p \in Periods :
        LET byHand == {v \in PostedIn(p) : header[v].source = "manual"}
            drift  == Tolerance * Cardinality(byHand)
        IN  NetOf(p, Accounts) \in -drift..drift

\* A period never has two closing vouchers.
AtMostOneClosing == \A p \in Periods : Cardinality(ClosingOf(p)) <= 1

\* While a period has a closing voucher, posted or left behind as a draft by a
\* dead reopening, no other voucher of the period becomes posted.
ClosedPeriodGainsNothing ==
    [][\A p \in Periods :
          ClosingOf(p) # {} => PostedIn(p)' \subseteq PostedIn(p) \cup ClosingOf(p)]_vars

\* Closing moves the closed rows' net to 421 and leaves 911 where it was, and
\* an account none of whose rows is on its abnormal side ends at zero.
ClosingTransfersResult ==
    [][\A p \in Periods :
          (ClosingOf(p) = {} /\ ClosingOf(p)' # {}) =>
             LET closed   == ClosedRevenue(p) \cup ClosedExpense(p)
                 moved    == Sum([r \in closed |-> Net(r)], closed)
                 open(a)  == {r \in RowsOf(p, {a}) : Net(r) # 0} \ closed
             IN  /\ NetOf(p, {ResultAccount})' = NetOf(p, {ResultAccount})
                 /\ NetOf(p, {ProfitAccount})' = NetOf(p, {ProfitAccount}) + moved
                 /\ \A a \in RevenueAccounts \cup ExpenseAccounts :
                        open(a) = {} => NetOf(p, {a})' = 0]_vars

\* Documentation, not held by the code: the books of a closed period do not
\* change until it is reopened.
Closed(p) == \E v \in ClosingOf(p) : status[v] = "posted"
ClosedBooksStayFixed ==
    [][\A p \in Periods : (Closed(p) /\ Closed(p)') =>
          \A r \in RowsOf(p, Accounts) : balance'[r] = balance[r]]_vars
=============================================================================
