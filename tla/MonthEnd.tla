------------------------------ MODULE MonthEnd ------------------------------
(***************************************************************************)
(* The batches of a month: depreciation, payroll, revaluation of foreign   *)
(* currency and the recurring templates that start some of them.  Each     *)
(* reads in one transaction what a request or template of the same batch   *)
(* may be writing in another; what stops the second is mostly the unique   *)
(* number of the voucher the batch inserts.                                *)
(*                                                                         *)
(* A transaction is two steps: what it reads, and its commit, where unique *)
(* keys and the closing of the month are checked and saved instances       *)
(* overwrite what others have committed since.                             *)
(***************************************************************************)
EXTENDS Integers, FiniteSets, Functions

CONSTANTS
    Requests,   \* requests being served
    Assets,     \* fixed assets, numbered in the order of their codes
    AccountOf,  \* asset -> its depreciation_account
    Cost,       \* asset -> original cost less salvage value
    Monthly,    \* asset -> depreciation of one month
    Days,       \* days, numbered from 1
    MonthOf,    \* day -> month
    DueDays,    \* template -> days it is due
    Salaries,   \* what all employees earn, before and after one more is hired
    Plans,      \* jobs that meet: request -> what it does
    Alone       \* operations that never run beside another

Months    == {MonthOf[d] : d \in Days}
Accounts  == {AccountOf[a] : a \in Assets}
Templates == DOMAIN DueDays
Ops       == {"add", "dispose", "depreciate", "calculate", "payroll", "hire", "revalue",
              "close", "runDue"}
Jobs == [op : {"add", "dispose"}, asset : Assets]
            \cup [op : {"depreciate", "calculate", "payroll", "revalue", "close"}, month : Months]
            \cup [op : {"hire", "runDue"}]

ASSUME MonthEndSets ==
    /\ IsFiniteSet(Assets) /\ Assets \subseteq Nat /\ IsFiniteSet(Requests) /\ IsFiniteSet(Days)
    /\ 1 \in Days /\ Days \subseteq Nat /\ MonthOf \in [Days -> Nat]
    /\ Templates \subseteq {"depreciation", "payroll", "closing"}
    /\ \A t \in Templates : DueDays[t] # {} /\ DueDays[t] \subseteq Nat
    /\ Alone \subseteq Ops
ASSUME MonthEndData ==
    /\ Cost \in [Assets -> Nat] /\ Monthly \in [Assets -> Nat]
    /\ Salaries \in [{"old", "new"} -> Nat \ {0}]
    /\ Plans \subseteq [Requests -> Jobs]

VARIABLES
    job,         \* the plan being carried out
    today,       \* the date
    asset,       \* asset -> "none", "active", "fully" (depreciated) or "disposed"
    accumulated, \* asset -> accumulated_depreciation
    row,         \* asset -> month -> amount of its asset_depreciation row, 0 for none
    depVoucher,  \* month -> amount of voucher KH, 0 for none
    depAccount,  \* accumulated depreciation account -> its balance
    disposals,   \* numbers TL in use: <<asset, day>>
    salaries,    \* what all employees earn now
    run,         \* month -> status of its payroll run
    runTotal,    \* month -> totals saved with the run
    lines,       \* month -> sum of the lines of the run
    payVoucher,  \* month -> amount of voucher PAY, 0 for none
    batch,       \* month -> status of its revaluation batch
    fxVoucher,   \* month -> voucher FX: "none", "empty" or "complete"
    closed,      \* months with a closing voucher
    next,        \* template -> next_run_at
    pc,          \* request -> what it does next
    todo,        \* request -> due templates it has listed and not run
    template,    \* request -> the template at hand
    month,       \* request -> the month at hand
    listed,      \* request -> day it listed the due templates
    found,       \* request -> assets to depreciate -> accumulated, as it has read them
    seenTotal    \* request -> totals of the run instance it holds

assetData == <<asset, accumulated, row, depVoucher, depAccount, disposals>>
payData   == <<salaries, run, runTotal, lines, payVoucher>>
fxData    == <<batch, fxVoucher>>
locals    == <<todo, template, month, listed, found, seenTotal>>
vars      == <<job, today, assetData, payData, fxData, closed, next, pc, locals>>

Op(q)   == job[q].op
Never   == Cardinality(Days) + 1
Least(S) == CHOOSE d \in S : \A e \in S : d <= e
SumOf(f, S) == SumFunctionOnSet(f, S)

Init ==
    /\ job \in Plans
    /\ today       = 1
    /\ asset       = [a \in Assets |-> "none"]
    /\ accumulated = [a \in Assets |-> 0]
    /\ row         = [a \in Assets |-> [m \in Months |-> 0]]
    /\ depVoucher  = [m \in Months |-> 0]
    /\ depAccount  = [c \in Accounts |-> 0]
    /\ disposals   = {}
    /\ salaries    = Salaries["old"]
    /\ run         = [m \in Months |-> "draft"]
    /\ runTotal    = [m \in Months |-> 0]
    /\ lines       = [m \in Months |-> 0]
    /\ payVoucher  = [m \in Months |-> 0]
    /\ batch       = [m \in Months |-> "none"]
    /\ fxVoucher   = [m \in Months |-> "none"]
    /\ closed      = {}
    /\ next        = [t \in Templates |-> Least(DueDays[t])]
    /\ pc          = [q \in Requests |-> "start"]
    /\ todo        = [q \in Requests |-> {}]
    /\ template    = [q \in Requests |-> "none"]
    /\ month       = [q \in Requests |-> MonthOf[1]]
    /\ listed      = [q \in Requests |-> 0]
    /\ found       = [q \in Requests |-> <<>>]
    /\ seenTotal   = [q \in Requests |-> 0]

Goto(q, label) == pc' = [pc EXCEPT ![q] = label]
Ended(q)   == pc[q] \in {"ended", "failed", "dead"}
Running(q) == pc[q] # "start" /\ ~Ended(q)

Starts(q, op) ==
    /\ pc[q] = "start" /\ Op(q) = op
    /\ \A x \in Requests \ {q} : Running(x) => {Op(q), Op(x)} \cap Alone = {}

\* _compute_next_run: the first due day after now.
NextDue(t) == LET later == {d \in DueDays[t] : d > today} IN
              IF later = {} THEN Never ELSE Least(later)

\* run_one catches what its function raises and saves next_run_at in the same
\* transaction; a view shows the error.
FinishRaises(q, ok) ==  \* mutant
    IF Op(q) = "runDue" /\ ok
    THEN next' = [next EXCEPT ![template[q]] = NextDue(template[q])] /\ Goto(q, "templates")
    ELSE Goto(q, IF ok \/ Op(q) = "runDue" THEN "ended" ELSE "failed") /\ UNCHANGED next
Finish(q, ok) ==
    IF Op(q) = "runDue"
    THEN next' = [next EXCEPT ![template[q]] = NextDue(template[q])] /\ Goto(q, "templates")
    ELSE Goto(q, IF ok THEN "ended" ELSE "failed") /\ UNCHANGED next

Runs(q, op, t) == Starts(q, op) \/ (pc[q] = "template" /\ template[q] = t)
MonthFor(q) == IF Op(q) = "runDue" THEN MonthOf[today] ELSE job[q].month

(***************************************************************************)
(* Recurring templates: run_all_due lists them, run_one runs each.         *)
(***************************************************************************)
ListDue(q) ==
    /\ Starts(q, "runDue")
    /\ todo'   = [todo EXCEPT ![q] = {t \in Templates : next[t] <= today}]
    /\ listed' = [listed EXCEPT ![q] = today]
    /\ Goto(q, "templates")
    /\ UNCHANGED <<job, today, assetData, payData, fxData, closed, next, template, month,
                   found, seenTotal>>

\* Templates are ordered by schedule and day.
Rank == [depreciation |-> 1, payroll |-> 2, closing |-> 3]

NextTemplate(q) ==
    LET t == CHOOSE u \in todo[q] : \A w \in todo[q] : Rank[u] <= Rank[w] IN
    /\ pc[q] = "templates" /\ todo[q] # {}
    /\ todo'     = [todo EXCEPT ![q] = @ \ {t}]
    /\ template' = [template EXCEPT ![q] = t]
    /\ Goto(q, "template")
    /\ UNCHANGED <<job, today, assetData, payData, fxData, closed, next, month, listed, found,
                   seenTotal>>

AllRun(q) ==
    /\ pc[q] = "templates" /\ todo[q] = {}
    /\ Goto(q, "ended")
    /\ template' = [template EXCEPT ![q] = "none"]
    /\ UNCHANGED <<job, today, assetData, payData, fxData, closed, next, todo, month, listed, found,
                   seenTotal>>

(***************************************************************************)
(* Assets.                                                                 *)
(***************************************************************************)
AddAsset(q) ==
    /\ Starts(q, "add")
    /\ asset' = [asset EXCEPT ![job[q].asset] = "active"]
    /\ Goto(q, "ended")
    /\ UNCHANGED <<job, today, accumulated, row, depVoucher, depAccount, disposals, payData,
                   fxData, closed, next, locals>>

\* calculate_period selects the active assets and skips those with a row.
BeginDepreciation(q) ==
    LET m == MonthFor(q) IN
    /\ Runs(q, "depreciate", "depreciation")
    /\ month' = [month EXCEPT ![q] = m]
    /\ found' = [found EXCEPT ![q] =
                    [a \in {b \in Assets : asset[b] = "active" /\ row[b][m] = 0} |-> accumulated[a]]]
    /\ Goto(q, "depreciate")
    /\ UNCHANGED <<job, today, assetData, payData, fxData, closed, next, todo, template, listed,
                   seenTotal>>

\* calculate_monthly_depreciation: no more than is left to depreciate.
FullShare(q, a) == Monthly[a]  \* mutant
Share(q, a) == LET left == Cost[a] - found[q][a] IN
               IF Monthly[a] > left THEN left ELSE Monthly[a]

\* The voucher number of the month is taken, or posting refuses the month.
RefusedWhenClosed(q) == month[q] \in closed  \* mutant
Refused(q) == depVoucher[month[q]] # 0 \/ month[q] \in closed

\* The assets it depreciates: those with something left to depreciate.
Worked(q) == {a \in DOMAIN found[q] : Share(q, a) > 0}

\* Instances are saved with update_fields that include the status read before.
\* One voucher credits the total to the account of the first asset.
CommitDepreciation(q) ==
    LET m     == month[q]
        work  == Worked(q)
        total == SumOf([a \in work |-> Share(q, a)], work)
        fully(a) == found[q][a] + Share(q, a) >= Cost[a]
    IN
    /\ pc[q] = "depreciate"
    /\ IF work = {} \/ Refused(q)
       THEN UNCHANGED assetData
       ELSE /\ accumulated' = [a \in Assets |-> IF a \in work THEN found[q][a] + Share(q, a)
                                                ELSE accumulated[a]]
            /\ asset' = [a \in Assets |-> IF a \notin work THEN asset[a]
                                          ELSE IF fully(a) THEN "fully" ELSE "active"]
            /\ row' = [a \in Assets |-> IF a \in work THEN [row[a] EXCEPT ![m] = Share(q, a)]
                                        ELSE row[a]]
            /\ depVoucher' = [depVoucher EXCEPT ![m] = @ + total]
            /\ depAccount' = [depAccount EXCEPT ![AccountOf[Least(work)]] = @ + total]
            /\ UNCHANGED disposals
    /\ Finish(q, work = {} \/ ~Refused(q))
    /\ found' = [found EXCEPT ![q] = <<>>]
    /\ UNCHANGED <<job, today, payData, fxData, closed, todo, template, month, listed, seenTotal>>

\* AssetDisposeView loads the asset whatever its status; dispose books what it
\* has loaded.
LoadAsset(q) ==
    LET a == job[q].asset IN
    /\ Starts(q, "dispose")
    /\ asset[a] # "none"
    /\ found' = [found EXCEPT ![q] = [b \in {a} |-> accumulated[b]]]
    /\ Goto(q, "dispose")
    /\ UNCHANGED <<job, today, assetData, payData, fxData, closed, next, todo, template, month,
                   listed, seenTotal>>

StatusAfter(a) == "disposed"

CommitDisposal(q) ==
    LET a == job[q].asset
        ok == <<a, today>> \notin disposals /\ MonthOf[today] \notin closed
    IN
    /\ pc[q] = "dispose"
    /\ IF ok THEN /\ disposals'  = disposals \cup {<<a, today>>}
                  /\ depAccount' = [depAccount EXCEPT ![AccountOf[a]] = @ - found[q][a]]
                  /\ asset'      = [asset EXCEPT ![a] = StatusAfter(a)]
             ELSE UNCHANGED <<disposals, depAccount, asset>>
    /\ Finish(q, ok)
    /\ found' = [found EXCEPT ![q] = <<>>]
    /\ UNCHANGED <<job, today, accumulated, row, depVoucher, payData, fxData, closed, todo, template,
                   month, listed, seenTotal>>

(***************************************************************************)
(* Payroll: calculate, and post with the instance calculate has returned.  *)
(***************************************************************************)
\* EmployeeCreateView: one more salary to pay.
Hire(q) ==
    /\ Starts(q, "hire")
    /\ salaries' = Salaries["new"]
    /\ Goto(q, "ended")
    /\ UNCHANGED <<job, today, assetData, run, runTotal, lines, payVoucher, fxData, closed, next,
                   locals>>

RecalculatesAlways(m) == TRUE  \* mutant
Recalculates(m) == run[m] # "posted"

BeginCalculation(q) ==
    LET m == MonthFor(q) IN
    /\ Runs(q, "calculate", "payroll") \/ Starts(q, "payroll")
    /\ month' = [month EXCEPT ![q] = m]
    /\ IF Recalculates(m) THEN Goto(q, "calculate") /\ UNCHANGED next ELSE Finish(q, TRUE)
    /\ UNCHANGED <<job, today, assetData, payData, fxData, closed, todo, template, listed, found,
                   seenTotal>>

CommitCalculation(q) ==
    LET m == month[q] IN
    /\ pc[q] = "calculate"
    /\ run'      = [run EXCEPT ![m] = "calculated"]
    /\ runTotal' = [runTotal EXCEPT ![m] = salaries]
    /\ lines'    = [lines EXCEPT ![m] = salaries]
    /\ seenTotal' = [seenTotal EXCEPT ![q] = salaries]
    /\ IF Op(q) = "payroll" THEN Goto(q, "postPayroll") /\ UNCHANGED next ELSE Finish(q, TRUE)
    /\ UNCHANGED <<job, today, assetData, salaries, payVoucher, fxData, closed, todo, template,
                   month, listed, found>>

\* post: the voucher takes gross, tax and net from the instance and the
\* insurance from the lines in the database, and must balance.
PostPayroll(q) ==
    LET m  == month[q]
        ok == payVoucher[m] = 0 /\ m \notin closed /\ lines[m] = seenTotal[q]
    IN
    /\ pc[q] = "postPayroll"
    /\ IF ok THEN /\ payVoucher' = [payVoucher EXCEPT ![m] = seenTotal[q]]
                  /\ run'        = [run EXCEPT ![m] = "posted"]
                  /\ runTotal'   = [runTotal EXCEPT ![m] = seenTotal[q]]
             ELSE UNCHANGED <<payVoucher, run, runTotal>>
    /\ Finish(q, ok)
    /\ UNCHANGED <<job, today, assetData, salaries, lines, fxData, closed, locals>>

(***************************************************************************)
(* FxRevaluationService.run_revaluation: no transaction, four statements.  *)
(***************************************************************************)
PostedAtOnce(m) == "posted"  \* mutant
NewBatch(m) == "draft"

InsertBatch(q) ==
    LET m == job[q].month IN
    /\ Starts(q, "revalue")
    /\ IF batch[m] # "none" THEN Goto(q, "failed") /\ UNCHANGED batch
       ELSE Goto(q, "fxVoucher") /\ batch' = [batch EXCEPT ![m] = NewBatch(m)]
    /\ UNCHANGED <<job, today, assetData, payData, fxVoucher, closed, next, locals>>

InsertFxVoucher(q) ==
    LET m == job[q].month IN
    /\ pc[q] = "fxVoucher"
    /\ IF fxVoucher[m] # "none" THEN Goto(q, "failed") /\ UNCHANGED fxVoucher
       ELSE Goto(q, "fxLines") /\ fxVoucher' = [fxVoucher EXCEPT ![m] = "empty"]
    /\ UNCHANGED <<job, today, assetData, payData, batch, closed, next, locals>>

InsertFxLines(q) ==
    /\ pc[q] = "fxLines"
    /\ fxVoucher' = [fxVoucher EXCEPT ![job[q].month] = "complete"]
    /\ Goto(q, "fxBatch")
    /\ UNCHANGED <<job, today, assetData, payData, batch, closed, next, locals>>

FinishBatch(q) ==
    /\ pc[q] = "fxBatch"
    /\ batch' = [batch EXCEPT ![job[q].month] = "posted"]
    /\ Goto(q, "ended")
    /\ UNCHANGED <<job, today, assetData, payData, fxVoucher, closed, next, locals>>

\* close_period, in one step: it fails when the month is closed.
Close(q) ==
    LET m == MonthFor(q) IN
    /\ Runs(q, "close", "closing")
    /\ closed' = closed \cup {m}
    /\ Finish(q, m \notin closed)
    /\ UNCHANGED <<job, today, assetData, payData, fxData, locals>>

\* A worker dies: its transaction is rolled back.
Dies(q) ==
    /\ Running(q)
    /\ Goto(q, "dead")
    /\ todo'      = [todo EXCEPT ![q] = {}]
    /\ template'  = [template EXCEPT ![q] = "none"]
    /\ found'     = [found EXCEPT ![q] = <<>>]
    /\ seenTotal' = [seenTotal EXCEPT ![q] = 0]
    /\ UNCHANGED <<job, today, assetData, payData, fxData, closed, next, month, listed>>

\* Midnight, when nobody works.
NextDay ==
    /\ today + 1 \in Days
    /\ \A q \in Requests : ~Running(q)
    /\ today' = today + 1
    /\ UNCHANGED <<job, assetData, payData, fxData, closed, next, pc, locals>>

Serve(q) ==
    \/ ListDue(q) \/ NextTemplate(q) \/ AllRun(q)
    \/ AddAsset(q) \/ BeginDepreciation(q) \/ CommitDepreciation(q)
    \/ LoadAsset(q) \/ CommitDisposal(q)
    \/ Hire(q) \/ BeginCalculation(q) \/ CommitCalculation(q) \/ PostPayroll(q)
    \/ InsertBatch(q) \/ InsertFxVoucher(q) \/ InsertFxLines(q) \/ FinishBatch(q)
    \/ Close(q)

Next == NextDay \/ \E q \in Requests : Serve(q) \/ Dies(q)

Spec == Init /\ [][Next]_vars

-----------------------------------------------------------------------------
\* However runs of a month overlap and die, an asset is depreciated once a
\* month: its rows add up to its accumulated depreciation, which never exceeds
\* its cost, and it is fully depreciated exactly when nothing is left.
RowsAddUp ==
    \A a \in Assets :
        /\ accumulated[a] = SumOf(row[a], Months)
        /\ accumulated[a] <= Cost[a]
        /\ asset[a] = "fully" => accumulated[a] = Cost[a]
        /\ asset[a] = "active" => accumulated[a] < Cost[a]

\* The books agree with the asset register: the voucher of a month is the sum of
\* its rows, and the accumulated depreciation accounts hold, together, what the
\* assets still held have accumulated.  One account does not: a month is credited
\* to the account of its first asset, a disposal debits the asset's own.
BooksFollowRegister ==
    /\ \A m \in Months : depVoucher[m] = SumOf([a \in Assets |-> row[a][m]], Assets)
    /\ LET held == {a \in Assets : asset[a] # "disposed"}
       IN SumOf(depAccount, Accounts) = SumOf(accumulated, held)

\* A payroll run is posted exactly when its voucher exists, and then voucher, run
\* and lines agree: people hired later and later calculations change nothing.
PostedRunIsBooked ==
    \A m \in Months :
        /\ run[m] = "posted" <=> payVoucher[m] # 0
        /\ run[m] = "posted" => payVoucher[m] = runTotal[m] /\ lines[m] = runTotal[m]

\* A revaluation batch is posted only with a complete voucher, although a request
\* may die after any statement and another try again.
PostedBatchIsComplete == \A m \in Months : batch[m] = "posted" => fxVoucher[m] = "complete"

\* Whoever ran the due templates to the end leaves none of them due: a template
\* that fails stops neither the others nor its own schedule.
NothingStaysDue ==
    \A q \in Requests : Op(q) = "runDue" /\ pc[q] = "ended"
        => \A t \in Templates : next[t] > listed[q]

\* calculate_period: "Idempotent: skips assets that already have
\* AssetDepreciation for this period".  A run fails in a closed month only.
RepeatedRunSkips ==
    \A q \in Requests : Op(q) = "depreciate" /\ pc[q] = "failed" => month[q] \in closed
=============================================================================
