# Visota ERP: a TLA+ verification project

Visota is an accounting system for Vietnamese companies: Django on MariaDB,
served by several worker processes, with a django-q2 queue for background work
and an offline-capable web client. This directory holds TLA+ models of its
core, the TLC runs that check them and proofs that TLAPS checks. File
references are to `src/`; `voucher_posting_service.py` and the other service
names below live in `src/apps/*/services/`.

Run `tlc -workers 2 -config X.cfg M` for a run (module and configuration are in
`PROJECT.json`) and `tlapm M.tla` for a module of proofs.

## 1. Inventory

| Component | State it keeps | Operations | Hard behaviour | What makes it correct |
|---|---|---|---|---|
| **General ledger** (`ledger/`): vouchers, lines, balances | `accounting_voucher` (status, period, source), `voucher_line` (account, object, amounts, running balance), `account_period_balance` (movements per period, account and object) | enter, post, unpost, delete, post by API | handlers of several transactions; one balance row shared by many vouchers; a status tested on an instance loaded earlier | balances equal a rebuild from posted lines; running balances are cumulative; the trial balance is off by no more than the tolerance |
| **Period closing** (`period_closing_service.py`, `closing_views.py`) | the closing voucher (source `closing`) of a month, which *is* the closed flag | close, reopen | two closings at once; a reopening that dies half-way; postings that race the closing | one closing voucher per month; a closed month gains nothing; 5xx-8xx end at zero and 421 carries the result |
| **Chart of accounts** | codes, used as plain text by lines and balance rows | change a code, with a cascade | bulk update against a unique key; a second, best-effort step | balances and lines move together |
| **DNSN ledgers** (TT58 micro companies) | `dnsn_voucher`, `dnsn_ledger_entry`, `dnsn_ledger_balance` | post, unpost, delete, discard, convert TT133 balances | rebuild per ledger type under concurrency, openings written beside movements | balances equal a rebuild from entries; running balances are cumulative; a posted voucher has all its entries |
| **Year to date, carry-forward** | period 0 rows of the next year | sum periods, carry forward | re-running after corrections, rows per object | reports say what the posted lines say; opening = last closing |
| **Sales and purchase invoices** | invoice status and its link to one voucher | create and book, unpost, delete | deletion in several transactions; vouchers deleted behind the invoice; a change of regime in between | amounts are in the books exactly while the voucher is posted |
| **Inventory** | `stock_ledger` quantity, amount, average cost | receipts, issues, transfers, counts | read-modify-write without a lock | quantity = sum of committed documents |
| **Fixed assets, payroll, FX, recurring templates** | accumulated depreciation, run status, batch status, `next_run_at` | monthly batches that create a voucher | running twice, new items after the first run, failing half-way | once per month; books agree with register and runs; a failing template stops no other |
| **Approvals, notifications** | request and its steps | submit, approve, reject, hook that posts | stale request instances, no transaction, swallowed failure of the hook | nothing is approved out of order; what is decided stays decided; a rejection blocks what follows |
| **PKM documents** | document status, chunks, embeddings, queue tasks | upload, process, reprocess, delete | redelivery of a running task, killed workers, retries | chunks of a processed document are those of one run; a deleted one leaves nothing |
| **Offline client** | service-worker caches, drafts in IndexedDB | fetch strategies, draft saves | stale pages, versions | a saved draft is not lost |
| **Bank statements** | bank transactions, matches | upload, reconcile | no transaction and no lock: match and transaction saved apart, runs that overlap | a voucher or transaction is matched twice only where runs overlapped or died; nothing that could be matched is left |
| **PKM wiki, questions** | wiki pages (summaries, concepts, index, log), their sources and links, answered questions | ingest a document or note, ask, health check | pages read, changed in Python and saved while other sources are ingested; a transaction whose statements must come in the right order | what was merged stays; the index lists every page; the log is append-only |
| **E-invoices** | status, number, issue date | create, adjust, publish, cancel, download | numbers counted without a lock, whole rows saved late, two time zones | the numbers of a month have no gap and no repetition |
| Treasury | cash vouchers | enter and post | that of the ledger | that of the ledger |
| Reporting, budget, CRM, contracts, identity, master data | records | CRUD, aggregation | little | — |

How they interact: every business module that has an accounting effect creates
an `AccountingVoucher` and calls `VoucherPostingService.post`; there is no
event bus and no other writer of `account_period_balance` except the change of
an account code and the carry-forward. A period is closed by the existence of a
closing voucher and by nothing else. The posting service also logs an
interaction and sends notifications; failures of both are swallowed, so neither
influences the ledger. Views call services inside a request; there is no
transaction around a request (`ATOMIC_REQUESTS` is off), which is why handlers
with two transactions are two actions here. MariaDB runs at READ COMMITTED, the
default of Django's MySQL backend.

`PROJECT.json` lists the hazards, each at its line, with the properties that
guard against it or the reason there is none yet.

## 2. Modules

| Module | What it is |
|---|---|
| `GeneralLedger` | the ledger of one company and one fiscal year, one handler transaction per action, crashes between the transactions of a handler |
| `MCGeneralLedger` | a small company for it |
| `PostingConcurrency` | requests that post, delete and close at the same time, one SQL statement per action, with row locks, deadlock victims and dying workers |
| `PostingContract` | what the posting service promises to a reader of committed data: the abstract specification `PostingConcurrency` implements |
| `MCPostingConcurrency` | request plans for it |
| `SumLemmas` | sums over finite sets: unfolding, congruence, adding and removing an element, parts, reindexing, exchanging two sums, bounds |
| `GeneralLedgerProofs` | theorems about `GeneralLedger` |
| `PostingConcurrencyProofs` | theorems about `PostingConcurrency`, the refinement among them |
| `DnsnLedger` | posting, removing, discarding and converting in the TT58 ledgers, one SQL statement per action; implements `PostingContract` too |
| `MCDnsnLedger` | request plans for it |
| `MonthEnd` | depreciation, disposal, payroll, revaluation, closing and the recurring templates over several days |
| `MCMonthEnd` | plans for it |
| `Invoices` | invoices and their voucher in either set of books, one transaction per action |
| `StockLedger` | stock movements of one product, statement by statement |
| `Approvals` | approval chains, one query or save per action |
| `Documents` | a document, the requests of its owner and the tasks of the queue |
| `YearEnd` | balances of several years, the carry-forward and the year to date report |
| `BankReconciliation` | statement rows, matches and the requests that make them |
| `Wiki` | sources ingested into the wiki of one user, questions and health checks, one statement per action |
| `EInvoices` | e-invoices and their numbers, one query or save per action |
| `Office` | an instance of each of the last eight, for any values of their constants: a step is a step of one of them |
| `MCOffice` | values for it |
| `OfficeKnowledgeProofs`, `OfficeBooksProofs`, `OfficeDeskProofs` | theorems about documents and wiki, about invoices, stock and years, and about approvals, bank statements and e-invoices |
| `MonthEndProofs` | theorems about `MonthEnd` |
| `DnsnLedgerProofs` | theorems about `DnsnLedger`, the refinement among them |

### GeneralLedger

`status`, `header`, `lines` and `running` are the columns of
`accounting_voucher` and `voucher_line`; `rows` says which
`account_period_balance` rows exist and `balance` holds their `period_debit`,
`period_credit` and `transaction_count`; `chart` is the set of codes. `owed`
is the program counter of the handler being served: a handler that commits once
and goes on (entering, then posting; unposting, then deleting; renaming, then
recomputing) leaves there what it still has to do, and `Crash` may take that
away at any time. `unswept` is a history variable: the codes whose
recomputation a crash has lost.

| Action | Code |
|---|---|
| `CreateVoucher(v, p, day, doc, n)`, `FinishEntry(v)` | `VoucherCreateView.post`: the form check, the header and the first `n` line inserts; then the automatic posting, whose refusal keeps the draft |
| `PostVoucher(v)` | the API's `post_voucher` |
| `Post(v)`, `Unpost(v)` | `VoucherPostingService.post` and `unpost`, whole: period check, balance check, every balance row, status, running balances of the accounts of the voucher |
| `DeleteVoucher(v)`, `ReopenPeriod(p)`, `FinishRemoval(v)` | `VoucherDeleteView`, `PeriodReopenView` |
| `ClosePeriod(v, p)` | `PeriodClosingService.close_period` |
| `ChangeAccountCode(a, b)`, `FinishRename(a)` | `ChartOfAccountsChangeCodeView.post` |

Abstractions: amounts are integers (the smallest unit of the decimal columns);
voucher numbers and texts are left out, and an object is its code (the object
type is never set by the forms); status is draft or posted, since no code sets
SUBSIDIARY or LOCKED; the opening and closing columns are a function of the
movements when there is one year; foreign currency is left out. Lines of a
document may use a code that is not in the chart, as the form allows. The order
in which the closing reads the balance rows is arbitrary in the database; the
model takes one order, and line order matters only for running balances inside
one voucher.

### PostingConcurrency

`status`, `amount`, `balance` and `running` are the committed data; `written`,
`kc` and `updated` are what a transaction has written and not committed; `lock`
is the lock of each balance row, and `updated` is also the lock of the lines in
it; `pc`, `seen`, `todo`, `row`, `value` and `stale` are the locals of a
request.

| Statements of a request (`pc`) | Code |
|---|---|
| `Load` (start) | the view loads the voucher, outside the transaction |
| `BeginPost`, `BeginUnpost` (loaded) | the test of the loaded status, the SELECT for a closing voucher |
| `BeginClose`, `InsertClosing` (start, insert) | `close_period`: the balances are read and the voucher inserted, waiting for the unique number of a rival |
| `ReadRow`, `WriteRow` (rows, write) | `_update_one_balance`, per balance row in any order: lock and read, write back |
| `SaveVoucher` (rows) | the status, once no row is left |
| `ClearLines` (clear) | `unpost` only: the UPDATE that clears the lines of the voucher |
| `Recompute`, `UpdateLine`, `EndRecompute` (recompute, lines) | `_recompute_running_balances_for_codes`: one SELECT of posted lines, committed ones and those of the own voucher, then one UPDATE per line |
| `Commit` | the end of `transaction.atomic` |
| `DeleteVoucher` (delete) | the second transaction of a deletion |

A request can die at any point and a request in a deadlock can be chosen as its
victim; both roll back. Amounts are signed (debit minus credit), lines of a
voucher on one row are one line, and the vouchers of a month are dated in the
order of their ids. `ToClose` gives the rows a closing empties onto 421: revenue
that stands in credit and expense that stands in debit, as the closing has read
them; with none, it returns without a voucher.

`PostingContract` has four steps over committed data: post, unpost, close and
delete. `KeepsContract` says that committed data never moves otherwise.

### DnsnLedger

Where the general ledger adds to a balance row, this one locks the row and
rebuilds it from the entries it then selects. `status` to `closing` are
committed data; `mine`, `written` and `updated` are what a transaction has not
committed.

| Actions | Code |
|---|---|
| `BeginPost` | `InvoiceService.create` and `DnsnPostingService.post`: the period check, then voucher and entries |
| `LoadVoucher`, `SelectTypes`, `DeleteEntries`, `SaveDraft`, `DropVoucher` | the views that remove or discard a voucher, and `unpost` |
| `LockRow`, `RebuildRow` | `_recalculate_balance` |
| `SelectEntries`, `UpdateEntry` | `_recompute_running_balances`: a SELECT without locks, one UPDATE per entry; it raises when an entry has been deleted meanwhile |
| `BeginConvert`, `ReadForConversion`, `SaveConverted`, `CommitConversion` | `BalanceConversionService.convert`: reads a row without a lock and saves all of its columns |
| `LosesDeadlock`, `Dies` | the database, a worker |

The amount columns of an entry are one number; a voucher has at most one entry
per ledger type, as the code creates them.

### MonthEnd

The batches meet over shared data: the asset register, the payroll run of a
month, the revaluation batch, the closing and `next_run_at`. A transaction is
two steps, what it reads and its commit, because `save()` overwrites what was
committed in between and unique numbers are checked at the insert.
`Plans` says which requests meet and `Alone` which operations do not overlap
with anything. `depAccount` has the balance of each accumulated depreciation
account: a run books the total of the month on the account of the first asset it
depreciates (assets are numbered in the order the query gives them), a disposal
on the account of its own asset.

| Actions | Code |
|---|---|
| `ListDue`, `NextTemplate`, `AllRun`, `Finish` | `RecurringService.run_all_due` and `run_one`: failures are caught and `next_run_at` moves on regardless |
| `AddAsset`, `BeginDepreciation`, `CommitDepreciation` | `AssetCreateView`, `DepreciationService.calculate_period` |
| `LoadAsset`, `CommitDisposal` | `AssetDisposeView`, `AssetLifecycleService.dispose` |
| `Hire`, `BeginCalculation`, `CommitCalculation`, `PostPayroll` | `EmployeeCreateView`, `PayrollService.calculate` and `post` |
| `InsertBatch`, `InsertFxVoucher`, `InsertFxLines`, `FinishBatch` | `run_revaluation`, which has no transaction |

### Invoices

`gl` and `dnsn` say which voucher an invoice has, `books` how often its amounts
are in the general balances, `ledgers` whether they are in the DNSN ones; the
booking and an unposting are one step here because `PostingConcurrency` and
`DnsnLedger` take them apart. What posts is two steps, because the period check
is a plain SELECT and the month may be closed before the commit: `BeginCreate`,
`CommitCreate` for an invoice with its voucher (between them the unique number
keeps others of that number waiting), `CheckVoucher`, `PostVoucher` for a voucher
by itself. `late` is a history variable: the requests between the two when the
month was closed. A deletion is `LoadInvoice`, `FetchVoucher` and
`UnpostInvoice` (one transaction), `DropGl`, `DropDnsn`, `DropInvoice`;
`LoadVoucher` to `PostVoucher` are the voucher's own views, which know nothing
of the invoice. The link of an invoice to its voucher is a foreign key that is
set to NULL with the voucher, so there is no variable for it.

### StockLedger

A movement begins by inserting its numbered voucher, then reads each row
without a lock (`ReadRow`), saves it (`WriteRow`, which waits for the lock) and
commits. `overtaken` is a history variable: warehouses where a save has
overwritten a commit later than its read. `Legs` is the list of rows a movement
changes, `InsertRefused` the unique key of a row that somebody else has
inserted. Numbers are unique per type of voucher (`Number`). A count sheet saves what was counted and records the difference.

### Approvals

`CancelPending`, `CreateRequest` and `CreateStep` are `submit`; `Load` and
`CheckRole` the views; `TakeStep`, `SaveStep`, `Advance` and `SaveRequest` are
`approve` and `reject`; `FireHook` calls a method `ContentType` does not have,
and swallows the exception, so it changes nothing: a finally approved voucher
stays a draft until somebody posts it. Posting a voucher asks for
no approval (`PostVoucher`). Nothing keeps clients apart: each works on the
instance it has loaded and saves it whole. Two history variables tell the cases:
`crossed` are the requests that a submission or a rejection shared with another
client, `late` the clients that held a request when it was decided.

### Documents

`Deliver` gives a task that is not acknowledged to a worker, also while another
runs it (`Q_CLUSTER` redelivers after 120 s what may take 300 s). An attempt is
`ClearVectors`, `ClearChunks` (reprocessing only), `Begin`, `StoreAll` (the one
transaction), `MarkProcessed`; `Fail` saves the status and counts an attempt.
`overlapped` is a history variable: an attempt began beside another one, or
after another one without clearing what that had stored.

### YearEnd

`movement` are the rows of months and `opening` the rows of period 0. One
handler at a time; `Ytd` is `YtdBalanceService.fetch`. The order in which the
carry-forward meets the rows of several objects of an account is arbitrary:
`last` is the row that stays.

### BankReconciliation

An upload inserts the readable rows in the order of the file and reconciles;
the reconcile button does only the latter. `Candidates` gives the vouchers the
query finds for a row. `ListUnreconciled` to `SaveTransaction` are
`auto_reconcile`, any number of them at a time: a candidate is looked up
(`Consider`), matched (`InsertMatch`, which fails on the unique pair of transaction
and voucher) and the transaction flagged (`SaveTransaction`) in statements that
commit by themselves. `met` is a history variable, the pairs of runs that were
matching at the same time; `listed` is what a run has selected.

### Wiki

What a page says is the set of requests whose text it has. `text`, `index`,
`cited`, `links` and `orphans` are committed; `draft` is what an ingest has
written and not committed. `Order` is the order of the statements inside the
transaction of `ingest_document` and `ingest_note`: the summary
(`update_or_create`), the concepts (`NextConcept` looks a page up,
`SaveConcept` saves or creates it), the index (`ListPages`, `SaveIndex`) and the
log (`ReadLog`, `SaveLog`). A page somebody else has written and not committed
is waited for; a page created meanwhile breaks the unique title and rolls the
ingest back (`Conflicts`). `Answer` is `answer_question` up to the saved
answer, `FindOrphans` to `SaveReport` are `lint_wiki`; both then add to the log
outside any transaction. The language model may answer with any sequence of
titles in `Answers`, or not at all.

### EInvoices

`row` is the saved row, `copy` the instance a request holds. `Load` is the view,
`PickNumber` `_next_invoice_no`, `Publish` and `Cancel` the saves; `Attach` saves
the whole row again with a file, after the creation, after a publication and for
a download. No operation looks at the status. `utc` and `today` are the months
of the two time zones the numbering mixes: the number and the month asked for
are those of UTC (`timezone.now()`), issue dates are compared in the zone of the
company.

## 3. Runs

| Run | What it shows |
|---|---|
| `gl_serial` (170,190 states) | two months, six accounts, one customer, three vouchers, three documents: a sale on a customer, an expense with a rounding difference and a rebate on the debit side of a revenue account, and a document that is refused; every prefix of a document may be all that was saved |
| `posting_concurrency` (26,467 states) | the posting of a return (it debits revenue and credits costs), the deletion of a posted sale and two closings of the same month: depending on the order a row stands on the side the closing empties or on the other |
| `closed_books` (violation) | a voucher of a closed month is unposted: the user guide says it cannot be |
| `post_twice` (violation) | one draft is posted by two requests and counted twice |
| `post_into_closed` (violation) | a posting passes the period check, the closing carries the month's sale and commits, the posting commits |
| `dnsn_ledger` (10,855 states) | postings, removals and discards of DNSN vouchers and a conversion, three requests at a time, with deadlocks and dying workers |
| `month_end` (345,055 states) | five plans of five requests over three days of two months: overlapping runs of a month, a scheduler triggered three times, a disposal between its runs, assets on two depreciation accounts, payroll with a hiring, revaluations |
| `office` (445,878 states) | the eight small modules, each with its own plans |
| `rejection_blocks` (violation) | an approver has saved step 1; another approver rejects step 2 and the request; the first finds no step pending and saves the request as approved |
| `depreciation_rerun` (violation) | an asset is added after the first run of the month: the second run fails instead of skipping what is done |
| `carry_forward` (violation) | the next year does not open with the closing balances |
| `running_two_months` (violation) | a voucher of month 1 and one of month 2, on the same accounts, are posted at once: each recomputation misses the lines of the other voucher |

What the passing runs say:

- `BalanceIsProjection`, `CommittedIsProjection`: balances equal a rebuild from
  the posted lines. The first follows the handlers through closing, reopening,
  renaming and crashes, the second through the interleavings of statements.
- `RunningIsCumulative`: every posted line shows the cumulative balance of its
  account, although a posting touches only the accounts of its own voucher. It
  excepts exactly the codes for which a rename lost its second step. In
  `posting_concurrency` it holds although the recomputation takes no locks,
  because two vouchers on one balance row wait for each other's row lock and the
  second then sees the lines of the first committed; `running_two_months` shows
  that this protection ends where the balance rows differ.
- `TrialBalanceWithinTolerance`: rounding differences add up to at most one
  tolerance per voucher posted by hand; half-saved drafts add none.
- `AtMostOneClosing`, `ClosedPeriodGainsNothing`, `ClosingTransfersResult`:
  what closing means.
- `PendingIsCurrent`: what a transaction read or wrote on a locked row is
  based on the committed balance. This is the reason `CommittedIsProjection`
  holds.
- `EveryRequestEnds`: no request waits for ever.
- `KeepsContract`: the refinement.

- `BalanceIsRebuild`, `RunningIsCumulative` (DNSN): the
  rebuild under a row lock keeps balances right even when one voucher is
  unposted by two requests, where the general ledger subtracts twice.
  Running balances hold because a recomputation that saw an entry being deleted
  fails on its update and rolls everything back. `KeepsContract` is the same
  abstract specification as in `posting_concurrency`, without closings.
- `RowsAddUp`, `BooksFollowRegister`: an asset is depreciated once a month, and
  the accumulated depreciation accounts together carry what the register says
  (one of them need not, since a run books everything on the first). The unique number of the
  voucher is what keeps overlapping runs of one month apart.
- `PostedRunIsBooked`, `PostedBatchIsComplete`: payroll runs and revaluation
  batches say "posted" only when their vouchers are there.
- `NothingStaysDue`: a template that fails stops neither the others nor itself.
- `BooksMatchVouchers`, `NothingWithoutInvoice`, `DeletionIsComplete`: a
  deletion that dies and is repeated, that finds the voucher gone, or that meets a
  change of regime leaves no amount behind.
- `ClosedMonthTakesOnlyPending`: a closed month does gain amounts, those of
  requests that had passed the period check when it was closed, and in neither
  regime any others. `post_into_closed` is the same race statement by statement.
- `LedgerIsSumOfDocuments`: the ledger is the sum of the committed documents
  in every warehouse where no save has overwritten a later commit. The code
  does lose updates there; the property says that this is the *only* way in
  which ledger and documents come apart (not rollbacks, deadlocks, refused
  numbers, counts or transfers to the same warehouse).
  `EveryMovementEnds`: opposite transfers do not wait for ever.
- `ChainIsFollowed`: two approvers of one step take it twice or take the next
  one too, but no step is passed over, on requests that no submission or rejection
  shared with another client. `DecidedStaysDecided`: a decision is changed only by
  a client that held the request when it was made; nobody who comes later can.
  That those who held it do change it is `rejection_blocks`.
- `ProcessedIsSearchable`, `NothingAfterDeletion`, `AttemptSettles`: killed
  workers and failed attempts leave no second copy, no half document, no leftovers
  and no document in "processing" for ever, as long as attempts follow one
  another.
- `ReportsFollowLines`: the year to date report is a function of the posted
  lines and the openings.
- `MatchesAreRight`: a voucher is matched twice only by runs that overlapped, a
  transaction only by such runs or after a death between its match and its flag;
  what is flagged has a match, and a run that ended has left nothing unmatched
  that it could have matched.
- `MergesAreKept`, `IndexIsComplete`, `LogKeepsIngests`: what an ingest adds to
  a concept page is lost only to an overlapping ingest that names the concept
  too; the index misses only pages of an ingest that overlapped with its writer;
  ingests never lose each other's log lines, because the log is read after the
  index has been locked.
- `NumbersAreSequential`: publications that follow one another number the
  e-invoices of a month 1, 2, 3, ...; the comment at the property lists the
  cases that break it.

The seven violations are recorded as findings, with the lines of the code and
of the documentation they set against each other.

**Bounds.** `MaxVoucher` bounds voucher ids ever allocated: three are enough
for a document, a closing and a second document or closing, after any number
of postings and unpostings. Two months are enough to tell "of this period" from
"of another one". `Tolerance` is 1 and one document is off by exactly 1.
In `PostingConcurrency` the requests are fixed by a plan: a plan with more
requests repeats what two requests on one row and two closings of one month
already do to each other.

Several properties of the newer modules are stated for the cases in which they
hold, and the model can be run without the restriction to see the others.
What the code does in them is worth knowing:

- *Month end.* Runs of different months that overlap lose a share of
  depreciation (`accumulated_depreciation` is read before and saved after), a
  disposal that overlaps a run books an amount that is no longer right and the
  run makes the asset active again, and a disposal on a second day books again.
  In the run, requests of one day book the month of that day and disposals do
  not overlap (`Alone`). A calculation that overlaps a posting resets the posted
  payroll run (`Alone` again). A revaluation that dies leaves a draft batch that
  blocks its month, and its voucher is never posted at all. A recurring template
  that was not triggered for a month does not catch up.
- *Invoices.* Two deletions of one invoice of the general ledger that overlap
  both subtract its amounts, as `post_twice` shows for postings: `Overlap`
  keeps them apart.
- *Approvals.* A submission beside another, and a rejection beside an approval,
  can leave two requests or a rejected step below an approved one
  (`rejection_blocks`); `ChainIsFollowed` excepts such requests (`crossed`).
  A client that dies between saving a rejected step and the request leaves a
  request that can still be approved (`HalfRejected`), one that dies in
  `submit` leaves a shorter chain. Rejecting asks for no role.
- *Documents.* A retry of the first processing, or a worker that gets a task
  another is still running, stores a second copy of the chunks: `overlapped`.
- *Wiki.* Two sources that name one concept and are ingested at once: the
  later save overwrites the other's text, and so does a question that has read
  the log before an ingest commits its line. Two ingests that name concepts in
  opposite orders deadlock, and the one rolled back is not tried again.
- *E-invoices.* A cancelled e-invoice is not counted, so the next one gets a
  number that exists; so do two publications at once, a repeated publication of
  one e-invoice, and every publication in the first seven hours of a month
  (local time), when the month counted is still the one before. The save that
  attaches a PDF undoes a cancellation made while it was rendered.
- *Bank.* Two runs that overlap can match one voucher with two transactions, or
  one transaction with two vouchers; a worker that dies between the match and the
  transaction leaves a transaction that is matched again.

**Bounds** of these runs: three to five requests, enough for two that meet and
one that follows; chains of two roles; statements of three rows; two failed
attempts before the queue gives up; two faults (kills or early redeliveries),
one death among approvers or bank requests; three days for two months; three
invoices, two of one number; five vouchers in two years, with two customers on
one account; two sources and two concepts named in either order or not at all
(what a third adds is another pair of overlapping ingests); two e-invoices, two
months (`LastMonth`), which is a month's end in both time zones.

**Deadlock checking** is off because the systems stop: ids run out in
`GeneralLedger` and all requests end in the other modules.

**Fairness.** `FairSpec` asks weak fairness of `Work(q)` for every request:
a worker that is not waiting executes its next statement, a free lock is
granted and the database detects deadlocks (InnoDB does so by default). It asks
nothing of `Crash`. Weak fairness is enough because a statement that waits for
a row lock is enabled again as soon as the holder ends, and holders end.

`DnsnLedger` and `MCOffice` ask less: that some request (or some worker of the
queue, or some stock movement) that can go on does. That is enough because each
has finitely many statements; it is what a running server and a running queue
cluster provide. Killed workers and early redeliveries are bounded by
`MaxFaults`, since no queue settles a task whose workers are killed for ever.

## 4. Proofs

`GeneralLedgerProofs` proves, for every chart, document set, number of
vouchers and tolerance, under the assumptions named in `GeneralLedger` (finite
sets of accounts and objects, months 1 to 12, documents are sequences of
lines):

- `TypeCorrect`: `Spec => []TypeOK`, one lemma per action.
- `BalanceIsAlwaysProjection`: `Spec => []BalanceIsProjection`. The invariant
  is not inductive as it stands. `ProjectionInv` adds two facts:
  `PostedRowsExist` (posted lines are on existing rows; without it a rename
  could move lines onto a row it believes absent) and `DropIsDraft` (a voucher
  waiting to be deleted is a draft; without it the delete could drop a posted
  voucher). The argument is one lemma for gaining a posted voucher, one for
  losing one and one for steps that keep them; posting, unposting and closing
  are instances, and renaming is the case that needs the row argument. All sums
  go through `SumLemmas`, which proves its facts about
  `SumFunctionOnSet` of the community modules from the definition of `FoldFunction`.
- `RunningStaysCumulative`: `Spec => []RunningIsCumulative`. A step recomputes
  the accounts of one voucher; the lemma `RunningKept` says what it must leave
  alone elsewhere: the posted lines of the other accounts, their headers and
  what they show (`LinesAsBefore`, `AsBefore`). `Stale` carries the renamed code
  from the rename to its recomputation, or past the crash between them. The
  proof uses `DropIsDraft` of `ProjectionInv`: erasing a posted voucher would
  leave the totals of the others behind.
- `TrialBalanceStaysWithinTolerance`: `Spec => []TrialBalanceWithinTolerance`.
  `NetIsVouchers` turns the sum over the rows of a period, by `ProjectionInv`,
  into a sum over its posted vouchers (`SumSwapped`); the invariant `DriftInv`
  says what a voucher may be off by. A closing must be off by exactly nothing
  even as a draft, because a draft left by a dead reopening can be posted again.
- `ClosingAlwaysTransfersResult`: `Spec => ClosingTransfersResult`. `ClosingNet`
  computes what `ClosingLines` adds to any set of accounts, over any number of
  rows; that it adds nothing to all of them together is the same lemma.
- `OneClosingPerPeriod`: `Spec => []AtMostOneClosing`. Only `ClosePeriod`
  makes a closing voucher appear, and only when there is none.
- `NothingJoinsClosedPeriod`: `Spec => ClosedPeriodGainsNothing`.

`PostingConcurrencyProofs` proves, for any number of requests, vouchers, rows
and months, `TypeCorrect` for every plan and the following for plans with
`DistinctVouchers` (no two requests work on one voucher: `post_twice` shows that
the first of them fails otherwise):

- `CommittedBalancesAreProjections`, `ReadsStayCurrent`: `Spec =>
  []CommittedIsProjection` and `Spec => []PendingIsCurrent`. The inductive
  invariant `PostingInv` has, per request, `StatusKnown` (what was loaded
  stays true: nobody else changes the voucher), `RowsCovered` (a row with an
  amount is still to do or locked), `RowsDone`, `ReadIsLocked` and `Pending`
  (the reading of `PendingIsCurrent` for one request). At the commit, a locked
  row holds the committed balance plus the amount and a row without lock has
  amount zero, so the balances move by exactly the amounts of the voucher
  (`CommitMoves`). `Frame` says what a step of one request leaves alone of
  another; with it each action is considered only for the request that takes it.
- `OneClosingPerMonth`: `Spec => []AtMostOneClosing`. `ClosingInv` adds that a
  request that has inserted its closing voucher has the month for itself, both
  against committed closings and against other uncommitted ones.
- `ContractIsKept`: `Spec => KeepsContract`, the refinement: a commit is a step
  of `PostingContract`, `DeleteVoucher` is its `Delete`, everything else
  stutters.
- `RunningStaysCumulative`: `Spec => []RunningIsCumulative`, also under
  `RowsAreMonthly` (a row is one account of one month, and documents are kept on
  rows of their month) and `OneMonth`, as in `posting_concurrency`;
  `running_two_months` shows that it fails for requests of two months.
  `LinesInv` says that what a request has computed for a line is still its total
  when the UPDATE is executed and when the transaction commits. The point is
  `NoAccountInCommon`: two requests past their rows hold the locks of their
  rows, and within a month two vouchers on one account are on one row, so a
  request that commits in between moves no account of the other (`LinesStay`).

`DnsnLedgerProofs` proves, for any requests, vouchers, months and ledger types,
under `ConvertedApart` (nobody posts or removes in a month while it is
converted: `convert` reads the whole row before it locks it, so it would write
back movements that are no longer there):

- `BalancesAreRebuilt`: `Spec => []BalanceIsRebuild`. `DnsnInv` adds, per
  request, `AtVoucher` (what the voucher can be at this statement), `AtEntries`
  (what it has inserted or deleted is all of its voucher, in rows it has locked or
  has still to lock), `AtRows` (a locked row is rebuilt from the entries the
  transaction sees) and `AtConversion`; and, between requests, that entries
  follow the status and that no two have deleted the same entry. The point is
  `CommitKeeps`: entries of another voucher on a locked row cannot appear or
  vanish between the rebuild and the commit, since whoever changes them has to
  lock the row too, and a second removal of one voucher finds nothing.
- `DnsnKeepsContract`: `Spec => KeepsContract`, from the same invariant: a commit
  is a `Post` or `Unpost` of the contract or changes nothing, `DropVoucher` is
  its `Delete`.
- `RunningStaysCumulative`: `Spec => []RunningIsCumulative`, when moreover
  `MonthsApart`: a posting meets no posting of another month, and a removal in
  another month only of a voucher nobody else removes. `RunInv` says, per
  request, that what it has computed is right for the entries it sees and covers
  every type it is done with (`AtUpdates`), unless it is `Doomed`: an entry it
  has still to update was deleted, so that update is going to raise. The point is
  `CommitMeets`: a commit that changes entries of such a type is in another
  month, because of the row locks; a removal there deletes an entry the first
  request cannot have updated (`HeldOnce`: updated entries and deleted ones
  exclude each other) and so dooms it; a posting there would have had to update
  the entry the first has deleted. Without the hypothesis the property is false:
  the second removal of a voucher deletes nothing, so it meets no lock and
  rewrites what it has read before a posting of another month has committed (TLC
  finds it for one posting and two such removals), as two postings of different
  months do.

`MonthEndProofs` proves, for any days, months, templates, assets and plans:

- `DueIsRun`: `Spec => []NothingStaysDue`, and `PostedBatchesAreComplete`:
  `Spec => []PostedBatchIsComplete`. `ScheduleInv` says where each request can
  be, that what runs alone meets nobody, and which templates a run of the due
  list has still before it; `FxInv` what each insert of a revaluation relies on.
- `PostedRunsAreBooked`: `Spec => []PostedRunIsBooked`, when a payroll that is
  posted runs alone. A calculation that has read the run before the posting
  would reset what was posted.
- `AssetRowsAddUp` and `BooksAreTheRegister`: `Spec => []RowsAddUp` and `Spec =>
  []BooksFollowRegister`, under `RegisterData`: disposals run alone
  (`dispose` works on the instance the view has loaded), an asset is registered
  and disposed of by one request each (`dispose` does not look at the status),
  explicit runs are of one month and not beside the scheduler (`calculate_period`
  saves accumulated amounts it has read before, and only the unique number of a
  month's voucher stops a second run of that month), and assets cost
  something. `RegisterInv` says that what a run has found is still so as long as
  the month has no voucher; with a voucher, its commit is refused.

The `Office` modules prove the following for any values of the constants.
`Office` puts eight components side by side, so each proof has an invariant of
one component and a step of another leaves its variables alone.

- `DeletionIsFinal`, `RestIsSearchable`. `DInv`: nothing is stored for a document
  that is gone, because the transaction that stores looks for it, and the
  cascade clears what was stored before; while attempts do not overlap, what an
  attempt finds at each of its steps is what it has left there.
- `WikiKeepsMerges`, `WikiIndexIsComplete`, `WikiKeepsLog`. `WInv`: what a
  transaction has read of a page and is going to save has the text of everybody
  who is filed, or they have met, or it was lost before; the row lock of the
  index is what makes the log line safe.
- `InvoicesMatchBooks`, `InvoicesLeaveBooks`, `InvoicesAreDeleted`, when requests
  on one invoice of the general ledger do not overlap (`~IOverlap`), and
  `ClosedMonthsTakeOnlyPending` without that hypothesis: `ILate` says that a
  request which is past the check of a closed month was so when it was closed.
- `StockIsSumOfDocuments`. `SInv`: rows have one writer, and what a movement has
  saved is the committed quantity with its own change, unless it is stale; sums
  over documents are split at the one that commits.
- `ReportsShowLines`: the balance of a month is a sum of lines over the vouchers
  posted in it, and the report is the sum of these sums by parts.
- `ApprovalsFollowChain`, `DecisionsAreFinal`, without hypotheses. `AInv` says,
  of every request that is not `crossed` (`AGood`), what a client that acts on it
  knows of its status and steps (`AKnows`), where its submission has got to
  (`ASubmits`, `AShape`) and that a rejected step is the last one decided
  (`ARejects`). `ALate` says that whoever acts on a decided request held it when
  it was decided; a client that loads it later is turned away.
- `MatchingIsRight`, without hypotheses. `BMeets`: runs that match at the same
  time have met. `BVouchers`, `BTransactions`: a run that is about to match a
  voucher, or has a transaction before it, knows whoever has matched it already,
  or that one died. `BRest`: what a run has selected is before it, at hand,
  flagged, or without a free candidate.
- `EInvoicesAreNumbered`: the numbers of a month are 1 to n as long as nothing
  irregular has happened, by cardinalities.

Where there are hypotheses, they are those under which the runs of section 3 are
set up as well;
that section says what the code does without them.

What the proofs assume of constants are the named assumptions of the modules:
sets that are finite, candidates and documents that are sequences, plans that
are functions from requests to jobs. TLC evaluates them on every run.

Every safety invariant and action property of a passing run is stated by a
theorem, under the hypotheses given above. Liveness (`EveryRequestEnds`,
`EveryMovementEnds`, `AttemptSettles`) stays with TLC: fairness and ENABLED are
out of the prover's reach.

## 5. Plan

1. Proofs: the running balances of `DnsnLedger` and `PostingConcurrency` under
   hypotheses that name the pairs of requests that may not meet, instead of
   months, and the cases in which they do meet as runs that expect a violation.
2. `PostingConcurrency`: a deletion racing a posting of one voucher.
3. Voucher numbers: automatic numbering and renumbering under a unique key.
4. The edit view of DNSN vouchers and the API's PATCH.
5. The offline client: caches of the service worker and drafts.

## 6. Not modelled

Reports, exports and page layout (read-only); permissions and tenants (checked
per request, no protocol); prompts, search and text extraction of the PKM
module, the editing of notes and wiki pages by hand; the provider API of
e-invoices, which is a stub; the CRUD forms of budgets, bidding, contracts,
guarantees, loans, projects, costing, CRM and master data, which save one record
per request and share no state between requests; seeding commands; the offline
client. This is most of the repository by lines (URL tables, forms, page views,
seeds, exports): the models cover the services that change the books or run as
protocols, a few thousand lines of some fifty thousand.

MariaDB, Django, django-q and the process that dies are external: they are
modelled by what the code relies on (row locks held to the end of the
transaction, READ COMMITTED reads, unique keys that wait for an uncommitted
rival, rollback on exception, deadlock victims, cascading foreign keys, tasks
delivered again when they are not acknowledged).
