------------------------- MODULE PostingConcurrency -------------------------
(***************************************************************************)
(* Requests that post, close, unpost and delete vouchers at the same time, *)
(* in the worker processes of the web server, against one MariaDB          *)
(* database.  A step is one SQL statement.  The database runs at READ      *)
(* COMMITTED: a plain SELECT sees what is committed, SELECT ... FOR UPDATE *)
(* and UPDATE take the lock of the row first, a lock is kept until the     *)
(* transaction ends, and a cycle of waiting transactions loses one of them.*)
(*                                                                         *)
(* status, amount, balance and running are the committed data; what a      *)
(* transaction has written and not yet committed is in `written`, `kc` and *)
(* `updated`.                                                              *)
(***************************************************************************)
EXTENDS Integers, FiniteSets, Functions

CONSTANTS
    Requests,       \* requests being served
    Vouchers,       \* voucher ids
    Rows,           \* balance rows: <<period, account>>
    Closing,        \* the ids among Vouchers that closing vouchers get
    PeriodOf,       \* voucher id -> period
    Job,            \* request -> what it does, and to which voucher
    Revenue,        \* rows of the accounts 511, 515, 711, ...
    Expense,        \* rows of the accounts 632, 635, 641, ...
    Profit,         \* period -> the row of account 421
    InitialStatus,  \* voucher id -> status when the requests arrive
    InitialAmount,  \* voucher id -> row -> signed amount of its lines
    NoOne           \* the owner of a free lock

Statuses == {"unused", "draft", "posted", "deleted"}
Jobs     == [op : {"post", "remove", "close"}, voucher : Vouchers]

ASSUME SetAssumption ==
    /\ Vouchers \subseteq Nat /\ IsFiniteSet(Vouchers)
    /\ PeriodOf \in [Vouchers -> 1..12]
    /\ IsFiniteSet(Rows)
    /\ Closing \subseteq Vouchers
    /\ Rows # {} /\ Revenue \cup Expense \subseteq Rows
    /\ Revenue \cap Expense = {}
    /\ NoOne \notin Requests
ASSUME JobAssumption ==
    /\ Job \in [Requests -> Jobs]
    /\ \A q \in Requests :
           Job[q].op = "close" <=> /\ Job[q].voucher \in Closing
                                   /\ InitialStatus[Job[q].voucher] = "unused"
ASSUME DataAssumption ==
    /\ InitialStatus \in [Vouchers -> Statuses]
    /\ InitialAmount \in [Vouchers -> [Rows -> Int]]
    /\ \A p \in {PeriodOf[v] : v \in Vouchers} : Profit[p] \in Rows \ (Revenue \cup Expense)
    /\ \A v, w \in Closing :
           /\ InitialStatus[v] \in {"draft", "posted"}
           /\ InitialStatus[w] \in {"draft", "posted"}
           /\ PeriodOf[v] = PeriodOf[w]
           => v = w

VARIABLES
    status,    \* committed accounting_voucher.status
    amount,    \* committed voucher_line amounts, summed per row
    balance,   \* committed account_period_balance movements
    lock,      \* balance row -> the request whose transaction locks it
    pc,        \* request -> what it does next
    seen,      \* request -> status of the voucher instance it loaded
    todo,      \* request -> rows its transaction has still to update
    row,       \* request -> the row it has just read
    value,     \* request -> the value it read
    written,   \* request -> row -> value it has written, if it has
    kc,        \* request -> amounts of the closing voucher it inserted
    running,   \* committed running balances of the voucher lines
    stale,     \* request -> line updates it has computed and not executed
    updated    \* request -> line updates it has executed: it locks these lines

data   == <<status, amount, balance, running>>
locals == <<seen, todo, row, value, written, kc, stale, updated>>
vars   == <<data, lock, pc, locals>>

Sum(f, S) == SumFunctionOnSet(f, S)

Target(q) == Job[q].voucher
Op(q)     == Job[q].op
Period(q) == PeriodOf[Target(q)]
SignAlways(q) == 1  \* mutant
Sign(q)   == IF Op(q) = "remove" THEN -1 ELSE 1

\* The status it commits.
OutcomeLocked(q) == IF Op(q) = "remove" THEN "draft" ELSE "locked"  \* mutant
Outcome(q)       == IF Op(q) = "remove" THEN "draft" ELSE "posted"

\* The amounts q adds to, or takes from, the balance rows.
Amounts(q)    == IF Op(q) = "close" THEN kc[q] ELSE amount[Target(q)]
RowsHit(a)    == {r \in Rows : a[r] # 0}

InTransaction == {"insert", "rows", "write", "clear", "recompute", "lines", "commit"}
Exists(v)     == status[v] \in {"draft", "posted"}
ClosingOf(p)  == {w \in Closing : PeriodOf[w] = p /\ Exists(w)}

Projection(r) == LET posted == {v \in Vouchers : status[v] = "posted"}
                 IN  Sum([v \in posted |-> amount[v][r]], posted)

\* The voucher lines, one per voucher and row; `amountOf` gives their amounts.
LinesOf(vs, amountOf) == {x \in vs \X Rows : amountOf[x[1]][x[2]] # 0}

\* Lines are ordered by date and voucher id; within a month the vouchers carry
\* dates in the order of their ids.
UpTo(v, w) == PeriodOf[v] < PeriodOf[w] \/ (PeriodOf[v] = PeriodOf[w] /\ v <= w)

\* The running balance of line x among the lines L.
Cumulative(L, amountOf, x) ==
    LET upTo == {y \in L : y[2][2] = x[2][2] /\ UpTo(y[1], x[1])}
    IN  Sum([y \in upTo |-> amountOf[y[1]][y[2]]], upTo)

PostedLines == LinesOf({v \in Vouchers : status[v] = "posted"}, amount)

NoRow    == CHOOSE r \in Rows : TRUE
NoAmount == [r \in Rows |-> 0]

Init ==
    /\ status  = InitialStatus
    /\ amount  = InitialAmount
    /\ balance = [r \in Rows |->
                     LET posted == {v \in Vouchers : InitialStatus[v] = "posted"}
                     IN  Sum([v \in posted |-> InitialAmount[v][r]], posted)]
    /\ lock    = [r \in Rows |-> NoOne]
    /\ pc      = [q \in Requests |-> "start"]
    /\ seen    = [q \in Requests |-> "unused"]
    /\ todo    = [q \in Requests |-> {}]
    /\ row     = [q \in Requests |-> NoRow]
    /\ value   = [q \in Requests |-> 0]
    /\ written = [q \in Requests |-> NoAmount]
    /\ kc      = [q \in Requests |-> NoAmount]
    /\ running = [v \in Vouchers |-> [r \in Rows |->
                     IF <<v, r>> \in PostedLines THEN Cumulative(PostedLines, amount, <<v, r>>)
                     ELSE 0]]
    /\ stale   = [q \in Requests |-> {}]
    /\ updated = [q \in Requests |-> {}]

Goto(q, next) == pc' = [pc EXCEPT ![q] = next]

\* The transaction of q ends: its locks are released and what it read and
\* did not commit is forgotten.
ReleaseNothing(q) == lock' = lock  \* mutant
Release(q) == lock' = [r \in Rows |-> IF lock[r] = q THEN NoOne ELSE lock[r]]
Forget(q)  ==
    /\ seen'    = [seen EXCEPT ![q] = "unused"]
    /\ todo'    = [todo EXCEPT ![q] = {}]
    /\ row'     = [row EXCEPT ![q] = NoRow]
    /\ value'   = [value EXCEPT ![q] = 0]
    /\ written' = [written EXCEPT ![q] = NoAmount]
    /\ kc'      = [kc EXCEPT ![q] = NoAmount]
    /\ stale'   = [stale EXCEPT ![q] = {}]
    /\ updated' = [updated EXCEPT ![q] = {}]

\* Mutant: the failure of an unpost is swallowed and the voucher deleted.
RollbackAndDelete(q) ==
    /\ Release(q)
    /\ Forget(q)
    /\ Goto(q, IF Op(q) = "remove" /\ pc[q] # "delete" THEN "delete" ELSE "ended")
    /\ UNCHANGED data

Rollback(q) ==
    /\ Release(q)
    /\ Forget(q)
    /\ Goto(q, "ended")
    /\ UNCHANGED data

\* The view loads the voucher, outside any transaction; 404 if it is gone.
Load(q) ==
    /\ pc[q] = "start"
    /\ Op(q) \in {"post", "remove"}
    /\ seen' = [seen EXCEPT ![q] = status[Target(q)]]
    /\ Goto(q, IF Exists(Target(q)) THEN "loaded" ELSE "ended")
    /\ UNCHANGED <<data, lock, todo, row, value, written, kc, stale, updated>>

\* post: the status tested is the one loaded; the period check is a SELECT.
BeginPost(q) ==
    /\ pc[q] = "loaded"
    /\ Op(q) = "post"
    /\ IF seen[q] = "posted" \/ ClosingOf(Period(q)) \ {Target(q)} # {}
       THEN Rollback(q)
       ELSE /\ Goto(q, "rows")
            /\ todo' = [todo EXCEPT ![q] = RowsHit(amount[Target(q)])]
            /\ UNCHANGED <<data, lock, seen, row, value, written, kc, stale, updated>>

\* unpost, the first half of deleting a voucher or reopening a period; a
\* draft is deleted straight away.
BeginUnpost(q) ==
    /\ pc[q] = "loaded"
    /\ Op(q) = "remove"
    /\ Goto(q, IF seen[q] = "posted" THEN "rows" ELSE "delete")
    /\ todo' = [todo EXCEPT ![q] =
                   IF seen[q] = "posted" THEN RowsHit(amount[Target(q)]) ELSE {}]
    /\ UNCHANGED <<data, lock, seen, row, value, written, kc, stale, updated>>

\* close_period: skipped when the period has a closing voucher or nothing to
\* close; otherwise the balances are read, without locks, and the lines
\* computed.  Only revenue that stands in credit and expense that stands in
\* debit is closed.
ToClose(p) == {r \in Rows : /\ r[1] = p
                            /\ \/ r \in Revenue /\ balance[r] < 0
                               \/ r \in Expense /\ balance[r] > 0}

ClosingAmounts(p) ==
    LET closed == ToClose(p)
    IN  [r \in Rows |-> IF r \in closed THEN -balance[r]
                        ELSE IF r = Profit[p] THEN Sum([x \in closed |-> balance[x]], closed)
                        ELSE 0]

BeginClose(q) ==
    LET a    == ClosingAmounts(Period(q))
        skip == ClosingOf(Period(q)) # {} \/ ToClose(Period(q)) = {}
    IN
    /\ pc[q] = "start"
    /\ Op(q) = "close"
    /\ Goto(q, IF skip THEN "ended" ELSE "insert")
    /\ kc' = [kc EXCEPT ![q] = IF skip THEN @ ELSE a]
    /\ UNCHANGED <<data, lock, seen, todo, row, value, written, stale, updated>>

\* INSERT of the closing voucher.  Its number KC-yyyymm is unique: the insert
\* waits for an uncommitted rival and fails on a committed one.
Inserted(q) == Op(q) = "close" /\ pc[q] \in InTransaction \ {"insert"}

NeverDuplicate(q)  == FALSE  \* mutant
DuplicateNumber(q) == ClosingOf(Period(q)) # {}

InsertClosing(q) ==
    /\ pc[q] = "insert"
    /\ \A x \in Requests : Inserted(x) => Period(x) # Period(q)
    /\ IF DuplicateNumber(q)
       THEN Rollback(q)
       ELSE /\ Goto(q, "rows")
            /\ todo' = [todo EXCEPT ![q] = RowsHit(kc[q])]
            /\ UNCHANGED <<data, lock, seen, row, value, written, kc, stale, updated>>

\* Mutant: the row is read without select_for_update.
ReadRowUnlocked(q, r) ==
    /\ pc[q] = "rows"
    /\ r \in todo[q]
    /\ row'   = [row EXCEPT ![q] = r]
    /\ value' = [value EXCEPT ![q] = balance[r]]
    /\ Goto(q, "write")
    /\ UNCHANGED <<data, lock, seen, todo, written, kc, stale, updated>>

\* select_for_update().get_or_create(...) on the row of the next line.
ReadRow(q, r) ==
    /\ pc[q] = "rows"
    /\ r \in todo[q]
    /\ lock[r] \in {NoOne, q}
    /\ lock'  = [lock EXCEPT ![r] = q]
    /\ row'   = [row EXCEPT ![q] = r]
    /\ value' = [value EXCEPT ![q] = balance[r]]
    /\ Goto(q, "write")
    /\ UNCHANGED <<data, seen, todo, written, kc, stale, updated>>

\* balance.save(): an UPDATE with the value computed from the one read.
WriteRow(q) ==
    LET r == row[q] IN
    /\ pc[q] = "write"
    /\ lock[r] \in {NoOne, q}
    /\ lock'    = [lock EXCEPT ![r] = q]
    /\ written' = [written EXCEPT ![q][r] = value[q] + Sign(q) * Amounts(q)[r]]
    /\ todo'    = [todo EXCEPT ![q] = @ \ {r}]
    /\ row'     = [row EXCEPT ![q] = NoRow]
    /\ value'   = [value EXCEPT ![q] = 0]
    /\ Goto(q, "rows")
    /\ UNCHANGED <<data, seen, kc, stale, updated>>

\* voucher.save(update_fields=...): fails, and rolls back, when the voucher
\* has been deleted meanwhile; waits while another transaction has saved it.
Saved(q) == pc[q] \in {"clear", "recompute", "lines", "commit"}

SaveVoucher(q) ==
    /\ pc[q] = "rows"
    /\ todo[q] = {}
    /\ \A x \in Requests \ {q} : Target(x) = Target(q) => ~Saved(x)
    /\ IF Op(q) # "close" /\ ~Exists(Target(q))
       THEN Rollback(q)
       ELSE /\ Goto(q, IF Op(q) = "remove" THEN "clear" ELSE "recompute")
            /\ UNCHANGED <<data, lock, locals>>

\* unpost clears the running balances of the voucher itself: an UPDATE, which
\* locks the lines.
LineLocked(q, v, r) == \E u \in updated[q] : u[1] = v /\ u[2] = r
OwnLines(q)         == LinesOf({Target(q)}, amount)

ClearLines(q) ==
    /\ pc[q] = "clear"
    /\ \A x \in Requests \ {q}, l \in OwnLines(q) : ~LineLocked(x, l[1], l[2])
    /\ updated' = [updated EXCEPT ![q] = {<<l[1], l[2], 0>> : l \in OwnLines(q)}]
    /\ Goto(q, "recompute")
    /\ UNCHANGED <<data, lock, seen, todo, row, value, written, kc, stale>>

\* The posted vouchers the transaction of q sees: the committed ones, and its
\* own target as it has just saved it.
PostedCommitted(q) == {v \in Vouchers : status[v] = "posted"}  \* mutant
PostedSeen(q) ==
    LET committed == {v \in Vouchers : status[v] = "posted"}
    IN  IF Op(q) = "remove" THEN committed \ {Target(q)} ELSE committed \cup {Target(q)}

\* _recompute_running_balances_for_codes, its SELECT: the posted lines of the
\* accounts of the voucher, without locks.
Recompute(q) ==
    LET own   == [amount EXCEPT ![Target(q)] = Amounts(q)]
        codes == {r[2] : r \in RowsHit(Amounts(q))}
        lines == {x \in LinesOf(PostedSeen(q), own) : x[2][2] \in codes}
    IN
    /\ pc[q] = "recompute"
    /\ stale' = [stale EXCEPT ![q] = {<<x[1], x[2], Cumulative(lines, own, x)>> : x \in lines}]
    /\ Goto(q, "lines")
    /\ UNCHANGED <<data, lock, seen, todo, row, value, written, kc, updated>>

\* One UPDATE per line, with the value computed above; it hits nothing when
\* the voucher has been deleted meanwhile.
UpdateLine(q) ==
    \E u \in stale[q] :
        /\ pc[q] = "lines"
        /\ \A x \in Requests \ {q} : ~LineLocked(x, u[1], u[2])
        /\ stale'   = [stale EXCEPT ![q] = @ \ {u}]
        /\ updated' = [updated EXCEPT ![q] = IF status[u[1]] = "deleted" THEN @ ELSE @ \cup {u}]
        /\ UNCHANGED <<data, lock, pc, seen, todo, row, value, written, kc>>

EndRecompute(q) ==
    /\ pc[q] = "lines"
    /\ stale[q] = {}
    /\ Goto(q, "commit")
    /\ UNCHANGED <<data, lock, locals>>

Commit(q) ==
    /\ pc[q] = "commit"
    /\ status'  = [status EXCEPT ![Target(q)] = Outcome(q)]
    /\ amount'  = [amount EXCEPT ![Target(q)] = Amounts(q)]
    /\ balance' = [r \in Rows |-> IF lock[r] = q THEN written[q][r] ELSE balance[r]]
    /\ running' = [v \in Vouchers |-> [r \in Rows |->
                      IF LineLocked(q, v, r)
                      THEN (CHOOSE u \in updated[q] : u[1] = v /\ u[2] = r)[3]
                      ELSE running[v][r]]]
    /\ Release(q)
    /\ Forget(q)
    /\ Goto(q, IF Op(q) = "remove" THEN "delete" ELSE "ended")

\* voucher.delete(), after the unpost has committed: the row and its lines.
DeleteVoucher(q) ==
    /\ pc[q] = "delete"
    /\ \A x \in Requests \ {q} : Target(x) = Target(q) => ~Saved(x)
    /\ \A x \in Requests \ {q}, r \in Rows : ~LineLocked(x, Target(q), r)
    /\ status' = [status EXCEPT ![Target(q)] = "deleted"]
    /\ Goto(q, "ended")
    /\ Forget(q)
    /\ UNCHANGED <<amount, balance, running, lock>>

(***************************************************************************)
(* Waiting, deadlock and failure.                                          *)
(***************************************************************************)
\* q may be waiting for x to end its transaction: the lines come in any
\* order, so the next row may be any of those left.
WaitsFor(q, x) ==
    \/ pc[q] = "rows" /\ q # x /\ \E r \in todo[q] : lock[r] = x
    \/ pc[q] = "rows" /\ q # x /\ todo[q] = {} /\ Saved(x) /\ Target(x) = Target(q)
    \/ pc[q] = "insert" /\ Inserted(x) /\ Period(x) = Period(q)
    \/ pc[q] = "clear" /\ q # x /\ \E l \in OwnLines(q) : LineLocked(x, l[1], l[2])
    \/ pc[q] = "lines" /\ q # x /\ \E u \in stale[q] : LineLocked(x, u[1], u[2])

Deadlocked(S) == S # {} /\ \A q \in S : \E x \in S : WaitsFor(q, x)

\* The database breaks a deadlock by rolling one transaction back.
DeadlockVictim(q) ==
    /\ \E S \in SUBSET Requests : q \in S /\ Deadlocked(S)
    /\ Rollback(q)

\* The worker process or its connection dies.
Crash(q) == pc[q] \notin {"start", "ended"} /\ Rollback(q)

Work(q) ==
    \/ Load(q) \/ BeginPost(q) \/ BeginUnpost(q) \/ BeginClose(q) \/ InsertClosing(q)
    \/ (\E r \in Rows : ReadRow(q, r)) \/ WriteRow(q) \/ SaveVoucher(q)
    \/ ClearLines(q) \/ Recompute(q) \/ UpdateLine(q) \/ EndRecompute(q)
    \/ Commit(q) \/ DeleteVoucher(q) \/ DeadlockVictim(q)

Next == \E q \in Requests : Work(q) \/ Crash(q)

Spec == Init /\ [][Next]_vars

\* A worker that is not waiting for a lock executes its next statement, a
\* free lock is granted and deadlocks are detected.
FairSpec == Spec /\ \A q \in Requests : WF_vars(Work(q))

-----------------------------------------------------------------------------
(***************************************************************************)
(* Properties                                                              *)
(***************************************************************************)
TypeOK ==
    /\ status \in [Vouchers -> Statuses]
    /\ amount \in [Vouchers -> [Rows -> Int]]
    /\ balance \in [Rows -> Int]
    /\ lock \in [Rows -> Requests \cup {NoOne}]
    /\ pc \in [Requests -> {"start", "loaded", "delete", "ended"} \cup InTransaction]
    /\ seen \in [Requests -> Statuses]
    /\ todo \in [Requests -> SUBSET Rows]
    /\ row \in [Requests -> Rows]
    /\ value \in [Requests -> Int]
    /\ written \in [Requests -> [Rows -> Int]]
    /\ kc \in [Requests -> [Rows -> Int]]
    /\ running \in [Vouchers -> [Rows -> Int]]
    /\ stale \in [Requests -> SUBSET (Vouchers \X Rows \X Int)]
    /\ updated \in [Requests -> SUBSET (Vouchers \X Rows \X Int)]

\* The committed balances are those of the committed posted vouchers: no
\* posting is lost or applied twice, however the requests interleave, lose a
\* deadlock or die.
CommittedIsProjection == \A r \in Rows : balance[r] = Projection(r)

\* A locked row belongs to a running transaction, and what that transaction
\* read from it, or will commit on it, is built on the committed balance: the
\* read-modify-write of a row is never based on a stale read.
PendingIsCurrent ==
    \A q \in Requests, r \in Rows : lock[r] = q =>
        /\ pc[q] \in InTransaction \ {"insert"}
        /\ IF r \in todo[q]
           THEN pc[q] = "write" /\ row[q] = r /\ value[q] = balance[r]
           ELSE written[q][r] = balance[r] + Sign(q) * Amounts(q)[r]

\* Lines of posted vouchers show the cumulative balance of their account, lines
\* of drafts show nothing, although the lines are read without locks: two
\* vouchers on one balance row wait for each other.  (Two vouchers on one
\* account but on different rows do not.)
RunningIsCumulative ==
    LET posted == PostedLines IN
    \A x \in LinesOf({v \in Vouchers : Exists(v)}, amount) :
        running[x[1]][x[2]] = IF x \in posted THEN Cumulative(posted, amount, x) ELSE 0

\* Two requests closing the same period leave one closing voucher.
AtMostOneClosing ==
    \A v, w \in Closing : (Exists(v) /\ Exists(w) /\ PeriodOf[v] = PeriodOf[w]) => v = w

\* Every request ends, by finishing its work or by being rolled back.
EveryRequestEnds == \A q \in Requests : <>(pc[q] = "ended")

\* The committed data moves as PostingContract allows.
Committed     == INSTANCE PostingContract
KeepsContract == Committed!Contract

\* Documentation, not held by the code: a voucher is not posted into a period
\* whose closing voucher is already there.
NothingPostedIntoClosed ==
    [][\A v \in Vouchers \ Closing :
          (status[v] # "posted" /\ status'[v] = "posted") => ClosingOf(PeriodOf[v]) = {}]_vars
=============================================================================
