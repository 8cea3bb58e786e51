----------------------------- MODULE DnsnLedger -----------------------------
(***************************************************************************)
(* The single-entry ledgers of the TT58 regime: requests that post the     *)
(* voucher of an invoice, remove one (unpost, then delete), discard a      *)
(* draft and convert the balances of the double-entry books, statement by  *)
(* statement, under READ COMMITTED as in PostingConcurrency.               *)
(*                                                                         *)
(* Where the general ledger adds to a balance row, this one rebuilds it    *)
(* from the entries: the row is locked first and the entries are selected  *)
(* afterwards.  A voucher has at most one entry per ledger type; the four  *)
(* amount columns of an entry are one number.                              *)
(***************************************************************************)
EXTENDS Integers, FiniteSets, Functions

CONSTANTS
    Requests,       \* requests being served
    Vouchers,       \* dnsn_voucher ids
    Types,          \* ledger types: s1, s2b, s3b, ...
    Periods,        \* months
    PeriodOf,       \* voucher -> month
    EntryAmount,    \* voucher -> type -> amount of its entry, 0 for none
    Closed,         \* months with a closing voucher
    Mapped,         \* types some account of the old books maps to
    OldBalance,     \* balance row -> closing balance of those accounts
    Plans,          \* sets of jobs that meet: request -> what it does
    InitialStatus,  \* voucher -> status when the requests arrive
    NoOne           \* the owner of a free lock

Statuses == {"absent", "draft", "posted", "removed"}
Jobs == [op : {"post", "remove", "discard"}, voucher : Vouchers]
            \cup [op : {"convert"}, period : Periods]
Rows == Periods \X Types

ASSUME DnsnSets ==
    /\ Vouchers \subseteq Nat /\ IsFiniteSet(Vouchers)
    /\ Periods \subseteq Nat
    /\ IsFiniteSet(Types) /\ Mapped \subseteq Types
    /\ NoOne \notin Requests
ASSUME DnsnData ==
    /\ PeriodOf \in [Vouchers -> Periods]
    /\ EntryAmount \in [Vouchers -> [Types -> Int]]
    /\ OldBalance \in [Rows -> Int]
    /\ Plans \subseteq [Requests -> Jobs]
    /\ InitialStatus \in [Vouchers -> Statuses]
ASSUME FreshVouchers ==   \* a posting inserts a voucher with an id of its own
    \A plan \in Plans, q \in Requests : plan[q].op = "post" =>
        /\ InitialStatus[plan[q].voucher] = "absent"
        /\ \A x \in Requests \ {q} : plan[x].op # "convert" => plan[x].voucher # plan[q].voucher

VARIABLES
    job,        \* the plan being carried out
    status,     \* committed dnsn_voucher.status
    entries,    \* committed dnsn_ledger_entry rows: <<voucher, type>>
    running,    \* committed running_balance of the entries
    movement,   \* committed period columns of dnsn_ledger_balance
    opening,    \* committed opening columns
    closing,    \* committed closing columns
    lock,       \* balance row -> the request whose transaction locks it
    pc,         \* request -> what it does next
    seen,       \* request -> status of the voucher instance it loaded
    todo,       \* request -> types it has still to rebuild or convert
    redo,       \* request -> types whose running balances it has to recompute
    type,       \* request -> the type at hand
    value,      \* request -> the movement the conversion has read
    written,    \* request -> balance row -> movement it has written
    mine,       \* request -> entries it has inserted, or deleted
    stale,      \* request -> entry updates it has computed and not executed
    updated     \* request -> entry updates it has executed

data   == <<status, entries, running, movement, opening, closing>>
locals == <<seen, todo, redo, type, value, written, mine, stale, updated>>
vars   == <<job, data, lock, pc, locals>>

Op(q)      == job[q].op
Target(q)  == job[q].voucher
EntriesOf(v) == {e \in {v} \X Types : EntryAmount[v][e[2]] # 0}
TypesIn(E) == {e[2] : e \in E}
Amount(e)  == EntryAmount[e[1]][e[2]]
Total(E)   == SumFunctionOnSet([e \in E |-> Amount(e)], E)
Month(q)   == IF Op(q) = "convert" THEN job[q].period ELSE PeriodOf[Target(q)]
RowAt(q)   == <<Month(q), type[q]>>

EntriesAt(E, r) == {e \in E : PeriodOf[e[1]] = r[1] /\ e[2] = r[2]}

\* Entries are ordered by date and id: a month's vouchers carry dates in the
\* order of their ids.
NotAfter(d, e) == PeriodOf[d[1]] < PeriodOf[e[1]]
                     \/ (PeriodOf[d[1]] = PeriodOf[e[1]] /\ d[1] <= e[1])
Cumulative(E, e) == Total({d \in E : d[2] = e[2] /\ NotAfter(d, e)})

\* What a voucher adds to each balance row.
RowAmount == [v \in Vouchers |-> [r \in Rows |->
                 IF r[1] = PeriodOf[v] THEN EntryAmount[v][r[2]] ELSE 0]]

Resting == UNION {EntriesOf(v) : v \in {w \in Vouchers : InitialStatus[w] = "posted"}}
NoType  == CHOOSE t \in Types : TRUE

Init ==
    /\ job \in Plans
    /\ status   = InitialStatus
    /\ entries  = Resting
    /\ running  = [e \in Vouchers \X Types |-> IF e \in Resting THEN Cumulative(Resting, e) ELSE 0]
    /\ movement = [r \in Rows |-> Total(EntriesAt(Resting, r))]
    /\ opening  = [r \in Rows |-> 0]
    /\ closing  = movement
    /\ lock     = [r \in Rows |-> NoOne]
    /\ pc       = [q \in Requests |-> "start"]
    /\ seen     = [q \in Requests |-> "absent"]
    /\ todo     = [q \in Requests |-> {}]
    /\ redo     = [q \in Requests |-> {}]
    /\ type     = [q \in Requests |-> NoType]
    /\ value    = [q \in Requests |-> 0]
    /\ written  = [q \in Requests |-> [r \in Rows |-> 0]]
    /\ mine     = [q \in Requests |-> {}]
    /\ stale    = [q \in Requests |-> {}]
    /\ updated  = [q \in Requests |-> {}]

Goto(q, next) == pc' = [pc EXCEPT ![q] = next]

\* The transaction of q ends; what it has not committed is gone.
KeepLocks(q) == UNCHANGED lock  \* mutant
FreeLocks(q) == lock' = [r \in Rows |-> IF lock[r] = q THEN NoOne ELSE lock[r]]
ForgetLocals(q) ==
    /\ seen'    = [seen EXCEPT ![q] = "absent"]
    /\ todo'    = [todo EXCEPT ![q] = {}]
    /\ redo'    = [redo EXCEPT ![q] = {}]
    /\ type'    = [type EXCEPT ![q] = NoType]
    /\ value'   = [value EXCEPT ![q] = 0]
    /\ written' = [written EXCEPT ![q] = [r \in Rows |-> 0]]
    /\ mine'    = [mine EXCEPT ![q] = {}]
    /\ stale'   = [stale EXCEPT ![q] = {}]
    /\ updated' = [updated EXCEPT ![q] = {}]

Abort(q) ==
    /\ FreeLocks(q)
    /\ ForgetLocals(q)
    /\ Goto(q, "ended")
    /\ UNCHANGED data

\* The entries as the transaction of q sees them.
Sees(q) == IF Op(q) = "post" THEN entries \cup mine[q] ELSE entries \ mine[q]

HoldsEntry(x, e) == e \in mine[x] \/ \E u \in updated[x] : u[1] = e
SavedVoucher(x)  == Op(x) = "remove" /\ pc[x] = "commit"

\* InvoiceService.create, DnsnPostingService.post: refused in a closed month;
\* otherwise the voucher and its entries are inserted.
BeginPost(q) ==
    /\ pc[q] = "start" /\ Op(q) = "post"
    /\ IF Month(q) \in Closed
       THEN Abort(q)
       ELSE /\ mine' = [mine EXCEPT ![q] = EntriesOf(Target(q))]
            /\ todo' = [todo EXCEPT ![q] = TypesIn(EntriesOf(Target(q)))]
            /\ redo' = [redo EXCEPT ![q] = TypesIn(EntriesOf(Target(q)))]
            /\ Goto(q, "rows")
            /\ UNCHANGED <<data, lock, seen, type, value, written, stale, updated>>

\* The view loads the voucher: 404 if it is gone.  Only the discard view
\* refuses a posted one; unpost leaves a draft alone.
AfterLoadUnchecked(q, s) == IF s \in {"absent", "removed"} THEN "ended"
                            ELSE IF s = "posted" /\ Op(q) = "remove" THEN "types"
                            ELSE "drop"  \* mutant
AfterLoad(q, s) == IF s \in {"absent", "removed"} THEN "ended"
                   ELSE IF s = "draft" THEN "drop"
                   ELSE IF Op(q) = "remove" THEN "types" ELSE "ended"

LoadVoucher(q) ==
    /\ pc[q] = "start" /\ Op(q) \in {"remove", "discard"}
    /\ seen' = [seen EXCEPT ![q] = status[Target(q)]]
    /\ Goto(q, AfterLoad(q, status[Target(q)]))
    /\ UNCHANGED <<data, lock, todo, redo, type, value, written, mine, stale, updated>>

\* unpost: the types of the entries there are now ...
SelectTypes(q) ==
    /\ pc[q] = "types"
    /\ todo' = [todo EXCEPT ![q] = TypesIn({e \in entries : e[1] = Target(q)})]
    /\ Goto(q, "delete")
    /\ UNCHANGED <<data, lock, seen, redo, type, value, written, mine, stale, updated>>

\* ... and DELETE of the entries, which waits for whoever has locked one.
DeleteEntries(q) ==
    LET own == {e \in entries : e[1] = Target(q)} IN
    /\ pc[q] = "delete"
    /\ \A x \in Requests \ {q}, e \in own : ~HoldsEntry(x, e)
    /\ mine' = [mine EXCEPT ![q] = own]
    /\ Goto(q, "rows")
    /\ UNCHANGED <<data, lock, seen, todo, redo, type, value, written, stale, updated>>

\* _recalculate_balance: select_for_update().get_or_create() on the row ...
LockRow(q, t) ==
    /\ pc[q] = "rows" /\ Op(q) # "convert"
    /\ t \in todo[q]
    /\ lock[<<Month(q), t>>] \in {NoOne, q}
    /\ lock' = [lock EXCEPT ![<<Month(q), t>>] = q]
    /\ type' = [type EXCEPT ![q] = t]
    /\ todo' = [todo EXCEPT ![q] = @ \ {t}]
    /\ Goto(q, "rebuild")
    /\ UNCHANGED <<data, seen, redo, value, written, mine, stale, updated>>

\* ... then the entries are selected, summed and the row saved.  unpost
\* recomputes the running balances of the type at once.
RebuildRow(q) ==
    /\ pc[q] = "rebuild"
    /\ written' = [written EXCEPT ![q][RowAt(q)] = Total(EntriesAt(Sees(q), RowAt(q)))]
    /\ redo'    = [redo EXCEPT ![q] = IF Op(q) = "remove" THEN {type[q]} ELSE @]
    /\ Goto(q, IF Op(q) = "remove" \/ todo[q] = {} THEN "select" ELSE "rows")
    /\ UNCHANGED <<data, lock, seen, todo, type, value, mine, stale, updated>>

\* post recomputes all of its types, then commits; unpost goes on to the row of
\* the next type.
AfterFirstType(q, left) == IF left # {} THEN "select" ELSE "commit"  \* mutant
AfterType(q, left) == IF left # {} THEN "select" ELSE IF Op(q) = "post" THEN "commit" ELSE "rows"

\* _recompute_running_balances: SELECT of the entries of the type, all months,
\* without locks ...
SelectEntries(q, t) ==
    LET E == {e \in Sees(q) : e[2] = t} IN
    /\ pc[q] = "select"
    /\ t \in redo[q]
    /\ redo'  = [redo EXCEPT ![q] = @ \ {t}]
    /\ stale' = [stale EXCEPT ![q] = {<<e, Cumulative(E, e)>> : e \in E}]
    /\ Goto(q, IF E # {} THEN "update" ELSE AfterType(q, redo[q] \ {t}))
    /\ UNCHANGED <<data, lock, seen, todo, type, value, written, mine, updated>>

\* ... then one UPDATE per entry, in order.  save(update_fields=...) raises
\* when the entry has been deleted meanwhile.
Gone(q, e) == e \notin Sees(q)
NextUpdate(q) == CHOOSE u \in stale[q] : \A w \in stale[q] : NotAfter(u[1], w[1])

UpdateMissesEntry(q) == FALSE  \* mutant
UpdateFails(q) == Gone(q, NextUpdate(q)[1])

UpdateEntry(q) ==
    LET u == NextUpdate(q) IN
    /\ pc[q] = "update"
    /\ \A x \in Requests \ {q} : ~HoldsEntry(x, u[1])
    /\ IF UpdateFails(q)
       THEN Abort(q)
       ELSE /\ stale'   = [stale EXCEPT ![q] = @ \ {u}]
            /\ updated' = [updated EXCEPT ![q] = {w \in @ : w[1] # u[1]} \cup {u}]
            /\ Goto(q, IF stale[q] # {u} THEN "update" ELSE AfterType(q, redo[q]))
            /\ UNCHANGED <<data, lock, seen, todo, redo, type, value, written, mine>>

\* unpost saves the status last; it fails when the voucher has been deleted.
SaveDraft(q) ==
    /\ pc[q] = "rows" /\ Op(q) = "remove" /\ todo[q] = {}
    /\ \A x \in Requests \ {q} : SavedVoucher(x) => Target(x) # Target(q)
    /\ IF status[Target(q)] = "removed"
       THEN Abort(q)
       ELSE Goto(q, "commit") /\ UNCHANGED <<data, lock, locals>>

OutcomeOf(q) == IF Op(q) = "post" THEN "posted" ELSE "draft"

CommitPosting(q) ==
    /\ pc[q] = "commit" /\ Op(q) # "convert"
    /\ status'   = [status EXCEPT ![Target(q)] = OutcomeOf(q)]
    /\ entries'  = Sees(q)
    /\ running'  = [e \in Vouchers \X Types |->
                       IF \E u \in updated[q] : u[1] = e
                       THEN (CHOOSE u \in updated[q] : u[1] = e)[2] ELSE running[e]]
    /\ movement' = [r \in Rows |-> IF lock[r] = q THEN written[q][r] ELSE movement[r]]
    /\ closing'  = [r \in Rows |-> IF lock[r] = q THEN opening[r] + written[q][r] ELSE closing[r]]
    /\ FreeLocks(q)
    /\ ForgetLocals(q)
    /\ Goto(q, IF Op(q) = "remove" THEN "drop" ELSE "ended")
    /\ UNCHANGED opening

\* voucher.delete(), in a transaction of its own; its entries go with it.
DropVoucher(q) ==
    LET v == Target(q) IN
    /\ pc[q] = "drop"
    /\ \A x \in Requests \ {q} : /\ SavedVoucher(x) => Target(x) # v
                                 /\ \A e \in entries : e[1] = v => ~HoldsEntry(x, e)
    /\ status'  = [status EXCEPT ![v] = "removed"]
    /\ entries' = {e \in entries : e[1] # v}
    /\ ForgetLocals(q)
    /\ Goto(q, "ended")
    /\ UNCHANGED <<running, movement, opening, closing, lock>>

(***************************************************************************)
(* BalanceConversionService.convert: get_or_create reads the whole row     *)
(* without a lock, save() writes all of its columns.                       *)
(***************************************************************************)
BeginConvert(q) ==
    /\ pc[q] = "start" /\ Op(q) = "convert"
    /\ todo' = [todo EXCEPT ![q] = {t \in Mapped : OldBalance[<<Month(q), t>>] # 0}]
    /\ Goto(q, "rows")
    /\ UNCHANGED <<data, lock, seen, redo, type, value, written, mine, stale, updated>>

ReadMovement(q, r) == movement[r]

ReadForConversion(q, t) ==
    /\ pc[q] = "rows" /\ Op(q) = "convert"
    /\ t \in todo[q]
    /\ type'  = [type EXCEPT ![q] = t]
    /\ todo'  = [todo EXCEPT ![q] = @ \ {t}]
    /\ value' = [value EXCEPT ![q] = ReadMovement(q, <<Month(q), t>>)]
    /\ Goto(q, "convert")
    /\ UNCHANGED <<data, lock, seen, redo, written, mine, stale, updated>>

SaveConverted(q) ==
    /\ pc[q] = "convert"
    /\ lock[RowAt(q)] \in {NoOne, q}
    /\ lock'    = [lock EXCEPT ![RowAt(q)] = q]
    /\ written' = [written EXCEPT ![q][RowAt(q)] = value[q]]
    /\ Goto(q, IF todo[q] = {} THEN "commit" ELSE "rows")
    /\ UNCHANGED <<data, seen, todo, redo, type, value, mine, stale, updated>>

CommitConversion(q) ==
    /\ pc[q] = "commit" /\ Op(q) = "convert"
    /\ opening'  = [r \in Rows |-> IF lock[r] = q THEN OldBalance[r] ELSE opening[r]]
    /\ movement' = [r \in Rows |-> IF lock[r] = q THEN written[q][r] ELSE movement[r]]
    /\ closing'  = [r \in Rows |-> IF lock[r] = q THEN OldBalance[r] + written[q][r] ELSE closing[r]]
    /\ FreeLocks(q)
    /\ ForgetLocals(q)
    /\ Goto(q, "ended")
    /\ UNCHANGED <<status, entries, running>>

(***************************************************************************)
(* Waiting, deadlock and failure.                                          *)
(***************************************************************************)
Waits(q, x) ==
    /\ q # x
    /\ \/ pc[q] = "rows" /\ Op(q) # "convert" /\ \E t \in todo[q] : lock[<<Month(q), t>>] = x
       \/ pc[q] = "rows" /\ Op(q) = "remove" /\ todo[q] = {}
             /\ SavedVoucher(x) /\ Target(x) = Target(q)
       \/ pc[q] = "convert" /\ lock[RowAt(q)] = x
       \/ pc[q] = "delete" /\ \E e \in entries : e[1] = Target(q) /\ HoldsEntry(x, e)
       \/ pc[q] = "update" /\ HoldsEntry(x, NextUpdate(q)[1])

LosesDeadlock(q) ==
    /\ \E S \in SUBSET Requests : q \in S /\ \A y \in S : \E x \in S : Waits(y, x)
    /\ Abort(q)

Dies(q) == pc[q] \notin {"start", "ended"} /\ Abort(q) /\ UNCHANGED job

Serve(q) ==
  /\ UNCHANGED job
  /\ \/ BeginPost(q) \/ LoadVoucher(q) \/ SelectTypes(q) \/ DeleteEntries(q)
     \/ (\E t \in Types : LockRow(q, t) \/ SelectEntries(q, t) \/ ReadForConversion(q, t))
     \/ RebuildRow(q) \/ UpdateEntry(q) \/ SaveDraft(q) \/ CommitPosting(q)
     \/ DropVoucher(q) \/ BeginConvert(q) \/ SaveConverted(q) \/ CommitConversion(q)
     \/ LosesDeadlock(q)

Next == \E q \in Requests : Serve(q) \/ Dies(q)

Spec == Init /\ [][Next]_vars

\* While some worker is not blocked, one of them executes its next statement:
\* enough, because a request has finitely many statements.
FairSpec == Spec /\ WF_vars(\E q \in Requests : Serve(q))

-----------------------------------------------------------------------------
\* The committed balance rows are those a rebuild from the committed entries
\* would give, with closing = opening + movement: although a voucher may be
\* unposted twice, transactions lose deadlocks and entries vanish under them.
BalanceIsRebuild ==
    \A r \in Rows : /\ movement[r] = Total(EntriesAt(entries, r))
                    /\ closing[r] = opening[r] + movement[r]

\* The running balance of every committed entry is the sum of the entries of
\* its type up to it, in every month, although it is recomputed without locks:
\* a recomputation that has seen an entry being deleted fails on its update.
RunningIsCumulative == \A e \in entries : running[e] = Cumulative(entries, e)

\* All requests end, by finishing their work or by being rolled back.
EveryRequestEnds == <>(\A q \in Requests : pc[q] = "ended")

\* The committed data moves as the contract of the general ledger allows, each
\* voucher once: a voucher not yet inserted is a draft of the contract.
Books == INSTANCE PostingContract WITH
             Closing <- {},
             status  <- [v \in Vouchers |-> IF status[v] = "absent" THEN "draft"
                                            ELSE IF status[v] = "removed" THEN "deleted"
                                            ELSE status[v]],
             amount  <- RowAmount,
             balance <- movement
KeepsContract == Books!Contract
=============================================================================
