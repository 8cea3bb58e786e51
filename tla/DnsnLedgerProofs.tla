-------------------------- MODULE DnsnLedgerProofs --------------------------
(***************************************************************************)
(* Theorems about the single-entry ledgers: the balance rows are what a    *)
(* rebuild from the entries would give, they follow the contract, and the  *)
(* running balances are cumulative.                                        *)
(***************************************************************************)
EXTENDS DnsnLedger, SumLemmas

(***************************************************************************)
(* What every step keeps.  Definitions are for one request each, so that a *)
(* step of another request is told by what it leaves alone.                *)
(***************************************************************************)
\* Months are converted apart from the requests that post or remove in them.
ConvertedApart ==
    \A plan \in Plans : \A q, x \in Requests :
        plan[q].op = "convert" /\ plan[x].op # "convert" => PeriodOf[plan[x].voucher] # plan[q].period

\* The labels of a transaction on the balance rows.
Working == {"rows", "rebuild", "select", "update", "commit"}

\* The labels at which a request of an operation can be.
LabelsOf(op) == {"start", "ended"} \cup
    (CASE op = "post"    -> Working
       [] op = "remove"  -> {"types", "delete", "drop"} \cup Working
       [] op = "discard" -> {"drop"}
       [] OTHER          -> {"rows", "convert", "commit"})

\* The tables and the local variables have a value everywhere.
Typed ==
    /\ job \in Plans
    /\ DOMAIN status = Vouchers /\ \A v \in Vouchers : status[v] \in Statuses
    /\ entries \subseteq Vouchers \X Types
    /\ movement \in [Rows -> Int] /\ DOMAIN lock = Rows
    /\ DOMAIN pc = Requests /\ DOMAIN todo = Requests /\ DOMAIN type = Requests
    /\ DOMAIN value = Requests /\ DOMAIN written = Requests /\ DOMAIN mine = Requests
    /\ \A q \in Requests : DOMAIN written[q] = Rows /\ pc[q] \in LabelsOf(Op(q))

\* The committed entries of a voucher.
Committed(v) == {e \in entries : e[1] = v}

\* A voucher has its entries exactly while it is posted.
EntriesFollowStatus == \A v \in Vouchers : Committed(v) = IF status[v] = "posted" THEN EntriesOf(v) ELSE {}

\* No two requests have deleted the same entry.
DeletedOnce ==
    \A q, x \in Requests : q # x /\ Op(q) = "remove" /\ Op(x) = "remove" => mine[q] \cap mine[x] = {}

\* Where the voucher of a request is in its life.
AtVoucher(q) ==
    /\ Op(q) = "post" /\ pc[q] # "ended" => status[Target(q)] = "absent"
    /\ Op(q) = "remove" /\ pc[q] \notin {"start", "ended"} => status[Target(q)] # "absent"
    /\ Op(q) = "remove" /\ pc[q] = "commit" => status[Target(q)] \in {"posted", "draft"}
    /\ pc[q] = "drop" => status[Target(q)] \in {"draft", "removed"}

\* What it has inserted or deleted, in rows it has locked or has still to lock.
AtEntries(q) ==
    /\ pc[q] \notin Working => mine[q] = {}
    /\ Op(q) = "post" /\ pc[q] \in Working => mine[q] = EntriesOf(Target(q))
    /\ Op(q) = "remove" /\ pc[q] \in Working => mine[q] = Committed(Target(q))
    /\ Op(q) = "remove" /\ pc[q] = "delete" => TypesIn(Committed(Target(q))) \subseteq todo[q]
    /\ Op(q) = "convert" => mine[q] = {}
    /\ Op(q) # "convert" => \A e \in mine[q] : e[2] \in todo[q] \/ lock[<<Month(q), e[2]>>] = q
    /\ pc[q] = "commit" => todo[q] = {}
    /\ Op(q) = "post" /\ pc[q] \in {"select", "update"} => todo[q] = {}

\* The rows it has locked are rebuilt from the entries it sees.
AtRows(q) ==
    /\ Op(q) # "convert" /\ pc[q] \notin Working => \A r \in Rows : lock[r] # q
    /\ pc[q] = "rebuild" => RowAt(q) \in Rows /\ lock[RowAt(q)] = q
    /\ Op(q) # "convert" => \A r \in Rows :
          lock[r] = q /\ (pc[q] = "rebuild" => r # RowAt(q))
              => written[q][r] = Total(EntriesAt(Sees(q), r))

\* A conversion writes back the movement it has read, and nobody else its month.
AtConversion(q) ==
    /\ pc[q] = "convert" => RowAt(q) \in Rows /\ value[q] = movement[RowAt(q)]
    /\ Op(q) = "convert" => \A r \in Rows : lock[r] = q => written[q][r] = movement[r] /\ r[1] = Month(q)

\* What holds of a request at its label.
OwnInv(q) == AtVoucher(q) /\ AtEntries(q) /\ AtRows(q) /\ AtConversion(q)

\* The inductive invariant.
DnsnInv ==
    /\ Typed /\ EntriesFollowStatus /\ DeletedOnce /\ BalanceIsRebuild
    /\ \A q \in Requests : OwnInv(q)

(***************************************************************************)
(* Entries and their sums.                                                 *)
(***************************************************************************)
\* What a job names.
LEMMA JobShape ==
    ASSUME job \in Plans, NEW q \in Requests
    PROVE  /\ Op(q) \in {"post", "remove", "discard", "convert"}
           /\ Op(q) # "convert" => Target(q) \in Vouchers /\ Month(q) = PeriodOf[Target(q)]
           /\ Month(q) \in Periods
<1>1. job[q] \in Jobs
    BY DnsnData
<1>2. Op(q) # "convert" => Target(q) \in Vouchers
    BY <1>1 DEF Jobs, Op, Target
<1>3. Op(q) = "convert" => job[q].period \in Periods
    BY <1>1 DEF Jobs, Op
<1>4. Op(q) \in {"post", "remove", "discard", "convert"}
    BY <1>1 DEF Jobs, Op
<1> QED BY <1>2, <1>3, <1>4, DnsnData DEF Month

\* A voucher being posted is nobody else's.
LEMMA Fresh ==
    ASSUME job \in Plans, NEW q \in Requests, NEW x \in Requests, q # x, Op(q) = "post", Op(x) # "convert"
    PROVE  Target(q) # Target(x)
    BY FreshVouchers DEF Op, Target

\* The amounts of all possible entries.
AmountOf == [e \in Vouchers \X Types |-> Amount(e)]

\* Sums of entries are sums of one function, and integers.
LEMMA TotalIs ==
    ASSUME NEW E, E \subseteq Vouchers \X Types
    PROVE  /\ IsFiniteSet(E) /\ Total(E) = SumFunctionOnSet(AmountOf, E) /\ Total(E) \in Int
           /\ \A e \in E : AmountOf[e] = Amount(e) /\ Amount(e) \in Int
<1>1. IsFiniteSet(E)
    <2>1. IsFiniteSet(Vouchers \X Types)
        BY DnsnSets, FS_Product
    <2> QED BY <2>1, FS_Subset
<1>2. \A e \in E : AmountOf[e] = Amount(e) /\ Amount(e) \in Int
    BY DnsnData DEF AmountOf, Amount
<1>3. PICK f : f = [e \in E |-> Amount(e)]
    OBVIOUS
<1>4. \A e \in E : f[e] = AmountOf[e] /\ f[e] \in Int
    BY <1>2, <1>3
<1>5. SumFunctionOnSet(f, E) = SumFunctionOnSet(AmountOf, E) /\ SumFunctionOnSet(f, E) \in Int
    BY <1>1, <1>4, SumCongruence, SumInt
<1> QED BY <1>1, <1>2, <1>3, <1>5 DEF Total

\* Entries inserted add their sum.
LEMMA TotalUnion ==
    ASSUME NEW E, NEW F, E \subseteq Vouchers \X Types, F \subseteq Vouchers \X Types, E \cap F = {}
    PROVE  Total(E \cup F) = Total(E) + Total(F)
<1>1. E \cup F \subseteq Vouchers \X Types
    OBVIOUS
<1>2. \A e \in E \cup F : AmountOf[e] \in Int
    BY <1>1, TotalIs
<1>3. SumFunctionOnSet(AmountOf, E \cup F) = SumFunctionOnSet(AmountOf, E) + SumFunctionOnSet(AmountOf, F)
    BY <1>2, TotalIs, SumUnion
<1> QED BY <1>1, <1>3, TotalIs

\* A voucher has one entry at most in a row: what it adds to the row.
LEMMA TotalOfVoucher ==
    ASSUME NEW v \in Vouchers, NEW r \in Rows
    PROVE  Total(EntriesAt(EntriesOf(v), r)) = RowAmount[v][r]
<1>1. r = <<r[1], r[2]>> /\ r[1] \in Periods /\ r[2] \in Types
    BY DEF Rows
<1>2. RowAmount[v][r] = IF r[1] = PeriodOf[v] THEN EntryAmount[v][r[2]] ELSE 0
    BY DEF RowAmount
<1>3. CASE r[1] = PeriodOf[v] /\ EntryAmount[v][r[2]] # 0
    <2> DEFINE e == <<v, r[2]>>
    <2>1. EntriesAt(EntriesOf(v), r) = {e}
        BY <1>1, <1>3 DEF EntriesAt, EntriesOf
    <2>2. e \in Vouchers \X Types /\ Amount(e) = EntryAmount[v][r[2]]
        BY <1>1 DEF Amount
    <2> HIDE DEF e
    <2>3. Total({e}) = SumFunctionOnSet(AmountOf, {e}) /\ AmountOf[e] = Amount(e) /\ Amount(e) \in Int
        <3>1. {e} \subseteq Vouchers \X Types
            BY <2>2
        <3> QED BY <3>1, TotalIs
    <2>4. SumFunctionOnSet(AmountOf, {} \cup {e}) = AmountOf[e] + SumFunctionOnSet(AmountOf, {})
        BY <2>3, FS_EmptySet, SumAdd
    <2>5. SumFunctionOnSet(AmountOf, {}) = 0 /\ {} \cup {e} = {e}
        BY SumEmpty
    <2>6. SumFunctionOnSet(AmountOf, {e}) = AmountOf[e]
        BY <2>3, <2>4, <2>5
    <2> QED BY <1>2, <1>3, <2>1, <2>2, <2>3, <2>6
<1>4. CASE r[1] # PeriodOf[v] \/ EntryAmount[v][r[2]] = 0
    <2>1. EntriesAt(EntriesOf(v), r) = {}
        BY <1>1, <1>4 DEF EntriesAt, EntriesOf
    <2>2. Total({}) = 0
        BY TotalIs, SumEmpty
    <2>3. RowAmount[v][r] = 0
        BY <1>2, <1>4
    <2> QED BY <2>1, <2>2, <2>3
<1> QED BY <1>3, <1>4

\* Entries of a voucher are in the rows of its month.
LEMMA EntriesShape ==
    ASSUME NEW v \in Vouchers
    PROVE  EntriesOf(v) \subseteq Vouchers \X Types /\ \A e \in EntriesOf(v) : e[1] = v /\ e[2] \in Types
    BY DEF EntriesOf

(***************************************************************************)
(* What a step of one request leaves alone.                                *)
(***************************************************************************)
\* A rollback ends the request, with nothing in hand and no row locked.
LEMMA AbortIs ==
    ASSUME Typed, NEW q \in Requests, Abort(q)
    PROVE  /\ UNCHANGED data /\ pc'[q] = "ended" /\ mine'[q] = {} /\ DOMAIN written'[q] = Rows
           /\ DOMAIN pc' = Requests /\ DOMAIN todo' = Requests /\ DOMAIN type' = Requests
           /\ DOMAIN value' = Requests /\ DOMAIN written' = Requests /\ DOMAIN mine' = Requests
           /\ DOMAIN lock' = Rows /\ \A r \in Rows : lock'[r] = IF lock[r] = q THEN NoOne ELSE lock[r]
           /\ \A x \in Requests \ {q} :
                 /\ pc'[x] = pc[x] /\ todo'[x] = todo[x] /\ type'[x] = type[x]
                 /\ value'[x] = value[x] /\ written'[x] = written[x] /\ mine'[x] = mine[x]
    BY DEF Abort, FreeLocks, ForgetLocals, Goto, Typed

\* The others keep their place, their variables and their locks.
Beside(q) ==
    /\ job' = job
    /\ DOMAIN pc' = Requests /\ DOMAIN todo' = Requests /\ DOMAIN type' = Requests
    /\ DOMAIN value' = Requests /\ DOMAIN written' = Requests /\ DOMAIN mine' = Requests
    /\ DOMAIN lock' = Rows
    /\ \A x \in Requests \ {q} :
          /\ pc'[x] = pc[x] /\ todo'[x] = todo[x] /\ type'[x] = type[x]
          /\ value'[x] = value[x] /\ written'[x] = written[x] /\ mine'[x] = mine[x]
          /\ \A r \in Rows : lock'[r] = x <=> lock[r] = x

\* What one request is about, when a step leaves it alone.
LEMMA OthersStay ==
    ASSUME Typed, NEW q \in Requests, Serve(q) \/ Dies(q)
    PROVE  Beside(q)
<1>1. job' = job
    BY DEF Serve, Dies
<1>2. NoOne \notin Requests
    BY DnsnSets
<1>a. Abort(q) => Beside(q)
    BY <1>1, <1>2, AbortIs DEF Beside
<1> USE DEF Typed
<1>3. CASE BeginPost(q)
    BY <1>1, <1>3, <1>a DEF BeginPost, Goto, Beside
<1>4. CASE LoadVoucher(q) \/ SelectTypes(q) \/ DeleteEntries(q) \/ BeginConvert(q)
    BY <1>1, <1>4 DEF LoadVoucher, SelectTypes, DeleteEntries, BeginConvert, Goto, Beside
<1>5. ASSUME NEW t \in Types, LockRow(q, t) PROVE Beside(q)
    BY <1>1, <1>2, <1>5 DEF LockRow, Goto, Beside
<1>6. ASSUME NEW t \in Types, SelectEntries(q, t) PROVE Beside(q)
    BY <1>1, <1>6 DEF SelectEntries, Goto, Beside
<1>7. ASSUME NEW t \in Types, ReadForConversion(q, t) PROVE Beside(q)
    BY <1>1, <1>7 DEF ReadForConversion, Goto, Beside
<1>8. CASE RebuildRow(q)
    BY <1>1, <1>8 DEF RebuildRow, Goto, Beside
<1>9. CASE UpdateEntry(q)
    BY <1>1, <1>9, <1>a DEF UpdateEntry, Goto, Beside
<1>10. CASE SaveDraft(q)
    BY <1>1, <1>10, <1>a DEF SaveDraft, Goto, Beside, locals
<1>11. CASE CommitPosting(q)
    BY <1>1, <1>2, <1>11 DEF CommitPosting, FreeLocks, ForgetLocals, Goto, Beside
<1>12. CASE DropVoucher(q)
    BY <1>1, <1>12 DEF DropVoucher, ForgetLocals, Goto, Beside
<1>13. CASE SaveConverted(q)
    BY <1>1, <1>2, <1>13 DEF SaveConverted, Goto, Beside
<1>14. CASE CommitConversion(q)
    BY <1>1, <1>2, <1>14 DEF CommitConversion, FreeLocks, ForgetLocals, Goto, Beside
<1>15. CASE LosesDeadlock(q) \/ Dies(q)
    BY <1>15, <1>a DEF LosesDeadlock, Dies
<1> QED BY <1>3, <1>4, <1>5, <1>6, <1>7, <1>8, <1>9, <1>10, <1>11, <1>12, <1>13, <1>14, <1>15 DEF Serve

\* What a request has inserted or deleted is of its voucher.
LEMMA MineShape ==
    ASSUME Typed, NEW q \in Requests, AtEntries(q), Op(q) # "convert"
    PROVE  /\ mine[q] \subseteq Vouchers \X Types
           /\ \A e \in mine[q] : e[1] = Target(q) /\ e[2] \in Types
                                 /\ PeriodOf[e[1]] = Month(q) /\ <<Month(q), e[2]>> \in Rows
<1>1. /\ Op(q) \in {"post", "remove", "discard"} /\ Target(q) \in Vouchers
      /\ Month(q) = PeriodOf[Target(q)] /\ Month(q) \in Periods
    BY JobShape DEF Typed
<1>2. CASE pc[q] \notin Working
    BY <1>2 DEF AtEntries
<1>3. CASE pc[q] \in Working /\ Op(q) = "post"
    BY <1>1, <1>3, EntriesShape DEF AtEntries, Rows
<1>4. CASE pc[q] \in Working /\ Op(q) = "remove"
    <2>1. mine[q] \subseteq Vouchers \X Types /\ \A e \in mine[q] : e[1] = Target(q)
        BY <1>4 DEF AtEntries, Committed, Typed
    <2>2. \A e \in mine[q] : e[2] \in Types
        BY <2>1
    <2> QED BY <1>1, <2>1, <2>2 DEF Rows
<1>5. CASE pc[q] \in Working /\ Op(q) = "discard"
    BY <1>5 DEF Typed, LabelsOf, Working
<1> QED BY <1>1, <1>2, <1>3, <1>4, <1>5

\* A step that leaves the tables alone: the request at work is where it may be.
LEMMA LocalStep ==
    ASSUME DnsnInv, NEW q \in Requests, Beside(q), UNCHANGED data, OwnInv(q)',
           pc'[q] \in LabelsOf(Op(q)), DOMAIN written'[q] = Rows,
           Op(q) = "remove" => \A x \in Requests \ {q} : Op(x) = "remove" => mine'[q] \cap mine[x] = {}
    PROVE  DnsnInv'
<1>1. UNCHANGED <<status, entries, movement, opening, closing>>
    BY DEF data
<1>2. \A x \in Requests : (Op(x))' = Op(x) /\ (Target(x))' = Target(x) /\ (Month(x))' = Month(x)
    BY DEF Beside, Op, Target, Month
<1>3. Typed'
    BY <1>1, <1>2 DEF DnsnInv, Typed, Beside
<1>4. EntriesFollowStatus' /\ BalanceIsRebuild'
    BY <1>1 DEF DnsnInv, EntriesFollowStatus, BalanceIsRebuild, Committed
<1>5. DeletedOnce'
    BY <1>2 DEF DnsnInv, DeletedOnce, Beside
<1>6. ASSUME NEW x \in Requests, x # q PROVE OwnInv(x)'
    <2>1. /\ pc'[x] = pc[x] /\ todo'[x] = todo[x] /\ type'[x] = type[x]
          /\ value'[x] = value[x] /\ written'[x] = written[x] /\ mine'[x] = mine[x]
          /\ \A r \in Rows : lock'[r] = x <=> lock[r] = x
        BY <1>6 DEF Beside
    <2>2. (RowAt(x))' = RowAt(x) /\ (Sees(x))' = Sees(x) /\ (Committed(Target(x)))' = Committed(Target(x))
        BY <1>1, <1>2, <2>1 DEF RowAt, Sees, Committed
    <2>3. OwnInv(x) /\ job \in Plans
        BY DEF DnsnInv, Typed
    <2>4. AtVoucher(x)'
        BY <1>1, <1>2, <2>1, <2>3 DEF AtVoucher, OwnInv
    <2>5. AtEntries(x)'
        <3>1. Op(x) # "convert" => \A e \in mine[x] : <<Month(x), e[2]>> \in Rows
            BY <2>3, MineShape DEF OwnInv, DnsnInv
        <3> QED BY <1>1, <1>2, <2>1, <2>2, <2>3, <3>1 DEF AtEntries, OwnInv
    <2>6. AtRows(x)'
        BY <1>1, <1>2, <2>1, <2>2, <2>3 DEF AtRows, OwnInv
    <2>7. AtConversion(x)'
        BY <1>1, <1>2, <2>1, <2>2, <2>3 DEF AtConversion, OwnInv
    <2> QED BY <2>4, <2>5, <2>6, <2>7 DEF OwnInv
<1> QED BY <1>3, <1>4, <1>5, <1>6 DEF DnsnInv

\* A rollback keeps the invariant.
LEMMA AbortKeeps ==
    ASSUME DnsnInv, NEW q \in Requests, Beside(q), Abort(q)
    PROVE  DnsnInv'
<1>1. /\ UNCHANGED data /\ pc'[q] = "ended" /\ mine'[q] = {} /\ DOMAIN written'[q] = Rows
      /\ \A r \in Rows : lock'[r] = IF lock[r] = q THEN NoOne ELSE lock[r]
    BY AbortIs DEF DnsnInv
<1>2. NoOne # q
    BY DnsnSets
<1>3. \A r \in Rows : lock'[r] # q
    BY <1>1, <1>2
<1>4. OwnInv(q)'
    BY <1>1, <1>3 DEF OwnInv, AtVoucher, AtEntries, AtRows, AtConversion, Working
<1>5. pc'[q] \in LabelsOf(Op(q))
    BY <1>1 DEF LabelsOf
<1> QED BY <1>1, <1>4, <1>5, LocalStep

(***************************************************************************)
(* The statements that leave the tables alone.                             *)
(***************************************************************************)
\* Where a label can be met.
LEMMA LabelsMeet ==
    ASSUME Typed, NEW q \in Requests
    PROVE  /\ pc[q] \in LabelsOf(Op(q)) /\ Op(q) \in {"post", "remove", "discard", "convert"}
           /\ pc[q] \in {"types", "delete"} => Op(q) = "remove"
           /\ pc[q] \in {"rebuild", "select", "update"} => Op(q) \in {"post", "remove"}
           /\ pc[q] = "convert" => Op(q) = "convert"
           /\ pc[q] = "drop" => Op(q) \in {"remove", "discard"}
           /\ pc[q] = "rows" => Op(q) # "discard"
           /\ pc[q] = "commit" => Op(q) # "discard"
    BY JobShape DEF Typed, LabelsOf, Working

\* Statements before the first row is locked.
LEMMA EarlyKeeps ==
    ASSUME DnsnInv, NEW q \in Requests, Beside(q),
           BeginPost(q) \/ LoadVoucher(q) \/ SelectTypes(q) \/ DeleteEntries(q)
    PROVE  DnsnInv'
<1>1. /\ Typed /\ job \in Plans /\ AtVoucher(q) /\ AtEntries(q) /\ AtRows(q) /\ AtConversion(q)
    BY DEF DnsnInv, OwnInv, Typed
<1>2. (Op(q))' = Op(q) /\ (Target(q))' = Target(q) /\ (Month(q))' = Month(q)
    BY DEF Beside, Op, Target, Month
<1>3. CASE BeginPost(q)
    <2>1. CASE Abort(q)
        BY <2>1, AbortKeeps
    <2>2. CASE ~Abort(q)
        <3>1. /\ pc[q] = "start" /\ Op(q) = "post" /\ pc'[q] = "rows" /\ UNCHANGED <<data, lock, written>>
              /\ mine'[q] = EntriesOf(Target(q)) /\ todo'[q] = TypesIn(EntriesOf(Target(q)))
            BY <1>1, <1>3, <2>2 DEF BeginPost, Goto, Typed
        <3>2. UNCHANGED status
            BY <3>1 DEF data
        <3>3. AtVoucher(q)'
            BY <1>1, <1>2, <3>1, <3>2 DEF AtVoucher
        <3>4. \A e \in mine'[q] : e[2] \in todo'[q]
            BY <3>1 DEF TypesIn
        <3>5. AtEntries(q)'
            BY <1>2, <3>1, <3>4 DEF AtEntries, Working
        <3>6. AtRows(q)' /\ AtConversion(q)'
            BY <1>1, <1>2, <3>1 DEF AtRows, AtConversion, Working
        <3>7. pc'[q] \in LabelsOf(Op(q))
            BY <3>1 DEF LabelsOf, Working
        <3>8. DOMAIN written'[q] = Rows
            BY <1>1, <3>1 DEF Typed
        <3> QED BY <3>1, <3>3, <3>5, <3>6, <3>7, <3>8, LocalStep DEF OwnInv
    <2> QED BY <2>1, <2>2
<1>4. CASE LoadVoucher(q)
    <2>1. /\ pc[q] = "start" /\ Op(q) \in {"remove", "discard"} /\ pc'[q] = AfterLoad(q, status[Target(q)])
          /\ UNCHANGED <<data, lock, todo, written, mine>>
        BY <1>1, <1>4 DEF LoadVoucher, Goto, Typed
    <2>2. UNCHANGED <<status, entries>> /\ status[Target(q)] \in Statuses
        BY <1>1, <2>1, JobShape DEF data, Typed
    <2>3. /\ pc'[q] \in {"ended", "drop", "types"}
          /\ pc'[q] = "types" => Op(q) = "remove" /\ status[Target(q)] = "posted"
          /\ pc'[q] = "drop" => status[Target(q)] = "draft"
        BY <2>1, <2>2 DEF AfterLoad, Statuses
    <2>4. AtVoucher(q)'
        BY <1>2, <2>1, <2>2, <2>3 DEF AtVoucher
    <2>5. mine'[q] = {}
        BY <1>1, <2>1 DEF AtEntries, Working
    <2>6. AtEntries(q)'
        BY <1>2, <2>1, <2>3, <2>5 DEF AtEntries, Working
    <2>7. AtRows(q)' /\ AtConversion(q)'
        BY <1>1, <1>2, <2>1, <2>3 DEF AtRows, AtConversion, Working
    <2>8. pc'[q] \in LabelsOf(Op(q))
        BY <2>1, <2>3 DEF LabelsOf, Working
    <2>9. DOMAIN written'[q] = Rows
        BY <1>1, <2>1 DEF Typed
    <2> QED BY <2>1, <2>4, <2>5, <2>6, <2>7, <2>8, <2>9, LocalStep DEF OwnInv
<1>5. CASE SelectTypes(q)
    <2>1. /\ pc[q] = "types" /\ Op(q) = "remove" /\ pc'[q] = "delete"
          /\ UNCHANGED <<data, lock, written, mine>>
          /\ todo'[q] = TypesIn(Committed(Target(q)))
        BY <1>1, <1>5, LabelsMeet DEF SelectTypes, Goto, Typed, Committed
    <2>2. UNCHANGED <<status, entries>>
        BY <2>1 DEF data
    <2>3. AtVoucher(q)'
        BY <1>1, <1>2, <2>1, <2>2 DEF AtVoucher
    <2>5. mine'[q] = {}
        BY <1>1, <2>1 DEF AtEntries, Working
    <2>4. (Committed(Target(q)))' = Committed(Target(q))
        BY <1>2, <2>2 DEF Committed
    <2>6. AtEntries(q)'
        BY <1>2, <2>1, <2>4, <2>5 DEF AtEntries, Working
    <2>7. AtRows(q)' /\ AtConversion(q)'
        BY <1>1, <1>2, <2>1 DEF AtRows, AtConversion, Working
    <2>8. pc'[q] \in LabelsOf(Op(q))
        BY <2>1 DEF LabelsOf, Working
    <2>9. DOMAIN written'[q] = Rows
        BY <1>1, <2>1 DEF Typed
    <2> QED BY <2>1, <2>3, <2>5, <2>6, <2>7, <2>8, <2>9, LocalStep DEF OwnInv
<1>6. CASE DeleteEntries(q)
    <2>1. /\ pc[q] = "delete" /\ Op(q) = "remove" /\ pc'[q] = "rows"
          /\ UNCHANGED <<data, lock, written, todo>>
          /\ mine'[q] = Committed(Target(q))
          /\ \A x \in Requests \ {q}, e \in Committed(Target(q)) : e \notin mine[x]
        BY <1>1, <1>6, LabelsMeet DEF DeleteEntries, Goto, Typed, Committed, HoldsEntry
    <2>2. UNCHANGED <<status, entries>>
        BY <2>1 DEF data
    <2>3. AtVoucher(q)'
        BY <1>1, <1>2, <2>1, <2>2 DEF AtVoucher
    <2>4. (Committed(Target(q)))' = Committed(Target(q))
        BY <1>2, <2>2 DEF Committed
    <2>5. \A e \in mine'[q] : e[2] \in todo[q]
        BY <1>1, <2>1 DEF AtEntries, TypesIn
    <2>6. AtEntries(q)'
        BY <1>2, <2>1, <2>4, <2>5 DEF AtEntries, Working
    <2>7. AtRows(q)' /\ AtConversion(q)'
        BY <1>1, <1>2, <2>1 DEF AtRows, AtConversion, Working
    <2>8. pc'[q] \in LabelsOf(Op(q))
        BY <2>1 DEF LabelsOf, Working
    <2>9. DOMAIN written'[q] = Rows
        BY <1>1, <2>1 DEF Typed
    <2>10. \A x \in Requests \ {q} : mine'[q] \cap mine[x] = {}
        BY <2>1
    <2> QED BY <2>1, <2>3, <2>6, <2>7, <2>8, <2>9, <2>10, LocalStep DEF OwnInv
<1> QED BY <1>3, <1>4, <1>5, <1>6

\* A row is locked, and rebuilt.
LEMMA RowKeeps ==
    ASSUME DnsnInv, NEW q \in Requests, Beside(q), (\E t \in Types : LockRow(q, t)) \/ RebuildRow(q)
    PROVE  DnsnInv'
<1>1. /\ Typed /\ job \in Plans /\ AtVoucher(q) /\ AtEntries(q) /\ AtRows(q) /\ AtConversion(q)
    BY DEF DnsnInv, OwnInv, Typed
<1>2. (Op(q))' = Op(q) /\ (Target(q))' = Target(q) /\ (Month(q))' = Month(q) /\ Month(q) \in Periods
    BY <1>1, JobShape DEF Beside, Op, Target, Month
<1>d. Op(q) = "remove" => \A x \in Requests \ {q} : Op(x) = "remove" => mine[q] \cap mine[x] = {}
    BY DEF DnsnInv, DeletedOnce
<1>3. ASSUME NEW t \in Types, LockRow(q, t) PROVE DnsnInv'
    <2>1. /\ pc[q] = "rows" /\ Op(q) \in {"post", "remove"} /\ pc'[q] = "rebuild" /\ type'[q] = t
          /\ todo'[q] = todo[q] \ {t} /\ UNCHANGED <<data, written, mine>>
          /\ <<Month(q), t>> \in Rows
          /\ lock' = [lock EXCEPT ![<<Month(q), t>>] = q]
        BY <1>1, <1>2, <1>3, LabelsMeet DEF LockRow, Goto, Typed, Rows
    <2>2. UNCHANGED <<status, entries>>
        BY <2>1 DEF data
    <2>3. /\ (RowAt(q))' = <<Month(q), t>> /\ (Sees(q))' = Sees(q)
          /\ (Committed(Target(q)))' = Committed(Target(q))
        BY <1>2, <2>1, <2>2 DEF RowAt, Sees, Committed
    <2>4. lock'[<<Month(q), t>>] = q /\ \A r \in Rows : r # <<Month(q), t>> => lock'[r] = lock[r]
        BY <1>1, <2>1 DEF Typed
    <2>5. AtVoucher(q)'
        BY <1>1, <1>2, <2>1, <2>2 DEF AtVoucher
    <2>6. \A e \in mine[q] : e[2] \in todo'[q] \/ lock'[<<Month(q), e[2]>>] = q
        <3>1. TAKE e \in mine[q]
        <3>2. <<Month(q), e[2]>> \in Rows
            BY <1>1, <2>1, MineShape
        <3>3. e[2] \in todo[q] \/ lock[<<Month(q), e[2]>>] = q
            BY <1>1, <2>1 DEF AtEntries
        <3>4. CASE e[2] = t
            BY <2>4, <3>4
        <3>5. CASE e[2] # t
            BY <2>1, <2>4, <3>2, <3>3, <3>5
        <3> QED BY <3>4, <3>5
    <2>7. AtEntries(q)'
        BY <1>1, <1>2, <2>1, <2>3, <2>6 DEF AtEntries, Working
    <2>8. AtRows(q)'
        BY <1>1, <1>2, <2>1, <2>3, <2>4 DEF AtRows, Working
    <2>9. AtConversion(q)'
        BY <1>2, <2>1 DEF AtConversion
    <2>10. pc'[q] \in LabelsOf(Op(q)) /\ DOMAIN written'[q] = Rows
        BY <1>1, <2>1 DEF LabelsOf, Working, Typed
    <2> QED BY <1>d, <2>1, <2>5, <2>7, <2>8, <2>9, <2>10, LocalStep DEF OwnInv
<1>4. CASE RebuildRow(q)
    <2>1. /\ pc[q] = "rebuild" /\ Op(q) \in {"post", "remove"} /\ pc'[q] \in {"select", "rows"}
          /\ pc'[q] = "select" => Op(q) = "remove" \/ todo[q] = {}
          /\ UNCHANGED <<data, lock, todo, type, mine>>
          /\ written'[q] = [written[q] EXCEPT ![RowAt(q)] = Total(EntriesAt(Sees(q), RowAt(q)))]
        BY <1>1, <1>4, LabelsMeet DEF RebuildRow, Goto, Typed
    <2>2. UNCHANGED <<status, entries>>
        BY <2>1 DEF data
    <2>3. /\ (RowAt(q))' = RowAt(q) /\ (Sees(q))' = Sees(q) /\ (Committed(Target(q)))' = Committed(Target(q))
        BY <1>2, <2>1, <2>2 DEF RowAt, Sees, Committed
    <2>4. AtVoucher(q)'
        BY <1>1, <1>2, <2>1, <2>2 DEF AtVoucher
    <2>5. AtEntries(q)'
        BY <1>1, <1>2, <2>1, <2>3 DEF AtEntries, Working
    <2>6. RowAt(q) \in Rows /\ DOMAIN written[q] = Rows
        BY <1>1, <2>1 DEF AtRows, Typed
    <2>7. DOMAIN written'[q] = Rows
          /\ \A r \in Rows : written'[q][r] = IF r = RowAt(q) THEN Total(EntriesAt(Sees(q), RowAt(q))) ELSE written[q][r]
        BY <2>1, <2>6
    <2>8. AtRows(q)'
        BY <1>1, <1>2, <2>1, <2>3, <2>7 DEF AtRows, Working
    <2>9. AtConversion(q)'
        BY <1>2, <2>1 DEF AtConversion
    <2>10. pc'[q] \in LabelsOf(Op(q))
        BY <1>1, <2>1 DEF LabelsOf, Working
    <2> QED BY <1>d, <2>1, <2>4, <2>5, <2>7, <2>8, <2>9, <2>10, LocalStep DEF OwnInv
<1> QED BY <1>3, <1>4

\* The running balances are recomputed, and the status saved.
LEMMA LateKeeps ==
    ASSUME DnsnInv, NEW q \in Requests, Beside(q),
           (\E t \in Types : SelectEntries(q, t)) \/ UpdateEntry(q) \/ SaveDraft(q)
    PROVE  DnsnInv'
<1>1. /\ Typed /\ job \in Plans /\ AtVoucher(q) /\ AtEntries(q) /\ AtRows(q) /\ AtConversion(q)
    BY DEF DnsnInv, OwnInv, Typed
<1>2. (Op(q))' = Op(q) /\ (Target(q))' = Target(q) /\ (Month(q))' = Month(q)
    BY DEF Beside, Op, Target, Month
<1>d. Op(q) = "remove" => \A x \in Requests \ {q} : Op(x) = "remove" => mine[q] \cap mine[x] = {}
    BY DEF DnsnInv, DeletedOnce
<1>3. CASE Abort(q)
    BY <1>3, AbortKeeps
<1>4. ASSUME pc[q] \in {"rows", "select", "update"}, Op(q) \in {"post", "remove"},
             pc'[q] \in {"rows", "select", "update", "commit"},
             pc[q] = "rows" \/ (Op(q) = "remove" /\ pc'[q] = "commit")
                 => /\ pc'[q] = "commit" /\ Op(q) = "remove" /\ todo[q] = {}
                    /\ status[Target(q)] \in {"posted", "draft"},
             UNCHANGED <<data, lock, todo, type, written, mine>>
      PROVE  DnsnInv'
    <2>2. UNCHANGED <<status, entries>>
        BY <1>4 DEF data
    <2>3. /\ (RowAt(q))' = RowAt(q) /\ (Sees(q))' = Sees(q) /\ (Committed(Target(q)))' = Committed(Target(q))
        BY <1>2, <1>4, <2>2 DEF RowAt, Sees, Committed
    <2>4. AtVoucher(q)'
        BY <1>1, <1>2, <1>4, <2>2 DEF AtVoucher
    <2>5. AtEntries(q)'
        BY <1>1, <1>2, <1>4, <2>3 DEF AtEntries, Working
    <2>6. AtRows(q)'
        BY <1>1, <1>2, <1>4, <2>3 DEF AtRows, Working
    <2>7. AtConversion(q)'
        BY <1>2, <1>4 DEF AtConversion
    <2>8. pc'[q] \in LabelsOf(Op(q)) /\ DOMAIN written'[q] = Rows
        BY <1>1, <1>4 DEF LabelsOf, Working, Typed
    <2> QED BY <1>d, <1>4, <2>4, <2>5, <2>6, <2>7, <2>8, LocalStep DEF OwnInv
<1>5. ASSUME NEW t \in Types, SelectEntries(q, t) PROVE DnsnInv'
    <2>1. /\ pc[q] = "select" /\ Op(q) \in {"post", "remove"}
          /\ pc'[q] \in {"rows", "select", "update", "commit"}
          /\ pc'[q] = "commit" => Op(q) = "post"
          /\ UNCHANGED <<data, lock, todo, type, written, mine>>
        BY <1>1, <1>5, LabelsMeet DEF SelectEntries, AfterType, Goto, Typed
    <2> QED BY <1>4, <2>1
<1>6. CASE UpdateEntry(q) /\ ~Abort(q)
    <2>1. /\ pc[q] = "update" /\ Op(q) \in {"post", "remove"}
          /\ pc'[q] \in {"rows", "select", "update", "commit"}
          /\ pc'[q] = "commit" => Op(q) = "post"
          /\ UNCHANGED <<data, lock, todo, type, written, mine>>
        BY <1>1, <1>6, LabelsMeet DEF UpdateEntry, AfterType, Goto, Typed
    <2> QED BY <1>4, <2>1
<1>7. CASE SaveDraft(q) /\ ~Abort(q)
    <2>1. /\ pc[q] = "rows" /\ Op(q) = "remove" /\ todo[q] = {} /\ pc'[q] = "commit"
          /\ status[Target(q)] # "removed"
          /\ UNCHANGED <<data, lock, todo, type, written, mine>>
        BY <1>1, <1>7 DEF SaveDraft, Goto, Typed, locals
    <2>2. status[Target(q)] \in {"posted", "draft"}
        BY <1>1, <2>1, JobShape DEF AtVoucher, Typed, Statuses
    <2> QED BY <1>4, <2>1, <2>2
<1> QED BY <1>3, <1>5, <1>6, <1>7

\* A conversion reads, and writes back what it has read.
LEMMA ConversionKeeps ==
    ASSUME DnsnInv, NEW q \in Requests, Beside(q),
           BeginConvert(q) \/ (\E t \in Types : ReadForConversion(q, t)) \/ SaveConverted(q)
    PROVE  DnsnInv'
<1>1. /\ Typed /\ job \in Plans /\ AtVoucher(q) /\ AtEntries(q) /\ AtRows(q) /\ AtConversion(q)
    BY DEF DnsnInv, OwnInv, Typed
<1>2. (Op(q))' = Op(q) /\ (Target(q))' = Target(q) /\ (Month(q))' = Month(q) /\ Month(q) \in Periods
    BY <1>1, JobShape DEF Beside, Op, Target, Month
<1>3. ASSUME Op(q) = "convert", pc'[q] \in {"rows", "convert", "commit"}, UNCHANGED <<data, mine>>,
             pc'[q] = "commit" => todo'[q] = {}, AtConversion(q)', DOMAIN written'[q] = Rows
      PROVE  DnsnInv'
    <2>1. AtVoucher(q)' /\ AtRows(q)'
        BY <1>2, <1>3 DEF AtVoucher, AtRows
    <2>2. AtEntries(q)'
        BY <1>1, <1>2, <1>3 DEF AtEntries, Working
    <2>3. pc'[q] \in LabelsOf(Op(q))
        BY <1>3 DEF LabelsOf
    <2> QED BY <1>3, <2>1, <2>2, <2>3, LocalStep DEF OwnInv
<1>4. CASE BeginConvert(q)
    <2>1. /\ Op(q) = "convert" /\ pc'[q] = "rows" /\ UNCHANGED <<data, lock, mine, written>>
        BY <1>1, <1>4 DEF BeginConvert, Goto, Typed
    <2>2. AtConversion(q)'
        BY <1>1, <1>2, <2>1 DEF AtConversion, data
    <2>3. DOMAIN written'[q] = Rows
        BY <1>1, <2>1 DEF Typed
    <2> QED BY <1>3, <2>1, <2>2, <2>3
<1>5. ASSUME NEW t \in Types, ReadForConversion(q, t) PROVE DnsnInv'
    <2>1. /\ Op(q) = "convert" /\ pc'[q] = "convert" /\ UNCHANGED <<data, lock, mine, written>>
          /\ type'[q] = t /\ value'[q] = movement[<<Month(q), t>>]
        BY <1>1, <1>5 DEF ReadForConversion, ReadMovement, Goto, Typed
    <2>2. (RowAt(q))' = <<Month(q), t>> /\ <<Month(q), t>> \in Rows
        BY <1>2, <2>1 DEF RowAt, Rows
    <2>3. AtConversion(q)'
        BY <1>1, <1>2, <2>1, <2>2 DEF AtConversion, data
    <2>4. DOMAIN written'[q] = Rows
        BY <1>1, <2>1 DEF Typed
    <2> QED BY <1>3, <2>1, <2>3, <2>4
<1>6. CASE SaveConverted(q)
    <2>1. /\ pc[q] = "convert" /\ Op(q) = "convert" /\ pc'[q] \in {"rows", "commit"} /\ UNCHANGED <<data, mine, todo>>
          /\ pc'[q] = "commit" => todo[q] = {}
          /\ RowAt(q) \in Rows /\ value[q] = movement[RowAt(q)]
          /\ lock' = [lock EXCEPT ![RowAt(q)] = q]
          /\ written'[q] = [written[q] EXCEPT ![RowAt(q)] = value[q]]
        BY <1>1, <1>6, LabelsMeet DEF SaveConverted, Goto, Typed, AtConversion
    <2>2. DOMAIN written'[q] = Rows /\ UNCHANGED movement
        BY <1>1, <2>1 DEF Typed, data
    <2>3. RowAt(q)[1] = Month(q)
        BY DEF RowAt
    <2>4. ASSUME NEW r \in Rows, lock'[r] = q PROVE written'[q][r] = movement[r] /\ r[1] = Month(q)
        <3>1. CASE r = RowAt(q)
            BY <1>1, <2>1, <2>3, <3>1 DEF Typed
        <3>2. CASE r # RowAt(q)
            <4>1. lock[r] = q /\ written'[q][r] = written[q][r]
                BY <1>1, <2>1, <2>4, <3>2 DEF Typed
            <4> QED BY <1>1, <2>1, <4>1 DEF AtConversion
        <3> QED BY <3>1, <3>2
    <2>5. AtConversion(q)'
        BY <1>2, <2>1, <2>2, <2>4 DEF AtConversion
    <2> QED BY <1>3, <2>1, <2>2, <2>5
<1> QED BY <1>4, <1>5, <1>6

(***************************************************************************)
(* The statements that change the tables.                                  *)
(***************************************************************************)
\* What a posting or unposting is about to commit: rows that are not its own
\* have none of its entries, its own are rebuilt.
LEMMA CommitIs ==
    ASSUME DnsnInv, NEW q \in Requests, CommitPosting(q)
    PROVE  /\ pc[q] = "commit" /\ Op(q) \in {"post", "remove"} /\ Target(q) \in Vouchers
           /\ mine[q] \subseteq Vouchers \X Types /\ \A e \in mine[q] : e[1] = Target(q)
           /\ entries' = Sees(q) /\ entries' \subseteq Vouchers \X Types
           /\ \A r \in Rows : lock[r] # q => EntriesAt(mine[q], r) = {}
           /\ \A r \in Rows : r[1] # Month(q) => EntriesAt(mine[q], r) = {}
           /\ \A r \in Rows : EntriesAt(mine[q], r) = {} => EntriesAt(entries', r) = EntriesAt(entries, r)
           /\ movement' \in [Rows -> Int]
           /\ \A r \in Rows : movement'[r] = Total(EntriesAt(entries', r))
<1>1. /\ Typed /\ job \in Plans /\ AtEntries(q) /\ AtRows(q) /\ BalanceIsRebuild
    BY DEF DnsnInv, OwnInv, Typed
<1>2. /\ pc[q] = "commit" /\ Op(q) \in {"post", "remove"} /\ entries' = Sees(q)
      /\ movement' = [r \in Rows |-> IF lock[r] = q THEN written[q][r] ELSE movement[r]]
    BY <1>1, LabelsMeet DEF CommitPosting
<1>3. /\ Target(q) \in Vouchers /\ mine[q] \subseteq Vouchers \X Types
      /\ \A e \in mine[q] : /\ e[1] = Target(q) /\ PeriodOf[e[1]] = Month(q) /\ e[2] \in Types
                            /\ <<Month(q), e[2]>> \in Rows /\ lock[<<Month(q), e[2]>>] = q
    BY <1>1, <1>2, JobShape, MineShape DEF AtEntries
<1>4. entries' \subseteq Vouchers \X Types
    BY <1>1, <1>2, <1>3 DEF Sees, Typed
<1>5. ASSUME NEW r \in Rows PROVE r = <<r[1], r[2]>>
    BY DEF Rows
<1>6. \A r \in Rows : lock[r] # q => EntriesAt(mine[q], r) = {}
    <2> SUFFICES ASSUME NEW r \in Rows, NEW e \in EntriesAt(mine[q], r) PROVE lock[r] = q
        OBVIOUS
    <2>1. e \in mine[q] /\ PeriodOf[e[1]] = r[1] /\ e[2] = r[2]
        BY DEF EntriesAt
    <2>2. <<Month(q), e[2]>> = r
        BY <1>3, <1>5, <2>1
    <2> QED BY <1>3, <2>1, <2>2
<1>7. \A r \in Rows : r[1] # Month(q) => EntriesAt(mine[q], r) = {}
    BY <1>3 DEF EntriesAt
<1>8. \A r \in Rows : EntriesAt(mine[q], r) = {} => EntriesAt(entries', r) = EntriesAt(entries, r)
    BY <1>2 DEF Sees, EntriesAt
<1>9. ASSUME NEW r \in Rows
      PROVE  Total(EntriesAt(entries', r)) \in Int
             /\ (IF lock[r] = q THEN written[q][r] ELSE movement[r]) = Total(EntriesAt(entries', r))
    <2>1. EntriesAt(entries', r) \subseteq Vouchers \X Types
        BY <1>4 DEF EntriesAt
    <2>2. CASE lock[r] = q
        BY <1>1, <1>2, <2>1, <2>2, TotalIs DEF AtRows
    <2>3. CASE lock[r] # q
        <3>1. EntriesAt(entries', r) = EntriesAt(entries, r)
            BY <1>6, <1>8, <2>3
        <3>2. movement[r] = Total(EntriesAt(entries, r))
            BY <1>1 DEF BalanceIsRebuild
        <3> QED BY <2>1, <2>3, <3>1, <3>2, TotalIs
    <2> QED BY <2>2, <2>3
<1>10. /\ movement' \in [Rows -> Int]
       /\ \A r \in Rows : movement'[r] = Total(EntriesAt(entries', r))
    BY <1>2, <1>9
<1> QED BY <1>2, <1>3, <1>4, <1>6, <1>7, <1>8, <1>10

\* What its commit does to the voucher.
LEMMA CommitStatus ==
    ASSUME DnsnInv, NEW q \in Requests, CommitPosting(q)
    PROVE  /\ status' = [status EXCEPT ![Target(q)] = OutcomeOf(q)]
           /\ OutcomeOf(q) = IF Op(q) = "post" THEN "posted" ELSE "draft"
           /\ Op(q) = "post" => status[Target(q)] = "absent" /\ mine[q] = EntriesOf(Target(q))
           /\ Op(q) = "remove" => status[Target(q)] \in {"posted", "draft"} /\ mine[q] = Committed(Target(q))
           /\ {e \in entries' : e[1] = Target(q)} = IF Op(q) = "post" THEN EntriesOf(Target(q)) ELSE {}
           /\ \A v \in Vouchers \ {Target(q)} : {e \in entries' : e[1] = v} = Committed(v)
<1>1. /\ Op(q) \in {"post", "remove"} /\ Target(q) \in Vouchers /\ pc[q] = "commit" /\ entries' = Sees(q)
      /\ \A e \in mine[q] : e[1] = Target(q)
    BY CommitIs
<1>2. AtVoucher(q) /\ AtEntries(q) /\ EntriesFollowStatus /\ job \in Plans
    BY DEF DnsnInv, OwnInv, Typed
<1>3. /\ Op(q) = "post" => status[Target(q)] = "absent" /\ mine[q] = EntriesOf(Target(q))
      /\ Op(q) = "remove" => status[Target(q)] \in {"posted", "draft"} /\ mine[q] = Committed(Target(q))
    BY <1>1, <1>2 DEF AtVoucher, AtEntries, Working
<1>4. status' = [status EXCEPT ![Target(q)] = OutcomeOf(q)]
    BY DEF CommitPosting
<1>5. PICK v : v = Target(q)
    OBVIOUS
<1>6. Op(q) = "post" => {e \in entries' : e[1] = v} = EntriesOf(v)
    <2>1. Op(q) = "post" => {e \in entries : e[1] = v} = {}
        BY <1>1, <1>2, <1>3, <1>5 DEF EntriesFollowStatus, Committed
    <2>2. \A e \in EntriesOf(v) : e[1] = v
        BY <1>1, <1>5, EntriesShape
    <2> QED BY <1>1, <1>3, <1>5, <2>1, <2>2 DEF Sees
<1>7. Op(q) = "remove" => {e \in entries' : e[1] = v} = {}
    BY <1>1, <1>3, <1>5 DEF Sees, Committed
<1>8. \A w \in Vouchers \ {v} : {e \in entries' : e[1] = w} = {e \in entries : e[1] = w}
    BY <1>1, <1>5 DEF Sees
<1> QED BY <1>1, <1>3, <1>4, <1>5, <1>6, <1>7, <1>8 DEF Committed, OutcomeOf

\* A posting or unposting commits: the invariant is kept.
LEMMA CommitKeeps ==
    ASSUME ConvertedApart, DnsnInv, NEW q \in Requests, Beside(q), CommitPosting(q)
    PROVE  DnsnInv'
<1>1. /\ Typed /\ job \in Plans /\ DeletedOnce /\ EntriesFollowStatus /\ BalanceIsRebuild
      /\ \A x \in Requests : OwnInv(x)
    BY DEF DnsnInv, Typed
<1>2. \A x \in Requests : (Op(x))' = Op(x) /\ (Target(x))' = Target(x) /\ (Month(x))' = Month(x)
    BY DEF Beside, Op, Target, Month
<1>3. /\ pc[q] = "commit" /\ Op(q) \in {"post", "remove"} /\ Target(q) \in Vouchers
      /\ mine[q] \subseteq Vouchers \X Types /\ \A e \in mine[q] : e[1] = Target(q)
      /\ entries' = Sees(q) /\ entries' \subseteq Vouchers \X Types
      /\ \A r \in Rows : lock[r] # q => EntriesAt(mine[q], r) = {}
      /\ \A r \in Rows : r[1] # Month(q) => EntriesAt(mine[q], r) = {}
      /\ \A r \in Rows : EntriesAt(mine[q], r) = {} => EntriesAt(entries', r) = EntriesAt(entries, r)
      /\ movement' \in [Rows -> Int]
      /\ \A r \in Rows : movement'[r] = Total(EntriesAt(entries', r))
    BY CommitIs
<1>4. /\ status' = [status EXCEPT ![Target(q)] = OutcomeOf(q)]
      /\ OutcomeOf(q) = IF Op(q) = "post" THEN "posted" ELSE "draft"
      /\ Op(q) = "post" => status[Target(q)] = "absent" /\ mine[q] = EntriesOf(Target(q))
      /\ Op(q) = "remove" => status[Target(q)] \in {"posted", "draft"} /\ mine[q] = Committed(Target(q))
      /\ {e \in entries' : e[1] = Target(q)} = IF Op(q) = "post" THEN EntriesOf(Target(q)) ELSE {}
      /\ \A v \in Vouchers \ {Target(q)} : {e \in entries' : e[1] = v} = Committed(v)
    BY CommitStatus
<1>5. /\ pc'[q] \in {"drop", "ended"}
      /\ pc'[q] = "drop" => Op(q) = "remove"
      /\ mine'[q] = {} /\ DOMAIN written'[q] = Rows
      /\ \A r \in Rows : lock'[r] # q
      /\ \A r \in Rows : closing'[r] = opening'[r] + movement'[r]
    <2>1. /\ pc'[q] = IF Op(q) = "remove" THEN "drop" ELSE "ended"
          /\ mine'[q] = {} /\ DOMAIN written'[q] = Rows
        BY <1>1 DEF CommitPosting, Goto, ForgetLocals, Typed
    <2>2. NoOne # q /\ \A r \in Rows : lock'[r] = IF lock[r] = q THEN NoOne ELSE lock[r]
        BY DnsnSets DEF CommitPosting, FreeLocks
    <2>3. ASSUME NEW r \in Rows PROVE closing'[r] = opening'[r] + movement'[r]
        BY <1>1 DEF CommitPosting, BalanceIsRebuild
    <2> QED BY <2>1, <2>2, <2>3
<1>6. /\ DOMAIN status' = Vouchers /\ status'[Target(q)] = OutcomeOf(q)
      /\ \A v \in Vouchers \ {Target(q)} : status'[v] = status[v]
    BY <1>1, <1>3, <1>4 DEF Typed
<1>7. Typed'
    <2>1. \A v \in Vouchers : status'[v] \in Statuses
        BY <1>1, <1>4, <1>6 DEF Typed, Statuses
    <2>2. pc'[q] \in LabelsOf(Op(q))
        BY <1>3, <1>5 DEF LabelsOf
    <2>3. \A x \in Requests : DOMAIN written'[x] = Rows /\ pc'[x] \in LabelsOf(Op(x))
        BY <1>1, <1>5, <2>2 DEF Typed, Beside
    <2> QED BY <1>1, <1>2, <1>3, <1>6, <2>1, <2>3 DEF Typed, Beside
<1>8. EntriesFollowStatus'
    <2>1. ASSUME NEW v \in Vouchers
          PROVE  {e \in entries' : e[1] = v} = IF status'[v] = "posted" THEN EntriesOf(v) ELSE {}
        <3>1. CASE v = Target(q)
            BY <1>3, <1>4, <1>6, <3>1
        <3>2. CASE v # Target(q)
            BY <1>1, <1>4, <1>6, <3>2 DEF EntriesFollowStatus
        <3> QED BY <3>1, <3>2
    <2> QED BY <2>1 DEF EntriesFollowStatus, Committed
<1>9. BalanceIsRebuild'
    BY <1>3, <1>5 DEF BalanceIsRebuild
<1>10. DeletedOnce'
    BY <1>1, <1>2, <1>5 DEF DeletedOnce, Beside
<1>11. OwnInv(q)'
    <2>1. (Target(q))' = Target(q) /\ (Op(q))' = Op(q)
        BY <1>2
    <2>2. AtVoucher(q)'
        BY <1>3, <1>4, <1>5, <1>6, <2>1 DEF AtVoucher
    <2>3. AtEntries(q)' /\ AtRows(q)' /\ AtConversion(q)'
        BY <1>3, <1>5, <2>1 DEF AtEntries, AtRows, AtConversion, Working
    <2> QED BY <2>2, <2>3 DEF OwnInv
<1>12. ASSUME NEW x \in Requests, x # q PROVE OwnInv(x)'
    <2>1. /\ pc'[x] = pc[x] /\ todo'[x] = todo[x] /\ type'[x] = type[x]
          /\ value'[x] = value[x] /\ written'[x] = written[x] /\ mine'[x] = mine[x]
          /\ \A r \in Rows : lock'[r] = x <=> lock[r] = x
        BY <1>12 DEF Beside
    <2>2. /\ AtVoucher(x) /\ AtEntries(x) /\ AtRows(x) /\ AtConversion(x)
          /\ (RowAt(x))' = RowAt(x) /\ (Op(x))' = Op(x) /\ (Target(x))' = Target(x) /\ (Month(x))' = Month(x)
        BY <1>1, <1>2, <2>1 DEF OwnInv, RowAt
    <2>3. /\ Op(x) \in {"post", "remove", "discard", "convert"}
          /\ Op(x) # "convert" => Target(x) \in Vouchers
          /\ Op(x) # "convert" /\ "post" \in {Op(q), Op(x)} => Target(x) # Target(q)
        BY <1>1, <1>3, <1>12, JobShape, Fresh
    <2>4. pc[x] = "drop" => Op(x) # "convert"
        BY <1>1, LabelsMeet
    <2>5. AtVoucher(x)'
        BY <1>3, <1>4, <1>6, <2>1, <2>2, <2>3, <2>4 DEF AtVoucher
    <2>6. AtEntries(x)'
        <3>1. Op(x) = "remove" /\ pc[x] \in Working => mine[x] = {e \in entries' : e[1] = Target(x)}
            <4>1. CASE Target(x) # Target(q)
                BY <1>4, <2>2, <2>3, <4>1 DEF AtEntries
            <4>2. CASE Op(x) = "remove" /\ Op(q) = "remove" /\ Target(x) = Target(q) /\ pc[x] \in Working
                <5>1. mine[x] = Committed(Target(x)) /\ mine[q] = Committed(Target(q))
                    BY <1>4, <2>2, <4>2 DEF AtEntries
                <5>2. mine[x] \cap mine[q] = {}
                    BY <1>1, <1>12, <4>2 DEF DeletedOnce
                <5>3. mine[x] = {}
                    BY <4>2, <5>1, <5>2
                <5> QED BY <1>4, <4>2, <5>3
            <4> QED BY <1>3, <2>3, <4>1, <4>2
        <3>2. Op(x) = "remove" /\ pc[x] = "delete" => TypesIn({e \in entries' : e[1] = Target(x)}) \subseteq todo[x]
            <4>1. {e \in entries' : e[1] = Target(x)} \subseteq Committed(Target(x)) \/ Op(x) # "remove"
                BY <1>3, <1>4, <2>3
            <4> QED BY <2>2, <4>1 DEF AtEntries, TypesIn
        <3>3. Op(x) # "convert" => \A e \in mine[x] : <<Month(x), e[2]>> \in Rows
            BY <1>1, <2>2, MineShape
        <3> QED BY <2>1, <2>2, <3>1, <3>2, <3>3 DEF AtEntries, Committed
    <2>7. AtRows(x)'
        <3>1. ASSUME NEW r \in Rows, lock[r] = x
              PROVE  EntriesAt(Sees(x), r) = EntriesAt((Sees(x))', r)
            <4>1. EntriesAt(entries', r) = EntriesAt(entries, r)
                BY <1>3, <1>12, <3>1
            <4>2. (Sees(x))' = IF Op(x) = "post" THEN entries' \cup mine[x] ELSE entries' \ mine[x]
                BY <2>1, <2>2 DEF Sees
            <4> QED BY <4>1, <4>2 DEF Sees, EntriesAt
        <3> QED BY <2>1, <2>2, <3>1 DEF AtRows
    <2>8. AtConversion(x)'
        <3>1. ASSUME NEW r \in Rows, Op(x) = "convert", r[1] = Month(x) PROVE movement'[r] = movement[r]
            <4>1. Month(x) # Month(q)
                BY <1>1, <1>3, <3>1 DEF ConvertedApart, Op, Month, Target
            <4>2. EntriesAt(entries', r) = EntriesAt(entries, r)
                BY <1>3, <3>1, <4>1
            <4> QED BY <1>1, <1>3, <4>2 DEF BalanceIsRebuild
        <3>2. pc[x] = "convert" => Op(x) = "convert"
            BY <1>1, LabelsMeet
        <3>3. RowAt(x)[1] = Month(x)
            BY DEF RowAt
        <3> QED BY <2>1, <2>2, <3>1, <3>2, <3>3 DEF AtConversion
    <2> QED BY <2>5, <2>6, <2>7, <2>8 DEF OwnInv
<1> QED BY <1>7, <1>8, <1>9, <1>10, <1>11, <1>12 DEF DnsnInv

\* A voucher is deleted: it has no entries any more.
LEMMA DropIs ==
    ASSUME DnsnInv, NEW q \in Requests, DropVoucher(q)
    PROVE  /\ Target(q) \in Vouchers /\ Op(q) \in {"remove", "discard"} /\ pc[q] = "drop"
           /\ status[Target(q)] \in {"draft", "removed"}
           /\ status' = [status EXCEPT ![Target(q)] = "removed"]
           /\ UNCHANGED <<entries, movement, opening, closing, lock>>
<1>1. /\ Typed /\ job \in Plans /\ AtVoucher(q) /\ EntriesFollowStatus /\ pc[q] = "drop"
      /\ status' = [status EXCEPT ![Target(q)] = "removed"]
      /\ UNCHANGED <<movement, opening, closing, lock>>
      /\ entries' = {e \in entries : e[1] # Target(q)}
    BY DEF DnsnInv, OwnInv, Typed, DropVoucher
<1>2. Op(q) \in {"remove", "discard"} /\ Target(q) \in Vouchers
    BY <1>1, LabelsMeet, JobShape
<1>3. status[Target(q)] \in {"draft", "removed"}
    BY <1>1 DEF AtVoucher
<1>4. \A e \in entries : e[1] # Target(q)
    BY <1>1, <1>2, <1>3 DEF EntriesFollowStatus, Committed
<1> QED BY <1>1, <1>2, <1>3, <1>4

\* Deleting a voucher keeps the invariant.
LEMMA DropKeeps ==
    ASSUME DnsnInv, NEW q \in Requests, Beside(q), DropVoucher(q)
    PROVE  DnsnInv'
<1>1. /\ Typed /\ job \in Plans /\ DeletedOnce /\ EntriesFollowStatus /\ BalanceIsRebuild
      /\ \A x \in Requests : OwnInv(x)
    BY DEF DnsnInv, Typed
<1>2. \A x \in Requests : (Op(x))' = Op(x) /\ (Target(x))' = Target(x) /\ (Month(x))' = Month(x)
    BY DEF Beside, Op, Target, Month
<1>3. /\ Target(q) \in Vouchers /\ Op(q) \in {"remove", "discard"} /\ pc[q] = "drop"
      /\ status[Target(q)] \in {"draft", "removed"}
      /\ status' = [status EXCEPT ![Target(q)] = "removed"]
      /\ UNCHANGED <<entries, movement, opening, closing, lock>>
    BY DropIs
<1>4. /\ pc'[q] = "ended" /\ mine'[q] = {} /\ DOMAIN written'[q] = Rows
    BY <1>1 DEF DropVoucher, ForgetLocals, Goto, Typed
<1>5. /\ DOMAIN status' = Vouchers /\ status'[Target(q)] = "removed"
      /\ \A v \in Vouchers \ {Target(q)} : status'[v] = status[v]
    BY <1>1, <1>3 DEF Typed
<1>6. Typed'
    <2>1. \A v \in Vouchers : status'[v] \in Statuses
        BY <1>1, <1>5 DEF Typed, Statuses
    <2>2. pc'[q] \in LabelsOf(Op(q))
        BY <1>4 DEF LabelsOf
    <2>3. \A x \in Requests : DOMAIN written'[x] = Rows /\ pc'[x] \in LabelsOf(Op(x))
        BY <1>1, <1>4, <2>2 DEF Typed, Beside
    <2> QED BY <1>1, <1>2, <1>3, <1>5, <2>1, <2>3 DEF Typed, Beside
<1>7. EntriesFollowStatus' /\ BalanceIsRebuild'
    <2>1. \A v \in Vouchers : status'[v] = "posted" <=> status[v] = "posted"
        BY <1>3, <1>5
    <2> QED BY <1>1, <1>3, <2>1 DEF EntriesFollowStatus, Committed, BalanceIsRebuild
<1>8. DeletedOnce'
    BY <1>1, <1>2, <1>4 DEF DeletedOnce, Beside
<1>9. OwnInv(q)'
    <2>1. (Op(q))' = Op(q) /\ pc[q] \notin Working
        BY <1>2, <1>3 DEF Working
    <2>2. \A r \in Rows : lock'[r] # q
        BY <1>1, <1>3, <2>1 DEF OwnInv, AtRows
    <2> QED BY <1>3, <1>4, <2>1, <2>2 DEF OwnInv, AtVoucher, AtEntries, AtRows, AtConversion, Working
<1>10. ASSUME NEW x \in Requests, x # q PROVE OwnInv(x)'
    <2>1. /\ pc'[x] = pc[x] /\ todo'[x] = todo[x] /\ type'[x] = type[x]
          /\ value'[x] = value[x] /\ written'[x] = written[x] /\ mine'[x] = mine[x]
        BY <1>10 DEF Beside
    <2>2. /\ AtVoucher(x) /\ AtEntries(x) /\ AtRows(x) /\ AtConversion(x)
          /\ (RowAt(x))' = RowAt(x) /\ (Op(x))' = Op(x) /\ (Target(x))' = Target(x) /\ (Month(x))' = Month(x)
        BY <1>1, <1>2, <2>1 DEF OwnInv, RowAt
    <2>3. /\ (Sees(x))' = Sees(x) /\ (Committed(Target(x)))' = Committed(Target(x))
        BY <1>3, <2>1, <2>2 DEF Sees, Committed
    <2>4. AtVoucher(x)'
        <3>1. Op(x) # "convert" => Target(x) \in Vouchers
            BY <1>1, JobShape
        <3>2. Op(x) = "post" => Target(x) # Target(q)
            BY <1>1, <1>3, <1>10, Fresh
        <3>3. Op(x) = "remove" /\ pc[x] = "commit" => Target(x) # Target(q)
            BY <1>10 DEF DropVoucher, SavedVoucher
        <3>4. pc[x] = "drop" => Op(x) # "convert"
            BY <1>1, LabelsMeet
        <3> QED BY <1>5, <2>1, <2>2, <3>1, <3>2, <3>3, <3>4 DEF AtVoucher
    <2>5. AtEntries(x)' /\ AtRows(x)' /\ AtConversion(x)'
        BY <1>3, <2>1, <2>2, <2>3 DEF AtEntries, AtRows, AtConversion
    <2> QED BY <2>4, <2>5 DEF OwnInv
<1> QED BY <1>6, <1>7, <1>8, <1>9, <1>10 DEF DnsnInv

\* A conversion commits: movements are what they were.
LEMMA ConversionIs ==
    ASSUME DnsnInv, NEW q \in Requests, CommitConversion(q)
    PROVE  movement' = movement /\ UNCHANGED <<status, entries>> /\ pc[q] = "commit" /\ Op(q) = "convert"
<1>1. /\ movement' = [r \in Rows |-> IF lock[r] = q THEN written[q][r] ELSE movement[r]]
      /\ UNCHANGED <<status, entries>> /\ pc[q] = "commit" /\ Op(q) = "convert"
      /\ AtConversion(q) /\ movement \in [Rows -> Int]
    BY DEF CommitConversion, DnsnInv, OwnInv, Typed
<1>2. \A r \in Rows : lock[r] = q => written[q][r] = movement[r]
    BY <1>1 DEF AtConversion
<1>3. movement' = [r \in Rows |-> movement[r]]
    BY <1>1, <1>2
<1> QED BY <1>1, <1>3

\* The commit of a conversion keeps the invariant.
LEMMA ConvertKeeps ==
    ASSUME DnsnInv, NEW q \in Requests, Beside(q), CommitConversion(q)
    PROVE  DnsnInv'
<1>1. /\ Typed /\ job \in Plans /\ DeletedOnce /\ EntriesFollowStatus /\ BalanceIsRebuild
      /\ \A x \in Requests : OwnInv(x)
    BY DEF DnsnInv, Typed
<1>2. \A x \in Requests : (Op(x))' = Op(x) /\ (Target(x))' = Target(x) /\ (Month(x))' = Month(x)
    BY DEF Beside, Op, Target, Month
<1>3. movement' = movement /\ UNCHANGED <<status, entries>> /\ pc[q] = "commit" /\ Op(q) = "convert"
    BY ConversionIs
<1>4. /\ pc'[q] = "ended" /\ mine'[q] = {} /\ DOMAIN written'[q] = Rows
      /\ \A r \in Rows : lock'[r] # q
      /\ \A r \in Rows : closing'[r] = opening'[r] + movement'[r]
    <2>1. pc'[q] = "ended" /\ mine'[q] = {} /\ DOMAIN written'[q] = Rows
        BY <1>1 DEF CommitConversion, ForgetLocals, Goto, Typed
    <2>2. NoOne # q /\ \A r \in Rows : lock'[r] = IF lock[r] = q THEN NoOne ELSE lock[r]
        BY DnsnSets DEF CommitConversion, FreeLocks
    <2>3. ASSUME NEW r \in Rows PROVE closing'[r] = opening'[r] + movement'[r]
        BY <1>1 DEF CommitConversion, BalanceIsRebuild
    <2> QED BY <2>1, <2>2, <2>3
<1>5. Typed'
    <2>1. pc'[q] \in LabelsOf(Op(q))
        BY <1>4 DEF LabelsOf
    <2>2. \A x \in Requests : DOMAIN written'[x] = Rows /\ pc'[x] \in LabelsOf(Op(x))
        BY <1>1, <1>4, <2>1 DEF Typed, Beside
    <2> QED BY <1>1, <1>2, <1>3, <2>2 DEF Typed, Beside
<1>6. EntriesFollowStatus' /\ BalanceIsRebuild'
    BY <1>1, <1>3, <1>4 DEF EntriesFollowStatus, Committed, BalanceIsRebuild
<1>7. DeletedOnce'
    BY <1>1, <1>2, <1>4 DEF DeletedOnce, Beside
<1>8. OwnInv(q)'
    <2>1. (Op(q))' = Op(q)
        BY <1>2
    <2> QED BY <1>3, <1>4, <2>1 DEF OwnInv, AtVoucher, AtEntries, AtRows, AtConversion, Working
<1>9. ASSUME NEW x \in Requests, x # q PROVE OwnInv(x)'
    <2>1. /\ pc'[x] = pc[x] /\ todo'[x] = todo[x] /\ type'[x] = type[x]
          /\ value'[x] = value[x] /\ written'[x] = written[x] /\ mine'[x] = mine[x]
          /\ \A r \in Rows : lock'[r] = x <=> lock[r] = x
        BY <1>9 DEF Beside
    <2>2. /\ AtVoucher(x) /\ AtEntries(x) /\ AtRows(x) /\ AtConversion(x)
          /\ (RowAt(x))' = RowAt(x) /\ (Op(x))' = Op(x) /\ (Target(x))' = Target(x) /\ (Month(x))' = Month(x)
        BY <1>1, <1>2, <2>1 DEF OwnInv, RowAt
    <2>3. /\ (Sees(x))' = Sees(x) /\ (Committed(Target(x)))' = Committed(Target(x))
        BY <1>3, <2>1, <2>2 DEF Sees, Committed
    <2>4. AtVoucher(x)'
        BY <1>3, <2>1, <2>2 DEF AtVoucher
    <2>5. AtEntries(x)'
        <3>1. Op(x) # "convert" => \A e \in mine[x] : <<Month(x), e[2]>> \in Rows
            BY <1>1, <2>2, MineShape
        <3> QED BY <2>1, <2>2, <2>3, <3>1 DEF AtEntries
    <2>6. AtRows(x)' /\ AtConversion(x)'
        BY <1>3, <2>1, <2>2, <2>3 DEF AtRows, AtConversion
    <2> QED BY <2>4, <2>5, <2>6 DEF OwnInv
<1> QED BY <1>5, <1>6, <1>7, <1>8, <1>9 DEF DnsnInv

\* Every step keeps the invariant.
LEMMA StepKeeps ==
    ASSUME ConvertedApart, DnsnInv, [Next]_vars
    PROVE  DnsnInv'
<1>1. ASSUME NEW q \in Requests, Serve(q) \/ Dies(q) PROVE DnsnInv'
    <2>1. Beside(q)
        BY <1>1, OthersStay DEF DnsnInv
    <2>2. CASE LosesDeadlock(q) \/ Dies(q)
        BY <2>1, <2>2, AbortKeeps DEF LosesDeadlock, Dies
    <2> QED BY <1>1, <2>1, <2>2, EarlyKeeps, RowKeeps, LateKeeps, ConversionKeeps, CommitKeeps, DropKeeps,
               ConvertKeeps DEF Serve
<1>2. CASE UNCHANGED vars
    <2>1. UNCHANGED <<job, status, entries, movement, opening, closing, lock, pc, todo, type, value, written, mine>>
        BY <1>2 DEF vars, data, locals
    <2>2. \A x \in Requests : /\ (Op(x))' = Op(x) /\ (Target(x))' = Target(x) /\ (Month(x))' = Month(x)
                              /\ (RowAt(x))' = RowAt(x) /\ (Sees(x))' = Sees(x)
                              /\ (Committed(Target(x)))' = Committed(Target(x))
        BY <2>1 DEF Op, Target, Month, RowAt, Sees, Committed
    <2>3. Typed' /\ DeletedOnce'
        BY <2>1, <2>2 DEF DnsnInv, Typed, DeletedOnce
    <2>4. EntriesFollowStatus' /\ BalanceIsRebuild'
        BY <2>1 DEF DnsnInv, EntriesFollowStatus, Committed, BalanceIsRebuild
    <2>5. ASSUME NEW x \in Requests PROVE OwnInv(x)'
        BY <2>1, <2>2 DEF DnsnInv, OwnInv, AtVoucher, AtEntries, AtRows, AtConversion
    <2> QED BY <2>3, <2>4, <2>5 DEF DnsnInv
<1> QED BY <1>1, <1>2 DEF Next

\* The initial tables are consistent, and nobody works on them.
LEMMA InitKeeps == Init => DnsnInv
<1> SUFFICES ASSUME Init PROVE DnsnInv
    OBVIOUS
<1>1. job \in Plans /\ entries = Resting /\ status = InitialStatus
    BY DEF Init
<1>2. \A v \in Vouchers : EntriesOf(v) \subseteq Vouchers \X Types /\ \A e \in EntriesOf(v) : e[1] = v
    BY EntriesShape
<1>3. entries \subseteq Vouchers \X Types
    BY <1>1, <1>2 DEF Resting
<1>4. \A r \in Rows : EntriesAt(entries, r) \subseteq Vouchers \X Types
    BY <1>3 DEF EntriesAt
<1>5. movement \in [Rows -> Int]
    BY <1>1, <1>4, TotalIs DEF Init
<1>6. Typed
    <2>1. \A q \in Requests : pc[q] \in LabelsOf(Op(q)) /\ DOMAIN written[q] = Rows
        BY DEF Init, LabelsOf
    <2> QED BY <1>3, <1>5, <2>1, DnsnData DEF Init, Typed
<1>7. EntriesFollowStatus
    <2>1. \A v \in Vouchers : Committed(v) = IF InitialStatus[v] = "posted" THEN EntriesOf(v) ELSE {}
        BY <1>1, <1>2 DEF Committed, Resting
    <2> QED BY <1>1, <2>1 DEF EntriesFollowStatus
<1>8. BalanceIsRebuild
    BY <1>1, <1>5 DEF Init, BalanceIsRebuild
<1>9. ASSUME NEW q \in Requests PROVE OwnInv(q)
    <2>1. pc[q] = "start" /\ mine[q] = {} /\ \A r \in Rows : lock[r] # q
        BY DnsnSets DEF Init
    <2>2. Op(q) = "post" => status[Target(q)] = "absent"
        BY <1>1, FreshVouchers DEF Op, Target
    <2> QED BY <2>1, <2>2 DEF OwnInv, AtVoucher, AtEntries, AtRows, AtConversion, Working
<1>10. DeletedOnce
    BY DEF Init, DeletedOnce
<1> QED BY <1>6, <1>7, <1>8, <1>9, <1>10 DEF DnsnInv

\* The inductive invariant.
LEMMA DnsnAlways == ASSUME ConvertedApart PROVE Spec => []DnsnInv
<1> QED BY InitKeeps, StepKeeps, PTL DEF Spec

\* Balance rows are what a rebuild would give: a row is locked before the entries are
\* selected for it, and whoever inserts or deletes an entry locks its row.  Conversions
\* read before they lock, so it holds while nobody posts in the month converted.
THEOREM BalancesAreRebuilt == ASSUME ConvertedApart PROVE Spec => []BalanceIsRebuild
<1>1. DnsnInv => BalanceIsRebuild
    BY DEF DnsnInv
<1> QED BY <1>1, DnsnAlways, PTL

(***************************************************************************)
(* The contract.                                                           *)
(***************************************************************************)
\* A status in the terms of the contract.
ContractStatus(s) == IF s = "absent" THEN "draft" ELSE IF s = "removed" THEN "deleted" ELSE s
\* The statuses the contract sees.
Lives == [v \in Vouchers |-> ContractStatus(status[v])]

\* What reaches the rows with a posting, and leaves them with an unposting.
LEMMA MovementMoves ==
    ASSUME DnsnInv, NEW q \in Requests, CommitPosting(q)
    PROVE  /\ Op(q) = "post" => movement' = [r \in Rows |-> movement[r] + 1 * RowAmount[Target(q)][r]]
           /\ Op(q) = "remove" /\ status[Target(q)] = "posted"
                  => movement' = [r \in Rows |-> movement[r] + (-1) * RowAmount[Target(q)][r]]
           /\ Op(q) = "remove" /\ status[Target(q)] = "draft" => movement' = movement
<1>1. /\ Target(q) \in Vouchers /\ mine[q] \subseteq Vouchers \X Types /\ \A e \in mine[q] : e[1] = Target(q)
      /\ entries' = Sees(q) /\ entries' \subseteq Vouchers \X Types
      /\ movement' \in [Rows -> Int]
      /\ \A r \in Rows : movement'[r] = Total(EntriesAt(entries', r))
    BY CommitIs
<1>2. /\ Op(q) = "post" => status[Target(q)] = "absent" /\ mine[q] = EntriesOf(Target(q))
      /\ Op(q) = "remove" => status[Target(q)] \in {"posted", "draft"} /\ mine[q] = Committed(Target(q))
    BY CommitStatus
<1>3. /\ movement \in [Rows -> Int] /\ entries \subseteq Vouchers \X Types
      /\ \A r \in Rows : movement[r] = Total(EntriesAt(entries, r))
      /\ Committed(Target(q)) = IF status[Target(q)] = "posted" THEN EntriesOf(Target(q)) ELSE {}
    BY <1>1 DEF DnsnInv, Typed, BalanceIsRebuild, EntriesFollowStatus
<1>4. PICK v \in Vouchers : v = Target(q)
    BY <1>1
<1>5. ASSUME NEW E, NEW F, E \subseteq Vouchers \X Types, F = E \cup EntriesOf(v),
             \A e \in E : e[1] # v, NEW r \in Rows
      PROVE  /\ Total(EntriesAt(F, r)) = Total(EntriesAt(E, r)) + RowAmount[v][r]
             /\ Total(EntriesAt(E, r)) \in Int /\ RowAmount[v][r] \in Int
    <2>1. EntriesOf(v) \subseteq Vouchers \X Types /\ \A e \in EntriesOf(v) : e[1] = v
        BY EntriesShape
    <2>2. /\ EntriesAt(F, r) = EntriesAt(E, r) \cup EntriesAt(EntriesOf(v), r)
          /\ EntriesAt(E, r) \subseteq Vouchers \X Types /\ EntriesAt(EntriesOf(v), r) \subseteq Vouchers \X Types
          /\ EntriesAt(E, r) \cap EntriesAt(EntriesOf(v), r) = {}
        BY <1>5, <2>1 DEF EntriesAt
    <2>3. Total(EntriesAt(EntriesOf(v), r)) = RowAmount[v][r]
        BY TotalOfVoucher
    <2> QED BY <2>2, <2>3, TotalUnion, TotalIs
<1>6. CASE Op(q) = "post"
    <2>1. /\ entries' = entries \cup EntriesOf(v) /\ \A e \in entries : e[1] # v
        BY <1>1, <1>2, <1>3, <1>4, <1>6 DEF Sees, Committed
    <2>2. \A r \in Rows : movement'[r] = movement[r] + 1 * RowAmount[v][r]
        <3>1. TAKE r \in Rows
        <3>2. /\ Total(EntriesAt(entries', r)) = Total(EntriesAt(entries, r)) + RowAmount[v][r]
              /\ RowAmount[v][r] \in Int
            BY <1>3, <1>5, <2>1
        <3> QED BY <1>1, <1>3, <3>2
    <2> QED BY <1>1, <1>4, <1>6, <2>2
<1>7. CASE Op(q) = "remove" /\ status[v] = "posted"
    <2>1. /\ entries = entries' \cup EntriesOf(v) /\ \A e \in entries' : e[1] # v
        BY <1>1, <1>2, <1>3, <1>4, <1>7 DEF Sees, Committed
    <2>2. \A r \in Rows : movement'[r] = movement[r] + (-1) * RowAmount[v][r]
        <3>1. TAKE r \in Rows
        <3>2. /\ Total(EntriesAt(entries, r)) = Total(EntriesAt(entries', r)) + RowAmount[v][r]
              /\ RowAmount[v][r] \in Int /\ Total(EntriesAt(entries', r)) \in Int
            BY <1>1, <1>5, <2>1
        <3> QED BY <1>1, <1>3, <3>2
    <2> QED BY <1>1, <1>4, <1>7, <2>2
<1>8. CASE Op(q) = "remove" /\ status[v] = "draft"
    <2>1. entries' = entries
        BY <1>1, <1>2, <1>3, <1>4, <1>8 DEF Sees
    <2> QED BY <1>1, <1>3, <1>4, <1>8, <2>1
<1> QED BY <1>2, <1>4, <1>6, <1>7, <1>8

\* A status that changes for one voucher.
LEMMA LivesMove ==
    ASSUME DnsnInv, NEW v \in Vouchers, NEW s, status' = [status EXCEPT ![v] = s]
    PROVE  Lives' = [Lives EXCEPT ![v] = ContractStatus(s)]
<1>1. DOMAIN status = Vouchers
    BY DEF DnsnInv, Typed
<1>2. \A w \in Vouchers : status'[w] = IF w = v THEN s ELSE status[w]
    BY <1>1
<1>3. /\ DOMAIN Lives = Vouchers /\ DOMAIN Lives' = Vouchers
      /\ Lives = [w \in Vouchers |-> ContractStatus(status[w])]
      /\ Lives' = [w \in Vouchers |-> ContractStatus(status'[w])]
    BY DEF Lives
<1>4. \A w \in Vouchers : ContractStatus(status'[w]) = [Lives EXCEPT ![v] = ContractStatus(s)][w]
    <2>1. TAKE w \in Vouchers
    <2>2. CASE w = v
        BY <1>2, <1>3, <2>2
    <2>3. CASE w # v
        BY <1>2, <1>3, <2>3
    <2> QED BY <2>2, <2>3
<1>5. Lives' = [w \in Vouchers |-> [Lives EXCEPT ![v] = ContractStatus(s)][w]]
    BY <1>3, <1>4
<1>6. DOMAIN [Lives EXCEPT ![v] = ContractStatus(s)] = Vouchers
      /\ [Lives EXCEPT ![v] = ContractStatus(s)]
            = [w \in Vouchers |-> [Lives EXCEPT ![v] = ContractStatus(s)][w]]
    BY <1>3
<1> QED BY <1>5, <1>6

\* Every step of the requests is a step of the contract, or none.
LEMMA StepOfContract ==
    ASSUME DnsnInv, [Next]_vars
    PROVE  [Books!CNext]_(Books!cvars)
<1>1. \A v \in Vouchers : Lives[v] = ContractStatus(status[v])
    BY DEF Lives
<1>2. CASE UNCHANGED <<status, movement>>
    BY <1>2 DEF Books!cvars
<1>3. ASSUME NEW q \in Requests, CommitPosting(q) PROVE [Books!CNext]_(Books!cvars)
    <2>1. PICK v \in Vouchers : v = Target(q)
        BY <1>3, CommitIs
    <2>2. /\ Op(q) \in {"post", "remove"} /\ status' = [status EXCEPT ![v] = OutcomeOf(q)]
          /\ OutcomeOf(q) = IF Op(q) = "post" THEN "posted" ELSE "draft"
          /\ Op(q) = "post" => status[v] = "absent"
          /\ Op(q) = "remove" => status[v] \in {"posted", "draft"}
        BY <1>3, <2>1, CommitIs, CommitStatus
    <2>3. Lives' = [Lives EXCEPT ![v] = OutcomeOf(q)]
        BY <2>2, LivesMove DEF ContractStatus
    <2>4. CASE Op(q) = "post"
        <3>1. movement' = [r \in Rows |-> movement[r] + 1 * RowAmount[v][r]]
            BY <1>3, <2>1, <2>4, MovementMoves
        <3>2. Lives[v] = "draft" /\ Lives' = [Lives EXCEPT ![v] = "posted"]
            BY <1>1, <2>2, <2>3, <2>4 DEF ContractStatus
        <3>3. Books!Post(v)
            BY <3>1, <3>2 DEF Books!Post, Books!Moved, Lives, ContractStatus, RowAmount
        <3> QED BY <3>3 DEF Books!CNext
    <2>5. CASE Op(q) = "remove" /\ status[v] = "posted"
        <3>1. movement' = [r \in Rows |-> movement[r] + (-1) * RowAmount[v][r]]
            BY <1>3, <2>1, <2>5, MovementMoves
        <3>2. Lives[v] = "posted" /\ Lives' = [Lives EXCEPT ![v] = "draft"]
            BY <1>1, <2>2, <2>3, <2>5 DEF ContractStatus
        <3>3. Books!Unpost(v)
            BY <3>1, <3>2 DEF Books!Unpost, Books!Moved, Lives, ContractStatus, RowAmount
        <3> QED BY <3>3 DEF Books!CNext
    <2>6. CASE Op(q) = "remove" /\ status[v] = "draft"
        <3>1. movement' = movement
            BY <1>3, <2>1, <2>6, MovementMoves
        <3>2. Lives' = Lives
            BY <1>1, <2>2, <2>3, <2>6 DEF ContractStatus, Lives
        <3> QED BY <3>1, <3>2 DEF Books!cvars, Lives, ContractStatus, RowAmount
    <2> QED BY <2>2, <2>4, <2>5, <2>6
<1>4. ASSUME NEW q \in Requests, DropVoucher(q) PROVE [Books!CNext]_(Books!cvars)
    <2>1. PICK v \in Vouchers : v = Target(q)
        BY <1>4, DropIs
    <2>2. /\ status[v] \in {"draft", "removed"} /\ status' = [status EXCEPT ![v] = "removed"]
          /\ movement' = movement
        BY <1>4, <2>1, DropIs
    <2>3. Lives' = [Lives EXCEPT ![v] = "deleted"]
        BY <2>2, LivesMove DEF ContractStatus
    <2>4. CASE status[v] = "draft"
        <3>1. Lives[v] = "draft"
            BY <1>1, <2>4 DEF ContractStatus
        <3>2. Books!Delete(v)
            BY <2>2, <2>3, <3>1 DEF Books!Delete, Lives, ContractStatus, RowAmount
        <3> QED BY <3>2 DEF Books!CNext
    <2>5. CASE status[v] = "removed"
        <3>1. Lives' = Lives
            BY <1>1, <2>3, <2>5 DEF ContractStatus, Lives
        <3> QED BY <2>2, <3>1 DEF Books!cvars, Lives, ContractStatus, RowAmount
    <2> QED BY <2>2, <2>4, <2>5
<1>5. ASSUME NEW q \in Requests, CommitConversion(q) PROVE [Books!CNext]_(Books!cvars)
    BY <1>2, <1>5, ConversionIs
<1>6. ASSUME NEW q \in Requests, Serve(q) \/ Dies(q), ~CommitPosting(q), ~DropVoucher(q), ~CommitConversion(q)
      PROVE  UNCHANGED data
    <2>1. CASE Abort(q)
        BY <2>1 DEF Abort
    <2>2. CASE BeginPost(q) \/ LoadVoucher(q) \/ SelectTypes(q) \/ DeleteEntries(q)
        BY <2>1, <2>2 DEF BeginPost, LoadVoucher, SelectTypes, DeleteEntries
    <2>3. CASE \E t \in Types : LockRow(q, t) \/ SelectEntries(q, t) \/ ReadForConversion(q, t)
        BY <2>3 DEF LockRow, SelectEntries, ReadForConversion
    <2>4. CASE RebuildRow(q) \/ UpdateEntry(q) \/ SaveDraft(q) \/ BeginConvert(q) \/ SaveConverted(q)
        BY <2>1, <2>4 DEF RebuildRow, UpdateEntry, SaveDraft, BeginConvert, SaveConverted
    <2>5. CASE LosesDeadlock(q) \/ Dies(q)
        BY <2>1, <2>5 DEF LosesDeadlock, Dies
    <2> QED BY <1>6, <2>2, <2>3, <2>4, <2>5 DEF Serve
<1>7. CASE UNCHANGED vars
    BY <1>2, <1>7 DEF vars, data
<1> QED BY <1>2, <1>3, <1>4, <1>5, <1>6, <1>7 DEF Next, data

\* The ledger keeps the contract of the posting service: what a voucher adds reaches its
\* rows at once with its status, and leaves them once, although it may be removed twice.
THEOREM DnsnKeepsContract == ASSUME ConvertedApart PROVE Spec => KeepsContract
<1>1. DnsnInv => Books!CInit
    BY DEF DnsnInv, Typed, Statuses, Books!CInit
<1>2. DnsnInv /\ [Next]_vars => [Books!CNext]_(Books!cvars)
    BY StepOfContract
<1> QED BY <1>1, <1>2, InitKeeps, DnsnAlways, PTL DEF Spec, KeepsContract, Books!Contract


(***************************************************************************)
(* Running balances.                                                       *)
(***************************************************************************)
\* Nobody else removes the voucher of q.
Alone(q) == \A x \in Requests \ {q} : Op(x) = "remove" => Target(x) # Target(q)

\* Months are apart: a posting meets no posting of another month, and a removal
\* of another month only where its voucher is removed once.
MonthsApart ==
    \A plan \in Plans : \A q, x \in Requests :
        plan[q].op = "post" /\ plan[x].op \in {"post", "remove"}
                /\ PeriodOf[plan[q].voucher] # PeriodOf[plan[x].voucher]
            => /\ plan[x].op = "remove"
               /\ \A y \in Requests \ {x} : plan[y].op = "remove" => plan[y].voucher # plan[x].voucher

\* The types it has locked whose running balances it has computed.
Done(q) == {t \in Types \ redo[q] : /\ Op(q) # "convert" /\ lock[<<Month(q), t>>] = q
                                    /\ ~(pc[q] = "rebuild" /\ type[q] = t)}

\* An entry it has computed and not updated has been deleted meanwhile.
Doomed(q) == \E u \in stale[q] : u[1] \notin Sees(q) /\ status[u[1][1]] # "absent"

\* What it still has to compute.
AtRedo(q) ==
    /\ pc[q] \notin Working \/ Op(q) = "convert" => redo[q] = {} /\ updated[q] = {}
    /\ pc[q] = "update" <=> stale[q] # {}
    /\ \A u \in stale[q] : u[1] \in Vouchers \X Types
    /\ Op(q) # "convert" => \A t \in Types : t \in todo[q] => lock[<<Month(q), t>>] # q
    /\ Op(q) = "remove" => redo[q] = IF pc[q] = "select" THEN {type[q]} ELSE {}
    /\ Op(q) = "remove" /\ pc[q] = "select" => type[q] \in Types /\ lock[RowAt(q)] = q
    /\ Op(q) = "post" => redo[q] \subseteq TypesIn(mine[q])
    /\ Op(q) = "post" /\ pc[q] \in {"rows", "rebuild"} =>
           \A t \in Types : t \in todo[q] \/ lock[<<Month(q), t>>] = q => t \in redo[q]
    /\ Op(q) = "post" /\ pc[q] = "commit" => redo[q] = {}

\* A removal nobody else attempts has its voucher to itself.
AtRemoval(q) ==
    Op(q) = "remove" /\ Alone(q) /\ pc[q] \notin {"start", "drop", "ended"} =>
        /\ status[Target(q)] = "posted"
        /\ pc[q] # "types" => \A t \in Types : t \in todo[q] \/ lock[<<Month(q), t>>] = q
                                                  => <<Target(q), t>> \in EntriesOf(Target(q))

\* What it has computed is right while it works, or it is going to fail.
AtUpdates(q) ==
    ~Doomed(q) =>
        /\ \A u \in stale[q] \cup updated[q] :
              /\ u[1] \in Sees(q) /\ u[1][2] \in Done(q)
              /\ u[2] = Cumulative(Sees(q), u[1])
        /\ \A e \in Sees(q) : e[2] \in Done(q) => \E u \in stale[q] \cup updated[q] : u[1] = e

\* Nobody has updated an entry that q has deleted.
HeldOnce(q) ==
    Op(q) = "remove" => \A x \in Requests \ {q} : \A u \in updated[x] : u[1] \notin mine[q]

\* What holds of the running balances of a request at its label.
RunInv(q) == AtRedo(q) /\ AtRemoval(q) /\ AtUpdates(q) /\ HeldOnce(q)

\* The variables of the recomputation have a value for every request.
RunTyped == DOMAIN redo = Requests /\ DOMAIN stale = Requests /\ DOMAIN updated = Requests

\* The inductive invariant.
RunningInv == RunTyped /\ RunningIsCumulative /\ \A q \in Requests : RunInv(q)

\* The others keep what they have recomputed.
RunBeside(q) ==
    /\ DOMAIN redo' = Requests /\ DOMAIN stale' = Requests /\ DOMAIN updated' = Requests
    /\ \A x \in Requests \ {q} : redo'[x] = redo[x] /\ stale'[x] = stale[x] /\ updated'[x] = updated[x]

\* A rollback, and every commit, forgets the recomputation.
LEMMA ForgetIs ==
    ASSUME RunTyped, NEW q \in Requests, ForgetLocals(q)
    PROVE  RunBeside(q) /\ redo'[q] = {} /\ stale'[q] = {} /\ updated'[q] = {}
    BY DEF RunTyped, ForgetLocals, RunBeside

\* What one request recomputes, when a step leaves it alone.
LEMMA RunOthersStay ==
    ASSUME RunTyped, NEW q \in Requests, Serve(q) \/ Dies(q)
    PROVE  RunBeside(q)
<1>a. Abort(q) => RunBeside(q)
    BY ForgetIs DEF Abort
<1> USE DEF RunTyped
<1>1. CASE BeginPost(q)
    BY <1>1, <1>a DEF BeginPost, RunBeside
<1>2. CASE LoadVoucher(q) \/ SelectTypes(q) \/ DeleteEntries(q) \/ BeginConvert(q) \/ SaveConverted(q)
    BY <1>2 DEF LoadVoucher, SelectTypes, DeleteEntries, BeginConvert, SaveConverted, RunBeside
<1>3. ASSUME NEW t \in Types, LockRow(q, t) \/ ReadForConversion(q, t) PROVE RunBeside(q)
    BY <1>3 DEF LockRow, ReadForConversion, RunBeside
<1>4. ASSUME NEW t \in Types, SelectEntries(q, t) PROVE RunBeside(q)
    BY <1>4 DEF SelectEntries, RunBeside
<1>5. CASE RebuildRow(q)
    BY <1>5 DEF RebuildRow, RunBeside
<1>6. CASE UpdateEntry(q)
    BY <1>6, <1>a DEF UpdateEntry, RunBeside
<1>7. CASE SaveDraft(q)
    BY <1>7, <1>a DEF SaveDraft, RunBeside, locals
<1>8. CASE CommitPosting(q) \/ DropVoucher(q) \/ CommitConversion(q)
    BY <1>8, ForgetIs DEF CommitPosting, DropVoucher, CommitConversion
<1>9. CASE LosesDeadlock(q) \/ Dies(q)
    BY <1>9, <1>a DEF LosesDeadlock, Dies
<1> QED BY <1>1, <1>2, <1>3, <1>4, <1>5, <1>6, <1>7, <1>8, <1>9 DEF Serve

\* A step that leaves the entries alone, and the vouchers that are posted, is told by
\* what it does for the request at work.
LEMMA RunLocalStep ==
    ASSUME DnsnInv, RunningInv, NEW q \in Requests, Beside(q), RunBeside(q), RunInv(q)',
           UNCHANGED <<entries, running>>,
           \A v \in Vouchers : /\ status[v] = "posted" => status'[v] = "posted"
                               /\ status[v] # "absent" => status'[v] # "absent",
           \A x \in Requests \ {q} : Op(x) = "remove" => \A u \in updated'[q] : u[1] \notin mine[x]
    PROVE  RunningInv'
<1>1. RunTyped'
    BY DEF RunBeside, RunTyped
<1>2. RunningIsCumulative'
    BY DEF RunningInv, RunningIsCumulative
<1>3. ASSUME NEW x \in Requests, x # q PROVE RunInv(x)'
    <2>1. /\ pc'[x] = pc[x] /\ todo'[x] = todo[x] /\ type'[x] = type[x] /\ mine'[x] = mine[x]
          /\ redo'[x] = redo[x] /\ stale'[x] = stale[x] /\ updated'[x] = updated[x]
          /\ \A r \in Rows : lock'[r] = x <=> lock[r] = x
        BY <1>3 DEF Beside, RunBeside
    <2>2. \A y \in Requests : (Op(y))' = Op(y) /\ (Target(y))' = Target(y) /\ (Month(y))' = Month(y)
        BY DEF Beside, Op, Target, Month
    <2>3. /\ (RowAt(x))' = RowAt(x) /\ (Sees(x))' = Sees(x) /\ (Alone(x))' = Alone(x)
        BY <2>1, <2>2 DEF RowAt, Sees, Alone
    <2>4. job \in Plans /\ Month(x) \in Periods /\ (Op(x) # "convert" => Target(x) \in Vouchers)
        BY JobShape DEF DnsnInv, Typed
    <2>5. \A t \in Types : lock'[<<Month(x), t>>] = x <=> lock[<<Month(x), t>>] = x
        BY <2>1, <2>4 DEF Rows
    <2>6. (Done(x))' = Done(x)
        BY <2>1, <2>2, <2>5 DEF Done
    <2>7. AtRedo(x) /\ AtRemoval(x) /\ AtUpdates(x) /\ HeldOnce(x)
        BY DEF RunningInv, RunInv
    <2>8. AtRedo(x)'
        <3>1. Op(x) = "remove" /\ pc[x] = "select" => type[x] \in Types /\ (lock'[RowAt(x)] = x <=> lock[RowAt(x)] = x)
            BY <2>5, <2>7 DEF AtRedo, RowAt
        <3> QED BY <2>1, <2>2, <2>3, <2>5, <2>7, <3>1 DEF AtRedo
    <2>9. AtRemoval(x)'
        BY <2>1, <2>2, <2>3, <2>4, <2>5, <2>7 DEF AtRemoval
    <2>10. AtUpdates(x)'
        <3>1. \A u \in stale[x] : u[1][1] \in Vouchers
            BY <2>7 DEF AtRedo
        <3>2. Doomed(x) => (Doomed(x))'
            BY <2>1, <2>3, <3>1 DEF Doomed
        <3> QED BY <2>1, <2>3, <2>6, <2>7, <3>2 DEF AtUpdates
    <2>11. HeldOnce(x)'
        <3>1. Op(x) = "remove" => \A y \in Requests \ {x} : \A u \in updated'[y] : u[1] \notin mine[x]
            <4>1. \A y \in Requests \ {x, q} : updated'[y] = updated[y]
                BY DEF RunBeside
            <4> QED BY <1>3, <2>7, <4>1 DEF HeldOnce
        <3> QED BY <2>1, <2>2, <3>1 DEF HeldOnce
    <2> QED BY <2>8, <2>9, <2>10, <2>11 DEF RunInv
<1> QED BY <1>1, <1>2, <1>3 DEF RunningInv

\* The same for a step that leaves the tables alone.
LEMMA RunLocalData ==
    ASSUME DnsnInv, RunningInv, NEW q \in Requests, Beside(q), RunBeside(q), RunInv(q)', UNCHANGED data,
           \A x \in Requests \ {q} : Op(x) = "remove" => \A u \in updated'[q] : u[1] \notin mine[x]
    PROVE  RunningInv'
<1>1. UNCHANGED <<entries, running, status>>
    BY DEF data
<1> QED BY <1>1, RunLocalStep

\* What nobody works on has nothing recomputed.
LEMMA RunAtRest ==
    ASSUME Typed', NEW q \in Requests, pc'[q] \notin Working, pc'[q] \notin {"types", "delete"},
           redo'[q] = {}, stale'[q] = {}, updated'[q] = {}, mine'[q] = {},
           \A r \in Rows : lock'[r] # q,
           (Op(q) = "remove")' => pc'[q] \in {"drop", "ended"}
    PROVE  RunInv(q)'
<1>1. (Op(q))' # "convert" => \A t \in Types : lock'[<<(Month(q))', t>>] # q
    <2>1. job' \in Plans
        BY DEF Typed
    <2>2. (Month(q))' \in Periods
        <3>1. job'[q] \in Jobs
            BY <2>1, DnsnData
        <3>2. CASE (Op(q))' = "convert"
            BY <3>1, <3>2 DEF Jobs, Op, Month
        <3>3. CASE (Op(q))' # "convert"
            BY <3>1, <3>3, DnsnData DEF Jobs, Op, Month, Target
        <3> QED BY <3>2, <3>3
    <2> QED BY <2>2 DEF Rows
<1>2. (Done(q))' = {}
    BY <1>1 DEF Done
<1>3. AtRedo(q)'
    BY <1>1 DEF AtRedo, Working
<1>4. AtRemoval(q)' /\ HeldOnce(q)'
    BY DEF AtRemoval, HeldOnce
<1>5. AtUpdates(q)'
    BY <1>2 DEF AtUpdates
<1> QED BY <1>3, <1>4, <1>5 DEF RunInv

\* A rollback keeps the invariant.
LEMMA RunAbortKeeps ==
    ASSUME DnsnInv, DnsnInv', RunningInv, NEW q \in Requests, Beside(q), RunBeside(q), Abort(q)
    PROVE  RunningInv'
<1>1. /\ UNCHANGED data /\ pc'[q] = "ended" /\ mine'[q] = {}
      /\ \A r \in Rows : lock'[r] = IF lock[r] = q THEN NoOne ELSE lock[r]
    BY AbortIs DEF DnsnInv
<1>2. redo'[q] = {} /\ stale'[q] = {} /\ updated'[q] = {}
    BY ForgetIs DEF Abort, RunningInv
<1>3. \A r \in Rows : lock'[r] # q
    BY <1>1, DnsnSets
<1>4. RunInv(q)'
    BY <1>1, <1>2, <1>3, RunAtRest DEF DnsnInv, Working
<1> QED BY <1>1, <1>2, <1>4, RunLocalData

\* The next update exists: entries are ordered by month and voucher.
LEMMA NextUpdateIs ==
    ASSUME NEW q \in Requests, stale[q] # {}, \A u \in stale[q] : u[1] \in Vouchers \X Types
    PROVE  NextUpdate(q) \in stale[q]
<1>1. ASSUME NEW S \in SUBSET Nat, S # {} PROVE \E n \in S : \A m \in S : n <= m
    <2>1. PICK n \in S : \A m \in S : ~(<<m, n>> \in OpToRel(<, Nat))
        BY <1>1, WFMin, NatLessThanWellFounded
    <2>2. \A m \in S : ~(m < n)
        BY <2>1 DEF OpToRel
    <2> QED BY <2>2
<1>2. \A u \in stale[q] : u[1][1] \in Vouchers /\ u[1][1] \in Nat /\ PeriodOf[u[1][1]] \in Nat
    BY DnsnSets, DnsnData
<1>3. PICK p \in Nat : /\ \E u \in stale[q] : PeriodOf[u[1][1]] = p
                       /\ \A u \in stale[q] : p <= PeriodOf[u[1][1]]
    <2>1. PICK S : S = {PeriodOf[u[1][1]] : u \in stale[q]}
        OBVIOUS
    <2>2. S \in SUBSET Nat /\ S # {}
        BY <1>2, <2>1
    <2> QED BY <1>1, <2>1, <2>2
<1>4. PICK U : U = {u \in stale[q] : PeriodOf[u[1][1]] = p}
    OBVIOUS
<1>5. U # {}
    BY <1>3, <1>4
<1>6. PICK v \in Nat : (\E u \in U : u[1][1] = v) /\ (\A u \in U : v <= u[1][1])
    <2>1. PICK S : S = {u[1][1] : u \in U}
        OBVIOUS
    <2>2. S \in SUBSET Nat /\ S # {}
        BY <1>2, <1>4, <1>5, <2>1
    <2> QED BY <1>1, <2>1, <2>2
<1>7. PICK u \in U : u[1][1] = v
    BY <1>6
<1>8. ASSUME NEW w \in stale[q] PROVE NotAfter(u[1], w[1])
    <2>1. p <= PeriodOf[w[1][1]] /\ PeriodOf[u[1][1]] = p /\ p \in Nat /\ PeriodOf[w[1][1]] \in Nat
        BY <1>2, <1>3, <1>4
    <2>2. PeriodOf[w[1][1]] = p => u[1][1] <= w[1][1]
        BY <1>4, <1>6, <1>7
    <2> QED BY <2>1, <2>2 DEF NotAfter
<1> QED BY <1>4, <1>8 DEF NextUpdate

\* Statements before the first row is locked.
LEMMA RunEarlyKeeps ==
    ASSUME DnsnInv, DnsnInv', RunningInv, NEW q \in Requests, Beside(q), RunBeside(q),
           BeginPost(q) \/ LoadVoucher(q) \/ SelectTypes(q) \/ DeleteEntries(q)
    PROVE  RunningInv'
<1>1. /\ Typed /\ RunTyped /\ job \in Plans /\ AtEntries(q) /\ AtRows(q)
      /\ AtRedo(q) /\ AtRemoval(q) /\ AtUpdates(q) /\ HeldOnce(q)
    BY DEF DnsnInv, OwnInv, Typed, RunningInv, RunInv
<1>2. /\ (Op(q))' = Op(q) /\ (Target(q))' = Target(q) /\ (Month(q))' = Month(q) /\ (Alone(q))' = Alone(q)
      /\ Month(q) \in Periods /\ (Op(q) # "convert" => Target(q) \in Vouchers)
    BY <1>1, JobShape DEF Beside, Op, Target, Month, Alone
<1>3. CASE Abort(q)
    BY <1>3, RunAbortKeeps
<1>4. ASSUME pc[q] \notin Working, Op(q) # "convert", UNCHANGED <<data, lock, stale, updated>>, AtRedo(q)', AtRemoval(q)',
             Op(q) = "remove" => \A x \in Requests \ {q} : \A u \in updated[x] : u[1] \notin mine'[q]
      PROVE  RunningInv'
    <2>1. stale'[q] = {} /\ updated'[q] = {}
        BY <1>1, <1>4 DEF AtRedo, Working
    <2>2. \A t \in Types : lock'[<<Month(q), t>>] # q
        BY <1>1, <1>2, <1>4 DEF AtRows, Rows
    <2>3. (Done(q))' = {}
        BY <1>2, <2>2 DEF Done
    <2>4. AtUpdates(q)'
        BY <2>1, <2>3 DEF AtUpdates
    <2>5. HeldOnce(q)'
        BY <1>2, <1>4 DEF HeldOnce
    <2>6. RunInv(q)'
        BY <1>4, <2>4, <2>5 DEF RunInv
    <2> QED BY <1>4, <2>1, <2>6, RunLocalData
<1>5. CASE BeginPost(q) /\ ~Abort(q)
    <2>1. /\ pc[q] = "start" /\ Op(q) = "post" /\ pc'[q] = "rows" /\ UNCHANGED <<data, lock, stale, updated>>
          /\ mine'[q] = EntriesOf(Target(q)) /\ todo'[q] = TypesIn(mine'[q]) /\ redo'[q] = TypesIn(mine'[q])
        BY <1>1, <1>5 DEF BeginPost, Goto, Typed, RunTyped
    <2>2. \A t \in Types : lock'[<<Month(q), t>>] # q
        BY <1>1, <1>2, <2>1 DEF AtRows, Rows, Working
    <2>3. AtRedo(q)'
        BY <1>1, <1>2, <2>1, <2>2 DEF AtRedo, Working
    <2>4. AtRemoval(q)'
        BY <1>2, <2>1 DEF AtRemoval
    <2> QED BY <1>4, <2>1, <2>3, <2>4 DEF Working
<1>6. CASE LoadVoucher(q)
    <2>1. /\ pc[q] = "start" /\ Op(q) \in {"remove", "discard"} /\ pc'[q] = AfterLoad(q, status[Target(q)])
          /\ UNCHANGED <<data, lock, redo, stale, updated, todo, mine>>
        BY <1>1, <1>6 DEF LoadVoucher, Goto, Typed
    <2>2. UNCHANGED <<status, entries>> /\ status[Target(q)] \in Statuses
        BY <1>1, <1>2, <2>1 DEF data, Typed
    <2>3. /\ pc'[q] \in {"ended", "drop", "types"} /\ (pc'[q] = "types" => status[Target(q)] = "posted")
        BY <2>1, <2>2 DEF AfterLoad, Statuses
    <2>4. \A t \in Types : lock'[<<Month(q), t>>] # q
        BY <1>1, <1>2, <2>1 DEF AtRows, Rows, Working
    <2>5. AtRedo(q)'
        BY <1>1, <1>2, <2>1, <2>3, <2>4 DEF AtRedo, Working
    <2>6. AtRemoval(q)'
        BY <1>2, <2>1, <2>2, <2>3 DEF AtRemoval
    <2>7. mine[q] = {}
        BY <1>1, <2>1 DEF AtEntries, Working
    <2> QED BY <1>4, <2>1, <2>5, <2>6, <2>7 DEF Working
<1>7. CASE SelectTypes(q)
    <2>1. /\ pc[q] = "types" /\ Op(q) = "remove" /\ pc'[q] = "delete"
          /\ UNCHANGED <<data, lock, redo, stale, updated, mine>>
          /\ todo'[q] = TypesIn(Committed(Target(q)))
        BY <1>1, <1>7, LabelsMeet DEF SelectTypes, Goto, Typed, Committed
    <2>2. UNCHANGED <<status, entries>>
        BY <2>1 DEF data
    <2>4. \A t \in Types : lock'[<<Month(q), t>>] # q
        BY <1>1, <1>2, <2>1 DEF AtRows, Rows, Working
    <2>5. AtRedo(q)'
        BY <1>1, <1>2, <2>1, <2>4 DEF AtRedo, Working
    <2>6. AtRemoval(q)'
        <3>1. Alone(q) => status[Target(q)] = "posted"
            BY <1>1, <2>1 DEF AtRemoval
        <3>2. Alone(q) => Committed(Target(q)) = EntriesOf(Target(q))
            BY <1>2, <2>1, <3>1 DEF DnsnInv, EntriesFollowStatus
        <3>3. Alone(q) => \A t \in Types : t \in todo'[q] => <<Target(q), t>> \in EntriesOf(Target(q))
            BY <2>1, <3>2 DEF TypesIn, EntriesOf
        <3> QED BY <1>2, <2>1, <2>2, <2>4, <3>1, <3>3 DEF AtRemoval
    <2>7. mine[q] = {}
        BY <1>1, <2>1 DEF AtEntries, Working
    <2> QED BY <1>4, <2>1, <2>5, <2>6, <2>7 DEF Working
<1>8. CASE DeleteEntries(q)
    <2>1. /\ pc[q] = "delete" /\ Op(q) = "remove" /\ pc'[q] = "rows"
          /\ UNCHANGED <<data, lock, redo, stale, updated, todo>>
          /\ mine'[q] = Committed(Target(q))
          /\ \A x \in Requests \ {q}, e \in Committed(Target(q)) : ~HoldsEntry(x, e)
        BY <1>1, <1>8, LabelsMeet DEF DeleteEntries, Goto, Typed, Committed
    <2>2. UNCHANGED <<status, entries>>
        BY <2>1 DEF data
    <2>4. \A t \in Types : lock'[<<Month(q), t>>] # q
        BY <1>1, <1>2, <2>1 DEF AtRows, Rows, Working
    <2>5. AtRedo(q)'
        BY <1>1, <1>2, <2>1, <2>4 DEF AtRedo, Working
    <2>6. AtRemoval(q)'
        BY <1>1, <1>2, <2>1, <2>2, <2>4 DEF AtRemoval
    <2>7. \A x \in Requests \ {q} : \A u \in updated[x] : u[1] \notin mine'[q]
        BY <2>1 DEF HoldsEntry
    <2> QED BY <1>4, <2>1, <2>5, <2>6, <2>7 DEF Working
<1> QED BY <1>3, <1>5, <1>6, <1>7, <1>8

\* A row is locked, and rebuilt: the types whose running balances it has computed stay.
LEMMA RunRowKeeps ==
    ASSUME DnsnInv, RunningInv, NEW q \in Requests, Beside(q), RunBeside(q),
           (\E t \in Types : LockRow(q, t)) \/ RebuildRow(q)
    PROVE  RunningInv'
<1>1. /\ Typed /\ RunTyped /\ job \in Plans /\ AtEntries(q) /\ AtRows(q)
      /\ AtRedo(q) /\ AtRemoval(q) /\ AtUpdates(q) /\ HeldOnce(q)
    BY DEF DnsnInv, OwnInv, Typed, RunningInv, RunInv
<1>2. /\ (Op(q))' = Op(q) /\ (Target(q))' = Target(q) /\ (Month(q))' = Month(q) /\ (Alone(q))' = Alone(q)
      /\ Month(q) \in Periods /\ (Op(q) # "convert" => Target(q) \in Vouchers)
    BY <1>1, JobShape DEF Beside, Op, Target, Month, Alone
<1>3. ASSUME UNCHANGED <<data, mine, stale, updated>>, (Done(q))' = Done(q), AtRedo(q)', AtRemoval(q)'
      PROVE  RunningInv'
    <2>1. (Sees(q))' = Sees(q)
        BY <1>2, <1>3 DEF Sees, data
    <2>2. AtUpdates(q)'
        <3>1. (Doomed(q))' = Doomed(q)
            BY <1>3, <2>1 DEF Doomed, data
        <3> QED BY <1>1, <1>3, <2>1, <3>1 DEF AtUpdates
    <2>3. HeldOnce(q)'
        <3>1. \A x \in Requests : (Op(q))' = Op(q) /\ updated'[x] = updated[x]
            BY <1>2, <1>3
        <3> QED BY <1>1, <1>3, <3>1 DEF HeldOnce
    <2>4. \A x \in Requests \ {q} : Op(x) = "remove" => \A u \in updated'[q] : u[1] \notin mine[x]
        BY <1>3 DEF RunningInv, RunInv, HeldOnce
    <2> QED BY <1>3, <2>2, <2>3, <2>4, RunLocalData DEF RunInv
<1>4. ASSUME NEW t \in Types, LockRow(q, t) PROVE RunningInv'
    <2>1. /\ pc[q] = "rows" /\ Op(q) \in {"post", "remove"} /\ pc'[q] = "rebuild" /\ type'[q] = t
          /\ t \in todo[q] /\ todo'[q] = todo[q] \ {t} /\ UNCHANGED <<data, mine, redo, stale, updated>>
          /\ lock' = [lock EXCEPT ![<<Month(q), t>>] = q]
        BY <1>1, <1>4, LabelsMeet DEF LockRow, Goto, Typed
    <2>2. \A s \in Types : lock'[<<Month(q), s>>] = IF s = t THEN q ELSE lock[<<Month(q), s>>]
        BY <1>1, <1>2, <2>1 DEF Typed, Rows
    <2>3. t \notin Done(q)
        BY <1>1, <2>1 DEF AtRedo, Done
    <2>4. (Done(q))' = Done(q)
        BY <1>2, <2>1, <2>2, <2>3 DEF Done
    <2>5. AtRedo(q)'
        <3>1. Op(q) = "post" => t \in redo[q] /\ redo[q] \subseteq TypesIn(mine[q])
            BY <1>1, <2>1 DEF AtRedo
        <3>2. Op(q) = "post" => \A s \in Types : s \in todo'[q] \/ lock'[<<Month(q), s>>] = q => s \in redo[q]
            BY <1>1, <2>1, <2>2, <3>1 DEF AtRedo
        <3>3. \A s \in Types : s \in todo'[q] => lock'[<<Month(q), s>>] # q
            BY <1>1, <2>1, <2>2 DEF AtRedo
        <3>4. \A u \in stale[q] : u[1] \in Vouchers \X Types
            BY <1>1 DEF AtRedo
        <3>5. stale[q] = {} /\ (Op(q) = "remove" => redo[q] = {})
            BY <1>1, <2>1 DEF AtRedo
        <3> QED BY <1>2, <2>1, <3>1, <3>2, <3>3, <3>4, <3>5 DEF AtRedo, Working
    <2>6. AtRemoval(q)'
        <3>1. UNCHANGED status
            BY <2>1 DEF data
        <3>2. Op(q) = "remove" /\ Alone(q) => status[Target(q)] = "posted"
            BY <1>1, <2>1 DEF AtRemoval
        <3>3. Op(q) = "remove" /\ Alone(q) => \A s \in Types : s \in todo'[q] \/ lock'[<<Month(q), s>>] = q
                                                   => <<Target(q), s>> \in EntriesOf(Target(q))
            BY <1>1, <2>1, <2>2 DEF AtRemoval
        <3> QED BY <1>2, <2>1, <3>1, <3>2, <3>3 DEF AtRemoval
    <2> QED BY <1>3, <2>1, <2>4, <2>5, <2>6
<1>5. CASE RebuildRow(q)
    <2>1. /\ pc[q] = "rebuild" /\ Op(q) \in {"post", "remove"} /\ pc'[q] \in {"select", "rows"}
          /\ Op(q) = "remove" => pc'[q] = "select"
          /\ UNCHANGED <<data, lock, todo, type, mine, stale, updated>>
          /\ redo'[q] = IF Op(q) = "remove" THEN {type[q]} ELSE redo[q]
        BY <1>1, <1>5, LabelsMeet DEF RebuildRow, Goto, Typed, RunTyped
    <2>2. type[q] \in Types /\ lock[<<Month(q), type[q]>>] = q /\ (RowAt(q))' = RowAt(q)
        BY <1>1, <1>2, <2>1 DEF AtRows, RowAt, Rows
    <2>3. type[q] \notin Done(q) /\ type[q] \in redo'[q]
        BY <1>1, <2>1, <2>2 DEF AtRedo, Done
    <2>4. \A s \in Types \ {type[q]} : s \in redo'[q] <=> s \in redo[q]
        BY <1>1, <2>1 DEF AtRedo
    <2>5. (Done(q))' = Done(q)
        <3>1. \A s \in Types \ {type[q]} : s \in (Done(q))' <=> s \in Done(q)
            BY <1>2, <2>1, <2>4 DEF Done
        <3>2. type[q] \notin (Done(q))'
            BY <2>3 DEF Done
        <3>3. Done(q) \subseteq Types /\ (Done(q))' \subseteq Types
            BY DEF Done
        <3> QED BY <2>3, <3>1, <3>2, <3>3
    <2>6. AtRedo(q)'
        <3>1. lock'[(RowAt(q))'] = q
            BY <2>1, <2>2 DEF RowAt
        <3> QED BY <1>1, <1>2, <2>1, <2>2, <3>1 DEF AtRedo, Working
    <2>7. AtRemoval(q)'
        BY <1>1, <1>2, <2>1 DEF AtRemoval, data
    <2> QED BY <1>3, <2>1, <2>5, <2>6, <2>7
<1> QED BY <1>4, <1>5

\* The recomputation selects the entries, and updates them one by one.
LEMMA RunLateKeeps ==
    ASSUME DnsnInv, DnsnInv', RunningInv, NEW q \in Requests, Beside(q), RunBeside(q),
           (\E t \in Types : SelectEntries(q, t)) \/ UpdateEntry(q) \/ SaveDraft(q)
    PROVE  RunningInv'
<1>1. /\ Typed /\ RunTyped /\ job \in Plans /\ AtEntries(q) /\ AtRows(q)
      /\ AtRedo(q) /\ AtRemoval(q) /\ AtUpdates(q) /\ HeldOnce(q)
    BY DEF DnsnInv, OwnInv, Typed, RunningInv, RunInv
<1>2. /\ (Op(q))' = Op(q) /\ (Target(q))' = Target(q) /\ (Month(q))' = Month(q) /\ (Alone(q))' = Alone(q)
      /\ Month(q) \in Periods /\ (Op(q) # "convert" => Target(q) \in Vouchers)
    BY <1>1, JobShape DEF Beside, Op, Target, Month, Alone
<1>3. CASE Abort(q)
    BY <1>3, RunAbortKeeps
<1>4. ASSUME UNCHANGED <<data, lock, todo, type, mine>>, AtRedo(q)', AtUpdates(q)',
             pc[q] \in Working, pc'[q] \in Working,
             \A x \in Requests \ {q} : \A u \in updated'[q] : u \in updated[q] \/ u[1] \notin mine[x]
      PROVE  RunningInv'
    <2>1. AtRemoval(q)'
        BY <1>1, <1>2, <1>4 DEF AtRemoval, Working, data
    <2>2. HeldOnce(q)'
        <3>1. \A x \in Requests \ {q} : updated'[x] = updated[x]
            BY DEF RunBeside
        <3> QED BY <1>1, <1>2, <1>4, <3>1 DEF HeldOnce
    <2>3. \A x \in Requests \ {q} : Op(x) = "remove" => \A u \in updated'[q] : u[1] \notin mine[x]
        <3>1. \A x \in Requests \ {q} : Op(x) = "remove" => \A u \in updated[q] : u[1] \notin mine[x]
            BY DEF RunningInv, RunInv, HeldOnce
        <3> QED BY <1>4, <3>1
    <2> QED BY <1>4, <2>1, <2>2, <2>3, RunLocalData DEF RunInv
<1>5. ASSUME NEW t \in Types, SelectEntries(q, t) PROVE RunningInv'
    <2>1. PICK E : E = {e \in Sees(q) : e[2] = t}
        OBVIOUS
    <2>2. /\ pc[q] = "select" /\ Op(q) \in {"post", "remove"} /\ t \in redo[q] /\ redo'[q] = redo[q] \ {t}
          /\ stale'[q] = {<<e, Cumulative(E, e)>> : e \in E}
          /\ pc'[q] = IF E # {} THEN "update" ELSE AfterType(q, redo[q] \ {t})
          /\ UNCHANGED <<data, lock, todo, type, mine, updated>>
        BY <1>1, <1>5, <2>1, LabelsMeet DEF SelectEntries, Goto, Typed, RunTyped
    <2>3. stale'[q] = {} <=> E = {}
        BY <2>2
    <2>4. (Sees(q))' = Sees(q)
        BY <1>2, <2>2 DEF Sees, data
    <2>5. Sees(q) \subseteq Vouchers \X Types
        BY <1>1, <2>2, MineShape DEF Sees, Typed
    <2>6. lock[<<Month(q), t>>] = q
        <3>1. CASE Op(q) = "remove"
            BY <1>1, <2>2, <3>1 DEF AtRedo, RowAt
        <3>2. CASE Op(q) = "post"
            <4>1. todo[q] = {} /\ t \in TypesIn(mine[q])
                BY <1>1, <2>2, <3>2 DEF AtRedo, AtEntries
            <4>2. PICK e \in mine[q] : e[2] = t
                BY <4>1 DEF TypesIn
            <4> QED BY <1>1, <2>2, <4>1, <4>2 DEF AtEntries
        <3> QED BY <2>2, <3>1, <3>2
    <2>7. (Done(q))' = Done(q) \cup {t}
        <3>1. pc'[q] # "rebuild"
            BY <2>2 DEF AfterType
        <3>2. t \in (Done(q))'
            BY <1>2, <2>2, <2>6, <3>1 DEF Done
        <3>3. \A s \in Types \ {t} : s \in (Done(q))' <=> s \in Done(q)
            BY <1>2, <2>2, <3>1 DEF Done
        <3>4. (Done(q))' \subseteq Types /\ Done(q) \subseteq Types
            BY DEF Done
        <3> QED BY <3>2, <3>3, <3>4
    <2>8. AtRedo(q)'
        <3>1. ASSUME NEW u \in stale'[q] PROVE u[1] \in Vouchers \X Types
            <4>1. PICK e \in E : u = <<e, Cumulative(E, e)>>
                BY <2>2
            <4> QED BY <2>1, <2>5, <4>1
        <3>2. pc'[q] = "update" <=> stale'[q] # {}
            BY <2>2, <2>3 DEF AfterType
        <3>3. Op(q) = "remove" => redo'[q] = {} /\ pc'[q] \in {"update", "rows"}
            BY <1>1, <2>2 DEF AtRedo, AfterType
        <3>4. Op(q) = "post" => redo'[q] \subseteq TypesIn(mine[q])
            BY <1>1, <2>2 DEF AtRedo
        <3>5. Op(q) = "post" => /\ pc'[q] \in {"update", "select", "commit"}
                                /\ pc'[q] = "commit" => redo'[q] = {}
            BY <2>2 DEF AfterType
        <3>6. \A s \in Types : s \in todo[q] => lock[<<Month(q), s>>] # q
            BY <1>1, <2>2 DEF AtRedo
        <3>7. pc'[q] \in Working
            BY <2>2, <3>3, <3>5 DEF Working
        <3> QED BY <1>2, <2>2, <3>1, <3>2, <3>3, <3>4, <3>5, <3>6, <3>7 DEF AtRedo
    <2>9. AtUpdates(q)'
        <3>1. stale[q] = {}
            BY <1>1, <2>2 DEF AtRedo
        <3>2. ~Doomed(q)
            BY <3>1 DEF Doomed
        <3>3. \A e \in E : Cumulative(E, e) = Cumulative(Sees(q), e)
            <4>1. \A e \in E : {d \in E : d[2] = e[2] /\ NotAfter(d, e)} = {d \in Sees(q) : d[2] = e[2] /\ NotAfter(d, e)}
                BY <2>1
            <4> QED BY <4>1 DEF Cumulative
        <3>4. ASSUME NEW u \in stale'[q] \cup updated'[q]
              PROVE  u[1] \in Sees(q) /\ u[1][2] \in Done(q) \cup {t} /\ u[2] = Cumulative(Sees(q), u[1])
            <4>1. CASE u \in stale'[q]
                <5>1. PICK e \in E : u = <<e, Cumulative(E, e)>>
                    BY <2>2, <4>1
                <5>2. u[1] = e /\ u[2] = Cumulative(E, e)
                    BY <5>1
                <5> QED BY <2>1, <3>3, <5>2
            <4>2. CASE u \in updated'[q]
                BY <1>1, <2>2, <3>2, <4>2 DEF AtUpdates
            <4> QED BY <4>1, <4>2
        <3>5. ASSUME NEW e \in Sees(q), e[2] \in Done(q) \cup {t} PROVE \E u \in stale'[q] \cup updated'[q] : u[1] = e
            <4>1. CASE e[2] = t
                <5>1. <<e, Cumulative(E, e)>> \in stale'[q]
                    BY <2>1, <2>2, <4>1
                <5> QED BY <5>1
            <4>2. CASE e[2] # t
                BY <1>1, <2>2, <3>1, <3>2, <3>5, <4>2 DEF AtUpdates
            <4> QED BY <4>1, <4>2
        <3> QED BY <2>4, <2>7, <3>4, <3>5 DEF AtUpdates
    <2>10. pc'[q] \in Working
        BY <2>2 DEF AfterType, Working
    <2> QED BY <1>4, <2>2, <2>8, <2>9, <2>10 DEF Working
<1>6. CASE UpdateEntry(q) /\ ~Abort(q)
    <2>1. PICK u : u = NextUpdate(q)
        OBVIOUS
    <2>2. /\ pc[q] = "update" /\ Op(q) \in {"post", "remove"} /\ u[1] \in Sees(q)
          /\ \A x \in Requests \ {q} : ~HoldsEntry(x, u[1])
          /\ stale'[q] = stale[q] \ {u} /\ updated'[q] = {w \in updated[q] : w[1] # u[1]} \cup {u}
          /\ pc'[q] = IF stale[q] # {u} THEN "update" ELSE AfterType(q, redo[q])
          /\ UNCHANGED <<data, lock, todo, redo, type, mine>>
        BY <1>1, <1>6, <2>1, LabelsMeet DEF UpdateEntry, UpdateFails, Gone, Goto, Typed, RunTyped
    <2>3. u \in stale[q]
        BY <1>1, <2>1, <2>2, NextUpdateIs DEF AtRedo
    <2>4. (Sees(q))' = Sees(q)
        BY <1>2, <2>2 DEF Sees, data
    <2>5. pc'[q] # "rebuild" /\ pc'[q] \in Working
        BY <2>2 DEF AfterType, Working
    <2>6. (Done(q))' = Done(q)
        BY <1>2, <2>2, <2>5 DEF Done
    <2>7. AtRedo(q)'
        <3>1. \A w \in stale'[q] : w[1] \in Vouchers \X Types
            BY <1>1, <2>2 DEF AtRedo
        <3>2. pc'[q] = "update" <=> stale'[q] # {}
            BY <2>2, <2>3 DEF AfterType
        <3>3. Op(q) = "remove" => redo'[q] = {} /\ pc'[q] \in {"update", "rows"}
            BY <1>1, <2>2 DEF AtRedo, AfterType
        <3>4. Op(q) = "post" => redo'[q] \subseteq TypesIn(mine[q])
            BY <1>1, <2>2 DEF AtRedo
        <3>5. Op(q) = "post" => /\ pc'[q] \in {"update", "select", "commit"}
                                /\ pc'[q] = "commit" => redo'[q] = {}
            BY <2>2 DEF AfterType
        <3>6. \A s \in Types : s \in todo[q] => lock[<<Month(q), s>>] # q
            BY <1>1, <2>2 DEF AtRedo
        <3> QED BY <1>2, <2>2, <2>5, <3>1, <3>2, <3>3, <3>4, <3>5, <3>6 DEF AtRedo
    <2>8. AtUpdates(q)'
        <3>1. Doomed(q) => (Doomed(q))'
            <4>1. \A w \in stale[q] : w[1] \notin Sees(q) => w \in stale'[q]
                BY <2>2
            <4> QED BY <2>2, <2>4, <4>1 DEF Doomed, data
        <3>2. stale'[q] \cup updated'[q] \subseteq stale[q] \cup updated[q]
            BY <2>2, <2>3
        <3>3. ASSUME NEW e, \E w \in stale[q] \cup updated[q] : w[1] = e
              PROVE  \E w \in stale'[q] \cup updated'[q] : w[1] = e
            BY <2>2, <3>3
        <3> QED BY <1>1, <2>4, <2>6, <3>1, <3>2, <3>3 DEF AtUpdates
    <2>9. \A x \in Requests \ {q} : \A w \in updated'[q] : w \in updated[q] \/ w[1] \notin mine[x]
        BY <2>2 DEF HoldsEntry
    <2> QED BY <1>4, <2>2, <2>5, <2>7, <2>8, <2>9 DEF Working
<1>7. CASE SaveDraft(q) /\ ~Abort(q)
    <2>1. /\ pc[q] = "rows" /\ Op(q) = "remove" /\ todo[q] = {} /\ pc'[q] = "commit"
          /\ UNCHANGED <<data, lock, todo, redo, type, mine, stale, updated>>
        BY <1>1, <1>7 DEF SaveDraft, Goto, Typed, locals
    <2>2. (Sees(q))' = Sees(q)
        BY <1>2, <2>1 DEF Sees, data
    <2>3. (Done(q))' = Done(q)
        BY <1>2, <2>1 DEF Done
    <2>4. AtRedo(q)'
        BY <1>1, <1>2, <2>1 DEF AtRedo, Working
    <2>5. AtUpdates(q)'
        <3>1. (Doomed(q))' = Doomed(q)
            BY <2>1, <2>2 DEF Doomed, data
        <3> QED BY <1>1, <2>1, <2>2, <2>3, <3>1 DEF AtUpdates
    <2> QED BY <1>4, <2>1, <2>4, <2>5 DEF Working
<1> QED BY <1>3, <1>5, <1>6, <1>7

\* A conversion recomputes nothing.
LEMMA RunConversionKeeps ==
    ASSUME DnsnInv, RunningInv, NEW q \in Requests, Beside(q), RunBeside(q),
           BeginConvert(q) \/ (\E t \in Types : ReadForConversion(q, t)) \/ SaveConverted(q)
    PROVE  RunningInv'
<1>1. /\ Typed /\ RunTyped /\ AtRedo(q) /\ (Op(q))' = Op(q)
    BY DEF DnsnInv, RunningInv, RunInv, Beside, Op
<1>2. /\ Op(q) = "convert" /\ pc[q] # "update" /\ pc'[q] # "update" /\ UNCHANGED <<data, redo, stale, updated>>
    <2>1. CASE BeginConvert(q)
        BY <1>1, <2>1 DEF BeginConvert, Goto, Typed
    <2>2. CASE \E t \in Types : ReadForConversion(q, t)
        BY <1>1, <2>2 DEF ReadForConversion, Goto, Typed
    <2>3. CASE SaveConverted(q)
        BY <1>1, <2>3, LabelsMeet DEF SaveConverted, Goto, Typed
    <2> QED BY <2>1, <2>2, <2>3
<1>3. redo'[q] = {} /\ stale'[q] = {} /\ updated'[q] = {}
    BY <1>1, <1>2 DEF AtRedo
<1>4. AtRedo(q)'
    BY <1>1, <1>2, <1>3 DEF AtRedo
<1>5. AtRemoval(q)' /\ HeldOnce(q)'
    BY <1>1, <1>2 DEF AtRemoval, HeldOnce
<1>6. AtUpdates(q)'
    <2>1. (Done(q))' = {}
        BY <1>1, <1>2 DEF Done
    <2> QED BY <1>3, <2>1 DEF AtUpdates
<1> QED BY <1>2, <1>3, <1>4, <1>5, <1>6, RunLocalData DEF RunInv

\* What a posting or unposting is about to commit: running balances that are right for
\* the entries as it sees them, and every entry of its types among them.
LEMMA RunCommitIs ==
    ASSUME DnsnInv, RunningInv, NEW q \in Requests, CommitPosting(q)
    PROVE  /\ stale[q] = {} /\ \A d \in mine[q] : d[2] \in Done(q)
           /\ \A u \in updated[q] : u[1] \in Sees(q) /\ u[2] = Cumulative(Sees(q), u[1])
           /\ \A e \in Sees(q) : e[2] \in Done(q) => \E u \in updated[q] : u[1] = e
<1>1. /\ Typed /\ job \in Plans /\ AtEntries(q) /\ AtRedo(q) /\ AtUpdates(q)
    BY DEF DnsnInv, OwnInv, Typed, RunningInv, RunInv
<1>2. pc[q] = "commit" /\ Op(q) \in {"post", "remove"}
    BY CommitIs
<1>3. stale[q] = {} /\ redo[q] = {}
    BY <1>1, <1>2 DEF AtRedo
<1>4. ~Doomed(q)
    BY <1>3 DEF Doomed
<1>5. ASSUME NEW d \in mine[q] PROVE d[2] \in Done(q)
    <2>1. d[2] \in Types /\ lock[<<Month(q), d[2]>>] = q
        BY <1>1, <1>2, MineShape DEF AtEntries
    <2> QED BY <1>2, <1>3, <2>1 DEF Done
<1> QED BY <1>1, <1>3, <1>4, <1>5 DEF AtUpdates

\* Its commit keeps the running balances cumulative.
LEMMA CommitCumulative ==
    ASSUME DnsnInv, RunningInv, NEW q \in Requests, CommitPosting(q)
    PROVE  RunningIsCumulative'
<1>1. PICK F : F = Sees(q)
    OBVIOUS
<1>2. entries' = F /\ F \subseteq Vouchers \X Types /\ Op(q) \in {"post", "remove"}
    BY <1>1, CommitIs
<1>3. /\ \A d \in mine[q] : d[2] \in Done(q)
      /\ \A u \in updated[q] : u[1] \in F /\ u[2] = Cumulative(F, u[1])
      /\ \A e \in F : e[2] \in Done(q) => \E u \in updated[q] : u[1] = e
    BY <1>1, RunCommitIs
<1>4. running' = [e \in Vouchers \X Types |->
                     IF \E u \in updated[q] : u[1] = e
                     THEN (CHOOSE u \in updated[q] : u[1] = e)[2] ELSE running[e]]
    BY DEF CommitPosting
<1>5. ASSUME NEW e \in F PROVE running'[e] = Cumulative(F, e)
    <2>1. CASE \E u \in updated[q] : u[1] = e
        <3>1. PICK w : w = CHOOSE u \in updated[q] : u[1] = e
            OBVIOUS
        <3>2. w \in updated[q] /\ w[1] = e
            BY <2>1, <3>1
        <3>3. running'[e] = w[2]
            BY <1>2, <1>4, <2>1, <3>1
        <3> QED BY <1>3, <3>2, <3>3
    <2>2. CASE ~\E u \in updated[q] : u[1] = e
        <3>1. running'[e] = running[e]
            BY <1>2, <1>4, <2>2
        <3>2. e[2] \notin Done(q)
            BY <1>3, <2>2
        <3>3. \A d : d[2] = e[2] => (d \in F <=> d \in entries)
            BY <1>1, <1>3, <3>2 DEF Sees
        <3>4. e \in entries
            BY <3>3
        <3>5. {d \in F : d[2] = e[2] /\ NotAfter(d, e)} = {d \in entries : d[2] = e[2] /\ NotAfter(d, e)}
            BY <3>3
        <3>6. running[e] = Cumulative(entries, e)
            BY <3>4 DEF RunningInv, RunningIsCumulative
        <3> QED BY <3>1, <3>5, <3>6 DEF Cumulative
    <2> QED BY <2>1, <2>2
<1> QED BY <1>2, <1>5 DEF RunningIsCumulative

\* A type that one has recomputed, and whose entries another changes, is changed by a
\* removal in another month, and the entry it deletes is one the first has still to update.
LEMMA CommitMeets ==
    ASSUME MonthsApart, DnsnInv, RunningInv, NEW q \in Requests, CommitPosting(q),
           NEW x \in Requests, x # q, NEW d \in mine[q], d[2] \in Done(x), ~Doomed(x)
    PROVE  /\ Op(q) = "remove" /\ d \in entries /\ d \notin mine[x]
           /\ \E u \in stale[x] : u[1] = d
<1>1. /\ Typed /\ job \in Plans /\ AtEntries(q) /\ AtEntries(x) /\ AtRows(x) /\ AtRedo(x) /\ AtRemoval(x)
      /\ AtUpdates(x) /\ HeldOnce(q) /\ HeldOnce(x) /\ EntriesFollowStatus /\ DeletedOnce
    BY DEF DnsnInv, OwnInv, Typed, RunningInv, RunInv
<1>2. /\ pc[q] = "commit" /\ Op(q) \in {"post", "remove"} /\ Target(q) \in Vouchers
      /\ Op(q) = "remove" => mine[q] = Committed(Target(q))
    BY CommitIs, CommitStatus
<1>3. PICK t : t = d[2]
    OBVIOUS
<1>4. t \in Types /\ lock[<<Month(q), t>>] = q /\ d[1] = Target(q) /\ t \in Done(q)
    BY <1>1, <1>2, <1>3, MineShape, RunCommitIs DEF Done
<1>5. Op(x) # "convert" /\ lock[<<Month(x), t>>] = x
    BY <1>3 DEF Done
<1>6. Month(x) # Month(q)
    BY <1>4, <1>5
<1>7. /\ Op(x) \in {"post", "remove", "discard"} /\ Target(x) \in Vouchers /\ Month(x) \in Periods
      /\ Month(x) = PeriodOf[Target(x)] /\ Month(q) = PeriodOf[Target(q)]
    BY <1>1, <1>2, <1>5, JobShape
<1>8. pc[x] \in Working
    BY <1>1, <1>4, <1>5, <1>7 DEF AtRows, Rows
<1>9. Op(x) \in {"post", "remove"}
    BY <1>1, <1>7, <1>8 DEF Typed, LabelsOf, Working
<1>10. CASE Op(q) = "post"
    <2>1. /\ Op(x) = "remove"
          /\ \A y \in Requests \ {x} : Op(y) = "remove" => Target(y) # Target(x)
        BY <1>1, <1>6, <1>7, <1>9, <1>10 DEF MonthsApart, Op, Target
    <2>2. Alone(x)
        BY <2>1 DEF Alone
    <2>3. /\ status[Target(x)] = "posted" /\ <<Target(x), t>> \in EntriesOf(Target(x))
        BY <1>1, <1>4, <1>5, <1>8, <2>1, <2>2 DEF AtRemoval, Working
    <2>4. PICK m : m = <<Target(x), t>>
        OBVIOUS
    <2>5. m \in Committed(Target(x)) /\ m \in mine[x] /\ m[2] = t
        BY <1>1, <1>7, <1>8, <2>1, <2>3, <2>4 DEF EntriesFollowStatus, AtEntries
    <2>6. m \in Sees(q)
        BY <1>10, <2>5 DEF Committed, Sees
    <2>7. PICK u \in updated[q] : u[1] = m
        BY <1>4, <2>5, <2>6, RunCommitIs
    <2> QED BY <1>1, <2>1, <2>5, <2>7 DEF HeldOnce
<1>11. CASE Op(q) = "remove"
    <2>1. d \in entries
        BY <1>2, <1>11 DEF Committed
    <2>2. d \notin mine[x]
        <3>1. CASE Op(x) = "post"
            <4>1. Target(x) # Target(q)
                BY <1>1, <1>11, <3>1, Fresh
            <4> QED BY <1>1, <1>4, <3>1, <4>1, MineShape
        <3>2. CASE Op(x) = "remove"
            BY <1>1, <1>11, <3>2 DEF DeletedOnce
        <3> QED BY <1>9, <3>1, <3>2
    <2>3. d \in Sees(x)
        BY <2>1, <2>2 DEF Sees
    <2>4. PICK u \in stale[x] \cup updated[x] : u[1] = d
        BY <1>1, <2>3 DEF AtUpdates
    <2>5. u \notin updated[x]
        BY <1>1, <1>11, <2>4 DEF HeldOnce
    <2> QED BY <1>11, <2>1, <2>2, <2>4, <2>5
<1> QED BY <1>2, <1>10, <1>11

\* Its commit leaves the recomputations of the others right, or dooms them.
LEMMA RunCommitKeeps ==
    ASSUME MonthsApart, DnsnInv, DnsnInv', RunningInv, NEW q \in Requests, Beside(q), RunBeside(q), CommitPosting(q)
    PROVE  RunningInv'
<1>1. /\ Typed /\ RunTyped /\ job \in Plans
      /\ pc[q] = "commit" /\ Op(q) \in {"post", "remove"} /\ Target(q) \in Vouchers
      /\ \A e \in mine[q] : e[1] = Target(q)
    BY CommitIs DEF DnsnInv, Typed, RunningInv
<1>2. /\ status' = [status EXCEPT ![Target(q)] = OutcomeOf(q)]
      /\ OutcomeOf(q) = IF Op(q) = "post" THEN "posted" ELSE "draft"
      /\ Op(q) = "post" => status[Target(q)] = "absent"
    BY CommitStatus
<1>3. entries' = Sees(q)
    BY CommitIs
<1>4. RunInv(q)'
    <2>1. redo'[q] = {} /\ stale'[q] = {} /\ updated'[q] = {}
        BY <1>1, ForgetIs DEF CommitPosting
    <2>2. /\ pc'[q] = (IF Op(q) = "remove" THEN "drop" ELSE "ended") /\ mine'[q] = {}
          /\ \A r \in Rows : lock'[r] # q
        <3>1. NoOne # q /\ \A r \in Rows : lock'[r] = IF lock[r] = q THEN NoOne ELSE lock[r]
            BY DnsnSets DEF CommitPosting, FreeLocks
        <3> QED BY <1>1, <3>1 DEF CommitPosting, ForgetLocals, Goto, Typed
    <2> QED BY <2>1, <2>2, RunAtRest DEF DnsnInv, Working
<1>5. ASSUME NEW x \in Requests, x # q PROVE RunInv(x)'
    <2>1. /\ pc'[x] = pc[x] /\ todo'[x] = todo[x] /\ type'[x] = type[x] /\ mine'[x] = mine[x]
          /\ redo'[x] = redo[x] /\ stale'[x] = stale[x] /\ updated'[x] = updated[x]
          /\ \A r \in Rows : lock'[r] = x <=> lock[r] = x
        BY <1>5 DEF Beside, RunBeside
    <2>2. \A y \in Requests : (Op(y))' = Op(y) /\ (Target(y))' = Target(y) /\ (Month(y))' = Month(y)
        BY DEF Beside, Op, Target, Month
    <2>3. /\ (RowAt(x))' = RowAt(x) /\ (Alone(x))' = Alone(x)
          /\ (Sees(x))' = IF Op(x) = "post" THEN entries' \cup mine[x] ELSE entries' \ mine[x]
        BY <2>1, <2>2 DEF RowAt, Sees, Alone
    <2>4. Month(x) \in Periods /\ (Op(x) # "convert" => Target(x) \in Vouchers)
        BY <1>1, JobShape
    <2>5. \A t \in Types : lock'[<<Month(x), t>>] = x <=> lock[<<Month(x), t>>] = x
        BY <2>1, <2>4 DEF Rows
    <2>6. (Done(x))' = Done(x)
        BY <2>1, <2>2, <2>5 DEF Done
    <2>7. AtRedo(x) /\ AtRemoval(x) /\ AtUpdates(x) /\ HeldOnce(x)
        BY DEF RunningInv, RunInv
    <2>8. AtRedo(x)'
        <3>1. Op(x) = "remove" /\ pc[x] = "select" => type[x] \in Types /\ (lock'[RowAt(x)] = x <=> lock[RowAt(x)] = x)
            BY <2>5, <2>7 DEF AtRedo, RowAt
        <3> QED BY <2>1, <2>2, <2>3, <2>5, <2>7, <3>1 DEF AtRedo
    <2>9. AtRemoval(x)'
        <3>1. Op(x) = "remove" /\ Alone(x) => Target(x) # Target(q)
            BY <1>1, <1>5, Fresh DEF Alone
        <3>2. Op(x) = "remove" /\ Alone(x) => status'[Target(x)] = status[Target(x)]
            BY <1>1, <1>2, <2>4, <3>1 DEF Typed
        <3> QED BY <2>1, <2>2, <2>3, <2>4, <2>5, <2>7, <3>2 DEF AtRemoval
    <2>10. AtUpdates(x)'
        <3>1. SUFFICES ASSUME ~(Doomed(x))' PROVE AtUpdates(x)'
            BY DEF AtUpdates
        <3>2. \A v \in Vouchers : status[v] # "absent" => status'[v] # "absent"
            BY <1>1, <1>2 DEF Typed
        <3>3. ~Doomed(x)
            <4> SUFFICES ASSUME NEW u \in stale[x], u[1] \notin Sees(x), status[u[1][1]] # "absent"
                         PROVE  (Doomed(x))'
                BY <3>1 DEF Doomed
            <4>1. u[1][1] \in Vouchers
                BY <2>7 DEF AtRedo
            <4>2. Op(q) = "post" => u[1] \notin mine[q]
                BY <1>1, <1>2
            <4>3. u[1] \notin (Sees(x))'
                BY <1>1, <1>3, <2>3, <4>2 DEF Sees
            <4> QED BY <2>1, <3>2, <4>1, <4>3 DEF Doomed
        <3>4. ASSUME NEW d \in mine[q] PROVE d[2] \notin Done(x)
            <4> SUFFICES ASSUME d[2] \in Done(x) PROVE (Doomed(x))'
                BY <3>1
            <4>1. Op(q) = "remove" /\ d \in entries /\ d \notin mine[x] /\ \E u \in stale[x] : u[1] = d
                BY <1>5, <3>3, <3>4, CommitMeets
            <4>2. d \notin (Sees(x))'
                BY <1>3, <2>3, <3>4, <4>1 DEF Sees
            <4>3. status'[d[1]] # "absent"
                BY <1>1, <1>2, <3>4, <4>1 DEF Typed
            <4> QED BY <2>1, <4>1, <4>2, <4>3 DEF Doomed
        <3>5. \A e : e[2] \in Done(x) => (e \in (Sees(x))' <=> e \in Sees(x))
            BY <1>3, <2>3, <3>4 DEF Sees
        <3>6. PICK S, F : S = Sees(x) /\ F = (Sees(x))'
            OBVIOUS
        <3>7. ASSUME NEW e, e[2] \in Done(x) PROVE Cumulative(F, e) = Cumulative(S, e)
            <4>1. {d \in F : d[2] = e[2] /\ NotAfter(d, e)} = {d \in S : d[2] = e[2] /\ NotAfter(d, e)}
                BY <3>5, <3>6, <3>7
            <4> QED BY <4>1 DEF Cumulative
        <3>8. /\ \A u \in stale[x] \cup updated[x] : u[1] \in S /\ u[1][2] \in Done(x) /\ u[2] = Cumulative(S, u[1])
              /\ \A e \in S : e[2] \in Done(x) => \E u \in stale[x] \cup updated[x] : u[1] = e
            BY <2>7, <3>3, <3>6 DEF AtUpdates
        <3>9. \A u \in stale[x] \cup updated[x] : u[1] \in F /\ u[1][2] \in Done(x) /\ u[2] = Cumulative(F, u[1])
            BY <3>5, <3>6, <3>7, <3>8
        <3>10. \A e \in F : e[2] \in Done(x) => \E u \in stale[x] \cup updated[x] : u[1] = e
            BY <3>5, <3>6, <3>8
        <3> QED BY <2>1, <2>6, <3>6, <3>9, <3>10 DEF AtUpdates
    <2>11. HeldOnce(x)'
        <3>1. Op(x) = "remove" => \A y \in Requests \ {x} : \A u \in updated'[y] : u[1] \notin mine[x]
            <4>1. \A y \in Requests \ {x, q} : updated'[y] = updated[y]
                BY DEF RunBeside
            <4>2. updated'[q] = {}
                BY <1>1, ForgetIs DEF CommitPosting
            <4> QED BY <2>7, <4>1, <4>2 DEF HeldOnce
        <3> QED BY <2>1, <2>2, <3>1 DEF HeldOnce
    <2> QED BY <2>8, <2>9, <2>10, <2>11 DEF RunInv
<1>6. RunTyped'
    BY DEF RunBeside, RunTyped
<1> QED BY <1>4, <1>5, <1>6, CommitCumulative DEF RunningInv

\* A deletion, and a conversion, leave the entries alone.
LEMMA RunOtherCommits ==
    ASSUME DnsnInv, DnsnInv', RunningInv, NEW q \in Requests, Beside(q), RunBeside(q),
           DropVoucher(q) \/ CommitConversion(q)
    PROVE  RunningInv'
<1>1. /\ Typed /\ RunTyped /\ AtRows(q)
    BY DEF DnsnInv, OwnInv, RunningInv
<1>2. (Op(q))' = Op(q)
    BY DEF Beside, Op
<1>3. /\ UNCHANGED <<entries, running>> /\ pc'[q] = "ended" /\ mine'[q] = {} /\ \A r \in Rows : lock'[r] # q
    <2>1. CASE DropVoucher(q)
        BY <1>1, <2>1, DropIs DEF DropVoucher, ForgetLocals, Goto, Typed, AtRows, Working
    <2>2. CASE CommitConversion(q)
        <3>1. NoOne # q /\ \A r \in Rows : lock'[r] = IF lock[r] = q THEN NoOne ELSE lock[r]
            BY <2>2, DnsnSets DEF CommitConversion, FreeLocks
        <3> QED BY <1>1, <2>2, <3>1 DEF CommitConversion, ForgetLocals, Goto, Typed
    <2> QED BY <2>1, <2>2
<1>4. redo'[q] = {} /\ stale'[q] = {} /\ updated'[q] = {}
    BY <1>1, ForgetIs DEF DropVoucher, CommitConversion
<1>5. RunInv(q)'
    BY <1>3, <1>4, RunAtRest DEF DnsnInv, Working
<1>6. \A v \in Vouchers : /\ status[v] = "posted" => status'[v] = "posted"
                          /\ status[v] # "absent" => status'[v] # "absent"
    <2>1. CASE DropVoucher(q)
        BY <1>1, <2>1, DropIs DEF Typed
    <2>2. CASE CommitConversion(q)
        BY <2>2, ConversionIs
    <2> QED BY <2>1, <2>2
<1> QED BY <1>3, <1>4, <1>5, <1>6, RunLocalStep

\* Every step keeps the invariant.
LEMMA RunStepKeeps ==
    ASSUME ConvertedApart, MonthsApart, DnsnInv, RunningInv, [Next]_vars
    PROVE  RunningInv'
<1>0. DnsnInv'
    BY StepKeeps
<1>1. ASSUME NEW q \in Requests, Serve(q) \/ Dies(q) PROVE RunningInv'
    <2>1. Beside(q) /\ RunBeside(q)
        BY <1>1, OthersStay, RunOthersStay DEF DnsnInv, RunningInv
    <2>2. CASE LosesDeadlock(q) \/ Dies(q)
        BY <1>0, <2>1, <2>2, RunAbortKeeps DEF LosesDeadlock, Dies
    <2> QED BY <1>0, <1>1, <2>1, <2>2, RunEarlyKeeps, RunRowKeeps, RunLateKeeps, RunConversionKeeps,
               RunCommitKeeps, RunOtherCommits DEF Serve
<1>2. CASE UNCHANGED vars
    <2>1. UNCHANGED <<job, status, entries, running, lock, pc, todo, redo, type, mine, stale, updated>>
        BY <1>2 DEF vars, data, locals
    <2>2. \A x \in Requests : /\ (Op(x))' = Op(x) /\ (Target(x))' = Target(x) /\ (Month(x))' = Month(x)
                              /\ (RowAt(x))' = RowAt(x) /\ (Sees(x))' = Sees(x) /\ (Alone(x))' = Alone(x)
        BY <2>1 DEF Op, Target, Month, RowAt, Sees, Alone
    <2>3. RunTyped' /\ RunningIsCumulative'
        BY <2>1 DEF RunningInv, RunTyped, RunningIsCumulative
    <2>4. ASSUME NEW x \in Requests PROVE RunInv(x)'
        <3>1. AtRedo(x) /\ AtRemoval(x) /\ AtUpdates(x) /\ HeldOnce(x)
            BY DEF RunningInv, RunInv
        <3>2. (Done(x))' = Done(x) /\ (Doomed(x))' = Doomed(x)
            BY <2>1, <2>2 DEF Done, Doomed
        <3>3. AtRedo(x)' /\ AtRemoval(x)' /\ AtUpdates(x)' /\ HeldOnce(x)'
            BY <2>1, <2>2, <3>1, <3>2 DEF AtRedo, AtRemoval, AtUpdates, HeldOnce
        <3> QED BY <3>3 DEF RunInv
    <2> QED BY <2>3, <2>4 DEF RunningInv
<1> QED BY <1>1, <1>2 DEF Next

\* The running balances at rest are cumulative, and nobody recomputes them.
LEMMA RunInitKeeps == Init => RunningInv
<1> SUFFICES ASSUME Init PROVE RunningInv
    OBVIOUS
<1>1. RunTyped
    BY DEF Init, RunTyped
<1>2. RunningIsCumulative
    <2>1. entries = Resting /\ entries \subseteq Vouchers \X Types
        BY InitKeeps DEF Init, DnsnInv, Typed
    <2> QED BY <2>1 DEF Init, RunningIsCumulative
<1>3. ASSUME NEW q \in Requests PROVE RunInv(q)
    <2>1. /\ pc[q] = "start" /\ redo[q] = {} /\ stale[q] = {} /\ updated[q] = {} /\ mine[q] = {} /\ todo[q] = {}
          /\ \A r \in Rows : lock[r] # q
        BY DnsnSets DEF Init
    <2>2. Month(q) \in Periods
        BY JobShape DEF Init
    <2>3. \A t \in Types : lock[<<Month(q), t>>] # q
        BY <2>1, <2>2 DEF Rows
    <2>4. Done(q) = {}
        BY <2>3 DEF Done
    <2>5. AtRedo(q) /\ AtRemoval(q) /\ HeldOnce(q)
        BY <2>1 DEF AtRedo, AtRemoval, HeldOnce, Working
    <2>6. AtUpdates(q)
        BY <2>1, <2>4 DEF AtUpdates
    <2> QED BY <2>5, <2>6 DEF RunInv
<1> QED BY <1>1, <1>2, <1>3 DEF RunningInv

\* The running balance of every committed entry is the sum of the entries up to it, in every
\* month, although the entries are selected without locks: a recomputation that has
\* selected an entry deleted meanwhile fails when it comes to update it.  It holds while
\* postings of different months do not meet, nor a posting a voucher of another month
\* that is removed twice: the second removal deletes nothing, so it rewrites what it has
\* read before the posting without meeting it.
THEOREM RunningStaysCumulative == ASSUME ConvertedApart, MonthsApart PROVE Spec => []RunningIsCumulative
<1>1. RunningInv => RunningIsCumulative
    BY DEF RunningInv
<1>2. DnsnInv /\ RunningInv /\ [Next]_vars => RunningInv'
    BY RunStepKeeps
<1> QED BY <1>1, <1>2, RunInitKeeps, DnsnAlways, PTL DEF Spec
=============================================================================
