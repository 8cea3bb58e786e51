--------------------- MODULE PostingConcurrencyProofs ---------------------
(***************************************************************************)
(* Theorems about PostingConcurrency, for every set of requests, vouchers, *)
(* rows and months.                                                        *)
(***************************************************************************)
EXTENDS PostingConcurrency, SumLemmas

(***************************************************************************)
(* Types of the operators.                                                 *)
(***************************************************************************)

\* Running balances are sums over finite sets of lines.
LEMMA CumulativeType ==
    ASSUME NEW a \in [Vouchers -> [Rows -> Int]], NEW vs \in SUBSET Vouchers,
           NEW L \in SUBSET LinesOf(vs, a), NEW x
    PROVE  Cumulative(L, a, x) \in Int
<1> DEFINE upTo == {y \in L : y[2][2] = x[2][2] /\ UpTo(y[1], x[1])}
           f    == [y \in upTo |-> a[y[1]][y[2]]]
<1>1. IsFiniteSet(Vouchers \X Rows)
  BY SetAssumption, FS_Product
<1>2. upTo \in SUBSET (Vouchers \X Rows)
  BY DEF LinesOf
<1>3. IsFiniteSet(upTo)
  BY <1>1, <1>2, FS_Subset
<1>4. \A y \in upTo : f[y] \in Int
  BY <1>2
<1>5. SumFunctionOnSet(f, upTo) \in Int
  BY <1>3, <1>4, SumInt
<1>. QED
  BY <1>5 DEF Cumulative, Sum

\* What the closing computes is an amount per row.
LEMMA ClosingAmountsType ==
    ASSUME balance \in [Rows -> Int], NEW p
    PROVE  ClosingAmounts(p) \in [Rows -> Int]
<1> DEFINE closed == ToClose(p)
           f      == [x \in closed |-> balance[x]]
<1>1. IsFiniteSet(closed)
  BY SetAssumption, FS_Subset DEF ToClose
<1>2. \A x \in closed : f[x] \in Int
  BY SetAssumption DEF ToClose
<1>3. SumFunctionOnSet(f, closed) \in Int
  BY <1>1, <1>2, SumInt
<1>4. ClosingAmounts(p) =
          [r \in Rows |-> IF r \in closed THEN -balance[r]
                          ELSE IF r = Profit[p] THEN SumFunctionOnSet(f, closed) ELSE 0]
  BY DEF ClosingAmounts, Sum
<1> HIDE DEF f, closed
<1>. QED
  BY <1>3, <1>4

\* Finitely many vouchers are posted and their amounts add up to an integer.
LEMMA ProjectionType ==
    ASSUME NEW s \in [Vouchers -> Statuses], NEW a \in [Vouchers -> [Rows -> Int]], NEW r \in Rows
    PROVE  LET posted == {v \in Vouchers : s[v] = "posted"}
           IN  /\ IsFiniteSet(posted)
               /\ Sum([v \in posted |-> a[v][r]], posted) \in Int
<1> DEFINE posted == {v \in Vouchers : s[v] = "posted"}
           f      == [v \in posted |-> a[v][r]]
<1>1. IsFiniteSet(posted)
  BY SetAssumption, FS_Subset
<1>2. \A v \in posted : f[v] \in Int
  OBVIOUS
<1>3. SumFunctionOnSet(f, posted) \in Int
  BY <1>1, <1>2, SumInt
<1>. QED
  BY <1>1, <1>3 DEF Sum

\* The target of a request, and what it does.
LEMMA JobType ==
    ASSUME NEW q \in Requests
    PROVE  /\ Target(q) \in Vouchers
           /\ Op(q) \in {"post", "remove", "close"}
           /\ Sign(q) \in {-1, 1}
           /\ Outcome(q) \in Statuses
           /\ Op(q) = "close" <=> Target(q) \in Closing /\ InitialStatus[Target(q)] = "unused"
BY JobAssumption DEF Jobs, Target, Op, Sign, Outcome, Statuses

\* The amounts a request moves.
LEMMA AmountsType ==
    ASSUME TypeOK, NEW q \in Requests
    PROVE  Amounts(q) \in [Rows -> Int]
BY JobType DEF TypeOK, Amounts

(***************************************************************************)
(* Type correctness.                                                       *)
(***************************************************************************)

\* The initial data is well typed.
LEMMA TypeInit == Init => TypeOK
<1>1. SUFFICES ASSUME Init PROVE TypeOK
  OBVIOUS
<1>2. NoRow \in Rows
  BY SetAssumption DEF NoRow
<1>3. status \in [Vouchers -> Statuses] /\ amount \in [Vouchers -> [Rows -> Int]]
  BY <1>1, DataAssumption DEF Init
<1>4. balance \in [Rows -> Int]
  BY <1>1, DataAssumption, ProjectionType DEF Init
<1>5. running \in [Vouchers -> [Rows -> Int]]
  <2>1. ASSUME NEW v \in Vouchers, NEW r \in Rows
        PROVE  Cumulative(PostedLines, amount, <<v, r>>) \in Int
    <3>1. PostedLines \in SUBSET LinesOf({w \in Vouchers : status[w] = "posted"}, amount)
      BY DEF PostedLines
    <3>. QED
      BY <1>3, <3>1, CumulativeType
  <2>. QED
    BY <1>1, <2>1 DEF Init
<1>6. /\ lock \in [Rows -> Requests \cup {NoOne}]
      /\ pc \in [Requests -> {"start", "loaded", "delete", "ended"} \cup InTransaction]
      /\ seen \in [Requests -> Statuses]
  BY <1>1 DEF Init, Statuses
<1>7. /\ todo \in [Requests -> SUBSET Rows]
      /\ row \in [Requests -> Rows]
      /\ value \in [Requests -> Int]
  BY <1>1, <1>2 DEF Init
<1>8. /\ written \in [Requests -> [Rows -> Int]]
      /\ kc \in [Requests -> [Rows -> Int]]
  BY <1>1 DEF Init, NoAmount
<1>9. /\ stale \in [Requests -> SUBSET (Vouchers \X Rows \X Int)]
      /\ updated \in [Requests -> SUBSET (Vouchers \X Rows \X Int)]
  BY <1>1 DEF Init
<1>. QED
  BY <1>3, <1>4, <1>5, <1>6, <1>7, <1>8, <1>9 DEF TypeOK

\* A rollback keeps the types.
LEMMA RollbackType ==
    ASSUME TypeOK, NEW q \in Requests, Rollback(q)
    PROVE  TypeOK'
<1>1. NoRow \in Rows
  BY SetAssumption DEF NoRow
<1>. QED
  BY <1>1 DEF TypeOK, Rollback, Release, Forget, Goto, data, NoAmount, Statuses

\* A statement keeps the types.
LEMMA WorkType ==
    ASSUME TypeOK, NEW q \in Requests, Work(q)
    PROVE  TypeOK'
<1>1. NoRow \in Rows
  BY SetAssumption DEF NoRow
<1>2. Target(q) \in Vouchers /\ Op(q) \in {"post", "remove", "close"} /\ Sign(q) \in {-1, 1} /\ Outcome(q) \in Statuses
  BY JobType
<1>3. Amounts(q) \in [Rows -> Int] /\ \A a : RowsHit(a) \in SUBSET Rows
  BY AmountsType DEF RowsHit
<1>4. CASE Load(q)
  BY <1>2, <1>4 DEF TypeOK, Load, Goto, data, Statuses
<1>5. CASE BeginPost(q)
  <2>1. CASE Rollback(q)
    BY <2>1, RollbackType
  <2>2. CASE ~Rollback(q)
    <3>1. PICK S \in SUBSET Rows : todo' = [todo EXCEPT ![q] = S]
      BY <1>3, <1>5, <2>2 DEF BeginPost
    <3>. QED
      BY <1>5, <2>2, <3>1 DEF TypeOK, BeginPost, Goto, data, InTransaction
  <2>. QED
    BY <2>1, <2>2
<1>6. CASE BeginUnpost(q)
  BY <1>2, <1>3, <1>6 DEF TypeOK, BeginUnpost, Goto, data, InTransaction
<1>7. CASE BeginClose(q)
  <2>1. ClosingAmounts(Period(q)) \in [Rows -> Int]
    BY ClosingAmountsType DEF TypeOK
  <2>. QED
    BY <1>7, <2>1 DEF TypeOK, BeginClose, Goto, data, InTransaction
<1>8. CASE InsertClosing(q)
  <2>1. CASE Rollback(q)
    BY <2>1, RollbackType
  <2>2. CASE ~Rollback(q)
    <3>1. PICK S \in SUBSET Rows : todo' = [todo EXCEPT ![q] = S]
      BY <1>3, <1>8, <2>2 DEF InsertClosing
    <3>. QED
      BY <1>8, <2>2, <3>1 DEF TypeOK, InsertClosing, Goto, data, InTransaction
  <2>. QED
    BY <2>1, <2>2
<1>9. ASSUME NEW r \in Rows, ReadRow(q, r) PROVE TypeOK'
  BY <1>9 DEF TypeOK, ReadRow, Goto, data, InTransaction
<1>10. CASE WriteRow(q)
  <2>1. row[q] \in Rows /\ value[q] \in Int /\ value[q] + Sign(q) * Amounts(q)[row[q]] \in Int
    BY <1>2, <1>3 DEF TypeOK
  <2>. QED
    BY <1>1, <1>10, <2>1 DEF TypeOK, WriteRow, Goto, data, InTransaction
<1>11. CASE SaveVoucher(q)
  BY <1>11, RollbackType DEF TypeOK, SaveVoucher, Goto, data, locals, InTransaction
<1>12. CASE ClearLines(q)
  <2>1. \A l \in OwnLines(q) : <<l[1], l[2], 0>> \in Vouchers \X Rows \X Int
    BY <1>2 DEF OwnLines, LinesOf
  <2>2. {<<l[1], l[2], 0>> : l \in OwnLines(q)} \in SUBSET (Vouchers \X Rows \X Int)
    BY <2>1
  <2>. QED
    BY <1>12, <2>2 DEF TypeOK, ClearLines, Goto, data, InTransaction
<1>13. CASE Recompute(q)
  <2> DEFINE own   == [amount EXCEPT ![Target(q)] = Amounts(q)]
             codes == {r[2] : r \in RowsHit(Amounts(q))}
             lines == {x \in LinesOf(PostedSeen(q), own) : x[2][2] \in codes}
             new   == {<<x[1], x[2], Cumulative(lines, own, x)>> : x \in lines}
  <2>1. own \in [Vouchers -> [Rows -> Int]] /\ PostedSeen(q) \in SUBSET Vouchers
    BY <1>2, <1>3 DEF TypeOK, PostedSeen
  <2>2. lines \in SUBSET LinesOf(PostedSeen(q), own)
    OBVIOUS
  <2> HIDE DEF own
  <2>3. \A x \in lines : x[1] \in Vouchers /\ x[2] \in Rows
    BY <2>1 DEF LinesOf
  <2>4. \A x : Cumulative(lines, own, x) \in Int
    <3> HIDE DEF lines
    <3>. QED
      BY <2>1, <2>2, CumulativeType
  <2> HIDE DEF lines
  <2>5. new \in SUBSET (Vouchers \X Rows \X Int)
    BY <2>3, <2>4
  <2>6. stale' = [stale EXCEPT ![q] = new] /\ pc' = [pc EXCEPT ![q] = "lines"]
        /\ UNCHANGED <<data, lock, seen, todo, row, value, written, kc, updated>>
    BY <1>13 DEF Recompute, Goto, own, lines
  <2> HIDE DEF new
  <2>. QED
    BY <2>5, <2>6 DEF TypeOK, data, InTransaction
<1>14. CASE UpdateLine(q)
  BY <1>14 DEF TypeOK, UpdateLine, data
<1>15. CASE EndRecompute(q)
  BY <1>15 DEF TypeOK, EndRecompute, Goto, data, locals, InTransaction
<1>16. CASE Commit(q)
  <2>1. running' \in [Vouchers -> [Rows -> Int]]
    <3>1. ASSUME NEW v \in Vouchers, NEW r \in Rows, LineLocked(q, v, r)
          PROVE  (CHOOSE u \in updated[q] : u[1] = v /\ u[2] = r)[3] \in Int
      <4>1. \E u \in updated[q] : u[1] = v /\ u[2] = r
        BY <3>1 DEF LineLocked
      <4>2. (CHOOSE u \in updated[q] : u[1] = v /\ u[2] = r) \in updated[q]
        BY <4>1
      <4>3. updated[q] \in SUBSET (Vouchers \X Rows \X Int)
        BY DEF TypeOK
      <4>. QED
        BY <4>2, <4>3
    <3>. QED
      BY <1>16, <3>1 DEF Commit, TypeOK
  <2>2. balance' \in [Rows -> Int] /\ lock' \in [Rows -> Requests \cup {NoOne}]
    BY <1>16 DEF Commit, Release, TypeOK
  <2>3. status' \in [Vouchers -> Statuses] /\ amount' \in [Vouchers -> [Rows -> Int]]
    BY <1>2, <1>3, <1>16 DEF Commit, TypeOK
  <2>. QED
    BY <1>1, <1>16, <2>1, <2>2, <2>3 DEF TypeOK, Commit, Forget, Goto, NoAmount, Statuses, InTransaction
<1>17. CASE DeleteVoucher(q)
  BY <1>1, <1>2, <1>17 DEF TypeOK, DeleteVoucher, Forget, Goto, NoAmount, Statuses
<1>18. CASE DeadlockVictim(q)
  BY <1>18, RollbackType DEF DeadlockVictim
<1>. QED
  BY <1>4, <1>5, <1>6, <1>7, <1>8, <1>9, <1>10, <1>11, <1>12, <1>13, <1>14, <1>15, <1>16, <1>17, <1>18 DEF Work

\* Every reachable state is well typed.
THEOREM TypeCorrect == Spec => []TypeOK
<1>1. TypeOK /\ [Next]_vars => TypeOK'
  <2>1. SUFFICES ASSUME TypeOK, [Next]_vars PROVE TypeOK'
    OBVIOUS
  <2>2. CASE UNCHANGED vars
    BY <2>1, <2>2 DEF TypeOK, vars, data, locals
  <2>3. CASE Next
    BY <2>1, <2>3, WorkType, RollbackType DEF Next, Crash
  <2>. QED
    BY <2>1, <2>2, <2>3
<1>. QED
  BY <1>1, TypeInit, PTL DEF Spec

(***************************************************************************)
(* The inductive invariant, for plans in which every request has a voucher *)
(* of its own.  (Two requests on one draft break it: see MCPostingTwice.)  *)
(***************************************************************************)
DistinctVouchers == \A q, x \in Requests : q # x => Target(q) # Target(x)

\* Between the INSERT or the first lock and the end of the transaction.
Working(q) == pc[q] \in InTransaction \ {"insert"}

\* What a request knows of its voucher stays true while it works on it.
StatusKnown(q) ==
    /\ (Op(q) = "close" /\ pc[q] # "ended") => status[Target(q)] = "unused"
    /\ pc[q] = "insert" => Op(q) = "close"
    /\ pc[q] = "loaded" => /\ Op(q) \in {"post", "remove"}
                           /\ Exists(Target(q)) /\ seen[q] = status[Target(q)]
    /\ (Working(q) /\ Op(q) = "post")   => status[Target(q)] = "draft"
    /\ (Working(q) /\ Op(q) = "remove") => status[Target(q)] = "posted"
    /\ pc[q] = "delete" => Op(q) = "remove" /\ status[Target(q)] = "draft"

\* Every row with an amount is still to do, or is locked and written.
RowsCovered(q) ==
    Working(q) => \A r \in Rows : r \in todo[q] \/ lock[r] = q \/ Amounts(q)[r] = 0
RowsDone(q)    == Saved(q) => todo[q] = {}
ReadIsLocked(q) ==
    pc[q] = "write" =>
        row[q] \in todo[q] /\ lock[row[q]] = q /\ value[q] = balance[row[q]]

\* PendingIsCurrent for one request.
Pending(q) ==
    \A r \in Rows : lock[r] = q =>
        /\ Working(q)
        /\ IF r \in todo[q]
           THEN pc[q] = "write" /\ row[q] = r /\ value[q] = balance[r]
           ELSE written[q][r] = balance[r] + Sign(q) * Amounts(q)[r]

RequestInv(q) ==
    StatusKnown(q) /\ RowsCovered(q) /\ RowsDone(q) /\ ReadIsLocked(q) /\ Pending(q)

PostingInv == TypeOK /\ (\A q \in Requests : RequestInv(q)) /\ CommittedIsProjection

\* What a step of q leaves alone of another request x.
LEMMA Frame ==
    ASSUME DistinctVouchers, TypeOK, NEW q \in Requests, NEW x \in Requests, x # q,
           Work(q) \/ Rollback(q)
    PROVE  /\ pc'[x] = pc[x] /\ seen'[x] = seen[x] /\ todo'[x] = todo[x] /\ row'[x] = row[x]
           /\ value'[x] = value[x] /\ written'[x] = written[x] /\ kc'[x] = kc[x]
           /\ status'[Target(x)] = status[Target(x)] /\ amount'[Target(x)] = amount[Target(x)]
           /\ \A r \in Rows : lock'[r] = x <=> lock[r] = x
           /\ \A r \in Rows : lock[r] = x => balance'[r] = balance[r]
<1>1. Target(x) # Target(q) /\ Target(x) \in Vouchers /\ Target(q) \in Vouchers /\ x # NoOne
  BY JobType, SetAssumption DEF DistinctVouchers
<1>2. CASE Rollback(q)
  BY <1>1, <1>2 DEF Rollback, Release, Forget, Goto, data, TypeOK
<1>3. CASE Load(q)
  BY <1>3 DEF Load, Goto, data, TypeOK
<1>4. CASE BeginPost(q) /\ ~Rollback(q)
  BY <1>4 DEF BeginPost, Goto, data, TypeOK
<1>5. CASE BeginUnpost(q)
  BY <1>5 DEF BeginUnpost, Goto, data, TypeOK
<1>6. CASE BeginClose(q)
  BY <1>6 DEF BeginClose, Goto, data, TypeOK
<1>7. CASE InsertClosing(q) /\ ~Rollback(q)
  BY <1>7 DEF InsertClosing, Goto, data, TypeOK
<1>8. ASSUME NEW r \in Rows, ReadRow(q, r) PROVE lock[r] # x /\ lock' = [lock EXCEPT ![r] = q]
  BY <1>1, <1>8 DEF ReadRow
<1>9. CASE \E r \in Rows : ReadRow(q, r)
  <2>1. PICK r \in Rows : ReadRow(q, r)
    BY <1>9
  <2>. QED
    BY <1>8, <2>1 DEF ReadRow, Goto, data, TypeOK
<1>10. CASE WriteRow(q)
  <2>1. lock[row[q]] # x /\ lock' = [lock EXCEPT ![row[q]] = q]
    BY <1>1, <1>10 DEF WriteRow
  <2>. QED
    BY <1>10, <2>1 DEF WriteRow, Goto, data, TypeOK
<1>11. CASE SaveVoucher(q) /\ ~Rollback(q)
  BY <1>11 DEF SaveVoucher, Goto, data, locals, TypeOK
<1>12. CASE ClearLines(q)
  BY <1>12 DEF ClearLines, Goto, data, TypeOK
<1>13. CASE Recompute(q)
  BY <1>13 DEF Recompute, Goto, data, TypeOK
<1>14. CASE UpdateLine(q)
  BY <1>14 DEF UpdateLine, data
<1>15. CASE EndRecompute(q)
  BY <1>15 DEF EndRecompute, Goto, data, locals, TypeOK
<1>16. CASE Commit(q)
  BY <1>1, <1>16 DEF Commit, Release, Forget, Goto, TypeOK
<1>17. CASE DeleteVoucher(q)
  BY <1>1, <1>17 DEF DeleteVoucher, Forget, Goto, TypeOK
<1>. QED
  BY <1>2, <1>3, <1>4, <1>5, <1>6, <1>7, <1>9, <1>10, <1>11, <1>12, <1>13, <1>14, <1>15, <1>16, <1>17
     DEF Work, DeadlockVictim

\* The other requests keep their part of the invariant.
LEMMA OthersKeep ==
    ASSUME DistinctVouchers, TypeOK, NEW q \in Requests, NEW x \in Requests, x # q,
           Work(q) \/ Rollback(q), RequestInv(x)
    PROVE  RequestInv(x)'
<1>1. Amounts(x)' = Amounts(x)
  BY Frame DEF Amounts
<1>2. Working(x)' = Working(x) /\ Saved(x)' = Saved(x) /\ Exists(Target(x))' = Exists(Target(x))
  BY Frame DEF Working, Saved, Exists
<1>3. StatusKnown(x)'
  BY <1>2, Frame DEF RequestInv, StatusKnown
<1>4. RowsCovered(x)' /\ RowsDone(x)'
  BY <1>1, <1>2, Frame DEF RequestInv, RowsCovered, RowsDone
<1>5. ReadIsLocked(x)'
  <2>1. row[x] \in Rows
    BY DEF TypeOK
  <2>. QED
    BY <2>1, Frame DEF RequestInv, ReadIsLocked
<1>6. Pending(x)'
  BY <1>1, <1>2, Frame DEF RequestInv, Pending
<1>. QED
  BY <1>3, <1>4, <1>5, <1>6 DEF RequestInv

\* A request that holds no lock and is not in a transaction owes nothing.
LEMMA RollbackKeeps ==
    ASSUME TypeOK, NEW q \in Requests, Rollback(q)
    PROVE  RequestInv(q)'
<1>1. pc'[q] = "ended" /\ \A r \in Rows : lock'[r] # q
  BY SetAssumption DEF Rollback, Release, Goto, TypeOK
<1>. QED
  BY <1>1 DEF RequestInv, StatusKnown, RowsCovered, RowsDone, ReadIsLocked, Pending, Working, Saved, InTransaction

\* A statement keeps the part of the request that executes it.
LEMMA WorkKeeps ==
    ASSUME TypeOK, NEW q \in Requests, Work(q), RequestInv(q)
    PROVE  RequestInv(q)'
<1> USE DEF RequestInv, StatusKnown, RowsCovered, RowsDone, ReadIsLocked, Pending, Working, Saved, InTransaction
<1>1. Target(q) \in Vouchers /\ Op(q) \in {"post", "remove", "close"} /\ q # NoOne
  BY JobType, SetAssumption
<1>2. CASE Rollback(q)
  BY <1>2, RollbackKeeps
<1>3. CASE Load(q)
  BY <1>1, <1>3 DEF Load, Goto, data, TypeOK, Exists, Amounts
<1>4. CASE BeginPost(q) /\ ~Rollback(q)
  BY <1>1, <1>4 DEF BeginPost, Goto, data, TypeOK, Exists, Amounts, RowsHit
<1>5. CASE BeginUnpost(q)
  BY <1>1, <1>5 DEF BeginUnpost, Goto, data, TypeOK, Exists, Amounts, RowsHit
<1>6. CASE BeginClose(q)
  BY <1>1, <1>6 DEF BeginClose, Goto, data, TypeOK, Exists, Amounts
<1>7. CASE InsertClosing(q) /\ ~Rollback(q)
  BY <1>1, <1>7 DEF InsertClosing, Goto, data, TypeOK, Exists, Amounts, RowsHit
<1>8. CASE \E r \in Rows : ReadRow(q, r)
  BY <1>1, <1>8 DEF ReadRow, Goto, data, TypeOK, Exists, Amounts
<1>9. CASE WriteRow(q)
  BY <1>1, <1>9 DEF WriteRow, Goto, data, TypeOK, Exists, Amounts
<1>10. CASE SaveVoucher(q) /\ ~Rollback(q)
  BY <1>1, <1>10 DEF SaveVoucher, Goto, data, locals, TypeOK, Exists, Amounts
<1>11. CASE ClearLines(q)
  BY <1>1, <1>11 DEF ClearLines, Goto, data, TypeOK, Exists, Amounts
<1>12. CASE Recompute(q)
  BY <1>1, <1>12 DEF Recompute, Goto, data, TypeOK, Exists, Amounts
<1>13. CASE UpdateLine(q)
  BY <1>1, <1>13 DEF UpdateLine, data, TypeOK, Exists, Amounts
<1>14. CASE EndRecompute(q)
  BY <1>1, <1>14 DEF EndRecompute, Goto, data, locals, TypeOK, Exists, Amounts
<1>15. CASE Commit(q)
  BY <1>1, <1>15 DEF Commit, Release, Forget, Goto, TypeOK, Outcome
<1>16. CASE DeleteVoucher(q)
  BY <1>1, <1>16 DEF DeleteVoucher, Forget, Goto, TypeOK
<1>. QED
  BY <1>2, <1>3, <1>4, <1>5, <1>6, <1>7, <1>8, <1>9, <1>10, <1>11, <1>12, <1>13, <1>14, <1>15, <1>16
     DEF Work, DeadlockVictim

(***************************************************************************)
(* The committed data.                                                     *)
(***************************************************************************)

\* What a commit does to the committed data: the amounts of the voucher reach
\* every balance row, whether or not its transaction locked the row.
LEMMA CommitMoves ==
    ASSUME TypeOK, NEW q \in Requests, RequestInv(q), Commit(q)
    PROVE  /\ status[Target(q)] = (IF Op(q) = "close" THEN "unused"
                                   ELSE IF Op(q) = "post" THEN "draft" ELSE "posted")
           /\ status' = [status EXCEPT ![Target(q)] = IF Op(q) = "remove" THEN "draft" ELSE "posted"]
           /\ amount' = [amount EXCEPT ![Target(q)] = Amounts(q)]
           /\ Op(q) # "close" => amount' = amount
           /\ balance' = [r \in Rows |-> balance[r] + Sign(q) * Amounts(q)[r]]
<1>1. /\ Target(q) \in Vouchers /\ Op(q) \in {"post", "remove", "close"}
      /\ Sign(q) \in {-1, 1} /\ Amounts(q) \in [Rows -> Int]
  BY JobType, AmountsType
<1>2. Working(q) /\ Saved(q) /\ todo[q] = {} /\ pc[q] # "ended"
  BY DEF Commit, Working, Saved, InTransaction, RequestInv, RowsDone
<1>3. ASSUME NEW r \in Rows
      PROVE  (IF lock[r] = q THEN written[q][r] ELSE balance[r]) = balance[r] + Sign(q) * Amounts(q)[r]
  <2>1. CASE lock[r] = q
    BY <1>2, <2>1 DEF RequestInv, Pending
  <2>2. CASE lock[r] # q
    <3>1. Amounts(q)[r] = 0
      BY <1>2, <2>2 DEF RequestInv, RowsCovered
    <3>. QED
      BY <1>1, <2>2, <3>1 DEF TypeOK
  <2>. QED
    BY <2>1, <2>2
<1>4. balance' = [r \in Rows |-> balance[r] + Sign(q) * Amounts(q)[r]]
  BY <1>3 DEF Commit
<1>5. status[Target(q)] = (IF Op(q) = "close" THEN "unused"
                           ELSE IF Op(q) = "post" THEN "draft" ELSE "posted")
  BY <1>1, <1>2 DEF RequestInv, StatusKnown
<1>6. /\ status' = [status EXCEPT ![Target(q)] = IF Op(q) = "remove" THEN "draft" ELSE "posted"]
      /\ amount' = [amount EXCEPT ![Target(q)] = Amounts(q)]
  BY DEF Commit, Outcome
<1>7. Op(q) # "close" => amount' = amount
  BY <1>1, <1>6 DEF Amounts, TypeOK
<1>. QED
  BY <1>4, <1>5, <1>6, <1>7

\* Only a commit and a delete touch the committed data.
LEMMA DataSteps ==
    ASSUME NEW q \in Requests, Work(q) \/ Rollback(q), ~Commit(q), ~DeleteVoucher(q)
    PROVE  UNCHANGED data
<1>1. CASE Rollback(q)
  BY <1>1 DEF Rollback
<1>2. CASE ~Rollback(q)
  BY <1>2 DEF Work, Load, BeginPost, BeginUnpost, BeginClose, InsertClosing, ReadRow, WriteRow,
              SaveVoucher, ClearLines, Recompute, UpdateLine, EndRecompute, DeadlockVictim
<1>. QED
  BY <1>1, <1>2

\* The amounts of the vouchers S on row r.
RowTotal(S, a, r) == Sum([w \in S |-> a[w][r]], S)

\* The totals of two sets of vouchers that differ by one voucher, whose amounts
\* alone may have changed.
LEMMA PostedGains ==
    ASSUME NEW S \in SUBSET Vouchers, NEW v \in Vouchers, v \notin S, NEW r \in Rows,
           NEW a \in [Vouchers -> [Rows -> Int]], NEW b \in [Vouchers -> [Rows -> Int]],
           \A w \in S : b[w] = a[w]
    PROVE  RowTotal(S \cup {v}, b, r) = RowTotal(S, a, r) + b[v][r]
<1> DEFINE f == [w \in S |-> a[w][r]]
           g == [w \in S \cup {v} |-> b[w][r]]
<1>1. IsFiniteSet(S)
  BY SetAssumption, FS_Subset
<1>2. (\A w \in S \cup {v} : g[w] \in Int) /\ (\A w \in S : g[w] = f[w]) /\ g[v] = b[v][r]
  OBVIOUS
<1>3. SumFunctionOnSet(f, S) \in Int
  BY <1>1, SumInt
<1>4. b[v][r] \in Int
  OBVIOUS
<1> HIDE DEF f, g
<1>5. SumFunctionOnSet(g, S \cup {v}) = g[v] + SumFunctionOnSet(g, S)
  BY <1>1, <1>2, SumAdd
<1>6. SumFunctionOnSet(g, S) = SumFunctionOnSet(f, S)
  BY <1>1, <1>2, SumCongruence
<1>7. SumFunctionOnSet(g, S \cup {v}) = SumFunctionOnSet(f, S) + b[v][r]
  BY <1>2, <1>3, <1>4, <1>5, <1>6
<1>. QED
  BY <1>7 DEF RowTotal, Sum, f, g

\* Balances stay the sums of the posted vouchers.
LEMMA CommitKeepsProjection ==
    ASSUME TypeOK, TypeOK', NEW q \in Requests, RequestInv(q), CommittedIsProjection, Commit(q)
    PROVE  CommittedIsProjection'
<1> DEFINE S  == {v \in Vouchers : status[v] = "posted"}
           S1 == {v \in Vouchers : status'[v] = "posted"}
           t  == Target(q)
<1>1. t \in Vouchers /\ Op(q) \in {"post", "remove", "close"} /\ Amounts(q) \in [Rows -> Int]
  BY JobType, AmountsType
<1>2. /\ amount \in [Vouchers -> [Rows -> Int]] /\ amount' \in [Vouchers -> [Rows -> Int]]
      /\ status \in [Vouchers -> Statuses] /\ status' \in [Vouchers -> Statuses]
      /\ balance \in [Rows -> Int]
  BY DEF TypeOK
<1>3. amount'[t] = Amounts(q) /\ \A w \in Vouchers \ {t} : amount'[w] = amount[w]
  BY <1>1, <1>2, CommitMoves
<1>4. \A r \in Rows : /\ Projection(r) = RowTotal(S, amount, r)
                      /\ Projection(r)' = RowTotal(S1, amount', r)
  BY DEF Projection, RowTotal
<1>5. ASSUME NEW r \in Rows PROVE balance'[r] = Projection(r)'
  <2>1. balance[r] = RowTotal(S, amount, r) /\ balance[r] \in Int
    BY <1>2, <1>4 DEF CommittedIsProjection
  <2>2. Amounts(q)[r] \in Int
    BY <1>1
  <2>3. CASE Op(q) # "remove"
    <3>1. t \notin S /\ S1 = S \cup {t}
      BY <1>1, <1>2, <2>3, CommitMoves
    <3>2. \A w \in S : amount'[w] = amount[w]
      BY <1>3, <3>1
    <3>3. S \in SUBSET Vouchers
      OBVIOUS
    <3> HIDE DEF S, S1, t
    <3>4. RowTotal(S \cup {t}, amount', r) = RowTotal(S, amount, r) + amount'[t][r]
      BY <1>1, <1>2, <3>1, <3>2, <3>3, PostedGains
    <3>5. balance'[r] = balance[r] + Amounts(q)[r]
      BY <2>1, <2>2, <2>3, CommitMoves DEF Sign
    <3>. QED
      BY <1>3, <1>4, <2>1, <3>1, <3>4, <3>5
  <2>4. CASE Op(q) = "remove"
    <3>1. t \notin S1 /\ S = S1 \cup {t}
      BY <1>1, <1>2, <2>4, CommitMoves
    <3>2. amount' = amount
      BY <2>4, CommitMoves
    <3>3. S1 \in SUBSET Vouchers
      OBVIOUS
    <3>4. RowTotal(S1, amount', r) \in Int
      BY <1>2, ProjectionType DEF RowTotal
    <3> HIDE DEF S, S1, t
    <3>5. RowTotal(S1 \cup {t}, amount, r) = RowTotal(S1, amount', r) + amount[t][r]
      BY <1>1, <1>2, <3>1, <3>2, <3>3, PostedGains
    <3>6. balance'[r] = balance[r] - Amounts(q)[r]
      BY <2>1, <2>2, <2>4, CommitMoves DEF Sign
    <3>7. Amounts(q)[r] = amount[t][r]
      BY <1>3, <3>2
    <3>8. balance[r] = Projection(r)' + amount[t][r] /\ Projection(r)' \in Int
      BY <1>4, <2>1, <3>1, <3>4, <3>5
    <3>. QED
      BY <2>1, <2>2, <3>6, <3>7, <3>8
  <2>. QED
    BY <2>3, <2>4
<1>. QED
  BY <1>5 DEF CommittedIsProjection

\* Deleting a draft leaves the balances right.
LEMMA DeleteKeepsProjection ==
    ASSUME TypeOK, NEW q \in Requests, RequestInv(q), CommittedIsProjection, DeleteVoucher(q)
    PROVE  CommittedIsProjection'
<1>1. status[Target(q)] = "draft" /\ Target(q) \in Vouchers
  BY JobType DEF DeleteVoucher, RequestInv, StatusKnown
<1>2. status' = [status EXCEPT ![Target(q)] = "deleted"] /\ UNCHANGED <<amount, balance>>
  BY DEF DeleteVoucher
<1>3. {v \in Vouchers : status'[v] = "posted"} = {v \in Vouchers : status[v] = "posted"}
  BY <1>1, <1>2 DEF TypeOK
<1>. QED
  BY <1>2, <1>3 DEF CommittedIsProjection, Projection

(***************************************************************************)
(* The invariant and what follows from it.                                 *)
(***************************************************************************)

\* The invariant holds before the first statement.
LEMMA InvInit == Init => PostingInv
<1>1. SUFFICES ASSUME Init PROVE PostingInv
  OBVIOUS
<1>2. TypeOK
  BY <1>1, TypeInit
<1>3. ASSUME NEW q \in Requests PROVE RequestInv(q)
  <2>1. pc[q] = "start" /\ \A r \in Rows : lock[r] # q
    BY <1>1, SetAssumption DEF Init
  <2>2. Op(q) = "close" => status[Target(q)] = "unused"
    BY <1>1, JobType DEF Init
  <2>. QED
    BY <2>1, <2>2
       DEF RequestInv, StatusKnown, RowsCovered, RowsDone, ReadIsLocked, Pending, Working, Saved, InTransaction
<1>4. CommittedIsProjection
  BY <1>1 DEF Init, CommittedIsProjection, Projection
<1>. QED
  BY <1>2, <1>3, <1>4 DEF PostingInv

\* Every statement, rollback and stutter keeps the invariant.
LEMMA InvStep == DistinctVouchers /\ PostingInv /\ [Next]_vars => PostingInv'
<1>1. SUFFICES ASSUME DistinctVouchers, PostingInv, [Next]_vars PROVE PostingInv'
  OBVIOUS
<1>2. CASE UNCHANGED vars
  <2> USE <1>1, <1>2 DEF PostingInv, vars, data, locals
  <2>1. TypeOK'
    BY DEF TypeOK
  <2>2. CommittedIsProjection'
    BY DEF CommittedIsProjection, Projection
  <2>3. ASSUME NEW q \in Requests PROVE RequestInv(q)'
    <3>1. /\ Amounts(q)' = Amounts(q) /\ Working(q)' = Working(q) /\ Saved(q)' = Saved(q)
          /\ Exists(Target(q))' = Exists(Target(q))
      BY DEF Amounts, Working, Saved, Exists
    <3>2. StatusKnown(q)' /\ RowsCovered(q)' /\ RowsDone(q)'
      BY <3>1 DEF RequestInv, StatusKnown, RowsCovered, RowsDone
    <3>3. ReadIsLocked(q)' /\ Pending(q)'
      BY <3>1 DEF RequestInv, ReadIsLocked, Pending
    <3>. QED
      BY <3>2, <3>3 DEF RequestInv
  <2>. QED
    BY <2>1, <2>2, <2>3
<1>3. ASSUME NEW q \in Requests, Work(q) \/ Rollback(q) PROVE PostingInv'
  <2>1. TypeOK /\ TypeOK' /\ RequestInv(q) /\ CommittedIsProjection
    BY <1>1, <1>3, WorkType, RollbackType DEF PostingInv
  <2>2. \A x \in Requests : RequestInv(x)'
    BY <1>1, <1>3, <2>1, OthersKeep, WorkKeeps, RollbackKeeps DEF PostingInv
  <2>3. CommittedIsProjection'
    <3>1. CASE Commit(q)
      BY <2>1, <3>1, CommitKeepsProjection
    <3>2. CASE DeleteVoucher(q)
      BY <2>1, <3>2, DeleteKeepsProjection
    <3>3. CASE ~Commit(q) /\ ~DeleteVoucher(q)
      BY <1>3, <2>1, <3>3, DataSteps DEF CommittedIsProjection, Projection, data
    <3>. QED
      BY <3>1, <3>2, <3>3
  <2>. QED
    BY <2>1, <2>2, <2>3 DEF PostingInv
<1>. QED
  BY <1>1, <1>2, <1>3 DEF Next, Crash

\* The invariant holds in every reachable state.
LEMMA InvAlways == ASSUME DistinctVouchers PROVE Spec => []PostingInv
  BY InvInit, InvStep, PTL DEF Spec

(***************************************************************************)
(* Closings: a request that has inserted a closing voucher keeps its month *)
(* free of others until it commits.                                        *)
(***************************************************************************)
ClosingInv ==
    /\ AtMostOneClosing
    /\ \A q \in Requests : Inserted(q) => ClosingOf(Period(q)) = {}
    /\ \A q, x \in Requests : (Inserted(q) /\ Inserted(x) /\ Period(q) = Period(x)) => q = x

\* A voucher comes into being only when a closing commits.
LEMMA NewVouchers ==
    ASSUME TypeOK, NEW q \in Requests, RequestInv(q), Work(q) \/ Rollback(q),
           NEW v \in Vouchers, Exists(v)'
    PROVE  Exists(v) \/ (Commit(q) /\ Op(q) = "close" /\ v = Target(q))
<1>1. CASE Commit(q)
  BY <1>1, CommitMoves, JobType DEF Exists, TypeOK
<1>2. CASE DeleteVoucher(q)
  BY <1>2, JobType DEF DeleteVoucher, Exists, TypeOK
<1>3. CASE ~Commit(q) /\ ~DeleteVoucher(q)
  BY <1>3, DataSteps DEF data, Exists
<1>. QED
  BY <1>1, <1>2, <1>3

\* A closing voucher is inserted only by InsertClosing.
LEMMA NewInserted ==
    ASSUME TypeOK, NEW q \in Requests, Work(q) \/ Rollback(q), RequestInv(q), Inserted(q)'
    PROVE  \/ Inserted(q) /\ ~Commit(q)
           \/ InsertClosing(q) /\ ~DuplicateNumber(q) /\ UNCHANGED data
<1> USE DEF Inserted, InTransaction
<1>1. pc' \in [Requests -> {"start", "loaded", "delete", "ended"} \cup InTransaction] /\ Op(q) = "close"
  BY WorkType, RollbackType DEF TypeOK
<1>2. ~Commit(q)
  BY <1>1 DEF Commit, Goto, TypeOK
<1>3. ~Rollback(q)
  BY DEF Rollback, Goto, TypeOK
<1>4. CASE InsertClosing(q)
  BY <1>3, <1>4 DEF InsertClosing, data
<1>5. CASE ~InsertClosing(q)
  <2>1. pc[q] \in InTransaction \ {"insert"}
    BY <1>1, <1>2, <1>3, <1>5
       DEF Work, DeadlockVictim, Load, BeginPost, BeginUnpost, BeginClose, ReadRow, WriteRow, SaveVoucher,
           ClearLines, Recompute, UpdateLine, EndRecompute, DeleteVoucher, Goto, TypeOK,
           RequestInv, StatusKnown
  <2>. QED
    BY <1>1, <1>2, <2>1
<1>. QED
  BY <1>4, <1>5

\* Every statement and rollback keeps the closings apart.
LEMMA ClosingStep ==
    ASSUME DistinctVouchers, PostingInv, ClosingInv, NEW q \in Requests, Work(q) \/ Rollback(q)
    PROVE  ClosingInv'
<1>1. TypeOK /\ RequestInv(q)
  BY DEF PostingInv
<1>2. \A v \in Vouchers : Exists(v)' => Exists(v) \/ (Commit(q) /\ Op(q) = "close" /\ v = Target(q))
  BY <1>1, NewVouchers
<1>3. \A v \in Closing : v \in Vouchers
  BY SetAssumption
<1>4. (Commit(q) /\ Op(q) = "close") => Inserted(q)
  BY DEF Commit, Inserted, InTransaction
<1>5. \A x \in Requests \ {q} : Inserted(x)' = Inserted(x)
  BY <1>1, Frame DEF Inserted
<1>6. Inserted(q)' => \/ Inserted(q) /\ ~Commit(q)
                      \/ InsertClosing(q) /\ ~DuplicateNumber(q) /\ UNCHANGED data
  BY <1>1, NewInserted
<1>7. AtMostOneClosing'
  <2>1. SUFFICES ASSUME NEW v \in Closing, NEW w \in Closing,
                        Exists(v)', Exists(w)', PeriodOf[v] = PeriodOf[w], v # w
                 PROVE  FALSE
    BY DEF AtMostOneClosing
  <2>2. ~(Exists(v) /\ Exists(w))
    BY <2>1 DEF ClosingInv, AtMostOneClosing
  <2>3. Commit(q) /\ Op(q) = "close" /\ (v = Target(q) \/ w = Target(q)) /\ (Exists(v) \/ Exists(w))
    BY <1>2, <1>3, <2>1, <2>2
  <2>4. ClosingOf(Period(q)) # {}
    BY <2>1, <2>3 DEF ClosingOf, Period
  <2>. QED
    BY <1>4, <2>3, <2>4 DEF ClosingInv
<1>8. ASSUME NEW x \in Requests, Inserted(x)' PROVE ClosingOf(Period(x))' = {}
  <2>1. \/ Inserted(x) /\ ~(x = q /\ Commit(q))
        \/ x = q /\ InsertClosing(q) /\ ~DuplicateNumber(q) /\ UNCHANGED data
    BY <1>5, <1>6, <1>8
  <2>2. ClosingOf(Period(x)) = {}
    BY <2>1 DEF ClosingInv, DuplicateNumber
  <2>3. SUFFICES ASSUME NEW v \in Closing, PeriodOf[v] = Period(x), Exists(v)' PROVE FALSE
    BY DEF ClosingOf, Period
  <2>4. ~Exists(v)
    BY <2>2, <2>3 DEF ClosingOf
  <2>5. Commit(q) /\ Op(q) = "close" /\ v = Target(q)
    BY <1>2, <1>3, <2>3, <2>4
  <2>6. Inserted(q) /\ Inserted(x) /\ Period(q) = Period(x) /\ x # q
    BY <1>4, <2>1, <2>3, <2>5 DEF Period, Commit, InsertClosing
  <2>. QED
    BY <2>6 DEF ClosingInv
<1>9. ASSUME NEW x \in Requests, NEW y \in Requests, Inserted(x)', Inserted(y)', Period(x) = Period(y)
      PROVE  x = y
  <2>1. CASE InsertClosing(q)
    BY <1>5, <1>9, <2>1 DEF InsertClosing, ClosingInv
  <2>2. CASE ~InsertClosing(q)
    BY <1>5, <1>6, <1>9, <2>2 DEF ClosingInv
  <2>. QED
    BY <2>1, <2>2
<1>10. \A x \in Requests : Period(x)' = Period(x)
  BY DEF Period, Target
<1>. QED
  BY <1>7, <1>8, <1>9, <1>10 DEF ClosingInv

\* Closings are kept apart in every reachable state.
LEMMA ClosingAlways == ASSUME DistinctVouchers PROVE Spec => []ClosingInv
<1>1. Init => ClosingInv
  <2>1. SUFFICES ASSUME Init PROVE ClosingInv
    OBVIOUS
  <2>2. AtMostOneClosing
    BY <2>1, DataAssumption DEF Init, AtMostOneClosing, Exists
  <2>3. \A q \in Requests : ~Inserted(q)
    BY <2>1 DEF Init, Inserted, InTransaction
  <2>. QED
    BY <2>2, <2>3 DEF ClosingInv
<1>2. DistinctVouchers /\ PostingInv /\ ClosingInv /\ [Next]_vars => ClosingInv'
  <2>1. SUFFICES ASSUME DistinctVouchers, PostingInv, ClosingInv, [Next]_vars PROVE ClosingInv'
    OBVIOUS
  <2>2. CASE UNCHANGED vars
    BY <2>1, <2>2 DEF vars, data, ClosingInv, AtMostOneClosing, ClosingOf, Exists, Inserted
  <2>3. CASE Next
    BY <2>1, <2>3, ClosingStep DEF Next, Crash
  <2>. QED
    BY <2>1, <2>2, <2>3
<1>. QED
  BY <1>1, <1>2, InvAlways, PTL DEF Spec

(***************************************************************************)
(* The theorems.                                                           *)
(***************************************************************************)

\* Committed balances are those of the committed posted vouchers, however the
\* statements of the requests interleave, whichever loses a deadlock or dies.
THEOREM CommittedBalancesAreProjections ==
    ASSUME DistinctVouchers PROVE Spec => []CommittedIsProjection
<1>1. PostingInv => CommittedIsProjection
  BY DEF PostingInv
<1>. QED
  BY <1>1, InvAlways, PTL

\* A balance row is never written from a stale read.
THEOREM ReadsStayCurrent ==
    ASSUME DistinctVouchers PROVE Spec => []PendingIsCurrent
<1>1. PostingInv => PendingIsCurrent
  BY DEF PostingInv, RequestInv, Pending, PendingIsCurrent, Working
<1>. QED
  BY <1>1, InvAlways, PTL

\* Racing closings of one month leave one closing voucher.
THEOREM OneClosingPerMonth ==
    ASSUME DistinctVouchers PROVE Spec => []AtMostOneClosing
<1>1. ClosingInv => AtMostOneClosing
  BY DEF ClosingInv
<1>. QED
  BY <1>1, ClosingAlways, PTL

\* A commit or a delete is a step of the contract; other statements stutter.
LEMMA StepsKeepContract ==
    ASSUME PostingInv, PostingInv', ClosingInv, NEW q \in Requests, Work(q) \/ Rollback(q)
    PROVE  Committed!CNext \/ UNCHANGED <<status, amount, balance>>
<1>1. /\ TypeOK /\ TypeOK' /\ RequestInv(q)
      /\ Target(q) \in Vouchers /\ Op(q) \in {"post", "remove", "close"}
      /\ Op(q) = "close" => Target(q) \in Closing
  BY JobType DEF PostingInv
<1>2. CASE Commit(q)
  <2>1. amount'[Target(q)] = Amounts(q) /\ amount' \in [Vouchers -> [Rows -> Int]]
        /\ \A w \in Vouchers \ {Target(q)} : amount'[w] = amount[w]
    BY <1>1, <1>2, CommitMoves DEF TypeOK
  <2>2. balance' = [r \in Rows |-> balance[r] + Sign(q) * amount'[Target(q)][r]]
    BY <1>1, <1>2, <2>1, CommitMoves
  <2>3. CASE Op(q) = "post"
    <3>1. Committed!Post(Target(q))
      BY <1>1, <1>2, <2>2, <2>3, CommitMoves DEF Committed!Post, Committed!Moved, Sign
    <3>. QED
      BY <1>1, <3>1 DEF Committed!CNext
  <2>4. CASE Op(q) = "remove"
    <3>1. Committed!Unpost(Target(q))
      BY <1>1, <1>2, <2>2, <2>4, CommitMoves DEF Committed!Unpost, Committed!Moved, Sign
    <3>. QED
      BY <1>1, <3>1 DEF Committed!CNext
  <2>5. CASE Op(q) = "close"
    <3>1. ClosingOf(Period(q)) = {}
      BY <1>2, <2>5 DEF Commit, Inserted, InTransaction, ClosingInv
    <3>2. Committed!NoClosingBut(Target(q))
      BY <3>1 DEF Committed!NoClosingBut, ClosingOf, Exists, Period
    <3>3. Committed!Close(Target(q))
      BY <1>1, <1>2, <2>1, <2>2, <2>5, <3>2, CommitMoves DEF Committed!Close, Committed!Moved, Sign
    <3>. QED
      BY <1>1, <3>3 DEF Committed!CNext
  <2>. QED
    BY <1>1, <2>3, <2>4, <2>5
<1>3. CASE DeleteVoucher(q)
  <2>1. Committed!Delete(Target(q))
    BY <1>1, <1>3 DEF Committed!Delete, DeleteVoucher, RequestInv, StatusKnown
  <2>. QED
    BY <1>1, <2>1 DEF Committed!CNext
<1>4. CASE ~Commit(q) /\ ~DeleteVoucher(q)
  BY <1>4, DataSteps DEF data
<1>. QED
  BY <1>2, <1>3, <1>4

\* The statements implement PostingContract: the committed data moves by whole
\* postings, unpostings, closings and deletions, and in no other way.
THEOREM ContractIsKept == ASSUME DistinctVouchers PROVE Spec => KeepsContract
<1>1. Init => Committed!CInit
  BY DataAssumption DEF Init, Committed!CInit, Statuses
<1>2. PostingInv /\ PostingInv' /\ ClosingInv /\ [Next]_vars => [Committed!CNext]_(Committed!cvars)
  <2>1. SUFFICES ASSUME PostingInv, PostingInv', ClosingInv, [Next]_vars
                 PROVE  Committed!CNext \/ UNCHANGED <<status, amount, balance>>
    BY DEF Committed!cvars
  <2>2. CASE UNCHANGED vars
    BY <2>2 DEF vars, data
  <2>3. CASE Next
    BY <2>1, <2>3, StepsKeepContract DEF Next, Crash
  <2>. QED
    BY <2>1, <2>2, <2>3
<1>. QED
  BY <1>1, <1>2, InvAlways, ClosingAlways, PTL DEF Spec, KeepsContract, Committed!Contract

(***************************************************************************)
(* Running balances, when the requests work in one month.  They are then   *)
(* kept apart by the balance rows: two vouchers with an account in common  *)
(* have the row of that account in common.                                 *)
(***************************************************************************)
\* A row is one account of one month; a document is kept on rows of its month.
RowsAreMonthly ==
    /\ \A r, s \in Rows : r[1] = s[1] /\ r[2] = s[2] => r = s
    /\ \A v \in Vouchers, r \in Rows : InitialAmount[v][r] # 0 => r[1] = PeriodOf[v]
    /\ \A v \in Vouchers : Profit[PeriodOf[v]][1] = PeriodOf[v]

\* (Requests of two months on one account break it: see MCRunningBalances.)
OneMonth == \A q, x \in Requests : Period(q) = Period(x)

\* No amount is on a row of another month.
MonthInv ==
    /\ \A v \in Vouchers, r \in Rows : amount[v][r] # 0 => r[1] = PeriodOf[v]
    /\ \A q \in Requests, r \in Rows : kc[q][r] # 0 => r[1] = Period(q)

\* The amounts when q has committed, the accounts they are on, and the lines
\* that it recomputes.
OwnAmounts(q) == [amount EXCEPT ![Target(q)] = Amounts(q)]
CodesOf(q)    == {r[2] : r \in RowsHit(Amounts(q))}
Lines(q)      == {x \in LinesOf(PostedSeen(q), OwnAmounts(q)) : x[2][2] \in CodesOf(q)}

\* What q has computed and what it has updated: each line that it recomputes
\* with its total, and zero on the lines that it clears.
Recomputed(q) == pc[q] \in {"lines", "commit"}
Clears(q, u)  == Op(q) = "remove" /\ <<u[1], u[2]>> \in OwnLines(q) /\ u[3] = 0
Totals(q, u)  == Recomputed(q) /\ <<u[1], u[2]>> \in Lines(q)
                 /\ u[3] = Cumulative(Lines(q), OwnAmounts(q), <<u[1], u[2]>>)
LinesInv(q) ==
    /\ pc[q] = "clear" => Op(q) = "remove"
    /\ stale[q] \cup updated[q] # {} => Recomputed(q) \/ pc[q] = "recompute"
    /\ pc[q] = "commit" => stale[q] = {}
    /\ \A u \in stale[q] \cup updated[q] : Clears(q, u) \/ Totals(q, u)
    /\ Recomputed(q) =>
           \A x \in Lines(q) : \E u \in stale[q] \cup updated[q] : u[1] = x[1] /\ u[2] = x[2]
    /\ Op(q) = "remove" /\ (Recomputed(q) \/ pc[q] = "recompute") =>
           \A l \in OwnLines(q) : \E u \in updated[q] : u[1] = l[1] /\ u[2] = l[2]

\* A total depends on the lines of its account.
LEMMA CumulativeAgrees ==
    ASSUME NEW L, NEW a, NEW M, NEW b, NEW x,
           \A y : y[2][2] = x[2][2] => (y \in L <=> y \in M),
           \A y \in L : y[2][2] = x[2][2] => a[y[1]][y[2]] = b[y[1]][y[2]]
    PROVE  Cumulative(L, a, x) = Cumulative(M, b, x)
<1> DEFINE U == {y \in L : y[2][2] = x[2][2] /\ UpTo(y[1], x[1])}
           W == {y \in M : y[2][2] = x[2][2] /\ UpTo(y[1], x[1])}
<1>1. U = W
  OBVIOUS
<1>2. [y \in U |-> a[y[1]][y[2]]] = [y \in W |-> b[y[1]][y[2]]]
  BY <1>1
<1>. QED
  BY <1>1, <1>2 DEF Cumulative

\* A line is a voucher and a row.
LEMMA LineIs ==
    ASSUME NEW vs, NEW a, NEW x
    PROVE  x \in LinesOf(vs, a) <=> /\ x[1] \in vs /\ x[2] \in Rows /\ x = <<x[1], x[2]>>
                                    /\ a[x[1]][x[2]] # 0
BY DEF LinesOf

\* Two requests past their rows have no account in common.
LEMMA NoAccountInCommon ==
    ASSUME RowsAreMonthly, OneMonth, TypeOK, MonthInv, NEW q \in Requests, NEW x \in Requests, q # x,
           RequestInv(q), RequestInv(x), Saved(q), Saved(x)
    PROVE  CodesOf(q) \cap CodesOf(x) = {}
<1> SUFFICES ASSUME NEW r \in RowsHit(Amounts(q)), NEW s \in RowsHit(Amounts(x)), r[2] = s[2]
             PROVE  FALSE
  BY DEF CodesOf
<1>1. \A z \in Requests : Target(z) \in Vouchers
  BY JobType
<1>2. \A z \in Requests : \A t \in RowsHit(Amounts(z)) : t \in Rows /\ t[1] = Period(z)
  BY <1>1 DEF RowsHit, Amounts, MonthInv, Period
<1>3. r = s
  BY <1>2 DEF RowsAreMonthly, OneMonth
<1>4. ASSUME NEW z \in Requests, RequestInv(z), Saved(z), NEW t \in RowsHit(Amounts(z))
      PROVE  lock[t] = z
  BY <1>4 DEF RequestInv, RowsCovered, RowsDone, RowsHit, Saved, Working, InTransaction
<1>. QED
  BY <1>3, <1>4

\* A step of another request leaves the lines q recomputes as they are.
LEMMA LinesStay ==
    ASSUME DistinctVouchers, RowsAreMonthly, OneMonth, TypeOK, MonthInv,
           NEW q \in Requests, NEW x \in Requests, x # q, RequestInv(q), RequestInv(x),
           Work(q) \/ Rollback(q), Recomputed(x)
    PROVE  /\ Lines(x)' = Lines(x)
           /\ \A l : Cumulative(Lines(x), OwnAmounts(x), l)' = Cumulative(Lines(x), OwnAmounts(x), l)
<1>1. /\ Amounts(x)' = Amounts(x) /\ CodesOf(x)' = CodesOf(x)
      /\ Target(x) \in Vouchers /\ Target(q) \in Vouchers /\ Target(x) # Target(q)
  BY JobType, Frame DEF Amounts, CodesOf, RowsHit, DistinctVouchers
<1>2. CASE UNCHANGED data
  <2>1. OwnAmounts(x)' = OwnAmounts(x) /\ PostedSeen(x)' = PostedSeen(x)
    BY <1>1, <1>2 DEF OwnAmounts, PostedSeen, data
  <2>2. Lines(x)' = Lines(x)
    BY <1>1, <2>1 DEF Lines, LinesOf
  <2>. QED
    BY <2>1, <2>2
<1>3. CASE DeleteVoucher(q)
  <2>1. /\ status' = [status EXCEPT ![Target(q)] = "deleted"] /\ amount' = amount
        /\ status[Target(q)] # "posted"
    BY <1>3 DEF DeleteVoucher, RequestInv, StatusKnown
  <2>2. OwnAmounts(x)' = OwnAmounts(x) /\ PostedSeen(x)' = PostedSeen(x)
    BY <1>1, <2>1 DEF OwnAmounts, PostedSeen, TypeOK
  <2>3. Lines(x)' = Lines(x)
    BY <1>1, <2>2 DEF Lines, LinesOf
  <2>. QED
    BY <2>2, <2>3
<1>4. CASE Commit(q)
  <2>1. /\ status' = [status EXCEPT ![Target(q)] = Outcome(q)]
        /\ amount' = [amount EXCEPT ![Target(q)] = Amounts(q)]
        /\ pc[q] = "commit"
    BY <1>4 DEF Commit
  <2>2. CodesOf(q) \cap CodesOf(x) = {}
    BY <2>1, NoAccountInCommon DEF Saved, Recomputed
  <2>3. \A r \in Rows : Amounts(q)[r] # 0 => r[2] \notin CodesOf(x)
    BY <2>2 DEF CodesOf, RowsHit
  <2>4. status[Target(q)] = "posted" => Amounts(q) = amount[Target(q)]
    BY <2>1, JobType DEF RequestInv, StatusKnown, Working, InTransaction, Amounts
  <2>5. \A v \in Vouchers \ {Target(q)} : /\ v \in PostedSeen(x)' <=> v \in PostedSeen(x)
                                          /\ OwnAmounts(x)'[v] = OwnAmounts(x)[v]
    BY <1>1, <2>1 DEF PostedSeen, OwnAmounts, TypeOK
  <2>6. PostedSeen(x) \subseteq Vouchers /\ PostedSeen(x)' \subseteq Vouchers
    BY <1>1 DEF PostedSeen
  <2>7. /\ OwnAmounts(x)'[Target(q)] = Amounts(q)
        /\ Target(q) \in PostedSeen(x) => OwnAmounts(x)[Target(q)] = Amounts(q)
    BY <1>1, <2>1, <2>4 DEF PostedSeen, OwnAmounts, TypeOK
  <2>8. ASSUME NEW y PROVE y \in Lines(x)' <=> y \in Lines(x)
    <3>1. y \in Lines(x) <=> /\ y[1] \in PostedSeen(x) /\ y[2] \in Rows /\ y = <<y[1], y[2]>>
                             /\ OwnAmounts(x)[y[1]][y[2]] # 0 /\ y[2][2] \in CodesOf(x)
      BY LineIs DEF Lines
    <3>2. y \in Lines(x)' <=> /\ y[1] \in PostedSeen(x)' /\ y[2] \in Rows /\ y = <<y[1], y[2]>>
                              /\ OwnAmounts(x)'[y[1]][y[2]] # 0 /\ y[2][2] \in CodesOf(x)
      BY <1>1, LineIs DEF Lines, LinesOf
    <3>3. CASE y[1] = Target(q)
      BY <2>3, <2>7, <3>1, <3>2, <3>3
    <3>4. CASE y[1] # Target(q)
      BY <2>5, <2>6, <3>1, <3>2, <3>4
    <3>. QED
      BY <3>3, <3>4
  <2>9. Lines(x)' = Lines(x)
    <3>1. \A y : y \in Lines(x)' <=> y \in Lines(x)
      BY <2>8
    <3>. QED
      BY <3>1 DEF Lines
  <2>10. ASSUME NEW y \in Lines(x) PROVE OwnAmounts(x)'[y[1]][y[2]] = OwnAmounts(x)[y[1]][y[2]]
    <3>1. /\ y[1] \in PostedSeen(x) /\ y[2] \in Rows /\ OwnAmounts(x)[y[1]][y[2]] # 0
          /\ y[2][2] \in CodesOf(x)
      BY LineIs DEF Lines
    <3>2. y[1] # Target(q)
      BY <2>3, <2>7, <3>1
    <3>. QED
      BY <2>5, <2>6, <3>1, <3>2
  <2>11. ASSUME NEW l PROVE Cumulative(Lines(x), OwnAmounts(x), l)' = Cumulative(Lines(x), OwnAmounts(x), l)
    <3>1. PICK L2, a2 : L2 = Lines(x)' /\ a2 = OwnAmounts(x)'
      OBVIOUS
    <3>2. Cumulative(Lines(x), OwnAmounts(x), l) = Cumulative(L2, a2, l)
      BY <2>9, <2>10, <3>1, CumulativeAgrees
    <3>3. Cumulative(Lines(x), OwnAmounts(x), l)' = Cumulative(Lines(x)', OwnAmounts(x)', l)
      BY DEF Cumulative
    <3>. QED
      BY <3>1, <3>2, <3>3
  <2>. QED
    BY <2>9, <2>11
<1>. QED
  BY <1>2, <1>3, <1>4, DataSteps

\* No amount moves to another month.
LEMMA MonthStep ==
    ASSUME RowsAreMonthly, TypeOK, TypeOK', MonthInv, NEW q \in Requests, RequestInv(q),
           Work(q) \/ Rollback(q)
    PROVE  MonthInv'
<1>1. Target(q) \in Vouchers /\ Amounts(q) \in [Rows -> Int]
  BY JobType, AmountsType
<1>2. \A r \in Rows : Amounts(q)[r] # 0 => r[1] = Period(q)
  BY <1>1 DEF Amounts, MonthInv, Period
<1>3. \A v \in Vouchers, r \in Rows : amount'[v][r] # 0 => r[1] = PeriodOf[v]
  <2>1. CASE Commit(q)
    <3>1. amount' = [amount EXCEPT ![Target(q)] = Amounts(q)]
      BY <2>1 DEF Commit
    <3>. QED
      BY <1>1, <1>2, <3>1 DEF MonthInv, Period, TypeOK
  <2>2. CASE DeleteVoucher(q)
    BY <2>2 DEF DeleteVoucher, MonthInv
  <2>3. CASE ~Commit(q) /\ ~DeleteVoucher(q)
    BY <2>3, DataSteps DEF data, MonthInv
  <2>. QED
    BY <2>1, <2>2, <2>3
<1>4. ASSUME NEW x \in Requests, NEW r \in Rows, kc'[x][r] # 0 PROVE r[1] = Period(x)
  <2>1. CASE kc' = kc \/ kc' = [kc EXCEPT ![q] = NoAmount]
    <3>1. kc \in [Requests -> [Rows -> Int]] /\ NoAmount[r] = 0
      BY DEF TypeOK, NoAmount
    <3>2. kc'[x] = kc[x]
      BY <1>4, <2>1, <3>1
    <3>. QED
      BY <1>4, <3>2 DEF MonthInv
  <2>2. CASE BeginClose(q) /\ kc'[x] # kc[x]
    <3> DEFINE closed == ToClose(Period(q))
    <3>1. x = q /\ kc'[x] = ClosingAmounts(Period(q))
      BY <2>2 DEF BeginClose, TypeOK
    <3>2. r \notin closed => r = Profit[Period(q)]
      BY <1>4, <3>1 DEF ClosingAmounts
    <3>. QED
      BY <1>1, <3>1, <3>2 DEF RowsAreMonthly, Period, ToClose
  <2>3. CASE BeginClose(q) /\ kc'[x] = kc[x]
    BY <1>4, <2>3 DEF MonthInv
  <2>4. CASE ~BeginClose(q)
    <3>1. kc' = kc \/ kc' = [kc EXCEPT ![q] = NoAmount]
      BY <2>4 DEF Work, Load, BeginPost, BeginUnpost, InsertClosing, ReadRow, WriteRow, SaveVoucher,
                  ClearLines, Recompute, UpdateLine, EndRecompute, Commit, DeleteVoucher,
                  DeadlockVictim, Rollback, Forget, locals
    <3>. QED
      BY <2>1, <3>1
  <2>. QED
    BY <2>2, <2>3, <2>4
<1>5. \A x \in Requests : Period(x)' = Period(x)
  BY DEF Period, Target
<1>. QED
  BY <1>3, <1>4, <1>5 DEF MonthInv

\* While the data stays, so do the lines that q recomputes.
LEMMA SameLines ==
    ASSUME NEW q \in Requests, status' = status, amount' = amount, kc'[q] = kc[q]
    PROVE  /\ Lines(q)' = Lines(q) /\ OwnLines(q)' = OwnLines(q)
           /\ \A l : Cumulative(Lines(q), OwnAmounts(q), l)' = Cumulative(Lines(q), OwnAmounts(q), l)
<1>1. /\ Amounts(q)' = Amounts(q) /\ Target(q)' = Target(q)
      /\ PostedSeen(q)' = PostedSeen(q) /\ CodesOf(q)' = CodesOf(q) /\ OwnAmounts(q)' = OwnAmounts(q)
  BY DEF Amounts, Target, Op, PostedSeen, CodesOf, RowsHit, OwnAmounts
<1>2. Lines(q)' = Lines(q) /\ OwnLines(q)' = OwnLines(q)
  BY <1>1 DEF Lines, LinesOf, OwnLines
<1>. QED
  BY <1>1, <1>2

\* The lines of another request and its updates stay.
LEMMA UpdatesStay ==
    ASSUME TypeOK, NEW q \in Requests, NEW x \in Requests, x # q, Work(q) \/ Rollback(q)
    PROVE  stale'[x] = stale[x] /\ updated'[x] = updated[x]
BY DEF Work, Load, BeginPost, BeginUnpost, BeginClose, InsertClosing, ReadRow, WriteRow, SaveVoucher,
       ClearLines, Recompute, UpdateLine, EndRecompute, Commit, DeleteVoucher,
       DeadlockVictim, Rollback, Forget, locals, TypeOK

\* The other requests keep what they know of the lines.
LEMMA OthersKeepLines ==
    ASSUME DistinctVouchers, RowsAreMonthly, OneMonth, TypeOK, MonthInv,
           NEW q \in Requests, NEW x \in Requests, x # q, RequestInv(q), RequestInv(x),
           Work(q) \/ Rollback(q), LinesInv(x)
    PROVE  LinesInv(x)'
<1>1. /\ stale'[x] = stale[x] /\ updated'[x] = updated[x] /\ pc'[x] = pc[x]
      /\ Recomputed(x)' = Recomputed(x)
  BY UpdatesStay, Frame DEF Recomputed
<1>2. OwnLines(x)' = OwnLines(x)
  BY Frame DEF OwnLines, LinesOf, Target
<1>3. Recomputed(x) => Lines(x)' = Lines(x)
  BY LinesStay
<1>4. \A u : Clears(x, u) => Clears(x, u)'
  BY <1>2 DEF Clears, Op
<1>5. ASSUME NEW u, Totals(x, u) PROVE Totals(x, u)'
  <2>1. Recomputed(x) /\ <<u[1], u[2]>> \in Lines(x)
        /\ u[3] = Cumulative(Lines(x), OwnAmounts(x), <<u[1], u[2]>>)
    BY <1>5 DEF Totals
  <2>2. u[3] = Cumulative(Lines(x), OwnAmounts(x), <<u[1], u[2]>>)'
    BY <2>1, LinesStay
  <2>. QED
    BY <1>1, <1>3, <2>1, <2>2 DEF Totals
<1>. QED
  BY <1>1, <1>2, <1>3, <1>4, <1>5 DEF LinesInv, Op

\* A request that has computed and updated nothing.
LEMMA NoLines ==
    ASSUME NEW q \in Requests, pc[q] \notin {"clear", "recompute", "lines", "commit"},
           stale[q] = {}, updated[q] = {}
    PROVE  LinesInv(q)
BY DEF LinesInv, Recomputed

\* A statement of q keeps what q knows of the lines.
LEMMA OwnLinesKept ==
    ASSUME DistinctVouchers, TypeOK, NEW q \in Requests, RequestInv(q),
           Work(q) \/ Rollback(q), LinesInv(q)
    PROVE  LinesInv(q)'
<1>1. /\ Target(q) \in Vouchers /\ Op(q) \in {"post", "remove", "close"}
      /\ Target(q)' = Target(q) /\ Op(q)' = Op(q)
  BY JobType DEF Target, Op
<1>2. CASE Rollback(q) \/ Commit(q) \/ DeleteVoucher(q)
  <2>1. stale'[q] = {} /\ updated'[q] = {} /\ pc'[q] \in {"ended", "delete"}
    BY <1>2 DEF Rollback, Commit, DeleteVoucher, Forget, Goto, TypeOK
  <2>. QED
    BY <2>1 DEF LinesInv, Recomputed
<1>3. CASE /\ ~Rollback(q) /\ pc[q] \notin {"clear", "recompute", "lines", "commit", "delete"}
  <2>1. stale[q] = {} /\ updated[q] = {}
    BY <1>3 DEF LinesInv, Recomputed
  <2>2. stale' = stale /\ updated' = updated
    BY <1>2, <1>3 DEF Work, Load, BeginPost, BeginUnpost, BeginClose, InsertClosing, ReadRow, WriteRow,
         SaveVoucher, ClearLines, Recompute, UpdateLine, EndRecompute, Commit, DeleteVoucher,
         DeadlockVictim, locals
  <2>3. /\ pc'[q] \notin {"lines", "commit"}
        /\ pc'[q] = "recompute" => Op(q) # "remove"
        /\ pc'[q] = "clear" => Op(q) = "remove"
    BY <1>1, <1>3 DEF Work, Load, BeginPost, BeginUnpost, BeginClose, InsertClosing, ReadRow, WriteRow,
         SaveVoucher, ClearLines, Recompute, UpdateLine, EndRecompute, Commit, DeleteVoucher,
         DeadlockVictim, Goto, TypeOK
  <2>. QED
    BY <1>1, <2>1, <2>2, <2>3 DEF LinesInv, Recomputed
<1>4. CASE ClearLines(q) \/ Recompute(q) \/ UpdateLine(q) \/ EndRecompute(q)
  <2>1. status' = status /\ amount' = amount /\ kc' = kc
    BY <1>4 DEF ClearLines, Recompute, UpdateLine, EndRecompute, data, locals
  <2>2. /\ Lines(q)' = Lines(q) /\ OwnLines(q)' = OwnLines(q)
        /\ \A l : Cumulative(Lines(q), OwnAmounts(q), l)' = Cumulative(Lines(q), OwnAmounts(q), l)
    BY <2>1, SameLines
  <2>3. \A u : Clears(q, u)' <=> Clears(q, u)
    BY <1>1, <2>2 DEF Clears
  <2>4. ASSUME NEW u, Recomputed(q)', <<u[1], u[2]>> \in Lines(q),
               u[3] = Cumulative(Lines(q), OwnAmounts(q), <<u[1], u[2]>>)
        PROVE  Totals(q, u)'
    <3>1. u[3] = Cumulative(Lines(q), OwnAmounts(q), <<u[1], u[2]>>)'
      BY <2>2, <2>4
    <3>. QED
      BY <2>2, <2>4, <3>1 DEF Totals
  <2>5. CASE ClearLines(q)
    <3>1. /\ pc[q] = "clear" /\ stale' = stale /\ pc'[q] = "recompute"
          /\ updated'[q] = {<<l[1], l[2], 0>> : l \in OwnLines(q)}
      BY <2>5 DEF ClearLines, Goto, TypeOK
    <3>2. stale[q] = {} /\ Op(q) = "remove"
      BY <3>1 DEF LinesInv, Recomputed
    <3>3. \A l \in OwnLines(q) : l = <<l[1], l[2]>>
      BY LineIs DEF OwnLines
    <3>4. \A u \in updated'[q] : Clears(q, u)
      BY <3>1, <3>2, <3>3 DEF Clears
    <3>5. \A l \in OwnLines(q) : \E u \in updated'[q] : u[1] = l[1] /\ u[2] = l[2]
      <4>1. SUFFICES ASSUME NEW l \in OwnLines(q) PROVE \E u \in updated'[q] : u[1] = l[1] /\ u[2] = l[2]
        OBVIOUS
      <4>2. <<l[1], l[2], 0>> \in updated'[q]
        BY <3>1
      <4>. QED
        BY <4>2
    <3>. QED
      BY <2>2, <2>3, <3>1, <3>2, <3>4, <3>5 DEF LinesInv, Recomputed
  <2>6. CASE Recompute(q)
    <3>1. /\ pc[q] = "recompute" /\ updated' = updated /\ pc'[q] = "lines"
          /\ stale'[q] = {<<x[1], x[2], Cumulative(Lines(q), OwnAmounts(q), x)>> : x \in Lines(q)}
      BY <2>6 DEF Recompute, Goto, TypeOK, Lines, OwnAmounts, CodesOf
    <3>2. \A x \in Lines(q) : x = <<x[1], x[2]>>
      BY LineIs DEF Lines
    <3>3. \A u \in updated[q] : Clears(q, u)
      BY <3>1 DEF LinesInv, Totals, Recomputed
    <3>4. ASSUME NEW u \in stale'[q] PROVE Totals(q, u)'
      <4>1. PICK x \in Lines(q) : u = <<x[1], x[2], Cumulative(Lines(q), OwnAmounts(q), x)>>
        BY <3>1
      <4>2. <<u[1], u[2]>> = x /\ u[3] = Cumulative(Lines(q), OwnAmounts(q), x)
        BY <3>2, <4>1
      <4>. QED
        BY <2>4, <3>1, <4>2 DEF Recomputed
    <3>5. \A x \in Lines(q) : \E u \in stale'[q] : u[1] = x[1] /\ u[2] = x[2]
      <4>1. SUFFICES ASSUME NEW x \in Lines(q) PROVE \E u \in stale'[q] : u[1] = x[1] /\ u[2] = x[2]
        OBVIOUS
      <4>2. <<x[1], x[2], Cumulative(Lines(q), OwnAmounts(q), x)>> \in stale'[q]
        BY <3>1
      <4>. QED
        BY <4>2
    <3>6. Op(q) = "remove" => \A l \in OwnLines(q) : \E u \in updated[q] : u[1] = l[1] /\ u[2] = l[2]
      BY <3>1 DEF LinesInv
    <3>. QED
      BY <1>1, <2>2, <2>3, <3>1, <3>3, <3>4, <3>5, <3>6 DEF LinesInv, Recomputed
  <2>7. CASE UpdateLine(q)
    <3>1. PICK u \in stale[q] :
             /\ pc[q] = "lines" /\ stale'[q] = stale[q] \ {u} /\ pc' = pc
             /\ updated'[q] = IF status[u[1]] = "deleted" THEN updated[q] ELSE updated[q] \cup {u}
      BY <2>7 DEF UpdateLine, TypeOK
    <3>2. status[u[1]] # "deleted"
      <4>1. Clears(q, u) \/ Totals(q, u)
        BY <3>1 DEF LinesInv
      <4>2. u[1] = Target(q) \/ u[1] \in PostedSeen(q)
        <5>1. CASE Clears(q, u)
          BY <5>1, LineIs DEF Clears, OwnLines
        <5>2. CASE Totals(q, u)
          BY <5>2, LineIs DEF Totals, Lines
        <5>. QED
          BY <4>1, <5>1, <5>2
      <4>3. status[Target(q)] # "deleted"
        BY <1>1, <3>1 DEF RequestInv, StatusKnown, Working, InTransaction
      <4>. QED
        BY <4>2, <4>3 DEF PostedSeen
    <3>3. stale'[q] \cup updated'[q] = stale[q] \cup updated[q] /\ updated[q] \subseteq updated'[q]
      BY <3>1, <3>2
    <3>4. ASSUME NEW w \in stale[q] \cup updated[q] PROVE Clears(q, w)' \/ Totals(q, w)'
      <4>1. Recomputed(q)' /\ (Clears(q, w) \/ Totals(q, w))
        BY <3>1 DEF LinesInv, Recomputed
      <4>2. CASE Clears(q, w)
        BY <2>3, <4>2
      <4>3. CASE Totals(q, w)
        BY <2>4, <4>1, <4>3 DEF Totals
      <4>. QED
        BY <4>1, <4>2, <4>3
    <3>5. \A x \in Lines(q) : \E w \in stale[q] \cup updated[q] : w[1] = x[1] /\ w[2] = x[2]
      BY <3>1 DEF LinesInv, Recomputed
    <3>6. Op(q) = "remove" => \A l \in OwnLines(q) : \E w \in updated[q] : w[1] = l[1] /\ w[2] = l[2]
      BY <3>1 DEF LinesInv, Recomputed
    <3>7. Op(q) = "remove" => \A l \in OwnLines(q) : \E w \in updated'[q] : w[1] = l[1] /\ w[2] = l[2]
      BY <3>3, <3>6
    <3>. QED
      BY <1>1, <2>2, <3>1, <3>3, <3>4, <3>5, <3>7 DEF LinesInv, Recomputed
  <2>8. CASE EndRecompute(q)
    <3>1. pc[q] = "lines" /\ stale' = stale /\ updated' = updated /\ pc'[q] = "commit" /\ stale[q] = {}
      BY <2>8 DEF EndRecompute, Goto, TypeOK, locals
    <3>2. ASSUME NEW w \in updated[q] PROVE Clears(q, w)' \/ Totals(q, w)'
      <4>1. Recomputed(q)' /\ (Clears(q, w) \/ Totals(q, w))
        BY <3>1 DEF LinesInv, Recomputed
      <4>2. CASE Clears(q, w)
        BY <2>3, <4>2
      <4>3. CASE Totals(q, w)
        BY <2>4, <4>1, <4>3 DEF Totals
      <4>. QED
        BY <4>1, <4>2, <4>3
    <3>. QED
      BY <1>1, <2>2, <3>1, <3>2 DEF LinesInv, Recomputed
  <2>. QED
    BY <1>4, <2>5, <2>6, <2>7, <2>8
<1>5. CASE pc[q] \in {"clear", "recompute", "lines", "commit", "delete"} /\ Work(q)
  BY <1>2, <1>4, <1>5 DEF Work, Load, BeginPost, BeginUnpost, BeginClose, InsertClosing, ReadRow, WriteRow,
       SaveVoucher, DeadlockVictim
<1>. QED
  BY <1>2, <1>3, <1>5

\* A commit brings the running balances of its accounts up to date and leaves
\* those of other accounts.
LEMMA CommitKeepsRunning ==
    ASSUME TypeOK, NEW q \in Requests, RequestInv(q), LinesInv(q), RunningIsCumulative, Commit(q)
    PROVE  RunningIsCumulative'
<1> DEFINE t == Target(q)
<1>1. /\ t \in Vouchers /\ Op(q) \in {"post", "remove", "close"} /\ Amounts(q) \in [Rows -> Int]
      /\ pc[q] = "commit" /\ stale[q] = {} /\ Recomputed(q)
  BY JobType, AmountsType DEF Commit, LinesInv, Recomputed
<1>2. /\ status[t] = (IF Op(q) = "close" THEN "unused" ELSE IF Op(q) = "post" THEN "draft" ELSE "posted")
      /\ status' = [status EXCEPT ![t] = IF Op(q) = "remove" THEN "draft" ELSE "posted"]
      /\ amount' = OwnAmounts(q)
      /\ Op(q) # "close" => amount' = amount
  BY CommitMoves DEF OwnAmounts
<1>3. /\ amount'[t] = Amounts(q)
      /\ \A w \in Vouchers \ {t} : amount'[w] = amount[w] /\ status'[w] = status[w]
  BY <1>1, <1>2 DEF TypeOK, OwnAmounts
<1>4. PostedLines' = LinesOf(PostedSeen(q), OwnAmounts(q))
  <2>1. {v \in Vouchers : status'[v] = "posted"} = PostedSeen(q)
    BY <1>1, <1>2 DEF PostedSeen, TypeOK
  <2>. QED
    BY <1>2, <2>1 DEF PostedLines, LinesOf
<1>5. \A y : y \in Lines(q) <=> y \in PostedLines' /\ y[2][2] \in CodesOf(q)
  BY <1>4 DEF Lines
<1>6. \A r \in Rows : Amounts(q)[r] # 0 => r[2] \in CodesOf(q)
  BY DEF CodesOf, RowsHit
<1>7. \A u \in updated[q] : Clears(q, u) \/ Totals(q, u)
  BY DEF LinesInv
<1>8. \A v \in Vouchers, r \in Rows : LineLocked(q, v, r) =>
          \E u \in updated[q] : u[1] = v /\ u[2] = r /\ running'[v][r] = u[3]
  BY DEF Commit, LineLocked
<1>9. \A v \in Vouchers, r \in Rows : ~LineLocked(q, v, r) => running'[v][r] = running[v][r]
  BY DEF Commit
<1>10. \A y : y \in PostedLines' <=> /\ y[1] \in Vouchers /\ status'[y[1]] = "posted" /\ y[2] \in Rows
                                     /\ y = <<y[1], y[2]>> /\ amount'[y[1]][y[2]] # 0
  <2>1. {v \in Vouchers : status'[v] = "posted"} = PostedSeen(q)
    BY <1>1, <1>2 DEF PostedSeen, TypeOK
  <2>. QED
    BY <1>2, <1>4, <2>1, LineIs
<1>11. \A y : y \in PostedLines <=> /\ y[1] \in Vouchers /\ status[y[1]] = "posted" /\ y[2] \in Rows
                                    /\ y = <<y[1], y[2]>> /\ amount[y[1]][y[2]] # 0
  BY LineIs DEF PostedLines
<1>12. \A y : y \in OwnLines(q) <=> y[1] = t /\ y[2] \in Rows /\ y = <<y[1], y[2]>> /\ amount[t][y[2]] # 0
  BY LineIs DEF OwnLines
<1>13. SUFFICES ASSUME NEW v \in Vouchers, NEW r \in Rows, status'[v] \in {"draft", "posted"},
                       amount'[v][r] # 0
       PROVE  running'[v][r] = IF <<v, r>> \in PostedLines'
                               THEN Cumulative(PostedLines', amount', <<v, r>>) ELSE 0
  <2>1. ASSUME NEW x \in LinesOf({v \in Vouchers : Exists(v)}, amount)'
        PROVE  /\ x[1] \in Vouchers /\ x[2] \in Rows /\ status'[x[1]] \in {"draft", "posted"}
               /\ x = <<x[1], x[2]>> /\ amount'[x[1]][x[2]] # 0
    BY <2>1, LineIs DEF LinesOf, Exists
  <2>2. \A l : Cumulative(PostedLines, amount, l)' = Cumulative(PostedLines', amount', l)
    BY DEF Cumulative
  <2>3. ASSUME NEW x \in LinesOf({v \in Vouchers : Exists(v)}, amount)'
        PROVE  running'[x[1]][x[2]] = IF x \in PostedLines'
                                      THEN Cumulative(PostedLines, amount, x)' ELSE 0
    BY <1>13, <2>1, <2>2
  <2>. QED
    BY <2>3 DEF RunningIsCumulative
<1> DEFINE x == <<v, r>>
<1>14. x[1] = v /\ x[2] = r
  OBVIOUS
<1>15. \A u : /\ Clears(q, u) => Op(q) = "remove" /\ u[1] = t /\ u[3] = 0
              /\ Totals(q, u) => /\ <<u[1], u[2]>> \in PostedLines' /\ u[2][2] \in CodesOf(q)
                                 /\ u[3] = Cumulative(Lines(q), OwnAmounts(q), <<u[1], u[2]>>)
  BY <1>5, <1>12 DEF Clears, Totals
<1>16. CASE r[2] \in CodesOf(q) /\ x \in PostedLines'
  <2>1. \E u \in updated[q] : u[1] = v /\ u[2] = r
    BY <1>1, <1>5, <1>14, <1>16 DEF LinesInv
  <2>2. PICK u \in updated[q] : u[1] = v /\ u[2] = r /\ running'[v][r] = u[3]
    BY <1>8, <2>1 DEF LineLocked
  <2>3. Op(q) = "remove" => v # t
    BY <1>1, <1>2, <1>10, <1>14, <1>16 DEF TypeOK
  <2>4. running'[v][r] = Cumulative(Lines(q), OwnAmounts(q), x)
    BY <1>7, <1>15, <2>2, <2>3
  <2>5. PICK L, a, M : L = Lines(q) /\ a = OwnAmounts(q) /\ M = PostedLines'
    OBVIOUS
  <2>6. Cumulative(L, a, x) = Cumulative(M, a, x)
    <3>1. \A y : y[2][2] = x[2][2] => (y \in L <=> y \in M)
      BY <1>5, <1>14, <1>16, <2>5
    <3>. QED
      BY <3>1, CumulativeAgrees
  <2>. QED
    BY <1>2, <1>16, <2>4, <2>5, <2>6
<1>17. CASE r[2] \in CodesOf(q) /\ x \notin PostedLines'
  <2>1. status'[v] = "draft"
    BY <1>10, <1>13, <1>14, <1>17
  <2>2. CASE v = t
    <3>1. Op(q) = "remove" /\ amount' = amount
      BY <1>1, <1>2, <2>1, <2>2 DEF TypeOK
    <3>2. x \in OwnLines(q)
      BY <1>12, <1>13, <1>14, <2>2, <3>1
    <3>3. \E u \in updated[q] : u[1] = v /\ u[2] = r
      BY <1>1, <1>14, <3>1, <3>2 DEF LinesInv
    <3>4. PICK u \in updated[q] : u[1] = v /\ u[2] = r /\ running'[v][r] = u[3]
      BY <1>8, <3>3 DEF LineLocked
    <3>. QED
      BY <1>7, <1>15, <1>17, <3>4
  <2>3. CASE v # t
    <3>1. ~LineLocked(q, v, r)
      BY <1>7, <1>15, <1>17, <2>3 DEF LineLocked
    <3>2. status[v] = "draft" /\ amount[v][r] # 0
      BY <1>3, <1>13, <2>1, <2>3
    <3>3. x \in LinesOf({w \in Vouchers : Exists(w)}, amount) /\ x \notin PostedLines
      BY <1>11, <1>14, <3>2, LineIs DEF Exists
    <3>4. running[v][r] = 0
      BY <1>14, <3>3 DEF RunningIsCumulative
    <3>. QED
      BY <1>9, <1>17, <3>1, <3>4
  <2>. QED
    BY <2>2, <2>3
<1>18. CASE r[2] \notin CodesOf(q)
  <2>1. v # t
    BY <1>3, <1>6, <1>13, <1>18
  <2>2. ~LineLocked(q, v, r)
    BY <1>7, <1>15, <1>18, <2>1 DEF LineLocked
  <2>3. status'[v] = status[v] /\ amount'[v] = amount[v]
    BY <1>3, <2>1
  <2>4. x \in LinesOf({w \in Vouchers : Exists(w)}, amount) /\ (x \in PostedLines <=> x \in PostedLines')
    BY <1>10, <1>11, <1>13, <1>14, <2>3, LineIs DEF Exists
  <2>5. running[v][r] = IF x \in PostedLines THEN Cumulative(PostedLines, amount, x) ELSE 0
    BY <1>14, <2>4 DEF RunningIsCumulative
  <2>6. ASSUME NEW y, y[2][2] = r[2]
        PROVE  /\ y \in PostedLines <=> y \in PostedLines'
               /\ y \in PostedLines => amount'[y[1]][y[2]] = amount[y[1]][y[2]]
    <3>1. CASE y[1] # t
      BY <1>3, <1>10, <1>11, <3>1
    <3>2. CASE y[1] = t
      <4>1. y \notin PostedLines'
        BY <1>3, <1>6, <1>10, <1>18, <2>6, <3>2
      <4>2. y \notin PostedLines
        <5>1. SUFFICES ASSUME y \in PostedLines PROVE FALSE
          OBVIOUS
        <5>2. Op(q) = "remove"
          BY <1>1, <1>2, <1>11, <3>2, <5>1
        <5>3. Amounts(q)[y[2]] # 0 /\ y[2] \in Rows
          BY <1>2, <1>3, <1>11, <3>2, <5>1, <5>2
        <5>. QED
          BY <1>6, <1>18, <2>6, <5>3
      <4>. QED
        BY <4>1, <4>2
    <3>. QED
      BY <3>1, <3>2
  <2>7. PICK L, M, b : L = PostedLines /\ M = PostedLines' /\ b = amount'
    OBVIOUS
  <2>8. Cumulative(L, amount, x) = Cumulative(M, b, x)
    <3>1. \A y : y[2][2] = x[2][2] => (y \in L <=> y \in M)
      BY <1>14, <2>6, <2>7
    <3>2. \A y \in L : y[2][2] = x[2][2] => amount[y[1]][y[2]] = b[y[1]][y[2]]
      BY <1>14, <2>6, <2>7
    <3>. QED
      BY <3>1, <3>2, CumulativeAgrees
  <2>. QED
    BY <1>9, <2>2, <2>4, <2>5, <2>7, <2>8
<1>. QED
  BY <1>16, <1>17, <1>18

\* Deleting a draft touches no posted line.
LEMMA DeleteKeepsRunning ==
    ASSUME TypeOK, NEW q \in Requests, RequestInv(q), RunningIsCumulative, DeleteVoucher(q)
    PROVE  RunningIsCumulative'
<1>1. status[Target(q)] = "draft" /\ Target(q) \in Vouchers
  BY JobType DEF DeleteVoucher, RequestInv, StatusKnown
<1>2. /\ status' = [status EXCEPT ![Target(q)] = "deleted"]
      /\ amount' = amount /\ running' = running
  BY DEF DeleteVoucher
<1>3. {v \in Vouchers : status'[v] = "posted"} = {v \in Vouchers : status[v] = "posted"}
  BY <1>1, <1>2 DEF TypeOK
<1>4. PostedLines' = PostedLines
  BY <1>2, <1>3 DEF PostedLines, LinesOf
<1>5. {v \in Vouchers : Exists(v)'} \subseteq {v \in Vouchers : Exists(v)}
  BY <1>1, <1>2 DEF Exists, TypeOK
<1>6. LinesOf({v \in Vouchers : Exists(v)}, amount)' \subseteq LinesOf({v \in Vouchers : Exists(v)}, amount)
  BY <1>2, <1>5 DEF LinesOf
<1>7. \A x : Cumulative(PostedLines, amount, x)' = Cumulative(PostedLines, amount, x)
  BY <1>2, <1>4 DEF Cumulative
<1>. QED
  BY <1>2, <1>4, <1>6, <1>7 DEF RunningIsCumulative

\* Months and lines are kept in every reachable state.
MonthlyInv == MonthInv /\ (\A q \in Requests : LinesInv(q)) /\ RunningIsCumulative

\* The invariant of the months holds before the first statement.
LEMMA MonthlyInit == RowsAreMonthly /\ Init => MonthlyInv
<1>1. SUFFICES ASSUME RowsAreMonthly, Init PROVE MonthlyInv
  OBVIOUS
<1>2. MonthInv
  BY <1>1 DEF Init, RowsAreMonthly, MonthInv, NoAmount
<1>3. \A q \in Requests : LinesInv(q)
  BY <1>1 DEF Init, LinesInv, Recomputed
<1>4. RunningIsCumulative
  <2>1. ASSUME NEW x \in LinesOf({v \in Vouchers : Exists(v)}, amount)
        PROVE  x[1] \in Vouchers /\ x[2] \in Rows /\ x = <<x[1], x[2]>>
    BY <2>1, LineIs
  <2>2. \A v \in Vouchers, r \in Rows :
            running[v][r] = IF <<v, r>> \in PostedLines THEN Cumulative(PostedLines, amount, <<v, r>>) ELSE 0
    BY <1>1 DEF Init
  <2>. QED
    BY <2>1, <2>2 DEF RunningIsCumulative
<1>. QED
  BY <1>2, <1>3, <1>4 DEF MonthlyInv

\* Every statement, rollback and stutter keeps it.
LEMMA MonthlyStep ==
    DistinctVouchers /\ RowsAreMonthly /\ OneMonth /\ PostingInv /\ MonthlyInv /\ [Next]_vars => MonthlyInv'
<1>1. SUFFICES ASSUME DistinctVouchers, RowsAreMonthly, OneMonth, PostingInv, MonthlyInv, [Next]_vars
               PROVE  MonthlyInv'
  OBVIOUS
<1>2. CASE UNCHANGED vars
  <2> USE <1>2 DEF vars, data, locals
  <2>1. MonthInv'
    BY <1>1 DEF MonthlyInv, MonthInv, Period, Target
  <2>2. ASSUME NEW q \in Requests PROVE LinesInv(q)'
    <3>1. /\ Lines(q)' = Lines(q) /\ OwnLines(q)' = OwnLines(q) /\ Recomputed(q)' = Recomputed(q)
          /\ \A l : Cumulative(Lines(q), OwnAmounts(q), l)' = Cumulative(Lines(q), OwnAmounts(q), l)
      BY SameLines DEF Recomputed
    <3>2. \A u : Clears(q, u) => Clears(q, u)'
      BY <3>1 DEF Clears, Op
    <3>3. \A u : Totals(q, u) => Totals(q, u)'
      <4>1. SUFFICES ASSUME NEW u, Totals(q, u) PROVE Totals(q, u)'
        OBVIOUS
      <4>2. u[3] = Cumulative(Lines(q), OwnAmounts(q), <<u[1], u[2]>>)'
        BY <3>1, <4>1 DEF Totals
      <4>. QED
        BY <3>1, <4>1, <4>2 DEF Totals
    <3>4. LinesInv(q)
      BY <1>1 DEF MonthlyInv
    <3>. QED
      BY <3>1, <3>2, <3>3, <3>4 DEF LinesInv, Op
  <2>3. RunningIsCumulative'
    <3>1. PostedLines' = PostedLines
      BY DEF PostedLines, LinesOf
    <3>2. \A x : Cumulative(PostedLines, amount, x)' = Cumulative(PostedLines, amount, x)
      BY <3>1 DEF Cumulative
    <3>3. LinesOf({v \in Vouchers : Exists(v)}, amount)' = LinesOf({v \in Vouchers : Exists(v)}, amount)
      BY DEF LinesOf, Exists
    <3>. QED
      BY <1>1, <3>1, <3>2, <3>3 DEF MonthlyInv, RunningIsCumulative
  <2>. QED
    BY <2>1, <2>2, <2>3 DEF MonthlyInv
<1>3. ASSUME NEW q \in Requests, Work(q) \/ Rollback(q) PROVE MonthlyInv'
  <2>1. TypeOK /\ TypeOK' /\ RequestInv(q)
    BY <1>1, <1>3, WorkType, RollbackType DEF PostingInv
  <2>2. MonthInv'
    BY <1>1, <1>3, <2>1, MonthStep DEF MonthlyInv
  <2>3. ASSUME NEW x \in Requests PROVE LinesInv(x)'
    BY <1>1, <1>3, <2>1, OwnLinesKept, OthersKeepLines DEF PostingInv, MonthlyInv
  <2>4. RunningIsCumulative'
    <3>1. CASE Commit(q)
      BY <1>1, <2>1, <3>1, CommitKeepsRunning DEF MonthlyInv
    <3>2. CASE DeleteVoucher(q)
      BY <1>1, <2>1, <3>2, DeleteKeepsRunning DEF MonthlyInv
    <3>3. CASE ~Commit(q) /\ ~DeleteVoucher(q)
      <4>1. UNCHANGED data
        BY <1>3, <3>3, DataSteps
      <4>2. PostedLines' = PostedLines
        BY <4>1 DEF data, PostedLines, LinesOf
      <4>3. \A x : Cumulative(PostedLines, amount, x)' = Cumulative(PostedLines, amount, x)
        BY <4>1, <4>2 DEF data, Cumulative
      <4>4. LinesOf({v \in Vouchers : Exists(v)}, amount)' = LinesOf({v \in Vouchers : Exists(v)}, amount)
        BY <4>1 DEF data, LinesOf, Exists
      <4>. QED
        BY <1>1, <4>1, <4>2, <4>3, <4>4 DEF data, MonthlyInv, RunningIsCumulative
    <3>. QED
      BY <3>1, <3>2, <3>3
  <2>. QED
    BY <2>2, <2>3, <2>4 DEF MonthlyInv
<1>. QED
  BY <1>1, <1>2, <1>3 DEF Next, Crash

\* When the requests work in one month, every line of a posted voucher shows
\* the cumulative balance of its account and every line of a draft shows
\* nothing, although Recompute reads the lines without locks.
THEOREM RunningStaysCumulative ==
    ASSUME DistinctVouchers, RowsAreMonthly, OneMonth PROVE Spec => []RunningIsCumulative
<1>1. Init => MonthlyInv
  BY MonthlyInit
<1>2. PostingInv /\ MonthlyInv /\ [Next]_vars => MonthlyInv'
  BY MonthlyStep
<1>3. MonthlyInv => RunningIsCumulative
  BY DEF MonthlyInv
<1>. QED
  BY <1>1, <1>2, <1>3, InvAlways, PTL DEF Spec
=============================================================================
