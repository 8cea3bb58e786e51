------------------------ MODULE GeneralLedgerProofs ------------------------
(***************************************************************************)
(* Theorems about GeneralLedger, for every chart of accounts, every set of *)
(* documents and every number of vouchers.                                 *)
(***************************************************************************)
EXTENDS GeneralLedger, SumLemmas, SequenceTheorems

(***************************************************************************)
(* Finite sets and types of the operators.                                 *)
(***************************************************************************)

\* Balance rows are triples over finite sets.
LEMMA TripleFinite ==
    ASSUME NEW A, NEW B, NEW C, IsFiniteSet(A), IsFiniteSet(B), IsFiniteSet(C)
    PROVE  IsFiniteSet(A \X B \X C)
<1> DEFINE D == (A \X B) \X C
           f == [x \in D |-> <<x[1][1], x[1][2], x[2]>>]
<1>1. IsFiniteSet(D)
  BY FS_Product
<1>2. f \in [D -> A \X B \X C]
  OBVIOUS
<1>3. ASSUME NEW t \in A \X B \X C PROVE \E x \in D : f[x] = t
  <2>1. <<<<t[1], t[2]>>, t[3]>> \in D
    OBVIOUS
  <2>. QED
    BY <2>1
<1>4. f \in Surjection(D, A \X B \X C)
  BY <1>2, <1>3 DEF Surjection
<1>. QED
  BY <1>1, <1>4, FS_Surjection

\* The constant sets that sums and minima range over are finite.
LEMMA FiniteConstants ==
    IsFiniteSet(Vouchers) /\ IsFiniteSet(Rows) /\ Vouchers \subseteq Nat
<1>1. IsFiniteSet(Vouchers) /\ Vouchers \subseteq Nat
  BY MaxVoucherAssumption, FS_Interval DEF Vouchers
<1>2. IsFiniteSet(Periods)
  <2>1. Periods \in SUBSET Nat /\ \A p \in Periods : p <= 12
    BY PeriodAssumption
  <2>. QED
    BY <2>1, FS_BoundedSetOfNaturals
<1>3. IsFiniteSet(Rows)
  BY <1>2, AccountAssumption, ObjectAssumption, TripleFinite DEF Rows
<1>. QED
  BY <1>1, <1>3

\* The lines of a voucher are finitely many and have integer amounts.
LEMMA LineNumbers ==
    ASSUME NEW ls \in Seq(Line)
    PROVE  /\ IsFiniteSet(DOMAIN ls)
           /\ \A i \in DOMAIN ls : ls[i] \in Line
           /\ \A i \in DOMAIN ls : Debits(ls)[i] \in Int /\ Credits(ls)[i] \in Int
           /\ \A p, r : IsFiniteSet(Hits(p, ls, r)) /\ Hits(p, ls, r) \subseteq DOMAIN ls
<1>1. DOMAIN ls = 1..Len(ls) /\ Len(ls) \in Nat /\ \A i \in DOMAIN ls : ls[i] \in Line
  BY LenProperties, ElementOfSeq
<1>2. IsFiniteSet(DOMAIN ls)
  BY <1>1, FS_Interval
<1>3. \A i \in DOMAIN ls : Debits(ls)[i] \in Int /\ Credits(ls)[i] \in Int
  BY <1>1 DEF Debits, Credits, Line
<1>4. \A p, r : IsFiniteSet(Hits(p, ls, r)) /\ Hits(p, ls, r) \subseteq DOMAIN ls
  BY <1>2, FS_Subset DEF Hits
<1>. QED
  BY <1>1, <1>2, <1>3, <1>4

\* What the lines of a voucher add to one row is an entry.
LEMMA MovementType ==
    ASSUME NEW ls \in Seq(Line), NEW p, NEW r
    PROVE  Movement(p, ls, r) \in Entry
<1>1. /\ Sum(Debits(ls), Hits(p, ls, r)) \in Int
      /\ Sum(Credits(ls), Hits(p, ls, r)) \in Int
  BY LineNumbers, SumInt DEF Sum
<1>2. Cardinality(Hits(p, ls, r)) \in Nat
  BY LineNumbers, FS_CardinalityType
<1>. QED
  BY <1>1, <1>2 DEF Movement, Entry

\* Posting keeps balances well typed.
LEMMA AddedType ==
    ASSUME NEW bal \in [Rows -> Entry], NEW ls \in Seq(Line), NEW p
    PROVE  Added(bal, p, ls) \in [Rows -> Entry] /\ Removed(bal, p, ls) \in [Rows -> Entry]
<1> DEFINE m(r) == Movement(p, ls, r)
<1>1. \A r \in Rows : m(r) \in Entry /\ bal[r] \in Entry
  BY MovementType
<1> HIDE DEF m
<1>2. ASSUME NEW r \in Rows
      PROVE  /\ [debit |-> bal[r].debit + m(r).debit,
                 credit |-> bal[r].credit + m(r).credit,
                 count |-> bal[r].count + m(r).count] \in Entry
             /\ [debit |-> bal[r].debit - m(r).debit,
                 credit |-> bal[r].credit - m(r).credit,
                 count |-> IF bal[r].count > m(r).count
                           THEN bal[r].count - m(r).count ELSE 0] \in Entry
  BY <1>1 DEF Entry
<1>. QED
  BY <1>2 DEF Added, Removed, m

\* The rows a voucher touches are balance rows.
LEMMA TouchedType ==
    ASSUME NEW ls \in Seq(Line), NEW p \in Periods
    PROVE  Touched(p, ls) \subseteq Rows
<1>1. ASSUME NEW i \in DOMAIN ls PROVE <<p, ls[i].account, ls[i].object>> \in Rows
  BY LineNumbers DEF Line, Rows
<1>. QED
  BY <1>1 DEF Touched

\* A function on an initial segment of the naturals is a sequence.
LEMMA SegmentSeq ==
    ASSUME NEW S, NEW n \in Nat, NEW f \in [1..n -> S]
    PROVE  f \in Seq(S) /\ DOMAIN f = 1..n
BY SeqDef

\* Running balances are recomputed from finitely many lines.
LEMMA PostedLinesFinite ==
    ASSUME NEW st, NEW ls \in [Vouchers -> Seq(Line)]
    PROVE  /\ IsFiniteSet(PostedLines(st, ls))
           /\ \A x \in PostedLines(st, ls) :
                  x[1] \in Vouchers /\ x[2] \in DOMAIN ls[x[1]] /\ ls[x[1]][x[2]] \in Line
<1> DEFINE P == {w \in Vouchers : st[w] = "posted"}
           T == {{v} \X DOMAIN ls[v] : v \in P}
           f == [v \in P |-> {v} \X DOMAIN ls[v]]
<1>1. IsFiniteSet(P)
  BY FiniteConstants, FS_Subset
<1>2. f \in Surjection(P, T)
  BY DEF Surjection
<1>3. IsFiniteSet(T)
  BY <1>1, <1>2, FS_Surjection
<1>4. \A s \in T : IsFiniteSet(s)
  <2>1. TAKE s \in T
  <2>2. PICK v \in P : s = {v} \X DOMAIN ls[v]
    OBVIOUS
  <2>3. IsFiniteSet({v}) /\ IsFiniteSet(DOMAIN ls[v])
    BY FS_Singleton, LineNumbers
  <2>. QED
    BY <2>2, <2>3, FS_Product
<1>5. IsFiniteSet(UNION T)
  BY <1>3, <1>4, FS_UNION
<1>6. \A x \in UNION T : x[1] \in Vouchers /\ x[2] \in DOMAIN ls[x[1]]
  OBVIOUS
<1>7. \A x \in UNION T : ls[x[1]][x[2]] \in Line
  BY <1>6, LineNumbers
<1>. QED
  BY <1>5, <1>6, <1>7 DEF PostedLines

\* A running balance is a pair of integers.
LEMMA CumulativeType ==
    ASSUME NEW st, NEW hd, NEW ls \in [Vouchers -> Seq(Line)], NEW v, NEW i
    PROVE  Cumulative(st, hd, ls, v, i) \in Total
<1> DEFINE U == {x \in PostedLines(st, ls) :
                    /\ ls[x[1]][x[2]].account = ls[v][i].account
                    /\ Before(hd, x[1], x[2], v, i)}
           fd == [x \in U |-> ls[x[1]][x[2]].debit]
           fc == [x \in U |-> ls[x[1]][x[2]].credit]
<1>1. IsFiniteSet(U)
  BY PostedLinesFinite, FS_Subset
<1>2. \A x \in U : fd[x] \in Int /\ fc[x] \in Int
  BY PostedLinesFinite DEF Line
<1> HIDE DEF U
<1>3. Sum(fd, U) \in Int /\ Sum(fc, U) \in Int
  BY <1>1, <1>2, SumInt DEF Sum
<1>4. Cumulative(st, hd, ls, v, i) = [debit |-> Sum(fd, U), credit |-> Sum(fc, U)]
  BY DEF Cumulative, U
<1>. QED
  BY <1>3, <1>4 DEF Total

\* Running balances stay paired with the lines.
Paired(run, ls) ==
    /\ run \in [Vouchers -> Seq(Total)]
    /\ \A v \in Vouchers : DOMAIN run[v] = DOMAIN ls[v]

\* Recomputing keeps running balances well typed.
LEMMA RecomputedType ==
    ASSUME NEW run, NEW codes, NEW st, NEW hd, NEW ls \in [Vouchers -> Seq(Line)],
           Paired(run, ls)
    PROVE  Paired(Recomputed(run, codes, st, hd, ls), ls)
<1> DEFINE new == Recomputed(run, codes, st, hd, ls)
<1>1. ASSUME NEW v \in Vouchers PROVE new[v] \in Seq(Total) /\ DOMAIN new[v] = DOMAIN ls[v]
  <2>1. DOMAIN ls[v] = 1..Len(ls[v]) /\ Len(ls[v]) \in Nat
    BY LenProperties
  <2>2. \A i \in DOMAIN ls[v] : run[v][i] \in Total
    <3>1. run[v] \in Seq(Total) /\ DOMAIN run[v] = DOMAIN ls[v]
      BY DEF Paired
    <3>. QED
      BY <3>1, LenProperties, ElementOfSeq
  <2>3. new[v] = [i \in DOMAIN ls[v] |->
                     IF st[v] = "posted" /\ ls[v][i].account \in codes
                     THEN Cumulative(st, hd, ls, v, i) ELSE run[v][i]]
    BY DEF Recomputed
  <2>4. new[v] \in [DOMAIN ls[v] -> Total]
    BY <2>2, <2>3, CumulativeType
  <2> HIDE DEF new
  <2>. QED
    BY <2>1, <2>4, SegmentSeq
<1>2. new = [v \in Vouchers |-> new[v]]
  BY DEF Recomputed
<1> HIDE DEF new
<1>3. Paired(new, ls)
  BY <1>1, <1>2 DEF Paired
<1>. QED
  BY <1>3 DEF new

\* A finite set as a sequence: how the closing numbers its lines.
LEMMA SetToSeqType ==
    ASSUME NEW S, IsFiniteSet(S)
    PROVE  SetToSeq(S) \in Seq(S) /\ DOMAIN SetToSeq(S) = 1..Cardinality(S)
<1>1. Cardinality(S) \in Nat /\ ExistsBijection(1..Cardinality(S), S)
  BY FS_CardinalityType
<1>2. \E f \in [1..Cardinality(S) -> S] : IsInjective(f)
  BY <1>1 DEF ExistsBijection, Bijection, Injection, IsInjective
<1>3. SetToSeq(S) \in [1..Cardinality(S) -> S]
  BY <1>2 DEF SetToSeq
<1>. QED
  BY <1>1, <1>3, SegmentSeq

\* Line by line, a closing document is well typed.
LEMMA ClosingLinesType ==
    ASSUME NEW p \in Periods, rows \subseteq Rows, balance \in [Rows -> Entry]
    PROVE  ClosingLines(p) \in Seq(Line)
<1> DEFINE R == ClosedRevenue(p)
           E == ClosedExpense(p)
           revenue == SetToSeq(R)
           expense == SetToSeq(E)
           earned  == 0 - Sum([r \in R |-> Net(r)], R)
           spent   == Sum([r \in E |-> Net(r)], E)
           profit  == earned - spent
           s1 == [i \in DOMAIN revenue |-> DebitLine(revenue[i][2], 0 - Net(revenue[i]))]
           s2 == IF earned > 0 THEN <<CreditLine(ResultAccount, earned)>> ELSE << >>
           s3 == IF spent > 0 THEN <<DebitLine(ResultAccount, spent)>> ELSE << >>
           s4 == [i \in DOMAIN expense |-> CreditLine(expense[i][2], Net(expense[i]))]
           s5 == IF profit > 0 THEN <<DebitLine(ResultAccount, profit),
                                      CreditLine(ProfitAccount, profit)>> ELSE << >>
           s6 == IF profit < 0 THEN <<DebitLine(ProfitAccount, 0 - profit),
                                      CreditLine(ResultAccount, 0 - profit)>> ELSE << >>
<1>1. R \subseteq Rows /\ E \subseteq Rows /\ IsFiniteSet(R) /\ IsFiniteSet(E)
  BY FiniteConstants, FS_Subset DEF ClosedRevenue, ClosedExpense
<1>2. \A r \in Rows : Net(r) \in Int /\ r[2] \in Accounts
  BY DEF Net, Entry, Rows
<1>3. \A a \in Accounts, x \in Int : DebitLine(a, x) \in Line /\ CreditLine(a, x) \in Line
  BY ObjectAssumption DEF DebitLine, CreditLine, Line
<1>4. earned \in Int /\ spent \in Int /\ profit \in Int
  BY <1>1, <1>2, SumInt DEF Sum
<1>5. /\ revenue \in [1..Cardinality(R) -> R] /\ Cardinality(R) \in Nat
      /\ expense \in [1..Cardinality(E) -> E] /\ Cardinality(E) \in Nat
  BY <1>1, SetToSeqType, LenProperties, FS_CardinalityType
<1> HIDE DEF R, E, revenue, expense, earned, spent, profit
<1>6. s1 \in Seq(Line) /\ s4 \in Seq(Line)
  <2>1. s1 \in [1..Cardinality(R) -> Line] /\ s4 \in [1..Cardinality(E) -> Line]
    BY <1>1, <1>2, <1>3, <1>5
  <2>. QED
    BY <1>5, <2>1, SegmentSeq
<1>7. s2 \in Seq(Line) /\ s3 \in Seq(Line) /\ s5 \in Seq(Line) /\ s6 \in Seq(Line)
  BY <1>3, <1>4, AccountAssumption
<1>8. ClosingLines(p) = s1 \o s2 \o s3 \o s4 \o s5 \o s6
  BY DEF ClosingLines, R, E, revenue, expense, earned, spent, profit
<1> HIDE DEF s1, s2, s3, s4, s5, s6
<1>. QED
  BY <1>6, <1>7, <1>8, ConcatProperties

(***************************************************************************)
(* Type correctness.                                                       *)
(***************************************************************************)
LEMMA PairedType == TypeOK => Paired(running, lines)
BY DEF TypeOK, Paired

\* Posting and unposting keep the types; owed is for the handler to say.
LEMMA PostType ==
    ASSUME TypeOK, NEW v \in Vouchers, Post(v) \/ Unpost(v), owed' \in Tasks
    PROVE  TypeOK'
<1> DEFINE p == header[v].period
           cleared == [running EXCEPT ![v] = [i \in DOMAIN lines[v] |-> Zero]]
<1>1. p \in Periods /\ lines[v] \in Seq(Line)
  BY DEF TypeOK, Header
<1>2. Paired(cleared, lines)
  <2>1. DOMAIN lines[v] = 1..Len(lines[v]) /\ Len(lines[v]) \in Nat
    BY <1>1, LenProperties
  <2>2. [i \in DOMAIN lines[v] |-> Zero] \in [1..Len(lines[v]) -> Total]
    BY <2>1 DEF Zero, Total
  <2>3. /\ [i \in DOMAIN lines[v] |-> Zero] \in Seq(Total)
        /\ DOMAIN [i \in DOMAIN lines[v] |-> Zero] = DOMAIN lines[v]
    BY <2>1, <2>2, SegmentSeq
  <2>. QED
    BY <2>3 DEF TypeOK, Paired
<1>3. status' \in [Vouchers -> Statuses] /\ header' = header /\ lines' = lines /\ chart' = chart
  BY DEF Post, Unpost, TypeOK, Statuses
<1>4. rows' \subseteq Rows
  <2>1. Touched(p, lines[v]) \subseteq Rows
    BY <1>1, TouchedType
  <2>. QED
    BY <2>1 DEF Post, Unpost, TypeOK
<1>5. balance' \in [Rows -> Entry]
  <2>1. /\ Added(balance, p, lines[v]) \in [Rows -> Entry]
        /\ Removed(balance, p, lines[v]) \in [Rows -> Entry]
    BY <1>1, AddedType DEF TypeOK
  <2>. QED
    BY <2>1 DEF Post, Unpost
<1>6. Paired(running', lines)
  <2>1. lines \in [Vouchers -> Seq(Line)] /\ Paired(running, lines)
    BY DEF TypeOK, Paired
  <2>2. CASE Post(v)
    BY <2>1, <2>2, RecomputedType DEF Post
  <2>3. CASE Unpost(v)
    BY <1>2, <2>1, <2>3, RecomputedType DEF Unpost
  <2>. QED
    BY <2>2, <2>3
<1>7. unswept' \subseteq Accounts
  BY DEF Post, Unpost, TypeOK
<1>. QED
  BY <1>3, <1>4, <1>5, <1>6, <1>7 DEF TypeOK, Paired

\* Entering a voucher keeps the types.
LEMMA CreateType ==
    ASSUME TypeOK, NEW v \in Vouchers, NEW p \in Periods, NEW day \in Days,
           NEW doc \in Documents, NEW n \in 0..Len(doc), CreateVoucher(v, p, day, doc, n)
    PROVE  TypeOK'
<1>1. doc \in Seq(Line) /\ Len(doc) \in Nat
  BY DocumentAssumption, LenProperties
<1>2. SubSeq(doc, 1, n) \in Seq(Line) /\ DOMAIN SubSeq(doc, 1, n) = 1..n
  <2>1. Len(SubSeq(doc, 1, n)) = n /\ SubSeq(doc, 1, n) \in Seq(Line)
    BY <1>1, SubSeqProperties
  <2>. QED
    BY <2>1, LenProperties
<1>3. [i \in 1..n |-> Zero] \in Seq(Total) /\ DOMAIN [i \in 1..n |-> Zero] = 1..n
  <2>1. [i \in 1..n |-> Zero] \in [1..n -> Total] /\ n \in Nat
    BY <1>1 DEF Zero, Total
  <2>. QED
    BY <2>1, SegmentSeq
<1>4. Paired(running', lines')
  BY <1>2, <1>3 DEF CreateVoucher, TypeOK, Paired
<1>5. lines' \in [Vouchers -> Seq(Line)]
  BY <1>2 DEF CreateVoucher, TypeOK
<1>6. header' \in [Vouchers -> Header] /\ status' \in [Vouchers -> Statuses]
  BY DocumentAssumption DEF CreateVoucher, TypeOK, Header, Sources, Statuses
<1>7. owed' \in Tasks
  BY DEF CreateVoucher, Tasks
<1>8. rows' = rows /\ balance' = balance /\ chart' = chart /\ unswept' = unswept
  BY DEF CreateVoucher
<1>. QED
  BY <1>4, <1>5, <1>6, <1>7, <1>8 DEF TypeOK, Paired

\* Deleting a voucher keeps the types.
LEMMA EraseType ==
    ASSUME TypeOK, NEW v \in Vouchers, Erase(v), owed' \in Tasks
    PROVE  TypeOK'
<1>1. << >> \in Seq(Line) /\ << >> \in Seq(Total)
  BY EmptySeq
<1>2. NoHeader \in Header
  BY PeriodAssumption DEF NoHeader, Header, Sources
<1>4. lines' \in [Vouchers -> Seq(Line)] /\ Paired(running', lines')
  BY <1>1 DEF Erase, TypeOK, Paired
<1>5. header' \in [Vouchers -> Header] /\ status' \in [Vouchers -> Statuses]
  BY <1>2 DEF Erase, TypeOK, Statuses
<1>. QED
  BY <1>4, <1>5 DEF Erase, TypeOK, Paired

\* Closing a period keeps the types.
LEMMA CloseType ==
    ASSUME TypeOK, NEW v \in Vouchers, NEW p \in Periods, ClosePeriod(v, p)
    PROVE  TypeOK'
<1> DEFINE ls == ClosingLines(p)
           new == [running EXCEPT ![v] = [i \in DOMAIN ls |-> Zero]]
<1>1. ls \in Seq(Line)
  BY ClosingLinesType DEF TypeOK
<1>2. /\ lines' = [lines EXCEPT ![v] = ls] /\ rows' = rows \cup Touched(p, ls)
      /\ balance' = Added(balance, p, ls)
      /\ running' = Recomputed(new, Codes(ls), status', header', lines')
  BY DEF ClosePeriod
<1>3. /\ header' \in [Vouchers -> Header] /\ status' \in [Vouchers -> Statuses]
      /\ chart' = chart /\ owed' = owed /\ unswept' \subseteq Accounts
  BY DEF ClosePeriod, TypeOK, Header, Sources, Statuses, ClosingDay
<1> HIDE DEF ls
<1>4. lines' \in [Vouchers -> Seq(Line)]
  BY <1>1, <1>2 DEF TypeOK
<1>5. Paired(new, lines')
  <2>1. DOMAIN ls = 1..Len(ls) /\ Len(ls) \in Nat
    BY <1>1, LenProperties
  <2>2. [i \in DOMAIN ls |-> Zero] \in [1..Len(ls) -> Total]
    BY <2>1 DEF Zero, Total
  <2>3. /\ [i \in DOMAIN ls |-> Zero] \in Seq(Total)
        /\ DOMAIN [i \in DOMAIN ls |-> Zero] = DOMAIN ls
    BY <2>1, <2>2, SegmentSeq
  <2>. QED
    BY <1>2, <2>3 DEF TypeOK, Paired
<1>6. Paired(running', lines')
  BY <1>2, <1>4, <1>5, RecomputedType
<1>7. rows' \subseteq Rows /\ balance' \in [Rows -> Entry]
  BY <1>1, <1>2, TouchedType, AddedType DEF TypeOK
<1>. QED
  BY <1>3, <1>4, <1>6, <1>7 DEF TypeOK, Paired

\* Changing an account code keeps the types.
LEMMA RenameType ==
    ASSUME TypeOK, NEW a \in Accounts, NEW b \in Accounts, ChangeAccountCode(a, b)
    PROVE  TypeOK'
<1> DEFINE renamed(c) == IF c = a THEN b ELSE c
           line(v, i) == [lines[v][i] EXCEPT !.account = renamed(@)]
<1>1. lines' = [v \in Vouchers |-> [i \in DOMAIN lines[v] |-> line(v, i)]]
  BY DEF ChangeAccountCode
<1>2. ASSUME NEW v \in Vouchers
      PROVE  lines'[v] \in Seq(Line) /\ DOMAIN lines'[v] = DOMAIN lines[v]
  <2>1. DOMAIN lines[v] = 1..Len(lines[v]) /\ Len(lines[v]) \in Nat
    BY LenProperties DEF TypeOK
  <2>2. \A i \in DOMAIN lines[v] : line(v, i) \in Line
    <3>1. \A i \in DOMAIN lines[v] : lines[v][i] \in Line
      BY LineNumbers DEF TypeOK
    <3>. QED
      BY <3>1 DEF Line
  <2> HIDE DEF line
  <2>3. lines'[v] = [i \in DOMAIN lines[v] |-> line(v, i)]
    BY <1>1
  <2>4. lines'[v] \in [1..Len(lines[v]) -> Line]
    BY <2>1, <2>2, <2>3
  <2>. QED
    BY <2>1, <2>4, SegmentSeq
<1>3. lines' \in [Vouchers -> Seq(Line)] /\ Paired(running, lines')
  <2> HIDE DEF line
  <2>1. lines' = [v \in Vouchers |-> lines'[v]]
    BY <1>1
  <2>. QED
    BY <1>2, <2>1 DEF TypeOK, Paired
<1>4. rows' \subseteq Rows
  <2>1. rows' = {<<r[1], renamed(r[2]), r[3]>> : r \in rows}
    BY DEF ChangeAccountCode
  <2>. QED
    BY <2>1 DEF TypeOK, Rows
<1>5. balance' \in [Rows -> Entry]
  <2>1. \A r \in rows : balance[r] \in Entry
    BY DEF TypeOK
  <2>2. [debit |-> 0, credit |-> 0, count |-> 0] \in Entry
    BY DEF Entry
  <2>. QED
    BY <2>1, <2>2 DEF ChangeAccountCode, TypeOK
<1>6. /\ chart' \subseteq Accounts /\ owed' \in Tasks /\ running' = running
      /\ status' = status /\ header' = header /\ unswept' = unswept
  BY DEF ChangeAccountCode, TypeOK, Tasks
<1>. QED
  BY <1>3, <1>4, <1>5, <1>6 DEF TypeOK, Paired

\* The empty ledger is well typed.
LEMMA TypeCorrectInit == Init => TypeOK
<1> SUFFICES ASSUME Init PROVE TypeOK
  OBVIOUS
<1>1. << >> \in Seq(Line) /\ << >> \in Seq(Total)
  BY EmptySeq
<1>2. NoHeader \in Header
  BY PeriodAssumption DEF NoHeader, Header, Sources
<1>. QED
  BY <1>1, <1>2, AccountAssumption DEF Init, TypeOK, Statuses, Entry, Tasks

\* No handler, crash or stutter breaks the types.
LEMMA TypeCorrectStep == TypeOK /\ [Next]_vars => TypeOK'
<1> SUFFICES ASSUME TypeOK, [Next]_vars PROVE TypeOK'
  OBVIOUS
<1>0. None \in Tasks /\ \A v \in Vouchers : Drop(v) \in Tasks
  BY DEF Tasks
<1>1. ASSUME NEW v \in Vouchers, NEW p \in Periods, NEW day \in Days, NEW doc \in Documents,
             NEW n \in 0..Len(doc), CreateVoucher(v, p, day, doc, n)
      PROVE  TypeOK'
  BY <1>1, CreateType
<1>2. ASSUME NEW v \in Vouchers, FinishEntry(v) PROVE TypeOK'
  <2>1. CASE Post(v)
    BY <1>0, <1>2, <2>1, PostType DEF FinishEntry
  <2>2. CASE ~Post(v)
    BY <1>0, <1>2, <2>2 DEF FinishEntry, TypeOK
  <2>. QED
    BY <2>1, <2>2
<1>3. ASSUME NEW v \in Vouchers, PostVoucher(v) PROVE TypeOK'
  BY <1>3, PostType DEF PostVoucher, TypeOK
<1>4. ASSUME NEW v \in Vouchers, RemoveVoucher(v) PROVE TypeOK'
  BY <1>0, <1>4, PostType, EraseType DEF RemoveVoucher, TypeOK
<1>5. ASSUME NEW v \in Vouchers, DeleteVoucher(v) PROVE TypeOK'
  BY <1>4, <1>5 DEF DeleteVoucher
<1>6. ASSUME NEW p \in Periods, ReopenPeriod(p) PROVE TypeOK'
  BY <1>4, <1>6 DEF ReopenPeriod, ClosingOf, InUse
<1>7. ASSUME NEW v \in Vouchers, FinishRemoval(v) PROVE TypeOK'
  BY <1>0, <1>7, EraseType DEF FinishRemoval
<1>8. ASSUME NEW v \in Vouchers, NEW p \in Periods, ClosePeriod(v, p) PROVE TypeOK'
  BY <1>8, CloseType
<1>9. ASSUME NEW ab \in Renames, ChangeAccountCode(ab[1], ab[2]) PROVE TypeOK'
  <2>1. ab[1] \in Accounts /\ ab[2] \in Accounts
    BY RenameAssumption
  <2>. QED
    BY <1>9, <2>1, RenameType
<1>10. ASSUME NEW a \in Accounts, FinishRename(a) PROVE TypeOK'
  <2>1. lines \in [Vouchers -> Seq(Line)] /\ Paired(running, lines)
    BY DEF TypeOK, Paired
  <2>2. Paired(running', lines)
    BY <1>10, <2>1, RecomputedType DEF FinishRename
  <2>. QED
    BY <1>0, <1>10, <2>2 DEF FinishRename, TypeOK, Paired
<1>11. ASSUME Crash PROVE TypeOK'
  BY <1>0, <1>11 DEF Crash, TypeOK
<1>12. CASE UNCHANGED vars
  BY <1>12 DEF vars, TypeOK
<1>. QED
  BY <1>1, <1>2, <1>3, <1>5, <1>6, <1>7, <1>8, <1>9, <1>10, <1>11, <1>12 DEF Next

\* Every variable keeps its type, for all values of the constants.
THEOREM TypeCorrect == Spec => []TypeOK
BY TypeCorrectInit, TypeCorrectStep, PTL DEF Spec

(***************************************************************************)
(* The balance rows are the projection of the posted vouchers.             *)
(***************************************************************************)

\* What voucher v puts on row r, and what the vouchers of S put there.
On(hd, ls, v, r) == Movement(hd[v].period, ls[v], r)

Project(S, hd, ls, r) ==
    [debit  |-> Sum([v \in S |-> On(hd, ls, v, r).debit], S),
     credit |-> Sum([v \in S |-> On(hd, ls, v, r).credit], S),
     count  |-> Sum([v \in S |-> On(hd, ls, v, r).count], S)]

\* Projected is Project over the posted vouchers.
LEMMA ProjectedIsProject == \A r : Projected(r) = Project(Posted, header, lines, r)
BY DEF Projected, Project, On

\* What a set of vouchers adds to a row is an entry.
LEMMA ProjectType ==
    ASSUME NEW S, IsFiniteSet(S), NEW hd, NEW ls, NEW r, \A v \in S : On(hd, ls, v, r) \in Entry
    PROVE  Project(S, hd, ls, r) \in Entry
<1> DEFINE fd == [v \in S |-> On(hd, ls, v, r).debit]
           fc == [v \in S |-> On(hd, ls, v, r).credit]
           fn == [v \in S |-> On(hd, ls, v, r).count]
<1>1. \A v \in S : fd[v] \in Int /\ fc[v] \in Int /\ fn[v] \in Nat
  BY DEF Entry
<1> HIDE DEF fd, fc, fn
<1>2. Sum(fd, S) \in Int /\ Sum(fc, S) \in Int /\ Sum(fn, S) \in Nat
  BY <1>1, SumInt, SumNat DEF Sum
<1>. QED
  BY <1>2 DEF Project, Entry, fd, fc, fn

\* Only the headers and lines of the vouchers summed matter.
LEMMA ProjectCongruence ==
    ASSUME NEW S, IsFiniteSet(S), NEW hd, NEW ls, NEW r, NEW hd2, NEW ls2, NEW r2,
           \A v \in S : On(hd, ls, v, r) = On(hd2, ls2, v, r2)
    PROVE  Project(S, hd, ls, r) = Project(S, hd2, ls2, r2)
<1>1. /\ [v \in S |-> On(hd, ls, v, r).debit] = [v \in S |-> On(hd2, ls2, v, r2).debit]
      /\ [v \in S |-> On(hd, ls, v, r).credit] = [v \in S |-> On(hd2, ls2, v, r2).credit]
      /\ [v \in S |-> On(hd, ls, v, r).count] = [v \in S |-> On(hd2, ls2, v, r2).count]
  OBVIOUS
<1>. QED
  BY <1>1 DEF Project

\* Vouchers that add nothing each add nothing together.
LEMMA ProjectNothing ==
    ASSUME NEW S, IsFiniteSet(S), NEW hd, NEW ls, NEW r,
           \A v \in S : On(hd, ls, v, r) = [debit |-> 0, credit |-> 0, count |-> 0]
    PROVE  Project(S, hd, ls, r) = [debit |-> 0, credit |-> 0, count |-> 0]
<1> DEFINE fd == [v \in S |-> On(hd, ls, v, r).debit]
           fc == [v \in S |-> On(hd, ls, v, r).credit]
           fn == [v \in S |-> On(hd, ls, v, r).count]
<1>1. \A v \in S : fd[v] = 0 /\ fc[v] = 0 /\ fn[v] = 0
  OBVIOUS
<1> HIDE DEF fd, fc, fn
<1>2. Sum(fd, S) = 0 /\ Sum(fc, S) = 0 /\ Sum(fn, S) = 0
  BY <1>1, SumZero DEF Sum
<1>. QED
  BY <1>2 DEF Project, fd, fc, fn

\* One more posted voucher adds what it puts on the row.
LEMMA ProjectAdd ==
    ASSUME NEW S, IsFiniteSet(S), NEW v, v \notin S, NEW hd, NEW ls, NEW r,
           \A w \in S \cup {v} : On(hd, ls, w, r) \in Entry
    PROVE  LET old == Project(S, hd, ls, r)
               m   == On(hd, ls, v, r)
           IN  /\ old \in Entry
               /\ Project(S \cup {v}, hd, ls, r) = [debit  |-> old.debit + m.debit,
                                                   credit |-> old.credit + m.credit,
                                                   count  |-> old.count + m.count]
<1> DEFINE T == S \cup {v}
           fd(X) == [w \in X |-> On(hd, ls, w, r).debit]
           fc(X) == [w \in X |-> On(hd, ls, w, r).credit]
           fn(X) == [w \in X |-> On(hd, ls, w, r).count]
<1>1. \A w \in T : fd(T)[w] \in Int /\ fc(T)[w] \in Int /\ fn(T)[w] \in Int
  BY DEF Entry
<1>2. \A w \in S : fd(T)[w] = fd(S)[w] /\ fc(T)[w] = fc(S)[w] /\ fn(T)[w] = fn(S)[w]
  OBVIOUS
<1>3. /\ fd(T)[v] = On(hd, ls, v, r).debit
      /\ fc(T)[v] = On(hd, ls, v, r).credit
      /\ fn(T)[v] = On(hd, ls, v, r).count
  OBVIOUS
<1>4. /\ Project(S, hd, ls, r) = [debit |-> Sum(fd(S), S), credit |-> Sum(fc(S), S),
                                  count |-> Sum(fn(S), S)]
      /\ Project(T, hd, ls, r) = [debit |-> Sum(fd(T), T), credit |-> Sum(fc(T), T),
                                  count |-> Sum(fn(T), T)]
  BY DEF Project
<1> HIDE DEF fd, fc, fn
<1>5. /\ Sum(fd(T), T) = fd(T)[v] + Sum(fd(T), S)
      /\ Sum(fc(T), T) = fc(T)[v] + Sum(fc(T), S)
      /\ Sum(fn(T), T) = fn(T)[v] + Sum(fn(T), S)
  BY <1>1, SumAdd DEF Sum
<1>6. /\ Sum(fd(T), S) = Sum(fd(S), S) /\ Sum(fc(T), S) = Sum(fc(S), S)
      /\ Sum(fn(T), S) = Sum(fn(S), S)
  BY <1>2, SumCongruence DEF Sum
<1>7. Project(S, hd, ls, r) \in Entry
  BY ProjectType
<1>8. /\ Sum(fd(S), S) \in Int /\ Sum(fc(S), S) \in Int /\ Sum(fn(S), S) \in Int
      /\ fd(T)[v] \in Int /\ fc(T)[v] \in Int /\ fn(T)[v] \in Int
  BY <1>1, <1>4, <1>7 DEF Entry
<1>9. /\ Sum(fd(T), T) = Sum(fd(S), S) + On(hd, ls, v, r).debit
      /\ Sum(fc(T), T) = Sum(fc(S), S) + On(hd, ls, v, r).credit
      /\ Sum(fn(T), T) = Sum(fn(S), S) + On(hd, ls, v, r).count
  BY <1>3, <1>5, <1>6, <1>8
<1>. QED
  BY <1>4, <1>7, <1>9

\* The voucher a handler has still to delete has been unposted.
DropIsDraft == \A v \in Vouchers : owed = Drop(v) => status[v] = "draft"

\* The inductive invariant: a rename merges the rows of two codes only when
\* one of them has no row, and then no posted line, hence PostedRowsExist;
\* deleting takes no amount off a row, hence DropIsDraft.
ProjectionInv == TypeOK /\ PostedRowsExist /\ BalanceIsProjection /\ DropIsDraft

\* BalanceIsProjection in terms of Project.
LEMMA ProjectionForms ==
    /\ BalanceIsProjection <=> \A r \in Rows : balance[r] = Project(Posted, header, lines, r)
    /\ BalanceIsProjection' <=>
           \A r \in Rows : balance'[r] = Project(Posted', header', lines', r)
BY DEF BalanceIsProjection, Projected, Project, On

\* What one voucher adds to a row is an entry.
LEMMA OnType ==
    ASSUME TypeOK, NEW v \in Vouchers, NEW r
    PROVE  On(header, lines, v, r) \in Entry
BY MovementType DEF TypeOK, On

\* Finitely many vouchers are posted.
LEMMA PostedFinite == Posted \subseteq Vouchers /\ IsFiniteSet(Posted)
BY FiniteConstants, FS_Subset DEF Posted

\* A step by which v becomes posted and adds its lines.
LEMMA Gain ==
    ASSUME TypeOK, BalanceIsProjection, NEW v \in Vouchers, v \notin Posted,
           Posted' = Posted \cup {v}, TypeOK',
           \A w \in Posted : header'[w] = header[w] /\ lines'[w] = lines[w],
           balance' = Added(balance, header'[v].period, lines'[v])
    PROVE  BalanceIsProjection'
<1> SUFFICES ASSUME NEW r \in Rows PROVE balance'[r] = Project(Posted', header', lines', r)
  BY ProjectionForms
<1>1. \A w \in Posted' : On(header', lines', w, r) \in Entry
  <2>1. Posted' \subseteq Vouchers
    BY PostedFinite
  <2>2. \A w \in Vouchers : lines'[w] \in Seq(Line)
    BY DEF TypeOK
  <2>. QED
    BY <2>1, <2>2, MovementType DEF On
<1>2. Project(Posted, header, lines, r) = Project(Posted, header', lines', r)
  <2>1. \A w \in Posted : On(header, lines, w, r) = On(header', lines', w, r)
    BY DEF On
  <2>. QED
    BY <2>1, PostedFinite, ProjectCongruence
<1>3. balance[r] = Project(Posted, header', lines', r)
  BY <1>2, ProjectionForms
<1> DEFINE m == On(header', lines', v, r)
<1>4. Project(Posted', header', lines', r) = [debit  |-> balance[r].debit + m.debit,
                                              credit |-> balance[r].credit + m.credit,
                                              count  |-> balance[r].count + m.count]
  BY <1>1, <1>3, PostedFinite, ProjectAdd
<1>5. balance'[r] = [debit  |-> balance[r].debit + m.debit,
                     credit |-> balance[r].credit + m.credit,
                     count  |-> balance[r].count + m.count]
  BY DEF Added, On
<1>. QED
  BY <1>4, <1>5

\* A step by which v stops being posted and takes its lines off again: the
\* floor under transaction_count is never reached.
LEMMA Loss ==
    ASSUME TypeOK, BalanceIsProjection, NEW v \in Posted, Posted' = Posted \ {v},
           header' = header, lines' = lines,
           balance' = Removed(balance, header[v].period, lines[v])
    PROVE  BalanceIsProjection'
<1> SUFFICES ASSUME NEW r \in Rows PROVE balance'[r] = Project(Posted', header, lines, r)
  BY ProjectionForms
<1> DEFINE S == Posted \ {v}
           m == On(header, lines, v, r)
           old == Project(S, header, lines, r)
<1>1. \A w \in Posted : On(header, lines, w, r) \in Entry
  BY PostedFinite, OnType
<1>2. IsFiniteSet(S) /\ S \cup {v} = Posted /\ v \notin S
  BY PostedFinite, FS_Subset
<1>3. /\ old \in Entry
      /\ Project(Posted, header, lines, r) = [debit  |-> old.debit + m.debit,
                                               credit |-> old.credit + m.credit,
                                               count  |-> old.count + m.count]
  <2> HIDE DEF S
  <2>1. \A w \in S \cup {v} : On(header, lines, w, r) \in Entry
    BY <1>1, <1>2
  <2>2. Project(S \cup {v}, header, lines, r) = [debit  |-> old.debit + m.debit,
                                                credit |-> old.credit + m.credit,
                                                count  |-> old.count + m.count]
    BY <1>2, <2>1, ProjectAdd
  <2>3. old \in Entry
    BY <1>2, <2>1, ProjectAdd
  <2>. QED
    BY <1>2, <2>2, <2>3
<1>4. balance[r] = [debit  |-> old.debit + m.debit,
                    credit |-> old.credit + m.credit,
                    count  |-> old.count + m.count]
  BY <1>3, ProjectionForms
<1>5. balance'[r] = [debit  |-> balance[r].debit - m.debit,
                     credit |-> balance[r].credit - m.credit,
                     count  |-> IF balance[r].count > m.count
                                THEN balance[r].count - m.count ELSE 0]
  BY DEF Removed, On
<1>6. m \in Entry
  BY <1>1
<1> HIDE DEF m, old
<1>7. /\ old.debit \in Int /\ old.credit \in Int /\ old.count \in Nat
      /\ m.debit \in Int /\ m.credit \in Int /\ m.count \in Nat
      /\ old = [debit |-> old.debit, credit |-> old.credit, count |-> old.count]
  BY <1>3, <1>6 DEF Entry
<1>8. balance'[r] = [debit |-> old.debit, credit |-> old.credit, count |-> old.count]
  BY <1>4, <1>5, <1>7
<1>9. balance'[r] = old
  BY <1>7, <1>8
<1>. QED
  BY <1>9 DEF old

\* A step that changes neither the posted vouchers nor the balances.
LEMMA Keep ==
    ASSUME TypeOK, BalanceIsProjection, Posted' = Posted, balance' = balance,
           \A w \in Posted : header'[w] = header[w] /\ lines'[w] = lines[w]
    PROVE  BalanceIsProjection'
<1> SUFFICES ASSUME NEW r \in Rows PROVE balance[r] = Project(Posted, header', lines', r)
  BY ProjectionForms
<1>1. \A w \in Posted : On(header, lines, w, r) = On(header', lines', w, r)
  BY DEF On
<1>2. Project(Posted, header, lines, r) = Project(Posted, header', lines', r)
  BY <1>1, PostedFinite, ProjectCongruence
<1>. QED
  BY <1>2, ProjectionForms

\* Posting keeps the projection.
LEMMA PostProjects ==
    ASSUME TypeOK, PostedRowsExist, BalanceIsProjection, TypeOK', NEW v \in Vouchers, Post(v)
    PROVE  PostedRowsExist' /\ BalanceIsProjection'
<1>1. Posted' = Posted \cup {v} /\ v \notin Posted
  BY DEF Post, Postable, Posted, TypeOK
<1>2. /\ header' = header /\ lines' = lines
      /\ rows' = rows \cup Touched(header[v].period, lines[v])
      /\ balance' = Added(balance, header[v].period, lines[v])
  BY DEF Post
<1>3. BalanceIsProjection'
  BY <1>1, <1>2, Gain
<1>4. PostedRowsExist'
  BY <1>1, <1>2 DEF PostedRowsExist
<1>. QED
  BY <1>3, <1>4

\* Unposting keeps the projection.
LEMMA UnpostProjects ==
    ASSUME TypeOK, PostedRowsExist, BalanceIsProjection, NEW v \in Vouchers, Unpost(v)
    PROVE  PostedRowsExist' /\ BalanceIsProjection'
<1>1. Posted' = Posted \ {v} /\ v \in Posted
  BY DEF Unpost, Posted, TypeOK
<1>2. /\ header' = header /\ lines' = lines
      /\ rows' = rows \cup Touched(header[v].period, lines[v])
      /\ balance' = Removed(balance, header[v].period, lines[v])
  BY DEF Unpost
<1>3. BalanceIsProjection'
  BY <1>1, <1>2, Loss
<1>4. PostedRowsExist'
  BY <1>1, <1>2 DEF PostedRowsExist
<1>. QED
  BY <1>3, <1>4

\* Deleting a draft keeps the projection.
LEMMA EraseProjects ==
    ASSUME TypeOK, PostedRowsExist, BalanceIsProjection, NEW v \in Vouchers, Erase(v),
           status[v] = "draft"
    PROVE  PostedRowsExist' /\ BalanceIsProjection'
<1>1. Posted' = Posted /\ v \notin Posted
  BY DEF Erase, Posted, TypeOK
<1>2. /\ \A w \in Posted : header'[w] = header[w] /\ lines'[w] = lines[w]
      /\ rows' = rows /\ balance' = balance
  BY <1>1 DEF Erase, TypeOK, Posted
<1>. QED
  BY <1>1, <1>2, Keep DEF PostedRowsExist

\* Line by line, a rename moves what the old code had to the new code.
LEMMA RenamedHits ==
    ASSUME TypeOK, NEW a \in Accounts, NEW b \in Accounts, ChangeAccountCode(a, b),
           NEW v \in Vouchers, NEW p \in Periods, NEW o \in Objects
    PROVE  /\ Debits(lines'[v]) = Debits(lines[v]) /\ Credits(lines'[v]) = Credits(lines[v])
           /\ Hits(p, lines'[v], <<p, a, o>>) = {}
           /\ Hits(p, lines'[v], <<p, b, o>>) =
                  Hits(p, lines[v], <<p, a, o>>) \cup Hits(p, lines[v], <<p, b, o>>)
           /\ \A c \in Accounts \ {a, b} :
                  Hits(p, lines'[v], <<p, c, o>>) = Hits(p, lines[v], <<p, c, o>>)
<1>1. a # b
  BY DEF ChangeAccountCode
<1>2. lines'[v] = [i \in DOMAIN lines[v] |->
                     [lines[v][i] EXCEPT !.account = IF @ = a THEN b ELSE @]]
  BY DEF ChangeAccountCode
<1>3. \A i \in DOMAIN lines[v] : lines[v][i] \in Line
  BY LineNumbers DEF TypeOK
<1>4. DOMAIN lines'[v] = DOMAIN lines[v]
  BY <1>2
<1>5. ASSUME NEW i \in DOMAIN lines[v]
      PROVE  /\ lines'[v][i].account = IF lines[v][i].account = a THEN b ELSE lines[v][i].account
             /\ lines'[v][i].object = lines[v][i].object
             /\ lines'[v][i].debit = lines[v][i].debit
             /\ lines'[v][i].credit = lines[v][i].credit
  BY <1>2, <1>3 DEF Line
<1>. QED
  BY <1>1, <1>4, <1>5 DEF Debits, Credits, Hits

\* No posted line is on a row that does not exist.
LEMMA NoRowNoHits ==
    ASSUME PostedRowsExist, NEW v \in Posted, NEW r, r \notin rows
    PROVE  Hits(header[v].period, lines[v], r) = {}
BY DEF PostedRowsExist, Touched, Hits

\* Changing an account code keeps the projection.
LEMMA RenameProjects ==
    ASSUME TypeOK, PostedRowsExist, BalanceIsProjection,
           NEW a \in Accounts, NEW b \in Accounts, ChangeAccountCode(a, b)
    PROVE  BalanceIsProjection'
<1> SUFFICES ASSUME NEW r \in Rows PROVE balance'[r] = Project(Posted', header', lines', r)
  BY ProjectionForms
<1>1. a # b /\ Posted' = Posted /\ header' = header
  BY DEF ChangeAccountCode, Posted
<1>2. PICK p \in Periods, c \in Accounts, o \in Objects : r = <<p, c, o>>
  BY DEF Rows
<1> DEFINE ra == <<p, a, o>>
           rb == <<p, b, o>>
<1>3. ra \in Rows /\ ~(ra \in rows /\ rb \in rows)
  BY DEF ChangeAccountCode, Rows
<1>4. \A v \in Posted : v \in Vouchers /\ header[v].period \in Periods
  BY DEF TypeOK, Posted, Header
\* Lines of another period are on no row of p.
<1>5. ASSUME NEW v \in Posted, header[v].period # p, NEW x \in Accounts, NEW ls
      PROVE  Hits(header[v].period, ls, <<p, x, o>>) = {}
  BY <1>5 DEF Hits
<1>6. ASSUME NEW v \in Posted, NEW x \in {ra, r},
             Hits(header[v].period, lines'[v], r) = Hits(header[v].period, lines[v], x)
      PROVE  On(header, lines', v, r) = On(header, lines, v, x)
  <2>1. Debits(lines'[v]) = Debits(lines[v]) /\ Credits(lines'[v]) = Credits(lines[v])
    BY <1>2, <1>4, RenamedHits
  <2>. QED
    BY <1>6, <2>1 DEF On, Movement
\* Lines of period p are on the rows the rename leads to.
<1>7. ASSUME NEW v \in Posted
      PROVE  /\ c \notin {a, b} => Hits(p, lines'[v], r) = Hits(p, lines[v], r)
             /\ header[v].period = p /\ rb \notin rows =>
                     Hits(p, lines'[v], rb) = Hits(p, lines[v], ra)
             /\ header[v].period = p /\ ra \notin rows =>
                     Hits(p, lines'[v], rb) = Hits(p, lines[v], rb)
  <2>1. /\ Hits(p, lines'[v], rb) = Hits(p, lines[v], ra) \cup Hits(p, lines[v], rb)
        /\ c \notin {a, b} => Hits(p, lines'[v], r) = Hits(p, lines[v], r)
    BY <1>2, <1>4, RenamedHits
  <2>2. /\ header[v].period = p /\ rb \notin rows => Hits(p, lines[v], rb) = {}
        /\ header[v].period = p /\ ra \notin rows => Hits(p, lines[v], ra) = {}
    BY NoRowNoHits
  <2>. QED
    BY <2>1, <2>2
<1>8. CASE c \notin {a, b}
  <2>1. ASSUME NEW v \in Posted
        PROVE  Hits(header[v].period, lines'[v], r) = Hits(header[v].period, lines[v], r)
    <3>1. CASE header[v].period = p
      BY <1>8, <1>7, <3>1
    <3>2. CASE header[v].period # p
      BY <1>2, <1>5, <3>2
    <3>. QED
      BY <3>1, <3>2
  <2>2. Project(Posted, header, lines, r) = Project(Posted, header, lines', r)
    BY <1>6, <2>1, PostedFinite, ProjectCongruence
  <2>3. balance'[r] = balance[r]
    BY <1>2, <1>8 DEF ChangeAccountCode
  <2>. QED
    BY <1>1, <2>2, <2>3, ProjectionForms
<1>9. CASE c = a
  <2>1. \A v \in Posted : Hits(header[v].period, lines'[v], r) = {}
    BY <1>2, <1>4, <1>5, <1>9, RenamedHits
  <2>2. \A v \in Posted : On(header, lines', v, r) = [debit |-> 0, credit |-> 0, count |-> 0]
    BY <2>1, SumEmpty, FS_EmptySet DEF On, Movement, Sum
  <2>3. Project(Posted, header, lines', r) = [debit |-> 0, credit |-> 0, count |-> 0]
    BY <2>2, PostedFinite, ProjectNothing
  <2>4. balance'[r] = [debit |-> 0, credit |-> 0, count |-> 0]
    BY <1>1, <1>2, <1>9 DEF ChangeAccountCode
  <2>. QED
    BY <1>1, <2>3, <2>4
<1>10. CASE c = b /\ ra \in rows
  <2>1. rb \notin rows /\ r = rb
    BY <1>2, <1>3, <1>10
  <2>2. ASSUME NEW v \in Posted
        PROVE  Hits(header[v].period, lines'[v], r) = Hits(header[v].period, lines[v], ra)
    <3>1. CASE header[v].period = p
      BY <1>7, <2>1, <3>1
    <3>2. CASE header[v].period # p
      BY <1>2, <1>5, <3>2
    <3>. QED
      BY <3>1, <3>2
  <2>3. Project(Posted, header, lines, ra) = Project(Posted, header, lines', r)
    BY <1>6, <2>2, PostedFinite, ProjectCongruence
  <2>4. balance'[r] = balance[ra]
    BY <1>2, <1>10 DEF ChangeAccountCode
  <2>. QED
    BY <1>1, <1>3, <2>3, <2>4, ProjectionForms
<1>11. CASE c = b /\ ra \notin rows
  <2>1. ASSUME NEW v \in Posted
        PROVE  Hits(header[v].period, lines'[v], r) = Hits(header[v].period, lines[v], r)
    <3>1. CASE header[v].period = p
      BY <1>2, <1>11, <1>7, <3>1
    <3>2. CASE header[v].period # p
      BY <1>2, <1>5, <3>2
    <3>. QED
      BY <3>1, <3>2
  <2>2. Project(Posted, header, lines, r) = Project(Posted, header, lines', r)
    BY <1>6, <2>1, PostedFinite, ProjectCongruence
  <2>3. balance'[r] = balance[r]
    BY <1>1, <1>2, <1>11 DEF ChangeAccountCode
  <2>. QED
    BY <1>1, <2>2, <2>3, ProjectionForms
<1>. QED
  BY <1>8, <1>9, <1>10, <1>11

\* After a rename posted lines are still on existing rows.
LEMMA RenameKeepsRows ==
    ASSUME TypeOK, PostedRowsExist,
           NEW a \in Accounts, NEW b \in Accounts, ChangeAccountCode(a, b)
    PROVE  PostedRowsExist'
<1> SUFFICES ASSUME NEW v \in Posted, NEW i \in DOMAIN lines'[v]
             PROVE  <<header[v].period, lines'[v][i].account, lines'[v][i].object>> \in rows'
  BY DEF PostedRowsExist, Touched, ChangeAccountCode, Posted
<1> DEFINE line == lines[v][i]
<1>1. v \in Vouchers
  BY DEF Posted
<1>2. i \in DOMAIN lines[v] /\ line \in Line
  BY <1>1, LineNumbers DEF ChangeAccountCode, TypeOK
<1>3. lines'[v][i] = [line EXCEPT !.account = IF @ = a THEN b ELSE @]
  BY <1>1, <1>2 DEF ChangeAccountCode
<1>4. <<header[v].period, line.account, line.object>> \in rows
  BY <1>2 DEF PostedRowsExist, Touched
<1>5. rows' = {<<r[1], IF r[2] = a THEN b ELSE r[2], r[3]>> : r \in rows}
  BY DEF ChangeAccountCode
<1>. QED
  BY <1>2, <1>3, <1>4, <1>5 DEF Line

\* The inductive invariant of the balances.
LEMMA ProjectionAlways == Spec => []ProjectionInv
<1>1. Init => ProjectionInv
  <2> SUFFICES ASSUME Init PROVE PostedRowsExist /\ BalanceIsProjection /\ DropIsDraft
    BY TypeCorrectInit DEF ProjectionInv
  <2>1. Posted = {}
    BY DEF Init, Posted
  <2>2. PostedRowsExist
    BY <2>1 DEF PostedRowsExist
  <2>3. DropIsDraft
    BY DEF Init, DropIsDraft, None, Drop
  <2>4. BalanceIsProjection
    <3> SUFFICES ASSUME NEW r \in Rows PROVE balance[r] = Project({}, header, lines, r)
      BY <2>1, ProjectionForms
    <3>1. Project({}, header, lines, r) = [debit |-> 0, credit |-> 0, count |-> 0]
      BY FS_EmptySet, ProjectNothing
    <3>. QED
      BY <3>1 DEF Init
  <2>. QED
    BY <2>2, <2>3, <2>4
<1>2. ProjectionInv /\ [Next]_vars => ProjectionInv'
  <2> SUFFICES ASSUME ProjectionInv, [Next]_vars
               PROVE  PostedRowsExist' /\ BalanceIsProjection' /\ DropIsDraft'
    BY TypeCorrectStep DEF ProjectionInv
  <2> USE DEF ProjectionInv
  <2>0. /\ TypeOK'
        /\ \A v, w \in Vouchers : Drop(v) = Drop(w) => v = w
        /\ \A v, w \in Vouchers : Drop(v) # None /\ Drop(v) # Finish(w)
        /\ \A v \in Vouchers, a \in Accounts : Drop(v) # Sweep(a)
    <3>1. \A v, w \in Vouchers : Drop(v).voucher = v /\ Drop(v).task = "delete"
                               /\ None.task = "none" /\ Finish(w).task = "post"
      BY DEF Drop, None, Finish
    <3>2. \A a \in Accounts : Sweep(a).task = "recompute"
      BY DEF Sweep
    <3>. QED
      BY <3>1, <3>2, TypeCorrectStep
  <2>1. ASSUME NEW v \in Vouchers, NEW p \in Periods, NEW day \in Days, NEW doc \in Documents,
               NEW n \in 0..Len(doc), CreateVoucher(v, p, day, doc, n)
        PROVE  PostedRowsExist' /\ BalanceIsProjection' /\ DropIsDraft'
    <3>1. Posted' = Posted /\ v \notin Posted
      BY <2>1 DEF CreateVoucher, IsNextId, Posted, TypeOK
    <3>2. /\ \A w \in Posted : header'[w] = header[w] /\ lines'[w] = lines[w]
          /\ rows' = rows /\ balance' = balance
      BY <2>1, <3>1 DEF CreateVoucher, TypeOK, Posted
    <3>3. DropIsDraft'
      BY <2>0, <2>1 DEF CreateVoucher, DropIsDraft
    <3>. QED
      BY <3>1, <3>2, <3>3, Keep DEF PostedRowsExist
  <2>2. ASSUME NEW v \in Vouchers, FinishEntry(v)
        PROVE  PostedRowsExist' /\ BalanceIsProjection' /\ DropIsDraft'
    <3>1. DropIsDraft'
      BY <2>0, <2>2 DEF FinishEntry, DropIsDraft
    <3>2. CASE Post(v)
      BY <2>0, <3>1, <3>2, PostProjects
    <3>3. CASE ~Post(v)
      BY <2>2, <3>1, <3>3, Keep DEF FinishEntry, PostedRowsExist, Posted
    <3>. QED
      BY <3>2, <3>3
  <2>3. ASSUME NEW v \in Vouchers, PostVoucher(v)
        PROVE  PostedRowsExist' /\ BalanceIsProjection' /\ DropIsDraft'
    <3>1. DropIsDraft'
      BY <2>0, <2>3 DEF PostVoucher, Idle, DropIsDraft
    <3>. QED
      BY <2>0, <2>3, <3>1, PostProjects DEF PostVoucher
  <2>4. ASSUME NEW v \in Vouchers, Idle, RemoveVoucher(v)
        PROVE  PostedRowsExist' /\ BalanceIsProjection' /\ DropIsDraft'
    <3>1. CASE Unpost(v) /\ owed' = Drop(v)
      <4>1. DropIsDraft'
        BY <2>0, <3>1 DEF Unpost, DropIsDraft, TypeOK
      <4>. QED
        BY <3>1, <4>1, UnpostProjects
    <3>2. CASE status[v] = "draft" /\ Erase(v) /\ UNCHANGED owed
      <4>1. DropIsDraft'
        BY <2>0, <2>4, <3>2 DEF Idle, DropIsDraft
      <4>. QED
        BY <3>2, <4>1, EraseProjects
    <3>. QED
      BY <2>4, <3>1, <3>2 DEF RemoveVoucher
  <2>5. ASSUME NEW v \in Vouchers, FinishRemoval(v)
        PROVE  PostedRowsExist' /\ BalanceIsProjection' /\ DropIsDraft'
    <3>1. status[v] = "draft"
      BY <2>5 DEF FinishRemoval, DropIsDraft
    <3>2. DropIsDraft'
      BY <2>0, <2>5 DEF FinishRemoval, DropIsDraft
    <3>. QED
      BY <2>5, <3>1, <3>2, EraseProjects DEF FinishRemoval
  <2>6. ASSUME NEW v \in Vouchers, NEW p \in Periods, ClosePeriod(v, p)
        PROVE  PostedRowsExist' /\ BalanceIsProjection' /\ DropIsDraft'
    <3>1. Posted' = Posted \cup {v} /\ v \notin Posted
      BY <2>6 DEF ClosePeriod, IsNextId, Posted, TypeOK
    <3>2. /\ \A w \in Posted : header'[w] = header[w] /\ lines'[w] = lines[w]
          /\ header'[v].period = p /\ lines'[v] = ClosingLines(p)
          /\ rows' = rows \cup Touched(p, ClosingLines(p))
          /\ balance' = Added(balance, p, ClosingLines(p))
      BY <2>6, <3>1 DEF ClosePeriod, TypeOK, Posted
    <3>3. BalanceIsProjection'
      BY <2>0, <3>1, <3>2, Gain
    <3>4. PostedRowsExist'
      BY <3>1, <3>2 DEF PostedRowsExist
    <3>5. DropIsDraft'
      BY <2>0, <2>6 DEF ClosePeriod, Idle, DropIsDraft
    <3>. QED
      BY <3>3, <3>4, <3>5
  <2>7. ASSUME NEW ab \in Renames, ChangeAccountCode(ab[1], ab[2])
        PROVE  PostedRowsExist' /\ BalanceIsProjection' /\ DropIsDraft'
    <3>1. ab[1] \in Accounts /\ ab[2] \in Accounts
      BY RenameAssumption
    <3>2. owed' = Sweep(ab[2])
      BY <2>7 DEF ChangeAccountCode
    <3>3. DropIsDraft'
      BY <2>0, <3>1, <3>2 DEF DropIsDraft
    <3>. QED
      BY <2>7, <3>1, <3>3, RenameProjects, RenameKeepsRows
  <2>8. CASE (\E a \in Accounts : FinishRename(a)) \/ Crash \/ UNCHANGED vars
    <3>1. /\ Posted' = Posted /\ header' = header /\ lines' = lines
          /\ rows' = rows /\ balance' = balance /\ status' = status
      BY <2>8 DEF FinishRename, Crash, vars, Posted
    <3>2. owed' = None \/ owed' = owed
      BY <2>8 DEF FinishRename, Crash, vars
    <3>3. DropIsDraft'
      BY <2>0, <3>1, <3>2 DEF DropIsDraft
    <3>. QED
      BY <3>1, <3>3, Keep DEF PostedRowsExist
  <2>. QED
    BY <2>1, <2>2, <2>3, <2>4, <2>5, <2>6, <2>7, <2>8
       DEF Next, DeleteVoucher, ReopenPeriod, ClosingOf, InUse
<1>. QED
  BY <1>1, <1>2, PTL DEF Spec

\* AccountPeriodBalance is always what a rebuild from the voucher lines of the
\* posted vouchers would give.
THEOREM BalanceIsAlwaysProjection == Spec => []BalanceIsProjection
<1>1. ProjectionInv => BalanceIsProjection
  BY DEF ProjectionInv
<1>. QED
  BY <1>1, ProjectionAlways, PTL

(***************************************************************************)
(* Closed periods.                                                         *)
(***************************************************************************)

\* In the form the steps preserve: two closing vouchers of one period are one.
OneClosing == \A p \in Periods : \A v, w \in ClosingOf(p) : v = w

\* Only closing a period makes a closing voucher of it appear.
LEMMA ClosingOnlyByClose ==
    ASSUME TypeOK, [Next]_vars, NEW p \in Periods, ~\E v \in Vouchers : ClosePeriod(v, p)
    PROVE  ClosingOf(p)' \subseteq ClosingOf(p)
<1> USE DEF ClosingOf, InUse
<1>1. ASSUME NEW v \in Vouchers, NEW q \in Periods, NEW day \in Days, NEW doc \in Documents,
             NEW n \in 0..Len(doc), CreateVoucher(v, q, day, doc, n)
      PROVE  ClosingOf(p)' \subseteq ClosingOf(p)
  BY <1>1 DEF CreateVoucher, TypeOK
<1>2. ASSUME NEW v \in Vouchers, Post(v) \/ Unpost(v)
      PROVE  ClosingOf(p)' \subseteq ClosingOf(p)
  BY <1>2 DEF Post, Postable, Unpost, TypeOK
<1>3. ASSUME NEW v \in Vouchers, Erase(v)
      PROVE  ClosingOf(p)' \subseteq ClosingOf(p)
  BY <1>3 DEF Erase, TypeOK
<1>4. ASSUME NEW v \in Vouchers, NEW q \in Periods, ClosePeriod(v, q), q # p
      PROVE  ClosingOf(p)' \subseteq ClosingOf(p)
  BY <1>4 DEF ClosePeriod, TypeOK
<1>5. CASE UNCHANGED <<status, header>>
  BY <1>5
<1>. QED
  BY <1>1, <1>2, <1>3, <1>4, <1>5
     DEF Next, FinishEntry, PostVoucher, DeleteVoucher, ReopenPeriod, RemoveVoucher,
         FinishRemoval, ChangeAccountCode, FinishRename, Crash, vars

\* A period never has two closing vouchers, however closings, reopenings that
\* die half-way and deletions follow each other.
THEOREM OneClosingPerPeriod == Spec => []AtMostOneClosing
<1>1. Init => OneClosing
  BY DEF Init, OneClosing, ClosingOf, InUse
<1>2. TypeOK /\ OneClosing /\ [Next]_vars => OneClosing'
  <2> SUFFICES ASSUME TypeOK, OneClosing, [Next]_vars, NEW p \in Periods
               PROVE  \A v, w \in ClosingOf(p)' : v = w
    BY DEF OneClosing
  <2>1. CASE \E v \in Vouchers : ClosePeriod(v, p)
    <3>1. PICK v \in Vouchers : ClosePeriod(v, p)
      BY <2>1
    <3>2. ClosingOf(p) = {}
      BY <3>1 DEF ClosePeriod, ClosingExists
    <3>3. ClosingOf(p)' \subseteq {v}
      BY <3>1, <3>2 DEF ClosePeriod, ClosingOf, InUse, TypeOK
    <3>. QED
      BY <3>3
  <2>2. CASE ~\E v \in Vouchers : ClosePeriod(v, p)
    <3>1. ClosingOf(p)' \subseteq ClosingOf(p)
      BY <2>2, ClosingOnlyByClose
    <3>. QED
      BY <3>1 DEF OneClosing
  <2>. QED
    BY <2>1, <2>2
<1>3. OneClosing => AtMostOneClosing
  <2> SUFFICES ASSUME OneClosing, NEW p \in Periods PROVE Cardinality(ClosingOf(p)) <= 1
    BY DEF AtMostOneClosing
  <2>1. CASE ClosingOf(p) = {}
    BY <2>1, FS_EmptySet
  <2>2. CASE ClosingOf(p) # {}
    <3>1. PICK v : ClosingOf(p) = {v}
      BY <2>2 DEF OneClosing
    <3>2. Cardinality({v}) = 1
      BY FS_Singleton
    <3>. QED
      BY <3>1, <3>2
  <2>. QED
    BY <2>1, <2>2
<1>. QED
  BY <1>1, <1>2, <1>3, TypeCorrect, PTL DEF Spec

\* While a period has a closing voucher, posted or a draft that a dead
\* reopening left behind, nothing else of that period becomes posted.
THEOREM NothingJoinsClosedPeriod == Spec => ClosedPeriodGainsNothing
<1>1. ASSUME TypeOK, [Next]_vars
      PROVE  \A p \in Periods :
                 ClosingOf(p) # {} => PostedIn(p)' \subseteq PostedIn(p) \cup ClosingOf(p)
  <2> SUFFICES ASSUME TypeOK, [Next]_vars, NEW p \in Periods, ClosingOf(p) # {}
               PROVE  PostedIn(p)' \subseteq PostedIn(p) \cup ClosingOf(p)
    BY <1>1
  <2> USE DEF PostedIn, Posted
  <2>1. ASSUME NEW v \in Vouchers, NEW q \in Periods, NEW day \in Days, NEW doc \in Documents,
               NEW n \in 0..Len(doc), CreateVoucher(v, q, day, doc, n)
        PROVE  PostedIn(p)' \subseteq PostedIn(p)
    BY <2>1 DEF CreateVoucher, TypeOK
  <2>2. ASSUME NEW v \in Vouchers, Post(v)
        PROVE  PostedIn(p)' \subseteq PostedIn(p) \cup ClosingOf(p)
    <3>1. header' = header /\ status' = [status EXCEPT ![v] = "posted"]
      BY <2>2 DEF Post
    <3>2. header[v].period = p => v \in ClosingOf(p)
      BY <2>2 DEF Post, Postable, PeriodOpen
    <3>. QED
      BY <3>1, <3>2 DEF TypeOK
  <2>3. ASSUME NEW v \in Vouchers, Unpost(v) \/ Erase(v)
        PROVE  PostedIn(p)' \subseteq PostedIn(p)
    BY <2>3 DEF Unpost, Erase, TypeOK
  <2>4. ASSUME NEW v \in Vouchers, NEW q \in Periods, ClosePeriod(v, q)
        PROVE  PostedIn(p)' \subseteq PostedIn(p)
    <3>1. q # p
      BY <2>4 DEF ClosePeriod, ClosingExists
    <3>. QED
      BY <2>4, <3>1 DEF ClosePeriod, TypeOK
  <2>5. CASE UNCHANGED <<status, header>>
    BY <2>5
  <2>. QED
    BY <2>1, <2>2, <2>3, <2>4, <2>5
       DEF Next, FinishEntry, PostVoucher, DeleteVoucher, ReopenPeriod, RemoveVoucher,
           FinishRemoval, ChangeAccountCode, FinishRename, Crash, vars, ClosingOf, InUse
<1>. QED
  BY <1>1, TypeCorrect, PTL DEF Spec, ClosedPeriodGainsNothing

(***************************************************************************)
(* Running balances.                                                       *)
(***************************************************************************)
\* The posted lines of an account.
LinesOn(st, ls, c) == {x \in PostedLines(st, ls) : ls[x[1]][x[2]].account = c}

\* A posted line is a line number of a posted voucher.
LEMMA PostedLinesAre ==
    ASSUME NEW st, NEW ls, NEW x
    PROVE  x \in PostedLines(st, ls) <=>
               \E v \in Vouchers : st[v] = "posted" /\ \E i \in DOMAIN ls[v] : x = <<v, i>>
BY DEF PostedLines

\* A cumulative total depends only on the posted lines of its account.
LEMMA CumulativeSame ==
    ASSUME NEW st, NEW hd, NEW ls, NEW st2, NEW hd2, NEW ls2, NEW c,
           LinesOn(st, ls, c) = LinesOn(st2, ls2, c),
           \A x \in LinesOn(st, ls, c) : /\ ls[x[1]][x[2]].debit = ls2[x[1]][x[2]].debit
                                         /\ ls[x[1]][x[2]].credit = ls2[x[1]][x[2]].credit
                                         /\ hd[x[1]] = hd2[x[1]],
           NEW v, NEW i, ls[v][i].account = c, ls2[v][i].account = c, hd[v] = hd2[v]
    PROVE  Cumulative(st, hd, ls, v, i) = Cumulative(st2, hd2, ls2, v, i)
<1> DEFINE U  == {x \in PostedLines(st, ls) : ls[x[1]][x[2]].account = ls[v][i].account
                                              /\ Before(hd, x[1], x[2], v, i)}
           U2 == {x \in PostedLines(st2, ls2) : ls2[x[1]][x[2]].account = ls2[v][i].account
                                                /\ Before(hd2, x[1], x[2], v, i)}
<1>1. U = {x \in LinesOn(st, ls, c) : Before(hd, x[1], x[2], v, i)}
  BY DEF LinesOn
<1>2. U2 = {x \in LinesOn(st, ls, c) : Before(hd2, x[1], x[2], v, i)}
  BY DEF LinesOn
<1>3. \A x \in LinesOn(st, ls, c) : Before(hd, x[1], x[2], v, i) <=> Before(hd2, x[1], x[2], v, i)
  BY DEF Before
<1>4. U = U2 /\ U \subseteq LinesOn(st, ls, c)
  BY <1>1, <1>2, <1>3
<1> HIDE DEF U, U2
<1>5. /\ [x \in U |-> ls[x[1]][x[2]].debit] = [x \in U2 |-> ls2[x[1]][x[2]].debit]
      /\ [x \in U |-> ls[x[1]][x[2]].credit] = [x \in U2 |-> ls2[x[1]][x[2]].credit]
  BY <1>4
<1>6. /\ Cumulative(st, hd, ls, v, i) = [debit  |-> Sum([x \in U |-> ls[x[1]][x[2]].debit], U),
                                         credit |-> Sum([x \in U |-> ls[x[1]][x[2]].credit], U)]
      /\ Cumulative(st2, hd2, ls2, v, i) =
             [debit  |-> Sum([x \in U2 |-> ls2[x[1]][x[2]].debit], U2),
              credit |-> Sum([x \in U2 |-> ls2[x[1]][x[2]].credit], U2)]
  BY DEF Cumulative, U, U2
<1>. QED
  BY <1>4, <1>5, <1>6

\* Vouchers other than v are posted as before, with the lines they had.
PostedBeside(v, st, ls, st2, ls2) ==
    \A w \in Vouchers \ {v} : /\ st[w] = "posted" <=> st2[w] = "posted"
                              /\ st[w] = "posted" => ls[w] = ls2[w]

\* A voucher has no posted line on an account.
Off(v, st, ls, c) == st[v] = "posted" => \A i \in DOMAIN ls[v] : ls[v][i].account # c

\* A voucher without lines on an account may come and go.
LEMMA LinesOnKept ==
    ASSUME NEW st, NEW ls, NEW st2, NEW ls2, NEW v, NEW c,
           PostedBeside(v, st, ls, st2, ls2), Off(v, st, ls, c), Off(v, st2, ls2, c)
    PROVE  LinesOn(st, ls, c) = LinesOn(st2, ls2, c)
<1>1. \A x \in LinesOn(st, ls, c) : x \in LinesOn(st2, ls2, c)
  <2>1. TAKE x \in LinesOn(st, ls, c)
  <2>2. PICK w \in Vouchers : st[w] = "posted" /\ \E i \in DOMAIN ls[w] : x = <<w, i>>
    BY PostedLinesAre DEF LinesOn
  <2>. QED
    BY <2>2, PostedLinesAre DEF LinesOn, PostedBeside, Off
<1>2. \A x \in LinesOn(st2, ls2, c) : x \in LinesOn(st, ls, c)
  <2>1. TAKE x \in LinesOn(st2, ls2, c)
  <2>2. PICK w \in Vouchers : st2[w] = "posted" /\ \E i \in DOMAIN ls2[w] : x = <<w, i>>
    BY PostedLinesAre DEF LinesOn
  <2>. QED
    BY <2>2, PostedLinesAre DEF LinesOn, PostedBeside, Off
<1>. QED
  BY <1>1, <1>2

\* A posted line shows its total, in the form the steps preserve.
RunningOf(st, hd, ls, run, stale) ==
    \A v \in Vouchers : \A i \in DOMAIN ls[v] :
        /\ st[v] = "posted" => ls[v][i].account \in stale \/ run[v][i] = Cumulative(st, hd, ls, v, i)
        /\ st[v] = "draft" => run[v][i] = Zero

\* RunningIsCumulative in that form, now and after a step.
LEMMA RunningForms ==
    /\ RunningIsCumulative <=> RunningOf(status, header, lines, running, Stale)
    /\ RunningIsCumulative' <=> RunningOf(status', header', lines', running', Stale')
BY DEF RunningIsCumulative, RunningOf, InUse, Posted, Cumulative

\* Drafts show zero and the posted lines of the accounts C their totals.
Redone(C, st, hd, ls, run) ==
    \A w \in Vouchers : \A i \in DOMAIN ls[w] :
        /\ st[w] = "draft" => run[w][i] = Zero
        /\ st[w] = "posted" /\ ls[w][i].account \in C => run[w][i] = Cumulative(st, hd, ls, w, i)

\* The other posted lines are what they were.
AsBefore(D, st, hd, ls, run, st2, hd2, ls2, run2) ==
    \A w \in Vouchers : \A i \in DOMAIN ls2[w] :
        st2[w] = "posted" /\ ls2[w][i].account \notin D =>
            /\ st[w] = "posted" /\ i \in DOMAIN ls[w] /\ ls[w][i].account = ls2[w][i].account
            /\ ls[w][i].debit = ls2[w][i].debit /\ ls[w][i].credit = ls2[w][i].credit
            /\ hd[w] = hd2[w] /\ run[w][i] = run2[w][i]
\* The posted lines of the other accounts are the same ones.
LinesAsBefore(D, st, ls, st2, ls2) == \A c : c \notin D => LinesOn(st, ls, c) = LinesOn(st2, ls2, c)

\* A step that recomputes the accounts C, and leaves the lines of others.
LEMMA RunningKept ==
    ASSUME NEW st, NEW hd, NEW ls, NEW run, NEW stale, RunningOf(st, hd, ls, run, stale),
           NEW st2, NEW hd2, NEW ls2, NEW run2, NEW stale2, NEW C,
           Redone(C, st2, hd2, ls2, run2), AsBefore(C \cup stale2, st, hd, ls, run, st2, hd2, ls2, run2),
           LinesAsBefore(C \cup stale2, st, ls, st2, ls2), stale \subseteq stale2 \cup C
    PROVE  RunningOf(st2, hd2, ls2, run2, stale2)
<1> SUFFICES ASSUME NEW w \in Vouchers, NEW i \in DOMAIN ls2[w], st2[w] = "posted",
                    ls2[w][i].account \notin C \cup stale2
             PROVE  run2[w][i] = Cumulative(st2, hd2, ls2, w, i)
  BY DEF RunningOf, Redone
<1> DEFINE c == ls2[w][i].account
<1>1. run[w][i] = Cumulative(st, hd, ls, w, i) /\ run[w][i] = run2[w][i]
  BY DEF RunningOf, AsBefore
<1>2. LinesOn(st, ls, c) = LinesOn(st2, ls2, c)
  BY DEF LinesAsBefore
<1>3. ASSUME NEW x \in LinesOn(st, ls, c)
      PROVE  /\ ls[x[1]][x[2]].debit = ls2[x[1]][x[2]].debit
             /\ ls[x[1]][x[2]].credit = ls2[x[1]][x[2]].credit
             /\ hd[x[1]] = hd2[x[1]]
  <2>1. x \in PostedLines(st2, ls2) /\ ls2[x[1]][x[2]].account = c
    BY <1>2, <1>3 DEF LinesOn
  <2>2. PICK u \in Vouchers : st2[u] = "posted" /\ \E j \in DOMAIN ls2[u] : x = <<u, j>>
    BY <2>1, PostedLinesAre
  <2>3. PICK j \in DOMAIN ls2[u] : x = <<u, j>>
    BY <2>2
  <2>. QED
    BY <2>1, <2>2, <2>3 DEF AsBefore
<1>4. Cumulative(st, hd, ls, w, i) = Cumulative(st2, hd2, ls2, w, i)
  <2>1. ls[w][i].account = c /\ ls2[w][i].account = c /\ hd[w] = hd2[w]
    BY DEF AsBefore
  <2> HIDE DEF c
  <2>. QED
    BY <1>2, <1>3, <2>1, CumulativeSame
<1>. QED
  BY <1>1, <1>4

\* Where a line of a recomputed voucher takes its running balance from.
LEMMA RecomputedAt ==
    ASSUME NEW run, NEW C, NEW st, NEW hd, NEW ls, NEW w \in Vouchers, NEW i \in DOMAIN ls[w]
    PROVE  Recomputed(run, C, st, hd, ls)[w][i] =
               IF st[w] = "posted" /\ ls[w][i].account \in C THEN Cumulative(st, hd, ls, w, i)
               ELSE run[w][i]
BY DEF Recomputed

\* A voucher is posted, unposted or closes a period: its accounts are recomputed.
LEMMA RunningMoved ==
    ASSUME NEW v \in Vouchers, NEW C, RunningIsCumulative,
           \A w \in Vouchers \ {v} : /\ status'[w] = status[w] /\ header'[w] = header[w]
                                     /\ lines'[w] = lines[w],
           NEW run, running' = Recomputed(run, C, status', header', lines'),
           \A w \in Vouchers \ {v} : run[w] = running[w],
           status'[v] = "draft" => \A i \in DOMAIN lines'[v] : run[v][i] = Zero,
           Codes(lines'[v]) \subseteq C, status[v] = "posted" => Codes(lines[v]) \subseteq C,
           Stale \subseteq Stale' \cup C
    PROVE  RunningIsCumulative'
<1>1. RunningOf(status, header, lines, running, Stale)
  BY RunningForms
<1>2. /\ \A i \in DOMAIN lines'[v] : lines'[v][i].account \in C
      /\ status[v] = "posted" => \A i \in DOMAIN lines[v] : lines[v][i].account \in C
  BY DEF Codes
<1>3. ASSUME NEW w \in Vouchers, NEW i \in DOMAIN lines'[w]
      PROVE  /\ status'[w] = "draft" => running'[w][i] = Zero
             /\ status'[w] = "posted" /\ lines'[w][i].account \in C
                    => running'[w][i] = Cumulative(status', header', lines', w, i)
             /\ status'[w] = "posted" /\ lines'[w][i].account \notin C \cup Stale' =>
                    /\ status[w] = "posted" /\ i \in DOMAIN lines[w]
                    /\ lines[w][i].account = lines'[w][i].account
                    /\ lines[w][i].debit = lines'[w][i].debit
                    /\ lines[w][i].credit = lines'[w][i].credit
                    /\ header[w] = header'[w] /\ running[w][i] = running'[w][i]
  <2>1. running'[w][i] = IF status'[w] = "posted" /\ lines'[w][i].account \in C
                         THEN Cumulative(status', header', lines', w, i) ELSE run[w][i]
    BY RecomputedAt
  <2>2. CASE w = v
    BY <1>2, <2>1, <2>2
  <2>3. CASE w # v
    <3>1. /\ status'[w] = status[w] /\ header'[w] = header[w] /\ lines'[w] = lines[w]
          /\ run[w] = running[w]
      BY <2>3
    <3>2. status[w] = "draft" => running[w][i] = Zero
      BY <1>1, <3>1 DEF RunningOf
    <3>. QED
      BY <2>1, <3>1, <3>2
  <2>. QED
    BY <2>2, <2>3
<1>4. PICK st2, hd2, ls2, run2, stale2 :
          st2 = status' /\ hd2 = header' /\ ls2 = lines' /\ run2 = running' /\ stale2 = Stale'
  OBVIOUS
<1>5. LinesAsBefore(C \cup stale2, status, lines, st2, ls2)
  <2> SUFFICES ASSUME NEW c, c \notin C \cup stale2
               PROVE  LinesOn(status, lines, c) = LinesOn(st2, ls2, c)
    BY DEF LinesAsBefore
  <2>1. PostedBeside(v, status, lines, st2, ls2)
    BY <1>4 DEF PostedBeside
  <2>2. Off(v, status, lines, c) /\ Off(v, st2, ls2, c)
    BY <1>2, <1>4 DEF Off
  <2>. QED
    BY <2>1, <2>2, LinesOnKept
<1>6. Redone(C, st2, hd2, ls2, run2) /\ AsBefore(C \cup stale2, status, header, lines, running, st2, hd2, ls2, run2)
  BY <1>3, <1>4 DEF Redone, AsBefore
<1>7. Stale \subseteq stale2 \cup C
  BY <1>4
<1>8. RunningOf(st2, hd2, ls2, run2, stale2)
  BY <1>1, <1>5, <1>6, <1>7, RunningKept
<1>. QED
  BY <1>4, <1>8, RunningForms

\* A voucher is entered or erased: it was not posted, and is not now.
LEMMA RunningDrafted ==
    ASSUME NEW v \in Vouchers, RunningIsCumulative,
           \A w \in Vouchers \ {v} : /\ status'[w] = status[w] /\ header'[w] = header[w]
                                     /\ lines'[w] = lines[w] /\ running'[w] = running[w],
           status[v] # "posted", status'[v] # "posted",
           \A i \in DOMAIN lines'[v] : running'[v][i] = Zero, Stale' = Stale
    PROVE  RunningIsCumulative'
<1>1. RunningOf(status, header, lines, running, Stale)
  BY RunningForms
<1>2. PICK st2, hd2, ls2, run2 :
          st2 = status' /\ hd2 = header' /\ ls2 = lines' /\ run2 = running'
  OBVIOUS
<1>3. ASSUME NEW w \in Vouchers, NEW i \in DOMAIN ls2[w]
      PROVE  /\ st2[w] = "draft" => run2[w][i] = Zero
             /\ st2[w] = "posted" =>
                    /\ status[w] = "posted" /\ i \in DOMAIN lines[w]
                    /\ lines[w][i].account = ls2[w][i].account
                    /\ lines[w][i].debit = ls2[w][i].debit
                    /\ lines[w][i].credit = ls2[w][i].credit
                    /\ header[w] = hd2[w] /\ running[w][i] = run2[w][i]
  <2>3. CASE w = v
    BY <1>2, <2>3
  <2>4. CASE w # v
    <3>1. /\ st2[w] = status[w] /\ hd2[w] = header[w] /\ ls2[w] = lines[w] /\ run2[w] = running[w]
      BY <1>2, <2>4
    <3>2. status[w] = "draft" => running[w][i] = Zero
      BY <1>1, <3>1 DEF RunningOf
    <3>. QED
      BY <3>1, <3>2
  <2>. QED
    BY <2>3, <2>4
<1>4. LinesAsBefore({} \cup Stale, status, lines, st2, ls2)
  <2> SUFFICES ASSUME NEW c PROVE LinesOn(status, lines, c) = LinesOn(st2, ls2, c)
    BY DEF LinesAsBefore
  <2>1. PostedBeside(v, status, lines, st2, ls2) /\ Off(v, status, lines, c) /\ Off(v, st2, ls2, c)
    BY <1>2 DEF PostedBeside, Off
  <2>. QED
    BY <2>1, LinesOnKept
<1>5. Redone({}, st2, hd2, ls2, run2)
  BY <1>3 DEF Redone
<1>6. AsBefore({} \cup Stale, status, header, lines, running, st2, hd2, ls2, run2)
  BY <1>3 DEF AsBefore
<1>7. RunningOf(st2, hd2, ls2, run2, Stale)
  BY <1>1, <1>4, <1>5, <1>6, RunningKept
<1>. QED
  BY <1>2, <1>7, RunningForms

\* The tasks are told apart by what they are about.
LEMMA TasksDiffer ==
    /\ \A v, w \in Vouchers : Drop(v) # None /\ Drop(v) # Finish(w) /\ Finish(v) # None
    /\ \A v \in Vouchers, a \in Accounts : Drop(v) # Sweep(a) /\ Finish(v) # Sweep(a)
    /\ \A a \in Accounts : Sweep(a) # None
    /\ \A a, b \in Accounts : Sweep(a) = Sweep(b) => a = b
<1>1. None.task = "none" /\ \A v \in Vouchers : Drop(v).task = "delete" /\ Finish(v).task = "post"
  BY DEF Drop, Finish, None
<1>2. \A a \in Accounts : Sweep(a).task = "recompute" /\ Sweep(a).account = a
  BY DEF Sweep
<1>. QED
  BY <1>1, <1>2

\* A posting or unposting recomputes the accounts of its voucher.
LEMMA PostRuns ==
    ASSUME TypeOK, RunningIsCumulative, NEW v \in Vouchers, Post(v) \/ Unpost(v),
           \A a \in Accounts : owed # Sweep(a) /\ owed' # Sweep(a)
    PROVE  RunningIsCumulative'
<1> DEFINE cleared == [running EXCEPT ![v] = [i \in DOMAIN lines[v] |-> Zero]]
           C == Codes(lines[v])
<1>1. /\ lines' = lines /\ header' = header /\ unswept' = unswept \ C
      /\ \A w \in Vouchers \ {v} : status'[w] = status[w]
  BY DEF Post, Unpost, TypeOK
<1>2. Stale \subseteq Stale' \cup C
  BY <1>1 DEF Stale
<1>3. CASE Post(v)
  <2>1. running' = Recomputed(running, C, status', header', lines') /\ status'[v] = "posted"
    BY <1>1, <1>3 DEF Post, TypeOK
  <2>. QED
    BY <1>1, <1>2, <2>1, RunningMoved
<1>4. CASE Unpost(v)
  <2>1. running' = Recomputed(cleared, C, status', header', lines')
    BY <1>1, <1>4 DEF Unpost
  <2>2. /\ \A w \in Vouchers \ {v} : cleared[w] = running[w]
        /\ \A i \in DOMAIN lines'[v] : cleared[v][i] = Zero
    BY <1>1 DEF TypeOK
  <2> HIDE DEF cleared
  <2>. QED
    BY <1>1, <1>2, <2>1, <2>2, RunningMoved
<1>. QED
  BY <1>3, <1>4

\* So does a closing.
LEMMA CloseRuns ==
    ASSUME TypeOK, TypeOK', RunningIsCumulative, NEW v \in Vouchers, NEW p \in Periods, ClosePeriod(v, p)
    PROVE  RunningIsCumulative'
<1> DEFINE ls  == ClosingLines(p)
           new == [running EXCEPT ![v] = [i \in DOMAIN ls |-> Zero]]
           C   == Codes(ls)
<1>1. /\ status' = [status EXCEPT ![v] = "posted"] /\ lines' = [lines EXCEPT ![v] = ls]
      /\ running' = Recomputed(new, C, status', header', lines')
      /\ unswept' = unswept \ C /\ owed' = owed /\ status[v] = "unused"
      /\ \A w \in Vouchers \ {v} : header'[w] = header[w]
  BY DEF ClosePeriod, IsNextId, TypeOK
<1> HIDE DEF ls
<1>2. /\ \A w \in Vouchers \ {v} : /\ status'[w] = status[w] /\ lines'[w] = lines[w]
                                   /\ new[w] = running[w]
      /\ status'[v] = "posted" /\ lines'[v] = ls
  BY <1>1 DEF TypeOK
<1>3. Stale \subseteq Stale' \cup C
  BY <1>1 DEF Stale
<1> HIDE DEF new, C
<1>4. Codes(lines'[v]) \subseteq C
  BY <1>2 DEF C
<1>. QED
  BY <1>1, <1>2, <1>3, <1>4, RunningMoved

\* What the task owed leaves stale.
LEMMA StaleTask ==
    /\ \A a \in Accounts : {c \in Accounts : Sweep(a) = Sweep(c)} = {a}
    /\ {c \in Accounts : None = Sweep(c)} = {}
<1>1. ASSUME NEW a \in Accounts, NEW c
      PROVE  c \in {d \in Accounts : Sweep(a) = Sweep(d)} <=> c = a
  BY TasksDiffer
<1>2. ASSUME NEW c
      PROVE  c \notin {d \in Accounts : None = Sweep(d)}
  <2>1. \A d \in Accounts : None # Sweep(d)
    BY TasksDiffer
  <2>. QED
    BY <2>1
<1>. QED
  BY <1>1, <1>2

\* A rename leaves the lines of every account but the two where they were.
LEMMA RenameRuns ==
    ASSUME TypeOK, RunningIsCumulative, NEW a \in Accounts, NEW b \in Accounts, ChangeAccountCode(a, b)
    PROVE  RunningIsCumulative'
<1>1. PICK ls2 : ls2 = lines'
  OBVIOUS
<1>2. /\ a # b /\ status' = status /\ header' = header /\ running' = running
      /\ unswept' = unswept /\ owed' = Sweep(b) /\ owed = None
      /\ ls2 = [v \in Vouchers |-> [i \in DOMAIN lines[v] |->
                     [lines[v][i] EXCEPT !.account = IF @ = a THEN b ELSE @]]]
  BY <1>1 DEF ChangeAccountCode, Idle
<1>3. Stale = unswept /\ Stale' = unswept \cup {b}
  <2>1. Stale' = unswept' \cup {c \in Accounts : owed' = Sweep(c)}
    BY DEF Stale
  <2>. QED
    BY <1>2, <2>1, StaleTask DEF Stale
<1>4. ASSUME NEW w \in Vouchers
      PROVE  /\ DOMAIN ls2[w] = DOMAIN lines[w]
             /\ \A i \in DOMAIN lines[w] :
                    /\ ls2[w][i].account = IF lines[w][i].account = a THEN b ELSE lines[w][i].account
                    /\ ls2[w][i].debit = lines[w][i].debit
                    /\ ls2[w][i].credit = lines[w][i].credit
  <2>1. ls2[w] = [i \in DOMAIN lines[w] |->
                     [lines[w][i] EXCEPT !.account = IF @ = a THEN b ELSE @]]
    BY <1>2
  <2>2. \A i \in DOMAIN lines[w] : lines[w][i] \in Line
    BY DEF TypeOK
  <2>. QED
    BY <2>1, <2>2 DEF Line
<1>5. PICK stale2 : stale2 = unswept \cup {b}
  OBVIOUS
<1>6. RunningOf(status, header, lines, running, Stale)
  BY RunningForms
<1>7. Redone({a}, status, header, ls2, running)
  <2> SUFFICES ASSUME NEW w \in Vouchers, NEW i \in DOMAIN ls2[w]
               PROVE  /\ status[w] = "draft" => running[w][i] = Zero
                      /\ ls2[w][i].account # a
    BY DEF Redone
  <2>. QED
    BY <1>2, <1>4, <1>6 DEF RunningOf
<1>8. AsBefore({a} \cup stale2, status, header, lines, running, status, header, ls2, running)
  <2> SUFFICES ASSUME NEW w \in Vouchers, NEW i \in DOMAIN ls2[w], ls2[w][i].account \notin {a} \cup stale2
               PROVE  /\ i \in DOMAIN lines[w] /\ lines[w][i].account = ls2[w][i].account
                      /\ lines[w][i].debit = ls2[w][i].debit /\ lines[w][i].credit = ls2[w][i].credit
    BY DEF AsBefore
  <2>. QED
    BY <1>4, <1>5
<1>9. LinesAsBefore({a} \cup stale2, status, lines, status, ls2)
  <2> SUFFICES ASSUME NEW c, c # a, c # b
               PROVE  LinesOn(status, lines, c) = LinesOn(status, ls2, c)
    BY <1>5 DEF LinesAsBefore
  <2>1. \A x : x \in PostedLines(status, lines) <=> x \in PostedLines(status, ls2)
    BY <1>4, PostedLinesAre
  <2>2. ASSUME NEW x \in PostedLines(status, lines)
        PROVE  lines[x[1]][x[2]].account = c <=> ls2[x[1]][x[2]].account = c
    <3>1. PICK v \in Vouchers : status[v] = "posted" /\ \E i \in DOMAIN lines[v] : x = <<v, i>>
      BY <2>2, PostedLinesAre
    <3>2. PICK i \in DOMAIN lines[v] : x = <<v, i>>
      BY <3>1
    <3>. QED
      BY <1>4, <3>2
  <2>. QED
    BY <2>1, <2>2 DEF LinesOn
<1>10. RunningOf(status, header, ls2, running, stale2)
  <2>1. Stale \subseteq stale2 \cup {a}
    BY <1>3, <1>5
  <2>. QED
    BY <1>6, <1>7, <1>8, <1>9, <2>1, RunningKept
<1>. QED
  BY <1>1, <1>2, <1>3, <1>5, <1>10, RunningForms

\* The recomputation of a renamed account redoes its lines.
LEMMA SweepRuns ==
    ASSUME TypeOK, RunningIsCumulative, NEW a \in Accounts, FinishRename(a)
    PROVE  RunningIsCumulative'
<1>1. PICK run2 : run2 = running'
  OBVIOUS
<1>2. /\ status' = status /\ header' = header /\ lines' = lines
      /\ unswept' = unswept \ {a} /\ owed' = None /\ owed = Sweep(a)
      /\ run2 = Recomputed(running, {a}, status, header, lines)
  BY <1>1 DEF FinishRename
<1>3. Stale = unswept \cup {a} /\ Stale' = unswept \ {a}
  <2>1. Stale' = unswept' \cup {c \in Accounts : owed' = Sweep(c)}
    BY DEF Stale
  <2>. QED
    BY <1>2, <2>1, StaleTask DEF Stale
<1>4. RunningOf(status, header, lines, running, Stale)
  BY RunningForms
<1>5. \A w \in Vouchers : \A i \in DOMAIN lines[w] :
          run2[w][i] = IF status[w] = "posted" /\ lines[w][i].account \in {a}
                       THEN Cumulative(status, header, lines, w, i) ELSE running[w][i]
  BY <1>2, RecomputedAt
<1>6. PICK stale2 : stale2 = unswept \ {a}
  OBVIOUS
<1>7. Redone({a}, status, header, lines, run2)
  BY <1>4, <1>5 DEF Redone, RunningOf
<1>8. AsBefore({a} \cup stale2, status, header, lines, running, status, header, lines, run2)
  BY <1>5 DEF AsBefore
<1>9. LinesAsBefore({a} \cup stale2, status, lines, status, lines)
  BY DEF LinesAsBefore
<1>10. Stale \subseteq stale2 \cup {a}
  BY <1>3, <1>6
<1>11. RunningOf(status, header, lines, run2, stale2)
  BY <1>4, <1>7, <1>8, <1>9, <1>10, RunningKept
<1>. QED
  BY <1>1, <1>2, <1>3, <1>6, <1>11, RunningForms

\* A draft that is erased, and the one a removal unposted before.
LEMMA EraseRuns ==
    ASSUME TypeOK, RunningIsCumulative, NEW v \in Vouchers, Erase(v), status[v] = "draft", Stale' = Stale
    PROVE  RunningIsCumulative'
<1>1. /\ status'[v] = "deleted" /\ lines'[v] = << >>
      /\ \A w \in Vouchers \ {v} : /\ status'[w] = status[w] /\ header'[w] = header[w]
                                   /\ lines'[w] = lines[w] /\ running'[w] = running[w]
  BY DEF Erase, TypeOK
<1>. QED
  BY <1>1, RunningDrafted

\* Removing a voucher unposts it first.
LEMMA RemoveRuns ==
    ASSUME TypeOK, RunningIsCumulative, NEW v \in Vouchers, Idle, RemoveVoucher(v)
    PROVE  RunningIsCumulative'
<1>1. CASE Unpost(v) /\ owed' = Drop(v)
  BY <1>1, PostRuns, TasksDiffer DEF Idle
<1>2. CASE status[v] = "draft" /\ Erase(v) /\ owed' = owed
  <2>1. Stale' = Stale
    BY <1>2 DEF Stale, Erase
  <2>. QED
    BY <1>2, <2>1, EraseRuns
<1>. QED
  BY <1>1, <1>2 DEF RemoveVoucher

\* Every step keeps the running balances cumulative.
LEMMA RunningStep == ASSUME RunningIsCumulative, ProjectionInv, TypeOK', [Next]_vars
                     PROVE  RunningIsCumulative'
<1>0. TypeOK /\ DropIsDraft
  BY DEF ProjectionInv
<1>1. ASSUME NEW v \in Vouchers, NEW p \in Periods, NEW day \in Days, NEW doc \in Documents,
             NEW n \in 0..Len(doc), CreateVoucher(v, p, day, doc, n)
      PROVE  RunningIsCumulative'
  <2>1. /\ status[v] = "unused" /\ status'[v] = "draft"
        /\ \A w \in Vouchers \ {v} : /\ status'[w] = status[w] /\ header'[w] = header[w]
                                     /\ lines'[w] = lines[w] /\ running'[w] = running[w]
        /\ lines'[v] = SubSeq(doc, 1, n) /\ running'[v] = [i \in 1..n |-> Zero]
    BY <1>0, <1>1 DEF CreateVoucher, IsNextId, TypeOK
  <2>2. DOMAIN lines'[v] = 1..n
    BY <2>1, DocumentAssumption
  <2>3. \A i \in DOMAIN lines'[v] : running'[v][i] = Zero
    BY <2>1, <2>2
  <2>4. Stale' = Stale
    <3>1. owed = None /\ owed' \in {None, Finish(v)} /\ unswept' = unswept
      BY <1>1 DEF CreateVoucher, Idle
    <3>. QED
      BY <3>1, TasksDiffer DEF Stale
  <2>. QED
    BY <2>1, <2>3, <2>4, RunningDrafted
<1>2. ASSUME NEW v \in Vouchers, FinishEntry(v)
      PROVE  RunningIsCumulative'
  <2>1. owed = Finish(v) /\ owed' = None
    BY <1>2 DEF FinishEntry
  <2>2. CASE Post(v)
    BY <1>0, <2>1, <2>2, PostRuns, TasksDiffer
  <2>3. CASE UNCHANGED <<status, header, lines, running, rows, balance, chart, unswept>>
    <3>1. Stale' = Stale
      BY <2>1, <2>3, TasksDiffer DEF Stale
    <3>. QED
      BY <2>3, <3>1, RunningForms
  <2>. QED
    BY <1>2, <2>2, <2>3 DEF FinishEntry
<1>3. ASSUME NEW v \in Vouchers, PostVoucher(v)
      PROVE  RunningIsCumulative'
  <2>1. Post(v) /\ owed = None /\ owed' = owed
    BY <1>3 DEF PostVoucher, Idle
  <2>. QED
    BY <1>0, <2>1, PostRuns, TasksDiffer
<1>4. ASSUME NEW v \in Vouchers, DeleteVoucher(v)
      PROVE  RunningIsCumulative'
  BY <1>0, <1>4, RemoveRuns DEF DeleteVoucher
<1>5. ASSUME NEW p \in Periods, ReopenPeriod(p)
      PROVE  RunningIsCumulative'
  BY <1>0, <1>5, RemoveRuns DEF ReopenPeriod, ClosingOf, InUse
<1>6. ASSUME NEW v \in Vouchers, FinishRemoval(v)
      PROVE  RunningIsCumulative'
  <2>1. owed = Drop(v) /\ Erase(v) /\ owed' = None
    BY <1>6 DEF FinishRemoval
  <2>2. status[v] = "draft"
    BY <1>0, <2>1 DEF DropIsDraft
  <2>3. Stale' = Stale
    BY <2>1, TasksDiffer DEF Stale, Erase
  <2>. QED
    BY <1>0, <2>1, <2>2, <2>3, EraseRuns
<1>7. ASSUME NEW v \in Vouchers, NEW p \in Periods, ClosePeriod(v, p)
      PROVE  RunningIsCumulative'
  BY <1>0, <1>7, CloseRuns
<1>8. ASSUME NEW ab \in Renames, ChangeAccountCode(ab[1], ab[2])
      PROVE  RunningIsCumulative'
  BY <1>0, <1>8, RenameAssumption, RenameRuns
<1>9. ASSUME NEW a \in Accounts, FinishRename(a)
      PROVE  RunningIsCumulative'
  BY <1>0, <1>9, SweepRuns
<1>10. CASE Crash
  <2>1. Stale' = Stale
    <3>1. Stale' = unswept' \cup {c \in Accounts : owed' = Sweep(c)}
      BY DEF Stale
    <3>2. owed' = None /\ unswept' = unswept \cup {c \in Accounts : owed = Sweep(c)}
      BY <1>10 DEF Crash
    <3>. QED
      BY <3>1, <3>2, StaleTask DEF Stale
  <2>2. status' = status /\ header' = header /\ lines' = lines /\ running' = running
    BY <1>10 DEF Crash
  <2>. QED
    BY <2>1, <2>2, RunningForms
<1>11. CASE UNCHANGED vars
  BY <1>11, RunningForms DEF vars, Stale
<1>. QED
  BY <1>1, <1>2, <1>3, <1>4, <1>5, <1>6, <1>7, <1>8, <1>9, <1>10, <1>11 DEF Next

\* RunningIsCumulative holds: every posted line shows the total of its
\* account up to it, but for an account renamed and not recomputed.
THEOREM RunningStaysCumulative == Spec => []RunningIsCumulative
<1>1. Init => RunningIsCumulative
  BY DEF Init, RunningIsCumulative, InUse
<1>2. ProjectionInv /\ ProjectionInv' /\ [Next]_vars /\ RunningIsCumulative => RunningIsCumulative'
  BY RunningStep DEF ProjectionInv
<1>. QED
  BY <1>1, <1>2, ProjectionAlways, PTL DEF Spec

(***************************************************************************)
(* Nets: what the rows of a period show is what its posted lines add up to *)
(***************************************************************************)
\* What each line adds to the net of its account, the lines on the accounts
\* A, and what they add together.
LineNets(ls)    == [i \in DOMAIN ls |-> ls[i].debit - ls[i].credit]
LinesIn(ls, A)  == {i \in DOMAIN ls : ls[i].account \in A}
LinesNet(ls, A) == Sum(LineNets(ls), LinesIn(ls, A))

\* The sums below are over finite sets of integers.
LEMMA LineNetsType ==
    ASSUME NEW ls \in Seq(Line), NEW A
    PROVE  /\ \A i \in DOMAIN ls : /\ LineNets(ls)[i] \in Int
                                   /\ LineNets(ls)[i] = Debits(ls)[i] - Credits(ls)[i]
           /\ IsFiniteSet(LinesIn(ls, A)) /\ LinesIn(ls, A) \subseteq DOMAIN ls
           /\ LinesNet(ls, A) \in Int
<1>1. \A i \in DOMAIN ls : /\ LineNets(ls)[i] \in Int
                           /\ LineNets(ls)[i] = Debits(ls)[i] - Credits(ls)[i]
  <2> TAKE i \in DOMAIN ls
  <2>1. LineNets(ls)[i] = Debits(ls)[i] - Credits(ls)[i]
    BY DEF LineNets, Debits, Credits
  <2>2. Debits(ls)[i] \in Int /\ Credits(ls)[i] \in Int
    BY LineNumbers
  <2>. QED
    BY <2>1, <2>2
<1>2. IsFiniteSet(LinesIn(ls, A)) /\ LinesIn(ls, A) \subseteq DOMAIN ls
  BY LineNumbers, FS_Subset DEF LinesIn
<1>3. LinesNet(ls, A) \in Int
  BY <1>1, <1>2, SumInt DEF LinesNet, Sum
<1>. QED
  BY <1>1, <1>2, <1>3

\* What a document adds to the net of a row.
NetMoved(p, ls, r) == Movement(p, ls, r).debit - Movement(p, ls, r).credit

\* It is the sum over the lines on the row.
LEMMA NetMovedIs ==
    ASSUME NEW ls \in Seq(Line), NEW p, NEW r
    PROVE  NetMoved(p, ls, r) = Sum(LineNets(ls), Hits(p, ls, r)) /\ NetMoved(p, ls, r) \in Int
<1> DEFINE H == Hits(p, ls, r)
<1>1. IsFiniteSet(H) /\ \A i \in H : /\ LineNets(ls)[i] \in Int /\ Credits(ls)[i] \in Int
                                     /\ Debits(ls)[i] = LineNets(ls)[i] + Credits(ls)[i]
  <2>1. IsFiniteSet(H) /\ H \subseteq DOMAIN ls
    BY LineNumbers
  <2>2. \A i \in DOMAIN ls : /\ LineNets(ls)[i] \in Int /\ Credits(ls)[i] \in Int /\ Debits(ls)[i] \in Int
                             /\ LineNets(ls)[i] = Debits(ls)[i] - Credits(ls)[i]
    BY LineNumbers, LineNetsType
  <2>3. \A i \in DOMAIN ls : Debits(ls)[i] = LineNets(ls)[i] + Credits(ls)[i]
    BY <2>2
  <2> HIDE DEF H
  <2>. QED
    BY <2>1, <2>2, <2>3
<1>2. NetMoved(p, ls, r) = Sum(Debits(ls), H) - Sum(Credits(ls), H)
  BY DEF NetMoved, Movement
<1> HIDE DEF H
<1>3. Sum(Debits(ls), H) = Sum(LineNets(ls), H) + Sum(Credits(ls), H)
  BY <1>1, SumPlus DEF Sum
<1>4. Sum(LineNets(ls), H) \in Int /\ Sum(Credits(ls), H) \in Int
  BY <1>1, SumInt DEF Sum
<1>. QED
  BY <1>2, <1>3, <1>4 DEF H

\* The rows of a period are finitely many.
LEMMA RowsOfFinite == \A p, A : RowsOf(p, A) \subseteq Rows /\ IsFiniteSet(RowsOf(p, A))
<1> TAKE p, A
<1>1. RowsOf(p, A) \subseteq Rows
  BY DEF RowsOf
<1>. QED
  BY <1>1, FiniteConstants, FS_Subset

\* Over the rows of its period, a document adds what its lines add.
LEMMA DocumentNet ==
    ASSUME NEW ls \in Seq(Line), NEW p \in Periods, NEW A
    PROVE  Sum([r \in Rows |-> NetMoved(p, ls, r)], RowsOf(p, A)) = LinesNet(ls, A)
<1> DEFINE h == [r \in Rows |-> NetMoved(p, ls, r)]
           P == [r \in Rows |-> Hits(p, ls, r)]
           T == RowsOf(p, A)
           V == DOMAIN ls
<1>1. T \subseteq Rows /\ IsFiniteSet(T) /\ IsFiniteSet(V)
  BY RowsOfFinite, LineNumbers
<1>2. \A i \in V : LineNets(ls)[i] \in Int
  BY LineNetsType
<1>3. \A r \in T : P[r] \subseteq V /\ h[r] = Sum(LineNets(ls), P[r])
  BY <1>1, NetMovedIs, LineNumbers
<1>4. \A r, s \in T : r # s => P[r] \cap P[s] = {}
  BY <1>1 DEF Hits
<1>5. UNION {P[r] : r \in T} = LinesIn(ls, A)
  <2>1. ASSUME NEW i \in LinesIn(ls, A) PROVE \E r \in T : i \in P[r]
    <3> DEFINE r == <<p, ls[i].account, ls[i].object>>
    <3>1. ls[i] \in Line /\ i \in DOMAIN ls
      BY LineNumbers DEF LinesIn
    <3>2. r \in Rows /\ r[1] = p /\ r[2] \in A
      BY <3>1 DEF Rows, Line, LinesIn
    <3>3. r \in T
      BY <3>2 DEF RowsOf
    <3>4. i \in P[r]
      BY <3>1, <3>2 DEF Hits
    <3>. QED
      BY <3>3, <3>4
  <2>2. ASSUME NEW r \in T, NEW i \in P[r] PROVE i \in LinesIn(ls, A)
    BY <1>1 DEF Hits, RowsOf, LinesIn
  <2> HIDE DEF T, P
  <2>. QED
    BY <2>1, <2>2
<1> HIDE DEF h, P, T, V
<1>6. Sum(h, T) = Sum(LineNets(ls), UNION {P[r] : r \in T})
  BY <1>1, <1>2, <1>3, <1>4, SumByParts DEF Sum
<1>. QED
  BY <1>5, <1>6 DEF LinesNet, h, T

\* A document of another period adds nothing to them.
LEMMA OtherPeriodNet ==
    ASSUME NEW ls \in Seq(Line), NEW p, NEW q, p # q, NEW A
    PROVE  \A r \in RowsOf(p, A) : NetMoved(q, ls, r) = 0
<1> TAKE r \in RowsOf(p, A)
<1>1. Hits(q, ls, r) = {}
  BY DEF Hits, RowsOf
<1>. QED
  BY <1>1, NetMovedIs, SumEmpty DEF Sum

\* The net of accounts in a period is what its posted vouchers add up to.
LEMMA NetIsVouchers ==
    ASSUME TypeOK, BalanceIsProjection, NEW p \in Periods, NEW A
    PROVE  NetOf(p, A) = Sum([v \in Vouchers |-> LinesNet(lines[v], A)], PostedIn(p))
<1> DEFINE g   == [v \in Vouchers |-> [r \in Rows |-> NetMoved(header[v].period, lines[v], r)]]
           S   == RowsOf(p, A)
           row == [r \in Rows |-> Net(r)]
           col == [v \in Vouchers |-> Sum(g[v], S)]
           net == [v \in Vouchers |-> LinesNet(lines[v], A)]
<1>1. \A v \in Vouchers : lines[v] \in Seq(Line) /\ header[v].period \in Periods
  BY DEF TypeOK, Header
<1>2. S \subseteq Rows /\ IsFiniteSet(S) /\ Posted \subseteq Vouchers /\ IsFiniteSet(Posted)
  BY RowsOfFinite, PostedFinite
<1>3. \A v \in Posted, r \in S : g[v][r] \in Int
  BY <1>1, <1>2, NetMovedIs
<1>4. \A r \in S : row[r] = Sum([v \in Posted |-> g[v][r]], Posted)
  <2> TAKE r \in S
  <2> DEFINE d == [v \in Posted |-> On(header, lines, v, r).debit]
             c == [v \in Posted |-> On(header, lines, v, r).credit]
             n == [v \in Posted |-> g[v][r]]
  <2>1. balance[r] = Project(Posted, header, lines, r)
    BY <1>2, ProjectionForms
  <2>2. row[r] = Sum(d, Posted) - Sum(c, Posted)
    BY <1>2, <2>1 DEF Net, Project
  <2>3. \A v \in Posted : d[v] \in Int /\ c[v] \in Int /\ n[v] = d[v] - c[v]
    <3>1. \A v \in Posted : On(header, lines, v, r) \in Entry
      BY <1>2, OnType
    <3>2. \A v \in Posted : n[v] = d[v] - c[v]
      BY <1>2 DEF NetMoved, On
    <3>. QED
      BY <3>1, <3>2 DEF Entry
  <2> HIDE DEF d, c, n, row
  <2>4. \A v \in Posted : n[v] \in Int /\ c[v] \in Int /\ d[v] = n[v] + c[v]
    BY <2>3
  <2>5. Sum(d, Posted) = Sum(n, Posted) + Sum(c, Posted)
    BY <1>2, <2>4, SumPlus DEF Sum
  <2>6. Sum(n, Posted) \in Int /\ Sum(c, Posted) \in Int
    BY <1>2, <2>4, SumInt DEF Sum
  <2>7. row[r] = Sum(n, Posted)
    BY <2>2, <2>5, <2>6
  <2>. QED
    BY <2>7 DEF n
<1>5. \A v \in Posted : col[v] = Sum(g[v], S)
  BY <1>2
<1>6. Sum(row, S) = Sum(col, Posted)
  <2> HIDE DEF g, S, row, col
  <2>. QED
    <3>1. PICK V : V = Posted
      OBVIOUS
    <3>2. /\ \A v \in V, r \in S : g[v][r] \in Int
          /\ \A r \in S : row[r] = SumFunctionOnSet(AcrossAt(g, V, r), V)
          /\ \A v \in V : col[v] = SumFunctionOnSet(g[v], S)
          /\ IsFiniteSet(V)
      BY <1>2, <1>3, <1>4, <1>5, <3>1 DEF Sum, AcrossAt
    <3>3. SumFunctionOnSet(row, S) = SumFunctionOnSet(col, V)
      BY <1>2, <3>2, SumSwapped
    <3>. QED
      BY <3>1, <3>3 DEF Sum
<1>7. \A v \in PostedIn(p) : col[v] = net[v] /\ col[v] \in Int
  <2> TAKE v \in PostedIn(p)
  <2>1. v \in Vouchers /\ header[v].period = p
    BY DEF PostedIn, Posted
  <2>2. col[v] = Sum([r \in Rows |-> NetMoved(p, lines[v], r)], S)
    BY <2>1
  <2>3. col[v] = LinesNet(lines[v], A)
    BY <1>1, <2>1, <2>2, DocumentNet
  <2> HIDE DEF col
  <2>. QED
    BY <1>1, <2>1, <2>3, LineNetsType
<1>8. \A v \in Posted \ PostedIn(p) : col[v] = 0
  <2> TAKE v \in Posted \ PostedIn(p)
  <2>1. v \in Vouchers /\ header[v].period # p
    BY <1>2 DEF PostedIn
  <2>2. \A r \in S : g[v][r] = 0
    BY <1>1, <1>2, <2>1, OtherPeriodNet
  <2>3. col[v] = Sum(g[v], S)
    BY <2>1
  <2> HIDE DEF g, S, col
  <2>. QED
    BY <1>2, <2>2, <2>3, SumZero DEF Sum
<1>9. PostedIn(p) \subseteq Posted /\ IsFiniteSet(PostedIn(p))
  BY <1>2, FS_Subset DEF PostedIn
<1>10. NetOf(p, A) = Sum(row, S)
  BY DEF NetOf
<1> HIDE DEF g, S, row, col, net
<1>11. Sum(col, Posted) = Sum(col, PostedIn(p))
  BY <1>2, <1>7, <1>8, <1>9, SumSupport DEF Sum
<1>12. Sum(col, PostedIn(p)) = Sum(net, PostedIn(p))
  BY <1>7, <1>9, SumCongruence DEF Sum
<1>. QED
  BY <1>6, <1>10, <1>11, <1>12 DEF net

\* One document after another adds what both add.
LEMMA NetOfBoth ==
    ASSUME NEW s \in Seq(Line), NEW t \in Seq(Line), NEW A
    PROVE  LinesNet(s \o t, A) = LinesNet(s, A) + LinesNet(t, A)
<1> DEFINE u == s \o t
           n == Len(s)
           m == [j \in DOMAIN t |-> n + j]
           B == LinesIn(t, A)
           C == {m[j] : j \in B}
<1>1. /\ u \in Seq(Line) /\ n \in Nat /\ DOMAIN s = 1..n /\ DOMAIN t = 1..Len(t) /\ Len(t) \in Nat
      /\ DOMAIN u = 1..(n + Len(t))
      /\ \A i \in 1..n : u[i] = s[i]
      /\ \A j \in 1..Len(t) : u[n + j] = t[j]
  <2>1. u \in Seq(Line) /\ Len(u) = n + Len(t)
    BY ConcatProperties
  <2>2. /\ n \in Nat /\ DOMAIN s = 1..n /\ DOMAIN t = 1..Len(t) /\ Len(t) \in Nat
        /\ DOMAIN u = 1..Len(u)
    BY <2>1, LenProperties
  <2>3. \A i \in 1..(n + Len(t)) : u[i] = IF i <= n THEN s[i] ELSE t[i - n]
    BY ConcatProperties
  <2> HIDE DEF u, n
  <2>4. \A i \in 1..n : u[i] = s[i]
    BY <2>2, <2>3
  <2>5. ASSUME NEW j \in 1..Len(t) PROVE u[n + j] = t[j]
    <3>1. n + j \in 1..(n + Len(t)) /\ ~(n + j <= n) /\ (n + j) - n = j
      BY <2>2
    <3>. QED
      BY <2>3, <3>1
  <2>. QED
    BY <2>1, <2>2, <2>4, <2>5
<1>2. B \subseteq DOMAIN t /\ \A j \in DOMAIN t : m[j] = n + j
  BY DEF LinesIn
<1> HIDE DEF u, n, m
<1>3. LinesIn(u, A) = LinesIn(s, A) \cup C
  <2>1. ASSUME NEW i \in LinesIn(u, A), i \notin LinesIn(s, A) PROVE i \in C
    <3>1. i \in 1..(n + Len(t)) /\ u[i].account \in A
      BY <1>1 DEF LinesIn
    <3>2. i \notin 1..n
      BY <1>1, <2>1, <3>1 DEF LinesIn
    <3>3. i - n \in 1..Len(t) /\ n + (i - n) = i
      BY <1>1, <3>1, <3>2
    <3>4. i - n \in B /\ m[i - n] = i
      BY <1>1, <1>2, <3>1, <3>3 DEF LinesIn
    <3>. QED
      BY <3>4
  <2>2. ASSUME NEW i \in LinesIn(s, A) PROVE i \in LinesIn(u, A)
    <3>1. i \in 1..n /\ s[i].account \in A
      BY <1>1 DEF LinesIn
    <3>2. i \in 1..(n + Len(t))
      BY <1>1, <3>1
    <3>. QED
      BY <1>1, <3>1, <3>2 DEF LinesIn
  <2>3. ASSUME NEW j \in B PROVE m[j] \in LinesIn(u, A)
    <3>1. j \in 1..Len(t) /\ t[j].account \in A /\ m[j] = n + j
      BY <1>1, <1>2 DEF LinesIn
    <3>2. n + j \in 1..(n + Len(t))
      BY <1>1, <3>1
    <3>. QED
      BY <1>1, <3>1, <3>2 DEF LinesIn
  <2> HIDE DEF B
  <2>. QED
    BY <2>1, <2>2, <2>3
<1>4. LinesIn(s, A) \cap C = {}
  <2> SUFFICES ASSUME NEW j \in B PROVE m[j] \notin LinesIn(s, A)
    OBVIOUS
  <2>1. j \in 1..Len(t) /\ m[j] = n + j
    BY <1>1, <1>2
  <2>2. m[j] \notin 1..n
    BY <1>1, <2>1
  <2>. QED
    BY <1>1, <2>2 DEF LinesIn
<1>5. IsFiniteSet(LinesIn(s, A)) /\ IsFiniteSet(B) /\ IsFiniteSet(LinesIn(u, A))
  BY <1>1, LineNetsType
<1>6. IsFiniteSet(C)
  BY <1>3, <1>5, FS_Subset
<1>7. \A i \in LinesIn(u, A) : LineNets(u)[i] \in Int
  BY <1>1, LineNetsType
<1>8. ASSUME NEW i \in LinesIn(s, A) PROVE LineNets(u)[i] = LineNets(s)[i]
  <2>1. i \in DOMAIN s /\ i \in DOMAIN u /\ u[i] = s[i]
    BY <1>1, <1>3 DEF LinesIn
  <2>. QED
    BY <2>1 DEF LineNets
<1>9. ASSUME NEW j \in B PROVE LineNets(u)[m[j]] = LineNets(t)[j] /\ LineNets(u)[m[j]] \in Int
  <2>1. m[j] \in LinesIn(u, A) /\ j \in DOMAIN t /\ m[j] = n + j
    BY <1>2, <1>3
  <2>2. m[j] \in DOMAIN u /\ u[m[j]] = t[j]
    BY <1>1, <2>1 DEF LinesIn
  <2>. QED
    BY <1>7, <2>1, <2>2 DEF LineNets
<1>10. \A i, j \in B : m[i] = m[j] => i = j
  <2> TAKE i, j \in B
  <2>1. m[i] = n + i /\ m[j] = n + j /\ i \in Nat /\ j \in Nat
    BY <1>1, <1>2
  <2>. QED
    BY <1>1, <2>1
<1> HIDE DEF C, B
<1>11. Sum(LineNets(u), LinesIn(u, A)) = Sum(LineNets(u), LinesIn(s, A)) + Sum(LineNets(u), C)
  BY <1>3, <1>4, <1>5, <1>6, <1>7, SumUnion DEF Sum
<1>12. Sum(LineNets(u), LinesIn(s, A)) = Sum(LineNets(s), LinesIn(s, A))
  BY <1>5, <1>8, SumCongruence DEF Sum
<1>13. Sum(LineNets(t), B) = Sum(LineNets(u), C)
  BY <1>5, <1>9, <1>10, SumReindexed DEF Sum, C
<1>. QED
  BY <1>11, <1>12, <1>13 DEF LinesNet, B, u

\* A numbering of a finite set names each of its elements once.
LEMMA SetToSeqOnto ==
    ASSUME NEW S, IsFiniteSet(S)
    PROVE  /\ SetToSeq(S) \in [1..Cardinality(S) -> S]
           /\ \A i, j \in 1..Cardinality(S) : SetToSeq(S)[i] = SetToSeq(S)[j] => i = j
           /\ \A x \in S : \E i \in 1..Cardinality(S) : SetToSeq(S)[i] = x
<1> DEFINE I == 1..Cardinality(S)
           f == SetToSeq(S)
<1>1. Cardinality(S) \in Nat /\ ExistsBijection(I, S)
  BY FS_CardinalityType
<1>2. \E g \in [I -> S] : IsInjective(g)
  BY <1>1 DEF ExistsBijection, Bijection, Injection, IsInjective
<1>3. f \in [I -> S] /\ IsInjective(f)
  BY <1>2 DEF SetToSeq
<1> HIDE DEF f
<1>4. \A i, j \in I : f[i] = f[j] => i = j
  BY <1>3 DEF IsInjective
<1>5. f \in Injection(I, S)
  BY <1>3 DEF Injection
<1>6. Cardinality(I) = Cardinality(S)
  BY <1>1, FS_Interval
<1>7. f \in Surjection(I, S)
  BY <1>5, <1>6, FS_Injection
<1>. QED
  BY <1>3, <1>4, <1>7 DEF Surjection, f

\* The rows of a set that are on the accounts A.
RowsOn(R, A) == {r \in R : r[2] \in A}

\* A document with a line per row of R, which adds f of it.
RowLines(ls, R, f) ==
    /\ ls \in Seq(Line) /\ DOMAIN ls = 1..Cardinality(R)
    /\ \A r \in R : f[r] \in Int
    /\ \A i \in DOMAIN ls : /\ ls[i].account = SetToSeq(R)[i][2]
                             /\ ls[i].debit - ls[i].credit = f[SetToSeq(R)[i]]

\* One line per row of a set: what the lines on the accounts A add.
LEMMA NetOfRowLines ==
    ASSUME NEW R, IsFiniteSet(R), NEW ls, NEW f, NEW A, RowLines(ls, R, f)
    PROVE  LinesNet(ls, A) = Sum(f, RowsOn(R, A))
<1> DEFINE m == SetToSeq(R)
           T == LinesIn(ls, A)
           U == RowsOn(R, A)
<1> USE DEF RowLines
<1>1. /\ \A i \in DOMAIN ls : m[i] \in R
      /\ \A i, j \in DOMAIN ls : m[i] = m[j] => i = j
      /\ \A r \in R : \E i \in DOMAIN ls : m[i] = r
  <2> HIDE DEF m
  <2>1. m = SetToSeq(R)
    BY DEF m
  <2>2. /\ m \in [1..Cardinality(R) -> R]
        /\ \A i, j \in 1..Cardinality(R) : m[i] = m[j] => i = j
        /\ \A x \in R : \E i \in 1..Cardinality(R) : m[i] = x
    BY <2>1, SetToSeqOnto
  <2>. QED
    BY <2>2
<1>2. T \subseteq DOMAIN ls /\ IsFiniteSet(T)
  BY LineNetsType
<1> HIDE DEF m
<1>3. \A i \in T : f[m[i]] \in Int /\ LineNets(ls)[i] = f[m[i]]
  BY <1>1, <1>2 DEF LineNets, m
<1>4. U = {m[i] : i \in T}
  BY <1>1, <1>2 DEF LinesIn, RowsOn, m
<1>5. \A i, j \in T : m[i] = m[j] => i = j
  BY <1>1, <1>2
<1> HIDE DEF T, U
<1>6. Sum(LineNets(ls), T) = Sum(f, {m[i] : i \in T})
  BY <1>2, <1>3, <1>5, SumReindexed DEF Sum
<1>. QED
  BY <1>4, <1>6 DEF LinesNet, T, U

\* A document without lines adds nothing.
LEMMA NetOfNone == \A A : LinesNet(<< >>, A) = 0
<1> TAKE A
<1>1. LinesIn(<< >>, A) = {}
  BY DEF LinesIn
<1>. QED
  BY <1>1, SumEmpty DEF LinesNet, Sum

\* A document of one line adds that line, or nothing.
LEMMA NetOfOne ==
    ASSUME NEW x \in Line, NEW n, n = x.debit - x.credit, NEW A
    PROVE  /\ <<x>> \in Seq(Line) /\ n \in Int
           /\ x.account \in A => LinesNet(<<x>>, A) = n
           /\ x.account \notin A => LinesNet(<<x>>, A) = 0
<1> DEFINE ls == <<x>>
<1>1. /\ DOMAIN ls = {1} /\ ls[1] = x /\ ls \in Seq(Line)
  OBVIOUS
<1> HIDE DEF ls
<1>2. n \in Int
  BY DEF Line
<1>3. LineNets(ls)[1] = n
  BY <1>1 DEF LineNets
<1>4. ASSUME x.account \in A PROVE LinesNet(ls, A) = n
  <2>1. LinesIn(ls, A) = {1}
    BY <1>1, <1>4 DEF LinesIn
  <2>2. IsFiniteSet({1}) /\ {1} \ {1} = {}
    BY FS_Singleton
  <2>3. Sum(LineNets(ls), {1}) = LineNets(ls)[1] + Sum(LineNets(ls), {1} \ {1})
    BY <1>2, <1>3, <2>2, SumRemove DEF Sum
  <2>4. Sum(LineNets(ls), {}) = 0
    BY SumEmpty DEF Sum
  <2>5. LinesNet(ls, A) = Sum(LineNets(ls), {1})
    BY <2>1 DEF LinesNet
  <2>. QED
    BY <1>2, <1>3, <2>2, <2>3, <2>4, <2>5
<1>5. ASSUME x.account \notin A PROVE LinesNet(ls, A) = 0
  <2>1. LinesIn(ls, A) = {}
    BY <1>1, <1>5 DEF LinesIn
  <2>. QED
    BY <2>1, SumEmpty DEF LinesNet, Sum
<1>. QED
  BY <1>1, <1>2, <1>4, <1>5 DEF ls

\* Two lines, one after the other.
LEMMA TwoLines == \A x, y : <<x, y>> = <<x>> \o <<y>>
<1> TAKE x, y
<1> DEFINE S == {x, y}
<1>1. /\ <<x>> \in Seq(S) /\ <<y>> \in Seq(S) /\ <<x, y>> \in Seq(S)
      /\ Len(<<x>>) = 1 /\ Len(<<y>>) = 1 /\ Len(<<x, y>>) = 2
  OBVIOUS
<1>2. /\ <<x>> \o <<y>> \in Seq(S) /\ Len(<<x>> \o <<y>>) = 2
      /\ \A i \in 1..2 : (<<x>> \o <<y>>)[i] = IF i <= 1 THEN <<x>>[i] ELSE <<y>>[i - 1]
  BY <1>1, ConcatProperties
<1>3. \A i \in 1..2 : (<<x>> \o <<y>>)[i] = <<x, y>>[i]
  BY <1>2
<1>. QED
  BY <1>1, <1>2, <1>3, SeqEqual

\* The rows a closing empties, and their net on the accounts A.
ClosedRows(p)  == ClosedRevenue(p) \cup ClosedExpense(p)
ClosedNet(p, A) == Sum([r \in ClosedRows(p) |-> Net(r)], RowsOn(ClosedRows(p), A))

\* The lines of a closing empty the closed rows and carry their net to 421;
\* what goes through 911 comes out again.
LEMMA ClosingNet ==
    ASSUME TypeOK, NEW p \in Periods, NEW A \in SUBSET Accounts
    PROVE  /\ ClosedNet(p, A) \in Int /\ ClosedNet(p, Accounts) \in Int
           /\ LinesNet(ClosingLines(p), A) =
                  (IF ProfitAccount \in A THEN ClosedNet(p, Accounts) ELSE 0) - ClosedNet(p, A)
<1> DEFINE R == ClosedRevenue(p)
           E == ClosedExpense(p)
           revenue == SetToSeq(R)
           expense == SetToSeq(E)
           nR == [r \in R |-> Net(r)]
           nE == [r \in E |-> Net(r)]
           fR == [r \in R |-> 0 - Net(r)]
           fE == [r \in E |-> 0 - Net(r)]
           all == [r \in ClosedRows(p) |-> Net(r)]
           RA == RowsOn(R, A)
           EA == RowsOn(E, A)
           earned  == 0 - Sum(nR, R)
           spent   == Sum(nE, E)
           profit  == earned - spent
           s1 == [i \in DOMAIN revenue |-> DebitLine(revenue[i][2], 0 - Net(revenue[i]))]
           s2 == IF earned > 0 THEN <<CreditLine(ResultAccount, earned)>> ELSE << >>
           s3 == IF spent > 0 THEN <<DebitLine(ResultAccount, spent)>> ELSE << >>
           s4 == [i \in DOMAIN expense |-> CreditLine(expense[i][2], Net(expense[i]))]
           s5 == IF profit > 0 THEN <<DebitLine(ResultAccount, profit),
                                      CreditLine(ProfitAccount, profit)>> ELSE << >>
           s6 == IF profit < 0 THEN <<DebitLine(ProfitAccount, 0 - profit),
                                      CreditLine(ResultAccount, 0 - profit)>> ELSE << >>
<1>1. /\ R \subseteq Rows /\ E \subseteq Rows /\ IsFiniteSet(R) /\ IsFiniteSet(E)
      /\ R \cap E = {}
      /\ \A r \in R : Net(r) < 0
      /\ \A r \in E : Net(r) > 0
  <2>1. R \subseteq Rows /\ E \subseteq Rows
    BY DEF ClosedRevenue, ClosedExpense, TypeOK
  <2>2. R \cap E = {}
    BY AccountAssumption DEF ClosedRevenue, ClosedExpense
  <2>. QED
    BY <2>1, <2>2, FiniteConstants, FS_Subset DEF ClosedRevenue, ClosedExpense
<1>2. \A r \in Rows : Net(r) \in Int /\ r[2] \in Accounts
  BY DEF Net, Entry, Rows, TypeOK
<1>3. \A a \in Accounts, x \in Int :
          /\ DebitLine(a, x) \in Line /\ CreditLine(a, x) \in Line
          /\ DebitLine(a, x).account = a /\ CreditLine(a, x).account = a
          /\ DebitLine(a, x).debit - DebitLine(a, x).credit = x
          /\ CreditLine(a, x).debit - CreditLine(a, x).credit = 0 - x
  BY ObjectAssumption DEF DebitLine, CreditLine, Line
<1>4. earned \in Nat /\ spent \in Nat /\ profit \in Int
  <2> HIDE DEF R, E
  <2>0. /\ \A r \in R : Net(r) \in Int /\ 0 - Net(r) \in Nat
        /\ \A r \in E : Net(r) \in Nat
    BY <1>1, <1>2
  <2>1. \A r \in R : fR[r] \in Nat /\ nR[r] \in Int /\ fR[r] = 0 - nR[r]
    BY <2>0
  <2>2. \A r \in E : nE[r] \in Nat
    BY <2>0
  <2> HIDE DEF R, E, nR, nE, fR
  <2>3. Sum(fR, R) \in Nat /\ Sum(nE, E) \in Nat
    BY <1>1, <2>1, <2>2, SumNat DEF Sum
  <2>4. Sum(fR, R) = 0 - Sum(nR, R) /\ Sum(nR, R) \in Int
    BY <1>1, <2>1, SumNegated, SumInt DEF Sum
  <2>. QED
    BY <2>3, <2>4
<1>5. /\ revenue \in [1..Cardinality(R) -> R] /\ Cardinality(R) \in Nat
      /\ expense \in [1..Cardinality(E) -> E] /\ Cardinality(E) \in Nat
  BY <1>1, SetToSeqOnto, FS_CardinalityType
<1>6. /\ ClosedRows(p) = R \cup E
      /\ RowsOn(ClosedRows(p), A) = RA \cup EA
      /\ RowsOn(ClosedRows(p), Accounts) = R \cup E
      /\ RA \subseteq R /\ EA \subseteq E /\ RA \cap EA = {}
  BY <1>1, <1>2 DEF ClosedRows, RowsOn
<1>7. /\ \A r \in R : nR[r] = Net(r) /\ fR[r] = 0 - Net(r) /\ all[r] = Net(r)
      /\ \A r \in E : nE[r] = Net(r) /\ fE[r] = 0 - Net(r) /\ all[r] = Net(r)
  BY <1>6
<1>8. /\ ClosedNet(p, A) = Sum(all, RA \cup EA)
      /\ ClosedNet(p, Accounts) = Sum(all, R \cup E)
  BY <1>6 DEF ClosedNet
<1>9. ClosingLines(p) = s1 \o s2 \o s3 \o s4 \o s5 \o s6
  BY DEF ClosingLines
<1>10. DOMAIN revenue = 1..Cardinality(R) /\ DOMAIN expense = 1..Cardinality(E)
  BY <1>5
<1> HIDE DEF R, E, revenue, expense, nR, nE, fR, fE, all, earned, spent, profit
<1>11. /\ s1 \in Seq(Line) /\ DOMAIN s1 = 1..Cardinality(R)
       /\ s4 \in Seq(Line) /\ DOMAIN s4 = 1..Cardinality(E)
  <2>1. s1 \in [1..Cardinality(R) -> Line] /\ s4 \in [1..Cardinality(E) -> Line]
    BY <1>1, <1>2, <1>3, <1>5
  <2>. QED
    BY <1>5, <2>1, SegmentSeq
<1>12. LinesNet(s1, A) = Sum(fR, RA)
  <2>1. \A i \in DOMAIN s1 : /\ s1[i].account = SetToSeq(R)[i][2]
                             /\ s1[i].debit - s1[i].credit = fR[SetToSeq(R)[i]]
    <3> TAKE i \in DOMAIN s1
    <3>1. revenue[i] \in R /\ s1[i] = DebitLine(revenue[i][2], 0 - Net(revenue[i]))
      BY <1>5, <1>11
    <3>2. Net(revenue[i]) \in Int /\ revenue[i][2] \in Accounts /\ fR[revenue[i]] = 0 - Net(revenue[i])
      BY <1>1, <1>2, <1>7, <3>1
    <3>. QED
      BY <1>3, <3>1, <3>2 DEF revenue
  <2>2. \A r \in R : fR[r] \in Int
    BY <1>1, <1>2, <1>7
  <2> HIDE DEF s1
  <2>3. RowLines(s1, R, fR)
    BY <1>11, <2>1, <2>2 DEF RowLines
  <2>. QED
    BY <1>1, <2>3, NetOfRowLines
<1>13. LinesNet(s4, A) = Sum(fE, EA)
  <2>1. \A i \in DOMAIN s4 : /\ s4[i].account = SetToSeq(E)[i][2]
                             /\ s4[i].debit - s4[i].credit = fE[SetToSeq(E)[i]]
    <3> TAKE i \in DOMAIN s4
    <3>1. expense[i] \in E /\ s4[i] = CreditLine(expense[i][2], Net(expense[i]))
      BY <1>5, <1>11
    <3>2. Net(expense[i]) \in Int /\ expense[i][2] \in Accounts /\ fE[expense[i]] = 0 - Net(expense[i])
      BY <1>1, <1>2, <1>7, <3>1
    <3>. QED
      BY <1>3, <3>1, <3>2 DEF expense
  <2>2. \A r \in E : fE[r] \in Int
    BY <1>1, <1>2, <1>7
  <2> HIDE DEF s4
  <2>3. RowLines(s4, E, fE)
    BY <1>11, <2>1, <2>2 DEF RowLines
  <2>. QED
    BY <1>1, <2>3, NetOfRowLines
<1> DEFINE via(x) == IF ResultAccount \in A THEN x ELSE 0
           to(x)  == IF ProfitAccount \in A THEN x ELSE 0
<1>14. s2 \in Seq(Line) /\ LinesNet(s2, A) = via(0 - earned)
  <2>1. CASE earned > 0
    <3>1. PICK x : x = CreditLine(ResultAccount, earned)
      OBVIOUS
    <3>2. x \in Line /\ x.account = ResultAccount /\ x.debit - x.credit = 0 - earned
      BY <1>3, <1>4, <3>1, AccountAssumption
    <3>3. s2 = <<x>>
      BY <2>1, <3>1
    <3>4. /\ <<x>> \in Seq(Line)
          /\ ResultAccount \in A => LinesNet(<<x>>, A) = 0 - earned
          /\ ResultAccount \notin A => LinesNet(<<x>>, A) = 0
      BY <3>2, NetOfOne
    <3> HIDE DEF s2
    <3>. QED
      BY <3>3, <3>4
  <2>2. CASE ~(earned > 0)
    <3>1. s2 = << >> /\ earned = 0
      BY <1>4, <2>2
    <3>. QED
      BY <3>1, NetOfNone
  <2>. QED
    BY <2>1, <2>2
<1>15. s3 \in Seq(Line) /\ LinesNet(s3, A) = via(spent)
  <2>1. CASE spent > 0
    <3>1. PICK x : x = DebitLine(ResultAccount, spent)
      OBVIOUS
    <3>2. x \in Line /\ x.account = ResultAccount /\ x.debit - x.credit = spent
      BY <1>3, <1>4, <3>1, AccountAssumption
    <3>3. s3 = <<x>>
      BY <2>1, <3>1
    <3>4. /\ <<x>> \in Seq(Line)
          /\ ResultAccount \in A => LinesNet(<<x>>, A) = spent
          /\ ResultAccount \notin A => LinesNet(<<x>>, A) = 0
      BY <3>2, NetOfOne
    <3> HIDE DEF s3
    <3>. QED
      BY <3>3, <3>4
  <2>2. CASE ~(spent > 0)
    <3>1. s3 = << >> /\ spent = 0
      BY <1>4, <2>2
    <3>. QED
      BY <3>1, NetOfNone
  <2>. QED
    BY <2>1, <2>2
<1>16. /\ s5 \in Seq(Line) /\ s6 \in Seq(Line)
       /\ LinesNet(s5, A) + LinesNet(s6, A) = via(profit) + to(0 - profit)
  <2> DEFINE x == DebitLine(ResultAccount, profit)
             y == CreditLine(ProfitAccount, profit)
             z == DebitLine(ProfitAccount, 0 - profit)
             w == CreditLine(ResultAccount, 0 - profit)
  <2>1. x \in Line /\ y \in Line /\ z \in Line /\ w \in Line /\ 0 - profit \in Int
    BY <1>3, <1>4, AccountAssumption
  <2>2. /\ x.account = ResultAccount /\ x.debit - x.credit = profit
        /\ y.account = ProfitAccount /\ y.debit - y.credit = 0 - profit
    BY <1>3, <1>4, AccountAssumption
  <2>3. /\ z.account = ProfitAccount /\ z.debit - z.credit = 0 - profit
        /\ w.account = ResultAccount /\ w.debit - w.credit = 0 - (0 - profit)
    BY <1>3, <1>4, <2>1, AccountAssumption
  <2>4. /\ s5 = IF profit > 0 THEN <<x, y>> ELSE << >>
        /\ s6 = IF profit < 0 THEN <<z, w>> ELSE << >>
    OBVIOUS
  <2> HIDE DEF x, y, z, w
  <2>5. /\ LinesNet(<<x>>, A) = via(profit) /\ LinesNet(<<y>>, A) = to(0 - profit)
        /\ LinesNet(<<z>>, A) = to(0 - profit) /\ LinesNet(<<w>>, A) = via(0 - (0 - profit))
    <3>1. /\ ResultAccount \in A => LinesNet(<<x>>, A) = profit
          /\ ResultAccount \notin A => LinesNet(<<x>>, A) = 0
      BY <2>1, <2>2, NetOfOne
    <3>2. /\ ProfitAccount \in A => LinesNet(<<y>>, A) = 0 - profit
          /\ ProfitAccount \notin A => LinesNet(<<y>>, A) = 0
      BY <2>1, <2>2, NetOfOne
    <3>3. /\ ProfitAccount \in A => LinesNet(<<z>>, A) = 0 - profit
          /\ ProfitAccount \notin A => LinesNet(<<z>>, A) = 0
      BY <2>1, <2>3, NetOfOne
    <3>4. /\ ResultAccount \in A => LinesNet(<<w>>, A) = 0 - (0 - profit)
          /\ ResultAccount \notin A => LinesNet(<<w>>, A) = 0
      BY <2>1, <2>3, NetOfOne
    <3>. QED
      BY <3>1, <3>2, <3>3, <3>4
  <2>6. /\ <<x>> \in Seq(Line) /\ <<y>> \in Seq(Line) /\ <<z>> \in Seq(Line) /\ <<w>> \in Seq(Line)
        /\ <<x, y>> = <<x>> \o <<y>> /\ <<z, w>> = <<z>> \o <<w>>
    BY <2>1, NetOfOne, TwoLines
  <2>7. /\ LinesNet(<<x, y>>, A) = via(profit) + to(0 - profit)
        /\ LinesNet(<<z, w>>, A) = to(0 - profit) + via(0 - (0 - profit))
    <3>1. /\ LinesNet(<<x>> \o <<y>>, A) = LinesNet(<<x>>, A) + LinesNet(<<y>>, A)
          /\ LinesNet(<<z>> \o <<w>>, A) = LinesNet(<<z>>, A) + LinesNet(<<w>>, A)
      BY <2>6, NetOfBoth
    <3> HIDE DEF via, to
    <3>. QED
      BY <2>5, <2>6, <3>1
  <2>8. LinesNet(<< >>, A) = 0
    BY NetOfNone
  <2>9. s5 \in Seq(Line) /\ s6 \in Seq(Line)
    BY <2>1, <2>4
  <2> HIDE DEF s5, s6
  <2>10. CASE profit > 0
    <3>1. s5 = <<x, y>> /\ s6 = << >>
      BY <1>4, <2>4, <2>10
    <3>. QED
      BY <1>4, <2>7, <2>8, <2>9, <3>1
  <2>11. CASE profit < 0
    <3>1. s5 = << >> /\ s6 = <<z, w>>
      BY <1>4, <2>4, <2>11
    <3>. QED
      BY <1>4, <2>7, <2>8, <2>9, <3>1
  <2>12. CASE profit = 0
    <3>1. s5 = << >> /\ s6 = << >>
      BY <2>4, <2>12
    <3>. QED
      BY <2>8, <2>9, <2>12, <3>1
  <2>. QED
    BY <1>4, <2>10, <2>11, <2>12
<1> HIDE DEF s1, s2, s3, s4, s5, s6
<1>17. LinesNet(ClosingLines(p), A) = LinesNet(s1, A) + LinesNet(s2, A) + LinesNet(s3, A)
                                      + LinesNet(s4, A) + LinesNet(s5, A) + LinesNet(s6, A)
  <2> DEFINE t2 == s1 \o s2
             t3 == t2 \o s3
             t4 == t3 \o s4
             t5 == t4 \o s5
  <2>1. ClosingLines(p) = t5 \o s6
    BY <1>9
  <2>2. t2 \in Seq(Line) /\ LinesNet(t2, A) = LinesNet(s1, A) + LinesNet(s2, A)
    BY <1>11, <1>14, NetOfBoth, ConcatProperties
  <2> HIDE DEF t2
  <2>3. t3 \in Seq(Line) /\ LinesNet(t3, A) = LinesNet(t2, A) + LinesNet(s3, A)
    BY <1>15, <2>2, NetOfBoth, ConcatProperties
  <2> HIDE DEF t3
  <2>4. t4 \in Seq(Line) /\ LinesNet(t4, A) = LinesNet(t3, A) + LinesNet(s4, A)
    BY <1>11, <2>3, NetOfBoth, ConcatProperties
  <2> HIDE DEF t4
  <2>5. t5 \in Seq(Line) /\ LinesNet(t5, A) = LinesNet(t4, A) + LinesNet(s5, A)
    BY <1>16, <2>4, NetOfBoth, ConcatProperties
  <2> HIDE DEF t5
  <2>6. LinesNet(ClosingLines(p), A) = LinesNet(t5, A) + LinesNet(s6, A)
    BY <1>16, <2>1, <2>5, NetOfBoth
  <2>. QED
    BY <2>2, <2>3, <2>4, <2>5, <2>6
<1>18. /\ Sum(all, RA) \in Int /\ Sum(all, EA) \in Int
       /\ Sum(all, R) = 0 - earned /\ Sum(all, E) = spent
       /\ Sum(fR, RA) = 0 - Sum(all, RA) /\ Sum(fE, EA) = 0 - Sum(all, EA)
       /\ Sum(all, RA \cup EA) = Sum(all, RA) + Sum(all, EA)
       /\ Sum(all, R \cup E) = Sum(all, R) + Sum(all, E)
  <2>1. IsFiniteSet(RA) /\ IsFiniteSet(EA)
    BY <1>1, <1>6, FS_Subset
  <2>2. \A r \in R \cup E : all[r] \in Int
    BY <1>1, <1>2, <1>7
  <2>3. /\ \A r \in RA : all[r] \in Int /\ fR[r] = 0 - all[r]
        /\ \A r \in EA : all[r] \in Int /\ fE[r] = 0 - all[r]
        /\ \A r \in RA \cup EA : all[r] \in Int
    BY <1>6, <1>7, <2>2
  <2>4. \A r \in R : all[r] = nR[r]
    BY <1>7
  <2>5. \A r \in E : all[r] = nE[r]
    BY <1>7
  <2>6. /\ Sum(fR, RA) = 0 - Sum(all, RA) /\ Sum(fE, EA) = 0 - Sum(all, EA)
        /\ Sum(all, RA) \in Int /\ Sum(all, EA) \in Int
    BY <2>1, <2>3, SumNegated, SumInt DEF Sum
  <2>7. Sum(all, RA \cup EA) = Sum(all, RA) + Sum(all, EA)
    BY <1>6, <2>1, <2>3, SumUnion DEF Sum
  <2>8. Sum(all, R \cup E) = Sum(all, R) + Sum(all, E)
    BY <1>1, <2>2, SumUnion DEF Sum
  <2>9. Sum(all, R) = Sum(nR, R) /\ Sum(all, E) = Sum(nE, E) /\ Sum(all, R) \in Int
    BY <1>1, <2>2, <2>4, <2>5, SumCongruence, SumInt DEF Sum
  <2>10. Sum(nR, R) = 0 - earned /\ Sum(nE, E) = spent
    BY <2>9 DEF earned, spent
  <2>. QED
    BY <2>6, <2>7, <2>8, <2>9, <2>10
<1>19. profit = earned - spent
  BY DEF profit
<1>20. via(0 - earned) + via(spent) + via(profit) = 0
  BY <1>4, <1>19
<1>21. /\ via(0 - earned) \in Int /\ via(spent) \in Int /\ via(profit) \in Int
       /\ to(0 - profit) \in Int /\ to(0 - profit) = to(Sum(all, R \cup E))
  BY <1>4, <1>18, <1>19
<1>22. /\ LinesNet(s5, A) \in Int /\ LinesNet(s6, A) \in Int
  BY <1>16, LineNetsType
<1> HIDE DEF via
<1>23. LinesNet(ClosingLines(p), A) = to(Sum(all, R \cup E)) - (Sum(all, RA) + Sum(all, EA))
  <2> HIDE DEF to
  <2>1. /\ LinesNet(s1, A) = 0 - Sum(all, RA) /\ LinesNet(s4, A) = 0 - Sum(all, EA)
        /\ LinesNet(s2, A) = via(0 - earned) /\ LinesNet(s3, A) = via(spent)
        /\ LinesNet(s5, A) + LinesNet(s6, A) = via(profit) + to(Sum(all, R \cup E))
    BY <1>12, <1>13, <1>14, <1>15, <1>16, <1>18, <1>21
  <2> HIDE DEF RA, EA
  <2>2. /\ LinesNet(s1, A) \in Int /\ LinesNet(s4, A) \in Int
    BY <1>11, LineNetsType
  <2>. QED
    BY <1>17, <1>18, <1>20, <1>21, <1>22, <2>1, <2>2
<1>. QED
  BY <1>4, <1>8, <1>18, <1>23

(***************************************************************************)
(* The trial balance.                                                      *)
(***************************************************************************)
\* The tolerance is about what all the lines add together.
LEMMA BalancedIs ==
    ASSUME NEW ls \in Seq(Line)
    PROVE  /\ LinesNet(ls, Accounts) = Sum(LineNets(ls), DOMAIN ls)
           /\ Balanced(ls) <=> LinesNet(ls, Accounts) \in -Tolerance..Tolerance
<1> DEFINE D == DOMAIN ls
<1>1. IsFiniteSet(D) /\ \A i \in D : /\ LineNets(ls)[i] \in Int /\ Credits(ls)[i] \in Int
                                     /\ Debits(ls)[i] = LineNets(ls)[i] + Credits(ls)[i]
  <2>1. \A i \in DOMAIN ls : /\ LineNets(ls)[i] \in Int /\ Credits(ls)[i] \in Int /\ Debits(ls)[i] \in Int
                             /\ LineNets(ls)[i] = Debits(ls)[i] - Credits(ls)[i]
    BY LineNumbers, LineNetsType
  <2>2. \A i \in DOMAIN ls : Debits(ls)[i] = LineNets(ls)[i] + Credits(ls)[i]
    BY <2>1
  <2>. QED
    BY <2>1, <2>2, LineNumbers
<1>2. LinesIn(ls, Accounts) = D
  BY LineNumbers DEF LinesIn, Line
<1> HIDE DEF D
<1>3. Sum(Debits(ls), D) = Sum(LineNets(ls), D) + Sum(Credits(ls), D)
  BY <1>1, SumPlus DEF Sum
<1>4. Sum(LineNets(ls), D) \in Int /\ Sum(Credits(ls), D) \in Int
  BY <1>1, SumInt DEF Sum
<1>5. Sum(Debits(ls), D) - Sum(Credits(ls), D) = LinesNet(ls, Accounts)
  BY <1>2, <1>3, <1>4 DEF LinesNet
<1>. QED
  BY <1>2, <1>5 DEF Balanced, D, LinesNet

\* What a voucher may be off by: not at all when a closing made it, even
\* while it is unposted, for it can be posted again.
OffBy(st, hd, ls, v) ==
    /\ st[v] = "posted" /\ hd[v].source = "manual" => LinesNet(ls[v], Accounts) \in -Tolerance..Tolerance
    /\ st[v] \in {"draft", "posted"} /\ hd[v].source = "closing" => LinesNet(ls[v], Accounts) = 0
DriftInv == \A v \in Vouchers : OffBy(status, header, lines, v)

\* A step that changes one voucher, or none, and leaves the others' lines.
LEMMA DriftKept ==
    ASSUME DriftInv, NEW v, OffBy(status', header', lines', v),
           \A w \in Vouchers \ {v} : /\ status'[w] = status[w] /\ header'[w] = header[w]
                                     /\ lines'[w] = lines[w]
    PROVE  DriftInv'
<1> SUFFICES ASSUME NEW w \in Vouchers PROVE OffBy(status', header', lines', w)
  BY DEF DriftInv, OffBy
<1>1. CASE w = v
  BY <1>1
<1>2. CASE w # v
  BY <1>2 DEF DriftInv, OffBy
<1>. QED
  BY <1>1, <1>2

\* A closing adds nothing to the sum over all accounts.
LEMMA ClosingAddsNothing ==
    ASSUME TypeOK, NEW p \in Periods
    PROVE  LinesNet(ClosingLines(p), Accounts) = 0
<1>1. ProfitAccount \in Accounts /\ Accounts \in SUBSET Accounts
  BY AccountAssumption
<1>2. ClosedNet(p, Accounts) \in Int
  BY <1>1, ClosingNet
<1>3. LinesNet(ClosingLines(p), Accounts) = ClosedNet(p, Accounts) - ClosedNet(p, Accounts)
  BY <1>1, ClosingNet
<1>. QED
  BY <1>2, <1>3

\* A rename changes no amount.
LEMMA RenameDrift ==
    ASSUME TypeOK, TypeOK', NEW a, NEW b, ChangeAccountCode(a, b), NEW v \in Vouchers
    PROVE  LinesNet(lines'[v], Accounts) = LinesNet(lines[v], Accounts)
<1>1. lines[v] \in Seq(Line) /\ lines'[v] \in Seq(Line)
  BY DEF TypeOK
<1>2. lines'[v] = [i \in DOMAIN lines[v] |->
                     [lines[v][i] EXCEPT !.account = IF @ = a THEN b ELSE @]]
  BY DEF ChangeAccountCode
<1>3. \A i \in DOMAIN lines[v] : lines[v][i] \in Line
  BY <1>1, LineNumbers
<1>4. /\ DOMAIN lines'[v] = DOMAIN lines[v]
      /\ \A i \in DOMAIN lines[v] : /\ lines'[v][i].debit = lines[v][i].debit
                                    /\ lines'[v][i].credit = lines[v][i].credit
  BY <1>2, <1>3 DEF Line
<1>5. LineNets(lines'[v]) = LineNets(lines[v])
  BY <1>4 DEF LineNets
<1>. QED
  BY <1>1, <1>4, <1>5, BalancedIs

\* No step breaks what the vouchers may be off by.
LEMMA DriftStep == ASSUME DriftInv, ProjectionInv, TypeOK', [Next]_vars PROVE DriftInv'
<1>0. TypeOK /\ DropIsDraft
  BY DEF ProjectionInv
<1>1. ASSUME NEW v \in Vouchers, NEW p \in Periods, NEW day \in Days, NEW doc \in Documents,
             NEW n \in 0..Len(doc), CreateVoucher(v, p, day, doc, n)
      PROVE  DriftInv'
  <2>1. /\ status'[v] = "draft" /\ header'[v].source = "manual"
        /\ \A w \in Vouchers \ {v} : /\ status'[w] = status[w] /\ header'[w] = header[w]
                                     /\ lines'[w] = lines[w]
    BY <1>0, <1>1 DEF CreateVoucher, TypeOK
  <2>2. OffBy(status', header', lines', v)
    BY <2>1 DEF OffBy
  <2>. QED
    BY <2>1, <2>2, DriftKept
<1>2. ASSUME NEW v \in Vouchers, Post(v)
      PROVE  DriftInv'
  <2>1. /\ status[v] = "draft" /\ header' = header /\ lines' = lines /\ Balanced(lines[v])
        /\ \A w \in Vouchers \ {v} : status'[w] = status[w]
        /\ lines[v] \in Seq(Line)
    BY <1>0, <1>2 DEF Post, Postable, TypeOK
  <2>2. OffBy(status', header', lines', v)
    BY <2>1, BalancedIs DEF DriftInv, OffBy
  <2>. QED
    BY <2>1, <2>2, DriftKept
<1>3. ASSUME NEW v \in Vouchers, Unpost(v)
      PROVE  DriftInv'
  <2>1. /\ status[v] = "posted" /\ header' = header /\ lines' = lines
        /\ status'[v] = "draft" /\ \A w \in Vouchers \ {v} : status'[w] = status[w]
    BY <1>0, <1>3 DEF Unpost, TypeOK
  <2>2. OffBy(status', header', lines', v)
    BY <2>1 DEF DriftInv, OffBy
  <2>. QED
    BY <2>1, <2>2, DriftKept
<1>4. ASSUME NEW v \in Vouchers, Erase(v)
      PROVE  DriftInv'
  <2>1. /\ status'[v] = "deleted"
        /\ \A w \in Vouchers \ {v} : /\ status'[w] = status[w] /\ header'[w] = header[w]
                                     /\ lines'[w] = lines[w]
    BY <1>0, <1>4 DEF Erase, TypeOK
  <2>2. OffBy(status', header', lines', v)
    BY <2>1 DEF OffBy
  <2>. QED
    BY <2>1, <2>2, DriftKept
<1>5. ASSUME NEW v \in Vouchers, NEW p \in Periods, ClosePeriod(v, p)
      PROVE  DriftInv'
  <2>1. /\ header'[v].source = "closing" /\ lines'[v] = ClosingLines(p)
        /\ \A w \in Vouchers \ {v} : /\ status'[w] = status[w] /\ header'[w] = header[w]
                                     /\ lines'[w] = lines[w]
    BY <1>0, <1>5 DEF ClosePeriod, TypeOK
  <2>2. OffBy(status', header', lines', v)
    BY <1>0, <2>1, ClosingAddsNothing DEF OffBy
  <2>. QED
    BY <2>1, <2>2, DriftKept
<1>6. ASSUME NEW a, NEW b, ChangeAccountCode(a, b)
      PROVE  DriftInv'
  <2>1. status' = status /\ header' = header
    BY <1>6 DEF ChangeAccountCode
  <2>2. \A v \in Vouchers : LinesNet(lines'[v], Accounts) = LinesNet(lines[v], Accounts)
    BY <1>0, <1>6, RenameDrift
  <2>3. \A v \in Vouchers : OffBy(status', header', lines', v)
    BY <2>1, <2>2 DEF DriftInv, OffBy
  <2>. QED
    BY <2>3 DEF DriftInv, OffBy
<1>7. CASE UNCHANGED <<status, header, lines>>
  BY <1>7 DEF DriftInv, OffBy
<1>. QED
  BY <1>1, <1>2, <1>3, <1>4, <1>5, <1>6, <1>7
     DEF Next, FinishEntry, PostVoucher, DeleteVoucher, ReopenPeriod, RemoveVoucher,
         FinishRemoval, FinishRename, Crash, vars, ClosingOf, InUse

\* TrialBalanceWithinTolerance holds: only vouchers keyed in by hand put the
\* books out of balance, each by no more than BALANCE_TOLERANCE.
THEOREM TrialBalanceStaysWithinTolerance == Spec => []TrialBalanceWithinTolerance
<1>1. Init => DriftInv
  BY DEF Init, DriftInv, OffBy
<1>2. ProjectionInv /\ ProjectionInv' /\ [Next]_vars /\ DriftInv => DriftInv'
  BY DriftStep DEF ProjectionInv
<1>3. ProjectionInv /\ DriftInv => TrialBalanceWithinTolerance
  <2> SUFFICES ASSUME ProjectionInv, DriftInv, NEW p \in Periods
               PROVE  LET byHand == {v \in PostedIn(p) : header[v].source = "manual"}
                          drift  == Tolerance * Cardinality(byHand)
                      IN  NetOf(p, Accounts) \in -drift..drift
    BY DEF TrialBalanceWithinTolerance
  <2> DEFINE byHand == {v \in PostedIn(p) : header[v].source = "manual"}
             net == [v \in Vouchers |-> LinesNet(lines[v], Accounts)]
  <2>1. TypeOK /\ BalanceIsProjection
    BY DEF ProjectionInv
  <2>2. PostedIn(p) \subseteq Vouchers /\ byHand \subseteq PostedIn(p)
    BY DEF PostedIn, Posted
  <2>3. IsFiniteSet(PostedIn(p)) /\ IsFiniteSet(byHand)
    BY <2>2, FiniteConstants, FS_Subset
  <2>4. \A v \in Vouchers : net[v] \in Int /\ net[v] = LinesNet(lines[v], Accounts)
    BY <2>1, LineNetsType DEF TypeOK
  <2>5. ASSUME NEW v \in byHand PROVE net[v] \in Int /\ net[v] <= Tolerance /\ 0 - net[v] <= Tolerance
    <3>1. LinesNet(lines[v], Accounts) \in -Tolerance..Tolerance
      BY <2>2 DEF DriftInv, OffBy, PostedIn, Posted
    <3>2. net[v] \in Int /\ net[v] \in -Tolerance..Tolerance
      BY <2>2, <2>4, <3>1
    <3> HIDE DEF net
    <3>. QED
      BY <3>2, ToleranceAssumption
  <2>6. ASSUME NEW v \in PostedIn(p) \ byHand PROVE net[v] = 0
    <3>1. v \in Vouchers /\ status[v] = "posted" /\ header[v].source = "closing"
      BY <2>1 DEF PostedIn, Posted, TypeOK, Header, Sources
    <3>. QED
      BY <2>4, <3>1 DEF DriftInv, OffBy
  <2>7. NetOf(p, Accounts) = Sum(net, PostedIn(p))
    BY <2>1, NetIsVouchers
  <2> HIDE DEF net, byHand
  <2>8. Sum(net, PostedIn(p)) = Sum(net, byHand)
    BY <2>2, <2>3, <2>5, <2>6, SumSupport DEF Sum
  <2> DEFINE x == Sum(net, byHand)
             drift == Tolerance * Cardinality(byHand)
  <2>9. x \in Int /\ x <= drift /\ 0 - x <= drift
    BY <2>3, <2>5, SumWithin, ToleranceAssumption DEF Sum
  <2>10. drift \in Int
    BY <2>3, FS_CardinalityType, ToleranceAssumption
  <2> HIDE DEF x, drift
  <2>11. x \in -drift..drift
    BY <2>9, <2>10
  <2>. QED
    BY <2>7, <2>8, <2>11 DEF x, drift, byHand
<1>. QED
  BY <1>1, <1>2, <1>3, ProjectionAlways, PTL DEF Spec

(***************************************************************************)
(* What a closing moves.                                                   *)
(***************************************************************************)
\* Adding a document to the rows of its period adds what its lines add.
LEMMA NetAdded ==
    ASSUME TypeOK, NEW p \in Periods, NEW ls \in Seq(Line), balance' = Added(balance, p, ls), NEW A
    PROVE  NetOf(p, A) \in Int /\ NetOf(p, A)' = NetOf(p, A) + LinesNet(ls, A)
<1> DEFINE S   == RowsOf(p, A)
           old == [r \in Rows |-> Net(r)]
           new == [r \in Rows |-> balance'[r].debit - balance'[r].credit]
           mv  == [r \in Rows |-> NetMoved(p, ls, r)]
<1>1. S \subseteq Rows /\ IsFiniteSet(S)
  BY RowsOfFinite
<1>2. ASSUME NEW r \in Rows PROVE old[r] \in Int /\ mv[r] \in Int /\ new[r] = old[r] + mv[r]
  <2> DEFINE m == Movement(p, ls, r)
  <2>1. balance[r].debit \in Int /\ balance[r].credit \in Int
    BY DEF TypeOK, Entry
  <2>2. m.debit \in Int /\ m.credit \in Int
    BY MovementType DEF Entry
  <2>3. balance'[r].debit = balance[r].debit + m.debit /\ balance'[r].credit = balance[r].credit + m.credit
    BY DEF Added
  <2>4. old[r] = balance[r].debit - balance[r].credit /\ mv[r] = m.debit - m.credit
        /\ new[r] = balance'[r].debit - balance'[r].credit
    BY DEF Net, NetMoved
  <2> HIDE DEF m, old, mv, new
  <2>. QED
    BY <2>1, <2>2, <2>3, <2>4
<1>3. NetOf(p, A) = Sum(old, S) /\ NetOf(p, A)' = Sum(new, S) /\ Sum(mv, S) = LinesNet(ls, A)
  BY DocumentNet DEF NetOf, Net, RowsOf
<1> HIDE DEF old, new, mv, S
<1>4. Sum(new, S) = Sum(old, S) + Sum(mv, S) /\ Sum(old, S) \in Int
  <2>1. \A r \in S : old[r] \in Int /\ mv[r] \in Int /\ new[r] = old[r] + mv[r]
    BY <1>1, <1>2
  <2>. QED
    BY <1>1, <2>1, SumPlus, SumInt DEF Sum
<1>. QED
  BY <1>3, <1>4

\* What closing adds to the nets of 911, of 421 and of an account it empties.
LEMMA ClosingMoves ==
    ASSUME TypeOK, NEW p \in Periods, NEW v \in Vouchers, ClosePeriod(v, p)
    PROVE  /\ NetOf(p, {ResultAccount})' = NetOf(p, {ResultAccount})
           /\ NetOf(p, {ProfitAccount})' = NetOf(p, {ProfitAccount}) + ClosedNet(p, Accounts)
           /\ \A a \in RevenueAccounts \cup ExpenseAccounts :
                  NetOf(p, {a})' = NetOf(p, {a}) - ClosedNet(p, {a})
<1>1. ClosingLines(p) \in Seq(Line) /\ balance' = Added(balance, p, ClosingLines(p))
  BY ClosingLinesType DEF TypeOK, ClosePeriod
<1>2. \A A : NetOf(p, A) \in Int /\ NetOf(p, A)' = NetOf(p, A) + LinesNet(ClosingLines(p), A)
  BY <1>1, NetAdded
<1>3. \A a \in Accounts : /\ ClosedNet(p, {a}) \in Int /\ ClosedNet(p, Accounts) \in Int
                          /\ LinesNet(ClosingLines(p), {a}) =
                                 (IF ProfitAccount \in {a} THEN ClosedNet(p, Accounts) ELSE 0)
                                 - ClosedNet(p, {a})
  <2> TAKE a \in Accounts
  <2>1. {a} \in SUBSET Accounts
    OBVIOUS
  <2>. QED
    BY <2>1, ClosingNet
<1>4. \A a \in {ResultAccount, ProfitAccount} : ClosedNet(p, {a}) = 0
  <2> TAKE a \in {ResultAccount, ProfitAccount}
  <2>1. RowsOn(ClosedRows(p), {a}) = {}
    BY AccountAssumption DEF RowsOn, ClosedRows, ClosedRevenue, ClosedExpense
  <2>. QED
    BY <2>1, SumEmpty DEF ClosedNet, Sum
<1>5. /\ ResultAccount \in Accounts /\ ProfitAccount \in Accounts /\ ResultAccount # ProfitAccount
      /\ \A a \in RevenueAccounts \cup ExpenseAccounts : a \in Accounts /\ a # ProfitAccount
  BY AccountAssumption
<1>6. NetOf(p, {ResultAccount})' = NetOf(p, {ResultAccount})
  <2>1. LinesNet(ClosingLines(p), {ResultAccount}) = 0
    BY <1>3, <1>4, <1>5
  <2>. QED
    BY <1>2, <2>1
<1>7. NetOf(p, {ProfitAccount})' = NetOf(p, {ProfitAccount}) + ClosedNet(p, Accounts)
  <2>1. LinesNet(ClosingLines(p), {ProfitAccount}) = ClosedNet(p, Accounts)
    BY <1>3, <1>4, <1>5
  <2>. QED
    BY <1>2, <2>1
<1>8. ASSUME NEW a \in RevenueAccounts \cup ExpenseAccounts
      PROVE  NetOf(p, {a})' = NetOf(p, {a}) - ClosedNet(p, {a})
  <2>1. LinesNet(ClosingLines(p), {a}) = 0 - ClosedNet(p, {a}) /\ ClosedNet(p, {a}) \in Int
    BY <1>3, <1>5
  <2>. QED
    BY <1>2, <2>1
<1>. QED
  BY <1>6, <1>7, <1>8

\* ClosingTransfersResult holds: whatever the rows of the period, closing it
\* carries the net of the rows it empties to 421 and leaves 911 alone.
THEOREM ClosingAlwaysTransfersResult == Spec => ClosingTransfersResult
<1>1. ASSUME TypeOK, [Next]_vars, NEW p \in Periods, ClosingOf(p) = {}, ClosingOf(p)' # {}
      PROVE  LET closed   == ClosedRevenue(p) \cup ClosedExpense(p)
                 moved    == Sum([r \in closed |-> Net(r)], closed)
                 open(a)  == {r \in RowsOf(p, {a}) : Net(r) # 0} \ closed
             IN  /\ NetOf(p, {ResultAccount})' = NetOf(p, {ResultAccount})
                 /\ NetOf(p, {ProfitAccount})' = NetOf(p, {ProfitAccount}) + moved
                 /\ \A a \in RevenueAccounts \cup ExpenseAccounts :
                        open(a) = {} => NetOf(p, {a})' = 0
  <2> DEFINE closed   == ClosedRevenue(p) \cup ClosedExpense(p)
             net      == [r \in closed |-> Net(r)]
             open(a)  == {r \in RowsOf(p, {a}) : Net(r) # 0} \ closed
  <2>1. PICK v \in Vouchers : ClosePeriod(v, p)
    BY <1>1, ClosingOnlyByClose
  <2>2. closed = ClosedRows(p) /\ closed \subseteq Rows /\ \A r \in closed : r[1] = p /\ r[2] \in Accounts
    BY <1>1 DEF ClosedRows, ClosedRevenue, ClosedExpense, TypeOK, Rows
  <2>3. ClosedNet(p, Accounts) = Sum(net, closed)
    <3>1. RowsOn(ClosedRows(p), Accounts) = closed
      BY <2>2 DEF RowsOn
    <3>. QED
      BY <2>2, <3>1 DEF ClosedNet
  <2>4. ASSUME NEW a \in RevenueAccounts \cup ExpenseAccounts, open(a) = {}
        PROVE  NetOf(p, {a})' = 0
    <3> DEFINE all == [r \in Rows |-> Net(r)]
               S   == RowsOf(p, {a})
               T   == RowsOn(closed, {a})
    <3>1. IsFiniteSet(S) /\ S \subseteq Rows /\ T \subseteq S
      BY <2>2, RowsOfFinite DEF RowsOf, RowsOn
    <3>2. \A r \in Rows : all[r] = Net(r) /\ Net(r) \in Int
      BY <1>1 DEF Net, TypeOK, Entry
    <3>3. \A r \in S \ T : all[r] = 0
      BY <2>4, <3>1, <3>2 DEF RowsOf, RowsOn
    <3>4. \A r \in T : all[r] = net[r] /\ all[r] \in Int
      BY <3>1, <3>2 DEF RowsOn
    <3>5. NetOf(p, {a}) = Sum(all, S) /\ ClosedNet(p, {a}) = Sum(net, T)
      BY <2>2 DEF NetOf, ClosedNet
    <3>6. IsFiniteSet(T)
      BY <3>1, FS_Subset
    <3> HIDE DEF all, S, T, net
    <3>7. Sum(all, S) = Sum(all, T) /\ Sum(all, T) = Sum(net, T) /\ Sum(all, T) \in Int
      BY <3>1, <3>3, <3>4, <3>6, SumSupport, SumCongruence, SumInt DEF Sum
    <3>8. NetOf(p, {a})' = NetOf(p, {a}) - ClosedNet(p, {a})
      BY <1>1, <2>1, ClosingMoves
    <3>. QED
      BY <3>5, <3>7, <3>8
  <2>. QED
    BY <1>1, <2>1, <2>3, <2>4, ClosingMoves
<1>2. ASSUME TypeOK, [Next]_vars
      PROVE  \A p \in Periods :
                 (ClosingOf(p) = {} /\ ClosingOf(p)' # {}) =>
                     LET closed   == ClosedRevenue(p) \cup ClosedExpense(p)
                         moved    == Sum([r \in closed |-> Net(r)], closed)
                         open(a)  == {r \in RowsOf(p, {a}) : Net(r) # 0} \ closed
                     IN  /\ NetOf(p, {ResultAccount})' = NetOf(p, {ResultAccount})
                         /\ NetOf(p, {ProfitAccount})' = NetOf(p, {ProfitAccount}) + moved
                         /\ \A a \in RevenueAccounts \cup ExpenseAccounts :
                                open(a) = {} => NetOf(p, {a})' = 0
  BY <1>1, <1>2
<1>. QED
  BY <1>2, TypeCorrect, PTL DEF Spec, ClosingTransfersResult
=============================================================================
