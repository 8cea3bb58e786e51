------------------------------ MODULE YearEnd ------------------------------
(***************************************************************************)
(* The balances of several years: postings move the rows of months, the    *)
(* carry-forward of a year opens the next one in rows of period 0, and     *)
(* reports add both up to a month.  One handler at a time; what happens    *)
(* when postings overlap is the subject of PostingConcurrency.             *)
(*                                                                         *)
(* A row of a month has period_debit and period_credit, its opening        *)
(* columns are never written; a row of period 0 has only opening columns.  *)
(***************************************************************************)
EXTENDS Integers, FiniteSets, Functions

CONSTANTS
    Accounts,   \* account codes
    Profit,     \* those of income and expense: 5, 6, 7, 8, 9
    Objects,    \* customers and the like; "" for none
    Years,      \* fiscal years
    Months,     \* months with postings, December among them
    Vouchers,   \* vouchers
    Doc         \* voucher -> year, month, key debited, key credited, amount

Keys == Accounts \X Objects

YearEndSets ==
    /\ IsFiniteSet(Vouchers) /\ IsFiniteSet(Objects) /\ Profit \subseteq Accounts
    /\ "" \in Objects
    /\ Years \subseteq Nat /\ Months \subseteq 1..12 /\ 12 \in Months
    /\ Doc \in [Vouchers -> [year : Years, month : Months, debit : Keys, credit : Keys, amount : Nat]]

VARIABLES
    posted,     \* vouchers posted
    movement,   \* year -> month -> key -> period_debit, period_credit
    opening,    \* year -> account -> opening columns of its row of period 0
    carried     \* years carried forward, with no posting since

vars == <<posted, movement, opening, carried>>

Zero == [debit |-> 0, credit |-> 0]

Init ==
    /\ posted   = {}
    /\ movement = [y \in Years |-> [m \in Months |-> [k \in Keys |-> Zero]]]
    /\ opening  = [y \in Years |-> [a \in Accounts |-> Zero]]
    /\ carried  = {}

Plus(x, y) == [debit |-> x.debit + y.debit, credit |-> x.credit + y.credit]
Sum(f, S)  == [debit  |-> SumFunctionOnSet([i \in DOMAIN f |-> f[i].debit], S),
               credit |-> SumFunctionOnSet([i \in DOMAIN f |-> f[i].credit], S)]

\* recalculate_closing: the side with the larger value wins.
Closing(x) == IF x.debit >= x.credit THEN [debit |-> x.debit - x.credit, credit |-> 0]
                                     ELSE [debit |-> 0, credit |-> x.credit - x.debit]

(***************************************************************************)
(* Posting and unposting a voucher of two lines.                           *)
(***************************************************************************)
LineOf(v, k) == [debit  |-> IF Doc[v].debit = k THEN Doc[v].amount ELSE 0,
                 credit |-> IF Doc[v].credit = k THEN Doc[v].amount ELSE 0]
Times(n, x)  == [debit |-> n * x.debit, credit |-> n * x.credit]

Move(v, sign) ==
    /\ movement' = [movement EXCEPT ![Doc[v].year][Doc[v].month] =
                       [k \in Keys |-> Plus(@[k], Times(sign, LineOf(v, k)))]]
    /\ carried'  = carried \ {Doc[v].year}
    /\ UNCHANGED opening

Post(v) ==
    /\ v \notin posted
    /\ posted' = posted \cup {v}
    /\ Move(v, 1)

Unpost(v) ==
    /\ v \in posted
    /\ posted' = posted \ {v}
    /\ Move(v, -1)

(***************************************************************************)
(* YearEndCarryForwardView: the closing columns of the rows of December,   *)
(* zero ones skipped, into one row per account: of the rows of several     *)
(* objects the last one stays.                                             *)
(***************************************************************************)
December(y, k) == Closing(movement[y][12][k])

CarryForward(y) ==
    /\ y + 1 \in Years
    /\ \E last \in [Accounts -> Objects] :
          /\ \A a \in Accounts : December(y, <<a, last[a]>>) = Zero
                => \A o \in Objects : December(y, <<a, o>>) = Zero
          /\ opening' = [opening EXCEPT ![y + 1] =
                [a \in Accounts |-> IF December(y, <<a, last[a]>>) = Zero THEN @[a]
                                    ELSE December(y, <<a, last[a]>>)]]
    /\ carried' = carried \cup {y}
    /\ UNCHANGED <<posted, movement>>

Next == \/ \E v \in Vouchers : Post(v) \/ Unpost(v)
        \/ \E y \in Years : CarryForward(y)

Spec == Init /\ [][Next]_vars

(***************************************************************************)
(* YtdBalanceService.fetch: the row of a key for month n, or for the whole *)
(* year when n is 0.  Accounts of income and expense open at zero.         *)
(***************************************************************************)
LastMonth(n) == IF n = 0 THEN 12 ELSE n

OpeningAlways(y, k) == IF k[2] = "" THEN opening[y][k[1]] ELSE Zero  \* mutant
OpeningOf(y, k) == IF k[2] = "" /\ k[1] \notin Profit THEN opening[y][k[1]] ELSE Zero

Ytd(y, n, k) ==
    LET month   == IF LastMonth(n) \in Months THEN movement[y][LastMonth(n)][k] ELSE Zero
        year    == Sum([m \in Months |-> movement[y][m][k]], {m \in Months : m <= LastMonth(n)})
        before  == Plus(OpeningOf(y, k), Plus(year, Times(-1, month)))
    IN [opening |-> before, period |-> month, ytd |-> year, closing |-> Closing(Plus(before, month))]

-----------------------------------------------------------------------------
\* What reports show of a key is what the posted lines say, whatever has been
\* posted, unposted and carried forward and in which order: the lines of the
\* months, on top of the year's opening, which no income or expense has.
Lines(y, k, S) == Sum([v \in Vouchers |-> LineOf(v, k)],
                      {v \in posted : Doc[v].year = y /\ Doc[v].month \in S})
Shown(y, n, k) ==
    LET base == IF k[1] \in Profit \/ k[2] # "" THEN Zero ELSE opening[y][k[1]]
        last == LastMonth(n)
    IN [opening |-> Plus(base, Lines(y, k, 1..(last - 1))), period |-> Lines(y, k, {last}),
        ytd     |-> Lines(y, k, 1..last), closing |-> Closing(Plus(base, Lines(y, k, 1..last)))]
ReportsFollowLines ==
    \A y \in Years : \A n \in Months \cup {0} : \A k \in Keys : Ytd(y, n, k) = Shown(y, n, k)

\* YearEndCarryForwardView: "carry forward closing balances to next year".
ClosingIsCarried ==
    \A y \in carried : \A a \in Accounts \ Profit :
        Closing(opening[y + 1][a])
            = Closing(Sum([o \in Objects |-> Ytd(y, 12, <<a, o>>).closing], Objects))
=============================================================================
