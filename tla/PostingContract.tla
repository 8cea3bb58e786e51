-------------------------- MODULE PostingContract --------------------------
(***************************************************************************)
(* What the posting service promises to a reader of the committed data: a  *)
(* voucher's amounts reach all of its balance rows at once, together with  *)
(* its change of status, once per posting; a voucher is deleted only while *)
(* it is a draft; and a period has at most one closing voucher.            *)
(***************************************************************************)
EXTENDS Integers

CONSTANTS
    Vouchers,   \* voucher ids
    Rows,       \* balance rows
    Closing,    \* ids used by closing vouchers
    PeriodOf    \* voucher id -> period

VARIABLES
    status,     \* voucher id -> where it is in its life
    amount,     \* voucher id -> row -> signed amount
    balance     \* row -> net movement

cvars == <<status, amount, balance>>

Moved(v, sign) == balance' = [r \in Rows |-> balance[r] + sign * amount'[v][r]]

NoClosingBut(v) ==
    \A w \in Closing : (w # v /\ PeriodOf[w] = PeriodOf[v]) => status[w] \notin {"draft", "posted"}

Post(v) ==
    /\ status[v] = "draft"
    /\ status' = [status EXCEPT ![v] = "posted"]
    /\ amount' = amount
    /\ Moved(v, 1)

Unpost(v) ==
    /\ status[v] = "posted"
    /\ status' = [status EXCEPT ![v] = "draft"]
    /\ amount' = amount
    /\ Moved(v, -1)

\* A closing voucher appears posted, with the amounts the close computed.
Close(v) ==
    /\ v \in Closing
    /\ status[v] = "unused"
    /\ NoClosingBut(v)
    /\ status' = [status EXCEPT ![v] = "posted"]
    /\ amount' \in [Vouchers -> [Rows -> Int]]
    /\ \A w \in Vouchers \ {v} : amount'[w] = amount[w]
    /\ Moved(v, 1)

Delete(v) ==
    /\ status[v] = "draft"
    /\ status' = [status EXCEPT ![v] = "deleted"]
    /\ UNCHANGED <<amount, balance>>

CNext == \E v \in Vouchers : Post(v) \/ Unpost(v) \/ Close(v) \/ Delete(v)

\* Started from any data that is already consistent.
CInit == \A v \in Vouchers : status[v] \in {"unused", "draft", "posted", "deleted"}

Contract == CInit /\ [][CNext]_cvars
=============================================================================
