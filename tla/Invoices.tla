------------------------------ MODULE Invoices ------------------------------
(***************************************************************************)
(* Sales and purchase invoices and the voucher each is booked with: of the *)
(* general ledger, or of the DNSN ledgers once the company has switched to *)
(* TT58.  A request is a sequence of transactions: what it has loaded is   *)
(* used after others have committed, and it may die in between.            *)
(*                                                                         *)
(* gl and dnsn give the voucher booked for an invoice; the link of the     *)
(* invoice to it is a foreign key that the database sets to NULL when the  *)
(* voucher is deleted, so the link exists exactly when the voucher does.   *)
(* books counts how often the amounts of the invoice are in the balances.  *)
(***************************************************************************)
EXTENDS Integers, FiniteSets

CONSTANTS
    Requests,    \* requests being served
    Invoices,    \* invoice ids
    NumberOf,    \* invoice -> its number
    Plans,       \* jobs that meet: request -> what it does
    Overlap      \* requests on one invoice of the general ledger overlap

Ops  == {"create", "createDraft", "delete", "deleteVoucher", "postVoucher"}
Jobs == [op : Ops, invoice : Invoices]
            \cup [op : {"convert", "closeMonth"}]

\* Every creation inserts an invoice with an id of its own.
InvoiceSets ==
    /\ IsFiniteSet(Invoices) /\ IsFiniteSet(Requests)
    /\ Plans \subseteq [Requests -> Jobs]
    /\ Overlap \in BOOLEAN
    /\ NumberOf \in [Invoices -> Nat]
    /\ \A plan \in Plans : \A q, x \in Requests :
           /\ {plan[q].op, plan[x].op} \subseteq {"create", "createDraft"}
           /\ plan[q].invoice = plan[x].invoice
           => q = x

VARIABLES
    job,      \* the plan being carried out
    status,   \* invoice -> "none", "draft" or "ledger"
    gl,       \* invoice -> its general ledger voucher
    dnsn,     \* invoice -> its DNSN voucher
    books,    \* invoice -> times its amounts are in the general balances
    ledgers,  \* invoices whose amounts are in the DNSN balances
    tt58,     \* the company has switched to TT58
    closed,   \* the month has a closing voucher
    pc,       \* request -> what it does next
    hasGl,    \* request -> the invoice it loaded has a general voucher
    hasDnsn,  \* request -> the invoice it loaded has a DNSN voucher, or is to get one
    seen,     \* request -> status of the voucher instance it loaded
    late      \* requests that had passed the period check when the month closed

data == <<status, gl, dnsn, books, ledgers, tt58, closed, late>>
vars == <<job, data, pc, hasGl, hasDnsn, seen>>

VoucherStates == {"none", "draft", "posted"}

Op(q)     == job[q].op
Target(q) == job[q].invoice

Init ==
    /\ job     \in Plans
    /\ status  = [i \in Invoices |-> "none"]
    /\ gl      = [i \in Invoices |-> "none"]
    /\ dnsn    = [i \in Invoices |-> "none"]
    /\ books   = [i \in Invoices |-> 0]
    /\ ledgers = {}
    /\ tt58    = FALSE
    /\ closed  = FALSE
    /\ pc      = [q \in Requests |-> "start"]
    /\ hasGl   = [q \in Requests |-> FALSE]
    /\ hasDnsn = [q \in Requests |-> FALSE]
    /\ seen    = [q \in Requests |-> "none"]
    /\ late    = {}

Goto(q, next) == pc' = [pc EXCEPT ![q] = next]
End(q)  == Goto(q, "ended")
Fail(q) == Goto(q, "failed")

Running(x) == pc[x] \notin {"start", "ended", "failed"}
Undisturbed(q) ==
    Overlap \/ gl[Target(q)] = "none"
        \/ \A x \in {y \in Requests : Running(y)} : Target(x) # Target(q)

Starts(q, op) == pc[q] = "start" /\ Op(q) = op /\ Undisturbed(q)

(***************************************************************************)
(* InvoiceService.create: invoice, lines, voucher and posting in one       *)
(* transaction, with the company as the view has loaded it.  The number of *)
(* the invoice is unique: its insert waits for an uncommitted rival.  The  *)
(* period check reads what is committed and locks nothing, so the month    *)
(* may be closed before the transaction commits.                           *)
(***************************************************************************)
Booking(x)     == pc[x] = "book"
NumberTaken(q) == \E i \in Invoices : status[i] # "none" /\ NumberOf[i] = NumberOf[Target(q)]
NumberFree(q)  == \A x \in {y \in Requests : Booking(y)} : NumberOf[Target(x)] # NumberOf[Target(q)]

CreateDraft(q) ==
    /\ Starts(q, "createDraft") /\ NumberFree(q)
    /\ status' = [status EXCEPT ![Target(q)] = IF NumberTaken(q) THEN @ ELSE "draft"]
    /\ End(q)
    /\ UNCHANGED <<job, gl, dnsn, books, ledgers, tt58, closed, late, hasGl, hasDnsn, seen>>

BookGl(i) ==
    /\ gl'    = [gl EXCEPT ![i] = "posted"]
    /\ books' = [books EXCEPT ![i] = @ + 1]
    /\ UNCHANGED <<dnsn, ledgers>>

BookDnsn(i) ==
    /\ dnsn'    = [dnsn EXCEPT ![i] = "posted"]
    /\ ledgers' = ledgers \cup {i}
    /\ UNCHANGED <<gl, books>>

FailsInDnsn(q) == NumberTaken(q) \/ (closed /\ tt58)  \* mutant
CreateFails(q) == NumberTaken(q) \/ closed

BeginCreate(q) ==
    /\ Starts(q, "create") /\ NumberFree(q)
    /\ hasDnsn' = [hasDnsn EXCEPT ![q] = tt58]
    /\ Goto(q, IF CreateFails(q) THEN "failed" ELSE "book")
    /\ UNCHANGED <<job, data, hasGl, seen>>

CommitCreate(q) ==
    LET i == Target(q) IN
    /\ Booking(q)
    /\ End(q)
    /\ status' = [status EXCEPT ![i] = "ledger"]
    /\ IF hasDnsn[q] THEN BookDnsn(i) ELSE BookGl(i)
    /\ UNCHANGED <<job, tt58, closed, late, hasGl, hasDnsn, seen>>

(***************************************************************************)
(* SalesInvoiceDeleteView, PurchaseInvoiceDeleteView.                      *)
(***************************************************************************)
LoadInvoice(q) ==
    LET i == Target(q) IN
    /\ Starts(q, "delete")
    /\ hasGl'   = [hasGl EXCEPT ![q] = gl[i] # "none"]
    /\ hasDnsn' = [hasDnsn EXCEPT ![q] = dnsn[i] # "none"]
    /\ Goto(q, IF status[i] = "none" THEN "failed" ELSE "voucher")
    /\ UNCHANGED <<job, data, seen>>

\* InvoiceService.unpost fetches the voucher first, inside the transaction;
\* a voucher that is gone by now ends the request with a message.
FetchVoucher(q) ==
    LET i == Target(q)
        v == IF hasDnsn[q] THEN dnsn[i] ELSE IF hasGl[q] THEN gl[i] ELSE "draft"
    IN
    /\ pc[q] = "voucher"
    /\ seen' = [seen EXCEPT ![q] = v]
    /\ Goto(q, IF v = "none" THEN "failed"
               ELSE IF hasDnsn[q] \/ hasGl[q] THEN "unpost" ELSE "dropGl")
    /\ UNCHANGED <<job, data, hasGl, hasDnsn>>

\* The general ledger takes the amounts out again; the DNSN ledgers are
\* rebuilt from the entries that are left.
TakeOut(i) ==
    /\ gl'    = [gl EXCEPT ![i] = "draft"]
    /\ books' = [books EXCEPT ![i] = @ - 1]
    /\ UNCHANGED <<dnsn, ledgers>>

Rebuild(i) ==
    /\ dnsn'    = [dnsn EXCEPT ![i] = "draft"]
    /\ ledgers' = ledgers \ {i}
    /\ UNCHANGED <<gl, books>>

UnpostsByRegime(q) == seen[q] = "posted" /\ (tt58 => hasDnsn[q])  \* mutant
UnpostsAlways(q) == TRUE  \* mutant
Unposts(q) == seen[q] = "posted"

\* The rest of that transaction: unpost works on the instance, and fails when
\* the voucher has been deleted, either on saving its status or on the link of
\* the invoice to it.
UnpostInvoice(q) ==
    LET i == Target(q) IN
    /\ pc[q] = "unpost"
    /\ IF (IF hasDnsn[q] THEN dnsn[i] ELSE gl[i]) = "none"
       THEN Fail(q) /\ UNCHANGED <<status, gl, dnsn, books, ledgers>>
       ELSE /\ Goto(q, "dropGl")
            /\ status' = [status EXCEPT ![i] = "draft"]
            /\ IF ~Unposts(q) THEN UNCHANGED <<gl, dnsn, books, ledgers>>
               ELSE IF hasDnsn[q] THEN Rebuild(i) ELSE TakeOut(i)
    /\ UNCHANGED <<job, tt58, closed, late, hasGl, hasDnsn, seen>>

DropGl(q) ==
    /\ pc[q] = "dropGl"
    /\ gl' = [gl EXCEPT ![Target(q)] = IF hasGl[q] THEN "none" ELSE @]
    /\ Goto(q, "dropDnsn")
    /\ UNCHANGED <<job, status, dnsn, books, ledgers, tt58, closed, late, hasGl, hasDnsn, seen>>

NoDnsn(q) == FALSE  \* mutant
LinksDnsn(q) == hasDnsn[q]

DropDnsn(q) ==
    /\ pc[q] = "dropDnsn"
    /\ dnsn' = [dnsn EXCEPT ![Target(q)] = IF LinksDnsn(q) THEN "none" ELSE @]
    /\ Goto(q, "dropInvoice")
    /\ UNCHANGED <<job, status, gl, books, ledgers, tt58, closed, late, hasGl, hasDnsn, seen>>

DropInvoice(q) ==
    /\ pc[q] = "dropInvoice"
    /\ status' = [status EXCEPT ![Target(q)] = "none"]
    /\ End(q)
    /\ UNCHANGED <<job, gl, dnsn, books, ledgers, tt58, closed, late, hasGl, hasDnsn, seen>>

(***************************************************************************)
(* The voucher's own views: VoucherDeleteView, DnsnVoucherDeleteView and   *)
(* the posting API, which know nothing of the invoice.                     *)
(***************************************************************************)
LoadVoucher(q) ==
    LET i == Target(q)
        v == IF gl[i] # "none" THEN gl[i] ELSE dnsn[i]
    IN
    /\ pc[q] = "start" /\ Op(q) \in {"deleteVoucher", "postVoucher"} /\ Undisturbed(q)
    /\ hasGl' = [hasGl EXCEPT ![q] = gl[i] # "none"]
    /\ seen'  = [seen EXCEPT ![q] = v]
    /\ Goto(q, IF v = "none" \/ (gl[i] = "none" /\ (v = "posted" \/ Op(q) = "postVoucher"))
               THEN "ended"
               ELSE IF Op(q) = "postVoucher" THEN "post"
               ELSE IF v = "posted" THEN "unpostVoucher" ELSE "dropVoucher")
    /\ UNCHANGED <<job, data, hasDnsn>>

UnpostVoucher(q) ==
    LET i == Target(q) IN
    /\ pc[q] = "unpostVoucher"
    /\ IF gl[i] = "none" THEN Fail(q) /\ UNCHANGED <<gl, dnsn, books, ledgers>>
       ELSE Goto(q, "dropVoucher") /\ TakeOut(i)
    /\ UNCHANGED <<job, status, tt58, closed, late, hasGl, hasDnsn, seen>>

DropVoucher(q) ==
    LET i == Target(q) IN
    /\ pc[q] = "dropVoucher"
    /\ gl'   = [gl EXCEPT ![i] = IF hasGl[q] THEN "none" ELSE @]
    /\ dnsn' = [dnsn EXCEPT ![i] = IF hasGl[q] THEN @ ELSE "none"]
    /\ End(q)
    /\ UNCHANGED <<job, status, books, ledgers, tt58, closed, late, hasGl, hasDnsn, seen>>

\* post: the status tested is the one loaded, the period check a SELECT.
CheckVoucher(q) ==
    /\ pc[q] = "post"
    /\ Goto(q, IF seen[q] = "posted" THEN "ended" ELSE IF closed THEN "failed" ELSE "bookVoucher")
    /\ UNCHANGED <<job, data, hasGl, hasDnsn, seen>>

\* The status is saved with update_fields: that fails for a deleted voucher.
PostVoucher(q) ==
    LET i == Target(q) IN
    /\ pc[q] = "bookVoucher"
    /\ IF gl[i] = "none" THEN Fail(q) /\ UNCHANGED <<gl, dnsn, books, ledgers>>
       ELSE End(q) /\ BookGl(i)
    /\ UNCHANGED <<job, status, tt58, closed, late, hasGl, hasDnsn, seen>>

\* The conversion view switches the regime of the company.
SwitchRegime(q) ==
    /\ pc[q] = "start" /\ Op(q) = "convert"
    /\ tt58' = TRUE
    /\ End(q)
    /\ UNCHANGED <<job, status, gl, dnsn, books, ledgers, closed, late, hasGl, hasDnsn, seen>>

CloseMonth(q) ==
    /\ pc[q] = "start" /\ Op(q) = "closeMonth"
    /\ closed' = TRUE
    /\ late'   = IF closed THEN late ELSE {x \in Requests : pc[x] \in {"book", "bookVoucher"}}
    /\ End(q)
    /\ UNCHANGED <<job, status, gl, dnsn, books, ledgers, tt58, hasGl, hasDnsn, seen>>

\* The worker dies, or the transaction at hand is rolled back.
Dies(q) == Running(q) /\ Fail(q) /\ UNCHANGED <<job, data, hasGl, hasDnsn, seen>>

Serve(q) ==
    \/ CreateDraft(q) \/ BeginCreate(q) \/ CommitCreate(q)
    \/ LoadInvoice(q) \/ FetchVoucher(q) \/ UnpostInvoice(q)
    \/ DropGl(q) \/ DropDnsn(q) \/ DropInvoice(q)
    \/ LoadVoucher(q) \/ UnpostVoucher(q) \/ DropVoucher(q)
    \/ CheckVoucher(q) \/ PostVoucher(q)
    \/ SwitchRegime(q) \/ CloseMonth(q)

Next == \E q \in Requests : Serve(q) \/ Dies(q)

Spec == Init /\ [][Next]_vars

-----------------------------------------------------------------------------
\* The amounts of an invoice are in the balances once while its voucher is
\* posted, and not at all otherwise: also when a deletion died after its first
\* transaction and is repeated, or vouchers are posted and deleted by themselves.
BooksMatchVouchers ==
    \A i \in Invoices : /\ books[i] = IF gl[i] = "posted" THEN 1 ELSE 0
                        /\ i \in ledgers <=> dnsn[i] = "posted"

\* No amount is in any balance for an invoice that does not exist: a deletion
\* takes them out of the books they were put into, although the company may
\* have switched from one regime to the other since.
NothingWithoutInvoice ==
    \A i \in Invoices : status[i] = "none" => books[i] = 0 /\ i \notin ledgers

\* A deletion that did not fail leaves neither the invoice nor its voucher, even
\* if others delete, or deleted, the same invoice or its voucher.
DeletionIsComplete ==
    \A q \in Requests :
        Op(q) = "delete" /\ pc[q] = "ended"
            => status[Target(q)] = "none" /\ gl[Target(q)] = "none" /\ dnsn[Target(q)] = "none"

\* A closed month takes in only what was under way when it was closed: what is
\* added to its balances, in either regime, comes from a request that had passed
\* the period check before.  Such a request does add to the closed month.
ClosedMonthTakesOnlyPending ==
    [][closed => \A i \in Invoices :
          (books'[i] > books[i] \/ i \in ledgers' \ ledgers)
              => \E q \in late : Target(q) = i]_vars
=============================================================================
