------------------------- MODULE OfficeBooksProofs -------------------------
(***************************************************************************)
(* Theorems about the documents that are booked: invoices and their books, *)
(* the stock of the warehouses, and the balances of several years.         *)
(***************************************************************************)
EXTENDS Office, SumLemmas

(***************************************************************************)
(* Invoices.                                                               *)
(***************************************************************************)
\* What the variables of Invoices hold.
ITypes ==
    /\ iJob \in IPlans
    /\ iStatus \in [IInvoices -> {"none", "draft", "ledger"}]
    /\ iGl \in [IInvoices -> {"none", "draft", "posted"}]
    /\ iDnsn \in [IInvoices -> {"none", "draft", "posted"}]
    /\ iBooks \in [IInvoices -> Int] /\ iLedgers \subseteq IInvoices
    /\ iPc \in [IRequests -> {"start", "voucher", "unpost", "dropGl", "dropDnsn", "dropInvoice",
                              "book", "post", "bookVoucher", "unpostVoucher", "dropVoucher",
                              "ended", "failed"}]
    /\ iHasGl \in [IRequests -> BOOLEAN] /\ iHasDnsn \in [IRequests -> BOOLEAN]
    /\ iSeen \in [IRequests -> {"none", "draft", "posted"}] /\ iLate \subseteq IRequests
    /\ iTt58 \in BOOLEAN

LEMMA IStarts == ASSUME I!Init PROVE ITypes
<1>1. iTt58 \in BOOLEAN
    BY Zenon DEF I!Init
<1>2. iStatus \in [IInvoices -> {"none", "draft", "ledger"}] /\ iGl \in [IInvoices -> {"none", "draft", "posted"}]
      /\ iDnsn \in [IInvoices -> {"none", "draft", "posted"}] /\ iBooks \in [IInvoices -> Int]
    BY DEF I!Init
<1>3. iHasGl \in [IRequests -> BOOLEAN] /\ iHasDnsn \in [IRequests -> BOOLEAN]
    BY DEF I!Init
<1>4. iJob \in IPlans /\ iLedgers \subseteq IInvoices /\ iLate \subseteq IRequests
      /\ iSeen \in [IRequests -> {"none", "draft", "posted"}]
    BY DEF I!Init
<1>5. iPc \in [IRequests -> {"start", "voucher", "unpost", "dropGl", "dropDnsn", "dropInvoice",
                              "book", "post", "bookVoucher", "unpostVoucher", "dropVoucher",
                              "ended", "failed"}]
    BY DEF I!Init
<1> QED BY <1>1, <1>2, <1>3, <1>4, <1>5 DEF ITypes

\* The request that enters an invoice has done so.
IMade(i) == \A c \in IRequests : I!Op(c) \in {"create", "createDraft"} /\ I!Target(c) = i
                                    => iPc[c] \notin {"start", "book"}

\* A voucher belongs to an invoice that exists, and to one regime.
IVouchers ==
    \A i \in IInvoices :
        /\ iGl[i] = "none" \/ iDnsn[i] = "none"
        /\ iStatus[i] = "none" => iGl[i] = "none" /\ iDnsn[i] = "none"
        /\ ~IMade(i) => iStatus[i] = "none"

\* A request that has loaded a general voucher has it for itself, and what it has
\* loaded is what is there.
IAlone(q) ==
    iHasGl[q] /\ iPc[q] \in {"voucher", "unpost", "dropGl", "post", "bookVoucher", "unpostVoucher", "dropVoucher"} =>
        /\ \A x \in IRequests : I!Running(x) /\ I!Target(x) = I!Target(q) => x = q
        /\ iGl[I!Target(q)] # "none"
        /\ iPc[q] \in {"voucher", "unpost", "dropGl"} => ~iHasDnsn[q]
        /\ iPc[q] \in {"unpost", "post", "bookVoucher"} => iSeen[q] = iGl[I!Target(q)]
        /\ iPc[q] = "bookVoucher" => iSeen[q] # "posted"
        /\ iPc[q] = "unpostVoucher" => iGl[I!Target(q)] = "posted"
        /\ iPc[q] \in {"dropGl", "dropVoucher"} => iGl[I!Target(q)] = "draft"

\* What a request that deletes the invoice knows of its vouchers.
IDeletes(q) ==
    I!Op(q) = "delete" /\ iPc[q] \notin {"start", "failed"} =>
        /\ IMade(I!Target(q)) /\ iPc[q] \notin {"book", "post", "bookVoucher", "unpostVoucher", "dropVoucher"}
        /\ ~iHasGl[q] \/ iPc[q] \in {"dropDnsn", "dropInvoice", "ended"} => iGl[I!Target(q)] = "none"
        /\ ~iHasDnsn[q] \/ iPc[q] \in {"dropInvoice", "ended"} => iDnsn[I!Target(q)] = "none"
        /\ iPc[q] = "unpost" => iHasGl[q] \/ iHasDnsn[q]
        /\ iPc[q] = "unpost" /\ iSeen[q] # "posted" => iDnsn[I!Target(q)] # "posted"
        /\ iPc[q] \in {"dropGl", "dropDnsn"} => iDnsn[I!Target(q)] # "posted"
        /\ iPc[q] = "ended" => iStatus[I!Target(q)] = "none"

\* So does one that posts or deletes the voucher by itself.
IHandles(q) ==
    I!Op(q) \in {"deleteVoucher", "postVoucher"} /\ iPc[q] \notin {"start", "ended", "failed"} =>
        /\ IMade(I!Target(q)) /\ iPc[q] \in {"post", "bookVoucher", "unpostVoucher", "dropVoucher"}
        /\ ~iHasGl[q] => iPc[q] = "dropVoucher" /\ iDnsn[I!Target(q)] # "posted"

\* The others take one step, or commit in a second.
IWaits(q) ==
    I!Op(q) \notin {"delete", "deleteVoucher", "postVoucher"} /\ I!Running(q)
        => I!Op(q) = "create" /\ iPc[q] = "book"

\* The inductive invariant of the invoices, on the requests that do not overlap.
IInv ==
    /\ ITypes /\ BooksMatchVouchers /\ IVouchers
    /\ \A q \in IRequests : IAlone(q) /\ IDeletes(q) /\ IHandles(q) /\ IWaits(q)

\* What a request works on is an invoice, entered by one request.
LEMMA ITargets ==
    ASSUME ITypes, NEW q \in IRequests
    PROVE  /\ I!Op(q) \notin {"convert", "closeMonth"} => I!Target(q) \in IInvoices
           /\ \A x \in IRequests : /\ {I!Op(q), I!Op(x)} \subseteq {"create", "createDraft"}
                                   /\ I!Target(q) = I!Target(x)
                                   => q = x
<1>1. iJob[q] \in I!Jobs
    BY OfficeData DEF I!InvoiceSets, ITypes
<1>2. I!Op(q) \notin {"convert", "closeMonth"} => I!Target(q) \in IInvoices
    BY <1>1 DEF I!Jobs, I!Ops, I!Op, I!Target
<1>3. \A x \in IRequests : /\ {I!Op(q), I!Op(x)} \subseteq {"create", "createDraft"}
                           /\ I!Target(q) = I!Target(x)
                           => q = x
    BY OfficeData DEF I!InvoiceSets, ITypes, I!Op, I!Target
<1> QED BY <1>2, <1>3

\* A step changes its request and the invoice of it.
LEMMA ILocal ==
    ASSUME ITypes, NEW q \in IRequests, I!Serve(q) \/ I!Dies(q)
    PROVE  /\ iJob' = iJob
           /\ \A x \in IRequests \ {q} : /\ iPc'[x] = iPc[x] /\ iSeen'[x] = iSeen[x]
                                          /\ iHasGl'[x] = iHasGl[x] /\ iHasDnsn'[x] = iHasDnsn[x]
           /\ \A j \in IInvoices \ {I!Target(q)} :
                 iStatus'[j] = iStatus[j] /\ iGl'[j] = iGl[j] /\ iDnsn'[j] = iDnsn[j]
           /\ iPc'[q] # "start" /\ iPc[q] \notin {"ended", "failed"}
           /\ iPc'[q] = "book" => iPc[q] = "start"
<1> USE DEF ITypes, I!Goto, I!End, I!Fail, I!data
<1>1. CASE I!CreateDraft(q) \/ I!BeginCreate(q) \/ I!CommitCreate(q)
    BY <1>1 DEF I!CreateDraft, I!BeginCreate, I!CommitCreate, I!Booking, I!Starts, I!BookGl, I!BookDnsn
<1>2. CASE I!LoadInvoice(q) \/ I!FetchVoucher(q)
    BY <1>2 DEF I!LoadInvoice, I!FetchVoucher, I!Starts
<1>3. CASE I!UnpostInvoice(q)
    BY <1>3 DEF I!UnpostInvoice, I!Rebuild, I!TakeOut
<1>4. CASE I!DropGl(q) \/ I!DropDnsn(q) \/ I!DropInvoice(q)
    BY <1>4 DEF I!DropGl, I!DropDnsn, I!DropInvoice
<1>5. CASE I!LoadVoucher(q) \/ I!UnpostVoucher(q) \/ I!DropVoucher(q)
    BY <1>5 DEF I!LoadVoucher, I!UnpostVoucher, I!DropVoucher, I!TakeOut
<1>6. CASE I!CheckVoucher(q) \/ I!PostVoucher(q) \/ I!SwitchRegime(q) \/ I!CloseMonth(q)
    BY <1>6 DEF I!CheckVoucher, I!PostVoucher, I!SwitchRegime, I!CloseMonth, I!BookGl
<1>7. CASE I!Dies(q)
    BY <1>7 DEF I!Dies, I!Running
<1> QED BY <1>1, <1>2, <1>3, <1>4, <1>5, <1>6, <1>7 DEF I!Serve

\* What a request does next is something it may do: this needs no assumption on
\* requests that meet.
LEMMA ITyped ==
    ASSUME ITypes, NEW q \in IRequests, I!Serve(q) \/ I!Dies(q), \A x \in IRequests : IWaits(x)
    PROVE  ITypes' /\ \A x \in IRequests : IWaits(x)'
<1>t. I!Op(q) \notin {"convert", "closeMonth"} => I!Target(q) \in IInvoices
    BY ITargets
<1>1. IWaits(q) /\ iPc[q] \notin {"ended", "failed"}
    BY ILocal
<1>2. \A x \in IRequests \ {q} : IWaits(x)'
    BY ILocal DEF IWaits, I!Running, I!Op
<1>3. iJob' = iJob
    BY ILocal
<1> HIDE DEF I!Op, I!Target
<1>4. I!Op(q)' = I!Op(q)
    BY <1>3 DEF I!Op
<1> USE <1>t, <1>1, <1>3, <1>4 DEF ITypes, IWaits, I!Running, I!Goto, I!End, I!Fail, I!data
<1>5. CASE I!CreateDraft(q)
    <2>1. ITypes' /\ IWaits(q)'
        BY <1>5 DEF I!CreateDraft, I!Starts
    <2> QED BY <1>2, <2>1
<1>6. CASE I!BeginCreate(q)
    <2>1. ITypes' /\ IWaits(q)'
        BY <1>6 DEF I!BeginCreate, I!Starts
    <2> QED BY <1>2, <2>1
<1>19. CASE I!CommitCreate(q)
    <2>1. I!Op(q) # "convert" /\ I!Op(q) # "closeMonth"
        BY <1>19 DEF I!CommitCreate, I!Booking
    <2>2. ITypes' /\ IWaits(q)'
        BY <1>19, <2>1 DEF I!CommitCreate, I!Booking, I!BookGl, I!BookDnsn
    <2> QED BY <1>2, <2>2
<1>7. CASE I!LoadInvoice(q)
    <2>1. ITypes' /\ IWaits(q)'
        BY <1>7 DEF I!LoadInvoice, I!Starts
    <2> QED BY <1>2, <2>1
<1>8. CASE I!FetchVoucher(q)
    <2>1. ITypes' /\ IWaits(q)'
        BY <1>8 DEF I!FetchVoucher
    <2> QED BY <1>2, <2>1
<1>9. CASE I!UnpostInvoice(q)
    <2>1. ITypes' /\ IWaits(q)'
        BY <1>9 DEF I!UnpostInvoice, I!Rebuild, I!TakeOut
    <2> QED BY <1>2, <2>1
<1>10. CASE I!DropGl(q)
    <2>1. ITypes' /\ IWaits(q)'
        BY <1>10 DEF I!DropGl
    <2> QED BY <1>2, <2>1
<1>11. CASE I!DropDnsn(q)
    <2>1. ITypes' /\ IWaits(q)'
        BY <1>11 DEF I!DropDnsn
    <2> QED BY <1>2, <2>1
<1>12. CASE I!DropInvoice(q)
    <2>1. ITypes' /\ IWaits(q)'
        BY <1>12 DEF I!DropInvoice
    <2> QED BY <1>2, <2>1
<1>13. CASE I!LoadVoucher(q)
    <2>1. ITypes' /\ IWaits(q)'
        BY <1>13 DEF I!LoadVoucher
    <2> QED BY <1>2, <2>1
<1>14. CASE I!UnpostVoucher(q)
    <2>1. ITypes' /\ IWaits(q)'
        BY <1>14 DEF I!UnpostVoucher, I!TakeOut
    <2> QED BY <1>2, <2>1
<1>15. CASE I!DropVoucher(q)
    <2>1. ITypes' /\ IWaits(q)'
        BY <1>15 DEF I!DropVoucher
    <2> QED BY <1>2, <2>1
<1>20. CASE I!CheckVoucher(q)
    <2>1. ITypes' /\ IWaits(q)'
        BY <1>20 DEF I!CheckVoucher
    <2> QED BY <1>2, <2>1
<1>16. CASE I!PostVoucher(q)
    <2>1. ITypes' /\ IWaits(q)'
        BY <1>16 DEF I!PostVoucher, I!BookGl
    <2> QED BY <1>2, <2>1
<1>17. CASE I!SwitchRegime(q) \/ I!CloseMonth(q)
    <2>1. ITypes' /\ IWaits(q)'
        BY <1>17 DEF I!SwitchRegime, I!CloseMonth
    <2> QED BY <1>2, <2>1
<1>18. CASE I!Dies(q)
    <2>1. ITypes' /\ IWaits(q)'
        BY <1>18 DEF I!Dies
    <2> QED BY <1>2, <2>1
<1> QED BY <1>5, <1>6, <1>7, <1>8, <1>9, <1>10, <1>11, <1>12, <1>13, <1>14, <1>15, <1>16, <1>17, <1>18, <1>19, <1>20 DEF I!Serve

\* An invoice that has been entered gets no voucher again, and stays deleted.
LEMMA IOnce ==
    ASSUME ITypes, IVouchers, NEW q \in IRequests, IAlone(q), IDeletes(q), IHandles(q), IWaits(q),
           I!Serve(q) \/ I!Dies(q),
           NEW j \in IInvoices, IMade(j)
    PROVE  /\ IMade(j)'
           /\ iGl[j] = "none" => iGl'[j] = "none"
           /\ iDnsn[j] = "none" => iDnsn'[j] = "none"
           /\ iDnsn[j] # "posted" => iDnsn'[j] # "posted"
           /\ iGl[j] = "none" /\ iDnsn[j] = "none" /\ iStatus[j] = "none" => iStatus'[j] = "none"
<1>0. IMade(j)'
    BY ILocal DEF IMade, I!Op, I!Target
<1>1. CASE I!CreateDraft(q) \/ I!BeginCreate(q) \/ I!CommitCreate(q)
    <2>1. iPc[q] \in {"start", "book"} /\ I!Op(q) \in {"create", "createDraft"}
        BY <1>1 DEF I!CreateDraft, I!BeginCreate, I!CommitCreate, I!Booking, I!Starts, IDeletes, IHandles,
            IWaits, I!Running
    <2>2. I!Target(q) # j
        BY <2>1 DEF IMade
    <2> QED BY <1>0, <2>2, ILocal
<1> USE DEF ITypes, I!Goto, I!End, I!Fail, I!data
<1>2. CASE I!LoadInvoice(q) \/ I!FetchVoucher(q) \/ I!LoadVoucher(q) \/ I!SwitchRegime(q) \/ I!CloseMonth(q)
        \/ I!CheckVoucher(q) \/ I!Dies(q)
    BY <1>0, <1>2 DEF I!CheckVoucher, I!LoadInvoice, I!FetchVoucher, I!LoadVoucher, I!SwitchRegime, I!CloseMonth, I!Dies
<1>3. CASE I!UnpostInvoice(q)
    BY <1>0, <1>3 DEF I!UnpostInvoice, I!Rebuild, I!TakeOut
<1>4. CASE I!DropGl(q) \/ I!DropDnsn(q) \/ I!DropInvoice(q)
    BY <1>0, <1>4 DEF I!DropGl, I!DropDnsn, I!DropInvoice
<1>5. CASE I!UnpostVoucher(q) \/ I!DropVoucher(q) \/ I!PostVoucher(q)
    BY <1>0, <1>5 DEF I!UnpostVoucher, I!DropVoucher, I!TakeOut, I!PostVoucher, I!BookGl
<1> QED BY <1>1, <1>2, <1>3, <1>4, <1>5 DEF I!Serve

\* What another request knows stays true.
LEMMA IOthersKept ==
    ASSUME ~IOverlap, ITypes, IVouchers, NEW q \in IRequests, I!Serve(q) \/ I!Dies(q),
           IAlone(q), IDeletes(q), IHandles(q), IWaits(q),
           NEW x \in IRequests, x # q, IAlone(x), IDeletes(x), IHandles(x), IWaits(x)
    PROVE  IAlone(x)' /\ IDeletes(x)' /\ IHandles(x)' /\ IWaits(x)'
<1>1. /\ iPc'[x] = iPc[x] /\ iSeen'[x] = iSeen[x] /\ iHasGl'[x] = iHasGl[x] /\ iHasDnsn'[x] = iHasDnsn[x]
      /\ \A y \in IRequests : I!Op(y)' = I!Op(y) /\ I!Target(y)' = I!Target(y)
      /\ \A y \in IRequests : y # q => (I!Running(y)' <=> I!Running(y))
    BY ILocal DEF I!Op, I!Target, I!Running
<1>2. I!Op(x) \in {"delete", "deleteVoucher", "postVoucher"} => I!Target(x) \in IInvoices
    BY ITargets
<1>3. IWaits(x)'
    BY <1>1 DEF IWaits, I!Op, I!Running
<1>4. ASSUME iHasGl[x], iPc[x] \in {"voucher", "unpost", "dropGl", "post", "bookVoucher", "unpostVoucher", "dropVoucher"}
      PROVE  /\ I!Target(q) # I!Target(x) \/ ~I!Running(q)'
             /\ iGl'[I!Target(x)] = iGl[I!Target(x)]
    <2>1. I!Target(x) \in IInvoices /\ I!Running(x)
        BY <1>2, <1>4 DEF IWaits, I!Running
    <2>2. CASE I!Target(q) # I!Target(x)
        BY <2>1, <2>2, ILocal
    <2>3. CASE I!Target(q) = I!Target(x)
        <3>1. iPc[q] = "start" /\ iGl[I!Target(q)] # "none"
            BY <1>4, <2>3, ILocal DEF IAlone, I!Running
        <3>2. ~(I!CreateDraft(q) \/ I!BeginCreate(q))
            BY <2>1, <2>3, <3>1 DEF I!CreateDraft, I!BeginCreate, I!Starts, IVouchers, IMade
        <3>3. ~(I!LoadInvoice(q) \/ I!LoadVoucher(q))
            BY <2>1, <2>3, <3>1 DEF I!LoadInvoice, I!LoadVoucher, I!Starts, I!Undisturbed
        <3>4. I!SwitchRegime(q) \/ I!CloseMonth(q)
            BY <3>1, <3>2, <3>3 DEF I!Serve, I!Dies, I!Running, I!FetchVoucher, I!UnpostInvoice, I!DropGl,
                I!DropDnsn, I!DropInvoice, I!UnpostVoucher, I!DropVoucher, I!PostVoucher, I!CheckVoucher,
                I!CommitCreate, I!Booking
        <3> QED BY <3>4 DEF I!SwitchRegime, I!CloseMonth, I!End, I!Goto, I!Running, ITypes
    <2> QED BY <2>2, <2>3
<1>5. IAlone(x)'
    BY <1>1, <1>4 DEF IAlone
<1>6. IDeletes(x)'
    <2>1. I!Op(x) = "delete" /\ iPc[x] \notin {"start", "failed"} => I!Target(x) \in IInvoices /\ IMade(I!Target(x))
        BY <1>2 DEF IDeletes
    <2> QED BY <1>1, <2>1, IOnce DEF IDeletes, IMade, I!Op, I!Target
<1>7. IHandles(x)'
    <2>1. I!Op(x) \in {"deleteVoucher", "postVoucher"} /\ iPc[x] \notin {"start", "ended", "failed"}
             => I!Target(x) \in IInvoices /\ IMade(I!Target(x))
        BY <1>2 DEF IHandles
    <2> QED BY <1>1, <2>1, IOnce DEF IHandles, IMade, I!Op, I!Target
<1> QED BY <1>3, <1>5, <1>6, <1>7

\* Every step keeps the invariant, unless requests on one invoice overlap.
LEMMA IServeKeeps ==
    ASSUME ~IOverlap, IInv, NEW q \in IRequests, I!Serve(q) \/ I!Dies(q) PROVE IInv'
<1>t. /\ I!Op(q) \notin {"convert", "closeMonth"} => I!Target(q) \in IInvoices
      /\ \A x \in IRequests : /\ {I!Op(q), I!Op(x)} \subseteq {"create", "createDraft"}
                              /\ I!Target(q) = I!Target(x)
                              => q = x
    BY ITargets DEF IInv
<1>j. iJob' = iJob
    BY DEF I!Serve, I!Dies, I!CreateDraft, I!BeginCreate, I!CommitCreate, I!CheckVoucher, I!LoadInvoice, I!FetchVoucher,
        I!UnpostInvoice, I!DropGl, I!DropDnsn, I!DropInvoice, I!LoadVoucher, I!UnpostVoucher,
        I!DropVoucher, I!PostVoucher, I!SwitchRegime, I!CloseMonth
<1>i. PICK i : i = I!Target(q)
    OBVIOUS
<1>h. ITypes /\ BooksMatchVouchers /\ IVouchers /\ IAlone(q) /\ IDeletes(q) /\ IHandles(q) /\ IWaits(q)
    BY DEF IInv
<1>o. \A x \in IRequests \ {q} : IAlone(x)' /\ IDeletes(x)' /\ IHandles(x)' /\ IWaits(x)'
    BY IOthersKept DEF IInv
<1>l. \A x \in IRequests \ {q} : iPc'[x] = iPc[x]
    BY ILocal DEF IInv
<1>y. ITypes'
    BY ITyped DEF IInv
<1> USE <1>i, <1>j
<1>1. CASE I!CreateDraft(q)
    <2>1. /\ iPc[q] = "start" /\ I!Op(q) = "createDraft" /\ iPc' = [iPc EXCEPT ![q] = "ended"]
          /\ UNCHANGED <<iGl, iDnsn, iBooks, iLedgers, iHasGl, iHasDnsn, iSeen>>
          /\ iStatus' = iStatus \/ iStatus' = [iStatus EXCEPT ![i] = "draft"]
        BY <1>h, <1>1 DEF I!CreateDraft, I!Starts, I!Goto, I!End, I!Fail, ITypes
    <2>2. i \in IInvoices \/ I!Op(q) \in {"convert", "closeMonth"}
        BY <1>t
    <2>3. iPc[q] \in {"voucher", "unpost", "unpostVoucher"} => i \in IInvoices
        BY <1>h, <2>2 DEF IWaits, I!Running
    <2>5. BooksMatchVouchers' /\ IVouchers'
        BY <1>t, <1>h, <2>1, <2>2, <2>3 DEF ITypes, IVouchers, IMade, I!Op, I!Target, I!Running,
            BooksMatchVouchers, I!BooksMatchVouchers, IAlone, IDeletes, IHandles, IWaits
    <2>6. IAlone(q)'
        BY <1>t, <1>h, <1>l, <2>1, <2>2, <2>3 DEF ITypes, IVouchers, I!Op, I!Target, I!Running,
            IAlone, IDeletes, IHandles, IWaits
    <2>7. IDeletes(q)' /\ IHandles(q)' /\ IWaits(q)'
        BY <1>t, <1>h, <2>1, <2>2, <2>3 DEF ITypes, IVouchers, IMade, I!Op, I!Target, I!Running,
            IAlone, IDeletes, IHandles, IWaits
    <2> QED BY <1>o, <1>y, <2>5, <2>6, <2>7 DEF IInv
<1>2. CASE I!BeginCreate(q)
    <2>1. /\ iPc[q] = "start" /\ I!Op(q) = "create" /\ UNCHANGED <<iHasGl, iSeen, iStatus, iGl, iDnsn, iBooks, iLedgers>>
          /\ iPc' = [iPc EXCEPT ![q] = "failed"] \/ iPc' = [iPc EXCEPT ![q] = "book"]
        BY <1>h, <1>2 DEF I!BeginCreate, I!Starts, I!data, I!Goto, I!End, I!Fail, ITypes
    <2>2. i \in IInvoices \/ I!Op(q) \in {"convert", "closeMonth"}
        BY <1>t
    <2>3. iPc[q] \in {"voucher", "unpost", "unpostVoucher"} => i \in IInvoices
        BY <1>h, <2>2 DEF IWaits, I!Running
    <2>5. BooksMatchVouchers' /\ IVouchers'
        BY <1>t, <1>h, <2>1, <2>2, <2>3 DEF ITypes, IVouchers, IMade, I!Op, I!Target, I!Running,
            BooksMatchVouchers, I!BooksMatchVouchers, IAlone, IDeletes, IHandles, IWaits
    <2>6. IAlone(q)'
        BY <1>t, <1>h, <1>l, <2>1, <2>2, <2>3 DEF ITypes, IVouchers, I!Op, I!Target, I!Running,
            IAlone, IDeletes, IHandles, IWaits
    <2>7. IDeletes(q)' /\ IHandles(q)' /\ IWaits(q)'
        BY <1>t, <1>h, <2>1, <2>2, <2>3 DEF ITypes, IVouchers, IMade, I!Op, I!Target, I!Running,
            IAlone, IDeletes, IHandles, IWaits
    <2> QED BY <1>o, <1>y, <2>5, <2>6, <2>7 DEF IInv
<1>3. CASE I!LoadInvoice(q)
    <2>1. /\ iPc[q] = "start" /\ I!Op(q) = "delete" /\ iSeen' = iSeen /\ UNCHANGED <<iStatus, iGl, iDnsn, iBooks, iLedgers>>
          /\ iGl[i] = "none" \/ \A x \in IRequests : I!Running(x) => I!Target(x) # i
          /\ iHasGl' = [iHasGl EXCEPT ![q] = iGl[i] # "none"]
          /\ iHasDnsn' = [iHasDnsn EXCEPT ![q] = iDnsn[i] # "none"]
          /\ iPc' = [iPc EXCEPT ![q] = IF iStatus[i] = "none" THEN "failed" ELSE "voucher"]
        BY <1>h, <1>3 DEF I!LoadInvoice, I!Starts, I!Undisturbed, I!data, I!Goto, I!End, I!Fail, ITypes
    <2>b. i \in IInvoices /\ iPc'[q] # "start" /\ (iHasGl'[q] <=> iGl[i] # "none")
          /\ (iHasDnsn'[q] <=> iDnsn[i] # "none") /\ iPc'[q] \in {"voucher", "failed"}
          /\ (iStatus[i] = "none" => iPc'[q] = "failed")
        BY <1>t, <1>h, <2>1 DEF ITypes
    <2>2. i \in IInvoices \/ I!Op(q) \in {"convert", "closeMonth"}
        BY <1>t
    <2>3. iPc[q] \in {"voucher", "unpost", "unpostVoucher"} => i \in IInvoices
        BY <1>h, <2>2 DEF IWaits, I!Running
    <2>5. BooksMatchVouchers' /\ IVouchers'
        BY <1>t, <1>h, <2>1, <2>2, <2>3, <2>b DEF ITypes, IVouchers, IMade, I!Op, I!Target, I!Running,
            BooksMatchVouchers, I!BooksMatchVouchers, IAlone, IDeletes, IHandles, IWaits
    <2>6. IAlone(q)'
        BY <1>t, <1>h, <1>l, <2>1, <2>2, <2>3, <2>b DEF ITypes, IVouchers, I!Op, I!Target, I!Running,
            IAlone, IDeletes, IHandles, IWaits
    <2>7. IDeletes(q)' /\ IHandles(q)' /\ IWaits(q)'
        BY <1>t, <1>h, <2>1, <2>2, <2>3, <2>b DEF ITypes, IVouchers, IMade, I!Op, I!Target, I!Running,
            IAlone, IDeletes, IHandles, IWaits
    <2> QED BY <1>o, <1>y, <2>5, <2>6, <2>7 DEF IInv
<1>4. CASE I!FetchVoucher(q)
    <2>v. PICK v : v = IF iHasDnsn[q] THEN iDnsn[i] ELSE IF iHasGl[q] THEN iGl[i] ELSE "draft"
        OBVIOUS
    <2>1. /\ iPc[q] = "voucher" /\ UNCHANGED <<iHasGl, iHasDnsn>> /\ UNCHANGED <<iStatus, iGl, iDnsn, iBooks, iLedgers>>
          /\ iSeen' = [iSeen EXCEPT ![q] = v]
          /\ iPc' = [iPc EXCEPT ![q] = IF v = "none" THEN "failed"
                                       ELSE IF iHasDnsn[q] \/ iHasGl[q] THEN "unpost" ELSE "dropGl"]
        BY <1>h, <1>4, <2>v DEF I!FetchVoucher, I!data, I!Goto, I!End, I!Fail, ITypes
    <2>2. i \in IInvoices \/ I!Op(q) \in {"convert", "closeMonth"}
        BY <1>t
    <2>3. iPc[q] \in {"voucher", "unpost", "unpostVoucher"} => i \in IInvoices
        BY <1>h, <2>2 DEF IWaits, I!Running
    <2>5. BooksMatchVouchers' /\ IVouchers'
        BY <1>t, <1>h, <2>1, <2>2, <2>3, <2>v DEF ITypes, IVouchers, IMade, I!Op, I!Target, I!Running,
            BooksMatchVouchers, I!BooksMatchVouchers, IAlone, IDeletes, IHandles, IWaits
    <2>6. IAlone(q)'
        BY <1>t, <1>h, <1>l, <2>1, <2>2, <2>3, <2>v DEF ITypes, IVouchers, I!Op, I!Target, I!Running,
            IAlone, IDeletes, IHandles, IWaits
    <2>7. IDeletes(q)' /\ IHandles(q)' /\ IWaits(q)'
        BY <1>t, <1>h, <2>1, <2>2, <2>3, <2>v DEF ITypes, IVouchers, IMade, I!Op, I!Target, I!Running,
            IAlone, IDeletes, IHandles, IWaits
    <2> QED BY <1>o, <1>y, <2>5, <2>6, <2>7 DEF IInv
<1>5. CASE I!UnpostInvoice(q)
    <2>1. /\ iPc[q] = "unpost" /\ UNCHANGED <<iHasGl, iHasDnsn, iSeen>>
          /\ \/ iPc' = [iPc EXCEPT ![q] = "failed"] /\ UNCHANGED <<iStatus, iGl, iDnsn, iBooks, iLedgers>>
             \/ /\ (IF iHasDnsn[q] THEN iDnsn[i] ELSE iGl[i]) # "none"
                /\ iPc' = [iPc EXCEPT ![q] = "dropGl"]
                /\ iStatus' = [iStatus EXCEPT ![i] = "draft"]
                /\ \/ iSeen[q] # "posted" /\ UNCHANGED <<iGl, iDnsn, iBooks, iLedgers>>
                   \/ /\ iSeen[q] = "posted" /\ iHasDnsn[q] /\ UNCHANGED <<iGl, iBooks>>
                      /\ iDnsn' = [iDnsn EXCEPT ![i] = "draft"] /\ iLedgers' = iLedgers \ {i}
                   \/ /\ iSeen[q] = "posted" /\ ~iHasDnsn[q] /\ UNCHANGED <<iDnsn, iLedgers>>
                      /\ iGl' = [iGl EXCEPT ![i] = "draft"] /\ iBooks' = [iBooks EXCEPT ![i] = @ - 1]
        BY <1>h, <1>5 DEF I!UnpostInvoice, I!Unposts, I!Rebuild, I!TakeOut, I!Goto, I!End, I!Fail, ITypes
    <2>2. i \in IInvoices \/ I!Op(q) \in {"convert", "closeMonth"}
        BY <1>t
    <2>3. iPc[q] \in {"voucher", "unpost", "unpostVoucher"} => i \in IInvoices
        BY <1>h, <2>2 DEF IWaits, I!Running
    <2>5. BooksMatchVouchers' /\ IVouchers'
        BY <1>t, <1>h, <2>1, <2>2, <2>3 DEF ITypes, IVouchers, IMade, I!Op, I!Target, I!Running,
            BooksMatchVouchers, I!BooksMatchVouchers, IAlone, IDeletes, IHandles, IWaits
    <2>6. IAlone(q)'
        BY <1>t, <1>h, <1>l, <2>1, <2>2, <2>3 DEF ITypes, IVouchers, I!Op, I!Target, I!Running,
            IAlone, IDeletes, IHandles, IWaits
    <2>7. IDeletes(q)' /\ IHandles(q)' /\ IWaits(q)'
        BY <1>t, <1>h, <2>1, <2>2, <2>3 DEF ITypes, IVouchers, IMade, I!Op, I!Target, I!Running,
            IAlone, IDeletes, IHandles, IWaits
    <2> QED BY <1>o, <1>y, <2>5, <2>6, <2>7 DEF IInv
<1>6. CASE I!DropGl(q)
    <2>1. /\ iPc[q] = "dropGl" /\ UNCHANGED <<iStatus, iDnsn, iBooks, iLedgers, iHasGl, iHasDnsn, iSeen>>
          /\ iPc' = [iPc EXCEPT ![q] = "dropDnsn"]
          /\ iGl' = [iGl EXCEPT ![i] = IF iHasGl[q] THEN "none" ELSE @]
        BY <1>h, <1>6 DEF I!DropGl, I!Goto, I!End, I!Fail, ITypes
    <2>2. i \in IInvoices \/ I!Op(q) \in {"convert", "closeMonth"}
        BY <1>t
    <2>3. iPc[q] \in {"voucher", "unpost", "unpostVoucher"} => i \in IInvoices
        BY <1>h, <2>2 DEF IWaits, I!Running
    <2>5. BooksMatchVouchers' /\ IVouchers'
        BY <1>t, <1>h, <2>1, <2>2, <2>3 DEF ITypes, IVouchers, IMade, I!Op, I!Target, I!Running,
            BooksMatchVouchers, I!BooksMatchVouchers, IAlone, IDeletes, IHandles, IWaits
    <2>6. IAlone(q)'
        BY <1>t, <1>h, <1>l, <2>1, <2>2, <2>3 DEF ITypes, IVouchers, I!Op, I!Target, I!Running,
            IAlone, IDeletes, IHandles, IWaits
    <2>7. IDeletes(q)' /\ IHandles(q)' /\ IWaits(q)'
        BY <1>t, <1>h, <2>1, <2>2, <2>3 DEF ITypes, IVouchers, IMade, I!Op, I!Target, I!Running,
            IAlone, IDeletes, IHandles, IWaits
    <2> QED BY <1>o, <1>y, <2>5, <2>6, <2>7 DEF IInv
<1>7. CASE I!DropDnsn(q)
    <2>1. /\ iPc[q] = "dropDnsn" /\ UNCHANGED <<iStatus, iGl, iBooks, iLedgers, iHasGl, iHasDnsn, iSeen>>
          /\ iPc' = [iPc EXCEPT ![q] = "dropInvoice"]
          /\ iDnsn' = [iDnsn EXCEPT ![i] = IF iHasDnsn[q] THEN "none" ELSE @]
        BY <1>h, <1>7 DEF I!DropDnsn, I!LinksDnsn, I!Goto, I!End, I!Fail, ITypes
    <2>2. i \in IInvoices \/ I!Op(q) \in {"convert", "closeMonth"}
        BY <1>t
    <2>3. iPc[q] \in {"voucher", "unpost", "unpostVoucher"} => i \in IInvoices
        BY <1>h, <2>2 DEF IWaits, I!Running
    <2>5. BooksMatchVouchers' /\ IVouchers'
        BY <1>t, <1>h, <2>1, <2>2, <2>3 DEF ITypes, IVouchers, IMade, I!Op, I!Target, I!Running,
            BooksMatchVouchers, I!BooksMatchVouchers, IAlone, IDeletes, IHandles, IWaits
    <2>6. IAlone(q)'
        BY <1>t, <1>h, <1>l, <2>1, <2>2, <2>3 DEF ITypes, IVouchers, I!Op, I!Target, I!Running,
            IAlone, IDeletes, IHandles, IWaits
    <2>7. IDeletes(q)' /\ IHandles(q)' /\ IWaits(q)'
        BY <1>t, <1>h, <2>1, <2>2, <2>3 DEF ITypes, IVouchers, IMade, I!Op, I!Target, I!Running,
            IAlone, IDeletes, IHandles, IWaits
    <2> QED BY <1>o, <1>y, <2>5, <2>6, <2>7 DEF IInv
<1>8. CASE I!DropInvoice(q)
    <2>1. /\ iPc[q] = "dropInvoice" /\ UNCHANGED <<iGl, iDnsn, iBooks, iLedgers, iHasGl, iHasDnsn, iSeen>>
          /\ iPc' = [iPc EXCEPT ![q] = "ended"] /\ iStatus' = [iStatus EXCEPT ![i] = "none"]
        BY <1>h, <1>8 DEF I!DropInvoice, I!Goto, I!End, I!Fail, ITypes
    <2>2. i \in IInvoices \/ I!Op(q) \in {"convert", "closeMonth"}
        BY <1>t
    <2>3. iPc[q] \in {"voucher", "unpost", "unpostVoucher"} => i \in IInvoices
        BY <1>h, <2>2 DEF IWaits, I!Running
    <2>5. BooksMatchVouchers' /\ IVouchers'
        BY <1>t, <1>h, <2>1, <2>2, <2>3 DEF ITypes, IVouchers, IMade, I!Op, I!Target, I!Running,
            BooksMatchVouchers, I!BooksMatchVouchers, IAlone, IDeletes, IHandles, IWaits
    <2>6. IAlone(q)'
        BY <1>t, <1>h, <1>l, <2>1, <2>2, <2>3 DEF ITypes, IVouchers, I!Op, I!Target, I!Running,
            IAlone, IDeletes, IHandles, IWaits
    <2>7. IDeletes(q)' /\ IHandles(q)' /\ IWaits(q)'
        BY <1>t, <1>h, <2>1, <2>2, <2>3 DEF ITypes, IVouchers, IMade, I!Op, I!Target, I!Running,
            IAlone, IDeletes, IHandles, IWaits
    <2> QED BY <1>o, <1>y, <2>5, <2>6, <2>7 DEF IInv
<1>9. CASE I!LoadVoucher(q)
    <2>v. PICK v : v = IF iGl[i] # "none" THEN iGl[i] ELSE iDnsn[i]
        OBVIOUS
    <2>1. /\ iPc[q] = "start" /\ I!Op(q) \in {"deleteVoucher", "postVoucher"} /\ iHasDnsn' = iHasDnsn
          /\ UNCHANGED <<iStatus, iGl, iDnsn, iBooks, iLedgers>>
          /\ iGl[i] = "none" \/ \A x \in IRequests : I!Running(x) => I!Target(x) # i
          /\ iHasGl' = [iHasGl EXCEPT ![q] = iGl[i] # "none"]
          /\ iSeen' = [iSeen EXCEPT ![q] = v]
          /\ iPc' = [iPc EXCEPT ![q] =
                              IF v = "none" \/ (iGl[i] = "none" /\ (v = "posted" \/ I!Op(q) = "postVoucher")) THEN "ended"
                              ELSE IF I!Op(q) = "postVoucher" THEN "post"
                              ELSE IF v = "posted" THEN "unpostVoucher" ELSE "dropVoucher"]
        BY <1>h, <1>9, <2>v DEF I!LoadVoucher, I!Undisturbed, I!data, I!Goto, I!End, I!Fail, ITypes
    <2>b. i \in IInvoices /\ iPc'[q] # "start" /\ (iHasGl'[q] <=> iGl[i] # "none")
          /\ iPc'[q] \in {"ended", "post", "unpostVoucher", "dropVoucher"}
          /\ iSeen'[q] = v /\ v \in {"none", "draft", "posted"}
        BY <1>t, <1>h, <2>1, <2>v DEF ITypes
    <2>2. i \in IInvoices \/ I!Op(q) \in {"convert", "closeMonth"}
        BY <1>t
    <2>3. iPc[q] \in {"voucher", "unpost", "unpostVoucher"} => i \in IInvoices
        BY <1>h, <2>2 DEF IWaits, I!Running
    <2>5. BooksMatchVouchers' /\ IVouchers'
        BY <1>t, <1>h, <2>1, <2>2, <2>3, <2>v, <2>b DEF ITypes, IVouchers, IMade, I!Op, I!Target, I!Running,
            BooksMatchVouchers, I!BooksMatchVouchers, IAlone, IDeletes, IHandles, IWaits
    <2>6. IAlone(q)'
        BY <1>t, <1>h, <1>l, <2>1, <2>2, <2>3, <2>v, <2>b DEF ITypes, IVouchers, I!Op, I!Target, I!Running,
            IAlone, IDeletes, IHandles, IWaits
    <2>7. IDeletes(q)' /\ IHandles(q)' /\ IWaits(q)'
        BY <1>t, <1>h, <2>1, <2>2, <2>3, <2>v, <2>b DEF ITypes, IVouchers, IMade, I!Op, I!Target, I!Running,
            IAlone, IDeletes, IHandles, IWaits
    <2> QED BY <1>o, <1>y, <2>5, <2>6, <2>7 DEF IInv
<1>10. CASE I!UnpostVoucher(q)
    <2>1. /\ iPc[q] = "unpostVoucher" /\ UNCHANGED <<iStatus, iHasGl, iHasDnsn, iSeen>>
          /\ \/ iPc' = [iPc EXCEPT ![q] = "failed"] /\ UNCHANGED <<iGl, iDnsn, iBooks, iLedgers>>
             \/ /\ iGl[i] # "none"
                /\ iPc' = [iPc EXCEPT ![q] = "dropVoucher"] /\ UNCHANGED <<iDnsn, iLedgers>>
                /\ iGl' = [iGl EXCEPT ![i] = "draft"] /\ iBooks' = [iBooks EXCEPT ![i] = @ - 1]
        BY <1>h, <1>10 DEF I!UnpostVoucher, I!TakeOut, I!Goto, I!End, I!Fail, ITypes
    <2>2. i \in IInvoices \/ I!Op(q) \in {"convert", "closeMonth"}
        BY <1>t
    <2>3. iPc[q] \in {"voucher", "unpost", "unpostVoucher"} => i \in IInvoices
        BY <1>h, <2>2 DEF IWaits, I!Running
    <2>5. BooksMatchVouchers' /\ IVouchers'
        BY <1>t, <1>h, <2>1, <2>2, <2>3 DEF ITypes, IVouchers, IMade, I!Op, I!Target, I!Running,
            BooksMatchVouchers, I!BooksMatchVouchers, IAlone, IDeletes, IHandles, IWaits
    <2>6. IAlone(q)'
        BY <1>t, <1>h, <1>l, <2>1, <2>2, <2>3 DEF ITypes, IVouchers, I!Op, I!Target, I!Running,
            IAlone, IDeletes, IHandles, IWaits
    <2>7. IDeletes(q)' /\ IHandles(q)' /\ IWaits(q)'
        BY <1>t, <1>h, <2>1, <2>2, <2>3 DEF ITypes, IVouchers, IMade, I!Op, I!Target, I!Running,
            IAlone, IDeletes, IHandles, IWaits
    <2> QED BY <1>o, <1>y, <2>5, <2>6, <2>7 DEF IInv
<1>11. CASE I!DropVoucher(q)
    <2>1. /\ iPc[q] = "dropVoucher" /\ UNCHANGED <<iStatus, iBooks, iLedgers, iHasGl, iHasDnsn, iSeen>>
          /\ iPc' = [iPc EXCEPT ![q] = "ended"]
          /\ \/ iHasGl[q] /\ iGl' = [iGl EXCEPT ![i] = "none"] /\ iDnsn' = iDnsn
             \/ ~iHasGl[q] /\ iDnsn' = [iDnsn EXCEPT ![i] = "none"] /\ iGl' = iGl
        BY <1>h, <1>11 DEF I!DropVoucher, I!Goto, I!End, I!Fail, ITypes
    <2>2. i \in IInvoices \/ I!Op(q) \in {"convert", "closeMonth"}
        BY <1>t
    <2>3. iPc[q] \in {"voucher", "unpost", "unpostVoucher"} => i \in IInvoices
        BY <1>h, <2>2 DEF IWaits, I!Running
    <2>5. BooksMatchVouchers' /\ IVouchers'
        BY <1>t, <1>h, <2>1, <2>2, <2>3 DEF ITypes, IVouchers, IMade, I!Op, I!Target, I!Running,
            BooksMatchVouchers, I!BooksMatchVouchers, IAlone, IDeletes, IHandles, IWaits
    <2>6. IAlone(q)'
        BY <1>t, <1>h, <1>l, <2>1, <2>2, <2>3 DEF ITypes, IVouchers, I!Op, I!Target, I!Running,
            IAlone, IDeletes, IHandles, IWaits
    <2>7. IDeletes(q)' /\ IHandles(q)' /\ IWaits(q)'
        BY <1>t, <1>h, <2>1, <2>2, <2>3 DEF ITypes, IVouchers, IMade, I!Op, I!Target, I!Running,
            IAlone, IDeletes, IHandles, IWaits
    <2> QED BY <1>o, <1>y, <2>5, <2>6, <2>7 DEF IInv
<1>16. CASE I!CheckVoucher(q)
    <2>1. /\ iPc[q] = "post" /\ UNCHANGED <<iStatus, iHasGl, iHasDnsn, iSeen, iGl, iDnsn, iBooks, iLedgers>>
          /\ \/ iPc' = [iPc EXCEPT ![q] = "ended"] \/ iPc' = [iPc EXCEPT ![q] = "failed"]
             \/ iSeen[q] # "posted" /\ iPc' = [iPc EXCEPT ![q] = "bookVoucher"]
        BY <1>h, <1>16 DEF I!CheckVoucher, I!data, I!Goto, I!End, I!Fail, ITypes
    <2>2. i \in IInvoices \/ I!Op(q) \in {"convert", "closeMonth"}
        BY <1>t
    <2>3. iPc[q] \in {"voucher", "unpost", "unpostVoucher"} => i \in IInvoices
        BY <1>h, <2>2 DEF IWaits, I!Running
    <2>5. BooksMatchVouchers' /\ IVouchers'
        BY <1>t, <1>h, <2>1, <2>2, <2>3 DEF ITypes, IVouchers, IMade, I!Op, I!Target, I!Running,
            BooksMatchVouchers, I!BooksMatchVouchers, IAlone, IDeletes, IHandles, IWaits
    <2>6. IAlone(q)'
        BY <1>t, <1>h, <1>l, <2>1, <2>2, <2>3 DEF ITypes, IVouchers, I!Op, I!Target, I!Running,
            IAlone, IDeletes, IHandles, IWaits
    <2>7. IDeletes(q)' /\ IHandles(q)' /\ IWaits(q)'
        BY <1>t, <1>h, <2>1, <2>2, <2>3 DEF ITypes, IVouchers, IMade, I!Op, I!Target, I!Running,
            IAlone, IDeletes, IHandles, IWaits
    <2> QED BY <1>o, <1>y, <2>5, <2>6, <2>7 DEF IInv
<1>12. CASE I!PostVoucher(q)
    <2>1. /\ iPc[q] = "bookVoucher" /\ UNCHANGED <<iStatus, iHasGl, iHasDnsn, iSeen, iDnsn, iLedgers>>
          /\ \/ UNCHANGED <<iGl, iBooks>> /\ iPc' = [iPc EXCEPT ![q] = "failed"]
             \/ /\ iGl[i] # "none" /\ iPc' = [iPc EXCEPT ![q] = "ended"]
                /\ iGl' = [iGl EXCEPT ![i] = "posted"] /\ iBooks' = [iBooks EXCEPT ![i] = @ + 1]
        BY <1>h, <1>12 DEF I!PostVoucher, I!BookGl, I!Goto, I!End, I!Fail, ITypes
    <2>2. i \in IInvoices \/ I!Op(q) \in {"convert", "closeMonth"}
        BY <1>t
    <2>3. iPc[q] \in {"voucher", "unpost", "unpostVoucher"} => i \in IInvoices
        BY <1>h, <2>2 DEF IWaits, I!Running
    <2>5. BooksMatchVouchers' /\ IVouchers'
        BY <1>t, <1>h, <2>1, <2>2, <2>3 DEF ITypes, IVouchers, IMade, I!Op, I!Target, I!Running,
            BooksMatchVouchers, I!BooksMatchVouchers, IAlone, IDeletes, IHandles, IWaits
    <2>6. IAlone(q)'
        BY <1>t, <1>h, <1>l, <2>1, <2>2, <2>3 DEF ITypes, IVouchers, I!Op, I!Target, I!Running,
            IAlone, IDeletes, IHandles, IWaits
    <2>7. IDeletes(q)' /\ IHandles(q)' /\ IWaits(q)'
        BY <1>t, <1>h, <2>1, <2>2, <2>3 DEF ITypes, IVouchers, IMade, I!Op, I!Target, I!Running,
            IAlone, IDeletes, IHandles, IWaits
    <2> QED BY <1>o, <1>y, <2>5, <2>6, <2>7 DEF IInv
<1>13. CASE I!SwitchRegime(q) \/ I!CloseMonth(q)
    <2>1. /\ iPc[q] = "start" /\ I!Op(q) \in {"convert", "closeMonth"} /\ iPc' = [iPc EXCEPT ![q] = "ended"]
          /\ UNCHANGED <<iHasGl, iHasDnsn, iSeen>> /\ UNCHANGED <<iStatus, iGl, iDnsn, iBooks, iLedgers>>
        BY <1>h, <1>13 DEF I!SwitchRegime, I!CloseMonth, I!Goto, I!End, I!Fail, ITypes
    <2>2. i \in IInvoices \/ I!Op(q) \in {"convert", "closeMonth"}
        BY <1>t
    <2>3. iPc[q] \in {"voucher", "unpost", "unpostVoucher"} => i \in IInvoices
        BY <1>h, <2>2 DEF IWaits, I!Running
    <2>5. BooksMatchVouchers' /\ IVouchers'
        BY <1>t, <1>h, <2>1, <2>2, <2>3 DEF ITypes, IVouchers, IMade, I!Op, I!Target, I!Running,
            BooksMatchVouchers, I!BooksMatchVouchers, IAlone, IDeletes, IHandles, IWaits
    <2>6. IAlone(q)'
        BY <1>t, <1>h, <1>l, <2>1, <2>2, <2>3 DEF ITypes, IVouchers, I!Op, I!Target, I!Running,
            IAlone, IDeletes, IHandles, IWaits
    <2>7. IDeletes(q)' /\ IHandles(q)' /\ IWaits(q)'
        BY <1>t, <1>h, <2>1, <2>2, <2>3 DEF ITypes, IVouchers, IMade, I!Op, I!Target, I!Running,
            IAlone, IDeletes, IHandles, IWaits
    <2> QED BY <1>o, <1>y, <2>5, <2>6, <2>7 DEF IInv
<1>14. CASE I!Dies(q)
    <2>1. /\ I!Running(q) /\ iPc' = [iPc EXCEPT ![q] = "failed"]
          /\ UNCHANGED <<iHasGl, iHasDnsn, iSeen>> /\ UNCHANGED <<iStatus, iGl, iDnsn, iBooks, iLedgers>>
        BY <1>h, <1>14 DEF I!Dies, I!data, I!Goto, I!End, I!Fail, ITypes
    <2>2. i \in IInvoices \/ I!Op(q) \in {"convert", "closeMonth"}
        BY <1>t
    <2>3. iPc[q] \in {"voucher", "unpost", "unpostVoucher"} => i \in IInvoices
        BY <1>h, <2>2 DEF IWaits, I!Running
    <2>5. BooksMatchVouchers' /\ IVouchers'
        BY <1>t, <1>h, <2>1, <2>2, <2>3 DEF ITypes, IVouchers, IMade, I!Op, I!Target, I!Running,
            BooksMatchVouchers, I!BooksMatchVouchers, IAlone, IDeletes, IHandles, IWaits
    <2>6. IAlone(q)'
        BY <1>t, <1>h, <1>l, <2>1, <2>2, <2>3 DEF ITypes, IVouchers, I!Op, I!Target, I!Running,
            IAlone, IDeletes, IHandles, IWaits
    <2>7. IDeletes(q)' /\ IHandles(q)' /\ IWaits(q)'
        BY <1>t, <1>h, <2>1, <2>2, <2>3 DEF ITypes, IVouchers, IMade, I!Op, I!Target, I!Running,
            IAlone, IDeletes, IHandles, IWaits
    <2> QED BY <1>o, <1>y, <2>5, <2>6, <2>7 DEF IInv
<1>15. CASE I!CommitCreate(q)
    <2>0. iPc[q] = "book" /\ I!Op(q) = "create"
        BY <1>h, <1>15 DEF I!CommitCreate, I!Booking, IDeletes, IHandles, IWaits, I!Running
    <2>1. /\ UNCHANGED <<iHasGl, iHasDnsn, iSeen>>
          /\ iPc' = [iPc EXCEPT ![q] = "ended"] /\ iStatus' = [iStatus EXCEPT ![i] = "ledger"]
          /\ \/ /\ iDnsn' = [iDnsn EXCEPT ![i] = "posted"] /\ iLedgers' = iLedgers \cup {i}
                /\ UNCHANGED <<iGl, iBooks>>
             \/ /\ iGl' = [iGl EXCEPT ![i] = "posted"] /\ iBooks' = [iBooks EXCEPT ![i] = @ + 1]
                /\ UNCHANGED <<iDnsn, iLedgers>>
        BY <1>h, <1>15 DEF I!CommitCreate, I!Booking, I!BookDnsn, I!BookGl, I!Goto, I!End, I!Fail, ITypes
    <2>2. i \in IInvoices \/ I!Op(q) \in {"convert", "closeMonth"}
        BY <1>t
    <2>3. iPc[q] \in {"voucher", "unpost", "unpostVoucher"} => i \in IInvoices
        BY <1>h, <2>2 DEF IWaits, I!Running
    <2>5. BooksMatchVouchers' /\ IVouchers'
        BY <1>t, <1>h, <2>0, <2>1, <2>2, <2>3 DEF ITypes, IVouchers, IMade, I!Op, I!Target, I!Running,
            BooksMatchVouchers, I!BooksMatchVouchers, IAlone, IDeletes, IHandles, IWaits
    <2>6. IAlone(q)'
        BY <1>t, <1>h, <1>l, <2>0, <2>1, <2>2, <2>3 DEF ITypes, IVouchers, I!Op, I!Target, I!Running,
            IAlone, IDeletes, IHandles, IWaits
    <2>7. IDeletes(q)' /\ IHandles(q)' /\ IWaits(q)'
        BY <1>t, <1>h, <2>0, <2>1, <2>2, <2>3 DEF ITypes, IVouchers, IMade, I!Op, I!Target, I!Running,
            IAlone, IDeletes, IHandles, IWaits
    <2> QED BY <1>o, <1>y, <2>5, <2>6, <2>7 DEF IInv
<1> QED BY <1>1, <1>2, <1>3, <1>4, <1>5, <1>6, <1>7, <1>8, <1>9, <1>10, <1>11, <1>12, <1>13, <1>14, <1>15, <1>16 DEF I!Serve

\* Who is about to book in a closed month had passed the check before it was closed.
ILate == iClosed => \A q \in IRequests : iPc[q] \in {"book", "bookVoucher"} => q \in iLate

\* That stays so: none passes the check of a closed month.
LEMMA ILateKept ==
    ASSUME ITypes, ILate, NEW q \in IRequests, I!Serve(q) \/ I!Dies(q) PROVE ILate'
<1>l. /\ \A x \in IRequests \ {q} : iPc'[x] = iPc[x]
      /\ iPc'[q] # "start"
    BY ILocal
<1> USE DEF ITypes, ILate, I!data, I!Goto, I!End, I!Fail
<1>1. CASE I!CloseMonth(q)
    <2>1. iPc'[q] = "ended" /\ iLate' = IF iClosed THEN iLate ELSE {x \in IRequests : iPc[x] \in {"book", "bookVoucher"}}
        BY <1>1 DEF I!CloseMonth
    <2> QED BY <1>l, <2>1
<1>2. CASE I!BeginCreate(q)
    BY <1>2, <1>l DEF I!BeginCreate, I!CreateFails
<1>3. CASE I!CheckVoucher(q)
    BY <1>3, <1>l DEF I!CheckVoucher
<1>4. CASE UNCHANGED <<iClosed, iLate>> /\ iPc'[q] \notin {"book", "bookVoucher"}
    BY <1>4, <1>l
<1>5. CASE I!CreateDraft(q) \/ I!CommitCreate(q) \/ I!LoadInvoice(q) \/ I!FetchVoucher(q) \/ I!UnpostInvoice(q)
    <2>1. CASE I!CreateDraft(q) \/ I!CommitCreate(q)
        BY <1>4, <2>1 DEF I!CreateDraft, I!CommitCreate
    <2>2. CASE I!LoadInvoice(q)
        BY <1>4, <2>2 DEF I!LoadInvoice
    <2>3. CASE I!FetchVoucher(q)
        BY <1>4, <2>3 DEF I!FetchVoucher
    <2>4. CASE I!UnpostInvoice(q)
        BY <1>4, <2>4 DEF I!UnpostInvoice
    <2> QED BY <1>5, <2>1, <2>2, <2>3, <2>4
<1>6. CASE I!DropGl(q) \/ I!DropDnsn(q) \/ I!DropInvoice(q)
    <2>1. UNCHANGED <<iClosed, iLate>>
        BY <1>6, Zenon DEF I!DropGl, I!DropDnsn, I!DropInvoice, I!End
    <2>2. iPc'[q] \notin {"book", "bookVoucher"}
        BY <1>6 DEF I!DropGl, I!DropDnsn, I!DropInvoice
    <2> QED BY <1>4, <2>1, <2>2
<1>8. CASE I!LoadVoucher(q) \/ I!UnpostVoucher(q)
    BY <1>4, <1>8 DEF I!LoadVoucher, I!UnpostVoucher
<1>7. CASE I!DropVoucher(q) \/ I!PostVoucher(q) \/ I!SwitchRegime(q) \/ I!Dies(q)
    BY <1>4, <1>7 DEF I!DropVoucher, I!PostVoucher, I!SwitchRegime, I!Dies
<1> QED BY <1>1, <1>2, <1>3, <1>5, <1>6, <1>7, <1>8 DEF I!Serve

\* Types and late requests, without any assumption on requests that meet.
LEMMA InvoicesLate == Spec => [](ITypes /\ ILate)
<1> DEFINE T == ITypes /\ ILate /\ \A q \in IRequests : IWaits(q)
<1>1. Init => T
    <2> SUFFICES ASSUME I!Init PROVE T
        BY DEF Init
    <2>1. ITypes
        BY IStarts
    <2> QED BY <2>1 DEF I!Init, ILate, IWaits, I!Running
<1>2. T /\ [Next]_vars => T'
    <2> SUFFICES ASSUME T, [Next]_vars PROVE T'
        OBVIOUS
    <2>1. CASE InvoicesMove
        BY <2>1, ITyped, ILateKept DEF InvoicesMove, I!Next
    <2>2. CASE UNCHANGED iVars
        BY <2>2 DEF iVars, ITypes, ILate, IWaits, I!Running, I!Op
    <2>3. CASE DocumentsMove \/ ApprovalsMove \/ StockMoves \/ YearMoves \/ BankMoves \/ WikiMoves
                 \/ EInvoicesMove
        BY <2>2, <2>3 DEF DocumentsMove, ApprovalsMove, StockMoves, YearMoves, BankMoves, WikiMoves,
            EInvoicesMove
    <2>4. CASE UNCHANGED vars
        BY <2>2, <2>4 DEF vars
    <2> QED BY <2>1, <2>3, <2>4 DEF Next
<1> QED BY <1>1, <1>2, PTL DEF Spec

\* The inductive invariant of the invoices.
LEMMA InvoicesInvariant == ASSUME ~IOverlap PROVE Spec => []IInv
<1>1. Init => IInv
    <2> SUFFICES ASSUME I!Init PROVE IInv
        BY DEF Init
    <2>1. ITypes
        BY IStarts
    <2> QED BY <2>1 DEF I!Init, IInv, IVouchers, BooksMatchVouchers, I!BooksMatchVouchers, IMade,
            IAlone, IDeletes, IHandles, IWaits, I!Running
<1>2. IInv /\ [Next]_vars => IInv'
    <2> SUFFICES ASSUME IInv, [Next]_vars PROVE IInv'
        OBVIOUS
    <2>1. CASE InvoicesMove
        BY <2>1, IServeKeeps DEF InvoicesMove, I!Next
    <2>2. CASE UNCHANGED iVars
        BY <2>2 DEF iVars, IInv, ITypes, IVouchers, BooksMatchVouchers, I!BooksMatchVouchers, IMade,
            IAlone, IDeletes, IHandles, IWaits, I!Running, I!Op, I!Target
    <2>3. CASE DocumentsMove \/ ApprovalsMove \/ StockMoves \/ YearMoves \/ BankMoves \/ WikiMoves
                 \/ EInvoicesMove
        BY <2>2, <2>3 DEF DocumentsMove, ApprovalsMove, StockMoves, YearMoves, BankMoves, WikiMoves,
            EInvoicesMove
    <2>4. CASE UNCHANGED vars
        BY <2>2, <2>4 DEF vars
    <2> QED BY <2>1, <2>3, <2>4 DEF Next
<1> QED BY <1>1, <1>2, PTL DEF Spec

\* The amounts of an invoice are in the balances exactly while its voucher is
\* posted, whichever way requests for it interleave or die.
THEOREM InvoicesMatchBooks == ASSUME ~IOverlap PROVE Spec => []BooksMatchVouchers
<1>1. IInv => BooksMatchVouchers
    BY DEF IInv
<1> QED BY <1>1, InvoicesInvariant, PTL

\* No amount stays in any balance without its invoice.
THEOREM InvoicesLeaveBooks == ASSUME ~IOverlap PROVE Spec => []NothingWithoutInvoice
<1>1. IInv => NothingWithoutInvoice
    BY DEF IInv, ITypes, IVouchers, BooksMatchVouchers, I!BooksMatchVouchers, NothingWithoutInvoice,
        I!NothingWithoutInvoice
<1> QED BY <1>1, InvoicesInvariant, PTL

\* A deletion that did not fail leaves neither the invoice nor its voucher.
THEOREM InvoicesAreDeleted == ASSUME ~IOverlap PROVE Spec => []DeletionIsComplete
<1>1. IInv => DeletionIsComplete
    <2> SUFFICES ASSUME IInv, NEW q \in IRequests, I!Op(q) = "delete", iPc[q] = "ended"
                 PROVE  /\ iStatus[I!Target(q)] = "none" /\ iGl[I!Target(q)] = "none"
                        /\ iDnsn[I!Target(q)] = "none"
        BY DEF DeletionIsComplete, I!DeletionIsComplete
    <2> QED BY DEF IInv, IDeletes
<1> QED BY <1>1, InvoicesInvariant, PTL

\* What a step adds to the balances comes from a request that had passed the check.
LEMMA IAdds ==
    ASSUME ITypes, NEW q \in IRequests, I!Serve(q) \/ I!Dies(q), NEW i \in IInvoices,
           iBooks'[i] > iBooks[i] \/ i \in iLedgers' \ iLedgers
    PROVE  iPc[q] \in {"book", "bookVoucher"} /\ I!Target(q) = i
<1> USE DEF ITypes, I!data
<1>0. ~UNCHANGED <<iBooks, iLedgers>>
    <2>1. iBooks[i] \in Int
        OBVIOUS
    <2> QED BY <2>1
<1>1. CASE I!CommitCreate(q)
    BY <1>1 DEF I!CommitCreate, I!Booking, I!BookGl, I!BookDnsn
<1>2. CASE I!PostVoucher(q)
    BY <1>0, <1>2 DEF I!PostVoucher, I!BookGl
<1>3. CASE I!UnpostInvoice(q)
    BY <1>3 DEF I!UnpostInvoice, I!Rebuild, I!TakeOut
<1>4. CASE I!UnpostVoucher(q)
    BY <1>4 DEF I!UnpostVoucher, I!TakeOut
<1>5. CASE I!CreateDraft(q) \/ I!BeginCreate(q) \/ I!LoadInvoice(q) \/ I!FetchVoucher(q) \/ I!DropGl(q)
             \/ I!DropDnsn(q) \/ I!DropInvoice(q)
    BY <1>0, <1>5 DEF I!CreateDraft, I!BeginCreate, I!LoadInvoice, I!FetchVoucher, I!DropGl, I!DropDnsn,
        I!DropInvoice
<1>6. CASE I!LoadVoucher(q) \/ I!DropVoucher(q) \/ I!CheckVoucher(q) \/ I!SwitchRegime(q)
             \/ I!CloseMonth(q) \/ I!Dies(q)
    BY <1>0, <1>6 DEF I!LoadVoucher, I!DropVoucher, I!CheckVoucher, I!SwitchRegime, I!CloseMonth, I!Dies
<1> QED BY <1>1, <1>2, <1>3, <1>4, <1>5, <1>6 DEF I!Serve

\* However requests overlap or die, what a closed month still takes in comes from
\* requests that had passed the period check before it was closed.
THEOREM ClosedMonthsTakeOnlyPending == Spec => ClosedMonthTakesOnlyPending
<1> DEFINE P == \A i \in IInvoices : (iBooks'[i] > iBooks[i] \/ i \in iLedgers' \ iLedgers)
                                         => \E q \in iLate : I!Target(q) = i
<1>1. ITypes /\ ILate /\ [Next]_vars => [iClosed => P]_(I!vars)
    <2> SUFFICES ASSUME ITypes, ILate, [Next]_vars, iClosed, ~UNCHANGED I!vars PROVE P
        OBVIOUS
    <2>1. CASE InvoicesMove
        <3>1. PICK q \in IRequests : I!Serve(q) \/ I!Dies(q)
            BY <2>1 DEF InvoicesMove, I!Next
        <3>2. ASSUME NEW i \in IInvoices, iBooks'[i] > iBooks[i] \/ i \in iLedgers' \ iLedgers
              PROVE  q \in iLate /\ I!Target(q) = i
            BY <3>1, <3>2, IAdds DEF ILate
        <3> QED BY <3>2
    <2>2. ~UNCHANGED iVars
        BY DEF iVars, I!vars, I!data
    <2>3. CASE DocumentsMove \/ ApprovalsMove \/ StockMoves \/ YearMoves \/ BankMoves \/ WikiMoves
                 \/ EInvoicesMove
        BY <2>2, <2>3 DEF DocumentsMove, ApprovalsMove, StockMoves, YearMoves, BankMoves, WikiMoves,
            EInvoicesMove
    <2>4. CASE UNCHANGED vars
        BY <2>2, <2>4 DEF vars
    <2> QED BY <2>1, <2>3, <2>4 DEF Next
<1> QED BY <1>1, InvoicesLate, PTL DEF Spec, ClosedMonthTakesOnlyPending, I!ClosedMonthTakesOnlyPending

(***************************************************************************)
(* The stock: a quantity is the sum of the documents recorded for it.      *)
(***************************************************************************)
\* The labels of a request.
SSteps == {"start", "read", "write", "ended", "failed"}
\* What the stock tables hold.
STypes ==
    /\ sJob \in SPlans
    /\ DOMAIN sQuantity \subseteq SWarehouses /\ \A w \in DOMAIN sQuantity : sQuantity[w] \in Int
    /\ sVersion \in [SWarehouses -> Nat] /\ sRecorded \in [SRequests -> Int]
    /\ sDone \subseteq SRequests /\ sPc \in [SRequests -> SSteps] /\ sLeg \in [SRequests -> Nat]
    /\ DOMAIN sWritten = SRequests /\ DOMAIN sStale = SRequests
    /\ \A r \in SRequests : \A w \in DOMAIN sWritten[r] : w \in SWarehouses /\ sWritten[r][w] \in Int
    /\ sSeen \in [SRequests -> [has : BOOLEAN, qty : Int, version : Nat]]

SMoves(r)   == S!Legs(sJob[r])
\* The quantity in a warehouse, 0 when it has no row.
SQuantity(w) == IF w \in DOMAIN sQuantity THEN sQuantity[w] ELSE 0

\* What the legs that r has saved change in warehouse w.
SLegChange(r, n, w) == IF n <= sLeg[r] /\ n <= Len(SMoves(r)) /\ SMoves(r)[n].at = w THEN SMoves(r)[n].by ELSE 0
\* What both legs of a document change.
SChange(r, w) == SLegChange(r, 1, w) + SLegChange(r, 2, w)

\* Who is done has committed; who does not run holds nothing.
SRests(r) ==
    /\ sPc[r] = "ended" <=> r \in sDone
    /\ sPc[r] \notin {"read", "write"} => DOMAIN sWritten[r] = {}
    /\ sPc[r] = "start" => sLeg[r] = 0
    /\ sLeg[r] <= Len(SMoves(r))
    /\ sPc[r] = "write" => sLeg[r] < Len(SMoves(r))

\* A row has one writer.
SLocks == \A r, x \in SRequests : \A w \in SWarehouses : S!Holds(r, w) /\ S!Holds(x, w) => r = x

\* What a movement has saved is the committed quantity and its own change, unless
\* it has saved over a later commit.
SSaves(r) ==
    sPc[r] \in {"read", "write"} /\ ~S!Counts(r) => \A w \in SWarehouses :
        /\ S!Holds(r, w) => w \in sStale[r] \/ sWritten[r][w] = SQuantity(w) + SChange(r, w)
        /\ ~S!Holds(r, w) => \A n \in 1..sLeg[r] : SMoves(r)[n].at # w

\* What a request has read is what is there, unless a later commit has overtaken it.
SReads(r, w) ==
    /\ w \in DOMAIN sQuantity /\ sSeen[r].version <= sVersion[w]
    /\ sSeen[r].version = sVersion[w] => sSeen[r].qty = sQuantity[w]
\* What a request has read and locked at its label.
SKnows(r) ==
    LET w == S!Leg(r).at IN
    sPc[r] = "write" =>
        /\ ~S!Counts(r) /\ S!Holds(r, w) =>
              sSeen[r].qty = sWritten[r][w] /\ (sSeen[r].has => sSeen[r].version = sVersion[w])
        /\ ~S!Counts(r) /\ ~S!Holds(r, w) => sSeen[r].has
        /\ ~S!Holds(r, w) /\ sSeen[r].has => SReads(r, w)
        /\ ~sSeen[r].has => sSeen[r].qty = 0

\* A count has saved what was counted, and remembers the quantity it replaces.
SCounted(r) ==
    sPc[r] \in {"read", "write"} /\ S!Counts(r) =>
        /\ \A w \in SWarehouses : S!Holds(r, w) =>
              /\ w = sJob[r].at /\ sLeg[r] = 1
              /\ w \in sStale[r] \/ (sWritten[r][w] = sJob[r].qty /\ sSeen[r].qty = SQuantity(w))
        /\ sLeg[r] = 1 /\ ~S!Holds(r, sJob[r].at) => sJob[r].qty = sSeen[r].qty

\* The quantity is the sum over the documents recorded.
STotals(w) == SQuantity(w) = SumFunctionOnSet([r \in sDone |-> S!Entered(r, w)], sDone)

\* The inductive invariant of the stock.
SInv ==
    /\ STypes /\ SLocks
    /\ \A r \in SRequests : SRests(r) /\ SSaves(r) /\ SKnows(r) /\ SCounted(r)
    /\ \A w \in SWarehouses \ sOvertaken : STotals(w)

\* Sums of the module are sums of this one.
LEMMA SSum == ASSUME NEW f, NEW T PROVE S!SumFunctionOnSet(f, T) = SumFunctionOnSet(f, T)
BY DEF S!SumFunctionOnSet, SumFunctionOnSet, S!FoldFunctionOnSet, FoldFunctionOnSet,
    S!MapThenFoldSet, MapThenFoldSet

\* Finite sets of StockDocuments are those of FiniteSets.
LEMMA SFinite == ASSUME NEW T PROVE S!IsFiniteSet(T) <=> IsFiniteSet(T)
BY DEF S!IsFiniteSet, IsFiniteSet

\* A movement has one leg, a transfer two.
LEMMA SMoveLegs ==
    ASSUME STypes, NEW r \in SRequests
    PROVE  /\ sJob[r].op \in {"receipt", "issue", "count", "transfer"}
           /\ sJob[r].at \in SWarehouses /\ sJob[r].qty \in Nat
           /\ sJob[r].op = "transfer" =>
                 /\ sJob[r].to \in SWarehouses
                 /\ Len(SMoves(r)) = 2
                 /\ SMoves(r)[1].at = sJob[r].at /\ SMoves(r)[1].by = -sJob[r].qty
                 /\ SMoves(r)[2].at = sJob[r].to /\ SMoves(r)[2].by = sJob[r].qty
           /\ sJob[r].op # "transfer" =>
                 /\ Len(SMoves(r)) = 1 /\ SMoves(r)[1].at = sJob[r].at
                 /\ SMoves(r)[1].by = IF sJob[r].op = "issue" THEN -sJob[r].qty ELSE sJob[r].qty
<1>1. sJob[r] \in S!Movements
    BY OfficeData DEF STypes, S!StockSets
<1>2. CASE sJob[r] \in [op : {"receipt", "issue", "count"}, no : Nat, at : SWarehouses, qty : Nat]
    <2>1. sJob[r].op \in {"receipt", "issue", "count"} /\ sJob[r].at \in SWarehouses /\ sJob[r].qty \in Nat
        BY <1>2
    <2>2. CASE sJob[r].op = "issue"
        <3>1. SMoves(r) = <<[at |-> sJob[r].at, by |-> -sJob[r].qty]>>
            BY <2>2 DEF SMoves, S!Legs
        <3> QED BY <2>1, <2>2, <3>1
    <2>3. CASE sJob[r].op # "issue"
        <3>1. SMoves(r) = <<[at |-> sJob[r].at, by |-> sJob[r].qty]>>
            BY <2>1, <2>3 DEF SMoves, S!Legs
        <3> QED BY <2>1, <2>3, <3>1
    <2> QED BY <2>2, <2>3
<1>3. CASE sJob[r] \in [op : {"transfer"}, no : Nat, at : SWarehouses, to : SWarehouses, qty : Nat]
    <2>1. /\ sJob[r].op = "transfer" /\ sJob[r].at \in SWarehouses /\ sJob[r].to \in SWarehouses
          /\ sJob[r].qty \in Nat
        BY <1>3
    <2>2. SMoves(r) = <<[at |-> sJob[r].at, by |-> -sJob[r].qty], [at |-> sJob[r].to, by |-> sJob[r].qty]>>
        BY <2>1 DEF SMoves, S!Legs
    <2> QED BY <2>1, <2>2
<1> QED BY <1>1, <1>2, <1>3 DEF S!Movements

\* A document has one leg or two, each in a warehouse and of an integer quantity.
LEMMA SLegsTyped ==
    ASSUME STypes, NEW r \in SRequests
    PROVE  /\ Len(SMoves(r)) \in {1, 2}
           /\ \A n \in 1..Len(SMoves(r)) : SMoves(r)[n].at \in SWarehouses /\ SMoves(r)[n].by \in Int
BY SMoveLegs

\* What a leg changes is an integer.
LEMMA SChangeInt ==
    ASSUME STypes, NEW r \in SRequests, NEW w
    PROVE  SChange(r, w) \in Int /\ SLegChange(r, 1, w) \in Int /\ SLegChange(r, 2, w) \in Int
BY SLegsTyped DEF SChange, SLegChange, STypes

\* Quantities are integers.
LEMMA SQuantityInt ==
    ASSUME STypes, NEW w
    PROVE  SQuantity(w) \in Int
BY DEF SQuantity, STypes

\* A step changes its request's own variables.
LEMMA SLocal ==
    ASSUME STypes, NEW r \in SRequests, S!Serve(r)
    PROVE  /\ sJob' = sJob
           /\ \A x \in SRequests \ {r} :
                 /\ sPc'[x] = sPc[x] /\ sLeg'[x] = sLeg[x] /\ sWritten'[x] = sWritten[x]
                 /\ sSeen'[x] = sSeen[x] /\ sStale'[x] = sStale[x]
                 /\ x \in sDone' <=> x \in sDone
           /\ DOMAIN sWritten' = SRequests
BY DEF STypes, S!Serve, S!Begin, S!ReadRow, S!WriteRow, S!InsertRefused, S!Commit, S!DeadlockVictim,
    S!Abort, S!Goto

\* Only a commit changes quantities, and those of the rows it holds.
LEMMA SCommits ==
    ASSUME STypes, NEW r \in SRequests, S!Serve(r), NEW w \in SWarehouses
    PROVE  \/ /\ w \in DOMAIN sQuantity' <=> w \in DOMAIN sQuantity
              /\ w \in DOMAIN sQuantity => sQuantity'[w] = sQuantity[w]
              /\ sVersion'[w] = sVersion[w]
           \/ /\ S!Holds(r, w) /\ w \in DOMAIN sQuantity'
              /\ sVersion'[w] = sVersion[w] + 1
<1>1. CASE UNCHANGED <<sQuantity, sVersion>>
    BY <1>1
<1>2. CASE S!Commit(r)
    BY <1>2 DEF S!Commit, S!Holds, STypes
<1>3. S!Begin(r) \/ S!ReadRow(r) \/ S!WriteRow(r) \/ S!InsertRefused(r) \/ S!DeadlockVictim(r)
        => UNCHANGED <<sQuantity, sVersion>>
    BY DEF S!Begin, S!ReadRow, S!WriteRow, S!InsertRefused, S!DeadlockVictim, S!Abort
<1> QED BY <1>1, <1>2, <1>3 DEF S!Serve

\* The other requests know and hold what they did.
LEMMA SOthersKept ==
    ASSUME STypes, SLocks, NEW r \in SRequests, S!Serve(r), NEW x \in SRequests \ {r},
           SRests(x), SSaves(x), SKnows(x), SCounted(x)
    PROVE  SRests(x)' /\ SSaves(x)' /\ SKnows(x)' /\ SCounted(x)'
<1>1. /\ sJob' = sJob /\ sPc'[x] = sPc[x] /\ sLeg'[x] = sLeg[x] /\ sWritten'[x] = sWritten[x]
      /\ sSeen'[x] = sSeen[x] /\ sStale'[x] = sStale[x] /\ (x \in sDone' <=> x \in sDone)
    BY SLocal
<1>2. /\ SMoves(x)' = SMoves(x) /\ (S!Counts(x)' <=> S!Counts(x))
      /\ \A w : (S!Holds(x, w)' <=> S!Holds(x, w))
      /\ \A n, w : SLegChange(x, n, w)' = SLegChange(x, n, w)
    BY <1>1 DEF SMoves, S!Counts, S!Holds, SLegChange, S!Legs
<1>3. \A w : SChange(x, w)' = SChange(x, w)
    BY <1>2 DEF SChange
<1>4. (S!Leg(x))' = S!Leg(x) /\ S!Leg(x) = SMoves(x)[sLeg[x] + 1]
    BY <1>1 DEF S!Leg, S!Legs, SMoves
<1>5. \A w \in SWarehouses : S!Holds(x, w) => SQuantity(w)' = SQuantity(w) /\ sVersion'[w] = sVersion[w]
    <2>1. TAKE w \in SWarehouses
    <2>2. HAVE S!Holds(x, w)
    <2>3. ~S!Holds(r, w)
        BY <2>2 DEF SLocks
    <2> QED BY <2>3, SCommits DEF SQuantity
<1>6. SRests(x)'
    BY <1>1, <1>2 DEF SRests
<1>7. SSaves(x)'
    BY <1>1, <1>2, <1>3, <1>5 DEF SSaves
<1>8. SKnows(x)'
    <2>1. SUFFICES ASSUME sPc[x] = "write" PROVE SKnows(x)'
        BY <1>1 DEF SKnows
    <2>2. PICK w : w = S!Leg(x).at
        OBVIOUS
    <2>3. w \in SWarehouses
        BY <1>4, <2>1, <2>2, SLegsTyped DEF SRests, STypes
    <2>4. SReads(x, w) => SReads(x, w)'
        <3>1. sVersion[w] \in Nat /\ sSeen[x].version \in Nat
            BY <2>3 DEF STypes
        <3> QED BY <1>1, <2>3, <3>1, SCommits DEF SReads
    <2> QED BY <1>1, <1>2, <1>4, <1>5, <2>1, <2>2, <2>3, <2>4 DEF SKnows
<1>9. SCounted(x)'
    BY <1>1, <1>2, <1>5 DEF SCounted
<1> QED BY <1>6, <1>7, <1>8, <1>9

\* What a movement has changed with its last leg is what its document says.
LEMMA SAllLegs ==
    ASSUME STypes, NEW r \in SRequests, ~S!Counts(r), sLeg[r] = Len(SMoves(r)), NEW w \in SWarehouses
    PROVE  SChange(r, w) = S!Entered(r, w)
<1>1. CASE sJob[r].op = "transfer"
    BY <1>1, SMoveLegs DEF SChange, SLegChange, S!Entered
<1>2. CASE sJob[r].op = "receipt" \/ sJob[r].op = "issue"
    BY <1>2, SMoveLegs DEF SChange, SLegChange, S!Entered
<1> QED BY <1>1, <1>2, SMoveLegs DEF S!Counts

\* Legs that were saved before a leg.
LEMMA SBelowTwo == ASSUME NEW n \in Nat, NEW l \in {1, 2}, n < l PROVE n = 0 \/ (n = 1 /\ l = 2)
OBVIOUS

\* What a leg saves adds to what was saved.
LEMMA SNextLeg ==
    ASSUME STypes, NEW r \in SRequests, sLeg[r] < Len(SMoves(r)), sLeg'[r] = sLeg[r] + 1, sJob' = sJob
    PROVE  \A v : SChange(r, v)' = SChange(r, v) + IF v = S!Leg(r).at THEN S!Leg(r).by ELSE 0
<1>1. SMoves(r)' = SMoves(r) /\ S!Leg(r) = SMoves(r)[sLeg[r] + 1]
    BY DEF SMoves, S!Leg, S!Legs
<1>2. sLeg[r] \in Nat /\ Len(SMoves(r)) \in {1, 2}
    BY SLegsTyped DEF STypes
<1>3. SMoves(r)[1].by \in Int /\ (Len(SMoves(r)) = 2 => SMoves(r)[2].by \in Int)
    BY <1>2, SLegsTyped
<1>4. CASE sLeg[r] = 0
    BY <1>1, <1>2, <1>3, <1>4 DEF SChange, SLegChange
<1>5. CASE sLeg[r] = 1 /\ Len(SMoves(r)) = 2
    BY <1>1, <1>2, <1>3, <1>5 DEF SChange, SLegChange
<1>6. sLeg[r] = 0 \/ (sLeg[r] = 1 /\ Len(SMoves(r)) = 2)
    BY <1>2, SBelowTwo
<1> QED BY <1>4, <1>5, <1>6

\* The request itself: it begins, or is refused.
LEMMA SBeginsOrFails ==
    ASSUME STypes, SLocks, NEW r \in SRequests, SRests(r),
           S!Begin(r) \/ S!InsertRefused(r) \/ S!DeadlockVictim(r)
    PROVE  STypes' /\ SLocks' /\ SRests(r)' /\ SSaves(r)' /\ SKnows(r)' /\ SCounted(r)'
           /\ UNCHANGED <<sJob, sQuantity, sDone, sRecorded, sOvertaken>>
<1>1. /\ UNCHANGED <<sJob, sQuantity, sVersion, sRecorded, sDone, sOvertaken, sLeg, sSeen, sStale>>
      /\ sPc' = [sPc EXCEPT ![r] = sPc'[r]] /\ sPc'[r] \in {"read", "failed"}
      /\ sPc'[r] = "read" => sPc[r] = "start"
      /\ sPc[r] \notin {"ended", "failed"}
    BY DEF S!Begin, S!InsertRefused, S!DeadlockVictim, S!Abort, S!WaitsFor, S!Goto, STypes
<1>2. /\ DOMAIN sWritten' = SRequests /\ \A x \in SRequests \ {r} : sWritten'[x] = sWritten[x]
      /\ DOMAIN sWritten'[r] = {}
    <2>1. CASE S!Begin(r)
        BY <2>1 DEF S!Begin, SRests, STypes
    <2>2. CASE S!InsertRefused(r) \/ S!DeadlockVictim(r)
        BY <2>2 DEF S!InsertRefused, S!DeadlockVictim, S!Abort, S!RolledBack, STypes
    <2> QED BY <2>1, <2>2
<1>3. STypes'
    BY <1>1, <1>2 DEF STypes, SSteps
<1>4. SLocks'
    BY <1>2 DEF SLocks, S!Holds
<1>5. SRests(r)'
    BY <1>1, <1>2, SLegsTyped DEF SRests, SMoves, S!Legs
<1>6. SSaves(r)' /\ SKnows(r)' /\ SCounted(r)'
    BY <1>1, <1>2 DEF SSaves, SKnows, SCounted, S!Holds, SRests, S!Counts
<1> QED BY <1>1, <1>3, <1>4, <1>5, <1>6

\* It reads the row of its next leg.
LEMMA SReadsRow ==
    ASSUME STypes, SLocks, NEW r \in SRequests, SRests(r), SSaves(r), SCounted(r), S!ReadRow(r)
    PROVE  STypes' /\ SLocks' /\ SRests(r)' /\ SSaves(r)' /\ SKnows(r)' /\ SCounted(r)'
           /\ UNCHANGED <<sJob, sQuantity, sDone, sRecorded, sOvertaken>>
<1>0. PICK w : w = S!Leg(r).at
    OBVIOUS
<1> DEFINE row == IF w \in DOMAIN sQuantity
                  THEN [has |-> TRUE, qty |-> sQuantity[w], version |-> sVersion[w]] ELSE S!NoRow
           new == IF S!Holds(r, w) THEN [has |-> TRUE, qty |-> sWritten[r][w], version |-> sVersion[w]]
                  ELSE row
<1>1. /\ UNCHANGED <<sJob, sQuantity, sVersion, sRecorded, sDone, sOvertaken, sLeg, sStale>>
      /\ sPc[r] = "read" /\ sPc' = [sPc EXCEPT ![r] = "write"] /\ S!HasLeg(r)
      /\ sSeen' = [sSeen EXCEPT ![r] = new]
      /\ sWritten' = IF ~S!Counts(r) /\ ~row.has /\ ~S!Holds(r, w)
                     THEN [sWritten EXCEPT ![r] = [v \in DOMAIN @ \cup {w} |-> IF v = w THEN 0 ELSE @[v]]]
                     ELSE sWritten
      /\ \A x \in SRequests \ {r} : ~S!WaitsFor(r, x)
    BY <1>0 DEF S!ReadRow, S!Goto
<1>2. /\ sLeg[r] < Len(SMoves(r)) /\ w = SMoves(r)[sLeg[r] + 1].at /\ w \in SWarehouses
      /\ SMoves(r)' = SMoves(r)
    <2>1. sLeg[r] < Len(SMoves(r)) /\ w = SMoves(r)[sLeg[r] + 1].at
        BY <1>0, <1>1 DEF S!HasLeg, S!Leg, SMoves
    <2>2. sLeg[r] + 1 \in 1..Len(SMoves(r))
        BY <2>1, SLegsTyped DEF STypes
    <2> QED BY <1>1, <2>1, <2>2, SLegsTyped DEF SMoves, S!Legs
<1>3. /\ row \in [has : BOOLEAN, qty : Int, version : Nat] /\ new \in [has : BOOLEAN, qty : Int, version : Nat]
      /\ row.has <=> w \in DOMAIN sQuantity
    BY <1>2 DEF STypes, S!Holds, S!NoRow
<1>4. sPc'[r] = "write" /\ sSeen'[r] = new
    BY <1>1 DEF STypes
<1>5. (S!Leg(r))' = S!Leg(r) /\ (S!Counts(r)' <=> S!Counts(r)) /\ \A v : SQuantity(v)' = SQuantity(v)
    BY <1>1 DEF S!Leg, S!Counts, SQuantity
<1>6. \A v : SChange(r, v)' = SChange(r, v)
    BY <1>1, <1>2 DEF SChange, SLegChange
<1>7. CASE ~S!Counts(r) /\ ~row.has /\ ~S!Holds(r, w)
    <2>1. /\ DOMAIN sWritten' = SRequests /\ \A x \in SRequests \ {r} : sWritten'[x] = sWritten[x]
          /\ sWritten'[r] = [v \in DOMAIN sWritten[r] \cup {w} |-> IF v = w THEN 0 ELSE sWritten[r][v]]
        BY <1>1, <1>7 DEF STypes
    <2>2. \A x \in SRequests \ {r} : ~S!Holds(x, w)
        BY <1>0, <1>1, <1>3, <1>7 DEF S!WaitsFor
    <2>3. STypes'
        <3>1. sSeen' \in [SRequests -> [has : BOOLEAN, qty : Int, version : Nat]]
            BY <1>1, <1>3 DEF STypes
        <3>2. sPc' \in [SRequests -> SSteps]
            BY <1>1 DEF STypes, SSteps
        <3>3. \A x \in SRequests : \A v \in DOMAIN sWritten'[x] : v \in SWarehouses /\ sWritten'[x][v] \in Int
            <4>1. \A x \in SRequests : \A v \in DOMAIN sWritten[x] : v \in SWarehouses /\ sWritten[x][v] \in Int
                BY DEF STypes
            <4>2. \A v \in DOMAIN sWritten'[r] : v \in DOMAIN sWritten[r] \cup {w}
                                              /\ sWritten'[r][v] = IF v = w THEN 0 ELSE sWritten[r][v]
                BY <2>1
            <4> QED BY <1>2, <2>1, <4>1, <4>2
        <3>4. UNCHANGED <<sJob, sQuantity, sVersion, sRecorded, sDone, sLeg, sStale>>
            BY <1>1
        <3> QED BY <2>1, <3>1, <3>2, <3>3, <3>4 DEF STypes
    <2>4. SLocks'
        BY <2>1, <2>2 DEF SLocks, S!Holds
    <2>5. SRests(r)'
        BY <1>1, <1>2, <1>4 DEF SRests
    <2>6. SSaves(r)'
        <3>1. \A n \in 1..sLeg[r] : SMoves(r)[n].at # w
            BY <1>1, <1>2, <1>7 DEF SSaves
        <3>2. SChange(r, w) = 0
            BY <3>1, SLegsTyped DEF SChange, SLegChange, STypes
        <3>3. SQuantity(w) = 0
            BY <1>3, <1>7 DEF SQuantity
        <3>4. /\ S!Holds(r, w)' /\ sWritten'[r][w] = 0
              /\ \A v : v # w => (S!Holds(r, v)' <=> S!Holds(r, v)) /\ (S!Holds(r, v) => sWritten'[r][v] = sWritten[r][v])
            BY <2>1 DEF S!Holds
        <3>5. /\ sPc[r] = "read" /\ sLeg' = sLeg /\ sStale' = sStale
            BY <1>1
        <3>6. \A v \in SWarehouses :
                 /\ S!Holds(r, v)' => v \in sStale[r] \/ sWritten'[r][v] = SQuantity(v) + SChange(r, v)
                 /\ ~S!Holds(r, v)' => \A n \in 1..sLeg[r] : SMoves(r)[n].at # v
            BY <1>7, <3>2, <3>3, <3>4, <3>5 DEF SSaves
        <3> QED BY <1>2, <1>5, <1>6, <3>5, <3>6 DEF SSaves
    <2>7. SKnows(r)'
        <3>1. new = S!NoRow /\ S!Holds(r, w)' /\ sWritten'[r][w] = 0
            BY <1>3, <1>7, <2>1 DEF S!Holds
        <3> QED BY <1>0, <1>4, <1>5, <1>7, <3>1 DEF SKnows, S!NoRow
    <2>8. SCounted(r)'
        BY <1>5, <1>7 DEF SCounted
    <2> QED BY <1>1, <2>3, <2>4, <2>5, <2>6, <2>7, <2>8
<1>8. CASE ~(~S!Counts(r) /\ ~row.has /\ ~S!Holds(r, w))
    <2>1. sWritten' = sWritten
        BY <1>1, <1>8
    <2>2. \A v : (S!Holds(r, v)' <=> S!Holds(r, v))
        BY <2>1 DEF S!Holds
    <2>3. STypes'
        <3>1. sSeen' \in [SRequests -> [has : BOOLEAN, qty : Int, version : Nat]]
            BY <1>1, <1>3 DEF STypes
        <3>2. sPc' \in [SRequests -> SSteps]
            BY <1>1 DEF STypes, SSteps
        <3> QED BY <1>1, <2>1, <3>1, <3>2 DEF STypes
    <2>4. SLocks'
        BY <2>1 DEF SLocks, S!Holds
    <2>5. SRests(r)'
        BY <1>1, <1>2, <1>4 DEF SRests
    <2>6. SSaves(r)'
        BY <1>1, <1>2, <1>5, <1>6, <2>1, <2>2 DEF SSaves
    <2>7. SKnows(r)'
        <3>1. S!Holds(r, w) => new.has /\ new.qty = sWritten[r][w] /\ new.version = sVersion[w]
            OBVIOUS
        <3>2. ~S!Holds(r, w) => new = row
            OBVIOUS
        <3>3. row.has => w \in DOMAIN sQuantity /\ row.qty = sQuantity[w] /\ row.version = sVersion[w]
            BY <1>3
        <3>4. ~row.has => row.qty = 0
            BY <1>3 DEF S!NoRow
        <3>5. sVersion[w] \in Nat
            BY <1>2 DEF STypes
        <3> HIDE DEF new, row
        <3>6. new.has /\ ~S!Holds(r, w) => SReads(r, w)'
            BY <1>1, <1>4, <3>2, <3>3, <3>5 DEF SReads
        <3> QED BY <1>0, <1>1, <1>4, <1>5, <1>8, <2>1, <2>2, <3>1, <3>2, <3>4, <3>6 DEF SKnows
    <2>8. SCounted(r)'
        <3>1. SUFFICES ASSUME S!Counts(r) PROVE SCounted(r)'
            BY <1>5 DEF SCounted
        <3>2. Len(SMoves(r)) = 1 /\ sLeg[r] = 0
            BY <1>2, <3>1, SMoveLegs DEF S!Counts, STypes
        <3>3. \A v \in SWarehouses : ~S!Holds(r, v)
            BY <1>1, <3>1, <3>2 DEF SCounted
        <3> QED BY <1>1, <2>2, <3>2, <3>3 DEF SCounted
    <2> QED BY <1>1, <2>3, <2>4, <2>5, <2>6, <2>7, <2>8
<1> QED BY <1>7, <1>8

\* It saves the row.
LEMMA SWritesRow ==
    ASSUME STypes, SLocks, NEW r \in SRequests, SRests(r), SSaves(r), SKnows(r), SCounted(r),
           S!WriteRow(r)
    PROVE  STypes' /\ SLocks' /\ SRests(r)' /\ SSaves(r)' /\ SKnows(r)' /\ SCounted(r)'
           /\ UNCHANGED <<sJob, sQuantity, sDone, sRecorded, sOvertaken>>
<1>0. PICK w, by : w = S!Leg(r).at /\ by = S!Leg(r).by
    OBVIOUS
<1> DEFINE skipped == S!Counts(r) /\ by = sSeen[r].qty
           value == IF S!Counts(r) THEN by ELSE sSeen[r].qty + by
           late == sSeen[r].has /\ sVersion[w] # sSeen[r].version
<1>1. /\ UNCHANGED <<sJob, sQuantity, sVersion, sRecorded, sDone, sOvertaken, sSeen>>
      /\ sPc[r] = "write" /\ sPc' = [sPc EXCEPT ![r] = "read"]
      /\ sLeg' = [sLeg EXCEPT ![r] = @ + 1]
    BY DEF S!WriteRow, S!Goto
<1>2. \/ /\ ~skipped /\ S!Free(r, w) /\ (S!Counts(r) => sSeen[r].has \/ w \notin DOMAIN sQuantity)
         /\ sWritten' = [sWritten EXCEPT ![r] = [v \in DOMAIN @ \cup {w} |-> IF v = w THEN value ELSE @[v]]]
         /\ sStale' = [sStale EXCEPT ![r] = IF late THEN @ \cup {w} ELSE @]
      \/ skipped /\ UNCHANGED <<sWritten, sStale>>
    BY <1>0 DEF S!WriteRow
<1>3. /\ sLeg[r] \in Nat /\ sLeg[r] < Len(SMoves(r)) /\ SMoves(r)' = SMoves(r)
      /\ S!Leg(r) = SMoves(r)[sLeg[r] + 1]
    BY <1>1 DEF SRests, STypes, SMoves, S!Leg, S!Legs
<1>4. w \in SWarehouses /\ by \in Int /\ w = SMoves(r)[sLeg[r] + 1].at
    <2>1. sLeg[r] + 1 \in 1..Len(SMoves(r))
        BY <1>3, SLegsTyped
    <2> QED BY <1>0, <1>3, <2>1, SLegsTyped
<1>5. sPc'[r] = "read" /\ sLeg'[r] = sLeg[r] + 1 /\ sSeen[r].qty \in Int /\ value \in Int
    BY <1>1, <1>4 DEF STypes
<1>6. (S!Counts(r)' <=> S!Counts(r)) /\ \A v : SQuantity(v)' = SQuantity(v)
    BY <1>1 DEF S!Counts, SQuantity
<1>7. \A v : SChange(r, v)' = SChange(r, v) + IF v = w THEN by ELSE 0
    BY <1>0, <1>1, <1>3, <1>5, SNextLeg
<1>8. SKnows(r)'
    BY <1>5 DEF SKnows
<1>9. SRests(r)'
    <2>1. sLeg'[r] <= Len(SMoves(r)')
        BY <1>3, <1>5, SLegsTyped
    <2> QED BY <1>1, <1>5, <2>1 DEF SRests
<1>10. \A v : SChange(r, v) \in Int /\ SQuantity(v) \in Int
    BY SChangeInt, SQuantityInt
<1>11. S!Counts(r) => /\ sLeg[r] = 0 /\ w = sJob[r].at /\ by = sJob[r].qty
                      /\ \A v \in SWarehouses : ~S!Holds(r, v)
    <2>1. SUFFICES ASSUME S!Counts(r)
                   PROVE  /\ sLeg[r] = 0 /\ w = sJob[r].at /\ by = sJob[r].qty
                          /\ \A v \in SWarehouses : ~S!Holds(r, v)
        OBVIOUS
    <2>2. /\ sLeg[r] = 0 /\ w = sJob[r].at /\ by = sJob[r].qty
        BY <1>0, <1>3, <2>1, SMoveLegs DEF S!Counts
    <2> QED BY <1>1, <2>1, <2>2 DEF SCounted
<1>a. CASE skipped /\ UNCHANGED <<sWritten, sStale>>
    <2>1. \A v : S!Holds(r, v)' <=> S!Holds(r, v)
        BY <1>a DEF S!Holds
    <2>2. STypes'
        BY <1>a, <1>1 DEF STypes, SSteps
    <2>3. SLocks'
        BY <1>a DEF SLocks, S!Holds
    <2>4. SSaves(r)'
        BY <1>a, <1>6 DEF SSaves
    <2>5. SCounted(r)'
        BY <1>a, <1>1, <1>5, <1>11, <2>1 DEF SCounted
    <2> QED BY <1>1, <1>8, <1>9, <2>2, <2>3, <2>4, <2>5
<1>b. CASE /\ ~skipped /\ S!Free(r, w) /\ (S!Counts(r) => sSeen[r].has \/ w \notin DOMAIN sQuantity)
           /\ sWritten' = [sWritten EXCEPT ![r] = [v \in DOMAIN @ \cup {w} |-> IF v = w THEN value ELSE @[v]]]
           /\ sStale' = [sStale EXCEPT ![r] = IF late THEN @ \cup {w} ELSE @]
    <2>1. /\ DOMAIN sWritten' = SRequests /\ \A x \in SRequests \ {r} : sWritten'[x] = sWritten[x]
          /\ sWritten'[r] = [v \in DOMAIN sWritten[r] \cup {w} |-> IF v = w THEN value ELSE sWritten[r][v]]
          /\ DOMAIN sStale' = SRequests /\ sStale'[r] = IF late THEN sStale[r] \cup {w} ELSE sStale[r]
        BY <1>b DEF STypes
    <2>2. /\ S!Holds(r, w)' /\ sWritten'[r][w] = value
          /\ \A v : v # w => /\ (S!Holds(r, v)' <=> S!Holds(r, v))
                             /\ S!Holds(r, v) => sWritten'[r][v] = sWritten[r][v]
          /\ \A v : v \in sStale[r] => v \in sStale'[r]
          /\ late => w \in sStale'[r]
        BY <2>1 DEF S!Holds
    <2>3. STypes'
        <3>1. sLeg' \in [SRequests -> Nat] /\ sPc' \in [SRequests -> SSteps]
            BY <1>1 DEF STypes, SSteps
        <3>2. \A x \in SRequests : \A v \in DOMAIN sWritten'[x] : v \in SWarehouses /\ sWritten'[x][v] \in Int
            <4>1. \A x \in SRequests : \A v \in DOMAIN sWritten[x] : v \in SWarehouses /\ sWritten[x][v] \in Int
                BY DEF STypes
            <4>2. \A v \in DOMAIN sWritten'[r] : v \in DOMAIN sWritten[r] \cup {w}
                                              /\ sWritten'[r][v] = IF v = w THEN value ELSE sWritten[r][v]
                BY <2>1
            <4> HIDE DEF value
            <4> QED BY <1>4, <1>5, <2>1, <4>1, <4>2
        <3> QED BY <1>1, <2>1, <3>1, <3>2 DEF STypes
    <2>4. SLocks'
        <3>1. \A x \in SRequests \ {r} : ~S!Holds(x, w)
            BY <1>b DEF S!Free
        <3> QED BY <2>1, <3>1 DEF SLocks, S!Holds
    <2>5. SSaves(r)'
        <3>1. SUFFICES ASSUME ~S!Counts(r) PROVE SSaves(r)'
            BY <1>6 DEF SSaves
        <3>2. w \in sStale'[r] \/ value = SQuantity(w) + SChange(r, w) + by
            <4>1. value = sSeen[r].qty + by
                BY <3>1
            <4>2. CASE S!Holds(r, w)
                <5>1. sSeen[r].qty = sWritten[r][w]
                    BY <1>0, <1>1, <3>1, <4>2 DEF SKnows
                <5>2. w \in sStale[r] \/ sWritten[r][w] = SQuantity(w) + SChange(r, w)
                    BY <1>1, <1>4, <3>1, <4>2 DEF SSaves
                <5> QED BY <2>2, <4>1, <5>1, <5>2
            <4>3. CASE ~S!Holds(r, w)
                <5>1. sSeen[r].has /\ SReads(r, w)
                    BY <1>0, <1>1, <3>1, <4>3 DEF SKnows
                <5>2. late \/ sSeen[r].qty = SQuantity(w)
                    BY <5>1 DEF SReads, SQuantity
                <5>3. \A n \in 1..sLeg[r] : SMoves(r)[n].at # w
                    BY <1>1, <1>4, <3>1, <4>3 DEF SSaves
                <5>4. SChange(r, w) = 0
                    BY <1>3, <5>3, SLegsTyped DEF SChange, SLegChange
                <5> QED BY <1>10, <2>2, <4>1, <5>2, <5>4
            <4> QED BY <4>2, <4>3
        <3>3. \A v \in SWarehouses : S!Holds(r, v)' =>
                 v \in sStale'[r] \/ sWritten'[r][v] = SQuantity(v)' + SChange(r, v)'
            <4>1. TAKE v \in SWarehouses
            <4>2. CASE v = w
                BY <1>4, <1>6, <1>7, <1>10, <2>2, <3>2, <4>2
            <4>3. CASE v # w
                <5>1. SChange(r, v)' = SChange(r, v)
                    BY <1>7, <1>10, <4>3
                <5>2. S!Holds(r, v) => v \in sStale[r] \/ sWritten[r][v] = SQuantity(v) + SChange(r, v)
                    BY <1>1, <3>1 DEF SSaves
                <5> QED BY <1>6, <2>2, <4>3, <5>1, <5>2
            <4> QED BY <4>2, <4>3
        <3>4. \A v \in SWarehouses : ~S!Holds(r, v)' => \A n \in 1..sLeg'[r] : SMoves(r)'[n].at # v
            <4>1. TAKE v \in SWarehouses
            <4>2. HAVE ~S!Holds(r, v)'
            <4>3. v # w /\ ~S!Holds(r, v)
                BY <2>2, <4>2
            <4>4. \A n \in 1..sLeg[r] : SMoves(r)[n].at # v
                BY <1>1, <3>1, <4>3 DEF SSaves
            <4> QED BY <1>3, <1>4, <1>5, <4>3, <4>4
        <3> QED BY <3>3, <3>4 DEF SSaves
    <2>6. SCounted(r)'
        <3>1. SUFFICES ASSUME S!Counts(r) PROVE SCounted(r)'
            BY <1>6 DEF SCounted
        <3>2. /\ sLeg[r] = 0 /\ w = sJob[r].at /\ value = sJob[r].qty
              /\ \A v \in SWarehouses : ~S!Holds(r, v)
            BY <1>11, <3>1
        <3>3. w \in sStale'[r] \/ sSeen[r].qty = SQuantity(w)
            <4>1. CASE sSeen[r].has
                <5>1. SReads(r, w)
                    BY <1>0, <1>1, <1>4, <3>2, <4>1 DEF SKnows
                <5>2. late \/ sSeen[r].qty = SQuantity(w)
                    BY <4>1, <5>1 DEF SReads, SQuantity
                <5> QED BY <2>2, <5>2
            <4>2. CASE ~sSeen[r].has
                BY <1>1, <1>b, <3>1, <4>2 DEF SKnows, SQuantity
            <4> QED BY <4>1, <4>2
        <3> HIDE DEF value, late, skipped
        <3> QED BY <1>1, <1>5, <1>6, <2>2, <3>2, <3>3 DEF SCounted
    <2> QED BY <1>1, <1>8, <1>9, <2>3, <2>4, <2>5, <2>6
<1> QED BY <1>2, <1>a, <1>b

\* It commits: the quantities gain what its document says.
LEMMA SCommitted ==
    ASSUME STypes, SLocks, NEW r \in SRequests, SRests(r), SSaves(r), SCounted(r), S!Commit(r)
    PROVE  /\ STypes' /\ SLocks' /\ SRests(r)' /\ SSaves(r)' /\ SKnows(r)' /\ SCounted(r)'
           /\ r \notin sDone /\ sDone' = sDone \cup {r} /\ sJob' = sJob
           /\ \A x \in SRequests \ {r} : sRecorded'[x] = sRecorded[x]
           /\ sOvertaken \subseteq sOvertaken'
           /\ \A w \in SWarehouses \ sOvertaken' : SQuantity(w)' = SQuantity(w) + S!Entered(r, w)'
<1>1. /\ sPc[r] = "read" /\ ~S!HasLeg(r) /\ sPc' = [sPc EXCEPT ![r] = "ended"]
      /\ sQuantity' = [w \in DOMAIN sQuantity \cup DOMAIN sWritten[r] |->
                          IF S!Holds(r, w) THEN sWritten[r][w] ELSE sQuantity[w]]
      /\ sVersion' = [w \in SWarehouses |-> sVersion[w] + IF S!Holds(r, w) THEN 1 ELSE 0]
      /\ sRecorded' = [sRecorded EXCEPT ![r] = IF S!Counts(r) THEN sJob[r].qty - sSeen[r].qty ELSE 0]
      /\ sDone' = sDone \cup {r} /\ sOvertaken' = sOvertaken \cup sStale[r]
      /\ sWritten' = [sWritten EXCEPT ![r] = <<>>]
      /\ UNCHANGED <<sJob, sLeg, sSeen, sStale>>
    BY DEF S!Commit, S!Goto
<1>2. /\ sPc'[r] = "ended" /\ DOMAIN sWritten'[r] = {} /\ r \notin sDone
      /\ DOMAIN sWritten' = SRequests /\ \A x \in SRequests \ {r} : sWritten'[x] = sWritten[x]
    BY <1>1 DEF STypes, SRests
<1>3. sLeg[r] = Len(SMoves(r)) /\ SMoves(r)' = SMoves(r) /\ Len(SMoves(r)) \in {1, 2}
    BY <1>1, SLegsTyped DEF S!HasLeg, SRests, SMoves, S!Legs, STypes
<1>4. STypes'
    <2>1. sJob[r].qty - sSeen[r].qty \in Int
        BY SMoveLegs DEF STypes
    <2>2. sRecorded' \in [SRequests -> Int]
        BY <1>1, <2>1 DEF STypes
    <2>3. \A w \in DOMAIN sQuantity' : w \in SWarehouses /\ sQuantity'[w] \in Int
        BY <1>1 DEF STypes, S!Holds
    <2>4. sVersion' \in [SWarehouses -> Nat] /\ sPc' \in [SRequests -> SSteps] /\ sDone' \subseteq SRequests
        BY <1>1 DEF STypes, SSteps
    <2>5. \A x \in SRequests : \A w \in DOMAIN sWritten'[x] : w \in SWarehouses /\ sWritten'[x][w] \in Int
        BY <1>2 DEF STypes
    <2>6. UNCHANGED <<sJob, sLeg, sSeen, sStale>>
        BY <1>1
    <2> QED BY <1>2, <2>2, <2>3, <2>4, <2>5, <2>6 DEF STypes
<1>5. SLocks'
    BY <1>2 DEF SLocks, S!Holds
<1>6. SRests(r)' /\ SSaves(r)' /\ SKnows(r)' /\ SCounted(r)'
    BY <1>1, <1>2, <1>3 DEF SRests, SSaves, SKnows, SCounted
<1>7. sRecorded'[r] = (IF S!Counts(r) THEN sJob[r].qty - sSeen[r].qty ELSE 0)
      /\ \A x \in SRequests \ {r} : sRecorded'[x] = sRecorded[x]
    BY <1>1 DEF STypes
<1>8. ASSUME NEW w \in SWarehouses \ sOvertaken'
      PROVE  SQuantity(w)' = SQuantity(w) + S!Entered(r, w)'
    <2>1. w \notin sStale[r]
        BY <1>1
    <2>2. SQuantity(w)' = IF S!Holds(r, w) THEN sWritten[r][w] ELSE SQuantity(w)
        BY <1>1 DEF SQuantity, S!Holds
    <2>3. SQuantity(w) \in Int /\ SChange(r, w) \in Int
        BY SQuantityInt, SChangeInt
    <2>4. CASE ~S!Counts(r)
        <3>1. S!Entered(r, w)' = S!Entered(r, w)
            BY <1>1, <2>4 DEF S!Entered, S!Counts
        <3>2. S!Entered(r, w) = SChange(r, w)
            BY <1>3, <2>4, SAllLegs
        <3>3. S!Holds(r, w) => sWritten[r][w] = SQuantity(w) + SChange(r, w)
            BY <1>1, <2>1, <2>4 DEF SSaves
        <3>4. ~S!Holds(r, w) => SChange(r, w) = 0
            <4>1. ~S!Holds(r, w) => \A n \in 1..sLeg[r] : SMoves(r)[n].at # w
                BY <1>1, <2>4 DEF SSaves
            <4> QED BY <1>3, <4>1 DEF SChange, SLegChange
        <3> QED BY <2>2, <2>3, <3>1, <3>2, <3>3, <3>4
    <2>5. CASE S!Counts(r)
        <3>1. S!Entered(r, w)' = IF w = sJob[r].at THEN sJob[r].qty - sSeen[r].qty ELSE 0
            BY <1>1, <1>7, <2>5 DEF S!Entered, S!Counts
        <3>2. sLeg[r] = 1 /\ sJob[r].qty \in Int /\ sSeen[r].qty \in Int
            <4>1. sLeg[r] = 1 /\ sJob[r].qty \in Nat
                BY <1>3, <2>5, SMoveLegs DEF S!Counts
            <4>2. sSeen[r].qty \in Int
                BY DEF STypes
            <4> QED BY <4>1, <4>2
        <3>3. S!Holds(r, w) => w = sJob[r].at /\ sWritten[r][w] = sJob[r].qty /\ sSeen[r].qty = SQuantity(w)
            BY <1>1, <2>1, <2>5 DEF SCounted
        <3>4. ~S!Holds(r, w) /\ w = sJob[r].at => sJob[r].qty = sSeen[r].qty
            BY <1>1, <2>5, <3>2 DEF SCounted
        <3> QED BY <2>2, <2>3, <3>1, <3>2, <3>3, <3>4
    <2> QED BY <2>4, <2>5
<1> QED BY <1>1, <1>2, <1>4, <1>5, <1>6, <1>7, <1>8

\* Every step keeps the invariant.
LEMMA SServeKeeps ==
    ASSUME SInv, NEW r \in SRequests, S!Serve(r)
    PROVE  SInv'
<1>i. /\ STypes /\ SLocks
      /\ \A x \in SRequests : SRests(x) /\ SSaves(x) /\ SKnows(x) /\ SCounted(x)
      /\ \A w \in SWarehouses \ sOvertaken : STotals(w)
    BY DEF SInv
<1>o. \A x \in SRequests \ {r} : SRests(x)' /\ SSaves(x)' /\ SKnows(x)' /\ SCounted(x)'
    BY <1>i, SOthersKept
<1>1. CASE ~S!Commit(r)
    <2>1. /\ STypes' /\ SLocks' /\ SRests(r)' /\ SSaves(r)' /\ SKnows(r)' /\ SCounted(r)'
          /\ UNCHANGED <<sJob, sQuantity, sDone, sRecorded, sOvertaken>>
        BY <1>i, <1>1, SBeginsOrFails, SReadsRow, SWritesRow DEF S!Serve
    <2>2. \A w : STotals(w)' <=> STotals(w)
        BY <2>1 DEF STotals, SQuantity, S!Entered
    <2> QED BY <1>i, <1>o, <2>1, <2>2 DEF SInv
<1>2. CASE S!Commit(r)
    <2>1. /\ STypes' /\ SLocks' /\ SRests(r)' /\ SSaves(r)' /\ SKnows(r)' /\ SCounted(r)'
          /\ r \notin sDone /\ sDone' = sDone \cup {r} /\ sJob' = sJob
          /\ \A x \in SRequests \ {r} : sRecorded'[x] = sRecorded[x]
          /\ sOvertaken \subseteq sOvertaken'
          /\ \A w \in SWarehouses \ sOvertaken' : SQuantity(w)' = SQuantity(w) + S!Entered(r, w)'
        BY <1>i, <1>2, SCommitted
    <2>2. IsFiniteSet(sDone) /\ sDone \subseteq SRequests
        BY <1>i, OfficeData, SFinite, FS_Subset DEF STypes, S!StockSets
    <2>3. ASSUME NEW w \in SWarehouses \ sOvertaken' PROVE STotals(w)'
        <3> DEFINE f == [x \in sDone |-> S!Entered(x, w)]
                   g == [x \in sDone \cup {r} |-> S!Entered(x, w)']
        <3>1. \A x \in sDone : S!Entered(x, w)' = S!Entered(x, w)
            BY <2>1, <2>2 DEF S!Entered
        <3>2. \A x \in sDone \cup {r} : g[x] \in Int
            <4>1. \A x \in SRequests : S!Entered(x, w)' \in Int
                <5>1. TAKE x \in SRequests
                <5>2. sJob[x].qty \in Int /\ sRecorded'[x] \in Int
                    BY <1>i, <2>1, SMoveLegs DEF STypes
                <5> QED BY <2>1, <5>2 DEF S!Entered
            <4> QED BY <2>2, <4>1
        <3>3. SumFunctionOnSet(g, sDone) = SumFunctionOnSet(f, sDone)
            <4>1. \A x \in sDone : g[x] = f[x]
                BY <3>1
            <4> HIDE DEF f, g
            <4> QED BY <2>2, <4>1, SumCongruence
        <3>4. SumFunctionOnSet(g, sDone \cup {r}) = g[r] + SumFunctionOnSet(g, sDone)
            <4> HIDE DEF g
            <4> QED BY <2>1, <2>2, <3>2, SumAdd
        <3>5. g[r] = S!Entered(r, w)' /\ SQuantity(w)' = SQuantity(w) + S!Entered(r, w)'
            BY <2>1
        <3>6. SQuantity(w) = SumFunctionOnSet(f, sDone)
            BY <1>i, <2>1 DEF STotals
        <3>7. SumFunctionOnSet(f, sDone) \in Int /\ g[r] \in Int
            BY <1>i, <3>2, <3>6, SQuantityInt
        <3>8. SQuantity(w)' = SumFunctionOnSet(g, sDone \cup {r})
            <4> HIDE DEF f, g
            <4> QED BY <3>3, <3>4, <3>5, <3>6, <3>7
        <3>9. [x \in sDone' |-> S!Entered(x, w)'] = g /\ sDone' = sDone \cup {r}
            BY <2>1
        <3> HIDE DEF f, g
        <3> QED BY <3>8, <3>9 DEF STotals
    <2> QED BY <1>o, <2>1, <2>3 DEF SInv
<1> QED BY <1>1, <1>2

\* The inductive invariant of the stock ledger.
LEMMA StockInvariant == Spec => []SInv
<1>1. Init => SInv
    <2> SUFFICES ASSUME S!Init PROVE SInv
        BY DEF Init
    <2>1. /\ sJob \in SPlans /\ DOMAIN sQuantity = {} /\ sDone = {}
          /\ sVersion = [w \in SWarehouses |-> 0] /\ sRecorded = [r \in SRequests |-> 0]
          /\ sPc = [r \in SRequests |-> "start"] /\ sLeg = [r \in SRequests |-> 0]
          /\ DOMAIN sWritten = SRequests /\ \A r \in SRequests : DOMAIN sWritten[r] = {}
          /\ sSeen = [r \in SRequests |-> [has |-> FALSE, qty |-> 0, version |-> 0]]
          /\ DOMAIN sStale = SRequests
        BY DEF S!Init, S!NoRow
    <2>2. STypes
        <3>1. [has |-> FALSE, qty |-> 0, version |-> 0] \in [has : BOOLEAN, qty : Int, version : Nat]
            OBVIOUS
        <3> QED BY <2>1, <3>1 DEF STypes, SSteps
    <2>3. SLocks
        BY <2>1 DEF SLocks, S!Holds
    <2>4. ASSUME NEW r \in SRequests PROVE SRests(r) /\ SSaves(r) /\ SKnows(r) /\ SCounted(r)
        <3>1. Len(SMoves(r)) \in {1, 2}
            BY <2>2, SLegsTyped
        <3> QED BY <2>1, <3>1 DEF SRests, SSaves, SKnows, SCounted
    <2>5. ASSUME NEW w \in SWarehouses PROVE STotals(w)
        <3>1. SQuantity(w) = 0
            BY <2>1 DEF SQuantity
        <3>2. \A f : SumFunctionOnSet(f, sDone) = 0
            BY <2>1, SumEmpty
        <3> QED BY <3>1, <3>2 DEF STotals
    <2> QED BY <2>2, <2>3, <2>4, <2>5 DEF SInv
<1>2. SInv /\ [Next]_vars => SInv'
    <2> SUFFICES ASSUME SInv, [Next]_vars PROVE SInv'
        OBVIOUS
    <2>1. CASE StockMoves
        BY <2>1, SServeKeeps DEF StockMoves, S!Next
    <2>2. CASE UNCHANGED sVars
        <3>1. UNCHANGED <<sJob, sQuantity, sVersion, sNumbers, sRecorded, sDone, sOvertaken, sPc, sLeg,
                          sWritten, sSeen, sStale>>
            BY <2>2 DEF sVars
        <3>2. (STypes' <=> STypes) /\ (SLocks' <=> SLocks)
            BY <3>1 DEF STypes, SLocks, S!Holds
        <3>3. /\ \A w : SQuantity(w)' = SQuantity(w) /\ (STotals(w)' <=> STotals(w))
              /\ \A r : SMoves(r)' = SMoves(r) /\ (S!Counts(r)' <=> S!Counts(r)) /\ (S!Leg(r))' = S!Leg(r)
              /\ \A r, w : (S!Holds(r, w)' <=> S!Holds(r, w)) /\ SChange(r, w)' = SChange(r, w)
            BY <3>1 DEF SQuantity, STotals, S!Entered, SMoves, S!Legs, S!Counts, S!Leg, S!Holds, SChange,
                SLegChange
        <3>4. \A r : (SRests(r)' <=> SRests(r)) /\ (SSaves(r)' <=> SSaves(r))
            BY <3>1, <3>3 DEF SRests, SSaves
        <3>5. \A r : (SKnows(r)' <=> SKnows(r)) /\ (SCounted(r)' <=> SCounted(r))
            BY <3>1, <3>3 DEF SKnows, SReads, SCounted
        <3> QED BY <3>1, <3>2, <3>3, <3>4, <3>5 DEF SInv
    <2>3. CASE DocumentsMove \/ ApprovalsMove \/ InvoicesMove \/ YearMoves \/ BankMoves
               \/ WikiMoves \/ EInvoicesMove
        BY <2>2, <2>3 DEF DocumentsMove, ApprovalsMove, InvoicesMove, YearMoves, BankMoves,
            WikiMoves, EInvoicesMove
    <2>4. CASE UNCHANGED vars
        BY <2>2, <2>4 DEF vars
    <2> QED BY <2>1, <2>3, <2>4 DEF Next
<1> QED BY <1>1, <1>2, PTL DEF Spec

\* The quantity on the stock ledger is the sum of the committed documents, in
\* every warehouse where no save has overwritten a commit later than its read.
THEOREM StockIsSumOfDocuments == Spec => []LedgerIsSumOfDocuments
<1>1. SInv => S!LedgerIsSumOfDocuments
    BY SSum DEF SInv, STotals, SQuantity, S!LedgerIsSumOfDocuments
<1>2. SInv => LedgerIsSumOfDocuments
    BY <1>1 DEF LedgerIsSumOfDocuments
<1> QED BY <1>2, StockInvariant, PTL

(***************************************************************************)
(* Years: the row of a month is the sum of its posted lines.               *)
(***************************************************************************)
\* What the variables of YearEnd hold.
YSides == [debit : Int, credit : Int]
\* What the tables of the years hold.
YTypes ==
    /\ yPosted \subseteq YVouchers
    /\ yMovement \in [YYears -> [YMonths -> [Y!Keys -> YSides]]]
    /\ yOpening \in [YYears -> [YAccounts -> YSides]]

\* The row of a month is the sum of the month's posted lines.
YInv ==
    /\ YTypes
    /\ \A y \in YYears, m \in YMonths, k \in Y!Keys : yMovement[y][m][k] = Y!Lines(y, k, {m})

\* Of a set of vouchers, those of a year and some months; what they move on one side
\* of a key, and both sides: Lines, of any set in place of the posted vouchers.
YOf(P, y, T) == {v \in P : YDoc[v].year = y /\ YDoc[v].month \in T}
YDebits(k)   == [v \in YVouchers |-> Y!LineOf(v, k).debit]
YCredits(k)  == [v \in YVouchers |-> Y!LineOf(v, k).credit]
\* The sum of the lines of a set of posted vouchers.
YLinesIn(P, y, k, T) == Y!Sum([v \in YVouchers |-> Y!LineOf(v, k)], YOf(P, y, T))

\* Lines are those of the posted vouchers.
LEMMA YLinesNow ==
    ASSUME NEW y, NEW k, NEW T
    PROVE  Y!Lines(y, k, T) = YLinesIn(yPosted, y, k, T)
BY DEF Y!Lines, YLinesIn, YOf

\* Sums of YearEnd are those of Functions.
LEMMA YSum == ASSUME NEW f, NEW T PROVE Y!SumFunctionOnSet(f, T) = SumFunctionOnSet(f, T)
BY DEF Y!SumFunctionOnSet, SumFunctionOnSet, Y!FoldFunctionOnSet, FoldFunctionOnSet,
    Y!MapThenFoldSet, MapThenFoldSet

\* There are finitely many vouchers.
LEMMA YFinite == IsFiniteSet(YVouchers)
<1>1. \A T : Y!IsFiniteSet(T) <=> IsFiniteSet(T)
    BY DEF Y!IsFiniteSet, IsFiniteSet
<1> QED BY <1>1, OfficeData DEF Y!YearEndSets

\* What a voucher says.
LEMMA YDocs ==
    ASSUME NEW v \in YVouchers
    PROVE  /\ YDoc[v].year \in YYears /\ YDoc[v].month \in YMonths /\ YDoc[v].amount \in Nat
           /\ YDoc[v].debit \in Y!Keys /\ YDoc[v].credit \in Y!Keys
           /\ YMonths \subseteq 1..12 /\ 12 \in YMonths
BY OfficeData DEF Y!YearEndSets

\* Months are numbers; December is one of them.
LEMMA YMonthSet == YMonths \subseteq 1..12 /\ 12 \in YMonths
BY OfficeData DEF Y!YearEndSets

\* Lines are two sums of integers.
LEMMA YLinesAre ==
    ASSUME NEW P, P \subseteq YVouchers, NEW y, NEW k, NEW T
    PROVE  /\ YLinesIn(P, y, k, T) = [debit  |-> SumFunctionOnSet(YDebits(k), YOf(P, y, T)),
                                      credit |-> SumFunctionOnSet(YCredits(k), YOf(P, y, T))]
           /\ \A v \in YVouchers : YDebits(k)[v] \in Int /\ YCredits(k)[v] \in Int
           /\ IsFiniteSet(YOf(P, y, T)) /\ YOf(P, y, T) \subseteq YVouchers
           /\ SumFunctionOnSet(YDebits(k), YOf(P, y, T)) \in Int
           /\ SumFunctionOnSet(YCredits(k), YOf(P, y, T)) \in Int
           /\ YLinesIn(P, y, k, T) \in YSides
<1>1. \A v \in YVouchers : YDebits(k)[v] \in Int /\ YCredits(k)[v] \in Int
    BY YDocs DEF YDebits, YCredits, Y!LineOf
<1>2. YOf(P, y, T) \subseteq YVouchers
    BY DEF YOf
<1>3. IsFiniteSet(YOf(P, y, T))
    BY <1>2, YFinite, FS_Subset
<1>4. /\ SumFunctionOnSet(YDebits(k), YOf(P, y, T)) \in Int
      /\ SumFunctionOnSet(YCredits(k), YOf(P, y, T)) \in Int
    BY <1>1, <1>2, <1>3, SumInt
<1>5. YLinesIn(P, y, k, T) = [debit  |-> SumFunctionOnSet(YDebits(k), YOf(P, y, T)),
                              credit |-> SumFunctionOnSet(YCredits(k), YOf(P, y, T))]
    <2> DEFINE f == [v \in YVouchers |-> Y!LineOf(v, k)]
    <2>1. [i \in DOMAIN f |-> f[i].debit] = YDebits(k) /\ [i \in DOMAIN f |-> f[i].credit] = YCredits(k)
        BY DEF YDebits, YCredits
    <2>2. YLinesIn(P, y, k, T) = Y!Sum(f, YOf(P, y, T))
        BY DEF YLinesIn
    <2> HIDE DEF f
    <2> QED BY <2>1, <2>2, YSum DEF Y!Sum
<1> QED BY <1>1, <1>2, <1>3, <1>4, <1>5 DEF YSides

\* P becomes Q by posting v, or by unposting it.
YMoved(P, v, Q, sign) == \/ sign = 1 /\ v \notin P /\ Q = P \cup {v}
                         \/ sign = -1 /\ v \in P /\ Q = P \ {v}

\* Posting a voucher adds its line to the lines of its month, unposting takes it out.
LEMMA YLinesMove ==
    ASSUME NEW P, P \subseteq YVouchers, NEW v \in YVouchers, NEW Q, NEW sign, NEW y, NEW k, NEW m,
           YMoved(P, v, Q, sign)
    PROVE  YLinesIn(Q, y, k, {m}) =
             IF YDoc[v].year = y /\ YDoc[v].month = m
             THEN Y!Plus(YLinesIn(P, y, k, {m}), Y!Times(sign, Y!LineOf(v, k)))
             ELSE YLinesIn(P, y, k, {m})
<1> DEFINE M == YOf(P, y, {m})
           R == YOf(Q, y, {m})
<1>1. Q \subseteq YVouchers
    BY DEF YMoved
<1>2. PICK d \in Int, c \in Int, e \in Int, b \in Int :
          /\ d = SumFunctionOnSet(YDebits(k), M) /\ c = SumFunctionOnSet(YCredits(k), M)
          /\ e = SumFunctionOnSet(YDebits(k), R) /\ b = SumFunctionOnSet(YCredits(k), R)
          /\ YLinesIn(P, y, k, {m}) = [debit |-> d, credit |-> c]
          /\ YLinesIn(Q, y, k, {m}) = [debit |-> e, credit |-> b]
    <2>1. /\ YLinesIn(P, y, k, {m}) = [debit  |-> SumFunctionOnSet(YDebits(k), M),
                                       credit |-> SumFunctionOnSet(YCredits(k), M)]
          /\ SumFunctionOnSet(YDebits(k), M) \in Int /\ SumFunctionOnSet(YCredits(k), M) \in Int
        BY YLinesAre
    <2>2. /\ YLinesIn(Q, y, k, {m}) = [debit  |-> SumFunctionOnSet(YDebits(k), R),
                                       credit |-> SumFunctionOnSet(YCredits(k), R)]
          /\ SumFunctionOnSet(YDebits(k), R) \in Int /\ SumFunctionOnSet(YCredits(k), R) \in Int
        BY <1>1, YLinesAre
    <2> HIDE DEF M, R
    <2> QED BY <2>1, <2>2
<1>3. /\ \A x \in YVouchers : YDebits(k)[x] \in Int /\ YCredits(k)[x] \in Int
      /\ IsFiniteSet(M) /\ M \subseteq YVouchers
    BY YLinesAre
<1>4. PICK p \in Int, q \in Int : /\ p = YDebits(k)[v] /\ q = YCredits(k)[v]
                                 /\ Y!LineOf(v, k).debit = p /\ Y!LineOf(v, k).credit = q
    BY <1>3 DEF YDebits, YCredits
<1>5. CASE ~(YDoc[v].year = y /\ YDoc[v].month = m)
    <2>1. R = M
        BY <1>5 DEF YOf, YMoved
    <2> QED BY <1>5, <2>1 DEF YLinesIn
<1>6. CASE YDoc[v].year = y /\ YDoc[v].month = m /\ v \notin P
    <2>1. R = M \cup {v} /\ v \notin M /\ sign = 1
        BY <1>6 DEF YOf, YMoved
    <2> HIDE DEF M, R
    <2>2. \A x \in M \cup {v} : YDebits(k)[x] \in Int /\ YCredits(k)[x] \in Int
        BY <1>3
    <2>3. e = p + d /\ b = q + c
        BY <1>2, <1>3, <1>4, <2>1, <2>2, SumAdd
    <2>4. Y!Times(sign, Y!LineOf(v, k)) = [debit |-> p, credit |-> q]
        BY <1>4, <2>1 DEF Y!Times
    <2>5. Y!Plus([debit |-> d, credit |-> c], [debit |-> p, credit |-> q]) = [debit |-> e, credit |-> b]
        BY <2>3 DEF Y!Plus
    <2> QED BY <1>2, <1>6, <2>4, <2>5
<1>7. CASE YDoc[v].year = y /\ YDoc[v].month = m /\ v \in P
    <2>1. R = M \ {v} /\ v \in M /\ sign = -1
        BY <1>7 DEF YOf, YMoved
    <2> HIDE DEF M, R
    <2>2. d = p + e /\ c = q + b
        <3>1. IsFiniteSet(M) /\ \A x \in M : YDebits(k)[x] \in Int /\ YCredits(k)[x] \in Int
            BY <1>3
        <3>2. SumFunctionOnSet(YDebits(k), M) = YDebits(k)[v] + SumFunctionOnSet(YDebits(k), M \ {v})
            BY <2>1, <3>1, SumRemove
        <3>3. SumFunctionOnSet(YCredits(k), M) = YCredits(k)[v] + SumFunctionOnSet(YCredits(k), M \ {v})
            BY <2>1, <3>1, SumRemove
        <3> QED BY <1>2, <1>4, <2>1, <3>2, <3>3
    <2>3. Y!Times(sign, Y!LineOf(v, k)) = [debit |-> -p, credit |-> -q]
        BY <1>4, <2>1 DEF Y!Times
    <2>4. Y!Plus([debit |-> d, credit |-> c], [debit |-> -p, credit |-> -q]) = [debit |-> e, credit |-> b]
        BY <2>2 DEF Y!Plus
    <2> QED BY <1>2, <1>7, <2>3, <2>4
<1> QED BY <1>5, <1>6, <1>7

\* Every step keeps the invariant.
LEMMA YNextKeeps ==
    ASSUME YInv, Y!Next
    PROVE  YInv'
<1>1. ASSUME NEW v \in YVouchers, Y!Post(v) \/ Y!Unpost(v) PROVE YInv'
    <2>1. PICK sign : sign = IF v \in yPosted THEN -1 ELSE 1
        OBVIOUS
    <2>2. /\ \/ v \notin yPosted /\ yPosted' = yPosted \cup {v}
             \/ v \in yPosted /\ yPosted' = yPosted \ {v}
          /\ yOpening' = yOpening
          /\ yMovement' = [yMovement EXCEPT ![YDoc[v].year][YDoc[v].month] =
                              [k \in Y!Keys |-> Y!Plus(@[k], Y!Times(sign, Y!LineOf(v, k)))]]
        BY <1>1, <2>1 DEF Y!Post, Y!Unpost, Y!Move
    <2>3. PICK y \in YYears, m \in YMonths : y = YDoc[v].year /\ m = YDoc[v].month
        BY YDocs
    <2>4. /\ yPosted' \subseteq YVouchers /\ yMovement \in [YYears -> [YMonths -> [Y!Keys -> YSides]]]
          /\ yPosted \subseteq YVouchers
        BY <2>2 DEF YInv, YTypes
    <2>5. \A k \in Y!Keys : Y!Plus(yMovement[y][m][k], Y!Times(sign, Y!LineOf(v, k))) \in YSides
        <3>1. TAKE k \in Y!Keys
        <3>2. yMovement[y][m][k] \in YSides
            BY <2>4
        <3>3. Y!LineOf(v, k).debit \in Int /\ Y!LineOf(v, k).credit \in Int
            BY YDocs DEF Y!LineOf
        <3>4. sign \in {-1, 1}
            BY <2>1
        <3>5. sign * Y!LineOf(v, k).debit \in Int /\ sign * Y!LineOf(v, k).credit \in Int
            BY <3>3, <3>4
        <3> QED BY <3>2, <3>5 DEF YSides, Y!Plus, Y!Times
    <2>6. /\ yMovement' \in [YYears -> [YMonths -> [Y!Keys -> YSides]]]
          /\ \A k \in Y!Keys : yMovement'[y][m][k] = Y!Plus(yMovement[y][m][k], Y!Times(sign, Y!LineOf(v, k)))
          /\ \A j \in YYears, n \in YMonths : ~(j = y /\ n = m) => yMovement'[j][n] = yMovement[j][n]
        <3>1. PICK new : new = [k \in Y!Keys |-> Y!Plus(yMovement[y][m][k], Y!Times(sign, Y!LineOf(v, k)))]
            OBVIOUS
        <3>2. new \in [Y!Keys -> YSides]
            BY <2>5, <3>1
        <3>3. yMovement' = [yMovement EXCEPT ![y] = [yMovement[y] EXCEPT ![m] = new]]
            BY <2>2, <2>3, <2>4, <3>1
        <3>4. [yMovement[y] EXCEPT ![m] = new] \in [YMonths -> [Y!Keys -> YSides]]
            BY <2>4, <3>2
        <3>5. yMovement' \in [YYears -> [YMonths -> [Y!Keys -> YSides]]]
            BY <2>4, <3>3, <3>4
        <3>6. /\ yMovement'[y] = [yMovement[y] EXCEPT ![m] = new]
              /\ \A j \in YYears \ {y} : yMovement'[j] = yMovement[j]
            BY <2>4, <3>3
        <3>7. yMovement'[y][m] = new /\ \A n \in YMonths \ {m} : yMovement'[y][n] = yMovement[y][n]
            BY <2>4, <3>6
        <3> QED BY <3>1, <3>5, <3>6, <3>7
    <2>7. YTypes'
        BY <2>2, <2>4, <2>6 DEF YInv, YTypes
    <2>8. ASSUME NEW j \in YYears, NEW n \in YMonths, NEW k \in Y!Keys
          PROVE  yMovement'[j][n][k] = Y!Lines(j, k, {n})'
        <3>1. yMovement[j][n][k] = YLinesIn(yPosted, j, k, {n})
            BY YLinesNow DEF YInv
        <3>2. YMoved(yPosted, v, yPosted', sign)
            BY <2>1, <2>2 DEF YMoved
        <3>3. YLinesIn(yPosted', j, k, {n}) =
                IF j = y /\ n = m THEN Y!Plus(YLinesIn(yPosted, j, k, {n}), Y!Times(sign, Y!LineOf(v, k)))
                ELSE YLinesIn(yPosted, j, k, {n})
            <4>1. PICK P, Q : P = yPosted /\ Q = yPosted'
                OBVIOUS
            <4>2. P \subseteq YVouchers /\ YMoved(P, v, Q, sign)
                BY <2>4, <3>2, <4>1
            <4>3. YLinesIn(Q, j, k, {n}) =
                    IF YDoc[v].year = j /\ YDoc[v].month = n
                    THEN Y!Plus(YLinesIn(P, j, k, {n}), Y!Times(sign, Y!LineOf(v, k)))
                    ELSE YLinesIn(P, j, k, {n})
                BY <4>2, YLinesMove
            <4> QED BY <2>3, <4>1, <4>3
        <3>4. Y!Lines(j, k, {n})' = YLinesIn(yPosted', j, k, {n})
            BY DEF Y!Lines, YLinesIn, YOf
        <3> QED BY <2>6, <3>1, <3>3, <3>4
    <2> QED BY <2>7, <2>8 DEF YInv
<1>2. ASSUME NEW y \in YYears, Y!CarryForward(y) PROVE YInv'
    <2>1. PICK last \in [YAccounts -> YObjects] :
              yOpening' = [yOpening EXCEPT ![y + 1] =
                [a \in YAccounts |-> IF Y!December(y, <<a, last[a]>>) = Y!Zero THEN @[a]
                                    ELSE Y!December(y, <<a, last[a]>>)]]
        BY <1>2 DEF Y!CarryForward
    <2>2. y + 1 \in YYears /\ UNCHANGED <<yPosted, yMovement>>
        BY <1>2 DEF Y!CarryForward
    <2>3. \A a \in YAccounts : Y!December(y, <<a, last[a]>>) \in YSides
        <3>1. TAKE a \in YAccounts
        <3>2. <<a, last[a]>> \in Y!Keys
            BY <2>1 DEF Y!Keys
        <3>3. yMovement[y][12][<<a, last[a]>>] \in YSides
            BY <3>2, YMonthSet DEF YInv, YTypes
        <3> QED BY <3>3 DEF Y!December, Y!Closing, YSides
    <2>4. yOpening' \in [YYears -> [YAccounts -> YSides]]
        <3>1. PICK new : new = [a \in YAccounts |-> IF Y!December(y, <<a, last[a]>>) = Y!Zero THEN yOpening[y + 1][a]
                                                  ELSE Y!December(y, <<a, last[a]>>)]
            OBVIOUS
        <3>2. yOpening \in [YYears -> [YAccounts -> YSides]]
            BY DEF YInv, YTypes
        <3>3. new \in [YAccounts -> YSides]
            BY <2>2, <2>3, <3>1, <3>2
        <3>4. yOpening' = [yOpening EXCEPT ![y + 1] = new]
            BY <2>1, <2>2, <3>1, <3>2
        <3> QED BY <2>2, <3>2, <3>3, <3>4
    <2>5. YTypes'
        BY <2>2, <2>4 DEF YInv, YTypes
    <2>6. \A j, k, T : Y!Lines(j, k, T)' = Y!Lines(j, k, T)
        BY <2>2 DEF Y!Lines
    <2> QED BY <2>2, <2>5, <2>6 DEF YInv
<1> QED BY <1>1, <1>2 DEF Y!Next

\* The inductive invariant of the years.
LEMMA YearsInvariant == Spec => []YInv
<1>1. Init => YInv
    <2> SUFFICES ASSUME Y!Init PROVE YInv
        BY DEF Init
    <2>1. Y!Zero \in YSides /\ Y!Zero = [debit |-> 0, credit |-> 0]
        BY DEF Y!Zero, YSides
    <2>2. YTypes
        BY <2>1 DEF Y!Init, YTypes
    <2>3. ASSUME NEW y \in YYears, NEW m \in YMonths, NEW k \in Y!Keys
          PROVE  yMovement[y][m][k] = Y!Lines(y, k, {m})
        <3>1. YOf(yPosted, y, {m}) = {} /\ yPosted \subseteq YVouchers
            BY DEF Y!Init, YOf
        <3>2. Y!Lines(y, k, {m}) = [debit |-> 0, credit |-> 0]
            BY <3>1, YLinesNow, YLinesAre, SumEmpty
        <3>3. yMovement[y][m][k] = Y!Zero
            BY DEF Y!Init
        <3> QED BY <2>1, <3>2, <3>3
    <2> QED BY <2>2, <2>3 DEF YInv
<1>2. YInv /\ [Next]_vars => YInv'
    <2> SUFFICES ASSUME YInv, [Next]_vars PROVE YInv'
        OBVIOUS
    <2>1. CASE YearMoves
        BY <2>1, YNextKeeps DEF YearMoves
    <2>2. CASE UNCHANGED yVars
        <3>1. UNCHANGED <<yPosted, yMovement, yOpening>>
            BY <2>2 DEF yVars
        <3>2. (YTypes' <=> YTypes) /\ \A j, k, T : Y!Lines(j, k, T)' = Y!Lines(j, k, T)
            BY <3>1 DEF YTypes, Y!Lines
        <3> QED BY <3>1, <3>2 DEF YInv
    <2>3. CASE DocumentsMove \/ ApprovalsMove \/ StockMoves \/ InvoicesMove \/ BankMoves
               \/ WikiMoves \/ EInvoicesMove
        BY <2>2, <2>3 DEF DocumentsMove, ApprovalsMove, StockMoves, InvoicesMove, BankMoves,
            WikiMoves, EInvoicesMove
    <2>4. CASE UNCHANGED vars
        BY <2>2, <2>4 DEF vars
    <2> QED BY <2>1, <2>3, <2>4 DEF Next
<1> QED BY <1>1, <1>2, PTL DEF Spec

\* Lines of two sets of months without a common month, and of the months one by one.
LEMMA YLinesUnion ==
    ASSUME YTypes, NEW y, NEW k, NEW T, NEW R, T \cap R = {}
    PROVE  Y!Lines(y, k, T \cup R) = Y!Plus(Y!Lines(y, k, T), Y!Lines(y, k, R))
<1> DEFINE U == YOf(yPosted, y, T)
           V == YOf(yPosted, y, R)
<1>1. U \cap V = {} /\ YOf(yPosted, y, T \cup R) = U \cup V
    BY DEF YOf
<1>2. /\ IsFiniteSet(U) /\ U \subseteq YVouchers /\ IsFiniteSet(V) /\ V \subseteq YVouchers
      /\ \A v \in YVouchers : YDebits(k)[v] \in Int /\ YCredits(k)[v] \in Int
      /\ Y!Lines(y, k, T) = [debit  |-> SumFunctionOnSet(YDebits(k), U),
                             credit |-> SumFunctionOnSet(YCredits(k), U)]
      /\ Y!Lines(y, k, R) = [debit  |-> SumFunctionOnSet(YDebits(k), V),
                             credit |-> SumFunctionOnSet(YCredits(k), V)]
      /\ Y!Lines(y, k, T \cup R) = [debit  |-> SumFunctionOnSet(YDebits(k), YOf(yPosted, y, T \cup R)),
                                    credit |-> SumFunctionOnSet(YCredits(k), YOf(yPosted, y, T \cup R))]
    BY YLinesNow, YLinesAre DEF YTypes
<1> HIDE DEF U, V
<1>3. /\ SumFunctionOnSet(YDebits(k), U \cup V)
            = SumFunctionOnSet(YDebits(k), U) + SumFunctionOnSet(YDebits(k), V)
      /\ SumFunctionOnSet(YCredits(k), U \cup V)
            = SumFunctionOnSet(YCredits(k), U) + SumFunctionOnSet(YCredits(k), V)
    <2>1. \A v \in U \cup V : YDebits(k)[v] \in Int /\ YCredits(k)[v] \in Int
        BY <1>2
    <2> QED BY <1>1, <1>2, <2>1, SumUnion
<1>4. PICK d, c, e, f : /\ d = SumFunctionOnSet(YDebits(k), U) /\ c = SumFunctionOnSet(YCredits(k), U)
                        /\ e = SumFunctionOnSet(YDebits(k), V) /\ f = SumFunctionOnSet(YCredits(k), V)
    OBVIOUS
<1>5. /\ Y!Lines(y, k, T) = [debit |-> d, credit |-> c] /\ Y!Lines(y, k, R) = [debit |-> e, credit |-> f]
      /\ Y!Lines(y, k, T \cup R) = [debit |-> d + e, credit |-> c + f]
    BY <1>1, <1>2, <1>3, <1>4
<1> QED BY <1>5 DEF Y!Plus

\* Months without postings have no lines.
LEMMA YLinesOfMonths ==
    ASSUME YTypes, NEW y, NEW k, NEW T
    PROVE  Y!Lines(y, k, T) = Y!Lines(y, k, T \cap YMonths)
<1>1. YOf(yPosted, y, T) = YOf(yPosted, y, T \cap YMonths)
    BY YDocs DEF YOf, YTypes
<1> QED BY <1>1, YLinesNow DEF YLinesIn

\* The rows of some months add up to the lines of these months.
LEMMA YRowsAddUp ==
    ASSUME YInv, NEW y \in YYears, NEW k \in Y!Keys, NEW T, T \subseteq YMonths
    PROVE  Y!Sum([m \in YMonths |-> yMovement[y][m][k]], T) = Y!Lines(y, k, T)
<1>1. YTypes
    BY DEF YInv
<1> DEFINE P == [m \in YMonths |-> YOf(yPosted, y, {m})]
           hd == [m \in YMonths |-> yMovement[y][m][k].debit]
           hc == [m \in YMonths |-> yMovement[y][m][k].credit]
<1>2. /\ \A m \in YMonths : /\ hd[m] = SumFunctionOnSet(YDebits(k), P[m])
                            /\ hc[m] = SumFunctionOnSet(YCredits(k), P[m])
                            /\ P[m] \subseteq YVouchers
      /\ \A v \in YVouchers : YDebits(k)[v] \in Int /\ YCredits(k)[v] \in Int
    <2>1. yPosted \subseteq YVouchers
        BY <1>1 DEF YTypes
    <2>2. \A v \in YVouchers : YDebits(k)[v] \in Int /\ YCredits(k)[v] \in Int
        BY <2>1, YLinesAre
    <2>3. ASSUME NEW m \in YMonths
          PROVE  /\ hd[m] = SumFunctionOnSet(YDebits(k), P[m]) /\ hc[m] = SumFunctionOnSet(YCredits(k), P[m])
                 /\ P[m] \subseteq YVouchers
        <3>1. P[m] = YOf(yPosted, y, {m}) /\ hd[m] = yMovement[y][m][k].debit /\ hc[m] = yMovement[y][m][k].credit
            OBVIOUS
        <3>2. yMovement[y][m][k] = YLinesIn(yPosted, y, k, {m})
            BY YLinesNow DEF YInv
        <3>3. /\ YLinesIn(yPosted, y, k, {m})
                    = [debit  |-> SumFunctionOnSet(YDebits(k), YOf(yPosted, y, {m})),
                       credit |-> SumFunctionOnSet(YCredits(k), YOf(yPosted, y, {m}))]
              /\ YOf(yPosted, y, {m}) \subseteq YVouchers
            BY <2>1, YLinesAre
        <3> HIDE DEF P, hd, hc
        <3> QED BY <3>1, <3>2, <3>3
    <2> QED BY <2>2, <2>3
<1>3. \A m, n \in YMonths : m # n => P[m] \cap P[n] = {}
    BY DEF YOf
<1>4. UNION {P[m] : m \in T} = YOf(yPosted, y, T)
    <2>1. ASSUME NEW v \in YOf(yPosted, y, T) PROVE v \in UNION {P[m] : m \in T}
        <3>1. YDoc[v].month \in T /\ v \in YOf(yPosted, y, {YDoc[v].month})
            BY <2>1 DEF YOf
        <3>2. v \in P[YDoc[v].month]
            BY <3>1
        <3> QED BY <3>1, <3>2
    <2>2. \A m \in T : P[m] \subseteq YOf(yPosted, y, T)
        BY DEF YOf
    <2> HIDE DEF P
    <2> QED BY <2>1, <2>2
<1>5. IsFiniteSet(T)
    <2>1. PICK first \in Int, last \in Int : first = 1 /\ last = 12
        OBVIOUS
    <2>2. IsFiniteSet(first..last)
        BY FS_Interval
    <2>3. T \subseteq first..last
        BY <2>1, YMonthSet
    <2> QED BY <2>2, <2>3, FS_Subset
<1>6. Y!Sum([m \in YMonths |-> yMovement[y][m][k]], T)
          = [debit |-> SumFunctionOnSet(hd, T), credit |-> SumFunctionOnSet(hc, T)]
    <2>1. /\ [i \in DOMAIN [m \in YMonths |-> yMovement[y][m][k]] |-> [m \in YMonths |-> yMovement[y][m][k]][i].debit] = hd
          /\ [i \in DOMAIN [m \in YMonths |-> yMovement[y][m][k]] |-> [m \in YMonths |-> yMovement[y][m][k]][i].credit] = hc
        OBVIOUS
    <2> HIDE DEF hd, hc
    <2> QED BY <2>1, YSum DEF Y!Sum
<1>7. /\ SumFunctionOnSet(hd, T) = SumFunctionOnSet(YDebits(k), YOf(yPosted, y, T))
      /\ SumFunctionOnSet(hc, T) = SumFunctionOnSet(YCredits(k), YOf(yPosted, y, T))
    <2> HIDE DEF P, hd, hc
    <2>1. PICK d, c : d = YDebits(k) /\ c = YCredits(k)
        OBVIOUS
    <2>2. \A v \in YVouchers : d[v] \in Int
        BY <1>2, <2>1
    <2>3. \A v \in YVouchers : c[v] \in Int
        BY <1>2, <2>1
    <2>4. \A m \in T : P[m] \subseteq YVouchers
        BY <1>2
    <2>5. \A m, n \in T : m # n => P[m] \cap P[n] = {}
        BY <1>3
    <2>6. \A m \in T : hd[m] = SumFunctionOnSet(d, P[m])
        BY <1>2, <2>1
    <2>7. \A m \in T : hc[m] = SumFunctionOnSet(c, P[m])
        BY <1>2, <2>1
    <2>8. SumFunctionOnSet(hd, T) = SumFunctionOnSet(d, UNION {P[m] : m \in T})
        BY <1>5, <2>2, <2>4, <2>5, <2>6, YFinite, SumByParts
    <2>9. SumFunctionOnSet(hc, T) = SumFunctionOnSet(c, UNION {P[m] : m \in T})
        BY <1>5, <2>3, <2>4, <2>5, <2>7, YFinite, SumByParts
    <2> QED BY <1>4, <2>1, <2>8, <2>9
<1> QED BY <1>1, <1>6, <1>7, YLinesNow, YLinesAre DEF YTypes

\* What reports show of a key is what the posted lines of the months say, on top of
\* the year's opening, whatever was posted, unposted and carried forward before.
THEOREM ReportsShowLines == Spec => []ReportsFollowLines
<1>1. ASSUME YInv, NEW y \in YYears, NEW n \in YMonths \cup {0}, NEW k \in Y!Keys
      PROVE  Y!Ytd(y, n, k) = Y!Shown(y, n, k)
    <2> DEFINE last == Y!LastMonth(n)
               month == IF last \in YMonths THEN yMovement[y][last][k] ELSE Y!Zero
               year == Y!Sum([m \in YMonths |-> yMovement[y][m][k]], {m \in YMonths : m <= last})
               base == IF k[1] \in YProfit \/ k[2] # "" THEN Y!Zero ELSE yOpening[y][k[1]]
    <2>0. YTypes
        BY <1>1 DEF YInv
    <2>1. last \in YMonths /\ last \in 1..12
        BY YMonthSet DEF Y!LastMonth
    <2>2. month = Y!Lines(y, k, {last})
        BY <1>1, <2>1 DEF YInv
    <2>3. year = Y!Lines(y, k, 1..last)
        <3> HIDE DEF last
        <3>1. {m \in YMonths : m <= last} = (1..last) \cap YMonths
            <4>1. \A m \in YMonths : m \in Int /\ 1 <= m
                BY YMonthSet
            <4>2. \A m \in YMonths : m <= last <=> m \in 1..last
                BY <2>1, <4>1
            <4> QED BY <4>2
        <3>2. year = Y!Lines(y, k, {m \in YMonths : m <= last})
            BY <1>1, YRowsAddUp
        <3> HIDE DEF year
        <3>3. year = Y!Lines(y, k, (1..last) \cap YMonths)
            BY <3>1, <3>2
        <3>4. Y!Lines(y, k, 1..last) = Y!Lines(y, k, (1..last) \cap YMonths)
            BY <2>0, YLinesOfMonths
        <3> QED BY <3>3, <3>4
    <2>4. Y!Lines(y, k, 1..last) = Y!Plus(Y!Lines(y, k, 1..(last - 1)), Y!Lines(y, k, {last}))
        <3>1. 1..last = 1..(last - 1) \cup {last} /\ (1..(last - 1)) \cap {last} = {}
            BY <2>1
        <3> HIDE DEF last
        <3> QED BY <2>0, <3>1, YLinesUnion
    <2>5. base = Y!OpeningOf(y, k) /\ base \in YSides
        <3>1. k[1] \in YAccounts
            BY DEF Y!Keys
        <3>2. yOpening[y][k[1]] \in YSides
            BY <2>0, <3>1 DEF YTypes
        <3>3. Y!Zero \in YSides
            BY DEF Y!Zero, YSides
        <3> QED BY <3>2, <3>3 DEF Y!OpeningOf
    <2> DEFINE before == Y!Plus(base, Y!Plus(year, Y!Times(-1, month)))
    <2>6. Y!Ytd(y, n, k) = [opening |-> before, period |-> month, ytd |-> year,
                            closing |-> Y!Closing(Y!Plus(before, month))]
        BY <2>5 DEF Y!Ytd
    <2>7. Y!Shown(y, n, k) = [opening |-> Y!Plus(base, Y!Lines(y, k, 1..(last - 1))),
                              period |-> Y!Lines(y, k, {last}), ytd |-> Y!Lines(y, k, 1..last),
                              closing |-> Y!Closing(Y!Plus(base, Y!Lines(y, k, 1..last)))]
        BY DEF Y!Shown
    <2>8. Y!Lines(y, k, 1..(last - 1)) \in YSides /\ Y!Lines(y, k, {last}) \in YSides
        BY <2>0, YLinesNow, YLinesAre DEF YTypes
    <2> HIDE DEF base, last, month, year
    <2>9. /\ before = Y!Plus(base, Y!Lines(y, k, 1..(last - 1)))
          /\ Y!Plus(before, month) = Y!Plus(base, Y!Lines(y, k, 1..last))
        <3>1. \A b, e, p \in YSides :
                 /\ Y!Plus(b, Y!Plus(Y!Plus(e, p), Y!Times(-1, p))) = Y!Plus(b, e)
                 /\ Y!Plus(Y!Plus(b, e), p) = Y!Plus(b, Y!Plus(e, p))
            BY DEF YSides, Y!Plus, Y!Times
        <3> QED BY <2>2, <2>3, <2>4, <2>5, <2>8, <3>1
    <2> QED BY <2>2, <2>3, <2>6, <2>7, <2>9
<1>2. YInv => ReportsFollowLines
    BY <1>1 DEF ReportsFollowLines, Y!ReportsFollowLines
<1> QED BY <1>2, YearsInvariant, PTL
=============================================================================
