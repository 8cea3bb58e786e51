----------------------------- MODULE EInvoices -----------------------------
(***************************************************************************)
(* E-invoices from draft to cancellation, in the manual mode of a company. *)
(* A number is the month and one more than the invoices issued in it; no   *)
(* key makes it unique.  The month is that of UTC, while the database      *)
(* gives the month of an issue date in the time zone of the company, where *)
(* months begin earlier.  Nothing runs in a transaction, and every save    *)
(* writes the whole row from an instance that was loaded before: also the  *)
(* save that attaches a rendered PDF.  An e-invoice is named by the        *)
(* request that creates it.                                                *)
(***************************************************************************)
EXTENDS Naturals, FiniteSets

CONSTANTS
    Requests,
    Plans,      \* what the requests do, and to which e-invoice
    LastMonth   \* bound: months that pass

Months == 1..LastMonth
Ops    == {"issue", "adjust", "publish", "publishAs", "cancel", "download"}
NoNumber == <<0, 0>>

EInvoiceSets ==
    /\ IsFiniteSet(Requests) /\ LastMonth \in Nat \ {0}
    /\ \A p \in Plans : DOMAIN p = Requests /\ \A r \in Requests :
           /\ p[r].op \in Ops
           /\ p[r].op \notin {"issue", "adjust"} => p[r].of \in Requests

VARIABLES
    job,       \* the plan being carried out
    today,     \* the month where the company is
    utc,       \* the month of UTC
    row,       \* e-invoice -> its row: status, invoice_no, month of issue_date
    irregular, \* something stale was used, or an invoice left its life cycle
    pc,        \* request -> what it does next
    copy,      \* request -> the row as it has loaded or saved it
    picked     \* request -> invoice_no it will save

vars == <<job, today, utc, row, irregular, pc, copy, picked>>

Absent == [status |-> "absent", no |-> NoNumber, month |-> 0]
Draft  == [Absent EXCEPT !.status = "draft"]

Init ==
    /\ job \in Plans
    /\ today = 1 /\ utc = 1
    /\ row       = [e \in Requests |-> Absent]
    /\ irregular = FALSE
    /\ pc        = [r \in Requests |-> "start"]
    /\ copy      = row
    /\ picked    = [r \in Requests |-> NoNumber]

Op(r)  == job[r].op
Of(r)  == IF Op(r) \in {"issue", "adjust"} THEN r ELSE job[r].of
Goto(r, label) == pc' = [pc EXCEPT ![r] = label]

IssuedIn(m) == {e \in Requests : row[e].status = "issued" /\ row[e].month = m}

\* _next_invoice_no
CountedOverall(m) == Cardinality(UNION {IssuedIn(n) : n \in Months})  \* mutant
Counted(m) == Cardinality(IssuedIn(m))
NextNo == <<utc, Counted(utc) + 1>>

\* The whole row is written from the instance, which holds what was loaded.
Saves(r, new) == row' = [row EXCEPT ![Of(r)] = new]
Overtaken(r)  == row[Of(r)] # copy[r]

\* issue_from_sales_invoice, adjust: a sale may be invoiced any number of times.
Create(r) ==
    /\ pc[r] = "start" /\ Op(r) \in {"issue", "adjust"}
    /\ Saves(r, Draft)
    /\ copy' = [copy EXCEPT ![r] = Draft]
    /\ Goto(r, IF Op(r) = "issue" THEN "attach" ELSE "ended")
    /\ UNCHANGED <<job, today, utc, irregular, picked>>

\* The XML, the JSON and the invoice are saved; and the PDF after a publication
\* or for a download, unless it cannot be rendered.
Attach(r) ==
    /\ pc[r] \in {"attach", "render"}
    /\ \/ Saves(r, copy[r]) /\ irregular' = (irregular \/ Overtaken(r))
       \/ pc[r] = "render" /\ UNCHANGED <<row, irregular>>
    /\ Goto(r, "ended")
    /\ UNCHANGED <<job, today, utc, copy, picked>>

\* 404 when there is none.  No operation looks at the status.
Load(r) ==
    /\ pc[r] = "start" /\ Op(r) \notin {"issue", "adjust"}
    /\ copy' = [copy EXCEPT ![r] = row[Of(r)]]
    /\ Goto(r, IF row[Of(r)] = Absent   THEN "ended"
               ELSE IF Op(r) = "cancel"   THEN "cancel"
               ELSE IF Op(r) = "download" THEN "render" ELSE "number")
    /\ UNCHANGED <<job, today, utc, row, irregular, picked>>

\* A number typed in is taken as it is.
PickNumber(r) ==
    /\ pc[r] = "number"
    /\ picked' = [picked EXCEPT ![r] = IF Op(r) = "publishAs" THEN <<today, job[r].no>> ELSE NextNo]
    /\ Goto(r, "publish")
    /\ UNCHANGED <<job, today, utc, row, irregular, copy>>

Publish(r) ==
    LET new == [status |-> "issued", no |-> picked[r], month |-> today] IN
    /\ pc[r] = "publish"
    /\ Saves(r, new)
    /\ copy' = [copy EXCEPT ![r] = new]
    /\ irregular' = (irregular \/ Overtaken(r) \/ copy[r].status # "draft" \/ picked[r] # NextNo
                               \/ utc # today)
    /\ Goto(r, "render")
    /\ UNCHANGED <<job, today, utc, picked>>

Cancel(r) ==
    /\ pc[r] = "cancel"
    /\ Saves(r, [copy[r] EXCEPT !.status = "cancelled"])
    /\ irregular' = (irregular \/ Overtaken(r) \/ copy[r].status = "issued")
    /\ Goto(r, "ended")
    /\ UNCHANGED <<job, today, utc, copy, picked>>

\* The month begins seven hours earlier than in UTC.
NextMonth ==
    /\ \/ utc = today /\ today < LastMonth /\ today' = today + 1 /\ UNCHANGED utc
       \/ utc < today /\ utc' = today /\ UNCHANGED today
    /\ UNCHANGED <<job, row, irregular, pc, copy, picked>>

Serve(r) == Create(r) \/ Attach(r) \/ Load(r) \/ PickNumber(r) \/ Publish(r) \/ Cancel(r)

Next == (\E r \in Requests : Serve(r)) \/ NextMonth

Spec == Init /\ [][Next]_vars

-----------------------------------------------------------------------------
\* "Generate sequential invoice number for the period": the invoices issued in a
\* month are numbered 1, 2, 3, ... without a gap or a repetition.  It takes one
\* of these to break the sequence: a save from an instance, or a number, that was
\* overtaken meanwhile (by another request or by midnight), a number typed in,
\* the publication of what is no draft or in the first hours of a month, the
\* cancellation of what is issued.
NumbersAreSequential ==
    ~irregular => \A m \in Months :
        {row[e].no : e \in IssuedIn(m)} = {<<m, n>> : n \in 1..Cardinality(IssuedIn(m))}
=============================================================================
