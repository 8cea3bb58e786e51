------------------------------ MODULE MCOffice ------------------------------
(***************************************************************************)
(* Requests that meet in each part of the Office.                          *)
(***************************************************************************)
EXTENDS Office

Plan(a, b, c) == [c1 |-> a, c2 |-> b, c3 |-> c]

\* A document is uploaded, processed again and deleted, in any order.
MCDPlans == {Plan("upload", "reprocess", "delete")}

\* A chain of two roles; the third client has both.
MCAChain   == <<"accountant", "chief">>
MCARolesOf == [c1 |-> {}, c2 |-> {"accountant"}, c3 |-> {"accountant", "chief"}, c4 |-> {"chief"}]
MCAPlans   == {[c1 |-> "submit", c2 |-> "approve", c3 |-> "approve", c4 |-> x] :
                  x \in {"submit", "approve", "reject", "post"}}

Move(n, x, y)     == [op |-> "transfer", no |-> n, at |-> x, to |-> y, qty |-> 2]
Single(n, op, q)  == [op |-> op, no |-> n, at |-> "A", qty |-> q]

\* Transfers in opposite directions with a receipt, a count beside movements and
\* beside another, and vouchers of one number, two of them of one type.
MCSPlans == {Plan(Move(1, "A", "B"), Move(2, "B", "A"), Single(3, "receipt", 3)),
             Plan(Single(1, "receipt", 3), Single(2, "count", 1), Single(3, "issue", 2)),
             Plan(Single(1, "count", 2), Single(2, "count", 0), Single(3, "receipt", 1)),
             Plan(Single(1, "issue", 1), Move(1, "A", "B"), Move(1, "A", "A"))}

Do(op, i) == [op |-> op, invoice |-> i]
Only(op)  == [op |-> op]
Invoicing(a, b, c, d, e) == [r1 |-> a, r2 |-> b, r3 |-> c, r4 |-> d, r5 |-> e]

\* Invoice 3 has the number of invoice 1.  A DNSN invoice deleted by three
\* requests; a deletion repeated while the company switches and the number is
\* used again; an invoice deleted, its voucher posted and deleted, the month
\* closed; a draft deleted twice while another invoice enters and the month
\* closes.
MCINumberOf == <<100, 200, 100>>
MCIPlans ==
    {Invoicing(Only("convert"), Do("create", 2), Do("delete", 2), Do("delete", 2),
               Do("deleteVoucher", 2)),
     Invoicing(Do("create", 1), Do("delete", 1), Do("delete", 1), Do("create", 3),
               Only("convert")),
     Invoicing(Do("create", 1), Do("delete", 1), Do("postVoucher", 1),
               Do("deleteVoucher", 1), Only("closeMonth")),
     Invoicing(Do("createDraft", 1), Do("delete", 1), Do("delete", 1),
               Do("create", 2), Only("closeMonth"))}

Posting(y, m, debit, credit, n) ==
    [year |-> y, month |-> m, debit |-> debit, credit |-> credit, amount |-> n]

\* Two customers, sales in November and December, a payment of the next year.
MCYDoc == <<Posting(1, 11, <<"131", "an">>, <<"511", "">>, 5),
            Posting(1, 12, <<"131", "binh">>, <<"511", "">>, 3),
            Posting(1, 12, <<"111", "">>, <<"131", "an">>, 4),
            Posting(2, 11, <<"111", "">>, <<"131", "an">>, 2),
            Posting(2, 12, <<"111", "">>, <<"511", "">>, 1)>>

Banking(a, b, c) == [b1 |-> a, b2 |-> b, b3 |-> c]

\* Two rows fit the same voucher, one of them another too, the third does not
\* parse; the statement is uploaded twice, or once and reconciled by three runs.
MCBCandidates == <<<<"v1", "v2">>, <<>>, <<"v1">>>>
MCBPlans == {Banking("upload", "reconcile", "reconcile"), Banking("upload", "upload", "nothing")}

Ingest(s) == [op |-> "ingest", source |-> s]
Asking(a, b, c) == [k1 |-> a, k2 |-> b, k3 |-> c]

\* A document and a note that name the same concepts, in either order, beside a
\* question; a document ingested twice; one beside a question and a health check.
MCWAnswers == {<<>>, <<"vat", "pit">>, <<"pit", "vat">>}
MCWPlans == {Asking(Ingest("law"), Ingest("memo"), Only("ask")),
             Asking(Ingest("law"), Ingest("law"), Only("nothing")),
             Asking(Ingest("law"), Only("ask"), Only("lint"))}

To(op, e) == [op |-> op, of |-> e]
Issuing(a, b, c, d, e) == [e1 |-> a, e2 |-> b, e3 |-> c, e4 |-> d, e5 |-> e]

\* Two e-invoices published and one cancelled; one published with a number typed
\* in while the other is downloaded.
MCEPlans == {Issuing(Only("issue"), Only("issue"), To("publish", "e1"), To("publish", "e2"),
                     To("cancel", "e1")),
             Issuing(Only("issue"), Only("adjust"), To("publish", "e1"),
                     [op |-> "publishAs", of |-> "e2", no |-> 1], To("download", "e1"))}
=============================================================================
