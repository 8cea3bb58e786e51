---------------------------- MODULE MCDnsnLedger ----------------------------
(***************************************************************************)
(* Plans for DnsnLedger.  Vouchers 1, 2 and 3 are of month 1, 4 of month 2 *)
(* and the others of month 3, which has a closing voucher; 2 and 6 arrive, *)
(* 7 is a draft and the others are posted.                                 *)
(***************************************************************************)
EXTENDS DnsnLedger

MCPeriodOf == <<1, 1, 1, 2, 3, 3, 3>>
Sale(x, tax) == [t \in Types |-> IF t = "s3a" THEN x ELSE tax]
MCAmounts == <<Sale(5, 0), Sale(3, 1), Sale(2, 4), Sale(7, 0), Sale(6, 0), Sale(1, 1),
               Sale(2, 2)>>
MCOldBalance == [r \in Rows |-> IF r[1] = 2 THEN 10 ELSE 0]
MCStatus == <<"posted", "absent", "posted", "posted", "posted", "absent", "draft">>

Do(op, v) == [op |-> op, voucher |-> v]
Plan(f, g, h) == [a |-> f, b |-> g, c |-> h]
MCPlans == {
    \* a voucher is removed twice while another is posted in its month
    Plan(Do("post", 2), Do("remove", 3), Do("remove", 3)),
    \* vouchers of two months are removed while one is posted
    Plan(Do("post", 2), Do("remove", 3), Do("remove", 4)),
    \* a voucher is removed, discarded as a draft, and the next month converted
    Plan(Do("discard", 3), Do("remove", 3), [op |-> "convert", period |-> 2]),
    \* a draft is discarded and removed; a posting into a closed month
    Plan(Do("post", 6), Do("discard", 7), Do("remove", 7)) }
=============================================================================
