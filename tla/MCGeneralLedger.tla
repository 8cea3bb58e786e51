-------------------------- MODULE MCGeneralLedger --------------------------
(***************************************************************************)
(* A small company for GeneralLedger: two months, a sale on a customer, an *)
(* expense entered with a rounding difference together with a rebate, on   *)
(* the debit side of a revenue account that is not in the chart, and a     *)
(* document that does not balance.                                         *)
(***************************************************************************)
EXTENDS GeneralLedger

MCAccounts == {"111", "511", "515", "642", "911", "421"}

D(a, o, x) == [account |-> a, object |-> o, debit |-> x, credit |-> 0]
C(a, o, x) == [account |-> a, object |-> o, debit |-> 0, credit |-> x]

Sale   == <<D("111", "", 9), C("511", "KH1", 9)>>
Rebate == <<D("642", "", 6), D("515", "", 4), C("111", "", 9)>>
Wrong  == <<D("642", "", 8), C("111", "", 5)>>

MCDocuments == {Sale, Rebate, Wrong}
MCRenames   == {<<"511", "515">>}
=============================================================================
