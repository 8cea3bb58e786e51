------------------------- MODULE BankReconciliation -------------------------
(***************************************************************************)
(* Bank statements and the vouchers they are matched with.  An upload      *)
(* inserts the rows of its file one by one and then matches, as the        *)
(* reconcile button does, all transactions without a match: each with the  *)
(* first of the candidates that no transaction has been matched with.      *)
(* Every statement commits by itself, and nothing keeps two runs apart.    *)
(***************************************************************************)
EXTENDS Naturals, FiniteSets, Sequences, SequencesExt

CONSTANTS
    Requests,    \* requests being served
    Statement,   \* rows of the file, numbered by their days; uploads upload this file
    Unreadable,  \* rows that do not parse
    Candidates,  \* row -> vouchers with a fitting line, the first five
    Plans,       \* what the requests do
    MaxDeaths    \* bound: workers that die

Transactions == Requests \X Statement

BankSets ==
    /\ IsFiniteSet(Requests) /\ Statement \subseteq Nat /\ Unreadable \subseteq Statement
    /\ DOMAIN Candidates = Statement
    /\ \A s \in Statement : Candidates[s] \in Seq(ToSet(Candidates[s])) /\ Len(Candidates[s]) <= 5
    /\ Plans \subseteq [Requests -> {"upload", "reconcile", "nothing"}] /\ MaxDeaths \in Nat

VARIABLES
    job,        \* the plan being carried out
    stored,     \* bank transactions
    reconciled, \* those with is_reconciled
    matches,    \* matches: [txn, voucher, by], by being the request that made it
    deaths,     \* workers that died so far
    met,        \* pairs of requests that were matching at the same time
    listed,     \* request -> transactions it has selected
    pc,         \* request -> what it does next
    todo,       \* request -> rows to insert, or transactions to match
    at          \* request -> transaction at hand and candidates left

vars == <<job, stored, reconciled, matches, deaths, met, listed, pc, todo, at>>

Idle == [txn |-> <<>>, left |-> <<>>]

Init ==
    /\ job \in Plans
    /\ stored     = {}
    /\ reconciled = {}
    /\ matches    = {}
    /\ deaths     = 0
    /\ met        = {}
    /\ listed     = [q \in Requests |-> {}]
    /\ pc         = [q \in Requests |-> "start"]
    /\ todo       = [q \in Requests |-> {}]
    /\ at         = [q \in Requests |-> Idle]

Goto(q, label) == pc' = [pc EXCEPT ![q] = label]
Ended(q)    == pc[q] \in {"ended", "dead"}
Matching(q) == pc[q] \in {"next", "consider", "insertMatch", "save"}
Matched(v)  == \E x \in matches : x.voucher = v

\* Rows are inserted in the order of the file; one that does not parse is skipped.
InsertRows(q) ==
    /\ pc[q] = "start" /\ job[q] = "upload"
    /\ todo' = [todo EXCEPT ![q] = {q} \X (Statement \ Unreadable)]
    /\ Goto(q, "insert")
    /\ UNCHANGED <<job, stored, reconciled, matches, deaths, met, listed, at>>

InsertRow(q) ==
    /\ pc[q] = "insert"
    /\ \E t \in todo[q] :
          /\ \A x \in todo[q] : t[2] <= x[2]
          /\ stored' = stored \cup {t}
          /\ todo'   = [todo EXCEPT ![q] = @ \ {t}]
    /\ UNCHANGED <<job, reconciled, matches, deaths, met, listed, pc, at>>

\* auto_reconcile selects the transactions first.
ListUnreconciled(q) ==
    /\ \/ pc[q] = "start" /\ job[q] = "reconcile"
       \/ pc[q] = "insert" /\ todo[q] = {}
    /\ todo'   = [todo EXCEPT ![q] = stored \ reconciled]
    /\ listed' = [listed EXCEPT ![q] = stored \ reconciled]
    /\ met'    = met \cup {{q, x} : x \in {y \in Requests : Matching(y)}}
    /\ Goto(q, "next")
    /\ UNCHANGED <<job, stored, reconciled, matches, deaths, at>>

\* The latest day comes first.
NextTransaction(q) ==
    /\ pc[q] = "next"
    /\ \/ \E t \in todo[q] : /\ \A x \in todo[q] : t[2] >= x[2]
                             /\ at'   = [at EXCEPT ![q] = [txn |-> t, left |-> Candidates[t[2]]]]
                             /\ todo' = [todo EXCEPT ![q] = @ \ {t}]
                             /\ Goto(q, "consider")
       \/ todo[q] = {} /\ Goto(q, "ended") /\ UNCHANGED <<at, todo>>
    /\ UNCHANGED <<job, stored, reconciled, matches, deaths, met, listed>>

TakesAny(v) == TRUE  \* mutant
Takes(v) == ~Matched(v)

\* The first candidate that is not matched is: looked for first, ...
Consider(q) ==
    LET c == at[q] IN
    /\ pc[q] = "consider"
    /\ IF c.left = <<>> THEN Goto(q, "next") /\ at' = [at EXCEPT ![q] = Idle]
       ELSE IF Takes(Head(c.left)) THEN Goto(q, "insertMatch") /\ UNCHANGED at
       ELSE at' = [at EXCEPT ![q].left = Tail(@)] /\ UNCHANGED pc
    /\ UNCHANGED <<job, stored, reconciled, matches, deaths, met, listed, todo>>

\* ... then inserted.  A transaction is matched with a voucher once: the insert
\* of a pair that is there fails, and the request with it.
InsertMatch(q) ==
    LET t == at[q].txn
        v == Head(at[q].left)
    IN
    /\ pc[q] = "insertMatch"
    /\ IF \E x \in matches : x.txn = t /\ x.voucher = v
       THEN Goto(q, "dead") /\ UNCHANGED matches
       ELSE /\ matches' = matches \cup {[txn |-> t, voucher |-> v, by |-> q]}
            /\ Goto(q, "save")
    /\ UNCHANGED <<job, stored, reconciled, deaths, met, listed, todo, at>>

SaveTransaction(q) ==
    /\ pc[q] = "save"
    /\ reconciled' = reconciled \cup {at[q].txn}
    /\ at' = [at EXCEPT ![q] = Idle]
    /\ Goto(q, "next")
    /\ UNCHANGED <<job, stored, matches, deaths, met, listed, todo>>

Dies(q) ==
    /\ pc[q] # "start" /\ ~Ended(q) /\ deaths < MaxDeaths
    /\ deaths' = deaths + 1
    /\ todo' = [todo EXCEPT ![q] = {}]
    /\ Goto(q, "dead")
    /\ UNCHANGED <<job, stored, reconciled, matches, met, listed, at>>

Next == \E q \in Requests :
    \/ InsertRows(q) \/ InsertRow(q) \/ ListUnreconciled(q) \/ NextTransaction(q)
    \/ Consider(q) \/ InsertMatch(q) \/ SaveTransaction(q) \/ Dies(q)

Spec == Init /\ [][Next]_vars

-----------------------------------------------------------------------------
\* The two matches come from runs that were matching at the same time.
FromRuns(x, y) == {x.by, y.by} \in met

\* The request that made the match died before it saved the transaction.
HalfDone(x) == pc[x.by] = "dead" /\ at[x.by].txn = x.txn

\* Runs that overlap may match a voucher, or a transaction, twice.  Nothing else
\* may: a voucher is matched twice only by runs that met, and a transaction only
\* by such runs or after one that died between its match and its flag.  What is
\* flagged as reconciled has a match, and a run that came to its end has left
\* nothing it selected unmatched while one of its candidates was free.
MatchesAreRight ==
    /\ \A x, y \in matches : x # y /\ x.voucher = y.voucher => FromRuns(x, y)
    /\ \A x, y \in matches : x # y /\ x.txn = y.txn => FromRuns(x, y) \/ HalfDone(x) \/ HalfDone(y)
    /\ \A t \in reconciled : \E x \in matches : x.txn = t
    /\ \A q \in Requests : pc[q] = "ended" =>
           \A t \in listed[q] \ reconciled : \A v \in ToSet(Candidates[t[2]]) : Matched(v)
=============================================================================
