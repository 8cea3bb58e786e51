----------------------------- MODULE StockLedger -----------------------------
(***************************************************************************)
(* Stock movements of one product.  Each is a transaction that changes the *)
(* quantities of some warehouses, one after the other: it reads the row of *)
(* a warehouse without a lock, adds, and saves the sum, which locks the    *)
(* row until the transaction ends.  Amount and average cost are saved with *)
(* the quantity and left out.                                              *)
(***************************************************************************)
EXTENDS Integers, FiniteSets, Sequences, Functions

CONSTANTS
    Requests,    \* requests being served
    Warehouses,  \* warehouses
    Plans        \* movements that meet: request -> its movement

\* no is the number of the stock voucher, unique among those of its type, or of
\* the count sheet.
Movements == [op : {"receipt", "issue", "count"}, no : Nat, at : Warehouses, qty : Nat]
                \cup [op : {"transfer"}, no : Nat, at : Warehouses, to : Warehouses, qty : Nat]

StockSets ==
    /\ IsFiniteSet(Requests) /\ IsFiniteSet(Warehouses)
    /\ Plans \subseteq [Requests -> Movements]

VARIABLES
    job,       \* the plan being carried out
    quantity,  \* warehouse with a ledger row -> quantity
    version,   \* warehouse -> transactions that have written its row
    numbers,   \* numbers in use: <<type, number>>
    recorded,  \* counts committed -> difference on the sheet
    done,      \* requests committed
    overtaken, \* warehouses where a save has overwritten a later commit
    pc,        \* request -> what it does next
    leg,       \* request -> how many rows it has saved
    written,   \* request -> rows it has saved -> quantity; it holds their locks
    seen,      \* request -> [has, qty, version] of the row it has read
    stale      \* request -> rows it has saved over a later commit

vars == <<job, quantity, version, numbers, recorded, done, overtaken,
          pc, leg, written, seen, stale>>

NoRow == [has |-> FALSE, qty |-> 0, version |-> 0]

Init ==
    /\ job \in Plans
    /\ quantity  = <<>>
    /\ version   = [w \in Warehouses |-> 0]
    /\ numbers   = {}
    /\ recorded  = [r \in Requests |-> 0]
    /\ done      = {}
    /\ overtaken = {}
    /\ pc        = [r \in Requests |-> "start"]
    /\ leg       = [r \in Requests |-> 0]
    /\ written   = [r \in Requests |-> <<>>]
    /\ seen      = [r \in Requests |-> NoRow]
    /\ stale     = [r \in Requests |-> {}]

Goto(r, label) == pc' = [pc EXCEPT ![r] = label]
Ended(r)   == pc[r] \in {"ended", "failed"}
Running(r) == pc[r] # "start" /\ ~Ended(r)

(***************************************************************************)
(* What a movement changes: the rows, and by how much.                     *)
(***************************************************************************)
OneLeg(m) ==  \* mutant
    IF m.op = "issue" THEN <<[at |-> m.at, by |-> -m.qty]>>
    ELSE <<[at |-> IF m.op = "transfer" THEN m.to ELSE m.at, by |-> m.qty]>>
Legs(m) ==
    CASE m.op = "issue"    -> <<[at |-> m.at, by |-> -m.qty]>>
      [] m.op = "transfer" -> <<[at |-> m.at, by |-> -m.qty], [at |-> m.to, by |-> m.qty]>>
      [] OTHER             -> <<[at |-> m.at, by |-> m.qty]>>

Leg(r)     == Legs(job[r])[leg[r] + 1]
Number(r)  == <<job[r].op, job[r].no>>
HasLeg(r)  == leg[r] < Len(Legs(job[r]))
Counts(r)  == job[r].op = "count"
Holds(r, w) == w \in DOMAIN written[r]
Free(r, w)  == \A x \in Requests \ {r} : ~Holds(x, w)

\* Where r waits for x: a row of the ledger, or a number not yet committed.
WaitsFor(r, x) ==
    \/ pc[r] = "start" /\ Running(x) /\ Number(x) = Number(r)
    \/ pc[r] = "write" /\ Holds(x, Leg(r).at)
    \/ pc[r] = "read" /\ HasLeg(r) /\ ~Counts(r) /\ Leg(r).at \notin DOMAIN quantity
                      /\ Holds(x, Leg(r).at)

\* A transaction that fails gives its locks back.
KeepsRows(r) == written[r]  \* mutant
RolledBack(r) == <<>>

Abort(r) ==
    /\ Goto(r, "failed")
    /\ written' = [written EXCEPT ![r] = RolledBack(r)]
    /\ UNCHANGED <<job, quantity, version, numbers, recorded, done, overtaken, leg, seen, stale>>

\* The voucher, or count sheet, is inserted first: its number is unique.
Begin(r) ==
    /\ pc[r] = "start"
    /\ \A x \in Requests \ {r} : ~WaitsFor(r, x)
    /\ Goto(r, IF Number(r) \in numbers THEN "failed" ELSE "read")
    /\ UNCHANGED <<job, quantity, version, numbers, recorded, done, overtaken, leg, written, seen,
                   stale>>

\* A movement inserts a missing row; a count remembers that there is none.
ReadRow(r) ==
    LET w == Leg(r).at
        row == IF w \in DOMAIN quantity THEN [has |-> TRUE, qty |-> quantity[w], version |-> version[w]]
               ELSE NoRow
    IN
    /\ pc[r] = "read" /\ HasLeg(r)
    /\ \A x \in Requests \ {r} : ~WaitsFor(r, x)
    /\ seen' = [seen EXCEPT ![r] =
                   IF Holds(r, w) THEN [has |-> TRUE, qty |-> written[r][w], version |-> version[w]]
                   ELSE row]
    /\ written' = IF ~Counts(r) /\ ~row.has /\ ~Holds(r, w)
                  THEN [written EXCEPT ![r] = [v \in DOMAIN @ \cup {w} |-> IF v = w THEN 0 ELSE @[v]]]
                  ELSE written
    /\ Goto(r, "write")
    /\ UNCHANGED <<job, quantity, version, numbers, recorded, done, overtaken, leg, stale>>

\* A count saves what was counted; nothing when that is what the row says.
WriteRow(r) ==
    LET w == Leg(r).at
        skipped == Counts(r) /\ Leg(r).by = seen[r].qty
        value == IF Counts(r) THEN Leg(r).by ELSE seen[r].qty + Leg(r).by
    IN
    /\ pc[r] = "write"
    /\ \/ /\ ~skipped
          /\ Free(r, w)
          /\ Counts(r) => seen[r].has \/ w \notin DOMAIN quantity
          /\ written' = [written EXCEPT ![r] =
                            [v \in DOMAIN @ \cup {w} |-> IF v = w THEN value ELSE @[v]]]
          /\ stale' = [stale EXCEPT ![r] = IF seen[r].has /\ version[w] # seen[r].version
                                           THEN @ \cup {w} ELSE @]
       \/ skipped /\ UNCHANGED <<written, stale>>
    /\ leg' = [leg EXCEPT ![r] = @ + 1]
    /\ Goto(r, "read")
    /\ UNCHANGED <<job, quantity, version, numbers, recorded, done, overtaken, seen>>

\* The count inserts a row that a movement has inserted since.
InsertRefused(r) ==
    /\ pc[r] = "write" /\ Counts(r)
    /\ Leg(r).by # 0 /\ ~seen[r].has /\ Leg(r).at \in DOMAIN quantity
    /\ Free(r, Leg(r).at)
    /\ Abort(r)

Commit(r) ==
    /\ pc[r] = "read" /\ ~HasLeg(r)
    /\ quantity' = [w \in DOMAIN quantity \cup DOMAIN written[r] |->
                       IF Holds(r, w) THEN written[r][w] ELSE quantity[w]]
    /\ version'  = [w \in Warehouses |-> version[w] + IF Holds(r, w) THEN 1 ELSE 0]
    /\ numbers'  = numbers \cup {Number(r)}
    /\ recorded' = [recorded EXCEPT ![r] = IF Counts(r) THEN job[r].qty - seen[r].qty ELSE 0]
    /\ done'     = done \cup {r}
    /\ overtaken' = overtaken \cup stale[r]
    /\ written'  = [written EXCEPT ![r] = <<>>]
    /\ Goto(r, "ended")
    /\ UNCHANGED <<job, leg, seen, stale>>

\* Two transactions wait for each other: the database aborts one.
DeadlockVictim(r) ==
    /\ \E x \in Requests \ {r} : WaitsFor(r, x) /\ WaitsFor(x, r)
    /\ Abort(r)

Serve(r) == Begin(r) \/ ReadRow(r) \/ WriteRow(r) \/ InsertRefused(r) \/ Commit(r)
                \/ DeadlockVictim(r)

Next == \E r \in Requests : Serve(r)

Spec == Init /\ [][Next]_vars

-----------------------------------------------------------------------------
\* What a committed document says about warehouse w.
Entered(r, w) ==
    CASE job[r].op = "receipt"  /\ w = job[r].at -> job[r].qty
      [] job[r].op = "issue"    /\ w = job[r].at -> -job[r].qty
      [] job[r].op = "count"    /\ w = job[r].at -> recorded[r]
      [] job[r].op = "transfer" /\ job[r].at # job[r].to /\ w = job[r].at -> -job[r].qty
      [] job[r].op = "transfer" /\ job[r].at # job[r].to /\ w = job[r].to -> job[r].qty
      [] OTHER -> 0

\* The quantity on the ledger is the sum of the documents, of all of them and of
\* nothing that was rolled back, in every warehouse where no save has overwritten
\* a commit later than its read.
LedgerIsSumOfDocuments ==
    \A w \in Warehouses \ overtaken :
        (IF w \in DOMAIN quantity THEN quantity[w] ELSE 0)
            = SumFunctionOnSet([r \in done |-> Entered(r, w)], done)

\* Every movement ends, committed or refused, although transfers in opposite
\* directions wait for each other's rows.
EveryMovementEnds == <>(\A r \in Requests : Ended(r))
=============================================================================
