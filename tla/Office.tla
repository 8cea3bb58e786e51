------------------------------- MODULE Office -------------------------------
(***************************************************************************)
(* Eight parts of the system that share nothing but the database server    *)
(* and are small enough for one run: invoices, the stock ledger, the       *)
(* approvals, the documents and the wiki of the knowledge base, bank       *)
(* statements, e-invoices and the carry-forward of a year.  Which of them  *)
(* a behaviour is about is chosen in the initial state; the others stand   *)
(* still in theirs.                                                        *)
(*                                                                         *)
(* The constants of a part have its initial: D for the documents, A for    *)
(* the approvals, and so on; its variables have the small letter.          *)
(***************************************************************************)
EXTENDS Integers, FiniteSets, Sequences

CONSTANTS
    Parts,   \* the parts a run is about
    DRequests, DWorkers, DPlans, DMaxAttempts, DMaxFaults, DNoTask,
    AClients, AChain, ARolesOf, APlans, AMaxDeaths,
    SRequests, SWarehouses, SPlans,
    IRequests, IInvoices, INumberOf, IPlans, IOverlap,
    YAccounts, YProfit, YObjects, YYears, YMonths, YVouchers, YDoc,
    BRequests, BStatement, BUnreadable, BCandidates, BPlans, BMaxDeaths,
    WRequests, WSources, WFiles, WConcepts, WAnswers, WPlans, WPast,
    ERequests, EPlans, ELastMonth

VARIABLES
    part,
    dJob, dStatus, dQueue, dFailures, dChunks, dVectors, dAttempted, dFaults, dOverlapped,
    dAt, dPc, dStep,
    aJob, aStatus, aSteps, aPosted, aDeaths, aCrossed, aLate, aPc, aSubject, aPlace,
    sJob, sQuantity, sVersion, sNumbers, sRecorded, sDone, sOvertaken, sPc, sLeg, sWritten,
    sSeen, sStale,
    iJob, iStatus, iGl, iDnsn, iBooks, iLedgers, iTt58, iClosed, iPc, iHasGl, iHasDnsn, iSeen,
    iLate,
    yPosted, yMovement, yOpening, yCarried,
    bJob, bStored, bReconciled, bMatches, bDeaths, bMet, bListed, bPc, bTodo, bAt,
    wJob, wText, wIndex, wCited, wLinks, wOrphans, wDone, wMet, wPc, wFound, wTodo, wSeen,
    wListing, wDraft,
    eJob, eToday, eUtc, eRow, eIrregular, ePc, eCopy, ePicked

dVars == <<dJob, dStatus, dQueue, dFailures, dChunks, dVectors, dAttempted, dFaults, dOverlapped,
           dAt, dPc, dStep>>
aVars == <<aJob, aStatus, aSteps, aPosted, aDeaths, aCrossed, aLate, aPc, aSubject, aPlace>>
sVars == <<sJob, sQuantity, sVersion, sNumbers, sRecorded, sDone, sOvertaken, sPc, sLeg, sWritten,
           sSeen, sStale>>
iVars == <<iJob, iStatus, iGl, iDnsn, iBooks, iLedgers, iTt58, iClosed, iPc, iHasGl, iHasDnsn,
           iSeen, iLate>>
yVars == <<yPosted, yMovement, yOpening, yCarried>>
bVars == <<bJob, bStored, bReconciled, bMatches, bDeaths, bMet, bListed, bPc, bTodo, bAt>>
wVars == <<wJob, wText, wIndex, wCited, wLinks, wOrphans, wDone, wMet, wPc, wFound, wTodo, wSeen,
           wListing, wDraft>>
eVars == <<eJob, eToday, eUtc, eRow, eIrregular, ePc, eCopy, ePicked>>
vars  == <<part, dVars, aVars, sVars, iVars, yVars, bVars, wVars, eVars>>

D == INSTANCE Documents WITH
        Requests <- DRequests, Workers <- DWorkers, Plans <- DPlans,
        MaxAttempts <- DMaxAttempts, MaxFaults <- DMaxFaults, NoTask <- DNoTask,
        job <- dJob, status <- dStatus, queue <- dQueue, failures <- dFailures,
        chunks <- dChunks, vectors <- dVectors, attempted <- dAttempted, faults <- dFaults,
        overlapped <- dOverlapped, at <- dAt, pc <- dPc, step <- dStep
A == INSTANCE Approvals WITH
        Clients <- AClients, Chain <- AChain, RolesOf <- ARolesOf, Plans <- APlans,
        MaxDeaths <- AMaxDeaths,
        job <- aJob, status <- aStatus, steps <- aSteps, posted <- aPosted, deaths <- aDeaths,
        crossed <- aCrossed, late <- aLate, pc <- aPc, subject <- aSubject, place <- aPlace
S == INSTANCE StockLedger WITH
        Requests <- SRequests, Warehouses <- SWarehouses, Plans <- SPlans,
        job <- sJob, quantity <- sQuantity, version <- sVersion, numbers <- sNumbers,
        recorded <- sRecorded, done <- sDone, overtaken <- sOvertaken, pc <- sPc, leg <- sLeg,
        written <- sWritten, seen <- sSeen, stale <- sStale
I == INSTANCE Invoices WITH
        Requests <- IRequests, Invoices <- IInvoices, NumberOf <- INumberOf, Plans <- IPlans,
        Overlap <- IOverlap,
        job <- iJob, status <- iStatus, gl <- iGl, dnsn <- iDnsn, books <- iBooks,
        ledgers <- iLedgers, tt58 <- iTt58, closed <- iClosed, pc <- iPc, hasGl <- iHasGl,
        hasDnsn <- iHasDnsn, seen <- iSeen, late <- iLate
Y == INSTANCE YearEnd WITH
        Accounts <- YAccounts, Profit <- YProfit, Objects <- YObjects, Years <- YYears,
        Months <- YMonths, Vouchers <- YVouchers, Doc <- YDoc,
        posted <- yPosted, movement <- yMovement, opening <- yOpening, carried <- yCarried
B == INSTANCE BankReconciliation WITH
        Requests <- BRequests, Statement <- BStatement, Unreadable <- BUnreadable,
        Candidates <- BCandidates, Plans <- BPlans, MaxDeaths <- BMaxDeaths,
        job <- bJob, stored <- bStored, reconciled <- bReconciled, matches <- bMatches,
        deaths <- bDeaths, met <- bMet, listed <- bListed, pc <- bPc, todo <- bTodo, at <- bAt
W == INSTANCE Wiki WITH
        Requests <- WRequests, Sources <- WSources, Files <- WFiles, Concepts <- WConcepts,
        Answers <- WAnswers, Plans <- WPlans, Past <- WPast,
        job <- wJob, text <- wText, index <- wIndex, cited <- wCited, links <- wLinks,
        orphans <- wOrphans, done <- wDone, met <- wMet, pc <- wPc, found <- wFound,
        todo <- wTodo, seen <- wSeen, listing <- wListing, draft <- wDraft
E == INSTANCE EInvoices WITH
        Requests <- ERequests, LastMonth <- ELastMonth, Plans <- EPlans,
        job <- eJob, today <- eToday, utc <- eUtc, row <- eRow, irregular <- eIrregular,
        pc <- ePc, copy <- eCopy, picked <- ePicked

ASSUME OfficeData ==
    /\ D!DocumentSets /\ A!ApprovalSets /\ S!StockSets /\ I!InvoiceSets /\ Y!YearEndSets
    /\ B!BankSets /\ W!WikiSets /\ E!EInvoiceSets

\* A part that stands still does so with one of its plans.
Some(plans) == CHOOSE p \in plans : TRUE

Init ==
    /\ part \in Parts
    /\ D!Init /\ A!Init /\ S!Init /\ I!Init /\ Y!Init /\ B!Init /\ W!Init /\ E!Init
    /\ part # "documents" => dJob = Some(DPlans)
    /\ part # "approvals" => aJob = Some(APlans)
    /\ part # "stock"     => sJob = Some(SPlans)
    /\ part # "invoices"  => iJob = Some(IPlans)
    /\ part # "bank"      => bJob = Some(BPlans)
    /\ part # "wiki"      => wJob = Some(WPlans) /\ wText["Log"] = {}
    /\ part # "einvoices" => eJob = Some(EPlans)

DocumentsMove == part = "documents" /\ D!Next
    /\ UNCHANGED <<part, aVars, sVars, iVars, yVars, bVars, wVars, eVars>>
ApprovalsMove == part = "approvals" /\ A!Next
    /\ UNCHANGED <<part, dVars, sVars, iVars, yVars, bVars, wVars, eVars>>
StockMoves == part = "stock" /\ S!Next
    /\ UNCHANGED <<part, dVars, aVars, iVars, yVars, bVars, wVars, eVars>>
InvoicesMove == part = "invoices" /\ I!Next
    /\ UNCHANGED <<part, dVars, aVars, sVars, yVars, bVars, wVars, eVars>>
YearMoves == part = "yearend" /\ Y!Next
    /\ UNCHANGED <<part, dVars, aVars, sVars, iVars, bVars, wVars, eVars>>
BankMoves == part = "bank" /\ B!Next
    /\ UNCHANGED <<part, dVars, aVars, sVars, iVars, yVars, wVars, eVars>>
WikiMoves == part = "wiki" /\ W!Next
    /\ UNCHANGED <<part, dVars, aVars, sVars, iVars, yVars, bVars, eVars>>
EInvoicesMove == part = "einvoices" /\ E!Next
    /\ UNCHANGED <<part, dVars, aVars, sVars, iVars, yVars, bVars, wVars>>

Next == DocumentsMove \/ ApprovalsMove \/ StockMoves \/ InvoicesMove \/ YearMoves \/ BankMoves
        \/ WikiMoves \/ EInvoicesMove

\* Workers go on while there are tasks, the server answers the requests.
WorkersRun == part = "documents" /\ \E w \in DWorkers : D!Work(w)
ServerRuns == part = "stock" /\ S!Next

Spec == Init /\ [][Next]_vars
Fair == WF_dVars(WorkersRun) /\ WF_sVars(ServerRuns)
FairSpec == Spec /\ Fair

-----------------------------------------------------------------------------
\* A deleted document leaves no chunk and no vector behind.
NothingAfterDeletion == D!NothingAfterDeletion
\* At rest a processed document has its chunks and vectors, a failed one none.
ProcessedIsSearchable == D!ProcessedIsSearchable
\* No document stays "processing" for ever.
AttemptSettles == D!AttemptSettles
\* Nothing is approved before the steps ahead of it in the chain.
ChainIsFollowed == A!ChainIsFollowed
\* What is decided is changed by nobody who came later.
DecidedStaysDecided == A!DecidedStaysDecided
\* A rejected request is not approved.
RejectionBlocks == A!RejectionBlocks
\* The quantity on the stock ledger is the sum of the committed documents.
LedgerIsSumOfDocuments == S!LedgerIsSumOfDocuments
\* Every stock movement ends.
EveryMovementEnds == part = "stock" => S!EveryMovementEnds
\* An invoice is in the balances exactly while its voucher is posted.
BooksMatchVouchers == I!BooksMatchVouchers
\* A deleted invoice has left the books it was put into.
NothingWithoutInvoice == I!NothingWithoutInvoice
\* A deletion that did not fail leaves neither invoice nor voucher.
DeletionIsComplete == I!DeletionIsComplete
\* A closed month gains nothing but what was under way when it was closed.
ClosedMonthTakesOnlyPending == I!ClosedMonthTakesOnlyPending
\* Reports of a year show what its posted lines say.
ReportsFollowLines == part = "yearend" => Y!ReportsFollowLines
\* The next year opens with the closing balances of the year carried forward.
ClosingIsCarried == Y!ClosingIsCarried
\* Only runs that met match a voucher twice; none leaves a transaction without need.
MatchesAreRight == part = "bank" => B!MatchesAreRight
\* What an ingest has added to a concept page stays there.
MergesAreKept == W!MergesAreKept
\* The index of the wiki lists every page.
IndexIsComplete == W!IndexIsComplete
\* Ingests do not lose each other's lines in the log.
LogKeepsIngests == W!LogKeepsIngests
\* The e-invoices of a month are numbered 1, 2, 3, ...
NumbersAreSequential == E!NumbersAreSequential
=============================================================================
