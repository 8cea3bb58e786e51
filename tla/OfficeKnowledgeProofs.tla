------------------------ MODULE OfficeKnowledgeProofs ------------------------
(***************************************************************************)
(* Theorems about the knowledge base: a deleted document leaves nothing in *)
(* the search indexes, what rests is searchable, and concurrent ingests of *)
(* the wiki keep what the pages, the index and the log say.                *)
(***************************************************************************)
EXTENDS Office, TLAPS

(***************************************************************************)
(* Documents.                                                              *)
(***************************************************************************)
\* What the variables of Documents hold.
DTypes ==
    /\ dJob \in DPlans
    /\ dStatus \in {"absent", "pending", "processing", "processed", "failed", "deleted"}
    /\ dQueue \subseteq {q \in DRequests : dJob[q] \in {"upload", "reprocess"}}
    /\ dChunks \in Nat /\ dVectors \in Nat
    /\ dAttempted \in BOOLEAN /\ dOverlapped \in BOOLEAN
    /\ dPc \in [DRequests -> {"start", "enqueue", "deleteChunks", "deleteDocument", "ended"}]
    /\ \A q \in DRequests : dPc[q] = "enqueue" => dJob[q] \in {"upload", "reprocess"}
    /\ DOMAIN dAt = DWorkers
    /\ dStep \in [DWorkers -> {"idle", "clearVectors", "clearChunks", "begin", "store", "mark",
                               "fail", "ack"}]

\* Before the upload nothing has happened; it happens once.
DFirst ==
    /\ dStatus = "absent" => /\ \A q \in DRequests : dPc[q] = "start"
                             /\ dQueue = {} /\ ~dAttempted
    /\ dStatus # "absent" => \A q \in DRequests : dJob[q] = "upload" => dPc[q] # "start"
    /\ ~dAttempted => dChunks = 0 /\ dVectors = 0 /\ \A w \in DWorkers : dStep[w] = "idle"

\* A deletion has begun.
DDeleting == \E q \in DRequests : dPc[q] \in {"deleteChunks", "deleteDocument"}
DHalfDeleted == \E q \in DRequests : dPc[q] = "deleteChunks"
DToClear == \E t \in dQueue : dJob[t] = "reprocess"

\* What a worker that nobody overlaps has before it at each step.
DAttempt(w) ==
    /\ dStep[w] # "idle" => dAt[w] \in dQueue
    /\ dStep[w] \in {"clearVectors", "clearChunks"} => dJob[dAt[w]] = "reprocess"
    /\ dStep[w] \in {"begin", "store", "fail"} => dChunks = 0 /\ dVectors = 0
    /\ dStep[w] \in {"mark", "ack"} => /\ dChunks = dVectors \/ DHalfDeleted
                                       /\ dChunks = 1 \/ DDeleting \/ dStatus = "deleted"
    /\ dStep[w] \in {"store", "mark", "ack"} => dStatus # "failed"

\* What is stored while attempts do not overlap.
DStored ==
    /\ dChunks = dVectors \/ DHalfDeleted \/ DToClear
    /\ dStatus = "processed" => dChunks = 1 \/ DDeleting \/ DToClear
    /\ dStatus = "failed" => dChunks = 0

\* While attempts do not overlap one worker is busy, and knows what is stored.
DInv ==
    /\ DTypes /\ DFirst /\ NothingAfterDeletion
    /\ ~dOverlapped => /\ \A v, w \in DWorkers : dStep[v] # "idle" /\ dStep[w] # "idle" => v = w
                       /\ \A w \in DWorkers : DAttempt(w)
                       /\ DStored

\* The owner's requests keep the invariant.
LEMMA DRequestKeeps ==
    ASSUME DInv, NEW q \in DRequests, D!Request(q) PROVE DInv'
<1> USE DEF DInv, DTypes, DFirst, DAttempt, DStored, DDeleting, DHalfDeleted, DToClear,
         NothingAfterDeletion, D!NothingAfterDeletion
<1>1. CASE D!Upload(q)
    BY <1>1, OfficeData DEF D!Upload, D!DocumentSets, D!Do
<1>2. CASE D!Reprocess(q)
    BY <1>2 DEF D!Reprocess, D!Exists, D!Do
<1>3. CASE D!Enqueue(q)
    BY <1>3 DEF D!Enqueue, D!Do
<1>4. CASE D!DeleteVectors(q)
    BY <1>4 DEF D!DeleteVectors, D!Exists, D!Do
<1>5. CASE D!DeleteChunks(q)
    BY <1>5 DEF D!DeleteChunks, D!Do
<1>6. CASE D!DeleteDocument(q)
    BY <1>6 DEF D!DeleteDocument, D!Cascade, D!Do
<1> QED BY <1>1, <1>2, <1>3, <1>4, <1>5, <1>6 DEF D!Request

\* So do the attempts of the workers, delivered twice or killed.
LEMMA DWorkerKeeps ==
    ASSUME DInv, NEW w \in DWorkers, D!Work(w) \/ D!Die(w) PROVE DInv'
<1> USE DEF DInv, DTypes, DFirst, DAttempt, DStored, DDeleting, DHalfDeleted, DToClear,
         NothingAfterDeletion, D!NothingAfterDeletion
<1>1. ASSUME NEW t \in DRequests, D!Deliver(w, t) PROVE DInv'
    BY <1>1 DEF D!Deliver, D!Busy, D!Turn, D!store
<1>2. CASE D!ClearVectors(w)
    BY <1>2 DEF D!ClearVectors, D!Turn
<1>3. CASE D!ClearChunks(w)
    BY <1>3 DEF D!ClearChunks, D!Cleared, D!Turn
<1>4. CASE D!Begin(w)
    BY <1>4 DEF D!Begin, D!Exists, D!Turn
<1>5. CASE D!StoreAll(w)
    BY <1>5 DEF D!StoreAll, D!Exists, D!Turn
<1>6. CASE D!MarkProcessed(w)
    BY <1>6 DEF D!MarkProcessed, D!Exists, D!Turn
<1>7. CASE D!Fail(w)
    BY <1>7 DEF D!Fail, D!Exists, D!AfterFailure, D!Turn
<1>8. CASE D!Acknowledge(w)
    BY <1>8 DEF D!Acknowledge, D!Turn
<1>9. CASE D!Die(w)
    BY <1>9 DEF D!Die, D!Busy, D!Turn, D!store
<1> QED BY <1>1, <1>2, <1>3, <1>4, <1>5, <1>6, <1>7, <1>8, <1>9 DEF D!Work

\* The inductive invariant of the documents.
LEMMA DocumentsInvariant == Spec => []DInv
<1>1. Init => DInv
    <2> SUFFICES ASSUME D!Init PROVE DInv
        BY DEF Init
    <2> QED BY DEF D!Init, DInv, DTypes, DFirst, NothingAfterDeletion, D!NothingAfterDeletion,
            DAttempt, DStored
<1>2. DInv /\ [Next]_vars => DInv'
    <2> SUFFICES ASSUME DInv, [Next]_vars PROVE DInv'
        OBVIOUS
    <2>1. CASE DocumentsMove
        BY <2>1, DRequestKeeps, DWorkerKeeps DEF DocumentsMove, D!Next
    <2>2. CASE UNCHANGED dVars
        BY <2>2 DEF dVars, DInv, DTypes, DFirst, NothingAfterDeletion, D!NothingAfterDeletion,
            DAttempt, DStored, DDeleting, DHalfDeleted, DToClear
    <2>3. CASE ApprovalsMove \/ StockMoves \/ InvoicesMove \/ YearMoves \/ BankMoves \/ WikiMoves
                 \/ EInvoicesMove
        BY <2>2, <2>3 DEF ApprovalsMove, StockMoves, InvoicesMove, YearMoves, BankMoves, WikiMoves,
            EInvoicesMove
    <2>4. CASE UNCHANGED vars
        BY <2>2, <2>4 DEF vars
    <2> QED BY <2>1, <2>3, <2>4 DEF Next
<1> QED BY <1>1, <1>2, PTL DEF Spec

\* However the deletion, the uploads and the attempts interleave, a document that
\* has been deleted keeps no chunk and no vector (document_delete, process_document).
THEOREM DeletionIsFinal == Spec => []NothingAfterDeletion
<1>1. DInv => NothingAfterDeletion
    BY DEF DInv
<1> QED BY <1>1, DocumentsInvariant, PTL

\* When nothing is queued or running, a processed document has its chunks and
\* vectors and a failed one has none, unless attempts have overlapped.
THEOREM RestIsSearchable == Spec => []ProcessedIsSearchable
<1>1. DInv => ProcessedIsSearchable
    BY DEF DInv, DTypes, DFirst, DStored, DDeleting, DHalfDeleted, DToClear, ProcessedIsSearchable,
        D!ProcessedIsSearchable, D!AtRest, D!Busy
<1> QED BY <1>1, DocumentsInvariant, PTL

(***************************************************************************)
(* The wiki.                                                               *)
(***************************************************************************)
\* What the variables of Wiki hold; only ingests have transactions.
WLists == Seq(WConcepts)
\* What the wiki holds.
WTypes ==
    /\ wJob \in WPlans /\ wDone \subseteq WRequests
    /\ wPc \in [WRequests -> {"start", "summary", "concept", "merge", "pages", "index", "readLog",
                              "log", "commit", "links", "report", "ended"}]
    /\ wFound \in [WRequests -> WLists] /\ wTodo \in [WRequests -> WLists]
    /\ DOMAIN wSeen = WRequests /\ DOMAIN wListing = WRequests
    /\ DOMAIN wText = W!Titles /\ DOMAIN wDraft = WRequests
    /\ \A r \in WRequests :
          /\ DOMAIN wDraft[r] = W!Titles
          /\ W!Ingests(r) => wPc[r] \notin {"links", "report"}
          /\ ~W!Ingests(r) => wPc[r] \in {"start", "links", "report", "readLog", "log", "ended"}
          /\ wPc[r] = "merge" => wTodo[r] # <<>>

\* What the transaction of r has written.
WDraft(r) ==
    /\ ~W!InTransaction(r) => \A t \in W!Titles : wDraft[r][t] = {}
    /\ W!InTransaction(r) =>
          /\ wPc[r] # "summary" => wDraft[r][W!Source(r)] # {}
          /\ wDraft[r]["Index"] = IF wPc[r] \in {"readLog", "log", "commit"} THEN {r} ELSE {}
          /\ wDraft[r]["Log"] = IF wPc[r] = "commit" THEN wSeen[r] \cup {r} ELSE {}
          /\ \A t \in WConcepts : wDraft[r][t] # {} => t \in W!Names(r)
          /\ \A t \in W!Names(r) : wDraft[r][t] # {} \/ \E i \in DOMAIN wTodo[r] : wTodo[r][i] = t
          /\ \A i \in DOMAIN wTodo[r] : wTodo[r][i] \in W!Names(r)
          /\ wPc[r] \in {"pages", "index", "readLog", "log", "commit"} => wTodo[r] = <<>>

\* Transactions that overlap know it, and one at a time has the index.
WApart ==
    \A r, x \in WRequests : W!InTransaction(r) /\ W!InTransaction(x) =>
        r = x \/ ({r, x} \in wMet /\ (wDraft[r]["Index"] = {} \/ wDraft[x]["Index"] = {}))

\* What is filed has ended and has its pages; a question writes the log when done.
WDone(r) ==
    /\ r \in W!Filed => /\ W!Ended(r)
                        /\ \A t \in W!Names(r) \cup {W!Source(r)} : wText[t] # {}
    /\ ~W!Ingests(r) /\ wPc[r] \in {"readLog", "log"} => r \in wDone

\* What the ingest x has read and is going to write has what others have filed,
\* or they overlap, or it was lost before.
WLost(r) == \E x \in wDone : ~W!Ingests(x) /\ W!Ended(x) /\ r \notin wSeen[x]
\* Page t may be what an ingest that r met has written.
WReplaced(r, t) == \E y \in W!Filed : {r, y} \in wMet /\ t \in W!Names(y)
WKeepsLog(x) ==
    wPc[x] \in {"log", "commit"} => \A r \in W!Filed : r \in wSeen[x] \/ WLost(r)
WKeepsIndex(x) ==
    wPc[x] \in {"index", "readLog", "log", "commit"} =>
        /\ W!Names(x) \cup {W!Source(x)} \subseteq wListing[x]
        /\ \A r \in W!Filed : {r, x} \in wMet \/ W!Names(r) \cup {W!Source(r)} \subseteq wListing[x]
WKeepsConcepts(x) ==
    /\ \A t \in WConcepts : wDraft[x][t] # {} =>
          /\ x \in wDraft[x][t]
          /\ \A r \in W!Filed : t \in W!Names(r)
                => r \in wDraft[x][t] \/ {r, x} \in wMet \/ WReplaced(r, t)
    /\ wPc[x] = "merge" =>
          \A r \in W!Filed : Head(wTodo[x]) \in W!Names(r)
             => r \in wSeen[x] \/ {r, x} \in wMet \/ WReplaced(r, Head(wTodo[x]))

\* The inductive invariant: log, index and concepts, and what each ingest has read.
WInv ==
    /\ WTypes /\ WApart
    /\ \A r \in WRequests : WDraft(r) /\ WDone(r)
          /\ (W!InTransaction(r) => WKeepsLog(r) /\ WKeepsIndex(r) /\ WKeepsConcepts(r))
    /\ MergesAreKept /\ IndexIsComplete /\ LogKeepsIngests

\* The statements of an ingest in their order.
LEMMA WAfter ==
    /\ W!After("summary") = "concept" /\ W!After("concept") = "pages" /\ W!After("pages") = "index"
    /\ W!After("index") = "readLog" /\ W!After("readLog") = "log" /\ W!After("log") = "commit"
BY DEF W!After, W!Order

\* A title left to save is a concept; saving it takes it off the list.
LEMMA WTails ==
    ASSUME NEW s \in WLists, s # <<>>
    PROVE  /\ Head(s) \in WConcepts /\ Tail(s) \in WLists
           /\ \A i \in DOMAIN s : s[i] = Head(s) \/ \E j \in DOMAIN Tail(s) : Tail(s)[j] = s[i]
           /\ \A j \in DOMAIN Tail(s) : \E i \in DOMAIN s : Tail(s)[j] = s[i]
           /\ \E i \in DOMAIN s : s[i] = Head(s)
<1>1. s \in Seq(WConcepts)
    BY DEF WLists
<1>2. /\ Head(s) \in WConcepts /\ Tail(s) \in Seq(WConcepts) /\ Head(s) = s[1]
      /\ Len(s) > 0 /\ Len(s) \in Nat /\ DOMAIN s = 1..Len(s)
      /\ DOMAIN Tail(s) = 1..(Len(s) - 1) /\ \A j \in 1..(Len(s) - 1) : Tail(s)[j] = s[j + 1]
    BY <1>1
<1>3. ASSUME NEW i \in DOMAIN s, i # 1
      PROVE  i - 1 \in DOMAIN Tail(s) /\ Tail(s)[i - 1] = s[i]
    BY <1>2, <1>3
<1>4. ASSUME NEW j \in DOMAIN Tail(s)
      PROVE  j + 1 \in DOMAIN s /\ Tail(s)[j] = s[j + 1]
    BY <1>2
<1>5. 1 \in DOMAIN s
    BY <1>2
<1> QED BY <1>2, <1>3, <1>4, <1>5 DEF WLists

\* The types hold after every step.
LEMMA WTyped ==
    ASSUME WTypes, NEW r \in WRequests, W!Serve(r) \/ W!Dies(r)
    PROVE  WTypes'
<1> USE DEF WTypes, W!Titles, W!Knowledge, W!Ingests
<1>1. CASE W!AskModel(r)
    <2>1. WAnswers \subseteq WLists
        BY OfficeData DEF W!WikiSets, WLists
    <2> QED BY <1>1, <2>1 DEF W!AskModel, W!Goto, W!InTransaction, W!saved
<1>2. CASE W!SaveSummary(r) \/ W!SaveIndex(r)
    BY <1>2, WAfter DEF W!SaveSummary, W!SaveIndex, W!Source, W!Write, W!Goto, W!saved
<1>3. CASE W!NextConcept(r)
    BY <1>3, WAfter DEF W!NextConcept, W!Goto, W!View, W!saved
<1>4. CASE W!SaveConcept(r)
    <2> USE <1>4 DEF W!SaveConcept
    <2>1. CASE W!Conflicts(r, Head(wTodo[r]))
        BY <2>1 DEF W!Abort, W!Goto, W!saved, W!Nothing
    <2>2. CASE ~W!Conflicts(r, Head(wTodo[r]))
        <3>1. wTodo[r] \in WLists /\ wTodo[r] # <<>>
            OBVIOUS
        <3>2. Tail(wTodo[r]) \in WLists
            BY <3>1, WTails
        <3>3. PICK t, d : wDraft' = [wDraft EXCEPT ![r][t] = d]
            BY <2>2 DEF W!Write
        <3>4. PICK s \in WLists : wTodo' = [wTodo EXCEPT ![r] = s]
            BY <2>2, <3>2
        <3>5. wPc' = [wPc EXCEPT ![r] = "concept"]
            BY <2>2 DEF W!Goto
        <3>6. wPc[r] = "merge" /\ UNCHANGED <<wJob, wText, wDone, wFound, wSeen, wListing>>
            BY <2>2 DEF W!saved
        <3> HIDE <1>4 DEF W!SaveConcept
        <3> QED BY <3>3, <3>4, <3>5, <3>6
    <2> QED BY <2>1, <2>2
<1>5. CASE W!ListPages(r) \/ W!ReadLog(r)
    BY <1>5, WAfter DEF W!ListPages, W!ReadLog, W!View, W!Goto, W!saved
<1>6. CASE W!SaveLog(r)
    BY <1>6, WAfter DEF W!SaveLog, W!Abort, W!Write, W!Goto, W!saved, W!Nothing
<1>7. CASE W!Commit(r)
    BY <1>7 DEF W!Commit, W!Goto, W!Nothing
<1>8. CASE W!Answer(r) \/ W!FindOrphans(r) \/ W!ReadLinks(r) \/ W!SaveReport(r)
    BY <1>8 DEF W!Answer, W!FindOrphans, W!ReadLinks, W!SaveReport, W!Goto, W!saved, W!locals
<1>9. CASE W!DeadlockVictim(r) \/ W!Dies(r)
    BY <1>9 DEF W!DeadlockVictim, W!Dies, W!Abort, W!Goto, W!saved, W!Nothing
<1> QED BY <1>1, <1>2, <1>3, <1>4, <1>5, <1>6, <1>7, <1>8, <1>9 DEF W!Serve

\* A request changes its own locals only.
LEMMA WOthers ==
    ASSUME WTypes, NEW r \in WRequests, W!Serve(r) \/ W!Dies(r)
    PROVE  /\ wJob' = wJob /\ wMet \subseteq wMet' /\ wDone \subseteq wDone'
           /\ \A x \in WRequests : x # r =>
                 /\ wPc'[x] = wPc[x] /\ wFound'[x] = wFound[x] /\ wTodo'[x] = wTodo[x]
                 /\ wSeen'[x] = wSeen[x] /\ wListing'[x] = wListing[x] /\ wDraft'[x] = wDraft[x]
           /\ wPc[r] # "start" => wFound'[r] = wFound[r] /\ wMet' = wMet
           /\ wPc'[r] # "start"
           /\ wPc[r] # "ended"
<1> USE DEF WTypes
<1>1. CASE W!AskModel(r) \/ W!NextConcept(r)
    BY <1>1, WAfter DEF W!AskModel, W!NextConcept, W!Goto, W!saved
<1>2. CASE W!SaveSummary(r) \/ W!SaveIndex(r)
    BY <1>2, WAfter DEF W!SaveSummary, W!SaveIndex, W!Write, W!Goto, W!saved
<1>3. CASE W!SaveConcept(r)
    BY <1>3 DEF W!SaveConcept, W!Abort, W!Write, W!Goto, W!saved
<1>4. CASE W!ListPages(r) \/ W!ReadLog(r)
    BY <1>4, WAfter DEF W!ListPages, W!ReadLog, W!Goto, W!saved
<1>5. CASE W!SaveLog(r)
    BY <1>5, WAfter DEF W!SaveLog, W!Abort, W!Write, W!Goto, W!saved
<1>6. CASE W!Commit(r)
    BY <1>6 DEF W!Commit, W!Goto
<1>7. CASE W!Answer(r) \/ W!FindOrphans(r) \/ W!ReadLinks(r) \/ W!SaveReport(r)
    BY <1>7 DEF W!Answer, W!FindOrphans, W!ReadLinks, W!SaveReport, W!Goto, W!saved, W!locals
<1>8. CASE W!DeadlockVictim(r) \/ W!Dies(r)
    BY <1>8 DEF W!DeadlockVictim, W!Dies, W!Abort, W!Goto, W!saved, W!Wants, W!WaitsFor
<1> QED BY <1>1, <1>2, <1>3, <1>4, <1>5, <1>6, <1>7, <1>8 DEF W!Serve

\* Only commits of ingests change what is filed, the index and the pages but for
\* the log and the report.
LEMMA WQuiet ==
    ASSUME WTypes, NEW r \in WRequests, W!Serve(r) \/ W!Dies(r), ~W!Commit(r)
    PROVE  /\ wIndex' = wIndex
           /\ \A t \in WSources \cup WConcepts \cup {"Index"} : wText'[t] = wText[t]
           /\ \A x \in WRequests : W!Ingests(x) /\ x \in wDone' => x \in wDone
<1> USE OfficeData DEF WTypes, W!Titles, W!Knowledge, W!Ingests
<1>1. CASE W!AskModel(r) \/ W!NextConcept(r) \/ W!SaveSummary(r) \/ W!SaveIndex(r)
             \/ W!ListPages(r) \/ W!ReadLog(r)
    BY <1>1 DEF W!AskModel, W!NextConcept, W!SaveSummary, W!SaveIndex, W!ListPages, W!ReadLog, W!saved
<1>2. CASE W!SaveConcept(r) \/ W!DeadlockVictim(r) \/ W!Dies(r)
    BY <1>2 DEF W!SaveConcept, W!DeadlockVictim, W!Dies, W!Abort, W!saved
<1>3. CASE W!SaveLog(r)
    BY <1>3 DEF W!SaveLog, W!Abort, W!saved, W!WikiSets
<1>4. CASE W!Answer(r) \/ W!FindOrphans(r) \/ W!ReadLinks(r) \/ W!SaveReport(r)
    BY <1>4 DEF W!Answer, W!FindOrphans, W!ReadLinks, W!SaveReport, W!saved, W!WikiSets
<1> QED BY <1>1, <1>2, <1>3, <1>4 DEF W!Serve

\* What an ingest names: concepts, and the summary page of its source.
LEMMA WNames ==
    ASSUME WTypes, NEW x \in WRequests
    PROVE  /\ W!Names(x) \subseteq WConcepts
           /\ W!Ingests(x) => W!Source(x) \in WSources /\ W!Source(x) \notin WConcepts
           /\ \A t \in WSources \cup WConcepts : t \notin {"Index", "Log", "Report"}
           /\ W!Titles = WSources \cup WConcepts \cup {"Index", "Log", "Report"}
<1>1. wFound[x] \in Seq(WConcepts)
    BY DEF WTypes, WLists
<1>2. W!Names(x) \subseteq WConcepts
    BY <1>1 DEF W!Names
<1> QED BY <1>2, OfficeData DEF WTypes, W!WikiSets, W!Ingests, W!Source, W!Titles, W!Knowledge

\* What r has written is as it should be after each of its statements.
LEMMA WDraftKept ==
    ASSUME WTypes, NEW r \in WRequests, W!Serve(r) \/ W!Dies(r), NEW x \in WRequests, WDraft(x)
    PROVE  WDraft(x)'
<1>1. CASE x # r
    <2>1. /\ wJob' = wJob /\ wPc'[x] = wPc[x] /\ wFound'[x] = wFound[x] /\ wTodo'[x] = wTodo[x]
          /\ wSeen'[x] = wSeen[x] /\ wDraft'[x] = wDraft[x]
        BY <1>1, WOthers
    <2> QED BY <2>1 DEF WDraft, W!InTransaction, W!Ingests, W!Source, W!Names, W!Titles, W!Knowledge
<1>2. CASE x = r
    <2> WDraft(r)
        BY <1>2
    <2> SUFFICES WDraft(r)'
        BY <1>2
    <2>n. /\ W!Names(r) \subseteq WConcepts
          /\ W!Ingests(r) => W!Source(r) \in WSources /\ W!Source(r) \notin WConcepts
          /\ \A t \in WSources \cup WConcepts : t \notin {"Index", "Log", "Report"}
          /\ W!Titles = WSources \cup WConcepts \cup {"Index", "Log", "Report"}
        BY WNames
    <2>j. wJob' = wJob
        BY WOthers
    <2>p. W!Ingests(r)' = W!Ingests(r) /\ W!Source(r)' = W!Source(r) /\ W!Titles' = W!Titles
        BY <2>j DEF W!Ingests, W!Source, W!Titles, W!Knowledge
    <2>1. CASE W!AskModel(r)
        <3>1. wPc[r] = "start" /\ wDraft' = wDraft
            BY <2>1 DEF W!AskModel
        <3>2. \A t \in W!Titles : wDraft[r][t] = {}
            BY <3>1 DEF WDraft, W!InTransaction
        <3>3. CASE wPc'[r] = "ended"
            BY <2>p, <3>1, <3>2, <3>3 DEF WDraft, W!InTransaction
        <3>4. CASE wPc'[r] # "ended"
            <4>1. wPc'[r] = "summary" /\ wTodo'[r] = wFound'[r]
                BY <2>1, <3>4 DEF W!AskModel, W!Goto, WTypes
            <4>2. \A t : t \in W!Names(r)' <=> \E i \in DOMAIN wTodo'[r] : wTodo'[r][i] = t
                BY <4>1 DEF W!Names
            <4>3. \A t \in WConcepts \cup {"Index", "Log"} : wDraft'[r][t] = {}
                BY <2>n, <3>1, <3>2
            <4>4. \A i \in DOMAIN wTodo'[r] : wTodo'[r][i] \in W!Names(r)'
                BY <4>2
            <4>5. \A t \in W!Names(r)' : \E i \in DOMAIN wTodo'[r] : wTodo'[r][i] = t
                BY <4>2
            <4> QED BY <2>p, <3>1, <3>2, <4>1, <4>3, <4>4, <4>5 DEF WDraft, W!InTransaction
        <3> QED BY <3>3, <3>4
    <2>2. CASE W!SaveSummary(r)
        <3>1. /\ wPc[r] = "summary" /\ wPc'[r] = "concept" /\ wTodo' = wTodo /\ wFound' = wFound /\ wSeen' = wSeen
              /\ \A t \in W!Titles : wDraft'[r][t] = IF t = W!Source(r) THEN {r} ELSE wDraft[r][t]
            BY <2>2, WAfter DEF W!SaveSummary, W!Write, W!Goto, WTypes
        <3>2. W!Ingests(r) /\ W!Names(r)' = W!Names(r)
            BY <3>1 DEF WTypes, W!Names
        <3> QED BY <2>n, <2>p, <3>1, <3>2 DEF WDraft, W!InTransaction
    <2>3. CASE W!NextConcept(r)
        <3>1. /\ wPc[r] = "concept" /\ wTodo' = wTodo /\ wFound' = wFound /\ wDraft' = wDraft
              /\ (wPc'[r] = "merge" \/ (wPc'[r] = "pages" /\ wTodo[r] = <<>>))
            BY <2>3, WAfter DEF W!NextConcept, W!Goto, WTypes
        <3>2. W!Ingests(r) /\ W!Names(r)' = W!Names(r)
            BY <3>1 DEF WTypes, W!Names
        <3>3. W!InTransaction(r) /\ W!InTransaction(r)'
            BY <2>p, <3>1, <3>2 DEF W!InTransaction
        <3> QED BY <2>p, <3>1, <3>2, <3>3 DEF WDraft
    <2>4. CASE W!SaveConcept(r)
        <3>1. CASE W!Conflicts(r, Head(wTodo[r]))
            BY <2>4, <2>n, <2>p, <3>1 DEF W!SaveConcept, W!Abort, W!Nothing, W!Goto, WTypes, WDraft, W!InTransaction
        <3>2. CASE ~W!Conflicts(r, Head(wTodo[r]))
            <4>1. PICK h : h = Head(wTodo[r])
                OBVIOUS
            <4>e. /\ wPc[r] = "merge" /\ wFound' = wFound /\ wPc' = [wPc EXCEPT ![r] = "concept"]
                  /\ wDraft' = [wDraft EXCEPT ![r][h] = wSeen[r] \cup {r}]
                  /\ wTodo' = [wTodo EXCEPT ![r] = Tail(wTodo[r])]
                BY <2>4, <3>2, <4>1 DEF W!SaveConcept, W!Write, W!Merged, W!Goto
            <4>2. /\ wPc[r] = "merge" /\ wPc'[r] = "concept" /\ wFound' = wFound
                  /\ \A t \in W!Titles : wDraft'[r][t] = IF t = h THEN wSeen[r] \cup {r} ELSE wDraft[r][t]
                  /\ wTodo'[r] = Tail(wTodo[r])
                BY <4>e DEF WTypes
            <4>3. /\ h \in WConcepts
                  /\ \A i \in DOMAIN wTodo[r] : wTodo[r][i] = h \/ \E j \in DOMAIN wTodo'[r] : wTodo'[r][j] = wTodo[r][i]
                  /\ \A j \in DOMAIN wTodo'[r] : \E i \in DOMAIN wTodo[r] : wTodo'[r][j] = wTodo[r][i]
                  /\ \E i \in DOMAIN wTodo[r] : wTodo[r][i] = h
                BY <4>1, <4>2, WTails DEF WTypes
            <4>4. W!Ingests(r) /\ W!Names(r)' = W!Names(r)
                BY <4>2 DEF WTypes, W!Names
            <4>5. W!InTransaction(r) /\ W!InTransaction(r)'
                BY <2>p, <4>2, <4>4 DEF W!InTransaction
            <4>h. h \in W!Names(r) /\ h \in W!Titles /\ h # W!Source(r) /\ h \notin {"Index", "Log"}
                BY <2>n, <4>3, <4>4, <4>5 DEF WDraft
            <4>6. /\ wDraft'[r][W!Source(r)] # {}
                  /\ wDraft'[r]["Index"] = {} /\ wDraft'[r]["Log"] = {}
                  /\ \A t \in WConcepts : wDraft'[r][t] # {} => t \in W!Names(r)
                BY <2>n, <4>2, <4>4, <4>5, <4>h DEF WDraft
            <4>7. ASSUME NEW t \in W!Names(r)
                  PROVE  wDraft'[r][t] # {} \/ \E i \in DOMAIN wTodo'[r] : wTodo'[r][i] = t
                <5>1. wDraft[r][t] # {} \/ \E i \in DOMAIN wTodo[r] : wTodo[r][i] = t
                    BY <4>5 DEF WDraft
                <5>2. t \in W!Titles /\ (wDraft[r][t] # {} \/ t = h => wDraft'[r][t] # {})
                    BY <2>n, <4>2
                <5> QED BY <4>3, <5>1, <5>2
            <4>8. \A i \in DOMAIN wTodo'[r] : wTodo'[r][i] \in W!Names(r)
                BY <4>3, <4>5 DEF WDraft
            <4> QED BY <2>p, <4>2, <4>4, <4>5, <4>6, <4>7, <4>8 DEF WDraft
        <3> QED BY <3>1, <3>2
    <2>5. CASE W!ListPages(r) \/ W!ReadLog(r)
        <3>0. \/ wPc[r] = "pages" /\ wPc' = [wPc EXCEPT ![r] = "index"]
              \/ wPc[r] = "readLog" /\ wPc' = [wPc EXCEPT ![r] = "log"]
            BY <2>5, WAfter DEF W!ListPages, W!ReadLog, W!Goto
        <3>1. /\ (wPc[r] = "pages" /\ wPc'[r] = "index") \/ (wPc[r] = "readLog" /\ wPc'[r] = "log")
              /\ wTodo' = wTodo /\ wFound' = wFound /\ wDraft' = wDraft
            BY <2>5, <3>0 DEF W!ListPages, W!ReadLog, WTypes
        <3>2. W!Names(r)' = W!Names(r)
            BY <3>1 DEF WTypes, W!Names
        <3> QED BY <2>n, <2>p, <3>1, <3>2 DEF WDraft, W!InTransaction
    <2>6. CASE W!SaveIndex(r)
        <3>1. /\ wPc[r] = "index" /\ wPc'[r] = "readLog" /\ wTodo' = wTodo /\ wFound' = wFound /\ wSeen' = wSeen
              /\ \A t \in W!Titles : wDraft'[r][t] = IF t = "Index" THEN {r} ELSE wDraft[r][t]
            BY <2>6, WAfter DEF W!SaveIndex, W!Write, W!Goto, WTypes
        <3>2. W!Ingests(r) /\ W!Names(r)' = W!Names(r)
            BY <3>1 DEF WTypes, W!Names
        <3> QED BY <2>n, <2>p, <3>1, <3>2 DEF WDraft, W!InTransaction
    <2>7. CASE W!SaveLog(r)
        <3>1. CASE W!Conflicts(r, "Log") \/ ~W!Ingests(r)
            BY <2>7, <2>n, <2>p, <3>1 DEF W!SaveLog, W!Abort, W!Nothing, W!Goto, WTypes, WDraft, W!InTransaction
        <3>2. CASE ~W!Conflicts(r, "Log") /\ W!Ingests(r)
            <4>e. /\ wPc[r] = "log" /\ wPc' = [wPc EXCEPT ![r] = "commit"]
                  /\ wTodo' = wTodo /\ wFound' = wFound /\ wSeen' = wSeen
                  /\ wDraft' = [wDraft EXCEPT ![r]["Log"] = wSeen[r] \cup {r}]
                BY <2>7, <3>2, WAfter DEF W!SaveLog, W!Write, W!Goto
            <4>1. /\ wPc[r] = "log" /\ wPc'[r] = "commit" /\ wTodo' = wTodo /\ wFound' = wFound /\ wSeen' = wSeen
                  /\ \A t \in W!Titles : wDraft'[r][t] = IF t = "Log" THEN wSeen[r] \cup {r} ELSE wDraft[r][t]
                BY <4>e DEF WTypes
            <4>2. W!Names(r)' = W!Names(r)
                BY <4>1 DEF WTypes, W!Names
            <4> QED BY <2>n, <2>p, <3>2, <4>1, <4>2 DEF WDraft, W!InTransaction
        <3> QED BY <3>1, <3>2
    <2>8. CASE W!Commit(r) \/ W!DeadlockVictim(r) \/ W!Dies(r)
        BY <2>8, <2>p DEF W!Commit, W!DeadlockVictim, W!Dies, W!Abort, W!Goto, W!Nothing, WTypes, WDraft, W!InTransaction
    <2>9. CASE W!Answer(r) \/ W!FindOrphans(r) \/ W!ReadLinks(r) \/ W!SaveReport(r)
        BY <2>9, <2>p DEF W!Answer, W!FindOrphans, W!ReadLinks, W!SaveReport, W!Goto, W!locals, WTypes, WDraft, W!InTransaction, W!Ingests
    <2> QED BY <2>1, <2>2, <2>3, <2>4, <2>5, <2>6, <2>7, <2>8, <2>9 DEF W!Serve
<1> QED BY <1>1, <1>2

\* The statement of an ingest that leads to each of its places.
LEMMA WSteps ==
    ASSUME WTypes, NEW r \in WRequests, W!Serve(r) \/ W!Dies(r), W!Ingests(r)
    PROVE  /\ wPc'[r] = "summary" => W!AskModel(r)
           /\ wPc'[r] = "concept" => W!SaveSummary(r) \/ W!SaveConcept(r)
           /\ wPc'[r] \in {"merge", "pages"} => W!NextConcept(r)
           /\ wPc'[r] = "index" => W!ListPages(r)
           /\ wPc'[r] = "readLog" => W!SaveIndex(r)
           /\ wPc'[r] = "log" => W!ReadLog(r)
           /\ wPc'[r] = "commit" => W!SaveLog(r)
<1> USE DEF WTypes, W!Goto
<1>1. W!AskModel(r) => wPc'[r] \in {"ended", "summary"}
    BY DEF W!AskModel
<1>2. W!SaveSummary(r) => wPc'[r] = "concept"
    BY WAfter DEF W!SaveSummary
<1>3. W!NextConcept(r) => wPc'[r] \in {"merge", "pages"}
    BY WAfter DEF W!NextConcept
<1>4. W!SaveConcept(r) => wPc'[r] \in {"ended", "concept"}
    BY DEF W!SaveConcept, W!Abort
<1>5. W!ListPages(r) => wPc'[r] = "index"
    BY WAfter DEF W!ListPages
<1>6. W!SaveIndex(r) => wPc'[r] = "readLog"
    BY WAfter DEF W!SaveIndex
<1>7. W!ReadLog(r) => wPc'[r] = "log"
    BY WAfter DEF W!ReadLog
<1>8. W!SaveLog(r) => wPc'[r] \in {"ended", "commit"}
    BY WAfter DEF W!SaveLog, W!Abort
<1>9. W!Commit(r) \/ W!DeadlockVictim(r) \/ W!Dies(r) => wPc'[r] = "ended"
    BY DEF W!Commit, W!DeadlockVictim, W!Dies, W!Abort
<1>10. ~(W!Answer(r) \/ W!FindOrphans(r) \/ W!ReadLinks(r) \/ W!SaveReport(r))
    BY DEF W!Answer, W!FindOrphans, W!ReadLinks, W!SaveReport, W!Ingests
<1> QED BY <1>1, <1>2, <1>3, <1>4, <1>5, <1>6, <1>7, <1>8, <1>9, <1>10 DEF W!Serve

\* A transaction that begins meets the others; the index is locked for the next.
LEMMA WApartKept ==
    ASSUME WTypes, NEW r \in WRequests, W!Serve(r) \/ W!Dies(r), WApart,
           \A x \in WRequests : WDraft(x)
    PROVE  WApart'
<1> SUFFICES ASSUME NEW x \in WRequests, NEW y \in WRequests, x # y,
                    W!InTransaction(x)', W!InTransaction(y)'
             PROVE  {x, y} \in wMet' /\ (wDraft'[x]["Index"] = {} \/ wDraft'[y]["Index"] = {})
    BY DEF WApart
<1>1. ASSUME NEW z \in WRequests, z # r, W!InTransaction(z)'
      PROVE  W!InTransaction(z) /\ wDraft'[z] = wDraft[z]
    BY <1>1, WOthers DEF W!InTransaction, W!Ingests
<1>2. wMet \subseteq wMet'
    BY WOthers
<1>3. CASE x # r /\ y # r
    BY <1>1, <1>2, <1>3 DEF WApart
<1>4. ASSUME NEW z \in WRequests, z # r, W!InTransaction(r)', W!InTransaction(z)'
      PROVE  {r, z} \in wMet' /\ (wDraft'[r]["Index"] = {} \/ wDraft'[z]["Index"] = {})
    <2>1. W!InTransaction(z) /\ wDraft'[z] = wDraft[z]
        BY <1>1, <1>4
    <2>2. W!Ingests(r) /\ wPc'[r] \notin {"start", "ended"}
        BY <1>4, WOthers DEF W!InTransaction, W!Ingests
    <2>3. WDraft(r)'
        BY WDraftKept
    <2>4. wDraft'[r]["Index"] = IF wPc'[r] \in {"readLog", "log", "commit"} THEN {r} ELSE {}
        BY <1>4, <2>3 DEF WDraft
    <2>5. CASE W!AskModel(r)
        <3>1. wDraft' = wDraft /\ {r, z} \in wMet' /\ wPc[r] = "start"
            BY <2>1, <2>2, <2>5 DEF W!AskModel, W!Goto, WTypes
        <3>2. wDraft[r]["Index"] = {}
            BY <3>1 DEF WDraft, W!InTransaction, W!Titles
        <3> QED BY <3>1, <3>2
    <2>6. CASE W!SaveIndex(r)
        <3>1. wPc[r] = "index" /\ wDraft[z]["Index"] = {}
            BY <1>4, <2>6 DEF W!SaveIndex, W!Free
        <3> QED BY <1>2, <1>4, <2>1, <2>2, <3>1 DEF WApart, W!InTransaction
    <2>7. CASE ~W!AskModel(r) /\ ~W!SaveIndex(r)
        <3>1. W!InTransaction(r)
            BY <2>2, <2>7 DEF W!Serve, W!Dies, W!InTransaction, W!Ingests, W!SaveSummary,
                W!NextConcept, W!SaveConcept, W!ListPages, W!ReadLog, W!SaveLog, W!Commit, W!Answer,
                W!FindOrphans, W!ReadLinks, W!SaveReport, W!DeadlockVictim, W!Wants, W!WaitsFor
        <3>2. wPc'[r] \in {"readLog", "log", "commit"} => wPc[r] \in {"readLog", "log"}
            BY <2>2, <2>7, WSteps DEF W!ReadLog, W!SaveLog
        <3>3. wPc[r] \in {"readLog", "log"} => wDraft[r]["Index"] = {r}
            BY <3>1 DEF WDraft
        <3> QED BY <1>2, <1>4, <2>1, <2>4, <3>1, <3>2, <3>3 DEF WApart
    <2> QED BY <2>5, <2>6, <2>7
<1>5. {x, y} = {y, x}
    OBVIOUS
<1> QED BY <1>3, <1>4, <1>5

\* A commit files r and makes its pages those of the wiki.
LEMMA WCommits ==
    ASSUME WTypes, NEW r \in WRequests, W!Commit(r), WDraft(r)
    PROVE  /\ W!InTransaction(r) /\ ~W!InTransaction(r)' /\ wDone' = wDone \cup {r}
           /\ wIndex' = wListing[r] /\ wMet' = wMet /\ wFound' = wFound /\ wSeen' = wSeen
           /\ wListing' = wListing
           /\ \A t \in W!Titles : wText'[t] = IF wDraft[r][t] # {} THEN wDraft[r][t] ELSE wText[t]
           /\ \A t \in W!Names(r) \cup {W!Source(r)} : t \in W!Titles /\ wDraft[r][t] # {}
           /\ wDraft[r]["Index"] = {r} /\ wDraft[r]["Log"] = wSeen[r] \cup {r}
           /\ wPc[r] = "commit"
<1>1. W!InTransaction(r) /\ wPc[r] = "commit"
    BY DEF W!Commit, W!InTransaction, WTypes
<1>2. ~W!InTransaction(r)'
    BY DEF W!Commit, W!Goto, W!InTransaction, WTypes
<1>3. \A t \in W!Titles : wText'[t] = IF wDraft[r][t] # {} THEN wDraft[r][t] ELSE wText[t]
    BY DEF W!Commit, W!View
<1>4. wDraft[r]["Index"] = {r} /\ wDraft[r]["Log"] = wSeen[r] \cup {r}
    BY <1>1 DEF WDraft
<1>5. DOMAIN wTodo[r] = {} /\ W!Ingests(r)
    BY <1>1 DEF WDraft, W!InTransaction
<1>6. \A t \in W!Names(r) \cup {W!Source(r)} : t \in W!Titles /\ wDraft[r][t] # {}
    BY <1>1, <1>5, WNames DEF WDraft
<1> QED BY <1>1, <1>2, <1>3, <1>4, <1>6 DEF W!Commit

\* What is filed has ended and its pages stay.
LEMMA WDoneKept ==
    ASSUME WTypes, NEW r \in WRequests, W!Serve(r) \/ W!Dies(r), NEW x \in WRequests, WDone(x),
           WDraft(r)
    PROVE  WDone(x)'
<1>1. wJob' = wJob /\ W!Ingests(x)' = W!Ingests(x) /\ W!Source(x)' = W!Source(x)
    BY WOthers DEF W!Ingests, W!Source
<1>2. ASSUME x \in W!Filed'
      PROVE  W!Ended(x)' /\ \A t \in (W!Names(x) \cup {W!Source(x)})' : wText'[t] # {}
    <2>1. W!Ingests(x) /\ x \in wDone'
        BY <1>1, <1>2 DEF W!Filed
    <2>2. CASE ~W!Commit(r)
        <3>1. x \in W!Filed
            BY <2>1, <2>2, WQuiet DEF W!Filed
        <3>2. W!Ended(x) /\ x # r
            BY <3>1, WOthers DEF WDone, W!Ended
        <3>3. W!Ended(x)' /\ W!Names(x)' = W!Names(x)
            BY <3>2, WOthers DEF W!Ended, W!Names
        <3>4. \A t \in W!Names(x) \cup {W!Source(x)} : wText'[t] = wText[t]
            BY <2>1, <2>2, WQuiet, WNames
        <3> QED BY <1>1, <3>1, <3>3, <3>4 DEF WDone
    <2>3. CASE W!Commit(r) /\ x = r
        <3>1. W!Ended(r)' /\ W!Names(r)' = W!Names(r)
            BY <2>3, WCommits DEF W!Commit, W!Goto, W!Ended, W!Names, WTypes
        <3> QED BY <1>1, <2>3, <3>1, WCommits
    <2>4. CASE W!Commit(r) /\ x # r
        <3>1. x \in W!Filed
            BY <2>1, <2>4, WCommits DEF W!Filed
        <3>2. W!Ended(x)' /\ W!Names(x)' = W!Names(x)
            BY <2>4, <3>1, WOthers DEF WDone, W!Ended, W!Names
        <3>3. W!Names(x) \cup {W!Source(x)} \subseteq W!Titles
            BY <2>1, WNames
        <3> QED BY <1>1, <2>4, <3>1, <3>2, <3>3, WCommits DEF WDone
    <2> QED BY <2>2, <2>3, <2>4
<1>3. ASSUME ~W!Ingests(x), wPc'[x] \in {"readLog", "log"}
      PROVE  x \in wDone'
    <2>1. CASE x # r
        BY <1>3, <2>1, WOthers DEF WDone
    <2>2. CASE x = r
        <3>1. CASE W!Answer(r) \/ W!SaveReport(r)
            BY <1>3, <2>2, <3>1 DEF W!Answer, W!SaveReport, W!Goto, WTypes
        <3>2. CASE W!ReadLog(r)
            BY <1>3, <2>2, <3>2 DEF W!ReadLog, WDone, W!saved
        <3>3. CASE ~(W!Answer(r) \/ W!SaveReport(r) \/ W!ReadLog(r))
            BY <1>3, <2>2, <3>3 DEF WTypes, W!Serve, W!Dies, W!Ingests, W!AskModel, W!SaveSummary,
                W!NextConcept, W!SaveConcept, W!ListPages, W!SaveIndex, W!SaveLog, W!Commit,
                W!FindOrphans, W!ReadLinks, W!DeadlockVictim, W!Abort, W!Goto
        <3> QED BY <3>1, <3>2, <3>3
    <2> QED BY <2>1, <2>2
<1> QED BY <1>1, <1>2, <1>3 DEF WDone

\* A line once lost stays lost.
LEMMA WLostKept ==
    ASSUME WTypes, NEW r \in WRequests, W!Serve(r) \/ W!Dies(r), NEW s, WLost(s)
    PROVE  WLost(s)'
<1>1. PICK x \in wDone : ~W!Ingests(x) /\ W!Ended(x) /\ s \notin wSeen[x]
    BY DEF WLost
<1>2. x \in WRequests /\ x # r
    BY <1>1, WOthers DEF WTypes, W!Ended
<1>3. x \in wDone' /\ ~W!Ingests(x)' /\ W!Ended(x)' /\ s \notin wSeen'[x]
    BY <1>1, <1>2, WOthers DEF W!Ingests, W!Ended
<1> QED BY <1>3 DEF WLost

\* Only a commit files an ingest; what is filed no longer moves.
LEMMA WFiledKept ==
    ASSUME WTypes, NEW r \in WRequests, W!Serve(r) \/ W!Dies(r), \A x \in WRequests : WDone(x)
    PROVE  /\ W!Filed' = IF W!Commit(r) THEN W!Filed \cup {r} ELSE W!Filed
           /\ \A s \in W!Filed :
                 /\ s \in WRequests /\ s # r /\ ~W!InTransaction(s)
                 /\ W!Names(s)' = W!Names(s) /\ W!Source(s)' = W!Source(s)
<1>1. /\ \A s : s \in W!Filed' <=> s \in wDone' /\ W!Ingests(s)
      /\ \A s : s \in W!Filed <=> s \in wDone /\ W!Ingests(s)
      /\ wDone \subseteq wDone'
    BY WOthers DEF W!Filed, W!Ingests
<1>2. wDone' \subseteq WRequests
    BY WTyped DEF WTypes
<1>3. ASSUME W!Commit(r)
      PROVE  W!Filed' = W!Filed \cup {r}
    <2>1. wDone' = wDone \cup {r} /\ W!Ingests(r)
        BY <1>3 DEF W!Commit, WTypes
    <2>2. \A s : s \in W!Filed' <=> s \in W!Filed \/ s = r
        BY <1>1, <2>1
    <2> QED BY <2>2
<1>4. ASSUME ~W!Commit(r)
      PROVE  W!Filed' = W!Filed
    <2>1. \A s \in WRequests : W!Ingests(s) /\ s \in wDone' => s \in wDone
        BY <1>4, WQuiet
    <2>2. \A s : s \in W!Filed' <=> s \in W!Filed
        BY <1>1, <1>2, <2>1
    <2> QED BY <2>2
<1>5. ASSUME NEW s \in W!Filed
      PROVE  /\ s \in WRequests /\ s # r /\ ~W!InTransaction(s)
             /\ W!Names(s)' = W!Names(s) /\ W!Source(s)' = W!Source(s)
    <2>1. s \in WRequests
        BY DEF W!Filed, WTypes
    <2>2. wPc[s] = "ended"
        BY <2>1 DEF WDone, W!Ended
    <2>3. s # r /\ ~W!InTransaction(s)
        BY <2>2, WOthers DEF W!InTransaction
    <2> QED BY <2>1, <2>3, WOthers DEF W!Names, W!Source
<1> QED BY <1>3, <1>4, <1>1, <1>5

\* Ingests take turns at the log; whoever else writes it loses only what it has
\* not read.
LEMMA WLogKept ==
    ASSUME WTypes, WApart, LogKeepsIngests, NEW r \in WRequests, W!Serve(r) \/ W!Dies(r),
           \A x \in WRequests : WDraft(x) /\ WDone(x) /\ (W!InTransaction(x) => WKeepsLog(x))
    PROVE  /\ LogKeepsIngests'
           /\ \A x \in WRequests : W!InTransaction(x)' => WKeepsLog(x)'
<1>1. \A s \in W!Filed : s \in wText["Log"] \/ WLost(s)
    BY DEF LogKeepsIngests, W!LogKeepsIngests, WLost
<1>2. W!Filed' = {s \in wDone' : W!Ingests(s)}
    BY WOthers DEF W!Filed, W!Ingests
<1>3. ASSUME NEW x \in WRequests, W!InTransaction(x)', x # r
      PROVE  W!InTransaction(x) /\ wPc'[x] = wPc[x] /\ wSeen'[x] = wSeen[x]
    BY <1>3, WOthers DEF W!InTransaction, W!Ingests
<1>4. CASE W!Commit(r)
    <2>1. W!InTransaction(r) /\ ~W!InTransaction(r)' /\ wPc[r] = "commit" /\ wDraft[r]["Index"] = {r}
        BY <1>4, WCommits
    <2>2. wText'["Log"] = wSeen[r] \cup {r} /\ wDone' = wDone \cup {r}
        BY <1>4, WCommits DEF W!Titles
    <2>3. \A s \in W!Filed : s \in wSeen[r] \/ WLost(s)
        BY <2>1 DEF WKeepsLog
    <2>4. \A s \in W!Filed' : s \in wText'["Log"] \/ WLost(s)'
        BY <1>2, <2>2, <2>3, WLostKept DEF W!Filed
    <2>5. ASSUME NEW x \in WRequests, W!InTransaction(x)'
          PROVE  wPc'[x] \notin {"log", "commit"}
        <3>1. x # r
            BY <2>1, <2>5
        <3>2. W!InTransaction(x) /\ wPc'[x] = wPc[x]
            BY <1>3, <2>5, <3>1
        <3>3. wDraft[x]["Index"] = {}
            BY <2>1, <3>1, <3>2 DEF WApart
        <3> QED BY <3>2, <3>3 DEF WDraft
    <2> QED BY <2>4, <2>5 DEF LogKeepsIngests, W!LogKeepsIngests, WLost, WKeepsLog
<1>5. CASE ~W!Commit(r)
    <2>1. \A s \in W!Filed' : s \in W!Filed
        BY <1>5, WFiledKept
    <2>2. ASSUME NEW s \in W!Filed'
          PROVE  s \in wText'["Log"] \/ WLost(s)'
        <3>1. s \in wText["Log"] \/ WLost(s)
            BY <1>1, <2>1
        <3>2. CASE wText'["Log"] = wText["Log"]
            BY <3>1, <3>2, WLostKept
        <3>3. CASE wText'["Log"] # wText["Log"]
            <4>1. W!SaveLog(r) \/ W!SaveReport(r)
                BY <1>5, <3>3 DEF W!Serve, W!Dies, W!AskModel, W!SaveSummary, W!NextConcept,
                    W!SaveConcept, W!ListPages, W!SaveIndex, W!ReadLog, W!Answer, W!FindOrphans,
                    W!ReadLinks, W!DeadlockVictim, W!Abort, W!saved
            <4>2. W!SaveLog(r)
                BY <3>3, <4>1 DEF W!SaveReport, WTypes, W!Titles
            <4>3. /\ ~W!Ingests(r) /\ wPc[r] = "log" /\ wSeen' = wSeen /\ wDone' = wDone
                  /\ wText' = [wText EXCEPT !["Log"] = wSeen[r] \cup {r}]
                  /\ wPc' = [wPc EXCEPT ![r] = "ended"]
                BY <3>3, <4>2 DEF W!SaveLog, W!Abort, W!saved, W!Goto
            <4>4. r \in wDone' /\ ~W!Ingests(r)' /\ W!Ended(r)'
                BY <4>3, WOthers DEF WDone, W!Ingests, W!Ended, WTypes
            <4>5. wText'["Log"] = wSeen[r] \cup {r}
                BY <4>3 DEF WTypes, W!Titles
            <4> QED BY <4>3, <4>4, <4>5 DEF WLost
        <3> QED BY <3>2, <3>3
    <2>3. ASSUME NEW x \in WRequests, W!InTransaction(x)', wPc'[x] \in {"log", "commit"},
                 NEW s \in W!Filed'
          PROVE  s \in wSeen'[x] \/ WLost(s)'
        <3>1. s \in W!Filed
            BY <2>1
        <3>2. CASE x # r
            <4>1. W!InTransaction(x) /\ wPc'[x] = wPc[x] /\ wSeen'[x] = wSeen[x]
                BY <1>3, <2>3, <3>2
            <4> QED BY <2>3, <3>1, <4>1, WLostKept DEF WKeepsLog
        <3>3. CASE x = r
            <4>1. W!Ingests(r)
                BY <2>3, <3>3, WOthers DEF W!InTransaction, W!Ingests
            <4>2. CASE wPc'[r] = "log"
                <5>1. wPc[r] = "readLog" /\ wSeen' = [wSeen EXCEPT ![r] = W!View(r, "Log")]
                    BY <4>1, <4>2, WSteps DEF W!ReadLog
                <5>2. wDraft[r]["Log"] = {}
                    BY <4>1, <5>1 DEF WDraft, W!InTransaction
                <5>3. wSeen'[r] = wText["Log"]
                    BY <5>1, <5>2 DEF W!View, WTypes
                <5> QED BY <1>1, <3>1, <3>3, <5>3, WLostKept
            <4>3. CASE wPc'[r] = "commit"
                <5>1. W!SaveLog(r)
                    BY <4>1, <4>3, WSteps
                <5>2. wPc[r] = "log" /\ wSeen' = wSeen
                    BY <5>1 DEF W!SaveLog, W!Abort
                <5> QED BY <3>1, <3>3, <4>1, <5>2, WLostKept DEF WKeepsLog, W!InTransaction
            <4> QED BY <2>3, <3>3, <4>2, <4>3
        <3> QED BY <3>2, <3>3
    <2> QED BY <2>2, <2>3 DEF LogKeepsIngests, W!LogKeepsIngests, WLost, WKeepsLog
<1> QED BY <1>4, <1>5

\* An ingest lists its own pages and those of every ingest that was done before.
LEMMA WIndexKept ==
    ASSUME WTypes, WApart, IndexIsComplete, NEW r \in WRequests, W!Serve(r) \/ W!Dies(r),
           \A x \in WRequests : WDraft(x) /\ WDone(x) /\ (W!InTransaction(x) => WKeepsIndex(x))
    PROVE  /\ IndexIsComplete'
           /\ \A x \in WRequests : W!InTransaction(x)' => WKeepsIndex(x)'
<1>m. wMet \subseteq wMet'
    BY WOthers
<1>f. /\ W!Filed' = IF W!Commit(r) THEN W!Filed \cup {r} ELSE W!Filed
      /\ \A s \in W!Filed :
            /\ s \in WRequests /\ s # r
            /\ W!Names(s)' = W!Names(s) /\ W!Source(s)' = W!Source(s)
    BY WFiledKept
<1>1. \A s \in W!Filed : \A t \in W!Names(s) \cup {W!Source(s)} :
         t \in wIndex \/ \E x \in W!Filed : {s, x} \in wMet /\ wText["Index"] = {x}
    BY DEF IndexIsComplete, W!IndexIsComplete
<1>2. ASSUME NEW x \in WRequests, W!InTransaction(x)', x # r,
             wPc'[x] \in {"index", "readLog", "log", "commit"}
      PROVE  /\ W!InTransaction(x) /\ W!Names(x)' = W!Names(x) /\ W!Source(x)' = W!Source(x)
             /\ wListing'[x] = wListing[x]
             /\ W!Names(x) \cup {W!Source(x)} \subseteq wListing[x]
             /\ \A s \in W!Filed : {s, x} \in wMet \/ W!Names(s) \cup {W!Source(s)} \subseteq wListing[x]
    <2>1. /\ W!InTransaction(x) /\ W!Names(x)' = W!Names(x) /\ W!Source(x)' = W!Source(x)
          /\ wListing'[x] = wListing[x] /\ wPc'[x] = wPc[x]
        BY <1>2, WOthers DEF W!InTransaction, W!Ingests, W!Names, W!Source
    <2> QED BY <1>2, <2>1 DEF WKeepsIndex
<1>3. CASE W!Commit(r)
    <2>1. /\ W!InTransaction(r) /\ ~W!InTransaction(r)' /\ wPc[r] = "commit"
          /\ wIndex' = wListing[r] /\ wText'["Index"] = {r} /\ wListing' = wListing
        BY <1>3, WCommits DEF W!Titles
    <2>2. /\ W!Names(r) \cup {W!Source(r)} \subseteq wListing[r]
          /\ \A s \in W!Filed : {s, r} \in wMet \/ W!Names(s) \cup {W!Source(s)} \subseteq wListing[r]
        BY <2>1 DEF WKeepsIndex
    <2>3. W!Names(r)' = W!Names(r) /\ W!Source(r)' = W!Source(r)
        BY <1>3, WCommits, WOthers DEF W!Names, W!Source
    <2>4. IndexIsComplete'
        BY <1>3, <1>f, <1>m, <2>1, <2>2, <2>3 DEF IndexIsComplete, W!IndexIsComplete
    <2>5. ASSUME NEW x \in WRequests, W!InTransaction(x)'
          PROVE  WKeepsIndex(x)'
        <3>1. x # r
            BY <2>1, <2>5
        <3>2. W!InTransaction(x)
            BY <2>5, <3>1, WOthers DEF W!InTransaction, W!Ingests
        <3>3. {r, x} \in wMet'
            BY <1>m, <2>1, <3>1, <3>2 DEF WApart
        <3> QED BY <1>2, <1>3, <1>f, <1>m, <2>5, <3>1, <3>3 DEF WKeepsIndex
    <2> QED BY <2>4, <2>5
<1>4. CASE ~W!Commit(r)
    <2>1. W!Filed' = W!Filed /\ wIndex' = wIndex /\ wText'["Index"] = wText["Index"]
        BY <1>4, <1>f, WQuiet
    <2>2. IndexIsComplete'
        BY <1>1, <1>f, <1>m, <2>1 DEF IndexIsComplete, W!IndexIsComplete
    <2>3. ASSUME NEW x \in WRequests, W!InTransaction(x)', x # r
          PROVE  WKeepsIndex(x)'
        BY <1>2, <1>f, <1>m, <2>1, <2>3 DEF WKeepsIndex
    <2>4. ASSUME W!InTransaction(r)', wPc'[r] \in {"index", "readLog", "log", "commit"}
          PROVE  /\ (W!Names(r) \cup {W!Source(r)})' \subseteq wListing'[r]
                 /\ \A s \in W!Filed : {s, r} \in wMet \/ W!Names(s) \cup {W!Source(s)} \subseteq wListing'[r]
        <3>1. W!Ingests(r)
            BY <2>4, WOthers DEF W!InTransaction, W!Ingests
        <3>2. CASE wPc'[r] = "index"
            <4>1. /\ wPc[r] = "pages"
                  /\ wListing' = [wListing EXCEPT ![r] = {t \in W!Titles \ {"Index", "Log"} : W!View(r, t) # {}}]
                BY <3>1, <3>2, WSteps DEF W!ListPages
            <4>2. wListing'[r] = {t \in W!Titles \ {"Index", "Log"} : W!View(r, t) # {}}
                BY <4>1 DEF WTypes
            <4>3. W!InTransaction(r) /\ W!Names(r)' = W!Names(r) /\ W!Source(r)' = W!Source(r)
                BY <3>1, <4>1, WOthers DEF W!InTransaction, W!Names, W!Source
            <4>4. \A t \in W!Names(r) \cup {W!Source(r)} : wDraft[r][t] # {}
                <5>1. WDraft(r) /\ wTodo[r] = <<>>
                    BY <4>1, <4>3 DEF WDraft
                <5>2. DOMAIN wTodo[r] = {}
                    BY <5>1
                <5> QED BY <4>1, <4>3, <5>1, <5>2 DEF WDraft
            <4>5. \A t \in W!Names(r) \cup {W!Source(r)} : t \in wListing'[r]
                BY <3>1, <4>2, <4>4, WNames DEF W!View
            <4>6. ASSUME NEW s \in W!Filed, NEW t \in W!Names(s) \cup {W!Source(s)}
                  PROVE  t \in wListing'[r]
                <5>1. s \in WRequests /\ W!Ingests(s) /\ wText[t] # {}
                    BY <1>f DEF W!Filed, WDone
                <5> QED BY <4>2, <5>1, WNames DEF W!View
            <4> QED BY <4>3, <4>5, <4>6
        <3>3. CASE wPc'[r] # "index"
            <4>1. wPc[r] \in {"index", "readLog", "log"} /\ wListing' = wListing
                BY <2>4, <3>1, <3>3, WSteps DEF W!SaveIndex, W!ReadLog, W!SaveLog, W!Abort
            <4>2. W!InTransaction(r) /\ W!Names(r)' = W!Names(r) /\ W!Source(r)' = W!Source(r)
                BY <3>1, <4>1, WOthers DEF W!InTransaction, W!Names, W!Source
            <4> QED BY <4>1, <4>2 DEF WKeepsIndex
        <3> QED BY <3>2, <3>3
    <2>5. W!InTransaction(r)' => WKeepsIndex(r)'
        BY <1>f, <1>m, <2>1, <2>4 DEF WKeepsIndex
    <2> QED BY <2>2, <2>3, <2>5
<1> QED BY <1>3, <1>4

\* Who may have replaced a text stays filed and keeps its names.
LEMMA WReplacedKept ==
    ASSUME WTypes, NEW r \in WRequests, W!Serve(r) \/ W!Dies(r), \A x \in WRequests : WDone(x),
           NEW s, NEW t, WReplaced(s, t)
    PROVE  WReplaced(s, t)'
<1>1. PICK y \in W!Filed : {s, y} \in wMet /\ t \in W!Names(y)
    BY DEF WReplaced
<1>2. y \in W!Filed' /\ {s, y} \in wMet' /\ t \in W!Names(y)'
    BY <1>1, WFiledKept, WOthers
<1> QED BY <1>2 DEF WReplaced

\* An ingest keeps what was on a concept page, unless it overlaps with its author.
LEMMA WMergesKept ==
    ASSUME WTypes, WApart, MergesAreKept, NEW r \in WRequests, W!Serve(r) \/ W!Dies(r),
           \A x \in WRequests : WDraft(x) /\ WDone(x) /\ (W!InTransaction(x) => WKeepsConcepts(x))
    PROVE  /\ MergesAreKept'
           /\ \A x \in WRequests : W!InTransaction(x)' => WKeepsConcepts(x)'
<1>m. wMet \subseteq wMet'
    BY WOthers
<1>f. /\ W!Filed' = IF W!Commit(r) THEN W!Filed \cup {r} ELSE W!Filed
      /\ \A s \in W!Filed : s \in WRequests /\ s # r /\ W!Names(s)' = W!Names(s)
    BY WFiledKept
<1>k. \A s, t : WReplaced(s, t) => WReplaced(s, t)'
    BY WReplacedKept
<1>1. \A s \in W!Filed : \A t \in W!Names(s) : s \in wText[t] \/ WReplaced(s, t)
    BY DEF MergesAreKept, W!MergesAreKept, WReplaced
<1>2. ASSUME NEW x \in WRequests, W!InTransaction(x)', x # r
      PROVE  /\ W!InTransaction(x) /\ wPc'[x] = wPc[x] /\ wDraft'[x] = wDraft[x]
             /\ wSeen'[x] = wSeen[x] /\ wTodo'[x] = wTodo[x] /\ WKeepsConcepts(x)
    <2>1. W!InTransaction(x)
        BY <1>2, WOthers DEF W!InTransaction, W!Ingests
    <2> QED BY <1>2, <2>1, WOthers
<1>3. CASE W!Commit(r)
    <2>1. /\ W!InTransaction(r) /\ ~W!InTransaction(r)'
          /\ \A t \in W!Titles : wText'[t] = IF wDraft[r][t] # {} THEN wDraft[r][t] ELSE wText[t]
          /\ \A t \in W!Names(r) : wDraft[r][t] # {}
        BY <1>3, WCommits
    <2>2. W!Names(r)' = W!Names(r)
        BY <1>3, WCommits DEF W!Names
    <2>3. \A s \in W!Filed \cup {r} : W!Names(s) \subseteq WConcepts
        BY <1>f, WNames
    <2>4. WConcepts \subseteq W!Titles
        BY DEF W!Titles, W!Knowledge
    <2>5. ASSUME NEW s \in W!Filed, NEW t \in W!Names(s)
          PROVE  s \in wText'[t] \/ WReplaced(s, t)'
        <3>1. t \in W!Titles /\ t \in WConcepts
            BY <2>3, <2>4
        <3>2. CASE wDraft[r][t] = {}
            BY <1>1, <1>k, <2>1, <3>1, <3>2
        <3>3. CASE wDraft[r][t] # {}
            <4>1. s \in wDraft[r][t] \/ {s, r} \in wMet \/ WReplaced(s, t)
                BY <2>1, <3>1, <3>3 DEF WKeepsConcepts
            <4>2. {s, r} \in wMet => WReplaced(s, t)'
                <5>0. t \in W!Names(r)
                    BY <2>1, <3>1, <3>3 DEF WDraft
                <5>1. t \in W!Names(r)'
                    BY <2>2, <5>0
                <5> QED BY <1>3, <1>f, <1>m, <5>1 DEF WReplaced
            <4> QED BY <1>k, <2>1, <3>1, <3>3, <4>1, <4>2
        <3> QED BY <3>2, <3>3
    <2>6. \A t \in W!Names(r) : r \in wText'[t]
        BY <2>1, <2>3, <2>4 DEF WKeepsConcepts
    <2>7. MergesAreKept'
        <3>1. \A s \in W!Filed' : \A t \in W!Names(s)' : s \in wText'[t] \/ WReplaced(s, t)'
            BY <1>3, <1>f, <2>2, <2>5, <2>6
        <3> QED BY <3>1 DEF MergesAreKept, W!MergesAreKept, WReplaced
    <2>8. ASSUME NEW x \in WRequests, W!InTransaction(x)'
          PROVE  WKeepsConcepts(x)'
        <3>1. x # r
            BY <2>1, <2>8
        <3>2. {r, x} \in wMet'
            BY <1>2, <1>m, <2>1, <2>8, <3>1 DEF WApart
        <3> QED BY <1>2, <1>3, <1>f, <1>k, <1>m, <2>8, <3>1, <3>2 DEF WKeepsConcepts
    <2> QED BY <2>7, <2>8
<1>4. CASE ~W!Commit(r)
    <2>1. W!Filed' = W!Filed /\ \A t \in WConcepts : wText'[t] = wText[t]
        BY <1>4, <1>f, WQuiet
    <2>2. \A s \in W!Filed : W!Names(s) \subseteq WConcepts
        BY <1>f, WNames
    <2>3. MergesAreKept'
        <3>1. \A s \in W!Filed' : \A t \in W!Names(s)' : s \in wText'[t] \/ WReplaced(s, t)'
            BY <1>1, <1>4, <1>f, <1>k, <2>1, <2>2
        <3> QED BY <3>1 DEF MergesAreKept, W!MergesAreKept, WReplaced
    <2>4. ASSUME NEW x \in WRequests, W!InTransaction(x)', x # r
          PROVE  WKeepsConcepts(x)'
        BY <1>2, <1>f, <1>k, <1>m, <2>1, <2>4 DEF WKeepsConcepts
    <2>5. ASSUME W!InTransaction(r)'
          PROVE  WKeepsConcepts(r)'
        <3>1. W!Ingests(r)
            BY <2>5, WOthers DEF W!InTransaction, W!Ingests
        <3>2. wPc[r] # "start" => W!InTransaction(r) /\ WKeepsConcepts(r)
            BY <3>1, WOthers DEF W!InTransaction
        <3>3. ASSUME NEW t \in WConcepts, NEW d,
                     d # {} => /\ r \in d
                               /\ \A s \in W!Filed : t \in W!Names(s) => s \in d \/ {s, r} \in wMet \/ WReplaced(s, t)
              PROVE  d # {} => /\ r \in d
                               /\ \A s \in W!Filed' : t \in W!Names(s)' => s \in d \/ {s, r} \in wMet' \/ WReplaced(s, t)'
            BY <1>f, <1>k, <1>m, <2>1, <3>3
        <3>4. CASE wPc'[r] = "merge"
            <4>1. W!NextConcept(r)
                BY <3>1, <3>4, WSteps
            <4>2. PICK h : h = Head(wTodo[r])
                OBVIOUS
            <4>3. /\ wPc[r] = "concept" /\ wDraft' = wDraft /\ wTodo' = wTodo /\ wTodo[r] # <<>>
                  /\ wSeen' = [wSeen EXCEPT ![r] = W!View(r, h)]
                BY <3>4, <4>1, <4>2, WAfter DEF W!NextConcept, W!Goto, WTypes
            <4>4. wSeen'[r] = IF wDraft[r][h] # {} THEN wDraft[r][h] ELSE wText[h]
                BY <4>3 DEF W!View, WTypes
            <4>5. h \in WConcepts
                BY <4>2, <4>3, WTails DEF WTypes
            <4>6. WKeepsConcepts(r)
                BY <3>2, <4>3
            <4>7. \A s \in W!Filed : h \in W!Names(s)
                     => s \in wSeen'[r] \/ {s, r} \in wMet \/ WReplaced(s, h)
                BY <1>1, <4>4, <4>5, <4>6 DEF WKeepsConcepts
            <4>8. \A s \in W!Filed' : h \in W!Names(s)'
                     => s \in wSeen'[r] \/ {s, r} \in wMet' \/ WReplaced(s, h)'
                BY <1>f, <1>k, <1>m, <2>1, <4>7
            <4>9. \A t \in WConcepts : wDraft'[r][t] # {} =>
                     /\ r \in wDraft'[r][t]
                     /\ \A s \in W!Filed' : t \in W!Names(s)'
                           => s \in wDraft'[r][t] \/ {s, r} \in wMet' \/ WReplaced(s, t)'
                BY <3>3, <4>3, <4>6 DEF WKeepsConcepts
            <4> QED BY <4>2, <4>3, <4>8, <4>9 DEF WKeepsConcepts
        <3>5. CASE W!SaveConcept(r) /\ wPc'[r] # "merge"
            <4>1. PICK h : h = Head(wTodo[r])
                OBVIOUS
            <4>2. /\ wPc[r] = "merge"
                  /\ wDraft' = [wDraft EXCEPT ![r][h] = wSeen[r] \cup {r}]
                BY <2>5, <3>5, <4>1, WOthers DEF W!SaveConcept, W!Abort, W!Goto, W!Write, W!Merged, WTypes,
                    W!InTransaction
            <4>3. WKeepsConcepts(r)
                BY <3>2, <4>2
            <4>4. \A t \in W!Titles : wDraft'[r][t] = IF t = h THEN wSeen[r] \cup {r} ELSE wDraft[r][t]
                BY <4>2 DEF WTypes
            <4>5. \A t \in WConcepts : wDraft'[r][t] # {} =>
                     /\ r \in wDraft'[r][t]
                     /\ \A s \in W!Filed : t \in W!Names(s)
                           => s \in wDraft'[r][t] \/ {s, r} \in wMet \/ WReplaced(s, t)
                BY <4>1, <4>2, <4>3, <4>4 DEF WKeepsConcepts, W!Titles, W!Knowledge
            <4> QED BY <3>3, <3>5, <4>5 DEF WKeepsConcepts
        <3>6. CASE ~W!SaveConcept(r) /\ wPc'[r] # "merge"
            <4>1. \A t \in WConcepts : wDraft'[r][t] # {} => wDraft'[r][t] = wDraft[r][t] /\ wPc[r] # "start"
                <5>1. CASE W!AskModel(r)
                    BY <5>1 DEF W!AskModel, WDraft, W!InTransaction, W!Titles, W!Knowledge
                <5>2. CASE W!SaveSummary(r)
                    <6>1. wPc[r] = "summary" /\ wDraft' = [wDraft EXCEPT ![r][W!Source(r)] = {r}]
                        BY <5>2 DEF W!SaveSummary, W!Write
                    <6> QED BY <3>1, <6>1, WNames DEF WTypes, W!Titles, W!Knowledge
                <5>3. CASE W!SaveIndex(r) \/ W!SaveLog(r)
                    <6>1. /\ wPc[r] \in {"index", "log"}
                          /\ \/ \E t \in {"Index", "Log"} : \E d : wDraft' = [wDraft EXCEPT ![r][t] = d]
                             \/ wDraft' = [wDraft EXCEPT ![r] = W!Nothing]
                        BY <3>1, <5>3 DEF W!SaveIndex, W!SaveLog, W!Abort, W!Write
                    <6> QED BY <6>1, WNames DEF WTypes, W!Titles, W!Knowledge, W!Nothing
                <5>4. CASE W!NextConcept(r) \/ W!ListPages(r) \/ W!ReadLog(r)
                    BY <5>4 DEF W!NextConcept, W!ListPages, W!ReadLog
                <5>5. CASE W!DeadlockVictim(r) \/ W!Dies(r)
                    BY <5>5 DEF W!DeadlockVictim, W!Dies, W!Abort, W!Nothing, WTypes, W!Titles, W!Knowledge
                <5> QED BY <1>4, <3>1, <3>6, <5>1, <5>2, <5>3, <5>4, <5>5 DEF W!Serve, W!Answer,
                        W!FindOrphans, W!ReadLinks, W!SaveReport, W!Ingests, WTypes
            <4>2. \A t \in WConcepts : wDraft'[r][t] # {} =>
                     /\ r \in wDraft'[r][t]
                     /\ \A s \in W!Filed : t \in W!Names(s)
                           => s \in wDraft'[r][t] \/ {s, r} \in wMet \/ WReplaced(s, t)
                BY <3>2, <4>1 DEF WKeepsConcepts
            <4> QED BY <3>3, <3>6, <4>2 DEF WKeepsConcepts
        <3> QED BY <3>4, <3>5, <3>6
    <2> QED BY <2>3, <2>4, <2>5
<1> QED BY <1>3, <1>4

\* Every step of every request keeps the invariant.
LEMMA WKept ==
    ASSUME WInv, NEW r \in WRequests, W!Serve(r) \/ W!Dies(r)
    PROVE  WInv'
<1>1. WTypes' /\ WApart'
    BY WTyped, WApartKept DEF WInv
<1>2. \A x \in WRequests : WDraft(x)' /\ WDone(x)'
    BY WDraftKept, WDoneKept DEF WInv
<1>3. LogKeepsIngests' /\ \A x \in WRequests : W!InTransaction(x)' => WKeepsLog(x)'
    BY WLogKept DEF WInv
<1>4. IndexIsComplete' /\ \A x \in WRequests : W!InTransaction(x)' => WKeepsIndex(x)'
    BY WIndexKept DEF WInv
<1>5. MergesAreKept' /\ \A x \in WRequests : W!InTransaction(x)' => WKeepsConcepts(x)'
    BY WMergesKept DEF WInv
<1> QED BY <1>1, <1>2, <1>3, <1>4, <1>5 DEF WInv

\* The inductive invariant of the wiki.
LEMMA WikiInvariant == Spec => []WInv
<1>1. Init => WInv
    <2> SUFFICES ASSUME Init PROVE WInv
        OBVIOUS
    <2>1. W!Init
        BY DEF Init
    <2>2. <<>> \in WLists
        BY DEF WLists
    <2>3. WTypes
        BY <2>1, <2>2 DEF W!Init, W!Nothing, WTypes
    <2>4. \A r \in WRequests : ~W!InTransaction(r) /\ W!Filed = {} /\ wPc[r] = "start"
        BY <2>1 DEF W!Init, W!InTransaction, W!Filed
    <2>5. \A r \in WRequests, t \in W!Titles : wDraft[r][t] = {}
        BY <2>1 DEF W!Init, W!Nothing
    <2>6. W!Filed = {}
        BY <2>1 DEF W!Init, W!Filed
    <2> QED BY <2>3, <2>4, <2>5, <2>6 DEF WInv, WApart, WDraft, WDone, MergesAreKept, W!MergesAreKept,
            IndexIsComplete, W!IndexIsComplete, LogKeepsIngests, W!LogKeepsIngests
<1>2. WInv /\ [Next]_vars => WInv'
    <2> SUFFICES ASSUME WInv, [Next]_vars PROVE WInv'
        OBVIOUS
    <2>1. CASE WikiMoves
        BY <2>1, WKept DEF WikiMoves, W!Next
    <2>2. CASE UNCHANGED wVars
        <3> USE <2>2 DEF wVars
        <3>1. WTypes' /\ W!Titles' = W!Titles
            BY DEF WInv, WTypes, W!Titles, W!Knowledge, W!Ingests
        <3>2. /\ \A r : W!InTransaction(r)' = W!InTransaction(r) /\ W!Names(r)' = W!Names(r)
              /\ \A r : W!Source(r)' = W!Source(r) /\ W!Ended(r)' = W!Ended(r) /\ W!Ingests(r)' = W!Ingests(r)
            BY DEF W!InTransaction, W!Names, W!Source, W!Ended, W!Ingests
        <3>3. W!Filed' = W!Filed
            BY DEF W!Filed, W!Ingests
        <3>4. /\ \A s : WLost(s)' = WLost(s)
              /\ \A s, t : WReplaced(s, t)' = WReplaced(s, t)
            BY <3>2, <3>3 DEF WLost, WReplaced
        <3>5. \A x \in WRequests : WDraft(x)' /\ WDone(x)'
            BY <3>1, <3>2, <3>3 DEF WInv, WDraft, WDone
        <3>6. \A x \in WRequests : W!InTransaction(x)' => WKeepsLog(x)' /\ WKeepsIndex(x)' /\ WKeepsConcepts(x)'
            BY <3>2, <3>3, <3>4 DEF WInv, WKeepsLog, WKeepsIndex, WKeepsConcepts
        <3>7. WApart' /\ MergesAreKept' /\ IndexIsComplete' /\ LogKeepsIngests'
            BY <3>2, <3>3 DEF WInv, WApart, MergesAreKept, W!MergesAreKept, IndexIsComplete,
                W!IndexIsComplete, LogKeepsIngests, W!LogKeepsIngests
        <3> QED BY <3>1, <3>5, <3>6, <3>7 DEF WInv
    <2>3. CASE DocumentsMove \/ ApprovalsMove \/ StockMoves \/ InvoicesMove \/ YearMoves \/ BankMoves
                 \/ EInvoicesMove
        BY <2>2, <2>3 DEF DocumentsMove, ApprovalsMove, StockMoves, InvoicesMove, YearMoves, BankMoves,
            EInvoicesMove
    <2>4. CASE UNCHANGED vars
        BY <2>2, <2>4 DEF vars
    <2> QED BY <2>1, <2>3, <2>4 DEF Next
<1> QED BY <1>1, <1>2, PTL DEF Spec

\* What an ingest has added to a concept page is lost only to an ingest that
\* overlapped with it and named the same concept.
THEOREM WikiKeepsMerges == Spec => []MergesAreKept
<1>1. WInv => MergesAreKept
    BY DEF WInv
<1> QED BY <1>1, WikiInvariant, PTL

\* The index misses only pages of ingests that overlapped with its writer.
THEOREM WikiIndexIsComplete == Spec => []IndexIsComplete
<1>1. WInv => IndexIsComplete
    BY DEF WInv
<1> QED BY <1>1, WikiInvariant, PTL

\* Ingests never lose each other's lines in the log; a question or a health check
\* that had read the log before may.
THEOREM WikiKeepsLog == Spec => []LogKeepsIngests
<1>1. WInv => LogKeepsIngests
    BY DEF WInv
<1> QED BY <1>1, WikiInvariant, PTL
=============================================================================
