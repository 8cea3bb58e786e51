----------------------------- MODULE Documents -----------------------------
(***************************************************************************)
(* A document of the knowledge base, the requests of its owner and the     *)
(* tasks that cut it into chunks with embedding vectors.  Outside the one  *)
(* transaction that stores them every statement commits by itself.         *)
(*                                                                         *)
(* The queue delivers a task again when an attempt fails, when its worker  *)
(* is killed, and also while a worker still runs it: in production a task  *)
(* may run for 300 s and is delivered again after 120 s.                   *)
(* What an attempt stores is one copy of the chunks and their vectors.     *)
(***************************************************************************)
EXTENDS Naturals, FiniteSets

CONSTANTS
    Requests,     \* requests of the owner; each enqueues at most one task
    Workers,      \* workers of the queue cluster
    Plans,        \* what the requests do
    MaxAttempts,  \* failed attempts after which the queue gives a task up
    MaxFaults,    \* bound: workers killed and tasks delivered while they run
    NoTask        \* what an idle worker runs

\* Every upload inserts a document of its own: one request uploads this one.
DocumentSets ==
    /\ IsFiniteSet(Requests) /\ IsFiniteSet(Workers)
    /\ Plans \subseteq [Requests -> {"upload", "reprocess", "delete"}]
    /\ \A plan \in Plans : \A q, x \in Requests :
           plan[q] = "upload" /\ plan[x] = "upload" => q = x
    /\ MaxAttempts \in Nat \ {0} /\ MaxFaults \in Nat

VARIABLES
    job,        \* the plan being carried out
    status,     \* status of the document; "absent" before, "deleted" after
    queue,      \* tasks not acknowledged
    failures,   \* task -> failed attempts
    chunks,     \* copies of the chunks that are stored
    vectors,    \* copies of their embedding vectors
    attempted,  \* some task has been delivered
    faults,     \* workers killed and tasks delivered twice so far
    overlapped, \* an attempt began beside another, or did not clear what was there
    at,         \* worker -> its task, or NoTask
    pc,         \* request -> what it does next
    step        \* worker -> what it does next

store == <<status, queue, chunks, vectors>>
vars  == <<job, store, failures, attempted, faults, overlapped, at, pc, step>>

Init ==
    /\ job \in Plans
    /\ status     = "absent"
    /\ queue      = {}
    /\ failures   = [t \in Requests |-> 0]
    /\ chunks     = 0
    /\ vectors    = 0
    /\ attempted  = FALSE
    /\ faults     = 0
    /\ overlapped = FALSE
    /\ at         = [w \in Workers |-> NoTask]
    /\ pc         = [q \in Requests |-> "start"]
    /\ step       = [w \in Workers |-> "idle"]

Exists == status \notin {"absent", "deleted"}
Do(q, label)   == pc' = [pc EXCEPT ![q] = label]
Turn(w, label) == step' = [step EXCEPT ![w] = label]

(***************************************************************************)
(* Requests.                                                               *)
(***************************************************************************)
Upload(q) ==
    /\ pc[q] = "start" /\ job[q] = "upload"
    /\ status' = "pending"
    /\ Do(q, "enqueue")
    /\ UNCHANGED <<job, queue, chunks, vectors, failures, attempted, faults, overlapped, at, step>>

\* The view loads the document, whatever its status, and resets it.
Reprocess(q) ==
    /\ pc[q] = "start" /\ job[q] = "reprocess" /\ status # "absent"
    /\ IF Exists THEN status' = "pending" /\ Do(q, "enqueue")
                 ELSE Do(q, "ended") /\ UNCHANGED status
    /\ UNCHANGED <<job, queue, chunks, vectors, failures, attempted, faults, overlapped, at, step>>

\* The broker may refuse the task; the views suppress that.
Enqueue(q) ==
    /\ pc[q] = "enqueue"
    /\ queue' \in {queue, queue \cup {q}}
    /\ Do(q, "ended")
    /\ UNCHANGED <<job, status, chunks, vectors, failures, attempted, faults, overlapped, at, step>>

\* delete_document_data, then the document.
DeleteVectors(q) ==
    /\ pc[q] = "start" /\ job[q] = "delete" /\ status # "absent"
    /\ IF Exists THEN vectors' = 0 /\ Do(q, "deleteChunks")
                 ELSE Do(q, "ended") /\ UNCHANGED vectors
    /\ UNCHANGED <<job, status, queue, chunks, failures, attempted, faults, overlapped, at, step>>

DeleteChunks(q) ==
    /\ pc[q] = "deleteChunks"
    /\ chunks' = 0 /\ vectors' = 0
    /\ Do(q, "deleteDocument")
    /\ UNCHANGED <<job, status, queue, failures, attempted, faults, overlapped, at, step>>

NoCascade(n) == n  \* mutant
Cascade(n) == 0

DeleteDocument(q) ==
    /\ pc[q] = "deleteDocument"
    /\ status'  = "deleted"
    /\ chunks'  = Cascade(chunks)
    /\ vectors' = Cascade(vectors)
    /\ Do(q, "ended")
    /\ UNCHANGED <<job, queue, failures, attempted, faults, overlapped, at, step>>

(***************************************************************************)
(* Workers.                                                                *)
(***************************************************************************)
Busy(w) == step[w] # "idle"

Deliver(w, t) ==
    /\ step[w] = "idle"
    /\ t \in queue
    /\ faults' = faults + (IF \E v \in Workers : at[v] = t THEN 1 ELSE 0)
    /\ faults' <= MaxFaults
    /\ attempted' = TRUE
    /\ at' = [at EXCEPT ![w] = t]
    /\ overlapped' = (overlapped \/ (\E v \in Workers : Busy(v))
                                 \/ (job[t] = "upload" /\ attempted))
    /\ Turn(w, IF job[t] = "reprocess" THEN "clearVectors" ELSE "begin")
    /\ UNCHANGED <<job, store, failures, pc>>

\* reprocess_document clears first, process_document does not.
ClearVectors(w) ==
    /\ step[w] = "clearVectors"
    /\ vectors' = 0
    /\ Turn(w, "clearChunks")
    /\ UNCHANGED <<job, status, queue, chunks, failures, attempted, faults, overlapped, at, pc>>

Keeps(n) == n  \* mutant
Cleared(n) == 0

ClearChunks(w) ==
    /\ step[w] = "clearChunks"
    /\ chunks' = Cleared(chunks) /\ vectors' = 0
    /\ Turn(w, "begin")
    /\ UNCHANGED <<job, status, queue, failures, attempted, faults, overlapped, at, pc>>

\* A document that is gone raises at once, and is not marked as failed.
Begin(w) ==
    /\ step[w] = "begin"
    /\ status' = IF Exists THEN "processing" ELSE status
    /\ \/ Exists /\ Turn(w, "store")
       \/ Turn(w, "fail")      \* no text, no configuration, no embedding
    /\ UNCHANGED <<job, queue, chunks, vectors, failures, attempted, faults, overlapped, at, pc>>

\* One transaction; the foreign key refuses chunks of a deleted document.
StoreAll(w) ==
    /\ step[w] = "store"
    /\ IF Exists THEN /\ chunks'  = chunks + 1
                      /\ vectors' = vectors + 1
                      /\ Turn(w, "mark")
                 ELSE Turn(w, "fail") /\ UNCHANGED <<chunks, vectors>>
    /\ UNCHANGED <<job, status, queue, failures, attempted, faults, overlapped, at, pc>>

MarkProcessed(w) ==
    /\ step[w] = "mark"
    /\ status' = IF Exists THEN "processed" ELSE status
    /\ Turn(w, IF Exists THEN "ack" ELSE "fail")
    /\ UNCHANGED <<job, queue, chunks, vectors, failures, attempted, faults, overlapped, at, pc>>

\* status is saved, the exception raised again; the queue counts the failure.
LeavesProcessing(s) == s  \* mutant
AfterFailure(s) == "failed"

Fail(w) ==
    LET t == at[w] IN
    /\ step[w] = "fail"
    /\ status' = IF Exists THEN AfterFailure(status) ELSE status
    /\ failures' = [failures EXCEPT ![t] = @ + 1]
    /\ queue' = IF failures[t] + 1 >= MaxAttempts THEN queue \ {t} ELSE queue
    /\ at' = [at EXCEPT ![w] = NoTask]
    /\ Turn(w, "idle")
    /\ UNCHANGED <<job, chunks, vectors, attempted, faults, overlapped, pc>>

Acknowledge(w) ==
    /\ step[w] = "ack"
    /\ queue' = queue \ {at[w]}
    /\ at' = [at EXCEPT ![w] = NoTask]
    /\ Turn(w, "idle")
    /\ UNCHANGED <<job, status, chunks, vectors, failures, attempted, faults, overlapped, pc>>

\* The cluster kills a worker that takes too long, or it dies.
Die(w) ==
    /\ Busy(w) /\ faults < MaxFaults
    /\ faults' = faults + 1
    /\ at' = [at EXCEPT ![w] = NoTask]
    /\ Turn(w, "idle")
    /\ UNCHANGED <<job, store, failures, attempted, overlapped, pc>>

Request(q) ==
    \/ Upload(q) \/ Reprocess(q) \/ Enqueue(q)
    \/ DeleteVectors(q) \/ DeleteChunks(q) \/ DeleteDocument(q)

Work(w) ==
    \/ \E t \in Requests : Deliver(w, t)
    \/ ClearVectors(w) \/ ClearChunks(w) \/ Begin(w) \/ StoreAll(w) \/ MarkProcessed(w)
    \/ Fail(w) \/ Acknowledge(w)

Next == (\E q \in Requests : Request(q)) \/ (\E w \in Workers : Work(w) \/ Die(w))

Spec == Init /\ [][Next]_vars

-----------------------------------------------------------------------------
\* A deleted document leaves no chunk and no vector behind, although tasks may
\* be storing some while it is being deleted.
NothingAfterDeletion == status = "deleted" => chunks = 0 /\ vectors = 0

\* When all work is done, a processed document has one copy of its chunks and a
\* vector for each, and a failed one was not left half stored: whatever killed
\* attempts have left, while attempts come one after the other and only the first
\* does not clear.  (A retry of process_document, or a second worker, stores a
\* second copy.)
AtRest == queue = {} /\ (\A w \in Workers : ~Busy(w))
                     /\ \A q \in Requests : pc[q] \in {"start", "ended"}
ProcessedIsSearchable ==
    AtRest /\ ~overlapped => /\ vectors = chunks
                             /\ status = "processed" => chunks = 1
                             /\ status = "failed" => chunks = 0

\* No document stays "processing" for ever, although workers are killed
\* (MaxFaults times) and attempts fail: nobody polls its status in vain.  (Two
\* attempts at one task may: one finishes it, the other begins again and dies.)
AttemptSettles == status = "processing" ~> status # "processing" \/ overlapped
=============================================================================
