-------------------------------- MODULE Wiki --------------------------------
(***************************************************************************)
(* The wiki of one user in one company.  A source is ingested by asking a  *)
(* language model for a summary and for concepts, and then, in one         *)
(* transaction, saving the summary, adding to the concept pages, rewriting *)
(* the index and adding a line to the log.  Questions and health checks    *)
(* add lines to the same log, each statement committing by itself.         *)
(*                                                                         *)
(* What a page says is the set of requests whose text it contains.  The    *)
(* summary page of a source is named by the source.  Transactions are READ *)
(* COMMITTED; a written or inserted page is locked until its writer ends.  *)
(***************************************************************************)
EXTENDS Naturals, FiniteSets, Sequences

CONSTANTS
    Requests,
    Sources,    \* documents and notes
    Files,      \* those of them that are documents
    Concepts,   \* titles the model may give to concept and entity pages
    Answers,    \* sequences of titles it may answer with
    Plans,      \* what the requests do
    Past        \* questions asked before, whose lines the log may have

Knowledge == Sources \cup Concepts
Titles    == Knowledge \cup {"Index", "Log", "Report"}

\* The model takes no title of a summary, or of the wiki's own pages, for a concept.
WikiSets ==
    /\ IsFiniteSet(Requests) /\ Files \subseteq Sources
    /\ Sources \cap Concepts = {} /\ Knowledge \cap {"Index", "Log", "Report"} = {}
    /\ Answers \subseteq Seq(Concepts)
    /\ \A p \in Plans : /\ DOMAIN p = Requests
                        /\ \A r \in Requests : p[r].op = "ingest" => p[r].source \in Sources

VARIABLES
    job,      \* the plan being carried out
    text,     \* title -> requests whose text the page has, {} when there is none
    index,    \* pages that the index lists
    cited,    \* page -> source_refs
    links,    \* linked_pages, each link the set of its two pages
    orphans,  \* pages that the health report calls orphans
    done,     \* requests that have had their effect
    met,      \* pairs of ingests whose transactions have overlapped
    pc,       \* request -> what it does next
    found,    \* request -> titles the language model has answered with
    todo,     \* request -> those of them still to be saved
    seen,     \* request -> text of the page it has read
    listing,  \* request -> pages it has read
    draft     \* request -> title -> text it has written and not committed

saved  == <<text, index, cited, links, orphans, done>>
locals == <<found, todo, seen, listing, draft>>
vars   == <<job, saved, met, pc, locals>>

Nothing == [t \in Titles |-> {}]

Init ==
    /\ job \in Plans
    /\ text \in {Nothing, [Nothing EXCEPT !["Log"] = Past]}
    /\ index = {} /\ links = {} /\ orphans = {} /\ done = {} /\ met = {}
    /\ cited   = [t \in Knowledge |-> {}]
    /\ pc      = [r \in Requests |-> "start"]
    /\ found   = [r \in Requests |-> <<>>]
    /\ todo    = found
    /\ seen    = [r \in Requests |-> {}]
    /\ listing = seen
    /\ draft   = [r \in Requests |-> Nothing]

Goto(r, label)  == pc' = [pc EXCEPT ![r] = label]
Ingests(r)      == job[r].op = "ingest"
Source(r)       == job[r].source
Ended(r)        == pc[r] = "ended"
InTransaction(r) == Ingests(r) /\ pc[r] \notin {"start", "ended"}

\* A page as the transaction of r sees it.
View(r, t)  == IF draft[r][t] # {} THEN draft[r][t] ELSE text[t]
Free(r, t)  == \A x \in Requests \ {r} : draft[x][t] = {}
Write(r, t, content) == draft' = [draft EXCEPT ![r][t] = content]

Abort(r) ==
    /\ draft' = [draft EXCEPT ![r] = Nothing]
    /\ Goto(r, "ended")
    /\ UNCHANGED <<job, saved, met, found, todo, seen, listing>>

(***************************************************************************)
(* ingest_document, ingest_note.                                           *)
(***************************************************************************)
LogReadFirst == <<"summary", "concept", "readLog", "pages", "index", "log", "commit">>  \* mutant
IndexedFirst == <<"summary", "pages", "index", "concept", "readLog", "log", "commit">>  \* mutant
Order == <<"summary", "concept", "pages", "index", "readLog", "log", "commit">>
After(label) == Order[1 + CHOOSE i \in DOMAIN Order : Order[i] = label]

\* No source, no configuration or no answer: the task fails.  An answer that
\* does not parse names no concepts.
AskModel(r) ==
    /\ pc[r] = "start" /\ Ingests(r)
    /\ \/ Goto(r, "ended") /\ UNCHANGED <<met, found, todo>>
       \/ \E answer \in Answers :
             /\ found' = [found EXCEPT ![r] = answer]
             /\ todo'  = [todo EXCEPT ![r] = answer]
             /\ met'   = met \cup {{r, x} : x \in {y \in Requests : InTransaction(y)}}
             /\ Goto(r, "summary")
    /\ UNCHANGED <<job, saved, seen, listing, draft>>

\* update_or_create: the text of an earlier ingest is replaced.
SaveSummary(r) ==
    /\ pc[r] = "summary" /\ Free(r, Source(r))
    /\ Write(r, Source(r), {r})
    /\ Goto(r, After("summary"))
    /\ UNCHANGED <<job, saved, met, found, todo, seen, listing>>

NextConcept(r) ==
    /\ pc[r] = "concept"
    /\ IF todo[r] = <<>>
       THEN Goto(r, After("concept")) /\ UNCHANGED seen
       ELSE Goto(r, "merge") /\ seen' = [seen EXCEPT ![r] = View(r, Head(todo[r]))]
    /\ UNCHANGED <<job, saved, met, found, todo, listing, draft>>

\* The page was not there when it was looked for, and is there now.
Conflicts(r, t) == seen[r] = {} /\ text[t] # {}

Replaced(old, r) == {r}  \* mutant
Merged(old, r) == old \cup {r}

SaveConcept(r) ==
    LET t == Head(todo[r]) IN
    /\ pc[r] = "merge" /\ Free(r, t)
    /\ IF Conflicts(r, t)
       THEN Abort(r)
       ELSE /\ Write(r, t, Merged(seen[r], r))
            /\ todo' = [todo EXCEPT ![r] = Tail(@)]
            /\ Goto(r, "concept")
            /\ UNCHANGED <<job, saved, met, found, seen, listing>>

\* maintain_index_page: the pages are listed first, then the index is written.
ListPages(r) ==
    /\ pc[r] = "pages"
    /\ listing' = [listing EXCEPT ![r] = {t \in Titles \ {"Index", "Log"} : View(r, t) # {}}]
    /\ Goto(r, After("pages"))
    /\ UNCHANGED <<job, saved, met, found, todo, seen, draft>>

SaveIndex(r) ==
    /\ pc[r] = "index" /\ Free(r, "Index")
    /\ Write(r, "Index", {r})
    /\ Goto(r, After("index"))
    /\ UNCHANGED <<job, saved, met, found, todo, seen, listing>>

\* append_log_entry, here and for questions and health checks.
ReadLog(r) ==
    /\ pc[r] = "readLog"
    /\ seen' = [seen EXCEPT ![r] = View(r, "Log")]
    /\ Goto(r, IF Ingests(r) THEN After("readLog") ELSE "log")
    /\ UNCHANGED <<job, saved, met, found, todo, listing, draft>>

SaveLog(r) ==
    /\ pc[r] = "log" /\ Free(r, "Log")
    /\ IF Conflicts(r, "Log")
       THEN Abort(r)
       ELSE /\ IF Ingests(r)
               THEN Write(r, "Log", seen[r] \cup {r}) /\ UNCHANGED text
               ELSE text' = [text EXCEPT !["Log"] = seen[r] \cup {r}] /\ UNCHANGED draft
            /\ Goto(r, IF Ingests(r) THEN After("log") ELSE "ended")
            /\ UNCHANGED <<job, index, cited, links, orphans, done, met, found, todo, seen, listing>>

\* source_refs and linked_pages become visible with the pages.
Commit(r) ==
    LET s == Source(r) IN
    /\ pc[r] = "commit"
    /\ text'  = [t \in Titles |-> View(r, t)]
    /\ index' = listing[r]
    /\ cited' = [t \in Knowledge |->
                    cited[t] \cup (IF draft[r][t] # {} THEN {s} \cap Files ELSE {})]
    /\ links' = links \cup {{s, found[r][i]} : i \in DOMAIN found[r]}
    /\ done'  = done \cup {r}
    /\ draft' = [draft EXCEPT ![r] = Nothing]
    /\ Goto(r, "ended")
    /\ UNCHANGED <<job, orphans, met, found, todo, seen, listing>>

(***************************************************************************)
(* answer_question and lint_wiki.                                          *)
(***************************************************************************)
\* Without a configuration or an answer the question fails.  (Which pages,
\* chunks and notes it is answered from is left out.)  Then the answer is saved.
Answer(r) ==
    /\ pc[r] = "start" /\ job[r].op = "ask"
    /\ \/ Goto(r, "ended") /\ UNCHANGED done
       \/ Goto(r, "readLog") /\ done' = done \cup {r}
    /\ UNCHANGED <<job, text, index, cited, links, orphans, met, locals>>

\* find_orphan_pages: the pages, then their links.
FindOrphans(r) ==
    /\ pc[r] = "start" /\ job[r].op = "lint"
    /\ listing' = [listing EXCEPT ![r] = {t \in Knowledge : text[t] # {}}]
    /\ Goto(r, "links")
    /\ UNCHANGED <<job, saved, met, found, todo, seen, draft>>

ReadLinks(r) ==
    /\ pc[r] = "links"
    /\ listing' = [listing EXCEPT ![r] = {t \in @ : \A l \in links : t \in l => ~(l \subseteq @)}]
    /\ Goto(r, "report")
    /\ UNCHANGED <<job, saved, met, found, todo, seen, draft>>

SaveReport(r) ==
    /\ pc[r] = "report"
    /\ text'    = [text EXCEPT !["Report"] = {r}]
    /\ orphans' = listing[r]
    /\ done'    = done \cup {r}
    /\ Goto(r, "readLog")
    /\ UNCHANGED <<job, index, cited, links, met, locals>>

(***************************************************************************)
(* Waiting, deadlock and failure.                                          *)
(***************************************************************************)
Wants(r) == CASE pc[r] = "summary" -> {Source(r)}
              [] pc[r] = "merge"   -> {Head(todo[r])}
              [] pc[r] = "index"   -> {"Index"}
              [] pc[r] = "log"     -> {"Log"}
              [] OTHER             -> {}
WaitsFor(r, x) == \E t \in Wants(r) : draft[x][t] # {}

\* Two ingests that name the same concepts in another order: the database
\* aborts one.
DeadlockVictim(r) ==
    /\ \E x \in Requests \ {r} : WaitsFor(r, x) /\ WaitsFor(x, r)
    /\ Abort(r)

Dies(r) == pc[r] \notin {"start", "ended"} /\ Abort(r)

Serve(r) ==
    \/ AskModel(r) \/ SaveSummary(r) \/ NextConcept(r) \/ SaveConcept(r) \/ ListPages(r)
    \/ SaveIndex(r) \/ ReadLog(r) \/ SaveLog(r) \/ Commit(r)
    \/ Answer(r) \/ FindOrphans(r) \/ ReadLinks(r) \/ SaveReport(r)
    \/ DeadlockVictim(r)

Next == \E r \in Requests : Serve(r) \/ Dies(r)

Spec == Init /\ [][Next]_vars

-----------------------------------------------------------------------------
Filed == {r \in done : Ingests(r)}
Names(r) == {found[r][i] : i \in DOMAIN found[r]}

\* "Merge: append the new info, preserve original content": what an ingest has
\* added to a concept page is lost only to an ingest that named the same concept
\* in an overlapping transaction.
MergesAreKept ==
    \A r \in Filed : \A t \in Names(r) :
        \/ r \in text[t]
        \/ \E x \in Filed : {r, x} \in met /\ t \in Names(x)

\* The index lists every page: it misses only pages of an ingest that overlapped
\* with the one that wrote it.
IndexIsComplete ==
    \A r \in Filed : \A t \in Names(r) \cup {Source(r)} :
        \/ t \in index
        \/ \E x \in Filed : {r, x} \in met /\ text["Index"] = {x}

\* The log is append-only: ingests never lose each other's lines, since the lock
\* on the index makes them take turns.  Only a question or a health check that
\* has read the log before loses one.
LogKeepsIngests ==
    \A r \in Filed :
        \/ r \in text["Log"]
        \/ \E x \in done : ~Ingests(x) /\ Ended(x) /\ r \notin seen[x]
=============================================================================
