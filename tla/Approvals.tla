----------------------------- MODULE Approvals -----------------------------
(***************************************************************************)
(* Approval requests for one voucher: a chain of steps, each for a role,   *)
(* acted upon one after the other.  Nothing runs in a transaction, so each *)
(* query and each save is a step of its own, a saved instance overwrites   *)
(* the row, and a request that dies leaves what it has saved.  A request   *)
(* for approval is named by the client that submits it.                    *)
(***************************************************************************)
EXTENDS Naturals, FiniteSets, Sequences

CONSTANTS
    Clients,    \* HTTP requests and callers of submit
    Chain,      \* approver_roles of the rule
    RolesOf,    \* client -> roles of its user
    Plans,      \* what the clients do
    MaxDeaths   \* bound: clients that die

Places == DOMAIN Chain
Ops    == {"submit", "approve", "reject", "post"}

ApprovalSets ==
    /\ IsFiniteSet(Clients)
    /\ Chain \in Seq(STRING) /\ Chain # <<>>
    /\ RolesOf \in [Clients -> SUBSET STRING]
    /\ Plans \subseteq [Clients -> Ops]
    /\ MaxDeaths \in Nat

VARIABLES
    job,     \* the plan being carried out
    status,  \* request -> its status, "none" before it exists
    steps,   \* request -> place in the chain -> status, "none" before it exists
    posted,  \* the voucher is posted
    deaths,  \* clients that died
    crossed, \* requests held by a submitter, or a rejecter, and by another at a time
    late,    \* request -> clients that held it when it was decided
    pc,      \* client -> what it does next
    subject, \* client -> request it acts on
    place    \* client -> place at hand

vars == <<job, status, steps, posted, deaths, crossed, late, pc, subject, place>>

Init ==
    /\ job \in Plans
    /\ status  = [r \in Clients |-> "none"]
    /\ steps   = [r \in Clients |-> [k \in Places |-> "none"]]
    /\ posted  = FALSE
    /\ deaths  = 0
    /\ crossed = {}
    /\ late    = [r \in Clients |-> {}]
    /\ pc      = [c \in Clients |-> "start"]
    /\ subject = [c \in Clients |-> c]
    /\ place   = [c \in Clients |-> 1]

Goto(c, label) == pc' = [pc EXCEPT ![c] = label]
Ended(c)   == pc[c] \in {"ended", "dead"}
Running(c) == pc[c] # "start" /\ ~Ended(c)

Starts(c, op) == pc[c] = "start" /\ job[c] = op

\* A client holds the request it has loaded, or created, until it ends.
Holders(r)   == {c \in Clients : Running(c) /\ subject[c] = r}
Undecided(r) == status[r] = "pending"

Pending(r) == {k \in Places : steps[r][k] = "pending"}
LastOf(r)  == CHOOSE k \in Pending(r) : \A j \in Pending(r) : j <= k  \* mutant
NextOf(r)  == CHOOSE k \in Pending(r) : \A j \in Pending(r) : k <= j

(***************************************************************************)
(* submit.                                                                 *)
(***************************************************************************)
CancelPending(c) ==
    /\ Starts(c, "submit")
    /\ status'  = [r \in Clients |-> IF Undecided(r) THEN "cancelled" ELSE status[r]]
    /\ crossed' = crossed \cup {r \in Clients : Undecided(r) /\ Holders(r) # {}}
    /\ late'    = [r \in Clients |-> IF Undecided(r) THEN Holders(r) ELSE late[r]]
    /\ Goto(c, "create")
    /\ UNCHANGED <<job, steps, posted, deaths, subject, place>>

CreateRequest(c) ==
    /\ pc[c] = "create"
    /\ status' = [status EXCEPT ![c] = "pending"]
    /\ Goto(c, "createStep")
    /\ UNCHANGED <<job, steps, posted, deaths, crossed, late, subject, place>>

CreateStep(c) ==
    /\ pc[c] = "createStep"
    /\ steps' = [steps EXCEPT ![c][place[c]] = "pending"]
    /\ place' = [place EXCEPT ![c] = @ + 1]
    /\ Goto(c, IF place[c] = Len(Chain) THEN "ended" ELSE "createStep")
    /\ UNCHANGED <<job, status, posted, deaths, crossed, late, subject>>

(***************************************************************************)
(* The views and approve, reject.                                          *)
(***************************************************************************)
OpenAlways(r) == TRUE  \* mutant
Open(r) == status[r] = "pending"

\* Only an approver's role is looked at.
Load(c) ==
    /\ Starts(c, "approve") \/ Starts(c, "reject")
    /\ \E r \in {x \in Clients : status[x] # "none"} :
          /\ subject' = [subject EXCEPT ![c] = r]
          /\ crossed' = IF Open(r) /\ \E x \in Holders(r) : {job[c], job[x]} # {"approve"}
                        THEN crossed \cup {r} ELSE crossed
          /\ Goto(c, IF ~Open(r) THEN "ended" ELSE IF job[c] = "approve" THEN "role" ELSE "take")
    /\ UNCHANGED <<job, status, steps, posted, deaths, late, place>>

CheckRole(c) ==
    LET r == subject[c] IN
    /\ pc[c] = "role"
    /\ Goto(c, IF Pending(r) # {} /\ Chain[NextOf(r)] \in RolesOf[c] THEN "take" ELSE "ended")
    /\ UNCHANGED <<job, status, steps, posted, deaths, crossed, late, subject, place>>

\* The step is looked up again, and not compared with the one just checked.
TakeStep(c) ==
    LET r == subject[c] IN
    /\ pc[c] = "take"
    /\ IF Pending(r) # {}
       THEN place' = [place EXCEPT ![c] = NextOf(r)] /\ Goto(c, "save")
       ELSE Goto(c, IF job[c] = "approve" THEN "ended" ELSE "finalize") /\ UNCHANGED place
    /\ UNCHANGED <<job, status, steps, posted, deaths, crossed, late, subject>>

Verdict(c) == IF job[c] = "approve" THEN "approved" ELSE "rejected"

SaveStep(c) ==
    /\ pc[c] = "save"
    /\ steps' = [steps EXCEPT ![subject[c]][place[c]] = Verdict(c)]
    /\ Goto(c, IF job[c] = "approve" THEN "advance" ELSE "finalize")
    /\ UNCHANGED <<job, status, posted, deaths, crossed, late, subject, place>>

Final(r) == Pending(r) = {}

Advance(c) ==
    /\ pc[c] = "advance"
    /\ Goto(c, IF Final(subject[c]) THEN "finalize" ELSE "ended")
    /\ UNCHANGED <<job, status, steps, posted, deaths, crossed, late, subject, place>>

SaveRequest(c) ==
    /\ pc[c] = "finalize"
    /\ status' = [status EXCEPT ![subject[c]] = Verdict(c)]
    /\ late'   = [late EXCEPT ![subject[c]] = IF Undecided(subject[c])
                                              THEN Holders(subject[c]) \ {c} ELSE @]
    /\ Goto(c, IF job[c] = "approve" THEN "hook" ELSE "ended")
    /\ UNCHANGED <<job, steps, posted, deaths, crossed, subject, place>>

\* "When final step approved, fires hook on target object (e.g. auto-post
\* voucher)": the hook calls a method that ContentType does not have, and returns
\* on the exception.  The voucher is not posted.
FireHook(c) ==
    /\ pc[c] = "hook"
    /\ Goto(c, "ended")
    /\ UNCHANGED <<job, status, steps, posted, deaths, crossed, late, subject, place>>

\* The ledger posts a voucher without asking for its approval.
PostVoucher(c) ==
    /\ Starts(c, "post")
    /\ posted' = TRUE
    /\ Goto(c, "ended")
    /\ UNCHANGED <<job, status, steps, deaths, crossed, late, subject, place>>

Dies(c) ==
    /\ Running(c) /\ deaths < MaxDeaths
    /\ deaths' = deaths + 1
    /\ Goto(c, "dead")
    /\ UNCHANGED <<job, status, steps, posted, crossed, late, subject, place>>

Act(c) ==
    \/ CancelPending(c) \/ CreateRequest(c) \/ CreateStep(c)
    \/ Load(c) \/ CheckRole(c) \/ TakeStep(c) \/ SaveStep(c) \/ Advance(c)
    \/ SaveRequest(c) \/ FireHook(c) \/ PostVoucher(c)

Next == \E c \in Clients : Act(c) \/ Dies(c)

Spec == Init /\ [][Next]_vars

-----------------------------------------------------------------------------
\* A client died between rejecting a step and rejecting the request.
HalfRejected(r) == \E c \in Clients : job[c] = "reject" /\ pc[c] = "dead" /\ subject[c] = r

\* The end of the chain is the approval of the request itself.
Finish == Len(Chain) + 1
Decided(r, k) == IF k = Finish THEN status[r] = "approved"
                               ELSE steps[r][k] \in {"approved", "rejected"}

\* However approvers race, nobody acts on a step, and no request is approved,
\* before the steps ahead of it in the chain are approved: all of them unless
\* submit died while it inserted them, or a reject half way.  Requests for which
\* a submission or a rejection met another client are excepted: for them the
\* code does not keep to the chain.
ChainIsFollowed ==
    \A r \in Clients \ crossed : \A k \in 1..Finish : Decided(r, k) =>
        \A j \in 1..(k - 1) : \/ steps[r][j] = "approved"
                              \/ steps[r][j] = "none" /\ pc[r] = "dead"
                              \/ steps[r][j] = "rejected" /\ HalfRejected(r)

\* What is approved, rejected or cancelled stays so and takes no more verdicts,
\* but for those of clients that held the request when it was decided.  Such a
\* client may overwrite the decision with its own.
DecidedStaysDecided ==
    [][\A r \in Clients :
         /\ status[r] \in {"approved", "rejected", "cancelled"}
         /\ \/ status'[r] # status[r]
            \/ \E k \in Places : steps'[r][k] # steps[r][k] /\ steps'[r][k] # "pending"
         => \E c \in late[r] : c \in Holders(r) /\ pc[c] \in {"save", "finalize"} /\ pc'[c] # pc[c]]_vars

\* "Reject the request -- blocks all future steps": when all clients are done, no
\* request with a rejected step is approved.
RejectionBlocks ==
    (\A c \in Clients : ~Running(c)) =>
        \A r \in Clients : status[r] = "approved" => \A k \in Places : steps[r][k] # "rejected"
=============================================================================
