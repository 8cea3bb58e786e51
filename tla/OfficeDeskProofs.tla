-------------------------- MODULE OfficeDeskProofs --------------------------
(***************************************************************************)
(* Theorems about the desk: approvals follow their chain, bank transactions*)
(* are matched with a voucher each, and e-invoices are numbered.           *)
(***************************************************************************)
EXTENDS Office, SumLemmas

(***************************************************************************)
(* Approvals.                                                              *)
(***************************************************************************)
AStates == {"none", "pending", "approved", "rejected"}
\* The labels of a request.
ALabels == {"start", "create", "createStep", "role", "take", "save", "advance", "finalize", "hook",
            "ended", "dead"}
\* What the tables of the approvals hold.
ATypes ==
    /\ aJob \in APlans /\ aDeaths \in Nat
    /\ aStatus \in [AClients -> AStates \cup {"cancelled"}]
    /\ aSteps \in [AClients -> [A!Places -> AStates]]
    /\ aLate \in [AClients -> SUBSET AClients]
    /\ aPc \in [AClients -> ALabels]
    /\ aSubject \in [AClients -> AClients]
    /\ aPlace \in [AClients -> Nat]

ADecided(r, k)  == aSteps[r][k] \in {"approved", "rejected"}
ARejecting(r)   == \E c \in AClients : aJob[c] = "reject" /\ aPc[c] = "finalize" /\ aSubject[c] = r
AHandles(c)     == aPc[c] \in {"role", "take", "save", "advance", "finalize", "hook"}

\* What a client has and knows, whomever it meets.
ABase(c) ==
    /\ aPc[c] = "start" => aSubject[c] = c
    /\ aPc[c] \in {"create", "createStep"} => aJob[c] = "submit"
    /\ aJob[c] = "submit" =>
          /\ aSubject[c] = c /\ aPc[c] \in {"start", "create", "createStep", "ended", "dead"}
          /\ aPc[c] \in {"start", "create"} => aPlace[c] = 1
          /\ aPc[c] = "createStep" => aPlace[c] \in A!Places /\ aStatus[c] # "none"
    /\ aJob[c] # "submit" \/ aPc[c] \in {"start", "create"} => aStatus[c] = "none"
    /\ aStatus[c] = "none" => \A k \in A!Places : aSteps[c][k] = "none"
    /\ AHandles(c) => /\ aJob[c] \in {"approve", "reject"} /\ aStatus[aSubject[c]] # "none"
                      /\ aPc[c] = "save" => aPlace[c] \in A!Places

\* Only approvers hold the request with others.
AExcludes(r) ==
    \A c, x \in AClients : c # x /\ A!Running(c) /\ A!Running(x) /\ aSubject[c] = r /\ aSubject[x] = r
        => aJob[c] = "approve" /\ aJob[x] = "approve"

\* What a request is while and after it is submitted.
ASubmits(r) ==
    /\ aPc[r] = "createStep" =>
          /\ aStatus[r] = "pending"
          /\ \A k \in A!Places : aSteps[r][k] = IF k < aPlace[r] THEN "pending" ELSE "none"
    /\ aPc[r] = "ended" => \A k \in A!Places : aSteps[r][k] # "none"

\* Its steps are decided from the first on, and created likewise.
AShape(r) ==
    \A k \in A!Places : \A j \in 1..(k - 1) :
        /\ ADecided(r, k) => ADecided(r, j)
        /\ aSteps[r][k] # "none" => aSteps[r][j] # "none"

\* What a client that acts on it knows of it.
AKnows(r, c) ==
    AHandles(c) /\ aSubject[c] = r =>
        /\ aStatus[r] \in (IF aJob[c] = "approve" THEN {"pending", "approved"} ELSE {"pending"})
        /\ aPc[c] = "save" =>
              /\ \A j \in 1..(aPlace[c] - 1) : ADecided(r, j)
              /\ aSteps[r][aPlace[c]] \in (IF aJob[c] = "approve" THEN {"pending", "approved"} ELSE {"pending"})
        /\ aPc[c] = "finalize" /\ aJob[c] = "approve" => A!Pending(r) = {}

\* A rejected step is the last one decided, unless its rejection remained half done.
ARejects(r) ==
    \A j \in A!Places : aSteps[r][j] = "rejected" =>
        \/ A!HalfRejected(r)
        \/ /\ aStatus[r] = "rejected" \/ ARejecting(r)
           /\ \A k \in A!Places : k > j => ~ADecided(r, k)

\* What is approved has its steps approved.
AApproves(r) ==
    aStatus[r] = "approved" =>
        \A j \in A!Places : \/ aSteps[r][j] = "approved"
                            \/ aSteps[r][j] = "none" /\ aPc[r] = "dead"
                            \/ aSteps[r][j] = "rejected" /\ A!HalfRejected(r)

AGood(r) ==
    /\ AExcludes(r) /\ ASubmits(r) /\ AShape(r) /\ ARejects(r) /\ AApproves(r)
    /\ \A c \in AClients : AKnows(r, c)

\* The inductive invariant: what holds of all requests, and of those on which no
\* submission and no rejection met another client.
AOk  == ATypes /\ \A c \in AClients : ABase(c)
AInv == AOk /\ \A r \in AClients \ aCrossed : aJob[r] = "submit" => AGood(r)

\* The places of a chain.
LEMMA APlaces == Len(AChain) \in Nat /\ Len(AChain) > 0 /\ A!Places = 1..Len(AChain)
BY OfficeData DEF A!ApprovalSets, A!Places

\* A client that acts changes its own place in the program only, and is done
\* with its start; a half done rejection remains.
LEMMA ALocal ==
    ASSUME ATypes, NEW c \in AClients, A!Act(c) \/ A!Dies(c)
    PROVE  /\ \A x \in AClients \ {c} :
                 aPc'[x] = aPc[x] /\ aSubject'[x] = aSubject[x] /\ aPlace'[x] = aPlace[x]
           /\ aJob' = aJob /\ aPc[c] \notin {"ended", "dead"}
           /\ \A r : A!HalfRejected(r) => A!HalfRejected(r)'
           /\ aCrossed \subseteq aCrossed'
<1>1. /\ \A x \in AClients \ {c} :
            aPc'[x] = aPc[x] /\ aSubject'[x] = aSubject[x] /\ aPlace'[x] = aPlace[x]
      /\ aJob' = aJob /\ aPc[c] \notin {"ended", "dead"}
    BY DEF ATypes, A!Act, A!Dies, A!CancelPending, A!CreateRequest, A!CreateStep, A!Load, A!CheckRole,
        A!TakeStep, A!SaveStep, A!Advance, A!SaveRequest, A!FireHook, A!PostVoucher, A!Starts,
        A!Running, A!Ended, A!Goto
<1>2. aCrossed \subseteq aCrossed'
    BY DEF A!Act, A!Dies, A!CancelPending, A!CreateRequest, A!CreateStep, A!Load, A!CheckRole,
        A!TakeStep, A!SaveStep, A!Advance, A!SaveRequest, A!FireHook, A!PostVoucher
<1> QED BY <1>1, <1>2 DEF A!HalfRejected

\* The pending step that is looked up is the first.
LEMMA ANextOf ==
    ASSUME ATypes, NEW r \in AClients, A!Pending(r) # {}
    PROVE  /\ A!NextOf(r) \in A!Places /\ aSteps[r][A!NextOf(r)] = "pending"
           /\ \A k \in A!Places : aSteps[r][k] = "pending" => A!NextOf(r) <= k
<1>1. A!Pending(r) \subseteq Nat
    BY APlaces DEF A!Pending
<1>2. \E k \in A!Pending(r) : \A j \in A!Pending(r) : k <= j
    <2> SUFFICES ASSUME \A k \in A!Pending(r) : \E j \in A!Pending(r) : j < k
                 PROVE  FALSE
        BY <1>1
    <2> DEFINE T == {n \in Nat : \A k \in A!Pending(r) : k > n}
    <2>1. 0 \in T
        BY <1>1
    <2>2. ASSUME NEW n \in Nat, n \in T PROVE n + 1 \in T
        BY <1>1, <2>2
    <2>3. \A n \in Nat : n \in T
        <3> HIDE DEF T
        <3> QED BY <2>1, <2>2, NatSetInduction
    <2> QED BY <1>1, <2>3
<1>3. A!NextOf(r) \in A!Pending(r) /\ \A j \in A!Pending(r) : A!NextOf(r) <= j
    BY <1>2 DEF A!NextOf
<1> QED BY <1>3 DEF A!Pending

\* Each step of a client, point by point.
ACancels(c) ==
    /\ aPc[c] = "start" /\ aJob[c] = "submit" /\ aPc'[c] = "create"
    /\ \A s \in AClients : /\ aStatus'[s] = IF aStatus[s] = "pending" THEN "cancelled" ELSE aStatus[s]
                           /\ aStatus[s] = "pending" /\ A!Holders(s) # {} => s \in aCrossed'
                           /\ aLate'[s] = IF aStatus[s] = "pending" THEN A!Holders(s) ELSE aLate[s]
    /\ aSteps' = aSteps /\ aSubject'[c] = aSubject[c] /\ aPlace'[c] = aPlace[c]

ACreates(c) ==
    /\ aPc[c] = "create" /\ aPc'[c] = "createStep"
    /\ \A s \in AClients : aStatus'[s] = IF s = c THEN "pending" ELSE aStatus[s]
    /\ aSteps' = aSteps /\ aLate' = aLate /\ aSubject'[c] = aSubject[c] /\ aPlace'[c] = aPlace[c]

AInserts(c) ==
    /\ aPc[c] = "createStep" /\ aPc'[c] = IF aPlace[c] = Len(AChain) THEN "ended" ELSE "createStep"
    /\ \A s \in AClients, j \in A!Places :
           aSteps'[s][j] = IF s = c /\ j = aPlace[c] THEN "pending" ELSE aSteps[s][j]
    /\ aStatus' = aStatus /\ aLate' = aLate /\ aSubject'[c] = aSubject[c] /\ aPlace'[c] = aPlace[c] + 1

ALoads(c) ==
    /\ aPc[c] = "start" /\ aJob[c] \in {"approve", "reject"} /\ aStatus[aSubject'[c]] # "none"
    /\ aSubject'[c] \in AClients /\ aPlace'[c] = aPlace[c]
    /\ aStatus' = aStatus /\ aSteps' = aSteps /\ aLate' = aLate
    /\ \/ aPc'[c] = "ended"
       \/ /\ aPc'[c] = IF aJob[c] = "approve" THEN "role" ELSE "take"
          /\ aStatus[aSubject'[c]] = "pending"
          /\ \/ aSubject'[c] \in aCrossed'
             \/ \A x \in A!Holders(aSubject'[c]) : aJob[c] = "approve" /\ aJob[x] = "approve"

ALooks(c) ==
    /\ aPc[c] \in {"role", "advance", "hook"} /\ aPc'[c] \in {"take", "ended", "finalize"}
    /\ aPc[c] = "hook" => aPc'[c] = "ended"
    /\ aPc'[c] = "finalize" => A!Pending(aSubject[c]) = {}
    /\ aStatus' = aStatus /\ aSteps' = aSteps /\ aLate' = aLate
    /\ aSubject'[c] = aSubject[c] /\ aPlace'[c] = aPlace[c]

ATakes(c) ==
    LET r == aSubject[c] IN
    /\ aPc[c] = "take" /\ aPlace'[c] \in Nat
    /\ \/ /\ aPc'[c] = "save" /\ aPlace'[c] \in A!Places /\ aSteps[r][aPlace'[c]] = "pending"
          /\ \A j \in A!Places : aSteps[r][j] = "pending" => aPlace'[c] <= j
       \/ aPc'[c] \in {"ended", "finalize"} /\ (aPc'[c] = "finalize" => aJob[c] # "approve")
    /\ aStatus' = aStatus /\ aSteps' = aSteps /\ aLate' = aLate /\ aSubject'[c] = r

AActsOn(c) ==
    LET r == aSubject[c] IN
    /\ aPc[c] = "save" /\ aPc'[c] = IF aJob[c] = "approve" THEN "advance" ELSE "finalize"
    /\ \A s \in AClients, j \in A!Places :
           aSteps'[s][j] = IF s = r /\ j = aPlace[c] THEN A!Verdict(c) ELSE aSteps[s][j]
    /\ aStatus' = aStatus /\ aLate' = aLate /\ aSubject'[c] = r /\ aPlace'[c] = aPlace[c]

ADecides(c) ==
    LET r == aSubject[c] IN
    /\ aPc[c] = "finalize" /\ aPc'[c] = IF aJob[c] = "approve" THEN "hook" ELSE "ended"
    /\ \A s \in AClients : aStatus'[s] = IF s = r THEN A!Verdict(c) ELSE aStatus[s]
    /\ \A s \in AClients : aLate'[s] = IF s = r /\ aStatus[s] = "pending" THEN A!Holders(s) \ {c} ELSE aLate[s]
    /\ aSteps' = aSteps /\ aSubject'[c] = r /\ aPlace'[c] = aPlace[c]

APosts(c) ==
    /\ aPc[c] = "start" /\ aJob[c] = "post" /\ aPc'[c] = "ended"
    /\ aStatus' = aStatus /\ aSteps' = aSteps /\ aLate' = aLate
    /\ aSubject'[c] = aSubject[c] /\ aPlace'[c] = aPlace[c]

ADies(c) ==
    /\ A!Running(c) /\ aPc'[c] = "dead"
    /\ aStatus' = aStatus /\ aSteps' = aSteps /\ aLate' = aLate
    /\ aSubject'[c] = aSubject[c] /\ aPlace'[c] = aPlace[c]

AStep(c) ==
    \/ ACancels(c) \/ ACreates(c) \/ AInserts(c) \/ ALoads(c) \/ ALooks(c) \/ ATakes(c)
    \/ AActsOn(c) \/ ADecides(c) \/ APosts(c) \/ ADies(c)

\* Every step is one of these, and keeps the types.
LEMMA AMoves ==
    ASSUME AOk, NEW c \in AClients, A!Act(c) \/ A!Dies(c)
    PROVE  ATypes' /\ AStep(c)
<1> USE DEF AOk
<1>1. CASE A!CancelPending(c)
    <2>1. AStep(c)
        BY <1>1 DEF A!CancelPending, A!Starts, A!Goto, A!Undecided, AStep, ACancels, ATypes
    <2>2. /\ aStatus' \in [AClients -> AStates \cup {"cancelled"}]
          /\ aLate' \in [AClients -> SUBSET AClients] /\ aPc' \in [AClients -> ALabels]
        BY <1>1 DEF A!CancelPending, A!Goto, A!Holders, ATypes, AStates, ALabels
    <2> QED BY <1>1, <2>1, <2>2 DEF A!CancelPending, ATypes
<1>2. CASE A!CreateRequest(c)
    BY <1>2 DEF A!CreateRequest, A!Goto, AStep, ACreates, ATypes, AStates, ALabels
<1>3. CASE A!CreateStep(c)
    <2>1. aPlace[c] \in A!Places
        BY <1>3 DEF ABase, A!CreateStep
    <2>2. \A s \in AClients, j \in A!Places :
              aSteps'[s][j] = IF s = c /\ j = aPlace[c] THEN "pending" ELSE aSteps[s][j]
        BY <1>3, <2>1 DEF A!CreateStep, ATypes
    <2>3. /\ aPc'[c] = IF aPlace[c] = Len(AChain) THEN "ended" ELSE "createStep"
          /\ aPlace'[c] = aPlace[c] + 1 /\ aPc[c] = "createStep" /\ aSubject' = aSubject
          /\ aStatus' = aStatus /\ aLate' = aLate /\ aJob' = aJob /\ aDeaths' = aDeaths
        BY <1>3 DEF A!CreateStep, A!Goto, ATypes
    <2>4. aSteps' \in [AClients -> [A!Places -> AStates]]
        BY <1>3, <2>1 DEF A!CreateStep, ATypes, AStates
    <2>5. aPc' \in [AClients -> ALabels] /\ aPlace' \in [AClients -> Nat]
        BY <1>3 DEF A!CreateStep, A!Goto, ATypes, ALabels
    <2>6. AStep(c)
        BY <2>2, <2>3 DEF AStep, AInserts
    <2> QED BY <2>3, <2>4, <2>5, <2>6 DEF ATypes
<1>4. CASE A!Load(c)
    <2>1. PICK r \in AClients :
             /\ aStatus[r] # "none" /\ aSubject' = [aSubject EXCEPT ![c] = r]
             /\ aCrossed' = IF A!Open(r) /\ \E x \in A!Holders(r) : {aJob[c], aJob[x]} # {"approve"}
                            THEN aCrossed \cup {r} ELSE aCrossed
             /\ aPc' = [aPc EXCEPT ![c] = IF ~A!Open(r) THEN "ended"
                                          ELSE IF aJob[c] = "approve" THEN "role" ELSE "take"]
        BY <1>4 DEF A!Load, A!Goto
    <2>2. /\ aJob[c] \in {"approve", "reject"} /\ aPc[c] = "start"
          /\ UNCHANGED <<aJob, aStatus, aSteps, aDeaths, aLate, aPlace>>
        BY <1>4 DEF A!Load, A!Starts
    <2>3. /\ aSubject'[c] = r
          /\ aPc'[c] = IF aStatus[r] # "pending" THEN "ended" ELSE IF aJob[c] = "approve" THEN "role" ELSE "take"
        BY <2>1 DEF ATypes, A!Open
    <2>4. aPc'[c] # "ended" => \/ r \in aCrossed'
                               \/ \A x \in A!Holders(r) : aJob[c] = "approve" /\ aJob[x] = "approve"
        <3>1. SUFFICES ASSUME aStatus[r] = "pending", r \notin aCrossed', NEW x \in A!Holders(r)
                       PROVE  aJob[c] = "approve" /\ aJob[x] = "approve"
            BY <2>3
        <3>2. {aJob[c], aJob[x]} = {"approve"}
            BY <2>1, <3>1 DEF A!Open
        <3> QED BY <3>2
    <2>5. AStep(c)
        BY <2>1, <2>2, <2>3, <2>4 DEF AStep, ALoads
    <2> QED BY <2>1, <2>2, <2>5 DEF ATypes, ALabels
<1>5. CASE A!CheckRole(c) \/ A!Advance(c) \/ A!FireHook(c)
    BY <1>5 DEF A!CheckRole, A!Advance, A!FireHook, A!Goto, A!Final, AStep, ALooks, ATypes, ALabels
<1>6. CASE A!TakeStep(c)
    <2>1. aSubject[c] \in AClients /\ aPlace[c] \in Nat
        BY DEF ATypes
    <2>2. CASE A!Pending(aSubject[c]) # {}
        <3>1. /\ aPlace' = [aPlace EXCEPT ![c] = A!NextOf(aSubject[c])] /\ aPc' = [aPc EXCEPT ![c] = "save"]
              /\ aPc[c] = "take" /\ UNCHANGED <<aJob, aStatus, aSteps, aDeaths, aLate, aSubject>>
            BY <1>6, <2>2 DEF A!TakeStep, A!Goto
        <3>2. /\ A!NextOf(aSubject[c]) \in A!Places /\ A!NextOf(aSubject[c]) \in Nat
              /\ aSteps[aSubject[c]][A!NextOf(aSubject[c])] = "pending"
              /\ \A k \in A!Places : aSteps[aSubject[c]][k] = "pending" => A!NextOf(aSubject[c]) <= k
            BY <2>1, <2>2, ANextOf, APlaces
        <3>3. aPlace'[c] = A!NextOf(aSubject[c]) /\ aPc'[c] = "save"
            BY <3>1 DEF ATypes
        <3>4. AStep(c)
            BY <3>1, <3>2, <3>3 DEF AStep, ATakes
        <3>5. aPlace' \in [AClients -> Nat] /\ aPc' \in [AClients -> ALabels]
            BY <3>1, <3>2 DEF ATypes, ALabels
        <3> QED BY <3>1, <3>4, <3>5 DEF ATypes
    <2>3. CASE A!Pending(aSubject[c]) = {}
        BY <1>6, <2>1, <2>3 DEF A!TakeStep, A!Goto, AStep, ATakes, ATypes, ALabels
    <2> QED BY <2>2, <2>3
<1>7. CASE A!SaveStep(c)
    <2>1. aPlace[c] \in A!Places /\ aSubject[c] \in AClients /\ A!Verdict(c) \in AStates
        BY <1>7 DEF ABase, AHandles, A!SaveStep, ATypes, A!Verdict, AStates
    <2>2. \A s \in AClients, j \in A!Places :
              aSteps'[s][j] = IF s = aSubject[c] /\ j = aPlace[c] THEN A!Verdict(c) ELSE aSteps[s][j]
        BY <1>7, <2>1 DEF A!SaveStep, ATypes
    <2>3. /\ aPc'[c] = IF aJob[c] = "approve" THEN "advance" ELSE "finalize"
          /\ aPc[c] = "save" /\ UNCHANGED <<aJob, aStatus, aDeaths, aLate, aSubject, aPlace>>
        BY <1>7 DEF A!SaveStep, A!Goto, ATypes
    <2>4. aSteps' \in [AClients -> [A!Places -> AStates]]
        BY <1>7, <2>1 DEF A!SaveStep, ATypes
    <2>5. aPc' \in [AClients -> ALabels]
        BY <1>7 DEF A!SaveStep, A!Goto, ATypes, ALabels
    <2>6. AStep(c)
        BY <2>2, <2>3 DEF AStep, AActsOn
    <2> QED BY <2>3, <2>4, <2>5, <2>6 DEF ATypes
<1>8. CASE A!SaveRequest(c)
    <2>1. aSubject[c] \in AClients /\ A!Verdict(c) \in AStates
        BY DEF ATypes, A!Verdict, AStates
    <2>2. /\ \A s \in AClients : aStatus'[s] = IF s = aSubject[c] THEN A!Verdict(c) ELSE aStatus[s]
          /\ \A s \in AClients : aLate'[s] = IF s = aSubject[c] /\ aStatus[s] = "pending"
                                             THEN A!Holders(s) \ {c} ELSE aLate[s]
        BY <1>8, <2>1 DEF A!SaveRequest, A!Undecided, ATypes
    <2>3. /\ aPc'[c] = IF aJob[c] = "approve" THEN "hook" ELSE "ended"
          /\ aPc[c] = "finalize" /\ UNCHANGED <<aJob, aSteps, aDeaths, aSubject, aPlace>>
        BY <1>8 DEF A!SaveRequest, A!Goto, ATypes
    <2>4. aStatus' \in [AClients -> AStates \cup {"cancelled"}]
        BY <1>8, <2>1 DEF A!SaveRequest, ATypes
    <2>5. aLate' \in [AClients -> SUBSET AClients]
        BY <1>8, <2>1 DEF A!SaveRequest, A!Holders, ATypes
    <2>6. aPc' \in [AClients -> ALabels]
        BY <1>8 DEF A!SaveRequest, A!Goto, ATypes, ALabels
    <2>7. AStep(c)
        BY <2>2, <2>3 DEF AStep, ADecides
    <2> QED BY <2>3, <2>4, <2>5, <2>6, <2>7 DEF ATypes
<1>9. CASE A!PostVoucher(c)
    BY <1>9 DEF A!PostVoucher, A!Starts, A!Goto, AStep, APosts, ATypes, ALabels
<1>10. CASE A!Dies(c)
    BY <1>10 DEF A!Dies, A!Goto, AStep, ADies, ATypes, ALabels
<1> QED BY <1>1, <1>2, <1>3, <1>4, <1>5, <1>6, <1>7, <1>8, <1>9, <1>10 DEF A!Act

\* What a client has and knows is kept.
LEMMA ABaseKept ==
    ASSUME AOk, NEW c \in AClients, A!Act(c) \/ A!Dies(c) PROVE AOk'
<1>l. /\ \A x \in AClients \ {c} :
            aPc'[x] = aPc[x] /\ aSubject'[x] = aSubject[x] /\ aPlace'[x] = aPlace[x]
      /\ aJob' = aJob
    BY ALocal DEF AOk
<1>m. ATypes /\ ATypes' /\ AStep(c) /\ \A x \in AClients : ABase(x)
    BY AMoves DEF AOk
<1>p. Len(AChain) \in Nat /\ Len(AChain) > 0 /\ A!Places = 1..Len(AChain)
    BY APlaces
<1>t. \A x \in AClients : /\ aSubject[x] \in AClients /\ aPlace[x] \in Nat
                          /\ A!Verdict(x) \in {"approved", "rejected"}
    BY <1>m DEF ATypes, A!Verdict
<1>c. /\ aPc[c] = "create" => aStatus[c] = "none"
      /\ aPc[c] = "createStep" => aStatus[c] # "none"
      /\ aPc[c] \in {"save", "finalize"} => aStatus[aSubject[c]] # "none"
    BY <1>m DEF ABase, AHandles
\* What exists goes on doing so.
<1>n. \A s \in AClients : /\ aStatus[s] # "none" => aStatus'[s] # "none"
                          /\ aStatus'[s] # "none" => aStatus[s] # "none" \/ (s = c /\ aPc[c] = "create")
    <2>1. aPc[c] = "finalize" => A!Verdict(c) # "none" /\ aStatus[aSubject[c]] # "none"
        BY <1>t, <1>c
    <2>2. AStep(c)
        BY <1>m
    <2>3. TAKE s \in AClients
    <2>4. \/ aStatus' = aStatus
          \/ aStatus'[s] = IF aStatus[s] = "pending" THEN "cancelled" ELSE aStatus[s]
          \/ aPc[c] = "create" /\ aStatus'[s] = IF s = c THEN "pending" ELSE aStatus[s]
          \/ aPc[c] = "finalize" /\ aStatus'[s] = IF s = aSubject[c] THEN A!Verdict(c) ELSE aStatus[s]
        BY <2>2, Zenon DEF AStep, ACancels, ACreates, AInserts, ALoads, ALooks, ATakes, AActsOn, ADecides, APosts, ADies
    <2> QED BY <2>1, <2>4
<1>s. ASSUME NEW s \in AClients, NEW k \in A!Places, aSteps'[s][k] # "none"
      PROVE  aSteps[s][k] # "none" \/ aStatus[s] # "none"
    <2>1. AStep(c)
        BY <1>m
    <2> QED BY <1>s, <1>c, <2>1 DEF AStep, ACancels, ACreates, AInserts, ALoads, ALooks, ATakes, AActsOn, ADecides, APosts, ADies
<1>1. ASSUME NEW x \in AClients \ {c} PROVE ABase(x)'
    BY <1>l, <1>m, <1>n, <1>s, <1>t DEF ABase, AHandles
<1>2. ABase(c)'
    <2>1. aPc'[c] \in {"create", "createStep"} => aJob[c] = "submit"
        BY <1>m DEF AStep, ACancels, ACreates, AInserts, ALoads, ALooks, ATakes, AActsOn, ADecides, APosts, ADies, ABase
    <2>2. aJob[c] = "submit" =>
            /\ aSubject'[c] = c /\ aPc'[c] \in {"start", "create", "createStep", "ended", "dead"}
            /\ aPc'[c] \in {"start", "create"} => aPlace'[c] = 1
            /\ aPc'[c] = "createStep" => aPlace'[c] \in A!Places
        BY <1>m, <1>p DEF AStep, ACancels, ACreates, AInserts, ALoads, ALooks, ATakes, AActsOn, ADecides, APosts, ADies, ABase
    <2>2a. aPc'[c] = "createStep" => aStatus'[c] # "none"
        BY <1>m, <1>n, <1>c DEF AStep, ACancels, ACreates, AInserts, ALoads, ALooks, ATakes, AActsOn, ADecides, APosts, ADies
    <2>3. aJob[c] # "submit" \/ aPc'[c] \in {"start", "create"} => aStatus'[c] = "none"
        BY <1>m, <1>n DEF AStep, ACancels, ACreates, AInserts, ALoads, ALooks, ATakes, AActsOn, ADecides, APosts, ADies, ABase
    <2>4. aStatus'[c] = "none" => \A k \in A!Places : aSteps'[c][k] = "none"
        BY <1>m, <1>n, <1>s DEF ABase
    <2>5. AHandles(c)' => aJob[c] \in {"approve", "reject"}
        BY <1>m DEF AStep, ACancels, ACreates, AInserts, ALoads, ALooks, ATakes, AActsOn, ADecides, APosts, ADies, ABase, AHandles
    <2>6. AHandles(c)' => aStatus'[aSubject'[c]] # "none"
        BY <1>m, <1>n, <1>t DEF AStep, ACancels, ACreates, AInserts, ALoads, ALooks, ATakes, AActsOn, ADecides, APosts, ADies, ABase, AHandles
    <2>7. aPc'[c] = "save" => aPlace'[c] \in A!Places
        BY <1>m DEF AStep, ACancels, ACreates, AInserts, ALoads, ALooks, ATakes, AActsOn, ADecides, APosts, ADies
    <2>8. aPc'[c] # "start"
        BY <1>m DEF AStep, ACancels, ACreates, AInserts, ALoads, ALooks, ATakes, AActsOn, ADecides, APosts, ADies
    <2> QED BY <1>l, <2>8, <2>1, <2>2, <2>2a, <2>3, <2>4, <2>5, <2>6, <2>7 DEF ABase, AHandles
<1> QED BY <1>1, <1>2, <1>m DEF AOk

\* Who comes to a request that is not crossed meets approvers only.
LEMMA AExcludesKept ==
    ASSUME AOk, NEW c \in AClients, A!Act(c) \/ A!Dies(c), NEW r \in AClients \ aCrossed',
           aJob[r] = "submit", AExcludes(r)
    PROVE  AExcludes(r)'
<1>l. /\ \A x \in AClients \ {c} : aPc'[x] = aPc[x] /\ aSubject'[x] = aSubject[x]
      /\ aJob' = aJob /\ aPc[c] \notin {"ended", "dead"}
    BY ALocal DEF AOk
<1>m. ATypes /\ AStep(c) /\ \A x \in AClients : ABase(x)
    BY AMoves DEF AOk
<1>1. CASE A!Running(c) /\ aSubject'[c] = aSubject[c]
    BY <1>l, <1>1 DEF AExcludes, A!Running, A!Ended
<1>2. CASE ~A!Running(c)'
    BY <1>l, <1>2 DEF AExcludes, A!Running, A!Ended
<1>3. CASE aSubject'[c] # r
    BY <1>l, <1>3 DEF AExcludes, A!Running, A!Ended
<1>4. CASE /\ aPc[c] = "start" /\ A!Running(c)' /\ aSubject'[c] = r
    <2>1. CASE aJob[c] = "submit"
        <3>1. c = r /\ aStatus[c] = "none"
            BY <1>l, <1>m, <1>4, <2>1 DEF AStep, ACancels, ACreates, AInserts, ALoads, ALooks, ATakes, AActsOn, ADecides, APosts, ADies, ABase, A!Running, A!Ended
        <3>2. ASSUME NEW x \in AClients \ {c}, A!Running(x), aSubject[x] = r PROVE FALSE
            <4>1. aJob[x] = "submit" => aSubject[x] = x
                BY <1>m DEF ABase
            <4>2. AHandles(x)
                BY <1>m, <3>1, <3>2, <4>1 DEF ABase, AHandles, A!Running, A!Ended, ATypes, ALabels
            <4> QED BY <1>m, <3>1, <3>2, <4>2 DEF ABase
        <3> QED BY <1>l, <3>1, <3>2 DEF AExcludes, A!Running, A!Ended
    <2>2. CASE aJob[c] # "submit"
        <3>1. \A x \in A!Holders(r) : aJob[c] = "approve" /\ aJob[x] = "approve"
            BY <1>m, <1>4, <2>2 DEF AStep, ACancels, ACreates, AInserts, ALoads, ALooks, ATakes, AActsOn, ADecides, APosts, ADies, A!Running, A!Ended
        <3> QED BY <1>l, <3>1 DEF AExcludes, A!Holders, A!Running, A!Ended
    <2> QED BY <2>1, <2>2
<1> QED BY <1>1, <1>2, <1>3, <1>4, <1>l, <1>m DEF AStep, ACancels, ACreates, AInserts, ALoads, ALooks, ATakes, AActsOn, ADecides, APosts, ADies, A!Running, A!Ended

\* A step that is not about the request leaves it as it is.
LEMMA AAside ==
    ASSUME AOk, NEW c \in AClients, A!Act(c) \/ A!Dies(c), NEW r \in AClients \ aCrossed',
           aJob[r] = "submit", AGood(r), aSubject[c] # r, aSubject'[c] # r
    PROVE  AGood(r)'
<1>l. /\ \A x \in AClients \ {c} :
            aPc'[x] = aPc[x] /\ aSubject'[x] = aSubject[x] /\ aPlace'[x] = aPlace[x]
      /\ aJob' = aJob
      /\ A!HalfRejected(r) => A!HalfRejected(r)'
    BY ALocal DEF AOk
<1>m. ATypes /\ AStep(c) /\ \A x \in AClients : ABase(x)
    BY AMoves DEF AOk
<1>r. r # c /\ aSubject[r] = r
    BY <1>m DEF ABase
<1>1. /\ \A k \in A!Places : aSteps'[r][k] = aSteps[r][k]
      /\ \/ aStatus'[r] = aStatus[r]
         \/ aStatus[r] = "pending" /\ aStatus'[r] = "cancelled" /\ A!Holders(r) = {}
    BY <1>m, <1>r DEF AStep, ACancels, ACreates, AInserts, ALoads, ALooks, ATakes, AActsOn, ADecides, APosts, ADies, ABase
<1>2. \A k \in A!Places : ADecided(r, k)' <=> ADecided(r, k)
    BY <1>1 DEF ADecided
<1>2a. \A k : k \in A!Places => (k \in A!Pending(r)' <=> k \in A!Pending(r))
    BY <1>1 DEF A!Pending
<1>3. ASubmits(r)' /\ AShape(r)'
    BY <1>l, <1>r, <1>1, <1>2, APlaces DEF AGood, ASubmits, AShape, A!Holders, A!Running, A!Ended
<1>4. ASSUME NEW x \in AClients PROVE AKnows(r, x)'
    <2>1. SUFFICES ASSUME x # c, AHandles(x), aSubject[x] = r PROVE AKnows(r, x)'
        BY <1>l DEF AKnows, AHandles
    <2>2. aStatus'[r] = aStatus[r]
        BY <1>1, <2>1 DEF A!Holders, A!Running, A!Ended, AHandles
    <2>3. AKnows(r, x) /\ ABase(x)
        BY <1>m DEF AGood
    <2>4. aPc[x] = "save" => /\ \A j \in 1..(aPlace[x] - 1) : ADecided(r, j)'
                             /\ aSteps'[r][aPlace[x]] = aSteps[r][aPlace[x]]
        BY <1>1, <1>2, <2>1, <2>3, APlaces DEF AKnows, ABase
    <2>5. A!Pending(r)' = A!Pending(r)
        BY <1>2a DEF A!Pending
    <2> QED BY <1>l, <2>1, <2>2, <2>3, <2>4, <2>5 DEF AKnows, AHandles
<1>5. ARejecting(r) => ARejecting(r)'
    BY <1>l DEF ARejecting
<1>6. ARejects(r)' /\ AApproves(r)'
    BY <1>l, <1>r, <1>1, <1>2, <1>5 DEF AGood, ARejects, AApproves
<1> QED BY <1>3, <1>4, <1>6, AExcludesKept DEF AGood

\* A step about the request keeps it good.
LEMMA AGoodKept ==
    ASSUME AOk, NEW c \in AClients, A!Act(c) \/ A!Dies(c), NEW r \in AClients \ aCrossed',
           aJob[r] = "submit", AGood(r), aSubject'[c] = r
    PROVE  AGood(r)'
<1>l. /\ \A x \in AClients \ {c} :
            aPc'[x] = aPc[x] /\ aSubject'[x] = aSubject[x] /\ aPlace'[x] = aPlace[x]
      /\ aJob' = aJob /\ aPc[c] \notin {"ended", "dead"}
      /\ A!HalfRejected(r) => A!HalfRejected(r)'
    BY ALocal DEF AOk
<1>m. ATypes /\ AStep(c) /\ \A x \in AClients : ABase(x)
    BY AMoves DEF AOk
<1>p. Len(AChain) \in Nat /\ Len(AChain) > 0 /\ A!Places = 1..Len(AChain)
    BY APlaces
<1>t. /\ aSubject[r] = r /\ aStatus[r] \in AStates \cup {"cancelled"}
      /\ \A k \in A!Places : aSteps[r][k] \in {"none", "pending", "approved", "rejected"}
      /\ \A x \in AClients : aPlace[x] \in Nat /\ aPc[x] \in ALabels
    BY <1>m DEF ATypes, ABase, AStates
<1>r. aPc[r] \in {"start", "create", "createStep", "ended", "dead"}
    BY <1>m DEF ABase
<1>x. AExcludes(r)'
    BY AExcludesKept DEF AGood
<1>k. /\ ASubmits(r) /\ AShape(r) /\ ARejects(r) /\ AApproves(r)
      /\ \A x \in AClients : AKnows(r, x) /\ (AHandles(x) /\ aSubject[x] = r => (aPc[x] = "save" => aPlace[x] \in A!Places))
    BY <1>m DEF AGood, ABase
\* Whom a client that holds the request meets there, both are approvers.
<1>o. ASSUME A!Running(c), aSubject[c] = r, NEW x \in AClients \ {c}, AHandles(x), aSubject[x] = r
      PROVE  aJob[c] = "approve" /\ aJob[x] = "approve"
    BY <1>o DEF AGood, AExcludes, AHandles, A!Running, A!Ended
<1>q. A!Running(c) /\ aSubject[c] = r /\ aJob[c] = "approve" => aPc[r] # "createStep"
    BY <1>t DEF AGood, AExcludes, A!Running, A!Ended
<1>1. CASE ACancels(c)
    <2>0. aPc[c] = "start" /\ aJob[c] = "submit"
        BY <1>1 DEF ACancels
    <2>1. /\ c = r /\ aStatus[r] = "none" /\ aPc'[r] = "create" /\ \A k \in A!Places : aSteps[r][k] = "none"
        BY <1>m, <1>1 DEF ABase, ACancels
    <2>2. aStatus'[r] = "none" /\ aSteps' = aSteps
        BY <1>m, <1>1, <2>1 DEF ACancels
    <2>3. \A x \in AClients : AHandles(x) \/ AHandles(x)' => aSubject[x] # r
        BY <1>l, <1>m, <2>1 DEF ABase, AHandles
    <2>11. ASubmits(r)'
        BY <1>l, <1>p, <1>t, <1>r, <1>k, <2>0, <2>1, <2>2, <2>3 DEF ASubmits
    <2>12. AShape(r)'
        BY <1>l, <1>p, <1>t, <1>r, <1>k, <2>0, <2>1, <2>2, <2>3 DEF AShape, ADecided
    <2>13. \A x \in AClients : AKnows(r, x)'
        BY <1>l, <1>p, <1>t, <1>r, <1>k, <2>0, <2>1, <2>2, <2>3 DEF AKnows, AHandles, ADecided, A!Pending
    <2>14. ARejects(r)'
        BY <1>l, <1>p, <1>t, <1>r, <1>k, <2>0, <2>1, <2>2, <2>3 DEF ARejects, ARejecting, ADecided
    <2>15. AApproves(r)'
        BY <1>l, <1>p, <1>t, <1>r, <1>k, <2>0, <2>1, <2>2, <2>3 DEF AApproves
    <2> QED BY <1>x, <2>11, <2>12, <2>13, <2>14, <2>15 DEF AGood
<1>2. CASE ACreates(c)
    <2>0. aPc[c] = "create"
        BY <1>2 DEF ACreates
    <2>1. c = r /\ aStatus[r] = "none" /\ aPlace[r] = 1 /\ \A k \in A!Places : aSteps[r][k] = "none"
        BY <1>m, <1>2 DEF ABase, ACreates
    <2>2. aPc'[r] = "createStep" /\ aStatus'[r] = "pending" /\ aSteps' = aSteps /\ aPlace'[r] = 1
        BY <1>m, <1>2, <2>1 DEF ACreates
    <2>3. \A x \in AClients : AHandles(x) \/ AHandles(x)' => aSubject[x] # r
        BY <1>l, <1>m, <2>1, <2>2 DEF ABase, AHandles
    <2>11. ASubmits(r)'
        BY <1>l, <1>p, <1>t, <1>r, <1>k, <2>0, <2>1, <2>2, <2>3 DEF ASubmits
    <2>12. AShape(r)'
        BY <1>l, <1>p, <1>t, <1>r, <1>k, <2>0, <2>1, <2>2, <2>3 DEF AShape, ADecided
    <2>13. \A x \in AClients : AKnows(r, x)'
        BY <1>l, <1>p, <1>t, <1>r, <1>k, <2>0, <2>1, <2>2, <2>3 DEF AKnows, AHandles, ADecided, A!Pending
    <2>14. ARejects(r)'
        BY <1>l, <1>p, <1>t, <1>r, <1>k, <2>0, <2>1, <2>2, <2>3 DEF ARejects, ARejecting, ADecided
    <2>15. AApproves(r)'
        BY <1>l, <1>p, <1>t, <1>r, <1>k, <2>0, <2>1, <2>2, <2>3 DEF AApproves
    <2> QED BY <1>x, <2>11, <2>12, <2>13, <2>14, <2>15 DEF AGood
<1>3. CASE AInserts(c)
    <2>0. aPc[c] = "createStep"
        BY <1>3 DEF AInserts
    <2>1. /\ c = r /\ aStatus[r] = "pending" /\ aPlace[r] \in A!Places
          /\ \A k \in A!Places : aSteps[r][k] = IF k < aPlace[r] THEN "pending" ELSE "none"
        BY <1>m, <1>k, <1>3 DEF ABase, AInserts, ASubmits
    <2>2. /\ aPc'[r] = IF aPlace[r] = Len(AChain) THEN "ended" ELSE "createStep"
          /\ \A k \in A!Places : aSteps'[r][k] = IF k < aPlace[r] + 1 THEN "pending" ELSE "none"
          /\ aStatus' = aStatus /\ aPlace'[r] = aPlace[r] + 1
        BY <1>m, <1>p, <1>3, <2>1 DEF AInserts
    <2>3. \A x \in AClients : AHandles(x) \/ AHandles(x)' => aSubject[x] # r
        BY <1>l, <1>o, <1>t, <2>0, <2>1, <2>2 DEF AHandles, A!Running, A!Ended
    <2>11. ASubmits(r)'
        BY <1>l, <1>p, <1>t, <1>r, <1>k, <2>0, <2>1, <2>2, <2>3 DEF ASubmits
    <2>12. AShape(r)'
        BY <1>l, <1>p, <1>t, <1>r, <1>k, <2>0, <2>1, <2>2, <2>3 DEF AShape, ADecided
    <2>13. \A x \in AClients : AKnows(r, x)'
        BY <1>l, <1>p, <1>t, <1>r, <1>k, <2>0, <2>1, <2>2, <2>3 DEF AKnows, AHandles, ADecided, A!Pending
    <2>14. ARejects(r)'
        BY <1>l, <1>p, <1>t, <1>r, <1>k, <2>0, <2>1, <2>2, <2>3 DEF ARejects, ARejecting, ADecided
    <2>15. AApproves(r)'
        BY <1>l, <1>p, <1>t, <1>r, <1>k, <2>0, <2>1, <2>2, <2>3 DEF AApproves
    <2> QED BY <1>x, <2>11, <2>12, <2>13, <2>14, <2>15 DEF AGood
<1>4. CASE ALoads(c)
    <2>0. aPc[c] = "start" /\ aJob[c] \in {"approve", "reject"}
        BY <1>4 DEF ALoads
    <2>1. /\ c # r /\ aStatus' = aStatus /\ aSteps' = aSteps /\ aPc'[c] \in {"ended", "role", "take"}
          /\ aPc'[c] # "ended" => aStatus[r] = "pending"
        BY <1>m, <1>4 DEF ALoads
    <2>11. ASubmits(r)'
        BY <1>l, <1>p, <1>t, <1>r, <1>k, <2>0, <2>1 DEF ASubmits
    <2>12. AShape(r)'
        BY <1>l, <1>p, <1>t, <1>r, <1>k, <2>0, <2>1 DEF AShape, ADecided
    <2>13. \A x \in AClients : AKnows(r, x)'
        BY <1>l, <1>p, <1>t, <1>r, <1>k, <2>0, <2>1 DEF AKnows, AHandles, ADecided, A!Pending
    <2>14. ARejects(r)'
        BY <1>l, <1>p, <1>t, <1>r, <1>k, <2>0, <2>1 DEF ARejects, ARejecting, ADecided
    <2>15. AApproves(r)'
        BY <1>l, <1>p, <1>t, <1>r, <1>k, <2>0, <2>1 DEF AApproves
    <2> QED BY <1>x, <2>11, <2>12, <2>13, <2>14, <2>15 DEF AGood
<1>5. CASE ALooks(c)
    <2>0. aPc[c] \in {"role", "advance", "hook"}
        BY <1>5 DEF ALooks
    <2>1. /\ AHandles(c) /\ c # r /\ aStatus' = aStatus /\ aSteps' = aSteps /\ aSubject[c] = r
          /\ aPc'[c] \in {"take", "ended", "finalize"} /\ aPlace'[c] = aPlace[c]
          /\ aPc'[c] = "finalize" => A!Pending(r) = {}
        BY <1>m, <1>r, <1>5 DEF ALooks, AHandles
    <2>11. ASubmits(r)'
        BY <1>l, <1>p, <1>t, <1>r, <1>k, <2>0, <2>1 DEF ASubmits
    <2>12. AShape(r)'
        BY <1>l, <1>p, <1>t, <1>r, <1>k, <2>0, <2>1 DEF AShape, ADecided
    <2>13. \A x \in AClients : AKnows(r, x)'
        BY <1>l, <1>p, <1>t, <1>r, <1>k, <2>0, <2>1 DEF AKnows, AHandles, ADecided, A!Pending
    <2>14. ARejects(r)'
        BY <1>l, <1>p, <1>t, <1>r, <1>k, <2>0, <2>1 DEF ARejects, ARejecting, ADecided
    <2>15. AApproves(r)'
        BY <1>l, <1>p, <1>t, <1>r, <1>k, <2>0, <2>1 DEF AApproves
    <2> QED BY <1>x, <2>11, <2>12, <2>13, <2>14, <2>15 DEF AGood
<1>6. CASE ATakes(c)
    <2>0. aPc[c] = "take"
        BY <1>6 DEF ATakes
    <2>1. /\ AHandles(c) /\ c # r /\ aStatus' = aStatus /\ aSteps' = aSteps /\ aSubject[c] = r
          /\ aPlace'[c] \in Nat /\ aPc'[c] \in {"save", "ended", "finalize"}
          /\ aPc'[c] = "finalize" => aJob[c] # "approve"
          /\ aPc'[c] = "save" => /\ aPlace'[c] \in A!Places /\ aSteps[r][aPlace'[c]] = "pending"
                                 /\ \A k \in A!Places : aSteps[r][k] = "pending" => aPlace'[c] <= k
        BY <1>m, <1>r, <1>6 DEF ATakes, AHandles
    <2>2. aPc'[c] = "save" => \A j \in 1..(aPlace'[c] - 1) : ADecided(r, j)
        <3> SUFFICES ASSUME aPc'[c] = "save", NEW j \in 1..(aPlace'[c] - 1) PROVE ADecided(r, j)
            OBVIOUS
        <3>1. j \in A!Places /\ aSteps[r][j] # "pending" /\ aSteps[r][j] # "none"
            BY <1>p, <1>k, <2>1 DEF AShape
        <3> QED BY <1>t, <3>1 DEF ADecided
    <2>11. ASubmits(r)'
        BY <1>l, <1>p, <1>t, <1>r, <1>k, <2>0, <2>1, <2>2 DEF ASubmits
    <2>12. AShape(r)'
        BY <1>l, <1>p, <1>t, <1>r, <1>k, <2>0, <2>1, <2>2 DEF AShape, ADecided
    <2>13. \A x \in AClients : AKnows(r, x)'
        BY <1>l, <1>p, <1>t, <1>r, <1>k, <2>0, <2>1, <2>2 DEF AKnows, AHandles, ADecided, A!Pending
    <2>14. ARejects(r)'
        BY <1>l, <1>p, <1>t, <1>r, <1>k, <2>0, <2>1, <2>2 DEF ARejects, ARejecting, ADecided
    <2>15. AApproves(r)'
        BY <1>l, <1>p, <1>t, <1>r, <1>k, <2>0, <2>1, <2>2 DEF AApproves
    <2> QED BY <1>x, <2>11, <2>12, <2>13, <2>14, <2>15 DEF AGood
<1>7. CASE AActsOn(c)
    <2>0. aPc[c] = "save"
        BY <1>7 DEF AActsOn
    <2>1. /\ AHandles(c) /\ A!Running(c) /\ c # r /\ aStatus' = aStatus /\ aSubject[c] = r
          /\ aPlace'[c] = aPlace[c] /\ aPc'[c] = IF aJob[c] = "approve" THEN "advance" ELSE "finalize"
          /\ \A k \in A!Places : aSteps'[r][k] = IF k = aPlace[c] THEN A!Verdict(c) ELSE aSteps[r][k]
        BY <1>m, <1>r, <1>7 DEF AActsOn, AHandles, A!Running, A!Ended
    <2>2. PICK k \in A!Places : k = aPlace[c]
        BY <1>k, <2>0, <2>1
    <2>3. \A j \in 1..(k - 1) : ADecided(r, j)
        BY <1>k, <2>1, <2>2, <2>0 DEF AKnows
    <2>4. CASE aJob[c] = "approve"
        <3>1. /\ A!Verdict(c) = "approved" /\ aSteps[r][k] \in {"pending", "approved"}
              /\ aStatus[r] \in {"pending", "approved"}
            BY <1>k, <2>0, <2>1, <2>2, <2>4 DEF AKnows, A!Verdict
        <3>2. /\ ~ARejecting(r) /\ aPc[r] # "createStep"
              /\ \A x \in AClients : AHandles(x) /\ aSubject[x] = r => aJob[x] = "approve"
            BY <1>o, <1>q, <2>1, <2>4 DEF ARejecting, AHandles
        <3>3. \A j \in A!Places : ADecided(r, j) => ADecided(r, j)'
            BY <2>1, <2>2, <3>1 DEF ADecided
        <3>11. ASubmits(r)'
            BY <1>l, <1>p, <1>t, <1>r, <1>k, <2>0, <2>1, <2>2, <2>3, <2>4, <3>1, <3>2, <3>3 DEF ASubmits
        <3>12. AShape(r)'
            BY <1>l, <1>p, <1>t, <1>r, <1>k, <2>0, <2>1, <2>2, <2>3, <2>4, <3>1, <3>2, <3>3 DEF AShape, ADecided
        <3>13. \A x \in AClients : AKnows(r, x)'
            BY <1>l, <1>p, <1>t, <1>r, <1>k, <2>0, <2>1, <2>2, <2>3, <2>4, <3>1, <3>2, <3>3 DEF AKnows, AHandles, ADecided, A!Pending
        <3>14. ARejects(r)'
            BY <1>l, <1>p, <1>t, <1>r, <1>k, <2>0, <2>1, <2>2, <2>3, <2>4, <3>1, <3>2, <3>3 DEF ARejects, ARejecting, ADecided
        <3>15. AApproves(r)'
            BY <1>l, <1>p, <1>t, <1>r, <1>k, <2>0, <2>1, <2>2, <2>3, <2>4, <3>1, <3>2, <3>3 DEF AApproves
        <3> QED BY <1>x, <3>11, <3>12, <3>13, <3>14, <3>15 DEF AGood
    <2>5. CASE aJob[c] # "approve"
        <3>1. /\ A!Verdict(c) = "rejected" /\ aJob[c] = "reject" /\ aSteps[r][k] = "pending"
              /\ aStatus[r] = "pending"
            BY <1>m, <1>k, <2>0, <2>1, <2>2, <2>5 DEF ABase, AKnows, A!Verdict
        <3>2. \A x \in AClients \ {c} : ~(AHandles(x) /\ aSubject[x] = r) /\ ~(AHandles(x)' /\ aSubject[x] = r)
            BY <1>l, <1>o, <2>1, <2>5 DEF AHandles
        <3>3. ARejecting(r)' /\ \A j \in A!Places : j > k => ~ADecided(r, j)
            <4>1. ASSUME NEW j \in A!Places, j > k PROVE ~ADecided(r, j)
                BY <1>k, <1>p, <3>1, <4>1 DEF AShape, ADecided
            <4> QED BY <1>l, <2>1, <3>1, <4>1 DEF ARejecting
        <3>4. aPc[r] # "createStep"
            BY <1>m, <1>t, <2>1, <2>5 DEF AGood, AExcludes, A!Running, A!Ended
        <3>11. ASubmits(r)'
            BY <1>l, <1>p, <1>t, <1>r, <1>k, <2>0, <2>1, <2>2, <2>3, <2>5, <3>1, <3>2, <3>3, <3>4 DEF ASubmits
        <3>12. AShape(r)'
            BY <1>l, <1>p, <1>t, <1>r, <1>k, <2>0, <2>1, <2>2, <2>3, <2>5, <3>1, <3>2, <3>3, <3>4 DEF AShape, ADecided
        <3>13. \A x \in AClients : AKnows(r, x)'
            BY <1>l, <1>p, <1>t, <1>r, <1>k, <2>0, <2>1, <2>2, <2>3, <2>5, <3>1, <3>2, <3>3, <3>4 DEF AKnows, AHandles, ADecided, A!Pending
        <3>14. ARejects(r)'
            <4>1. ~ARejecting(r)
                BY <2>0, <3>2 DEF ARejecting, AHandles
            <4>2. \A j \in A!Places : aSteps[r][j] = "rejected" => A!HalfRejected(r)
                BY <1>k, <3>1, <4>1 DEF ARejects
            <4> QED BY <1>l, <1>p, <2>1, <2>2, <3>1, <3>3, <4>2 DEF ARejects, ADecided
        <3>15. AApproves(r)'
            BY <1>l, <1>p, <1>t, <1>r, <1>k, <2>0, <2>1, <2>2, <2>3, <2>5, <3>1, <3>2, <3>3, <3>4 DEF AApproves
        <3> QED BY <1>x, <3>11, <3>12, <3>13, <3>14, <3>15 DEF AGood
    <2> QED BY <2>4, <2>5
<1>8. CASE ADecides(c)
    <2>0. aPc[c] = "finalize"
        BY <1>8 DEF ADecides
    <2>1. /\ AHandles(c) /\ A!Running(c) /\ c # r /\ aSteps' = aSteps /\ aSubject[c] = r
          /\ aPlace'[c] = aPlace[c] /\ aPc'[c] = IF aJob[c] = "approve" THEN "hook" ELSE "ended"
          /\ aStatus'[r] = A!Verdict(c)
        BY <1>m, <1>r, <1>8 DEF ADecides, AHandles, A!Running, A!Ended
    <2>2. CASE aJob[c] = "approve"
        <3>1. A!Verdict(c) = "approved" /\ aStatus[r] \in {"pending", "approved"} /\ A!Pending(r) = {}
            BY <1>k, <2>1, <2>2, <2>0 DEF AKnows, A!Verdict
        <3>2. /\ ~ARejecting(r) /\ aPc[r] # "createStep"
              /\ \A x \in AClients : AHandles(x) /\ aSubject[x] = r => aJob[x] = "approve"
            BY <1>o, <1>q, <2>1, <2>2 DEF ARejecting, AHandles
        <3>3. \A j \in A!Places : \/ aSteps[r][j] = "approved"
                                  \/ aSteps[r][j] = "none" /\ aPc[r] = "dead"
                                  \/ aSteps[r][j] = "rejected" /\ A!HalfRejected(r)
            <4>1. \A j \in A!Places : aSteps[r][j] # "pending"
                BY <3>1 DEF A!Pending
            <4>2. \A j \in A!Places : aSteps[r][j] = "rejected" => A!HalfRejected(r)
                BY <1>k, <3>1, <3>2 DEF ARejects
            <4>3. aPc[r] \in {"ended", "dead"}
                BY <1>m, <1>r, <3>1, <3>2 DEF ABase
            <4>4. \A j \in A!Places : aSteps[r][j] # "none" \/ aPc[r] = "dead"
                BY <1>k, <4>3 DEF ASubmits
            <4> QED BY <1>t, <4>1, <4>2, <4>4
        <3>11. ASubmits(r)'
            BY <1>l, <1>p, <1>t, <1>r, <1>k, <2>0, <2>1, <2>2, <3>1, <3>2, <3>3 DEF ASubmits
        <3>12. AShape(r)'
            BY <1>l, <1>p, <1>t, <1>r, <1>k, <2>0, <2>1, <2>2, <3>1, <3>2, <3>3 DEF AShape, ADecided
        <3>13. \A x \in AClients : AKnows(r, x)'
            BY <1>l, <1>p, <1>t, <1>r, <1>k, <2>0, <2>1, <2>2, <3>1, <3>2, <3>3 DEF AKnows, AHandles, ADecided, A!Pending
        <3>14. ARejects(r)'
            BY <1>l, <1>p, <1>t, <1>r, <1>k, <2>0, <2>1, <2>2, <3>1, <3>2, <3>3 DEF ARejects, ARejecting, ADecided
        <3>15. AApproves(r)'
            BY <1>l, <1>p, <1>t, <1>r, <1>k, <2>0, <2>1, <2>2, <3>1, <3>2, <3>3 DEF AApproves
        <3> QED BY <1>x, <3>11, <3>12, <3>13, <3>14, <3>15 DEF AGood
    <2>3. CASE aJob[c] # "approve"
        <3>1. /\ A!Verdict(c) = "rejected" /\ aJob[c] = "reject" /\ aStatus[r] = "pending"
            BY <1>m, <1>k, <2>0, <2>1, <2>3 DEF ABase, AKnows, A!Verdict
        <3>2. \A x \in AClients \ {c} : ~(AHandles(x) /\ aSubject[x] = r) /\ ~(AHandles(x)' /\ aSubject[x] = r)
            BY <1>l, <1>o, <2>1, <2>3 DEF AHandles
        <3>4. aPc[r] # "createStep"
            BY <1>m, <1>t, <2>1, <2>3 DEF AGood, AExcludes, A!Running, A!Ended
        <3>5. \A x \in AClients \ {c} : ~(aJob[x] = "reject" /\ aPc[x] = "finalize" /\ aSubject[x] = r)
            BY <3>2 DEF AHandles
        <3>11. ASubmits(r)'
            BY <1>l, <1>p, <1>t, <1>r, <1>k, <2>0, <2>1, <2>3, <3>1, <3>2, <3>4, <3>5 DEF ASubmits
        <3>12. AShape(r)'
            BY <1>l, <1>p, <1>t, <1>r, <1>k, <2>0, <2>1, <2>3, <3>1, <3>2, <3>4, <3>5 DEF AShape, ADecided
        <3>13. \A x \in AClients : AKnows(r, x)'
            BY <1>l, <1>p, <1>t, <1>r, <1>k, <2>0, <2>1, <2>3, <3>1, <3>2, <3>4, <3>5 DEF AKnows, AHandles, ADecided, A!Pending
        <3>14. ARejects(r)'
            BY <1>l, <1>p, <1>t, <1>r, <1>k, <2>0, <2>1, <2>3, <3>1, <3>2, <3>4, <3>5 DEF ARejects, ARejecting, ADecided
        <3>15. AApproves(r)'
            BY <1>l, <1>p, <1>t, <1>r, <1>k, <2>0, <2>1, <2>3, <3>1, <3>2, <3>4, <3>5 DEF AApproves
        <3> QED BY <1>x, <3>11, <3>12, <3>13, <3>14, <3>15 DEF AGood
    <2> QED BY <2>2, <2>3
<1>9. CASE ADies(c)
    <2>0. /\ A!Running(c) /\ aPc'[c] = "dead" /\ aStatus' = aStatus /\ aSteps' = aSteps /\ aSubject[c] = r
        BY <1>9 DEF ADies
    <2>1. ARejecting(r) => ARejecting(r)' \/ A!HalfRejected(r)'
        BY <1>l, <2>0 DEF ARejecting, A!HalfRejected
    <2>11. ASubmits(r)'
        BY <1>l, <1>p, <1>t, <1>r, <1>k, <2>0, <2>1 DEF ASubmits
    <2>12. AShape(r)'
        BY <1>l, <1>p, <1>t, <1>r, <1>k, <2>0, <2>1 DEF AShape, ADecided
    <2>13. \A x \in AClients : AKnows(r, x)'
        BY <1>l, <1>p, <1>t, <1>r, <1>k, <2>0, <2>1 DEF AKnows, AHandles, ADecided, A!Pending
    <2>14. ARejects(r)'
        BY <1>l, <1>p, <1>t, <1>r, <1>k, <2>0, <2>1 DEF ARejects, ARejecting, ADecided
    <2>15. AApproves(r)'
        BY <1>l, <1>p, <1>t, <1>r, <1>k, <2>0, <2>1 DEF AApproves
    <2> QED BY <1>x, <2>11, <2>12, <2>13, <2>14, <2>15 DEF AGood
<1>10. CASE APosts(c)
    BY <1>m, <1>10 DEF APosts, ABase
<1> QED BY <1>1, <1>2, <1>3, <1>4, <1>5, <1>6, <1>7, <1>8, <1>9, <1>10, <1>m DEF AStep

\* The approvals start well.
LEMMA AOkStarts == Init => AOk
<1> SUFFICES ASSUME A!Init PROVE AOk
    BY DEF Init
<1>1. ATypes
    BY DEF A!Init, ATypes, AStates, ALabels
<1>2. \A c \in AClients : /\ aPc[c] = "start" /\ aStatus[c] = "none" /\ aPlace[c] = 1 /\ aSubject[c] = c
                         /\ \A k \in A!Places : aSteps[c][k] = "none"
    BY DEF A!Init
<1> QED BY <1>1, <1>2 DEF AOk, ABase, AHandles

\* The inductive invariant of the approvals.
LEMMA ApprovalsInvariant == Spec => []AInv
<1>1. Init => AInv
    <2> SUFFICES ASSUME Init, A!Init PROVE AInv
        BY DEF Init
    <2>2. \A c \in AClients : /\ aPc[c] = "start" /\ aStatus[c] = "none" /\ aPlace[c] = 1 /\ aSubject[c] = c
                             /\ \A k \in A!Places : aSteps[c][k] = "none"
        BY DEF A!Init
    <2>4. ASSUME NEW r \in AClients PROVE AGood(r)
        <3>1. AShape(r)
            BY <2>2, APlaces DEF AShape, ADecided
        <3> QED BY <2>2, <3>1 DEF AGood, AExcludes, A!Running, ASubmits, AKnows, AHandles, ARejects, AApproves
    <2> QED BY <2>4, AOkStarts DEF AInv
<1>2. AInv /\ [Next]_vars => AInv'
    <2> SUFFICES ASSUME AInv, [Next]_vars PROVE AInv'
        OBVIOUS
    <2>1. CASE ApprovalsMove
        <3>1. PICK c \in AClients : A!Act(c) \/ A!Dies(c)
            BY <2>1 DEF ApprovalsMove, A!Next
        <3>2. AOk /\ AOk' /\ aJob' = aJob /\ aCrossed \subseteq aCrossed'
            BY <3>1, ABaseKept, ALocal DEF AInv, AOk
        <3>3. ASSUME NEW r \in AClients \ aCrossed', aJob[r] = "submit" PROVE AGood(r)'
            <4>1. AGood(r)
                BY <3>2, <3>3 DEF AInv
            <4>2. CASE aSubject'[c] = r
                BY <3>1, <3>2, <3>3, <4>1, <4>2, AGoodKept
            <4>3. CASE aSubject'[c] # r /\ aSubject[c] # r
                BY <3>1, <3>2, <3>3, <4>1, <4>3, AAside
            <4>4. CASE aSubject'[c] # r /\ aSubject[c] = r
                <5>1. AStep(c) /\ ABase(c)
                    BY <3>1, <3>2, AMoves DEF AOk
                <5>2. c = r
                    BY <4>4, <5>1 DEF AStep, ACancels, ACreates, AInserts, ALoads, ALooks, ATakes, AActsOn,
                        ADecides, APosts, ADies, ABase
                <5> QED BY <3>2, <3>3, <4>4, <5>2 DEF AOk, ABase
            <4> QED BY <4>2, <4>3, <4>4
        <3> QED BY <3>2, <3>3 DEF AInv
    <2>2. CASE UNCHANGED aVars
        <3>1. UNCHANGED <<aJob, aStatus, aSteps, aDeaths, aCrossed, aLate, aPc, aSubject, aPlace>>
            BY <2>2 DEF aVars
        <3>2. ATypes' <=> ATypes
            BY <3>1 DEF ATypes
        <3>3. \A c : ABase(c)' <=> ABase(c)
            BY <3>1 DEF ABase, AHandles
        <3>4. \A r : (AExcludes(r)' <=> AExcludes(r)) /\ (ASubmits(r)' <=> ASubmits(r)) /\ (AShape(r)' <=> AShape(r))
            BY <3>1 DEF AExcludes, ASubmits, AShape, ADecided, A!Running, A!Ended
        <3>5. \A r, c : AKnows(r, c)' <=> AKnows(r, c)
            BY <3>1 DEF AKnows, AHandles, ADecided, A!Pending
        <3>6. \A r : (ARejects(r)' <=> ARejects(r)) /\ (AApproves(r)' <=> AApproves(r))
            BY <3>1 DEF ARejects, AApproves, ADecided, ARejecting, A!HalfRejected
        <3>7. \A r : AGood(r)' <=> AGood(r)
            BY <3>4, <3>5, <3>6 DEF AGood
        <3> QED BY <3>1, <3>2, <3>3, <3>7 DEF AInv, AOk
    <2>3. CASE DocumentsMove \/ StockMoves \/ InvoicesMove \/ YearMoves \/ BankMoves
               \/ WikiMoves \/ EInvoicesMove
        BY <2>2, <2>3 DEF DocumentsMove, StockMoves, InvoicesMove, YearMoves, BankMoves,
            WikiMoves, EInvoicesMove
    <2>4. CASE UNCHANGED vars
        BY <2>2, <2>4 DEF vars
    <2> QED BY <2>1, <2>3, <2>4 DEF Next
<1> QED BY <1>1, <1>2, PTL DEF Spec

\* Nobody decides a step, and no request is approved, before the steps ahead of it
\* are, however approvers race, submissions and rejections run and clients die:
\* on every request on which no submission and no rejection met another client.
THEOREM ApprovalsFollowChain == Spec => []ChainIsFollowed
<1>1. AInv => A!ChainIsFollowed
    <2> SUFFICES ASSUME AInv, NEW r \in AClients \ aCrossed, NEW k \in 1..A!Finish, A!Decided(r, k),
                        NEW j \in 1..(k - 1)
                 PROVE  \/ aSteps[r][j] = "approved"
                        \/ aSteps[r][j] = "none" /\ aPc[r] = "dead"
                        \/ aSteps[r][j] = "rejected" /\ A!HalfRejected(r)
        BY DEF A!ChainIsFollowed
    <2>1. j \in A!Places /\ k \in Nat /\ j < k
        BY APlaces DEF A!Finish
    <2>0. AGood(r)
        <3>1. aStatus[r] # "none"
            <4>1. CASE k = A!Finish
                BY <4>1 DEF A!Decided
            <4>2. CASE k # A!Finish
                <5>1. k \in A!Places /\ aSteps[r][k] # "none"
                    BY <4>2, APlaces DEF A!Finish, A!Decided
                <5> QED BY <5>1 DEF AInv, AOk, ABase
            <4> QED BY <4>1, <4>2
        <3> QED BY <3>1 DEF AInv, AOk, ABase
    <2>2. CASE k = A!Finish
        BY <2>0, <2>1, <2>2 DEF AGood, AApproves, A!Decided
    <2>3. CASE k # A!Finish
        <3>1. k \in A!Places /\ ADecided(r, k)
            BY <2>3, APlaces DEF A!Finish, A!Decided, ADecided
        <3>2. ADecided(r, j)
            BY <2>0, <3>1 DEF AGood, AShape
        <3>3. aSteps[r][j] = "rejected" => A!HalfRejected(r)
            BY <2>0, <2>1, <3>1 DEF AGood, ARejects
        <3> QED BY <3>2, <3>3 DEF ADecided
    <2> QED BY <2>2, <2>3
<1>2. AInv => ChainIsFollowed
    BY <1>1 DEF ChainIsFollowed
<1> QED BY <1>2, ApprovalsInvariant, PTL

\* Who may still decide a decided request held it when it was decided.
ADone(r) == aStatus[r] \in {"approved", "rejected", "cancelled"}
ALate ==
    \A r, c \in AClients : ADone(r) /\ aSubject[c] = r /\ aPc[c] \in {"role", "take", "save", "advance", "finalize"}
        => c \in aLate[r]

LEMMA ALateKept ==
    ASSUME AOk, ALate, NEW c \in AClients, A!Act(c) \/ A!Dies(c) PROVE ALate'
<1>l. \A x \in AClients \ {c} : aPc'[x] = aPc[x] /\ aSubject'[x] = aSubject[x]
    BY ALocal DEF AOk
<1>m. AStep(c) /\ aSubject[c] \in AClients /\ (AHandles(c) => aStatus[aSubject[c]] # "none")
    BY AMoves DEF AOk, ABase, ATypes
<1>h. \A r, x \in AClients : x \in A!Holders(r) <=> A!Running(x) /\ aSubject[x] = r
    BY DEF A!Holders
<1>a. ASSUME NEW r \in AClients, NEW x \in AClients, ADone(r)', aSubject'[x] = r,
             aPc'[x] \in {"role", "take", "save", "advance", "finalize"}
      PROVE  x \in aLate'[r]
    <2>1. CASE ACancels(c)
        <3>1. x # c /\ A!Running(x) /\ aSubject[x] = r
            BY <1>l, <1>a, <2>1 DEF ACancels, A!Running, A!Ended
        <3> QED BY <1>h, <1>l, <1>a, <2>1, <3>1 DEF ACancels, ALate, ADone
    <2>2. CASE ACreates(c)
        BY <1>l, <1>a, <2>2 DEF ACreates, ALate, ADone
    <2>3. CASE AInserts(c)
        BY <1>l, <1>a, <2>3 DEF AInserts, ALate, ADone
    <2>4. CASE ALoads(c)
        BY <1>l, <1>a, <2>4 DEF ALoads, ALate, ADone
    <2>5. CASE ALooks(c) \/ ATakes(c)
        BY <1>l, <1>a, <2>5 DEF ALooks, ATakes, ALate, ADone
    <2>6. CASE AActsOn(c)
        BY <1>l, <1>a, <2>6 DEF AActsOn, ALate, ADone
    <2>7. CASE ADecides(c)
        <3>1. x # c /\ A!Running(x) /\ aSubject[x] = r
            BY <1>l, <1>a, <2>7 DEF ADecides, A!Running, A!Ended
        <3>2. r = aSubject[c] => aStatus[r] # "none"
            BY <1>m, <2>7 DEF ADecides, AHandles
        <3>3. CASE r = aSubject[c] /\ aStatus[r] = "pending"
            BY <1>h, <2>7, <3>1, <3>3 DEF ADecides
        <3>4. CASE ADone(r)
            BY <1>l, <1>a, <2>7, <3>1, <3>4 DEF ADecides, ALate, ADone
        <3>5. aStatus[r] \in {"none", "pending", "approved", "rejected", "cancelled"}
            BY DEF AOk, ATypes, AStates
        <3> QED BY <1>a, <2>7, <3>2, <3>3, <3>4, <3>5 DEF ADecides, ADone
    <2>8. CASE APosts(c) \/ ADies(c)
        BY <1>l, <1>a, <2>8 DEF APosts, ADies, ALate, ADone
    <2> QED BY <1>m, <2>1, <2>2, <2>3, <2>4, <2>5, <2>6, <2>7, <2>8 DEF AStep
<1> QED BY <1>a DEF ALate

\* A step on a decided request is one of a client that held it then.
LEMMA ADoneKept ==
    ASSUME AOk, ALate, NEW c \in AClients, A!Act(c) \/ A!Dies(c), NEW r \in AClients, ADone(r),
           \/ aStatus'[r] # aStatus[r]
           \/ \E k \in A!Places : aSteps'[r][k] # aSteps[r][k] /\ aSteps'[r][k] # "pending"
    PROVE  /\ c \in aLate[r] /\ c \in A!Holders(r) /\ aPc[c] \in {"save", "finalize"} /\ aPc'[c] # aPc[c]
<1>m. AStep(c) /\ (aPc[c] \in {"create"} => aStatus[c] = "none")
    BY AMoves DEF AOk, ABase
<1>1. CASE AActsOn(c) \/ ADecides(c)
    <2>1. aSubject[c] = r /\ aPc[c] \in {"save", "finalize"} /\ aPc'[c] # aPc[c]
        BY <1>1 DEF AActsOn, ADecides
    <2> QED BY <2>1 DEF ALate, A!Holders, A!Running, A!Ended
<1>2. CASE ACancels(c) \/ ACreates(c) \/ AInserts(c)
    BY <1>m, <1>2 DEF ACancels, ACreates, AInserts, ADone
<1>3. CASE ALoads(c) \/ ALooks(c) \/ ATakes(c) \/ APosts(c) \/ ADies(c)
    BY <1>3 DEF ALoads, ALooks, ATakes, APosts, ADies
<1> QED BY <1>m, <1>1, <1>2, <1>3 DEF AStep

\* What is approved, rejected or cancelled stays so and takes no more verdicts,
\* but for those of clients that held the request when it was decided, whoever
\* overlaps.
THEOREM DecisionsAreFinal == Spec => DecidedStaysDecided
<1> DEFINE Kept ==
        \A r \in AClients :
            /\ aStatus[r] \in {"approved", "rejected", "cancelled"}
            /\ \/ aStatus'[r] # aStatus[r]
               \/ \E k \in A!Places : aSteps'[r][k] # aSteps[r][k] /\ aSteps'[r][k] # "pending"
            => \E c \in aLate[r] : c \in A!Holders(r) /\ aPc[c] \in {"save", "finalize"} /\ aPc'[c] # aPc[c]
<1>1. Init => AOk /\ ALate
    <2>2. Init => ALate
        BY DEF Init, A!Init, ALate, ADone
    <2>3. Init => AOk
        BY AOkStarts
    <2> QED BY <2>2, <2>3
<1>2. AOk /\ ALate /\ [Next]_vars => (AOk /\ ALate)' /\ [Kept]_(A!vars)
    <2> SUFFICES ASSUME AOk, ALate, [Next]_vars PROVE (AOk /\ ALate)' /\ (Kept \/ UNCHANGED A!vars)
        OBVIOUS
    <2>1. CASE ApprovalsMove
        <3>1. PICK c \in AClients : A!Act(c) \/ A!Dies(c)
            BY <2>1 DEF ApprovalsMove, A!Next
        <3>2. Kept
            BY <3>1, ADoneKept DEF ADone
        <3> QED BY <3>1, <3>2, ABaseKept, ALateKept
    <2>2. CASE UNCHANGED aVars
        <3>1. UNCHANGED <<aJob, aStatus, aSteps, aPosted, aDeaths, aCrossed, aLate, aPc, aSubject, aPlace>>
            BY <2>2 DEF aVars
        <3>2. ATypes' /\ ALate'
            BY <3>1 DEF AOk, ATypes, ALate, ADone
        <3>3. \A c : ABase(c)' <=> ABase(c)
            BY <3>1 DEF ABase, AHandles
        <3> QED BY <3>1, <3>2, <3>3 DEF AOk, A!vars
    <2>3. CASE DocumentsMove \/ StockMoves \/ InvoicesMove \/ YearMoves \/ BankMoves
               \/ WikiMoves \/ EInvoicesMove
        BY <2>2, <2>3 DEF DocumentsMove, StockMoves, InvoicesMove, YearMoves, BankMoves,
            WikiMoves, EInvoicesMove
    <2>4. CASE UNCHANGED vars
        BY <2>2, <2>4 DEF vars
    <2> QED BY <2>1, <2>3, <2>4 DEF Next
<1> QED BY <1>1, <1>2, PTL DEF Spec, DecidedStaysDecided, A!DecidedStaysDecided

(***************************************************************************)
(* The bank statement.                                                     *)
(***************************************************************************)
\* The vouchers a statement line fits.
BFits(s) == B!ToSet(BCandidates[s])
\* The vouchers a transaction may still be matched with.
BLeft(s) == Seq(BFits(s))

\* What the statement, the matches and the requests hold.
BTypes ==
    /\ bStored \subseteq B!Transactions
    /\ bTodo \in [BRequests -> SUBSET B!Transactions]
    /\ bPc \in [BRequests -> {"start", "insert", "next", "consider", "insertMatch", "save", "ended", "dead"}]
    /\ DOMAIN bAt = BRequests /\ DOMAIN bListed = BRequests
    /\ \A x \in bMatches : x.by \in BRequests
    /\ \A q \in BRequests : bPc[q] \in {"consider", "insertMatch"} =>
          /\ bAt[q].left \in BLeft(bAt[q].txn[2])
          /\ bAt[q] = [txn |-> bAt[q].txn, left |-> bAt[q].left]

\* What a run is about to match.
BAtHand(q) == bPc[q] \in {"consider", "insertMatch"}

\* Runs that match at the same time have met.
BMeets == \A q, x \in BRequests : q # x /\ B!Matching(q) /\ B!Matching(x) => {q, x} \in bMet

\* A voucher is matched twice, or about to be, by runs that met.
BVouchers ==
    /\ \A x, y \in bMatches : x # y /\ x.voucher = y.voucher => B!FromRuns(x, y)
    /\ \A q \in BRequests, y \in bMatches :
          bPc[q] = "insertMatch" /\ y.voucher = Head(bAt[q].left) => {q, y.by} \in bMet

\* So is a transaction, or the run that matched it before died half way.
BTransactions ==
    /\ \A x, y \in bMatches : x # y /\ x.txn = y.txn => B!FromRuns(x, y) \/ B!HalfDone(x) \/ B!HalfDone(y)
    /\ \A q \in BRequests, y \in bMatches :
          /\ \/ B!Matching(q) /\ y.txn \in bTodo[q]
             \/ BAtHand(q) /\ y.txn = bAt[q].txn
          => {q, y.by} \in bMet \/ B!HalfDone(y)
    /\ \A y \in bMatches : \/ y.txn \in bReconciled \/ B!HalfDone(y)
                           \/ bPc[y.by] = "save" /\ bAt[y.by].txn = y.txn
    /\ \A q \in BRequests : BAtHand(q) => bAt[q].txn \notin bTodo[q]

\* What is flagged as reconciled has a match.
BFlags ==
    /\ \A t \in bReconciled : \E x \in bMatches : x.txn = t
    /\ \A q \in BRequests : bPc[q] = "save" => \E x \in bMatches : x.txn = bAt[q].txn

\* What a run has selected is before it, at hand, or could not be matched.
BRest ==
    /\ \A q \in BRequests : \A t \in bListed[q] \ bReconciled :
          \/ B!Matching(q) /\ t \in bTodo[q]
          \/ (BAtHand(q) \/ bPc[q] = "save") /\ t = bAt[q].txn
          \/ bPc[q] = "dead"
          \/ \A v \in BFits(t[2]) : B!Matched(v)
    /\ \A q \in BRequests : bPc[q] = "consider" => \A v \in BFits(bAt[q].txn[2]) :
          B!Matched(v) \/ \E i \in DOMAIN bAt[q].left : bAt[q].left[i] = v
    /\ \A q \in BRequests : bPc[q] = "start" \/ bPc[q] = "insert" => bListed[q] = {}

\* The inductive invariant of the matches.
BInv == BTypes /\ BMeets /\ BVouchers /\ BTransactions /\ BFlags /\ BRest

BServes(q) ==
    \/ B!InsertRows(q) \/ B!InsertRow(q) \/ B!ListUnreconciled(q) \/ B!NextTransaction(q)
    \/ B!Consider(q) \/ B!InsertMatch(q) \/ B!SaveTransaction(q) \/ B!Dies(q)

\* Each step of a request, point by point.
BKeeps == bMatches' = bMatches /\ bReconciled' = bReconciled

BUploads(q) ==
    /\ bPc[q] \in {"start", "insert"} /\ bPc'[q] = "insert"
    /\ BKeeps /\ bMet' = bMet /\ bListed'[q] = bListed[q]

BLists(q) ==
    /\ bPc[q] \in {"start", "insert"} /\ bPc'[q] = "next"
    /\ bTodo'[q] = bStored \ bReconciled /\ bListed'[q] = bStored \ bReconciled
    /\ \A y \in BRequests : B!Matching(y) => {q, y} \in bMet'
    /\ BKeeps

BPicks(q) ==
    /\ bPc[q] = "next" /\ bPc'[q] = "consider"
    /\ bAt'[q].txn \in bTodo[q] /\ bTodo'[q] = bTodo[q] \ {bAt'[q].txn}
    /\ \A v \in BFits(bAt'[q].txn[2]) : \E i \in DOMAIN bAt'[q].left : bAt'[q].left[i] = v
    /\ BKeeps /\ bMet' = bMet /\ bListed'[q] = bListed[q]

BEnds(q) ==
    /\ bPc[q] = "next" /\ bPc'[q] = "ended" /\ bTodo[q] = {}
    /\ BKeeps /\ bMet' = bMet /\ bListed'[q] = bListed[q]

BGivesUp(q) ==
    /\ bPc[q] = "consider" /\ bPc'[q] = "next" /\ bAt[q].left = <<>> /\ bTodo'[q] = bTodo[q]
    /\ BKeeps /\ bMet' = bMet /\ bListed'[q] = bListed[q]

BChooses(q) ==
    /\ bPc[q] = "consider" /\ bPc'[q] = "insertMatch" /\ ~B!Matched(Head(bAt[q].left))
    /\ bTodo'[q] = bTodo[q] /\ bAt'[q] = bAt[q]
    /\ BKeeps /\ bMet' = bMet /\ bListed'[q] = bListed[q]

BPasses(q) ==
    /\ bPc[q] = "consider" /\ bPc'[q] = "consider" /\ B!Matched(Head(bAt[q].left))
    /\ bAt[q].left # <<>> /\ bAt'[q].left = Tail(bAt[q].left) /\ bAt'[q].txn = bAt[q].txn
    /\ bTodo'[q] = bTodo[q] /\ BKeeps /\ bMet' = bMet /\ bListed'[q] = bListed[q]

BAdds(q) ==
    /\ bPc[q] = "insertMatch" /\ bPc'[q] = "save" /\ bReconciled' = bReconciled
    /\ bMatches' = bMatches \cup {[txn |-> bAt[q].txn, voucher |-> Head(bAt[q].left), by |-> q]}
    /\ bTodo'[q] = bTodo[q] /\ bAt'[q] = bAt[q] /\ bMet' = bMet /\ bListed'[q] = bListed[q]

BSaves(q) ==
    /\ bPc[q] = "save" /\ bPc'[q] = "next" /\ bMatches' = bMatches
    /\ bReconciled' = bReconciled \cup {bAt[q].txn}
    /\ bTodo'[q] = bTodo[q] /\ bMet' = bMet /\ bListed'[q] = bListed[q]

BStops(q) ==
    /\ bPc[q] \notin {"start", "ended", "dead"} /\ bPc'[q] = "dead" /\ bAt'[q] = bAt[q]
    /\ BKeeps /\ bMet' = bMet /\ bListed'[q] = bListed[q]

BStep(q) ==
    \/ BUploads(q) \/ BLists(q) \/ BPicks(q) \/ BEnds(q) \/ BGivesUp(q) \/ BChooses(q)
    \/ BPasses(q) \/ BAdds(q) \/ BSaves(q) \/ BStops(q)

\* A step changes its request's own variables; nothing stored or matched is undone.
LEMMA BLocal ==
    ASSUME BTypes, NEW q \in BRequests, BServes(q)
    PROVE  /\ \A x \in BRequests \ {q} :
                 bPc'[x] = bPc[x] /\ bTodo'[x] = bTodo[x] /\ bAt'[x] = bAt[x] /\ bListed'[x] = bListed[x]
           /\ bReconciled \subseteq bReconciled' /\ bMatches \subseteq bMatches' /\ bMet \subseteq bMet'
           /\ bPc[q] \notin {"ended", "dead"} /\ DOMAIN bAt' = BRequests /\ DOMAIN bListed' = BRequests
<1> USE DEF BTypes, B!Goto
<1>1. CASE B!InsertRows(q) \/ B!InsertRow(q)
    BY <1>1 DEF B!InsertRows, B!InsertRow
<1>2. CASE B!ListUnreconciled(q)
    BY <1>2 DEF B!ListUnreconciled
<1>3. CASE B!NextTransaction(q)
    BY <1>3 DEF B!NextTransaction
<1>4. CASE B!Consider(q)
    BY <1>4 DEF B!Consider
<1>5. CASE B!InsertMatch(q)
    BY <1>5 DEF B!InsertMatch
<1>6. CASE B!SaveTransaction(q) \/ B!Dies(q)
    BY <1>6 DEF B!SaveTransaction, B!Dies, B!Ended
<1> QED BY <1>1, <1>2, <1>3, <1>4, <1>5, <1>6 DEF BServes

\* The candidates after the first.
LEMMA BTails ==
    ASSUME NEW n, NEW s \in BLeft(n), s # <<>>
    PROVE  /\ Head(s) \in BFits(n) /\ Tail(s) \in BLeft(n)
           /\ \A i \in DOMAIN s : s[i] = Head(s) \/ \E j \in DOMAIN Tail(s) : Tail(s)[j] = s[i]
<1>1. s \in Seq(BFits(n))
    BY DEF BLeft
<1>2. /\ Head(s) \in BFits(n) /\ Tail(s) \in Seq(BFits(n)) /\ Head(s) = s[1]
      /\ Len(s) > 0 /\ Len(s) \in Nat /\ DOMAIN s = 1..Len(s)
      /\ DOMAIN Tail(s) = 1..(Len(s) - 1) /\ \A j \in 1..(Len(s) - 1) : Tail(s)[j] = s[j + 1]
    BY <1>1
<1>3. ASSUME NEW i \in DOMAIN s, i # 1
      PROVE  i - 1 \in DOMAIN Tail(s) /\ Tail(s)[i - 1] = s[i]
    BY <1>2, <1>3
<1> QED BY <1>2, <1>3 DEF BLeft

\* Every step is one of these, and keeps the types.
LEMMA BMoves ==
    ASSUME BTypes, NEW q \in BRequests, BServes(q) PROVE BTypes' /\ BStep(q)
<1>l. /\ \A x \in BRequests \ {q} : bPc'[x] = bPc[x] /\ bTodo'[x] = bTodo[x] /\ bAt'[x] = bAt[x]
      /\ DOMAIN bAt' = BRequests /\ DOMAIN bListed' = BRequests
    BY BLocal
\* The types, given what the step does to its own request.
<1>t. ASSUME bStored' \subseteq B!Transactions, bTodo' = [bTodo EXCEPT ![q] = bTodo'[q]],
             bTodo'[q] \subseteq B!Transactions, bPc' = [bPc EXCEPT ![q] = bPc'[q]],
             bPc'[q] \in {"insert", "next", "consider", "insertMatch", "save", "ended", "dead"},
             \A x \in bMatches' : x.by \in BRequests,
             bPc'[q] \in {"consider", "insertMatch"} =>
                 /\ bAt'[q].left \in BLeft(bAt'[q].txn[2])
                 /\ bAt'[q] = [txn |-> bAt'[q].txn, left |-> bAt'[q].left]
      PROVE  BTypes'
    <2>1. bTodo' \in [BRequests -> SUBSET B!Transactions]
        BY <1>t DEF BTypes
    <2>2. bPc' \in [BRequests -> {"start", "insert", "next", "consider", "insertMatch", "save", "ended", "dead"}]
        BY <1>t DEF BTypes
    <2>3. \A x \in BRequests : bPc'[x] \in {"consider", "insertMatch"} =>
                 /\ bAt'[x].left \in BLeft(bAt'[x].txn[2])
                 /\ bAt'[x] = [txn |-> bAt'[x].txn, left |-> bAt'[x].left]
        BY <1>l, <1>t DEF BTypes
    <2> QED BY <1>l, <1>t, <2>1, <2>2, <2>3 DEF BTypes
<1>1. CASE B!InsertRows(q)
    <2>1. /\ bPc[q] = "start" /\ bPc' = [bPc EXCEPT ![q] = "insert"]
          /\ bTodo' = [bTodo EXCEPT ![q] = {q} \X (BStatement \ BUnreadable)]
          /\ UNCHANGED <<bStored, bReconciled, bMatches, bMet, bListed>>
        BY <1>1 DEF B!InsertRows, B!Goto
    <2>2. bPc'[q] = "insert" /\ bTodo'[q] \subseteq B!Transactions
        BY <2>1 DEF BTypes, B!Transactions
    <2>3. BStep(q)
        BY <2>1, <2>2 DEF BStep, BUploads, BKeeps
    <2>4. BTypes'
        BY <1>t, <2>1, <2>2 DEF BTypes
    <2> QED BY <2>3, <2>4
<1>2. CASE B!InsertRow(q)
    <2>1. PICK t \in bTodo[q] : bStored' = bStored \cup {t} /\ bTodo' = [bTodo EXCEPT ![q] = @ \ {t}]
        BY <1>2 DEF B!InsertRow
    <2>2. bPc[q] = "insert" /\ UNCHANGED <<bReconciled, bMatches, bMet, bListed, bPc, bAt>>
        BY <1>2 DEF B!InsertRow
    <2>3. BStep(q)
        BY <2>2 DEF BStep, BUploads, BKeeps
    <2>4. BTypes'
        BY <2>1, <2>2 DEF BTypes
    <2> QED BY <2>3, <2>4
<1>3. CASE B!ListUnreconciled(q)
    <2>1. /\ bPc[q] \in {"start", "insert"} /\ bPc' = [bPc EXCEPT ![q] = "next"]
          /\ bTodo' = [bTodo EXCEPT ![q] = bStored \ bReconciled]
          /\ bListed' = [bListed EXCEPT ![q] = bStored \ bReconciled]
          /\ bMet' = bMet \cup {{q, x} : x \in {y \in BRequests : B!Matching(y)}}
          /\ UNCHANGED <<bStored, bReconciled, bMatches>>
        BY <1>3 DEF B!ListUnreconciled, B!Goto
    <2>2. /\ bPc'[q] = "next" /\ bTodo'[q] = bStored \ bReconciled /\ bListed'[q] = bStored \ bReconciled
          /\ \A y \in BRequests : B!Matching(y) => {q, y} \in bMet'
        BY <2>1 DEF BTypes
    <2>3. BStep(q)
        BY <2>1, <2>2 DEF BStep, BLists, BKeeps
    <2>4. BTypes'
        BY <1>t, <2>1, <2>2 DEF BTypes
    <2> QED BY <2>3, <2>4
<1>4. CASE B!NextTransaction(q)
    <2>1. bPc[q] = "next" /\ UNCHANGED <<bStored, bReconciled, bMatches, bMet, bListed>>
        BY <1>4 DEF B!NextTransaction
    <2>2. CASE bTodo[q] = {}
        <3>1. bPc' = [bPc EXCEPT ![q] = "ended"] /\ UNCHANGED <<bAt, bTodo>>
            BY <1>4, <2>2 DEF B!NextTransaction, B!Goto
        <3> QED BY <1>t, <2>1, <2>2, <3>1 DEF BTypes, BStep, BEnds, BKeeps
    <2>3. CASE bTodo[q] # {}
        <3>1. PICK t \in bTodo[q] : /\ bAt' = [bAt EXCEPT ![q] = [txn |-> t, left |-> BCandidates[t[2]]]]
                                   /\ bTodo' = [bTodo EXCEPT ![q] = @ \ {t}]
                                   /\ bPc' = [bPc EXCEPT ![q] = "consider"]
            BY <1>4, <2>3 DEF B!NextTransaction, B!Goto
        <3>2. /\ bPc'[q] = "consider" /\ bTodo'[q] = bTodo[q] \ {t}
              /\ bAt'[q] = [txn |-> t, left |-> BCandidates[t[2]]]
            BY <3>1 DEF BTypes
        <3>3. t \in B!Transactions /\ t[2] \in BStatement
            BY DEF BTypes, B!Transactions
        <3>4. BCandidates[t[2]] \in BLeft(t[2])
            BY <3>3, OfficeData DEF B!BankSets, BLeft, BFits
        <3>5. \A v \in BFits(t[2]) : \E i \in DOMAIN BCandidates[t[2]] : BCandidates[t[2]][i] = v
            BY DEF BFits, B!ToSet
        <3>6. bAt'[q].txn = t /\ bAt'[q].left = BCandidates[t[2]]
            BY <3>2
        <3>7. BStep(q)
            BY <2>1, <3>2, <3>5, <3>6 DEF BStep, BPicks, BKeeps
        <3>8. BTypes'
            BY <1>t, <2>1, <3>1, <3>2, <3>4, <3>6 DEF BTypes
        <3> QED BY <3>7, <3>8
    <2> QED BY <2>2, <2>3
<1>5. CASE B!Consider(q)
    <2>1. bPc[q] = "consider" /\ UNCHANGED <<bStored, bReconciled, bMatches, bMet, bListed, bTodo>>
        BY <1>5 DEF B!Consider
    <2>2. CASE bAt[q].left = <<>>
        <3>1. bPc' = [bPc EXCEPT ![q] = "next"]
            BY <1>5, <2>2 DEF B!Consider, B!Goto
        <3> QED BY <1>t, <2>1, <2>2, <3>1 DEF BTypes, BStep, BGivesUp, BKeeps
    <2>3. CASE bAt[q].left # <<>> /\ ~B!Matched(Head(bAt[q].left))
        <3>1. bPc' = [bPc EXCEPT ![q] = "insertMatch"] /\ bAt' = bAt
            BY <1>5, <2>3 DEF B!Consider, B!Goto, B!Takes
        <3> QED BY <1>t, <2>1, <2>3, <3>1 DEF BTypes, BStep, BChooses, BKeeps
    <2>4. CASE bAt[q].left # <<>> /\ B!Matched(Head(bAt[q].left))
        <3>1. bPc' = bPc /\ bAt' = [bAt EXCEPT ![q].left = Tail(@)]
            BY <1>5, <2>4 DEF B!Consider, B!Takes
        <3>2. bAt[q] = [txn |-> bAt[q].txn, left |-> bAt[q].left] /\ DOMAIN bAt = BRequests
            BY <2>1 DEF BTypes
        <3>3. bAt'[q] = [bAt[q] EXCEPT !.left = Tail(@)]
            BY <3>1, <3>2
        <3>4. bAt'[q] = [txn |-> bAt[q].txn, left |-> Tail(bAt[q].left)]
            BY <3>2, <3>3
        <3>5. bAt'[q].txn = bAt[q].txn /\ bAt'[q].left = Tail(bAt[q].left)
            BY <3>4
        <3>6. Tail(bAt[q].left) \in BLeft(bAt[q].txn[2])
            BY <2>1, <2>4, BTails DEF BTypes
        <3>7. BStep(q)
            BY <2>1, <2>4, <3>1, <3>5 DEF BStep, BPasses, BKeeps
        <3>8. BTypes'
            BY <1>t, <2>1, <3>1, <3>4, <3>5, <3>6 DEF BTypes
        <3> QED BY <3>7, <3>8
    <2> QED BY <2>2, <2>3, <2>4
<1>6. CASE B!InsertMatch(q)
    <2>1. bPc[q] = "insertMatch" /\ UNCHANGED <<bStored, bReconciled, bMet, bListed, bTodo, bAt>>
        BY <1>6 DEF B!InsertMatch
    <2>2. CASE bPc' = [bPc EXCEPT ![q] = "dead"] /\ bMatches' = bMatches
        BY <1>t, <2>1, <2>2 DEF BTypes, BStep, BStops, BKeeps
    <2>3. CASE /\ bPc' = [bPc EXCEPT ![q] = "save"]
               /\ bMatches' = bMatches \cup {[txn |-> bAt[q].txn, voucher |-> Head(bAt[q].left), by |-> q]}
        BY <1>t, <2>1, <2>3 DEF BTypes, BStep, BAdds
    <2> QED BY <1>6, <2>2, <2>3 DEF B!InsertMatch, B!Goto
<1>7. CASE B!SaveTransaction(q)
    <2>1. /\ bPc[q] = "save" /\ bPc' = [bPc EXCEPT ![q] = "next"]
          /\ bReconciled' = bReconciled \cup {bAt[q].txn}
          /\ UNCHANGED <<bStored, bMatches, bMet, bListed, bTodo>>
        BY <1>7 DEF B!SaveTransaction, B!Goto
    <2> QED BY <1>t, <2>1 DEF BTypes, BStep, BSaves
<1>8. CASE B!Dies(q)
    <2>1. /\ bPc[q] \notin {"start", "ended", "dead"} /\ bPc' = [bPc EXCEPT ![q] = "dead"]
          /\ bTodo' = [bTodo EXCEPT ![q] = {}]
          /\ UNCHANGED <<bStored, bReconciled, bMatches, bMet, bListed, bAt>>
        BY <1>8 DEF B!Dies, B!Ended, B!Goto
    <2>2. bPc'[q] = "dead" /\ bTodo'[q] = {}
        BY <2>1 DEF BTypes
    <2>3. BStep(q)
        BY <2>1, <2>2 DEF BStep, BStops, BKeeps
    <2>4. BTypes'
        BY <1>t, <2>1, <2>2 DEF BTypes
    <2> QED BY <2>3, <2>4
<1> QED BY <1>1, <1>2, <1>3, <1>4, <1>5, <1>6, <1>7, <1>8 DEF BServes

\* A run that starts has met those that are matching.
LEMMA BMeetsKept ==
    ASSUME BInv, NEW q \in BRequests, BServes(q) PROVE BMeets'
<1>l. /\ \A x \in BRequests \ {q} :
            bPc'[x] = bPc[x] /\ bTodo'[x] = bTodo[x] /\ bAt'[x] = bAt[x] /\ bListed'[x] = bListed[x]
      /\ bReconciled \subseteq bReconciled' /\ bMatches \subseteq bMatches' /\ bMet \subseteq bMet'
      /\ bPc[q] \notin {"ended", "dead"}
    BY BLocal DEF BInv
<1>m. BStep(q) /\ \A x \in bMatches : x.by \in BRequests
    BY BMoves DEF BInv, BTypes
<1>1. BMeets
    BY DEF BInv
<1>2. CASE BLists(q)
    BY <1>l, <1>1, <1>2 DEF BLists, BMeets, B!Matching
<1>3. CASE B!Matching(q)
    BY <1>l, <1>1, <1>3 DEF BMeets, B!Matching
<1>4. CASE BUploads(q)
    BY <1>l, <1>1, <1>4 DEF BUploads, BMeets, B!Matching
<1>5. CASE BStops(q)
    BY <1>l, <1>1, <1>5 DEF BStops, BMeets, B!Matching
<1> QED BY <1>m, <1>2, <1>3, <1>4, <1>5 DEF BStep, B!Matching, BPicks, BEnds, BGivesUp, BChooses, BPasses,
        BAdds, BSaves

\* Who matches a voucher that has got a match since it was looked for has met its owner.
LEMMA BVouchersKept ==
    ASSUME BInv, NEW q \in BRequests, BServes(q) PROVE BVouchers'
<1>l. /\ \A x \in BRequests \ {q} :
            bPc'[x] = bPc[x] /\ bTodo'[x] = bTodo[x] /\ bAt'[x] = bAt[x] /\ bListed'[x] = bListed[x]
      /\ bReconciled \subseteq bReconciled' /\ bMatches \subseteq bMatches' /\ bMet \subseteq bMet'
      /\ bPc[q] \notin {"ended", "dead"}
    BY BLocal DEF BInv
<1>m. BStep(q) /\ \A x \in bMatches : x.by \in BRequests
    BY BMoves DEF BInv, BTypes
<1>1. BVouchers /\ BMeets
    BY DEF BInv
<1>2. CASE BAdds(q)
    <2> DEFINE n == [txn |-> bAt[q].txn, voucher |-> Head(bAt[q].left), by |-> q]
    <2>1. /\ bMatches' = bMatches \cup {n} /\ bPc[q] = "insertMatch" /\ bPc'[q] = "save" /\ bMet' = bMet
          /\ n.voucher = Head(bAt[q].left) /\ n.by = q
        BY <1>2 DEF BAdds
    <2> HIDE DEF n
    <2>2. \A y \in bMatches : y.voucher = n.voucher => {q, y.by} \in bMet /\ {y.by, q} \in bMet
        <3>1. \A y : {q, y.by} = {y.by, q}
            OBVIOUS
        <3> QED BY <1>1, <2>1, <3>1 DEF BVouchers
    <2>3. \A x, y \in bMatches' : x # y /\ x.voucher = y.voucher => {x.by, y.by} \in bMet
        BY <1>1, <2>1, <2>2 DEF BVouchers, B!FromRuns
    <2>4. ASSUME NEW x \in BRequests, bPc'[x] = "insertMatch", NEW y \in bMatches', y.voucher = Head(bAt'[x].left)
          PROVE  {x, y.by} \in bMet'
        <3>1. x # q /\ bPc[x] = "insertMatch" /\ bAt'[x] = bAt[x]
            BY <1>l, <2>1, <2>4
        <3>2. CASE y \in bMatches
            BY <1>1, <2>1, <2>4, <3>1, <3>2 DEF BVouchers
        <3>3. CASE y = n
            BY <1>1, <2>1, <3>1, <3>3 DEF BMeets, B!Matching
        <3> QED BY <2>1, <3>2, <3>3
    <2> QED BY <2>1, <2>3, <2>4 DEF BVouchers, B!FromRuns
<1>3. CASE BChooses(q)
    <2>1. \A y \in bMatches : y.voucher # Head(bAt[q].left)
        BY <1>3 DEF BChooses, B!Matched
    <2> QED BY <1>l, <1>1, <1>3, <2>1 DEF BChooses, BKeeps, BVouchers, B!FromRuns
<1>4. CASE bMatches' = bMatches /\ bPc'[q] # "insertMatch"
    BY <1>l, <1>1, <1>4 DEF BVouchers, B!FromRuns
<1> QED BY <1>m, <1>2, <1>3, <1>4 DEF BStep, BKeeps, BUploads, BLists, BPicks, BEnds, BGivesUp, BPasses,
        BSaves, BStops

\* Who matches a transaction that has got a match since it was selected has met its
\* owner, unless that one died half way.
LEMMA BTransactionsKept ==
    ASSUME BInv, NEW q \in BRequests, BServes(q) PROVE BTransactions'
<1>l. /\ \A x \in BRequests \ {q} :
            bPc'[x] = bPc[x] /\ bTodo'[x] = bTodo[x] /\ bAt'[x] = bAt[x] /\ bListed'[x] = bListed[x]
      /\ bReconciled \subseteq bReconciled' /\ bMatches \subseteq bMatches' /\ bMet \subseteq bMet'
      /\ bPc[q] \notin {"ended", "dead"}
    BY BLocal DEF BInv
<1>m. BStep(q) /\ \A x \in bMatches : x.by \in BRequests
    BY BMoves DEF BInv, BTypes
<1>1. BTransactions /\ BMeets
    BY DEF BInv
<1>h. \A y \in bMatches : B!HalfDone(y) => B!HalfDone(y)'
    BY <1>l, <1>m DEF B!HalfDone
<1>a. ASSUME bMatches' = bMatches
      PROVE  \A x, y \in bMatches' : x # y /\ x.txn = y.txn =>
                (B!FromRuns(x, y) \/ B!HalfDone(x) \/ B!HalfDone(y))'
    BY <1>l, <1>h, <1>1, <1>a DEF BTransactions, B!FromRuns
\* Matches of other runs are settled as before.
<1>b. \A y \in bMatches : y.by # q =>
          \/ y.txn \in bReconciled' \/ B!HalfDone(y)'
          \/ bPc'[y.by] = "save" /\ bAt'[y.by].txn = y.txn
    BY <1>l, <1>m, <1>h, <1>1 DEF BTransactions
\* What the other runs have before them is as before.
<1>c. \A x \in BRequests \ {q}, y \in bMatches :
          /\ \/ B!Matching(x)' /\ y.txn \in bTodo'[x]
             \/ BAtHand(x)' /\ y.txn = bAt'[x].txn
          => {x, y.by} \in bMet' \/ B!HalfDone(y)'
    BY <1>l, <1>h, <1>1 DEF BTransactions, B!Matching, BAtHand
<1>d. \A x \in BRequests \ {q} : BAtHand(x)' => bAt'[x].txn \notin bTodo'[x]
    BY <1>l, <1>1 DEF BTransactions, BAtHand
\* What remains to be shown of the request itself, when no match is made.
<1>e. ASSUME bMatches' = bMatches,
             \A y \in bMatches :
                /\ \/ B!Matching(q)' /\ y.txn \in bTodo'[q]
                   \/ BAtHand(q)' /\ y.txn = bAt'[q].txn
                => {q, y.by} \in bMet' \/ B!HalfDone(y)',
             \A y \in bMatches : y.by = q =>
                \/ y.txn \in bReconciled' \/ B!HalfDone(y)'
                \/ bPc'[q] = "save" /\ bAt'[q].txn = y.txn,
             BAtHand(q)' => bAt'[q].txn \notin bTodo'[q]
      PROVE  BTransactions'
    <2>1. \A x \in BRequests, y \in bMatches' :
              /\ \/ B!Matching(x)' /\ y.txn \in bTodo'[x]
                 \/ BAtHand(x)' /\ y.txn = bAt'[x].txn
              => {x, y.by} \in bMet' \/ B!HalfDone(y)'
        BY <1>c, <1>e
    <2>2. \A y \in bMatches' : \/ y.txn \in bReconciled' \/ B!HalfDone(y)'
                               \/ bPc'[y.by] = "save" /\ bAt'[y.by].txn = y.txn
        BY <1>b, <1>e
    <2>3. \A x \in BRequests : BAtHand(x)' => bAt'[x].txn \notin bTodo'[x]
        BY <1>d, <1>e
    <2> QED BY <1>a, <1>e, <2>1, <2>2, <2>3 DEF BTransactions
\* A match of the request itself is settled unless it is saving.
<1>f. \A y \in bMatches : y.by = q => \/ y.txn \in bReconciled
                                      \/ bPc[q] = "save" /\ bAt[q].txn = y.txn
    <2>1. \A y \in bMatches : \/ y.txn \in bReconciled \/ B!HalfDone(y)
                              \/ bPc[y.by] = "save" /\ bAt[y.by].txn = y.txn
        BY <1>1 DEF BTransactions
    <2>2. \A y : y.by = q => ~B!HalfDone(y)
        BY <1>l DEF B!HalfDone
    <2> QED BY <2>1, <2>2
<1>g. \A y \in bMatches :
          /\ \/ B!Matching(q) /\ y.txn \in bTodo[q]
             \/ BAtHand(q) /\ y.txn = bAt[q].txn
          => {q, y.by} \in bMet' \/ B!HalfDone(y)'
    BY <1>l, <1>h, <1>1 DEF BTransactions
<1>2. CASE BUploads(q) \/ BEnds(q)
    BY <1>e, <1>f, <1>l, <1>2 DEF BUploads, BEnds, BKeeps, B!Matching, BAtHand
<1>3. CASE BLists(q)
    <2>1. \A y \in bMatches : y.txn \in bTodo'[q] => {q, y.by} \in bMet' \/ B!HalfDone(y)'
        <3> SUFFICES ASSUME NEW y \in bMatches, y.txn \notin bReconciled, ~B!HalfDone(y)
                     PROVE  {q, y.by} \in bMet'
            BY <1>h, <1>3 DEF BLists
        <3>1. bPc[y.by] = "save" /\ y.by \in BRequests
            BY <1>m, <1>1 DEF BTransactions
        <3> QED BY <1>3, <3>1 DEF BLists, B!Matching
    <2> QED BY <1>e, <1>f, <1>l, <1>3, <2>1 DEF BLists, BKeeps, B!Matching, BAtHand
<1>4. CASE BPicks(q)
    BY <1>e, <1>f, <1>g, <1>l, <1>4 DEF BPicks, BKeeps, B!Matching, BAtHand
<1>5. CASE BGivesUp(q)
    BY <1>e, <1>f, <1>g, <1>l, <1>5 DEF BGivesUp, BKeeps, B!Matching, BAtHand
<1>6. CASE BChooses(q) \/ BPasses(q)
    <2>1. bAt[q].txn \notin bTodo[q]
        BY <1>1, <1>6 DEF BTransactions, BAtHand, BChooses, BPasses
    <2> QED BY <1>e, <1>f, <1>g, <1>l, <1>6, <2>1 DEF BChooses, BPasses, BKeeps, B!Matching, BAtHand
<1>7. CASE BSaves(q)
    BY <1>e, <1>f, <1>g, <1>l, <1>7 DEF BSaves, B!Matching, BAtHand
<1>8. CASE BStops(q)
    <2>1. \A y \in bMatches : y.by = q => y.txn \in bReconciled' \/ B!HalfDone(y)'
        BY <1>f, <1>8 DEF BStops, BKeeps, B!HalfDone
    <2> QED BY <1>e, <1>8, <2>1 DEF BStops, BKeeps, B!Matching, BAtHand
<1>9. CASE BAdds(q)
    <2> DEFINE n == [txn |-> bAt[q].txn, voucher |-> Head(bAt[q].left), by |-> q]
    <2>1. /\ bMatches' = bMatches \cup {n} /\ bPc[q] = "insertMatch" /\ bPc'[q] = "save" /\ bMet' = bMet
          /\ bReconciled' = bReconciled /\ bTodo'[q] = bTodo[q] /\ bAt'[q] = bAt[q]
          /\ n.txn = bAt[q].txn /\ n.by = q
        BY <1>9 DEF BAdds
    <2> HIDE DEF n
    <2>2. \A y \in bMatches : y.txn = n.txn => \/ {q, y.by} \in bMet /\ {y.by, q} \in bMet
                                               \/ B!HalfDone(y)'
        <3>1. \A y : {q, y.by} = {y.by, q}
            OBVIOUS
        <3> QED BY <1>g, <2>1, <3>1 DEF BAtHand
    <2>3. \A x, y \in bMatches' : x # y /\ x.txn = y.txn =>
              (B!FromRuns(x, y) \/ B!HalfDone(x) \/ B!HalfDone(y))'
        <3>1. \A x, y \in bMatches : x # y /\ x.txn = y.txn =>
                  {x.by, y.by} \in bMet' \/ B!HalfDone(x)' \/ B!HalfDone(y)'
            BY <1>h, <1>1, <2>1 DEF BTransactions, B!FromRuns
        <3> QED BY <2>1, <2>2, <3>1 DEF B!FromRuns
    <2>4. ASSUME NEW x \in BRequests, NEW y \in bMatches',
                 \/ B!Matching(x)' /\ y.txn \in bTodo'[x]
                 \/ BAtHand(x)' /\ y.txn = bAt'[x].txn
          PROVE  {x, y.by} \in bMet' \/ B!HalfDone(y)'
        <3>1. CASE y \in bMatches
            BY <1>c, <1>g, <2>1, <2>4, <3>1 DEF B!Matching, BAtHand
        <3>2. CASE y = n
            <4>1. x # q
                BY <1>1, <2>1, <2>4, <3>2 DEF BTransactions, BAtHand
            <4>2. B!Matching(x) /\ B!Matching(q)
                BY <1>l, <2>1, <2>4, <4>1 DEF B!Matching, BAtHand
            <4> QED BY <1>1, <2>1, <3>2, <4>1, <4>2 DEF BMeets
        <3> QED BY <2>1, <3>1, <3>2
    <2>5. \A y \in bMatches' : \/ y.txn \in bReconciled' \/ B!HalfDone(y)'
                               \/ bPc'[y.by] = "save" /\ bAt'[y.by].txn = y.txn
        BY <1>b, <1>f, <2>1
    <2>6. \A x \in BRequests : BAtHand(x)' => bAt'[x].txn \notin bTodo'[x]
        BY <1>d, <2>1 DEF BAtHand
    <2> QED BY <2>3, <2>4, <2>5, <2>6 DEF BTransactions
<1> QED BY <1>m, <1>2, <1>3, <1>4, <1>5, <1>6, <1>7, <1>8, <1>9 DEF BStep

\* A transaction is flagged after it is matched.
LEMMA BFlagsKept ==
    ASSUME BInv, NEW q \in BRequests, BServes(q) PROVE BFlags'
<1>l. /\ \A x \in BRequests \ {q} :
            bPc'[x] = bPc[x] /\ bTodo'[x] = bTodo[x] /\ bAt'[x] = bAt[x] /\ bListed'[x] = bListed[x]
      /\ bReconciled \subseteq bReconciled' /\ bMatches \subseteq bMatches' /\ bMet \subseteq bMet'
      /\ bPc[q] \notin {"ended", "dead"}
    BY BLocal DEF BInv
<1>m. BStep(q) /\ \A x \in bMatches : x.by \in BRequests
    BY BMoves DEF BInv, BTypes
<1>1. BFlags
    BY DEF BInv
<1>2. CASE BAdds(q)
    <2> DEFINE m == [txn |-> bAt[q].txn, voucher |-> Head(bAt[q].left), by |-> q]
    <2>0. m \in bMatches' /\ m.txn = bAt[q].txn
        BY <1>2 DEF BAdds
    <2>1. PICK n \in bMatches' : n.txn = bAt[q].txn
        BY <2>0
    <2> QED BY <1>l, <1>1, <1>2, <2>1 DEF BAdds, BFlags
<1>3. CASE BSaves(q)
    BY <1>l, <1>1, <1>3 DEF BSaves, BFlags
<1>4. CASE BKeeps /\ bPc'[q] # "save"
    BY <1>l, <1>1, <1>4 DEF BKeeps, BFlags
<1> QED BY <1>m, <1>2, <1>3, <1>4 DEF BStep, BUploads, BLists, BPicks, BEnds, BGivesUp, BChooses, BPasses,
        BStops

\* What is selected goes from the list to the hand and on.
LEMMA BRestKept ==
    ASSUME BInv, NEW q \in BRequests, BServes(q) PROVE BRest'
<1>l. /\ \A x \in BRequests \ {q} :
            bPc'[x] = bPc[x] /\ bTodo'[x] = bTodo[x] /\ bAt'[x] = bAt[x] /\ bListed'[x] = bListed[x]
      /\ bReconciled \subseteq bReconciled' /\ bMatches \subseteq bMatches' /\ bMet \subseteq bMet'
      /\ bPc[q] \notin {"ended", "dead"}
    BY BLocal DEF BInv
<1>m. BStep(q) /\ \A x \in bMatches : x.by \in BRequests
    BY BMoves DEF BInv, BTypes
<1>1. BRest
    BY DEF BInv
<1>v. \A v : B!Matched(v) => B!Matched(v)'
    BY <1>l DEF B!Matched
\* The other runs have what they had.
<1>o. \A x \in BRequests \ {q} :
          /\ \A t \in bListed'[x] \ bReconciled' :
                \/ B!Matching(x)' /\ t \in bTodo'[x]
                \/ (BAtHand(x)' \/ bPc'[x] = "save") /\ t = bAt'[x].txn
                \/ bPc'[x] = "dead"
                \/ \A v \in BFits(t[2]) : B!Matched(v)'
          /\ bPc'[x] = "consider" => \A v \in BFits(bAt'[x].txn[2]) :
                B!Matched(v)' \/ \E i \in DOMAIN bAt'[x].left : bAt'[x].left[i] = v
          /\ bPc'[x] = "start" \/ bPc'[x] = "insert" => bListed'[x] = {}
    BY <1>l, <1>v, <1>1 DEF BRest, B!Matching, BAtHand
\* What the request has itself.
<1>a. ASSUME NEW t \in bListed'[q] \ bReconciled'
      PROVE  \/ B!Matching(q)' /\ t \in bTodo'[q]
             \/ (BAtHand(q)' \/ bPc'[q] = "save") /\ t = bAt'[q].txn
             \/ bPc'[q] = "dead"
             \/ \A v \in BFits(t[2]) : B!Matched(v)'
    <2>1. CASE BLists(q)
        BY <1>a, <2>1 DEF BLists, B!Matching
    <2>2. CASE bListed'[q] = bListed[q]
        <3>1. \/ B!Matching(q) /\ t \in bTodo[q]
              \/ (BAtHand(q) \/ bPc[q] = "save") /\ t = bAt[q].txn
              \/ \A v \in BFits(t[2]) : B!Matched(v)
            BY <1>l, <1>1, <1>a, <2>2 DEF BRest
        <3>2. CASE BUploads(q) \/ BEnds(q) \/ BStops(q)
            BY <1>l, <1>v, <3>1, <3>2 DEF BUploads, BEnds, BStops, B!Matching, BAtHand
        <3>3. CASE BPicks(q)
            BY <1>v, <3>1, <3>3 DEF BPicks, B!Matching, BAtHand
        <3>4. CASE BGivesUp(q)
            <4>1. \A v \in BFits(bAt[q].txn[2]) : B!Matched(v)
                BY <1>1, <3>4 DEF BGivesUp, BRest
            <4> QED BY <1>v, <3>1, <3>4, <4>1 DEF BGivesUp, B!Matching, BAtHand
        <3>5. CASE BChooses(q) \/ BPasses(q) \/ BAdds(q)
            BY <1>v, <3>1, <3>5 DEF BChooses, BPasses, BAdds, B!Matching, BAtHand
        <3>6. CASE BSaves(q)
            BY <1>v, <1>a, <3>1, <3>6 DEF BSaves, B!Matching, BAtHand
        <3> QED BY <1>m, <2>1, <3>2, <3>3, <3>4, <3>5, <3>6 DEF BStep
    <2> QED BY <1>m, <2>1, <2>2 DEF BStep, BUploads, BPicks, BEnds, BGivesUp, BChooses, BPasses, BAdds,
            BSaves, BStops
<1>b. ASSUME bPc'[q] = "consider", NEW v \in BFits(bAt'[q].txn[2])
      PROVE  B!Matched(v)' \/ \E i \in DOMAIN bAt'[q].left : bAt'[q].left[i] = v
    <2>1. CASE BPicks(q)
        BY <1>b, <2>1 DEF BPicks
    <2>2. CASE BPasses(q)
        <3>1. bAt[q].left \in BLeft(bAt[q].txn[2]) /\ bAt[q].left # <<>>
            BY <2>2 DEF BInv, BTypes, BPasses
        <3>2. B!Matched(v) \/ \E i \in DOMAIN bAt[q].left : bAt[q].left[i] = v
            BY <1>1, <1>b, <2>2 DEF BRest, BPasses
        <3>3. B!Matched(Head(bAt[q].left)) /\ bAt'[q].left = Tail(bAt[q].left)
            BY <2>2 DEF BPasses
        <3> QED BY <1>v, <3>1, <3>2, <3>3, BTails
    <2> QED BY <1>m, <1>b, <2>1, <2>2 DEF BStep, BUploads, BLists, BEnds, BGivesUp, BChooses, BAdds,
            BSaves, BStops
<1>c. bPc'[q] = "start" \/ bPc'[q] = "insert" => bListed'[q] = {}
    BY <1>m, <1>1 DEF BRest, BStep, BUploads, BLists, BPicks, BEnds, BGivesUp, BChooses, BPasses, BAdds,
        BSaves, BStops
<1> QED BY <1>o, <1>a, <1>b, <1>c DEF BRest

\* The inductive invariant of the bank statements.
LEMMA BankInvariant == Spec => []BInv
<1>1. Init => BInv
    <2> SUFFICES ASSUME B!Init PROVE BInv
        BY DEF Init
    <2>1. /\ bStored = {} /\ bReconciled = {} /\ bMatches = {}
          /\ \A q \in BRequests : bPc[q] = "start" /\ bListed[q] = {}
          /\ bPc = [q \in BRequests |-> "start"] /\ bTodo = [q \in BRequests |-> {}]
          /\ DOMAIN bAt = BRequests /\ DOMAIN bListed = BRequests
        BY DEF B!Init
    <2>2. BTypes
        BY <2>1 DEF BTypes
    <2>3. BMeets /\ BVouchers /\ BTransactions /\ BFlags /\ BRest
        BY <2>1 DEF BMeets, BVouchers, BTransactions, BFlags, BRest, B!Matching, BAtHand
    <2> QED BY <2>2, <2>3 DEF BInv
<1>2. BInv /\ [Next]_vars => BInv'
    <2> SUFFICES ASSUME BInv, [Next]_vars PROVE BInv'
        OBVIOUS
    <2>1. CASE BankMoves
        <3>1. PICK q \in BRequests : BServes(q)
            BY <2>1 DEF BankMoves, B!Next, BServes
        <3>2. BTypes'
            BY <3>1, BMoves DEF BInv
        <3> QED BY <3>1, <3>2, BMeetsKept, BVouchersKept, BTransactionsKept, BFlagsKept, BRestKept DEF BInv
    <2>2. CASE UNCHANGED bVars
        <3>1. UNCHANGED <<bStored, bReconciled, bMatches, bMet, bListed, bPc, bTodo, bAt>>
            BY <2>2 DEF bVars
        <3>2. (BTypes' <=> BTypes) /\ (BFlags' <=> BFlags)
            BY <3>1 DEF BTypes, BFlags
        <3>3. (BMeets' <=> BMeets) /\ (BVouchers' <=> BVouchers)
            BY <3>1 DEF BMeets, BVouchers, B!Matching, B!FromRuns
        <3>4. BTransactions' <=> BTransactions
            BY <3>1 DEF BTransactions, B!Matching, BAtHand, B!FromRuns, B!HalfDone
        <3>5. BRest' <=> BRest
            BY <3>1 DEF BRest, B!Matching, BAtHand, B!Matched
        <3> QED BY <3>2, <3>3, <3>4, <3>5 DEF BInv
    <2>3. CASE DocumentsMove \/ ApprovalsMove \/ StockMoves \/ InvoicesMove \/ YearMoves
               \/ WikiMoves \/ EInvoicesMove
        BY <2>2, <2>3 DEF DocumentsMove, ApprovalsMove, StockMoves, InvoicesMove, YearMoves,
            WikiMoves, EInvoicesMove
    <2>4. CASE UNCHANGED vars
        BY <2>2, <2>4 DEF vars
    <2> QED BY <2>1, <2>3, <2>4 DEF Next
<1> QED BY <1>1, <1>2, PTL DEF Spec

\* Whatever runs overlap and die, only runs that met match a voucher twice, and
\* only they, or one after a run that died half way, a transaction; what is flagged
\* has a match, and a finished run leaves nothing it selected unmatched while a
\* candidate of it is free.
THEOREM MatchingIsRight == Spec => []MatchesAreRight
<1>1. BInv => B!MatchesAreRight
    <2> SUFFICES ASSUME BInv PROVE B!MatchesAreRight
        OBVIOUS
    <2>1. ASSUME NEW q \in BRequests, bPc[q] = "ended", NEW t \in bListed[q] \ bReconciled
          PROVE  \A v \in BFits(t[2]) : B!Matched(v)
        BY <2>1 DEF BInv, BRest, B!Matching, BAtHand
    <2> QED BY <2>1 DEF BInv, BFits, BVouchers, BTransactions, BFlags, B!MatchesAreRight
<1>2. BInv => MatchesAreRight
    BY <1>1 DEF MatchesAreRight
<1> QED BY <1>2, BankInvariant, PTL

(***************************************************************************)
(* E-invoices.                                                             *)
(***************************************************************************)
\* A row has these three columns.
ERow(x) == x = [status |-> x.status, no |-> x.no, month |-> x.month]
\* What the tables of the e-invoices hold.
ETypes ==
    /\ eJob \in EPlans /\ eToday \in E!Months /\ eIrregular \in BOOLEAN
    /\ DOMAIN eRow = ERequests /\ DOMAIN eCopy = ERequests /\ DOMAIN ePc = ERequests
    /\ \A r \in ERequests : ERow(eRow[r]) /\ ERow(eCopy[r])

\* An e-invoice exists once its request has started, and before anyone loads it.
EExists(r) ==
    /\ ePc[r] = "start" => eRow[r] = E!Absent
    /\ ePc[r] \notin {"start", "ended"} => eCopy[r] # E!Absent /\ eRow[E!Of(r)] # E!Absent

\* The numbers given out in a series.
ENumbers(m) ==
    {eRow[e].no : e \in E!IssuedIn(m)} = {<<m, n>> : n \in 1..Cardinality(E!IssuedIn(m))}

\* The inductive invariant of the numbers.
EInv ==
    /\ ETypes /\ \A r \in ERequests : EExists(r)
    /\ ~eIrregular => \A m \in E!Months : ENumbers(m)

\* Finite sets of the module are finite sets of this one.
LEMMA EFinite == ASSUME NEW T PROVE E!IsFiniteSet(T) <=> IsFiniteSet(T)
BY DEF E!IsFiniteSet, IsFiniteSet

\* Cardinality in EInvoices is that of FiniteSets.
LEMMA ECardinality == ASSUME NEW T PROVE E!Cardinality(T) = Cardinality(T)
BY DEF E!Cardinality, Cardinality

\* Whose e-invoice a request is about.
LEMMA EOf ==
    ASSUME ETypes, NEW r \in ERequests
    PROVE  E!Of(r) \in ERequests
BY OfficeData DEF ETypes, E!EInvoiceSets, E!Of, E!Op

\* Rows that keep what they say, or were and are not issued, keep the numbers.
LEMMA ENumbersKept ==
    ASSUME \A m \in E!Months : ENumbers(m),
           \A e \in ERequests : eRow'[e] = eRow[e]
                                \/ (eRow[e].status # "issued" /\ eRow'[e].status # "issued")
    PROVE  \A m \in E!Months : ENumbers(m)'
<1>1. TAKE m \in E!Months
<1>2. E!IssuedIn(m)' = E!IssuedIn(m) /\ \A e \in E!IssuedIn(m) : eRow'[e].no = eRow[e].no
    BY DEF E!IssuedIn
<1> QED BY <1>2 DEF ENumbers

\* The next number continues the numbers of its month.
LEMMA ENumbersContinue ==
    ASSUME ETypes, \A m \in E!Months : ENumbers(m), NEW e \in ERequests, eRow[e].status # "issued",
           eRow' = [eRow EXCEPT ![e] = [status |-> "issued", no |-> <<eToday, E!Counted(eToday) + 1>>,
                                        month |-> eToday]]
    PROVE  \A m \in E!Months : ENumbers(m)'
<1>1. TAKE m \in E!Months
<1>2. /\ \A x \in ERequests \ {e} : eRow'[x] = eRow[x]
      /\ eRow'[e].status = "issued" /\ eRow'[e].no = <<eToday, E!Counted(eToday) + 1>>
      /\ eRow'[e].month = eToday
    BY DEF ETypes
<1>3. CASE m # eToday
    <2>1. E!IssuedIn(m)' = E!IssuedIn(m) /\ \A x \in E!IssuedIn(m) : eRow'[x].no = eRow[x].no
        BY <1>2, <1>3 DEF E!IssuedIn
    <2> QED BY <2>1 DEF ENumbers
<1>4. CASE m = eToday
    <2> DEFINE N == E!IssuedIn(m)
               c == Cardinality(N)
    <2>1. e \notin N /\ N \subseteq ERequests /\ E!IssuedIn(m)' = N \cup {e}
        BY <1>2, <1>4 DEF E!IssuedIn
    <2>2. IsFiniteSet(N) /\ c \in Nat /\ Cardinality(N \cup {e}) = c + 1
        <3>1. IsFiniteSet(ERequests)
            BY OfficeData, EFinite DEF E!EInvoiceSets
        <3>2. IsFiniteSet(N)
            BY <2>1, <3>1, FS_Subset
        <3> QED BY <2>1, <3>2, FS_AddElement, FS_CardinalityType
    <2>3. eRow'[e].no = <<m, c + 1>> /\ \A x \in N : eRow'[x].no = eRow[x].no
        <3>1. E!Counted(eToday) = c
            BY <1>4, ECardinality DEF E!Counted
        <3>2. \A x \in N : x \in ERequests \ {e}
            BY <2>1
        <3> QED BY <1>2, <1>4, <3>1, <3>2
    <2>4. {eRow[x].no : x \in N} = {<<m, n>> : n \in 1..c}
        BY DEF ENumbers
    <2> HIDE DEF N, c
    <2>5. {eRow'[x].no : x \in N \cup {e}} = {eRow[x].no : x \in N} \cup {<<m, c + 1>>}
        BY <2>3
    <2>6. {<<m, n>> : n \in 1..(c + 1)} = {<<m, n>> : n \in 1..c} \cup {<<m, c + 1>>}
        <3>1. 1..(c + 1) = 1..c \cup {c + 1}
            BY <2>2
        <3> QED BY <3>1
    <2>7. {eRow'[x].no : x \in N \cup {e}} = {<<m, n>> : n \in 1..(c + 1)}
        BY <2>4, <2>5, <2>6
    <2> QED BY <2>1, <2>2, <2>7 DEF ENumbers
<1> QED BY <1>3, <1>4

\* A saved row: it exists, and the others are as they were.
LEMMA ESaves ==
    ASSUME ETypes, NEW r \in ERequests, NEW new, ERow(new), new # E!Absent, E!Saves(r, new)
    PROVE  /\ DOMAIN eRow' = ERequests /\ \A x \in ERequests : ERow(eRow'[x])
           /\ eRow'[E!Of(r)] = new /\ \A x \in ERequests \ {E!Of(r)} : eRow'[x] = eRow[x]
           /\ \A x \in ERequests : eRow[x] # E!Absent => eRow'[x] # E!Absent
BY EOf DEF E!Saves, ETypes

\* Every request keeps the invariant.
LEMMA EServeKeeps ==
    ASSUME EInv, NEW r \in ERequests, E!Serve(r)
    PROVE  EInv'
<1>i. /\ ETypes /\ \A x \in ERequests : EExists(x)
      /\ ~eIrregular => \A m \in E!Months : ENumbers(m)
    BY DEF EInv
<1>o. /\ \A x \in ERequests : E!Of(x) \in ERequests
      /\ \A x \in ERequests : E!Op(x) \in {"issue", "adjust"} => E!Of(x) = x
    BY <1>i, EOf DEF E!Of
<1>j. UNCHANGED <<eJob, eToday>> => \A x : (E!Of(x))' = E!Of(x)
    BY DEF E!Of, E!Op
<1>a. E!Absent = [status |-> "absent", no |-> E!NoNumber, month |-> 0]
    BY DEF E!Absent
<1>b. E!Draft = [status |-> "draft", no |-> E!NoNumber, month |-> 0]
    BY DEF E!Draft, E!Absent
<1>1. CASE E!Create(r)
    <2>1. /\ ePc[r] = "start" /\ E!Op(r) \in {"issue", "adjust"} /\ E!Saves(r, E!Draft)
          /\ eCopy' = [eCopy EXCEPT ![r] = E!Draft]
          /\ ePc' = [ePc EXCEPT ![r] = IF E!Op(r) = "issue" THEN "attach" ELSE "ended"]
          /\ UNCHANGED <<eJob, eToday, eIrregular>>
        BY <1>1 DEF E!Create, E!Goto
    <2>2. ERow(E!Draft) /\ E!Draft # E!Absent
        BY <1>a, <1>b DEF ERow
    <2>3. /\ DOMAIN eRow' = ERequests /\ \A x \in ERequests : ERow(eRow'[x])
          /\ eRow'[r] = E!Draft /\ \A x \in ERequests \ {r} : eRow'[x] = eRow[x]
          /\ \A x \in ERequests : eRow[x] # E!Absent => eRow'[x] # E!Absent
        BY <1>i, <1>o, <2>1, <2>2, ESaves
    <2>4. ETypes'
        BY <1>i, <2>1, <2>2, <2>3 DEF ETypes
    <2>5. \A x \in ERequests : EExists(x)'
        BY <1>i, <1>o, <1>j, <2>1, <2>2, <2>3 DEF ETypes, EExists
    <2>6. eRow[r].status # "issued" /\ eRow'[r].status # "issued"
        BY <1>i, <1>a, <1>b, <2>1, <2>3 DEF EExists
    <2>7. ~eIrregular' => \A m \in E!Months : ENumbers(m)'
        <3>1. SUFFICES ASSUME ~eIrregular' PROVE \A m \in E!Months : ENumbers(m)'
            OBVIOUS
        <3>2. \A m \in E!Months : ENumbers(m)
            BY <1>i, <3>1, <2>1
        <3>3. \A e \in ERequests : eRow'[e] = eRow[e]
                                    \/ (eRow[e].status # "issued" /\ eRow'[e].status # "issued")
            BY <2>3, <2>6
        <3> QED BY <3>2, <3>3, ENumbersKept
    <2> QED BY <2>4, <2>5, <2>7 DEF EInv
<1>2. CASE E!Attach(r)
    <2>1. /\ ePc[r] \in {"attach", "render"} /\ ePc' = [ePc EXCEPT ![r] = "ended"]
          /\ UNCHANGED <<eJob, eToday, eCopy>>
        BY <1>2 DEF E!Attach, E!Goto
    <2>2. ERow(eCopy[r]) /\ eCopy[r] # E!Absent
        BY <1>i, <2>1 DEF ETypes, EExists
    <2>3. /\ DOMAIN eRow' = ERequests /\ \A x \in ERequests : ERow(eRow'[x])
          /\ \A x \in ERequests \ {E!Of(r)} : eRow'[x] = eRow[x]
          /\ \A x \in ERequests : eRow[x] # E!Absent => eRow'[x] # E!Absent
          /\ eRow'[E!Of(r)] \in {eRow[E!Of(r)], eCopy[r]}
        <3>1. CASE E!Saves(r, eCopy[r])
            BY <1>i, <2>2, <3>1, ESaves
        <3>2. CASE eRow' = eRow
            BY <1>i, <3>2 DEF ETypes
        <3> QED BY <1>2, <3>1, <3>2 DEF E!Attach
    <2>4. eIrregular' \in BOOLEAN
        BY <1>i, <1>2 DEF E!Attach, ETypes
    <2>5. ~eIrregular' => ~eIrregular /\ eRow'[E!Of(r)] = eRow[E!Of(r)]
        <3>1. CASE UNCHANGED <<eRow, eIrregular>>
            BY <3>1
        <3>2. CASE eIrregular' = (eIrregular \/ E!Overtaken(r))
            BY <2>3, <3>2 DEF E!Overtaken
        <3> QED BY <1>2, <3>1, <3>2 DEF E!Attach
    <2>6. ETypes'
        BY <1>i, <2>1, <2>3, <2>4 DEF ETypes
    <2>7. \A x \in ERequests : EExists(x)'
        BY <1>i, <1>o, <1>j, <2>1, <2>3, <2>2 DEF ETypes, EExists
    <2>8. ~eIrregular' => \A m \in E!Months : ENumbers(m)'
        <3>1. SUFFICES ASSUME ~eIrregular' PROVE \A m \in E!Months : ENumbers(m)'
            OBVIOUS
        <3>2. \A m \in E!Months : ENumbers(m)
            BY <1>i, <3>1, <2>5
        <3>3. \A e \in ERequests : eRow'[e] = eRow[e]
                                    \/ (eRow[e].status # "issued" /\ eRow'[e].status # "issued")
            BY <2>3, <2>5, <3>1
        <3> QED BY <3>2, <3>3, ENumbersKept
    <2> QED BY <2>6, <2>7, <2>8 DEF EInv
<1>3. CASE E!Load(r) \/ E!PickNumber(r)
    <2>1. /\ ePc' = [ePc EXCEPT ![r] = ePc'[r]] /\ UNCHANGED <<eJob, eToday, eIrregular, eRow>>
          /\ DOMAIN eCopy' = ERequests /\ \A x \in ERequests \ {r} : eCopy'[x] = eCopy[x]
          /\ ePc'[r] # "start"
          /\ \/ eCopy'[r] = eRow[E!Of(r)] /\ (eRow[E!Of(r)] = E!Absent => ePc'[r] = "ended")
             \/ eCopy'[r] = eCopy[r] /\ ePc[r] = "number"
        <3>1. DOMAIN ePc = ERequests /\ DOMAIN eCopy = ERequests
            BY <1>i DEF ETypes
        <3>2. CASE E!Load(r)
            BY <3>1, <3>2 DEF E!Load, E!Goto
        <3>3. CASE E!PickNumber(r)
            <4>1. ePc' = [ePc EXCEPT ![r] = "publish"] /\ UNCHANGED <<eJob, eToday, eIrregular, eRow, eCopy>>
                  /\ ePc[r] = "number"
                BY <3>3 DEF E!PickNumber, E!Goto
            <4> QED BY <3>1, <4>1
        <3> QED BY <1>3, <3>2, <3>3
    <2>2. DOMAIN ePc' = ERequests /\ DOMAIN eCopy' = ERequests
          /\ \A x \in ERequests \ {r} : ePc'[x] = ePc[x] /\ eCopy'[x] = eCopy[x]
        BY <1>i, <2>1 DEF ETypes
    <2>3. ETypes'
        BY <1>i, <1>o, <2>1, <2>2 DEF ETypes
    <2>4. \A x \in ERequests : EExists(x)'
        BY <1>i, <1>o, <1>j, <2>1, <2>2 DEF EExists
    <2>5. ~eIrregular' => \A m \in E!Months : ENumbers(m)'
        <3>1. SUFFICES ASSUME ~eIrregular' PROVE \A m \in E!Months : ENumbers(m)'
            OBVIOUS
        <3>2. \A m \in E!Months : ENumbers(m)
            BY <1>i, <3>1, <2>1
        <3>3. \A e \in ERequests : eRow'[e] = eRow[e]
                                    \/ (eRow[e].status # "issued" /\ eRow'[e].status # "issued")
            BY <2>1
        <3> QED BY <3>2, <3>3, ENumbersKept
    <2> QED BY <2>3, <2>4, <2>5 DEF EInv
<1>4. CASE E!Publish(r)
    <2>1. PICK new : new = [status |-> "issued", no |-> ePicked[r], month |-> eToday]
        OBVIOUS
    <2>2. /\ ePc[r] = "publish" /\ E!Saves(r, new) /\ eCopy' = [eCopy EXCEPT ![r] = new]
          /\ eIrregular' = (eIrregular \/ E!Overtaken(r) \/ eCopy[r].status # "draft"
                               \/ ePicked[r] # E!NextNo \/ eUtc # eToday)
          /\ ePc' = [ePc EXCEPT ![r] = "render"] /\ UNCHANGED <<eJob, eToday>>
        BY <1>4, <2>1 DEF E!Publish, E!Goto
    <2>3. ERow(new) /\ new # E!Absent
        BY <1>a, <2>1 DEF ERow
    <2>4. /\ DOMAIN eRow' = ERequests /\ \A x \in ERequests : ERow(eRow'[x])
          /\ eRow'[E!Of(r)] = new /\ \A x \in ERequests \ {E!Of(r)} : eRow'[x] = eRow[x]
          /\ \A x \in ERequests : eRow[x] # E!Absent => eRow'[x] # E!Absent
        BY <1>i, <2>2, <2>3, ESaves
    <2>5. ETypes'
        BY <1>i, <2>2, <2>3, <2>4 DEF ETypes
    <2>6. \A x \in ERequests : EExists(x)'
        BY <1>i, <1>o, <1>j, <2>2, <2>3, <2>4 DEF ETypes, EExists
    <2>7. ~eIrregular' => \A m \in E!Months : ENumbers(m)'
        <3>1. SUFFICES ASSUME ~eIrregular' PROVE \A m \in E!Months : ENumbers(m)'
            OBVIOUS
        <3>2. /\ ~eIrregular /\ eRow[E!Of(r)] = eCopy[r] /\ eCopy[r].status = "draft"
              /\ ePicked[r] = E!NextNo /\ eUtc = eToday
            BY <2>2, <3>1 DEF E!Overtaken
        <3>3. new = [status |-> "issued", no |-> <<eToday, E!Counted(eToday) + 1>>, month |-> eToday]
            BY <2>1, <3>2 DEF E!NextNo
        <3> QED BY <1>i, <1>o, <2>2, <3>2, <3>3, ENumbersContinue DEF E!Saves
    <2> QED BY <2>5, <2>6, <2>7 DEF EInv
<1>5. CASE E!Cancel(r)
    <2>1. PICK new : new = [eCopy[r] EXCEPT !.status = "cancelled"]
        OBVIOUS
    <2>2. /\ ePc[r] = "cancel" /\ E!Saves(r, new) /\ UNCHANGED <<eJob, eToday, eCopy>>
          /\ eIrregular' = (eIrregular \/ E!Overtaken(r) \/ eCopy[r].status = "issued")
          /\ ePc' = [ePc EXCEPT ![r] = "ended"]
        BY <1>5, <2>1 DEF E!Cancel, E!Goto
    <2>3. ERow(new) /\ new # E!Absent /\ new.status = "cancelled"
        <3>1. ERow(eCopy[r])
            BY <1>i DEF ETypes
        <3>2. new = [status |-> "cancelled", no |-> eCopy[r].no, month |-> eCopy[r].month]
            BY <2>1, <3>1 DEF ERow
        <3> QED BY <1>a, <3>2 DEF ERow
    <2>4. /\ DOMAIN eRow' = ERequests /\ \A x \in ERequests : ERow(eRow'[x])
          /\ eRow'[E!Of(r)] = new /\ \A x \in ERequests \ {E!Of(r)} : eRow'[x] = eRow[x]
          /\ \A x \in ERequests : eRow[x] # E!Absent => eRow'[x] # E!Absent
        BY <1>i, <2>2, <2>3, ESaves
    <2>5. ETypes'
        BY <1>i, <2>2, <2>3, <2>4 DEF ETypes
    <2>6. \A x \in ERequests : EExists(x)'
        BY <1>i, <1>o, <1>j, <2>2, <2>3, <2>4 DEF ETypes, EExists
    <2>7. ~eIrregular' => \A m \in E!Months : ENumbers(m)'
        <3>1. SUFFICES ASSUME ~eIrregular' PROVE \A m \in E!Months : ENumbers(m)'
            OBVIOUS
        <3>2. ~eIrregular /\ eRow[E!Of(r)].status # "issued"
            BY <2>2, <3>1 DEF E!Overtaken
        <3>3. \A e \in ERequests : eRow'[e] = eRow[e]
                                    \/ (eRow[e].status # "issued" /\ eRow'[e].status # "issued")
            BY <2>3, <2>4, <3>2
        <3>4. \A m \in E!Months : ENumbers(m)
            BY <1>i, <3>2
        <3> QED BY <3>3, <3>4, ENumbersKept
    <2> QED BY <2>5, <2>6, <2>7 DEF EInv
<1> QED BY <1>1, <1>2, <1>3, <1>4, <1>5 DEF E!Serve

\* The inductive invariant of the e-invoices.
LEMMA EInvoicesInvariant == Spec => []EInv
<1>1. Init => EInv
    <2> SUFFICES ASSUME E!Init PROVE EInv
        BY DEF Init
    <2>1. /\ eJob \in EPlans /\ eToday = 1 /\ eIrregular = FALSE
          /\ eRow = [e \in ERequests |-> E!Absent] /\ eCopy = eRow
          /\ ePc = [r \in ERequests |-> "start"]
        BY DEF E!Init
    <2>2. ERow(E!Absent) /\ E!Absent.status = "absent"
        BY DEF ERow, E!Absent
    <2>3. eToday \in E!Months
        BY <2>1, OfficeData DEF E!EInvoiceSets, E!Months
    <2>4. ETypes /\ \A r \in ERequests : EExists(r)
        BY <2>1, <2>2, <2>3 DEF ETypes, EExists
    <2>5. ASSUME NEW m \in E!Months PROVE ENumbers(m)
        <3>1. E!IssuedIn(m) = {}
            BY <2>1, <2>2 DEF E!IssuedIn
        <3>2. Cardinality(E!IssuedIn(m)) = 0
            BY <3>1, FS_EmptySet
        <3> QED BY <3>1, <3>2 DEF ENumbers
    <2> QED BY <2>4, <2>5 DEF EInv
<1>2. EInv /\ [Next]_vars => EInv'
    <2> SUFFICES ASSUME EInv, [Next]_vars PROVE EInv'
        OBVIOUS
    <2>0. ASSUME UNCHANGED <<eJob, eRow, eIrregular, ePc, eCopy>>, eToday' \in E!Months
          PROVE  EInv'
        <3>1. ETypes'
            BY <2>0 DEF EInv, ETypes
        <3>2. \A r \in ERequests : EExists(r)'
            BY <2>0 DEF EInv, EExists, E!Of, E!Op
        <3>3. \A m \in E!Months : ENumbers(m)' <=> ENumbers(m)
            BY <2>0 DEF ENumbers, E!IssuedIn
        <3> QED BY <2>0, <3>1, <3>2, <3>3 DEF EInv
    <2>1. CASE EInvoicesMove
        <3>1. CASE E!NextMonth
            <4>1. eToday' \in E!Months
                BY <3>1, OfficeData DEF E!NextMonth, E!EInvoiceSets, E!Months, EInv, ETypes
            <4> QED BY <2>0, <3>1, <4>1 DEF E!NextMonth
        <3> QED BY <2>1, <3>1, EServeKeeps DEF EInvoicesMove, E!Next
    <2>2. CASE UNCHANGED eVars
        BY <2>0, <2>2 DEF eVars, EInv, ETypes
    <2>3. CASE DocumentsMove \/ ApprovalsMove \/ StockMoves \/ InvoicesMove \/ YearMoves
               \/ BankMoves \/ WikiMoves
        BY <2>2, <2>3 DEF DocumentsMove, ApprovalsMove, StockMoves, InvoicesMove, YearMoves,
            BankMoves, WikiMoves
    <2>4. CASE UNCHANGED vars
        BY <2>2, <2>4 DEF vars
    <2> QED BY <2>1, <2>3, <2>4 DEF Next
<1> QED BY <1>1, <1>2, PTL DEF Spec

\* Until something stale is used or an e-invoice leaves its life cycle, the
\* e-invoices issued in a month are numbered 1, 2, 3, ...
THEOREM EInvoicesAreNumbered == Spec => []NumbersAreSequential
<1>1. EInv => NumbersAreSequential
    <2>1. EInv => (~eIrregular => \A m \in E!Months : ENumbers(m))
        BY DEF EInv
    <2>2. (~eIrregular => \A m \in E!Months : ENumbers(m)) => E!NumbersAreSequential
        BY ECardinality DEF ENumbers, E!NumbersAreSequential
    <2> QED BY <2>1, <2>2 DEF NumbersAreSequential
<1> QED BY <1>1, EInvoicesInvariant, PTL
=============================================================================
