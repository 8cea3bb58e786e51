--------------------------- MODULE MonthEndProofs ---------------------------
(***************************************************************************)
(* Theorems about the batches of a month: templates that are run, batches  *)
(* posted with their vouchers, and the register of assets with its books.  *)
(***************************************************************************)
EXTENDS MonthEnd, SumLemmas

(***************************************************************************)
(* What every step keeps: requests are where their operation can be, and   *)
(* operations that never run beside another do not.                        *)
(***************************************************************************)
Labels == {"start", "templates", "template", "depreciate", "dispose", "calculate", "postPayroll",
           "fxVoucher", "fxLines", "fxBatch", "ended", "failed", "dead"}

\* The labels at which a request of an operation can be.
LabelsOf(op) == {"start", "ended", "failed", "dead"} \cup
    (CASE op = "runDue"     -> {"templates", "template", "depreciate", "calculate"}
       [] op = "depreciate" -> {"depreciate"}
       [] op = "dispose"    -> {"dispose"}
       [] op = "calculate"  -> {"calculate"}
       [] op = "payroll"    -> {"calculate", "postPayroll"}
       [] op = "revalue"    -> {"fxVoucher", "fxLines", "fxBatch"}
       [] OTHER             -> {})

\* Running a template; the template is at hand.
AtTemplate(q) == Op(q) = "runDue" /\ pc[q] \in {"template", "depreciate", "calculate"}

\* The place of one request.
Own(q) ==
    /\ pc[q] \in LabelsOf(Op(q)) /\ pc[q] \in Labels
    /\ todo[q] \subseteq Templates /\ month[q] \in Months /\ listed[q] \in Nat
    /\ AtTemplate(q) => template[q] \in Templates

\* Every request is at a label of its operation.
Placed ==
    /\ job \in Plans
    /\ today \in Nat \ {0} /\ 1..today \subseteq Days
    /\ DOMAIN pc = Requests /\ DOMAIN todo = Requests /\ DOMAIN template = Requests
    /\ DOMAIN month = Requests /\ DOMAIN listed = Requests
    /\ DOMAIN found = Requests /\ DOMAIN seenTotal = Requests
    /\ \A q \in Requests : Own(q)
    /\ DOMAIN next = Templates /\ \A t \in Templates : next[t] \in Nat

\* An operation that runs alone meets nobody.
Exclusive ==
    \A q, x \in Requests : q # x /\ Running(q) /\ Running(x) => {Op(q), Op(x)} \cap Alone = {}

\* What a job names.
LEMMA JobShape ==
    ASSUME Placed, NEW q \in Requests
    PROVE  /\ Op(q) \in Ops
           /\ Op(q) \in {"add", "dispose"} => job[q].asset \in Assets
           /\ Op(q) \in {"depreciate", "calculate", "payroll", "revalue", "close"} => job[q].month \in Months
<1>1. job[q] \in Jobs
    BY MonthEndData DEF Placed
<1> QED BY <1>1 DEF Jobs, Op, Ops

\* There are finitely many months, numbered; those of days are months.
LEMMA MonthsAre ==
    /\ IsFiniteSet(Months) /\ Months \subseteq Nat
    /\ \A d \in Days : MonthOf[d] \in Months
    /\ 1 \in Days
<1>1. IsFiniteSet(Months)
    <2>1. MonthOf \in Surjection(Days, Months)
        BY MonthEndSets DEF Surjection, Months
    <2> QED BY <2>1, MonthEndSets, FS_Surjection
<1> QED BY <1>1, MonthEndSets DEF Months

\* The least of a set of numbers.
LEMMA LeastIs ==
    ASSUME NEW D, D \subseteq Nat, D # {}
    PROVE  Least(D) \in D /\ \A d \in D : Least(D) <= d
<1>1. SUFFICES ASSUME \A d \in D : \E e \in D : ~(d <= e) PROVE FALSE
    BY DEF Least
<1> DEFINE T == {n \in Nat : \A d \in D : n <= d}
<1>2. 0 \in T
    OBVIOUS
<1>3. \A n \in Nat : n \in T => n + 1 \in T
    <2> SUFFICES ASSUME NEW n \in Nat, n \in T PROVE \A d \in D : n + 1 <= d
        OBVIOUS
    <2>1. n \notin D
        BY <1>1
    <2> QED BY <2>1
<1> HIDE DEF T
<1>4. \A n \in Nat : n \in T
    BY <1>2, <1>3, NatSetInduction
<1>5. PICK d \in D : d \in Nat
    OBVIOUS
<1>6. d + 1 \in T
    BY <1>4, <1>5
<1> QED BY <1>5, <1>6 DEF T

\* A step of one request leaves the place of the others alone.
LEMMA OthersStay ==
    ASSUME Placed, NEW q \in Requests, Serve(q) \/ Dies(q)
    PROVE  /\ job' = job /\ today' = today
           /\ DOMAIN pc' = Requests /\ DOMAIN todo' = Requests /\ DOMAIN template' = Requests
           /\ DOMAIN month' = Requests /\ DOMAIN listed' = Requests
           /\ DOMAIN found' = Requests /\ DOMAIN seenTotal' = Requests
           /\ \A x \in Requests \ {q} :
                 /\ pc'[x] = pc[x] /\ todo'[x] = todo[x] /\ template'[x] = template[x]
                 /\ month'[x] = month[x] /\ listed'[x] = listed[x] /\ found'[x] = found[x]
                 /\ seenTotal'[x] = seenTotal[x]
<1> USE DEF Placed
<1>1. CASE ListDue(q) \/ NextTemplate(q) \/ AllRun(q)
    BY <1>1 DEF ListDue, NextTemplate, AllRun, Goto
<1>2. CASE AddAsset(q) \/ BeginDepreciation(q) \/ LoadAsset(q) \/ Hire(q)
    BY <1>2 DEF AddAsset, BeginDepreciation, LoadAsset, Hire, Goto, locals
<1>3. CASE CommitDepreciation(q)
    BY <1>3 DEF CommitDepreciation, Finish, Goto
<1>4. CASE CommitDisposal(q)
    BY <1>4 DEF CommitDisposal, Finish, Goto
<1>5. CASE BeginCalculation(q)
    BY <1>5 DEF BeginCalculation, Finish, Goto
<1>6. CASE CommitCalculation(q)
    BY <1>6 DEF CommitCalculation, Finish, Goto
<1>7. CASE PostPayroll(q)
    BY <1>7 DEF PostPayroll, Finish, Goto, locals
<1>8. CASE InsertBatch(q) \/ InsertFxVoucher(q) \/ InsertFxLines(q) \/ FinishBatch(q)
    BY <1>8 DEF InsertBatch, InsertFxVoucher, InsertFxLines, FinishBatch, Goto, locals
<1>9. CASE Close(q)
    BY <1>9 DEF Close, Finish, Goto, locals
<1>10. CASE Dies(q)
    BY <1>10 DEF Dies, Goto
<1> QED BY <1>1, <1>2, <1>3, <1>4, <1>5, <1>6, <1>7, <1>8, <1>9, <1>10 DEF Serve

(***************************************************************************)
(* The due templates.                                                      *)
(***************************************************************************)
\* What a request of the scheduler has still to run.
ToRun(q) == (IF pc[q] \in {"templates", "template", "depreciate", "calculate"} THEN todo[q] ELSE {})
                \cup (IF AtTemplate(q) THEN {template[q]} ELSE {})

\* It has listed what was due, and what it has run is due later than that.
Scheduled(q) ==
    /\ listed[q] <= today
    /\ Op(q) = "runDue" /\ pc[q] \notin {"start", "dead"} =>
           \A t \in Templates \ ToRun(q) : next[t] > listed[q]

\* The inductive invariant of the templates.
ScheduleInv == Placed /\ Exclusive /\ \A q \in Requests : Scheduled(q)

\* A template that has been run is due later.
LEMMA NextDueIs ==
    ASSUME Placed, NEW t \in Templates
    PROVE  NextDue(t) \in Nat /\ NextDue(t) > today
<1> DEFINE later == {d \in DueDays[t] : d > today}
<1>1. later \subseteq Nat
    BY MonthEndSets
<1>2. CASE later # {}
    <2> HIDE DEF later
    <2>1. Least(later) \in later
        BY <1>1, <1>2, LeastIs
    <2>2. NextDue(t) = Least(later)
        BY <1>2 DEF NextDue, later
    <2> QED BY <1>1, <2>1, <2>2 DEF later
<1>3. CASE later = {}
    <2>1. IsFiniteSet(Days) /\ 1..today \subseteq Days /\ today \in Nat
        BY MonthEndSets DEF Placed
    <2>2. Cardinality(1..today) = today /\ Cardinality(1..today) <= Cardinality(Days)
          /\ Cardinality(Days) \in Nat
        <3>1. Cardinality(1..today) <= Cardinality(Days) /\ Cardinality(Days) \in Nat
            BY <2>1, FS_Subset, FS_CardinalityType
        <3>2. PICK one \in Int : one = 1
            OBVIOUS
        <3>3. Cardinality(one..today) = IF one > today THEN 0 ELSE today - one + 1
            BY <2>1, FS_Interval
        <3>4. today >= 1
            BY DEF Placed
        <3> QED BY <2>1, <3>1, <3>2, <3>3, <3>4
    <2>3. NextDue(t) = Cardinality(Days) + 1
        BY <1>3 DEF NextDue, Never
    <2> QED BY <2>1, <2>2, <2>3
<1> QED BY <1>2, <1>3

\* Finishing: the scheduler goes on to its next template, another request ends.
LEMMA FinishIs ==
    ASSUME Placed, NEW q \in Requests, NEW ok, Finish(q, ok), AtTemplate(q) \/ Op(q) # "runDue"
    PROVE  /\ Op(q) = "runDue" => /\ pc'[q] = "templates" /\ DOMAIN next' = Templates
                                  /\ \A t \in Templates : /\ next'[t] \in Nat
                                                          /\ next'[t] = next[t] \/ next'[t] > today
                                  /\ next'[template[q]] > today
           /\ Op(q) # "runDue" => pc'[q] \in {"ended", "failed"} /\ next' = next
<1>1. CASE Op(q) = "runDue"
    <2>1. template[q] \in Templates
        BY <1>1 DEF Placed, Own
    <2>2. NextDue(template[q]) \in Nat /\ NextDue(template[q]) > today
        BY <2>1, NextDueIs
    <2>3. next' = [next EXCEPT ![template[q]] = NextDue(template[q])] /\ pc' = [pc EXCEPT ![q] = "templates"]
        BY <1>1 DEF Finish, Goto
    <2> QED BY <1>1, <2>1, <2>2, <2>3 DEF Placed
<1>2. CASE Op(q) # "runDue"
    BY <1>2 DEF Finish, Goto, Placed
<1> QED BY <1>1, <1>2

\* A step that keeps the place of its request and its schedule keeps the invariant.
LEMMA OwnSuffices ==
    ASSUME ScheduleInv, NEW q \in Requests, Serve(q) \/ Dies(q), Own(q)',
           DOMAIN next' = Templates,
           \A t \in Templates : next'[t] \in Nat /\ (next'[t] = next[t] \/ next'[t] > today),
           Scheduled(q)',
           Running(q)' => Running(q) \/ \A x \in Requests \ {q} : Running(x) => {Op(q), Op(x)} \cap Alone = {}
    PROVE  ScheduleInv'
<1>1. /\ Placed /\ Exclusive /\ \A x \in Requests : Scheduled(x)
    BY DEF ScheduleInv
<1>2. /\ job' = job /\ today' = today
      /\ DOMAIN pc' = Requests /\ DOMAIN todo' = Requests /\ DOMAIN template' = Requests
      /\ DOMAIN month' = Requests /\ DOMAIN listed' = Requests
      /\ DOMAIN found' = Requests /\ DOMAIN seenTotal' = Requests
      /\ \A x \in Requests \ {q} :
            /\ pc'[x] = pc[x] /\ todo'[x] = todo[x] /\ template'[x] = template[x]
            /\ month'[x] = month[x] /\ listed'[x] = listed[x]
    BY <1>1, OthersStay
<1>3. \A x \in Requests : (Op(x))' = Op(x)
    BY <1>2 DEF Op
<1>4. \A x \in Requests \ {q} : /\ AtTemplate(x)' <=> AtTemplate(x)
                                /\ Running(x)' <=> Running(x)
                                /\ ToRun(x)' = ToRun(x)
    BY <1>2, <1>3 DEF AtTemplate, Running, Ended, ToRun
<1>5. ASSUME NEW x \in Requests, x # q PROVE Own(x)'
    <2>1. Own(x)
        BY <1>1 DEF Placed
    <2> QED BY <1>2, <1>3, <1>4, <1>5, <2>1 DEF Own
<1>6. Placed'
    BY <1>1, <1>2, <1>5 DEF Placed
<1>7. Exclusive'
    BY <1>1, <1>3, <1>4 DEF Exclusive
<1>8. ASSUME NEW x \in Requests, x # q PROVE Scheduled(x)'
    BY <1>1, <1>2, <1>3, <1>4, <1>8 DEF Scheduled, Placed, Own
<1> QED BY <1>6, <1>7, <1>8 DEF ScheduleInv

\* Every step of a request keeps the invariant of the schedule.
LEMMA ServeSchedules ==
    ASSUME ScheduleInv, NEW q \in Requests, Serve(q) \/ Dies(q)
    PROVE  ScheduleInv'
<1>p. /\ Placed /\ Scheduled(q) /\ Own(q) /\ today \in Nat \ {0}
      /\ DOMAIN next = Templates /\ \A t \in Templates : next[t] \in Nat
    BY DEF ScheduleInv, Placed
<1>j. job' = job /\ today' = today
    BY <1>p, OthersStay
<1>o. (Op(q))' = Op(q) /\ Op(q) \in Ops
    BY <1>p, <1>j, JobShape DEF Op
<1>m. \A d \in Days : MonthOf[d] \in Months
    BY MonthsAre
<1>f. MonthFor(q) \in Months \/ Op(q) \notin {"runDue", "depreciate", "calculate", "payroll", "revalue", "close"}
    <2>1. today \in Days
        BY <1>p DEF Placed
    <2> QED BY <1>p, <1>m, <2>1, JobShape DEF MonthFor
<1> DEFINE Begun == Running(q) \/ \A x \in Requests \ {q} : Running(x) => {Op(q), Op(x)} \cap Alone = {}
<1>s. \A op : Starts(q, op) => Begun /\ pc[q] = "start" /\ Op(q) = op
    BY DEF Starts
<1>r. pc[q] \notin {"start", "ended", "failed", "dead"} => Begun
    BY DEF Running, Ended
<1> HIDE DEF Begun
<1> SUFFICES /\ Own(q)' /\ DOMAIN next' = Templates /\ Scheduled(q)'
             /\ \A t \in Templates : next'[t] \in Nat /\ (next'[t] = next[t] \/ next'[t] > today)
             /\ Running(q)' => Begun
    BY OwnSuffices DEF Begun
<1>1. CASE ListDue(q)
    <2>1. /\ pc'[q] = "templates" /\ todo'[q] = {t \in Templates : next[t] <= today} /\ listed'[q] = today
          /\ UNCHANGED <<next, month>> /\ Op(q) = "runDue"
        BY <1>1, <1>p DEF ListDue, Goto, Starts, Placed, ScheduleInv
    <2>2. ToRun(q)' = todo'[q] /\ ~AtTemplate(q)'
        BY <1>o, <2>1 DEF ToRun, AtTemplate
    <2>3. Begun
        BY <1>1, <1>s DEF ListDue
    <2>4. Own(q)'
        BY <1>p, <1>o, <2>1, <2>2 DEF Own, LabelsOf, Labels
    <2>5. Scheduled(q)'
        BY <1>p, <1>j, <1>o, <2>1, <2>2 DEF Scheduled
    <2> QED BY <1>p, <2>1, <2>3, <2>4, <2>5
<1>2. CASE NextTemplate(q)
    <2>1. PICK t \in todo[q] : todo'[q] = todo[q] \ {t} /\ template'[q] = t
        <3>1. pc[q] = "templates" /\ todo[q] # {} /\ todo[q] \subseteq Templates
            BY <1>2, <1>p DEF NextTemplate, Own
        <3> DEFINE first == CHOOSE u \in todo[q] : \A w \in todo[q] : Rank[u] <= Rank[w]
        <3>2. first \in todo[q]
            <4>1. \A t \in todo[q] : t \in {"depreciation", "payroll", "closing"}
                BY <3>1, MonthEndSets
            <4>2. \E u \in todo[q] : \A w \in todo[q] : Rank[u] <= Rank[w]
                BY <3>1, <4>1 DEF Rank
            <4> QED BY <4>2
        <3>3. todo'[q] = todo[q] \ {first} /\ template'[q] = first
            BY <1>2, <1>p DEF NextTemplate, Placed, ScheduleInv
        <3> QED BY <3>2, <3>3
    <2>2. /\ pc[q] = "templates" /\ pc'[q] = "template" /\ UNCHANGED <<next, month, listed>> /\ Op(q) = "runDue"
        BY <1>2, <1>p DEF NextTemplate, Goto, Placed, Own, LabelsOf, ScheduleInv
    <2>3. ToRun(q)' = ToRun(q) /\ AtTemplate(q)'
        BY <1>o, <2>1, <2>2 DEF ToRun, AtTemplate
    <2>4. Own(q)'
        BY <1>p, <1>o, <2>1, <2>2 DEF Own, LabelsOf, Labels
    <2>5. Scheduled(q)'
        BY <1>p, <1>j, <1>o, <2>2, <2>3 DEF Scheduled
    <2>6. Begun
        BY <1>r, <2>2
    <2> QED BY <1>p, <2>2, <2>4, <2>5, <2>6
<1>3. CASE AllRun(q)
    <2>1. /\ pc[q] = "templates" /\ pc'[q] = "ended" /\ todo[q] = {} /\ UNCHANGED <<next, todo, month, listed>>
        BY <1>3, <1>p DEF AllRun, Goto, Placed, ScheduleInv
    <2>2. ToRun(q) = {} /\ ToRun(q)' = {} /\ ~AtTemplate(q)'
        BY <2>1 DEF ToRun, AtTemplate
    <2>4. Own(q)'
        BY <1>p, <1>o, <2>1, <2>2 DEF Own, LabelsOf, Labels
    <2>5. Scheduled(q)'
        BY <1>p, <1>j, <1>o, <2>1, <2>2 DEF Scheduled
    <2> QED BY <1>p, <1>r, <2>1, <2>4, <2>5
\* Another operation goes on, or ends.
<1>e. ASSUME Op(q) # "runDue", pc'[q] \in LabelsOf(Op(q)), UNCHANGED <<todo, listed, next>>, month'[q] \in Months,
             Begun
      PROVE  Own(q)' /\ Scheduled(q)' /\ DOMAIN next' = Templates
    <2>1. ~AtTemplate(q)' /\ pc'[q] \in Labels
        BY <1>o, <1>e DEF AtTemplate, LabelsOf, Labels
    <2> QED BY <1>p, <1>j, <1>o, <1>e, <2>1 DEF Own, Scheduled
\* The template at hand goes on.
<1>g. ASSUME AtTemplate(q), pc'[q] \in {"depreciate", "calculate"}, UNCHANGED <<todo, listed, next, template>>,
             month'[q] \in Months
      PROVE  Own(q)' /\ Scheduled(q)' /\ DOMAIN next' = Templates
    <2>1. AtTemplate(q)' /\ ToRun(q)' = ToRun(q) /\ Op(q) = "runDue" /\ pc[q] \notin {"start", "dead"}
        BY <1>o, <1>g DEF AtTemplate, ToRun
    <2>2. pc'[q] \in LabelsOf(Op(q)) /\ pc'[q] \in Labels
        BY <1>g, <2>1 DEF LabelsOf, Labels
    <2> QED BY <1>p, <1>j, <1>o, <1>g, <2>1, <2>2 DEF Own, Scheduled
\* The request finishes.
<1>h. ASSUME NEW ok, Finish(q, ok), UNCHANGED <<todo, listed>>, month'[q] \in Months,
             AtTemplate(q) \/ Op(q) # "runDue"
      PROVE  /\ Own(q)' /\ Scheduled(q)' /\ DOMAIN next' = Templates
             /\ \A t \in Templates : next'[t] \in Nat /\ (next'[t] = next[t] \/ next'[t] > today)
             /\ Op(q) # "runDue" => ~Running(q)'
    <2>1. /\ Op(q) = "runDue" => /\ pc'[q] = "templates" /\ DOMAIN next' = Templates
                                 /\ \A t \in Templates : /\ next'[t] \in Nat
                                                         /\ next'[t] = next[t] \/ next'[t] > today
                                 /\ next'[template[q]] > today
          /\ Op(q) # "runDue" => pc'[q] \in {"ended", "failed"} /\ next' = next
        BY <1>p, <1>h, FinishIs
    <2>2. CASE Op(q) = "runDue"
        <3>1. ~AtTemplate(q)' /\ ToRun(q)' = todo[q] /\ ToRun(q) = todo[q] \cup {template[q]}
              /\ pc[q] \notin {"start", "dead"}
            BY <1>o, <1>h, <2>1, <2>2 DEF AtTemplate, ToRun
        <3>2. Own(q)'
            BY <1>p, <1>o, <1>h, <2>1, <2>2, <3>1 DEF Own, LabelsOf, Labels
        <3>3. listed[q] \in Nat /\ listed[q] <= today
            BY <1>p DEF Own, Scheduled
        <3>4. \A t \in Templates \ todo[q] : next'[t] > listed[q]
            <4> SUFFICES ASSUME NEW t \in Templates, t \notin todo[q] PROVE next'[t] > listed[q]
                OBVIOUS
            <4>1. CASE next'[t] > today
                BY <1>p, <2>1, <2>2, <3>3, <4>1
            <4>2. CASE next'[t] = next[t] /\ t # template[q]
                BY <1>p, <2>2, <3>1, <4>2 DEF Scheduled
            <4> QED BY <2>1, <2>2, <4>1, <4>2
        <3>5. Scheduled(q)'
            BY <1>j, <1>h, <3>1, <3>3, <3>4 DEF Scheduled
        <3> QED BY <2>1, <2>2, <3>2, <3>5
    <2>3. CASE Op(q) # "runDue"
        <3>1. ~AtTemplate(q)' /\ ~Running(q)'
            BY <1>o, <2>1, <2>3 DEF AtTemplate, Running, Ended
        <3>2. Own(q)'
            BY <1>p, <1>o, <1>h, <2>1, <2>3, <3>1 DEF Own, LabelsOf, Labels
        <3>3. Scheduled(q)'
            BY <1>p, <1>j, <1>o, <1>h, <2>3 DEF Scheduled
        <3> QED BY <1>p, <2>1, <2>3, <3>1, <3>2, <3>3
    <2> QED BY <2>2, <2>3
<1>w. \A op, t : Runs(q, op, t) => \/ AtTemplate(q) /\ Op(q) = "runDue" /\ pc[q] = "template"
                                   \/ Op(q) = op /\ pc[q] = "start" /\ Begun
    <2>1. pc[q] = "template" => AtTemplate(q) /\ Op(q) = "runDue"
        BY <1>p, <1>o DEF Own, LabelsOf, AtTemplate, Ops
    <2> QED BY <1>s, <2>1 DEF Runs
<1>x. month[q] \in Months /\ (AtTemplate(q) => Begun)
    BY <1>p, <1>r DEF Own, AtTemplate
<1>y. \A l : Goto(q, l) => pc'[q] = l
    BY <1>p DEF Goto, Placed
<1>4. CASE AddAsset(q) \/ Hire(q)
    <2>1. Op(q) \in {"add", "hire"} /\ Begun /\ pc'[q] = "ended" /\ UNCHANGED <<next, locals>>
        BY <1>4, <1>s, <1>y DEF AddAsset, Hire
    <2>2. pc'[q] \in LabelsOf(Op(q)) /\ UNCHANGED <<todo, listed, next>> /\ month'[q] \in Months
        BY <1>x, <2>1 DEF LabelsOf, locals
    <2> QED BY <1>p, <1>e, <2>1, <2>2
<1>5. CASE BeginDepreciation(q)
    <2>1. /\ pc'[q] = "depreciate" /\ month'[q] = MonthFor(q) /\ UNCHANGED <<todo, listed, next, template>>
          /\ Runs(q, "depreciate", "depreciation")
        BY <1>5, <1>p, <1>y DEF BeginDepreciation, Placed
    <2>2. CASE AtTemplate(q) /\ Op(q) = "runDue"
        BY <1>p, <1>f, <1>g, <1>x, <2>1, <2>2
    <2>3. CASE Op(q) = "depreciate" /\ Begun
        <3>1. pc'[q] \in LabelsOf(Op(q))
            BY <2>1, <2>3 DEF LabelsOf
        <3> QED BY <1>p, <1>e, <1>f, <2>1, <2>3, <3>1
    <2> QED BY <1>w, <2>1, <2>2, <2>3
<1>6. CASE CommitDepreciation(q)
    <2>1. PICK ok : Finish(q, ok)
        BY <1>6 DEF CommitDepreciation
    <2>2. pc[q] = "depreciate" /\ UNCHANGED <<todo, listed, month>>
        BY <1>6 DEF CommitDepreciation
    <2>3. AtTemplate(q) \/ Op(q) # "runDue"
        BY <2>2 DEF AtTemplate
    <2> QED BY <1>h, <1>r, <1>x, <2>1, <2>2, <2>3
<1>7. CASE LoadAsset(q)
    <2>1. Op(q) = "dispose" /\ Begun /\ pc'[q] = "dispose" /\ UNCHANGED <<todo, listed, next, month>>
        BY <1>7, <1>s, <1>y DEF LoadAsset
    <2>2. pc'[q] \in LabelsOf(Op(q))
        BY <2>1 DEF LabelsOf
    <2> QED BY <1>p, <1>e, <1>x, <2>1, <2>2
<1>8. CASE CommitDisposal(q)
    <2>1. PICK ok : Finish(q, ok)
        BY <1>8 DEF CommitDisposal
    <2>2. pc[q] = "dispose" /\ UNCHANGED <<todo, listed, month>>
        BY <1>8 DEF CommitDisposal
    <2>3. Op(q) # "runDue"
        BY <1>p, <2>2 DEF Own, LabelsOf
    <2> QED BY <1>h, <1>r, <1>x, <2>1, <2>2, <2>3
<1>9. CASE BeginCalculation(q)
    <2>1. /\ month'[q] = MonthFor(q) /\ UNCHANGED <<todo, listed, template>>
          /\ Runs(q, "calculate", "payroll") \/ Starts(q, "payroll")
          /\ (pc'[q] = "calculate" /\ UNCHANGED next) \/ Finish(q, TRUE)
        BY <1>9, <1>p, <1>y DEF BeginCalculation, Placed
    <2>2. \/ AtTemplate(q) /\ Op(q) = "runDue"
          \/ Op(q) \in {"calculate", "payroll"} /\ Begun
        BY <1>s, <1>w, <2>1
    <2>3. month'[q] \in Months
        BY <1>f, <2>1, <2>2
    <2>4. CASE Finish(q, TRUE)
        BY <1>h, <1>x, <2>1, <2>2, <2>3, <2>4
    <2>5. CASE pc'[q] = "calculate" /\ UNCHANGED next /\ AtTemplate(q)
        BY <1>p, <1>g, <1>x, <2>1, <2>3, <2>5
    <2>6. CASE pc'[q] = "calculate" /\ UNCHANGED next /\ Op(q) \in {"calculate", "payroll"} /\ Begun
        <3>1. pc'[q] \in LabelsOf(Op(q))
            BY <2>6 DEF LabelsOf
        <3> QED BY <1>p, <1>e, <2>1, <2>3, <2>6, <3>1
    <2> QED BY <2>1, <2>2, <2>4, <2>5, <2>6
<1>10. CASE CommitCalculation(q)
    <2>1. /\ pc[q] = "calculate" /\ UNCHANGED <<todo, listed, month, template>>
          /\ \/ Op(q) = "payroll" /\ pc'[q] = "postPayroll" /\ UNCHANGED next
             \/ Op(q) # "payroll" /\ Finish(q, TRUE)
        BY <1>10, <1>y DEF CommitCalculation
    <2>2. Begun /\ (AtTemplate(q) \/ Op(q) # "runDue")
        BY <1>r, <2>1 DEF AtTemplate
    <2>3. CASE Op(q) = "payroll" /\ pc'[q] = "postPayroll" /\ UNCHANGED next
        <3>1. pc'[q] \in LabelsOf(Op(q))
            BY <2>3 DEF LabelsOf
        <3> QED BY <1>p, <1>e, <1>x, <2>1, <2>2, <2>3, <3>1
    <2>4. CASE Finish(q, TRUE)
        BY <1>h, <1>x, <2>1, <2>2, <2>4
    <2> QED BY <2>1, <2>3, <2>4
<1>11. CASE PostPayroll(q)
    <2>1. PICK ok : Finish(q, ok)
        BY <1>11 DEF PostPayroll
    <2>2. pc[q] = "postPayroll" /\ UNCHANGED <<todo, listed, month>>
        BY <1>11 DEF PostPayroll, locals
    <2>3. Op(q) # "runDue"
        BY <1>p, <2>2 DEF Own, LabelsOf
    <2> QED BY <1>h, <1>r, <1>x, <2>1, <2>2, <2>3
<1>12. CASE InsertBatch(q) \/ InsertFxVoucher(q) \/ InsertFxLines(q) \/ FinishBatch(q)
    <2>1. /\ Starts(q, "revalue") \/ pc[q] \in {"fxVoucher", "fxLines", "fxBatch"}
          /\ pc'[q] \in {"failed", "fxVoucher", "fxLines", "fxBatch", "ended"}
          /\ UNCHANGED <<next, locals>>
        BY <1>12, <1>y DEF InsertBatch, InsertFxVoucher, InsertFxLines, FinishBatch
    <2>2. Op(q) = "revalue" /\ Begun
        BY <1>p, <1>o, <1>r, <1>s, <2>1 DEF Own, LabelsOf, Ops
    <2>3. pc'[q] \in LabelsOf(Op(q)) /\ UNCHANGED <<todo, listed>> /\ month'[q] \in Months
        BY <1>x, <2>1, <2>2 DEF LabelsOf, locals
    <2> QED BY <1>p, <1>e, <2>1, <2>2, <2>3
<1>13. CASE Close(q)
    <2>1. PICK ok : Finish(q, ok)
        BY <1>13 DEF Close
    <2>2. Runs(q, "close", "closing") /\ UNCHANGED <<todo, listed, month>>
        BY <1>13 DEF Close, locals
    <2>3. (AtTemplate(q) \/ Op(q) # "runDue") /\ Begun
        BY <1>w, <1>x, <2>2
    <2> QED BY <1>h, <1>x, <2>1, <2>2, <2>3
<1>14. CASE Dies(q)
    <2>1. /\ pc'[q] = "dead" /\ todo'[q] = {} /\ UNCHANGED <<next, month, listed>>
        BY <1>14, <1>p, <1>y DEF Dies, Placed
    <2>2. ~AtTemplate(q)' /\ ~Running(q)' /\ pc'[q] \in LabelsOf(Op(q)) /\ pc'[q] \in Labels
        BY <1>o, <2>1 DEF AtTemplate, Running, Ended, LabelsOf, Labels
    <2>3. Own(q)'
        BY <1>p, <1>o, <2>1, <2>2 DEF Own
    <2>4. Scheduled(q)'
        BY <1>p, <1>j, <1>o, <2>1 DEF Scheduled
    <2> QED BY <1>p, <2>1, <2>2, <2>3, <2>4
<1> QED BY <1>1, <1>2, <1>3, <1>4, <1>5, <1>6, <1>7, <1>8, <1>9, <1>10, <1>11, <1>12, <1>13, <1>14
    DEF Serve

\* The schedule is kept by every step.
LEMMA StepSchedules ==
    ASSUME ScheduleInv, [Next]_vars
    PROVE  ScheduleInv'
<1>1. CASE \E q \in Requests : Serve(q) \/ Dies(q)
    BY <1>1, ServeSchedules
<1>2. CASE NextDay
    <2>1. /\ today + 1 \in Days /\ today' = today + 1
          /\ UNCHANGED <<job, next, pc, todo, template, month, listed, found, seenTotal>>
        BY <1>2 DEF NextDay, locals
    <2>2. Placed /\ today \in Nat
        BY DEF ScheduleInv, Placed
    <2>3. \A q \in Requests : /\ (Own(q)' <=> Own(q)) /\ ToRun(q)' = ToRun(q)
                              /\ (Running(q)' <=> Running(q)) /\ (Op(q))' = Op(q)
                              /\ listed[q] \in Nat
        BY <2>1, <2>2 DEF Own, AtTemplate, ToRun, Op, Running, Ended, Placed
    <2>4. 1..today' \subseteq Days
        <3>1. 1..(today + 1) = 1..today \cup {today + 1}
            BY <2>2
        <3> QED BY <2>1, <2>2, <3>1 DEF Placed
    <2>5. Placed'
        BY <2>1, <2>2, <2>3, <2>4 DEF Placed
    <2>6. Exclusive'
        BY <2>3 DEF Exclusive, ScheduleInv
    <2>7. \A q \in Requests : Scheduled(q)'
        BY <2>1, <2>2, <2>3 DEF Scheduled, ScheduleInv
    <2> QED BY <2>5, <2>6, <2>7 DEF ScheduleInv
<1>3. CASE UNCHANGED vars
    <2>1. UNCHANGED <<job, today, next, pc, todo, template, month, listed, found, seenTotal>>
        BY <1>3 DEF vars, locals
    <2>2. \A q \in Requests : /\ (Own(q)' <=> Own(q)) /\ ToRun(q)' = ToRun(q)
                              /\ (Running(q)' <=> Running(q)) /\ (Op(q))' = Op(q)
        BY <2>1 DEF Own, AtTemplate, ToRun, Op, Running, Ended
    <2>3. Placed' /\ Exclusive'
        BY <2>1, <2>2 DEF Placed, Exclusive, ScheduleInv
    <2> QED BY <2>1, <2>2, <2>3 DEF Scheduled, ScheduleInv
<1> QED BY <1>1, <1>2, <1>3 DEF Next

\* The inductive invariant of the schedule.
LEMMA ScheduleAlways == Spec => []ScheduleInv
<1>1. Init => ScheduleInv
    <2> SUFFICES ASSUME Init PROVE ScheduleInv
        OBVIOUS
    <2>1. \A t \in Templates : next[t] \in Nat
        BY MonthEndSets, LeastIs DEF Init
    <2>2. 1..today \subseteq Days /\ today \in Nat \ {0}
        BY MonthsAre DEF Init
    <2>3. \A q \in Requests : Own(q) /\ Scheduled(q)
        BY MonthsAre DEF Init, Own, LabelsOf, Labels, AtTemplate, Scheduled
    <2>4. Exclusive
        BY DEF Init, Exclusive, Running
    <2>5. Placed
        BY <2>1, <2>2, <2>3 DEF Init, Placed
    <2> QED BY <2>3, <2>4, <2>5 DEF ScheduleInv
<1> QED BY <1>1, StepSchedules, PTL DEF Spec

\* Whoever ran the due templates to the end leaves none of them due, whatever they
\* raised and whoever ran them meanwhile: run_one saves next_run_at in any case.
THEOREM DueIsRun == Spec => []NothingStaysDue
<1>1. ScheduleInv => NothingStaysDue
    BY DEF ScheduleInv, Scheduled, ToRun, AtTemplate, NothingStaysDue
<1> QED BY <1>1, ScheduleAlways, PTL

(***************************************************************************)
(* Revaluation: a request that is about to finish its batch has written    *)
(* the voucher, and written vouchers stay.                                 *)
(***************************************************************************)
FxInv ==
    /\ DOMAIN batch = Months /\ DOMAIN fxVoucher = Months
    /\ PostedBatchIsComplete
    /\ \A q \in Requests : pc[q] = "fxBatch" => fxVoucher[job[q].month] = "complete"

\* Every step of a request keeps batches and vouchers in step.
LEMMA ServeRevalues ==
    ASSUME Placed, FxInv, NEW q \in Requests, Serve(q) \/ Dies(q)
    PROVE  FxInv'
<1>1. /\ job' = job /\ DOMAIN pc = Requests /\ DOMAIN pc' = Requests
      /\ \A x \in Requests \ {q} : pc'[x] = pc[x]
    BY OthersStay DEF Placed
<1>2. Op(q) = "revalue" => job[q].month \in Months
    BY JobShape
<1>3. pc[q] \in {"fxVoucher", "fxLines", "fxBatch"} => Op(q) = "revalue"
    BY JobShape DEF Placed, Own, LabelsOf, Ops
<1>4. \A x \in Requests : pc[x] = "fxBatch" => job[x].month \in Months
    <2>1. TAKE x \in Requests
    <2>2. pc[x] = "fxBatch" => Op(x) = "revalue"
        BY JobShape DEF Placed, Own, LabelsOf, Ops
    <2> QED BY <2>2, JobShape
<1>5. CASE InsertBatch(q)
    BY <1>1, <1>2, <1>5 DEF InsertBatch, Starts, Goto, NewBatch, FxInv, PostedBatchIsComplete, fxData
<1>6. CASE InsertFxVoucher(q)
    BY <1>1, <1>2, <1>3, <1>4, <1>6 DEF InsertFxVoucher, Goto, FxInv, PostedBatchIsComplete
<1>7. CASE InsertFxLines(q)
    BY <1>1, <1>2, <1>3, <1>4, <1>7 DEF InsertFxLines, Goto, FxInv, PostedBatchIsComplete
<1>8. CASE FinishBatch(q)
    BY <1>1, <1>2, <1>3, <1>8 DEF FinishBatch, Goto, FxInv, PostedBatchIsComplete
<1>9. CASE UNCHANGED fxData /\ pc'[q] # "fxBatch"
    <2>1. \A x \in Requests : pc'[x] = "fxBatch" => pc[x] = "fxBatch"
        BY <1>1, <1>9
    <2>2. UNCHANGED <<batch, fxVoucher>>
        BY <1>9 DEF fxData
    <2> QED BY <1>1, <2>1, <2>2 DEF FxInv, PostedBatchIsComplete
<1>g. \A l : Goto(q, l) => pc'[q] = l
    BY <1>1 DEF Goto
<1>h. \A ok : Finish(q, ok) => pc'[q] # "fxBatch"
    BY <1>g DEF Finish
<1>10. CASE \/ ListDue(q) \/ NextTemplate(q) \/ AllRun(q) \/ AddAsset(q) \/ BeginDepreciation(q)
            \/ LoadAsset(q) \/ Hire(q) \/ Dies(q)
    BY <1>9, <1>10, <1>g DEF ListDue, NextTemplate, AllRun, AddAsset, BeginDepreciation, LoadAsset, Hire, Dies
<1>11. CASE CommitDepreciation(q) \/ CommitDisposal(q) \/ PostPayroll(q) \/ Close(q)
    BY <1>9, <1>11, <1>h DEF CommitDepreciation, CommitDisposal, PostPayroll, Close
<1>12. CASE BeginCalculation(q) \/ CommitCalculation(q)
    BY <1>9, <1>12, <1>g, <1>h DEF BeginCalculation, CommitCalculation
<1> QED BY <1>5, <1>6, <1>7, <1>8, <1>10, <1>11, <1>12 DEF Serve

\* A batch is posted only with a complete voucher: run_revaluation writes the status
\* last, and a batch or voucher that is there stops every other run of the month.
THEOREM PostedBatchesAreComplete == Spec => []PostedBatchIsComplete
<1>1. Init => FxInv
    BY DEF Init, FxInv, PostedBatchIsComplete
<1>2. ScheduleInv /\ FxInv /\ [Next]_vars => FxInv'
    <2> SUFFICES ASSUME ScheduleInv, FxInv, [Next]_vars PROVE FxInv'
        OBVIOUS
    <2>1. CASE \E q \in Requests : Serve(q) \/ Dies(q)
        BY <2>1, ServeRevalues DEF ScheduleInv
    <2>2. CASE NextDay \/ UNCHANGED vars
        <3>1. UNCHANGED <<job, pc, batch, fxVoucher>>
            BY <2>2 DEF NextDay, vars, fxData
        <3> QED BY <3>1 DEF FxInv, PostedBatchIsComplete
    <2> QED BY <2>1, <2>2 DEF Next
<1>3. FxInv => PostedBatchIsComplete
    BY DEF FxInv
<1> QED BY <1>1, <1>2, <1>3, ScheduleAlways, PTL DEF Spec

(***************************************************************************)
(* Payroll: nobody works on a run that a request has calculated and is     *)
(* about to post.                                                          *)
(***************************************************************************)
PayInv ==
    /\ salaries \in Nat \ {0}
    /\ DOMAIN run = Months /\ DOMAIN runTotal = Months /\ DOMAIN lines = Months
    /\ DOMAIN payVoucher = Months
    /\ PostedRunIsBooked
    /\ \A q \in Requests : /\ pc[q] \in {"calculate", "postPayroll"} => run[month[q]] # "posted"
                           /\ pc[q] = "postPayroll" => seenTotal[q] \in Nat \ {0}

\* Every step of a request keeps payroll runs and their vouchers in step.
LEMMA ServePays ==
    ASSUME "payroll" \in Alone, ScheduleInv, PayInv, NEW q \in Requests, Serve(q) \/ Dies(q)
    PROVE  PayInv'
<1>1. /\ job' = job /\ DOMAIN pc = Requests /\ DOMAIN pc' = Requests
      /\ DOMAIN month = Requests /\ DOMAIN seenTotal = Requests
      /\ \A x \in Requests \ {q} : pc'[x] = pc[x] /\ month'[x] = month[x] /\ seenTotal'[x] = seenTotal[x]
    BY OthersStay DEF Placed, ScheduleInv
<1>2. \A x \in Requests : month[x] \in Months /\ (pc[x] = "postPayroll" => Op(x) = "payroll")
    <2>1. \A x \in Requests : Own(x) /\ Op(x) \in Ops
        BY JobShape DEF ScheduleInv, Placed
    <2> QED BY <2>1 DEF Own, LabelsOf, Ops
<1>g. \A l : Goto(q, l) => pc'[q] = l
    BY <1>1 DEF Goto
<1>h. \A ok : Finish(q, ok) => pc'[q] \notin {"calculate", "postPayroll"}
    BY <1>g DEF Finish
<1>3. CASE BeginCalculation(q)
    <2>1. month'[q] = MonthFor(q) /\ UNCHANGED <<payData, seenTotal>>
          /\ ((pc'[q] = "calculate" /\ run[MonthFor(q)] # "posted") \/ pc'[q] \notin {"calculate", "postPayroll"})
        BY <1>1, <1>3, <1>g, <1>h DEF BeginCalculation, Recalculates
    <2>2. UNCHANGED <<salaries, run, runTotal, lines, payVoucher>>
        BY <2>1 DEF payData
    <2>3. /\ pc'[q] \in {"calculate", "postPayroll"} => run'[month'[q]] # "posted"
          /\ pc'[q] # "postPayroll"
        BY <2>1, <2>2
    <2>4. \A x \in Requests \ {q} :
             /\ pc'[x] \in {"calculate", "postPayroll"} => run'[month'[x]] # "posted"
             /\ pc'[x] = "postPayroll" => seenTotal'[x] \in Nat \ {0}
        BY <1>1, <2>2 DEF PayInv
    <2>5. PostedRunIsBooked'
        BY <2>2 DEF PayInv, PostedRunIsBooked
    <2> QED BY <2>2, <2>3, <2>4, <2>5 DEF PayInv
<1>4. CASE CommitCalculation(q)
    <2>1. PICK m \in Months : m = month[q]
        BY <1>2
    <2>2. /\ run' = [run EXCEPT ![m] = "calculated"] /\ runTotal' = [runTotal EXCEPT ![m] = salaries]
          /\ lines' = [lines EXCEPT ![m] = salaries] /\ seenTotal'[q] = salaries
          /\ UNCHANGED <<salaries, payVoucher, month>>
        BY <1>1, <1>4, <2>1 DEF CommitCalculation
    <2>3. run[m] # "posted"
        BY <1>4, <2>1 DEF CommitCalculation, PayInv
    <2>4. PostedRunIsBooked'
        BY <2>2, <2>3 DEF PayInv, PostedRunIsBooked
    <2>5. \A x \in Requests :
             /\ pc'[x] \in {"calculate", "postPayroll"} => run'[month'[x]] # "posted"
             /\ pc'[x] = "postPayroll" => seenTotal'[x] \in Nat \ {0}
        <3>1. run'[m] = "calculated" /\ \A n \in Months \ {m} : run'[n] = run[n]
            BY <2>2 DEF PayInv
        <3> QED BY <1>1, <1>2, <2>1, <2>2, <3>1 DEF PayInv
    <2> QED BY <2>2, <2>4, <2>5 DEF PayInv
<1>5. CASE PostPayroll(q)
    <2>1. \A x \in Requests \ {q} : pc[x] \notin {"calculate", "postPayroll"}
        <3>1. Op(q) = "payroll" /\ Running(q)
            BY <1>2, <1>5 DEF PostPayroll, Running, Ended
        <3>2. \A x \in Requests \ {q} : ~Running(x)
            BY <3>1 DEF ScheduleInv, Exclusive
        <3> QED BY <3>2 DEF Running, Ended
    <2>2. PICK m \in Months : m = month[q]
        BY <1>2
    <2>3. PICK ok : /\ ok <=> (payVoucher[m] = 0 /\ m \notin closed /\ lines[m] = seenTotal[q])
                    /\ Finish(q, ok)
                    /\ IF ok THEN /\ payVoucher' = [payVoucher EXCEPT ![m] = seenTotal[q]]
                                  /\ run'        = [run EXCEPT ![m] = "posted"]
                                  /\ runTotal'   = [runTotal EXCEPT ![m] = seenTotal[q]]
                             ELSE UNCHANGED <<payVoucher, run, runTotal>>
        BY <1>5, <2>2 DEF PostPayroll
    <2>4. UNCHANGED <<salaries, lines>> /\ seenTotal[q] \in Nat \ {0}
        BY <1>5 DEF PostPayroll, PayInv
    <2>5. \A x \in Requests : pc'[x] \notin {"calculate", "postPayroll"}
        BY <1>1, <1>h, <2>1, <2>3
    <2>6. /\ DOMAIN run' = Months /\ DOMAIN runTotal' = Months /\ DOMAIN payVoucher' = Months
          /\ PostedRunIsBooked'
        BY <2>3, <2>4 DEF PayInv, PostedRunIsBooked
    <2> QED BY <2>4, <2>5, <2>6 DEF PayInv
<1>6. CASE Hire(q)
    <2>1. salaries' \in Nat \ {0} /\ UNCHANGED <<run, runTotal, lines, payVoucher, month, seenTotal>>
        BY <1>6, MonthEndData DEF Hire, locals
    <2>2. pc'[q] = "ended"
        BY <1>6, <1>g DEF Hire
    <2> QED BY <1>1, <2>1, <2>2 DEF PayInv, PostedRunIsBooked
<1>9. CASE UNCHANGED payData /\ pc'[q] \notin {"calculate", "postPayroll"}
    <2>1. UNCHANGED <<salaries, run, runTotal, lines, payVoucher>>
        BY <1>9 DEF payData
    <2>2. \A x \in Requests :
             /\ pc'[x] \in {"calculate", "postPayroll"} => run'[month'[x]] # "posted"
             /\ pc'[x] = "postPayroll" => seenTotal'[x] \in Nat \ {0}
        BY <1>1, <1>9, <2>1 DEF PayInv
    <2>3. PostedRunIsBooked'
        BY <2>1 DEF PayInv, PostedRunIsBooked
    <2> QED BY <2>1, <2>2, <2>3 DEF PayInv
<1>10. CASE \/ ListDue(q) \/ NextTemplate(q) \/ AllRun(q) \/ AddAsset(q) \/ BeginDepreciation(q)
            \/ LoadAsset(q) \/ Dies(q)
    BY <1>9, <1>10, <1>g DEF ListDue, NextTemplate, AllRun, AddAsset, BeginDepreciation, LoadAsset, Dies
<1>11. CASE CommitDepreciation(q) \/ CommitDisposal(q) \/ Close(q)
    BY <1>9, <1>11, <1>h DEF CommitDepreciation, CommitDisposal, Close
<1>12. CASE InsertBatch(q) \/ InsertFxVoucher(q) \/ InsertFxLines(q) \/ FinishBatch(q)
    BY <1>9, <1>12, <1>g DEF InsertBatch, InsertFxVoucher, InsertFxLines, FinishBatch
<1> QED BY <1>3, <1>4, <1>5, <1>6, <1>10, <1>11, <1>12 DEF Serve

\* When nothing runs beside a payroll that is posted, run, lines and voucher of a month
\* agree: PayrollService.calculate leaves a posted run alone, and post takes the
\* totals of the instance that calculate has returned.
THEOREM PostedRunsAreBooked == ASSUME "payroll" \in Alone PROVE Spec => []PostedRunIsBooked
<1>1. Init => PayInv
    BY MonthEndData DEF Init, PayInv, PostedRunIsBooked
<1>2. ScheduleInv /\ PayInv /\ [Next]_vars => PayInv'
    <2> SUFFICES ASSUME ScheduleInv, PayInv, [Next]_vars PROVE PayInv'
        OBVIOUS
    <2>1. CASE \E q \in Requests : Serve(q) \/ Dies(q)
        BY <2>1, ServePays
    <2>2. CASE NextDay \/ UNCHANGED vars
        <3>1. UNCHANGED <<pc, month, seenTotal, salaries, run, runTotal, lines, payVoucher>>
            BY <2>2 DEF NextDay, vars, payData, locals
        <3> QED BY <3>1 DEF PayInv, PostedRunIsBooked
    <2> QED BY <2>1, <2>2 DEF Next
<1>3. PayInv => PostedRunIsBooked
    BY DEF PayInv
<1> QED BY <1>1, <1>2, <1>3, ScheduleAlways, PTL DEF Spec

(***************************************************************************)
(* The asset register: what overlapping runs have read is still so when    *)
(* the first of them commits, and every later one is refused.              *)
(***************************************************************************)
\* A plan buys and disposes of an asset once, and its runs are of one month.
RegisterPlan(plan) ==
    /\ \A q, x \in Requests : q # x /\ plan[q].op = plan[x].op /\ plan[q].op \in {"add", "dispose"}
                                 => plan[q].asset # plan[x].asset
    /\ \A q, x \in Requests : q # x /\ plan[q].op = "depreciate"
                                 => /\ plan[x].op # "runDue"
                                    /\ plan[x].op = "depreciate" => plan[x].month = plan[q].month

\* The assets on the books.
Held == {a \in Assets : asset[a] # "disposed"}

\* What the register holds.
AssetTypes ==
    /\ DOMAIN asset = Assets /\ DOMAIN accumulated = Assets /\ DOMAIN row = Assets
    /\ DOMAIN depVoucher = Months /\ depAccount \in [Accounts -> Int]
    /\ \A a \in Assets : /\ asset[a] \in {"none", "active", "fully", "disposed"}
                         /\ accumulated[a] \in Nat
                         /\ DOMAIN row[a] = Months
                         /\ \A m \in Months : row[a][m] \in Nat
                         /\ asset[a] = "none" => accumulated[a] = 0
    /\ \A m \in Months : depVoucher[m] \in Nat

\* What a run has found is what is to be depreciated.
FoundNow(q) ==
    \A a \in DOMAIN found[q] : /\ a \in Assets /\ asset[a] = "active"
                               /\ row[a][month[q]] = 0 /\ found[q][a] = accumulated[a]

\* What a request has found in the register while it works on it.
AtAssets(q) ==
    /\ Op(q) = "add" /\ pc[q] = "start" => asset[job[q].asset] = "none"
    /\ Op(q) = "dispose" /\ pc[q] \in {"start", "dispose"} => asset[job[q].asset] # "disposed"
    /\ pc[q] = "dispose" => /\ asset[job[q].asset] # "none" /\ DOMAIN found[q] = {job[q].asset}
                            /\ found[q][job[q].asset] = accumulated[job[q].asset]
    /\ pc[q] = "depreciate" => /\ month[q] = MonthFor(q)
                               /\ depVoucher[month[q]] = 0 => FoundNow(q)

\* The inductive invariant of the register.
RegisterInv ==
    /\ AssetTypes /\ RowsAddUp /\ BooksFollowRegister
    /\ \A q \in Requests : AtAssets(q)

\* What the theorems ask of the plans and the data.
RegisterData ==
    /\ "dispose" \in Alone
    /\ \A plan \in Plans : RegisterPlan(plan)
    /\ \A a \in Assets : Cost[a] > 0

\* Runs that overlap are of one month.
LEMMA OneMonth ==
    ASSUME RegisterData, ScheduleInv, RegisterInv, NEW q \in Requests, NEW x \in Requests,
           pc[q] = "depreciate", pc[x] = "depreciate"
    PROVE  month[q] = month[x]
<1>1. Placed /\ job \in Plans /\ RegisterPlan(job)
    BY DEF ScheduleInv, Placed, RegisterData
<1>2. \A y \in {q, x} : Op(y) \in {"runDue", "depreciate"} /\ month[y] = MonthFor(y)
    BY <1>1, JobShape DEF Placed, Own, LabelsOf, Ops, RegisterInv, AtAssets
<1>3. CASE q = x
    BY <1>3
<1>4. CASE q # x /\ Op(q) = "runDue" /\ Op(x) = "runDue"
    BY <1>2, <1>4 DEF MonthFor
<1>5. CASE q # x /\ Op(q) = "depreciate"
    BY <1>1, <1>2, <1>5 DEF MonthFor, RegisterPlan, Op
<1>6. CASE q # x /\ Op(x) = "depreciate"
    BY <1>1, <1>2, <1>6 DEF MonthFor, RegisterPlan, Op
<1> QED BY <1>2, <1>3, <1>4, <1>5, <1>6

\* Nothing is written: the register is kept when the request at work is where it may be.
LEMMA Untouched ==
    ASSUME ScheduleInv, RegisterInv, NEW q \in Requests, Serve(q) \/ Dies(q),
           UNCHANGED assetData, AtAssets(q)'
    PROVE  RegisterInv'
<1>1. /\ Placed /\ job' = job /\ today' = today
      /\ \A x \in Requests \ {q} : pc'[x] = pc[x] /\ month'[x] = month[x] /\ found'[x] = found[x]
    BY OthersStay DEF ScheduleInv
<1>2. UNCHANGED <<asset, accumulated, row, depVoucher, depAccount>>
    BY DEF assetData
<1>3. AssetTypes' /\ RowsAddUp' /\ BooksFollowRegister'
    BY <1>2 DEF RegisterInv, AssetTypes, RowsAddUp, BooksFollowRegister, SumOf
<1>4. ASSUME NEW x \in Requests, x # q PROVE AtAssets(x)'
    <2>1. AtAssets(x) /\ pc'[x] = pc[x] /\ month'[x] = month[x] /\ found'[x] = found[x]
        BY <1>1, <1>4 DEF RegisterInv
    <2>2. (Op(x))' = Op(x) /\ (MonthFor(x))' = MonthFor(x) /\ (FoundNow(x)' <=> FoundNow(x))
        BY <1>1, <1>2, <2>1 DEF Op, MonthFor, FoundNow
    <2> QED BY <1>1, <1>2, <2>1, <2>2 DEF AtAssets
<1> QED BY <1>3, <1>4 DEF RegisterInv

\* An asset is depreciated by no more than is left.
LEMMA ShareIs ==
    ASSUME RegisterInv, NEW q \in Requests, FoundNow(q), NEW a \in DOMAIN found[q]
    PROVE  /\ a \in Assets /\ asset[a] = "active" /\ row[a][month[q]] = 0 /\ found[q][a] = accumulated[a]
           /\ Share(q, a) \in Nat
           /\ accumulated[a] + Share(q, a) <= Cost[a]
<1>1. a \in Assets /\ asset[a] = "active" /\ row[a][month[q]] = 0 /\ found[q][a] = accumulated[a]
    BY DEF FoundNow
<1>2. Cost[a] \in Nat /\ Monthly[a] \in Nat /\ accumulated[a] \in Nat /\ accumulated[a] < Cost[a]
    BY <1>1, MonthEndData DEF RegisterInv, AssetTypes, RowsAddUp
<1> QED BY <1>1, <1>2 DEF Share

\* The accounts of finitely many assets.
LEMMA AccountsAre == ASSUME IsFiniteSet(Assets) PROVE IsFiniteSet(Accounts)
<1> DEFINE h == [a \in Assets |-> AccountOf[a]]
<1>1. h \in Surjection(Assets, Accounts)
    BY DEF Surjection, Accounts
<1> QED BY <1>1, FS_Surjection

\* An amount booked on one account changes what all accounts hold together by it.
LEMMA AccountChanged ==
    ASSUME IsFiniteSet(Assets), NEW f, NEW g, NEW c \in Accounts, NEW x \in Int,
           \A a \in Accounts : f[a] \in Int, g[c] = f[c] + x, \A a \in Accounts \ {c} : g[a] = f[a]
    PROVE  SumFunctionOnSet(g, Accounts) = SumFunctionOnSet(f, Accounts) + x
<1>1. IsFiniteSet(Accounts)
    BY AccountsAre
<1>2. g[c] \in Int
    OBVIOUS
<1>3. SumFunctionOnSet(g, Accounts) = SumFunctionOnSet(f, Accounts) - f[c] + g[c]
    BY <1>1, <1>2, SumChanged
<1>4. SumFunctionOnSet(f, Accounts) \in Int
    BY <1>1, SumInt
<1> QED BY <1>3, <1>4

\* A run that is not refused writes rows, voucher and account alike.
LEMMA RunsRegister ==
    ASSUME ScheduleInv, RegisterInv, NEW q \in Requests, CommitDepreciation(q), pc[q] = "depreciate",
           depVoucher[month[q]] = 0, FoundNow(q), ~UNCHANGED assetData
    PROVE  /\ AssetTypes' /\ RowsAddUp' /\ BooksFollowRegister'
           /\ depVoucher'[month[q]] # 0
           /\ \A m \in Months \ {month[q]} : depVoucher'[m] = depVoucher[m]
           /\ \A a \in Assets : asset'[a] # asset[a] => asset[a] = "active" /\ asset'[a] = "fully"
           /\ \A a \in Assets : asset[a] \in {"none", "disposed"} => accumulated'[a] = accumulated[a]
<1> DEFINE m == month[q]
           work == Worked(q)
           home == AccountOf[Least(work)]
           share == [a \in work |-> Share(q, a)]
           total == SumOf(share, work)
<1>1. m \in Months /\ IsFiniteSet(Months) /\ IsFiniteSet(Assets)
    BY MonthsAre, MonthEndSets DEF ScheduleInv, Placed, Own
<1>2. /\ \A a \in work : /\ a \in Assets /\ asset[a] = "active" /\ row[a][m] = 0 /\ found[q][a] = accumulated[a]
                         /\ share[a] \in Nat /\ Share(q, a) = share[a]
                         /\ accumulated[a] + share[a] <= Cost[a]
      /\ work \subseteq Assets /\ IsFiniteSet(work)
    <2>1. \A a \in work : /\ a \in Assets /\ asset[a] = "active" /\ row[a][m] = 0 /\ found[q][a] = accumulated[a]
                          /\ share[a] \in Nat /\ Share(q, a) = share[a]
                          /\ accumulated[a] + share[a] <= Cost[a]
        BY ShareIs DEF Worked
    <2>2. work \subseteq Assets
        BY <2>1
    <2> QED BY <1>1, <2>1, <2>2, FS_Subset
<1>3. /\ work # {}
      /\ accumulated' = [a \in Assets |-> IF a \in work THEN found[q][a] + Share(q, a) ELSE accumulated[a]]
      /\ asset' = [a \in Assets |-> IF a \notin work THEN asset[a]
                                    ELSE IF found[q][a] + Share(q, a) >= Cost[a] THEN "fully" ELSE "active"]
      /\ row' = [a \in Assets |-> IF a \in work THEN [row[a] EXCEPT ![m] = Share(q, a)] ELSE row[a]]
      /\ depVoucher' = [depVoucher EXCEPT ![m] = @ + total]
      /\ depAccount' = [depAccount EXCEPT ![home] = @ + total]
    BY DEF CommitDepreciation
<1>w. \A a \in work : share[a] > 0
    BY DEF Worked
<1>x. home \in Accounts
    <2>1. work \subseteq Nat
        BY <1>2, MonthEndSets
    <2>2. Least(work) \in work
        BY <1>3, <2>1, LeastIs
    <2> QED BY <1>2, <2>2 DEF Accounts
<1> HIDE DEF share, work, home
<1>4. /\ AssetTypes /\ RowsAddUp /\ BooksFollowRegister
      /\ \A a \in Assets : Cost[a] \in Nat
    BY MonthEndData DEF RegisterInv
<1>5. total \in Nat /\ total # 0
    <2>1. total \in Nat
        BY <1>2, SumNat DEF SumOf
    <2>2. PICK a \in work : TRUE
        BY <1>3
    <2>3. total = share[a] + SumFunctionOnSet(share, work \ {a})
        BY <1>2, <2>2, SumRemove DEF SumOf
    <2>4. SumFunctionOnSet(share, work \ {a}) \in Nat
        <3>1. IsFiniteSet(work \ {a})
            BY <1>2, FS_Subset
        <3> QED BY <1>2, <3>1, SumNat
    <2> QED BY <1>2, <1>w, <2>1, <2>2, <2>3, <2>4
<1> HIDE DEF total
<1>6. ASSUME NEW a \in work
      PROVE  /\ accumulated'[a] = accumulated[a] + share[a] /\ accumulated[a] \in Nat
             /\ share[a] \in Nat /\ a \in Assets /\ accumulated[a] + share[a] <= Cost[a]
             /\ asset'[a] \in {"active", "fully"}
             /\ asset'[a] = "fully" <=> accumulated'[a] >= Cost[a]
    <2>1. a \in Assets /\ accumulated[a] \in Nat /\ share[a] \in Nat /\ DOMAIN row[a] = Months
          /\ Share(q, a) = share[a] /\ found[q][a] = accumulated[a] /\ accumulated[a] + share[a] <= Cost[a]
        BY <1>2, <1>4 DEF AssetTypes
    <2>2. accumulated'[a] = accumulated[a] + share[a]
        BY <1>3, <2>1
    <2>3. asset'[a] = IF accumulated'[a] >= Cost[a] THEN "fully" ELSE "active"
        BY <1>3, <2>1, <2>2
    <2> QED BY <2>1, <2>2, <2>3
<1>r. ASSUME NEW a \in work
      PROVE  /\ DOMAIN row'[a] = Months /\ row'[a][m] = share[a]
             /\ \A k \in Months \ {m} : row'[a][k] = row[a][k]
    <2>1. a \in Assets /\ DOMAIN row[a] = Months /\ Share(q, a) = share[a]
        BY <1>2, <1>4 DEF AssetTypes
    <2>2. row'[a] = [row[a] EXCEPT ![m] = share[a]]
        BY <1>3, <2>1
    <2> QED BY <1>1, <2>1, <2>2
<1>7. ASSUME NEW a \in Assets, a \notin work
      PROVE  accumulated'[a] = accumulated[a] /\ asset'[a] = asset[a] /\ row'[a] = row[a]
    BY <1>3, <1>7
<1>8. AssetTypes'
    <2>1. DOMAIN asset' = Assets /\ DOMAIN accumulated' = Assets /\ DOMAIN row' = Assets
        BY <1>3
    <2>2. DOMAIN depVoucher' = Months /\ \A k \in Months : depVoucher'[k] \in Nat
        BY <1>1, <1>3, <1>4, <1>5 DEF AssetTypes
    <2>3. depAccount' \in [Accounts -> Int]
        BY <1>3, <1>4, <1>5, <1>x DEF AssetTypes
    <2>4. ASSUME NEW a \in Assets
          PROVE  /\ asset'[a] \in {"none", "active", "fully", "disposed"}
                 /\ accumulated'[a] \in Nat
                 /\ DOMAIN row'[a] = Months
                 /\ \A k \in Months : row'[a][k] \in Nat
                 /\ asset'[a] = "none" => accumulated'[a] = 0
        <3>1. CASE a \in work
            <4>1. accumulated'[a] = accumulated[a] + share[a]
                BY <1>6, <3>1
            <4>2. accumulated[a] \in Nat
                BY <1>6, <3>1
            <4>3. share[a] \in Nat
                BY <1>6, <3>1
            <4>4. accumulated'[a] \in Nat
                BY <4>1, <4>2, <4>3
            <4>5. DOMAIN row'[a] = Months /\ \A k \in Months : row'[a][k] \in Nat
                <5>1. \A k \in Months : row'[a][k] = IF k = m THEN share[a] ELSE row[a][k]
                    BY <1>r, <3>1
                <5>2. \A k \in Months : row[a][k] \in Nat
                    BY <1>4 DEF AssetTypes
                <5> QED BY <1>r, <3>1, <4>3, <5>1, <5>2
            <4>6. asset'[a] \in {"active", "fully"}
                BY <1>6, <3>1
            <4> QED BY <4>4, <4>5, <4>6
        <3>2. CASE a \notin work
            BY <1>4, <1>7, <3>2 DEF AssetTypes
        <3> QED BY <3>1, <3>2
    <2> QED BY <2>1, <2>2, <2>3, <2>4 DEF AssetTypes
<1>9. RowsAddUp'
    <2> SUFFICES ASSUME NEW a \in Assets
                 PROVE  /\ accumulated'[a] = SumFunctionOnSet(row'[a], Months)
                        /\ accumulated'[a] <= Cost[a]
                        /\ asset'[a] = "fully" => accumulated'[a] = Cost[a]
                        /\ asset'[a] = "active" => accumulated'[a] < Cost[a]
        BY DEF RowsAddUp, SumOf
    <2>1. CASE a \notin work
        BY <1>4, <1>7, <2>1 DEF RowsAddUp, SumOf
    <2>2. CASE a \in work
        <3>1. \A k \in Months : row[a][k] \in Nat /\ row'[a][k] \in Nat
            BY <1>4, <1>8 DEF AssetTypes
        <3>2. \A k \in Months \ {m} : row'[a][k] = row[a][k]
            BY <1>r, <2>2
        <3>3. row'[a][m] = share[a] /\ row[a][m] = 0
            BY <1>2, <1>r, <2>2
        <3>4. SumFunctionOnSet(row'[a], Months) = SumFunctionOnSet(row[a], Months) - row[a][m] + row'[a][m]
            <4>1. PICK f, g : f = row[a] /\ g = row'[a]
                OBVIOUS
            <4>2. SumFunctionOnSet(g, Months) = SumFunctionOnSet(f, Months) - f[m] + g[m]
                BY <1>1, <3>1, <3>2, <4>1, SumChanged
            <4> QED BY <4>1, <4>2
        <3>5. SumFunctionOnSet(row[a], Months) = accumulated[a]
            BY <1>4 DEF RowsAddUp, SumOf
        <3>6. accumulated'[a] = accumulated[a] + share[a] /\ accumulated[a] \in Nat /\ share[a] \in Nat
            BY <1>6, <2>2
        <3>7. accumulated'[a] = SumFunctionOnSet(row'[a], Months)
            BY <3>3, <3>4, <3>5, <3>6
        <3>8. Cost[a] \in Nat /\ accumulated[a] + share[a] <= Cost[a]
            BY <1>4, <1>6, <2>2
        <3>9. asset'[a] \in {"active", "fully"} /\ (asset'[a] = "fully" <=> accumulated'[a] >= Cost[a])
            BY <1>6, <2>2
        <3> QED BY <3>6, <3>7, <3>8, <3>9
    <2> QED BY <2>1, <2>2
<1>10. BooksFollowRegister'
    <2>1. ASSUME NEW k \in Months
          PROVE  depVoucher'[k] = SumFunctionOnSet([a \in Assets |-> row'[a][k]], Assets)
        <3>1. PICK f, g : f = [a \in Assets |-> row[a][k]] /\ g = [a \in Assets |-> row'[a][k]]
            OBVIOUS
        <3>2. \A a \in Assets : f[a] \in Int /\ f[a] = row[a][k] /\ g[a] = row'[a][k]
            BY <1>4, <3>1 DEF AssetTypes
        <3>3. depVoucher[k] = SumFunctionOnSet(f, Assets)
            BY <1>4, <3>1 DEF BooksFollowRegister, SumOf
        <3>4. CASE k # m
            <4>1. \A a \in Assets : row'[a][k] = row[a][k]
                <5>1. TAKE a \in Assets
                <5>2. CASE a \in work
                    BY <1>r, <3>4, <5>2
                <5>3. CASE a \notin work
                    BY <1>7, <5>3
                <5> QED BY <5>2, <5>3
            <4>2. f = g
                BY <3>1, <4>1
            <4>3. depVoucher'[k] = depVoucher[k]
                BY <1>3, <1>4, <3>4 DEF AssetTypes
            <4> QED BY <3>1, <3>3, <4>2, <4>3
        <3>5. CASE k = m
            <4>1. \A a \in work : share[a] \in Int /\ g[a] = f[a] + share[a]
                <5>1. TAKE a \in work
                <5>2. row'[a][k] = share[a] /\ row[a][k] = 0 /\ a \in Assets /\ share[a] \in Nat
                    BY <1>2, <1>r, <3>5
                <5> QED BY <3>2, <5>2
            <4>2. \A a \in Assets \ work : g[a] = f[a]
                BY <1>7, <3>2
            <4>3. SumFunctionOnSet(g, Assets) = SumFunctionOnSet(f, Assets) + SumFunctionOnSet(share, work)
                BY <1>1, <1>2, <3>2, <4>1, <4>2, SumRaised
            <4>4. depVoucher'[k] = depVoucher[k] + total
                BY <1>3, <1>4, <3>5 DEF AssetTypes
            <4> QED BY <3>1, <3>3, <4>3, <4>4 DEF total, SumOf
        <3> QED BY <3>4, <3>5
    <2>2. Held' = Held
        <3>1. \A a \in Assets : asset'[a] = "disposed" <=> asset[a] = "disposed"
            <4>1. TAKE a \in Assets
            <4>2. CASE a \in work
                BY <1>2, <1>6, <4>2
            <4>3. CASE a \notin work
                BY <1>7, <4>3
            <4> QED BY <4>2, <4>3
        <3> QED BY <3>1 DEF Held
    <2>3. work \subseteq Held /\ Held \subseteq Assets /\ IsFiniteSet(Held)
        <3>1. work \subseteq Held /\ Held \subseteq Assets
            BY <1>2 DEF Held
        <3> QED BY <1>1, <3>1, FS_Subset
    <2>4. SumFunctionOnSet(accumulated', Held) = SumFunctionOnSet(accumulated, Held) + SumFunctionOnSet(share, work)
        <3>1. PICK f, g, held : f = accumulated /\ g = accumulated' /\ held = Held
            OBVIOUS
        <3>2. \A a \in held : f[a] \in Int
            BY <1>4, <2>3, <3>1 DEF AssetTypes
        <3>3. \A a \in work : share[a] \in Int /\ g[a] = f[a] + share[a]
            <4>1. TAKE a \in work
            <4>2. accumulated'[a] = accumulated[a] + share[a] /\ share[a] \in Nat
                BY <1>6
            <4> QED BY <3>1, <4>2
        <3>4. \A a \in held \ work : g[a] = f[a]
            BY <1>7, <2>3, <3>1
        <3>5. SumFunctionOnSet(g, held) = SumFunctionOnSet(f, held) + SumFunctionOnSet(share, work)
            BY <2>3, <3>1, <3>2, <3>3, <3>4, SumRaised
        <3> QED BY <3>1, <3>5
    <2>5. SumFunctionOnSet(depAccount, Accounts) = SumFunctionOnSet(accumulated, Held)
        BY <1>4 DEF BooksFollowRegister, Held, SumOf
    <2>a. SumFunctionOnSet(depAccount', Accounts) = SumFunctionOnSet(depAccount, Accounts) + total
        <3>1. PICK f, g : f = depAccount /\ g = depAccount'
            OBVIOUS
        <3>2. /\ \A a \in Accounts : f[a] \in Int
              /\ g[home] = f[home] + total /\ total \in Int
              /\ \A a \in Accounts \ {home} : g[a] = f[a]
            BY <1>3, <1>4, <1>5, <1>x, <3>1 DEF AssetTypes
        <3>3. SumFunctionOnSet(g, Accounts) = SumFunctionOnSet(f, Accounts) + total
            BY <1>1, <1>x, <3>2, AccountChanged
        <3> QED BY <3>1, <3>3
    <2>b. SumFunctionOnSet(accumulated, Held) \in Int
        <3>1. \A a \in Held : accumulated[a] \in Int
            BY <1>4, <2>3 DEF AssetTypes
        <3> QED BY <2>3, <3>1, SumInt
    <2>6. SumFunctionOnSet(depAccount', Accounts) = SumFunctionOnSet(accumulated', Held')
        BY <2>2, <2>4, <2>5, <2>a, <2>b DEF total, SumOf
    <2> QED BY <2>1, <2>6 DEF BooksFollowRegister, Held, SumOf
<1>11. depVoucher'[m] # 0 /\ \A k \in Months \ {m} : depVoucher'[k] = depVoucher[k]
    BY <1>1, <1>3, <1>4, <1>5 DEF AssetTypes
<1>12. \A a \in Assets : /\ asset'[a] # asset[a] => asset[a] = "active" /\ asset'[a] = "fully"
                         /\ asset[a] \in {"none", "disposed"} => accumulated'[a] = accumulated[a]
    <2>1. TAKE a \in Assets
    <2>2. CASE a \in work
        BY <1>2, <1>6, <2>2
    <2>3. CASE a \notin work
        BY <1>7, <2>3
    <2> QED BY <2>2, <2>3
<1> QED BY <1>8, <1>9, <1>10, <1>11, <1>12

\* A run commits.
LEMMA CommitRegisters ==
    ASSUME RegisterData, ScheduleInv, RegisterInv, NEW q \in Requests, CommitDepreciation(q)
    PROVE  RegisterInv'
<1>1. /\ Placed /\ job' = job /\ today' = today
      /\ \A x \in Requests \ {q} : pc'[x] = pc[x] /\ month'[x] = month[x] /\ found'[x] = found[x]
    BY OthersStay DEF ScheduleInv, Serve
<1>2. pc[q] = "depreciate" /\ pc'[q] \in {"templates", "ended", "failed"}
    BY <1>1 DEF CommitDepreciation, Finish, Goto, Placed
<1>3. AtAssets(q)'
    BY <1>2 DEF AtAssets
<1>4. CASE UNCHANGED assetData
    BY <1>3, <1>4, Untouched DEF Serve
<1>5. CASE ~UNCHANGED assetData
    <2>1. depVoucher[month[q]] = 0
        BY <1>5 DEF CommitDepreciation, Refused
    <2>2. FoundNow(q)
        BY <1>2, <2>1 DEF RegisterInv, AtAssets
    <2>3. /\ AssetTypes' /\ RowsAddUp' /\ BooksFollowRegister'
          /\ depVoucher'[month[q]] # 0
          /\ \A a \in Assets : asset'[a] # asset[a] => asset[a] = "active" /\ asset'[a] = "fully"
        BY <1>2, <1>5, <2>1, <2>2, RunsRegister
    <2>4. ASSUME NEW x \in Requests, x # q PROVE AtAssets(x)'
        <3>1. /\ AtAssets(x) /\ pc'[x] = pc[x] /\ month'[x] = month[x]
              /\ (Op(x))' = Op(x) /\ (MonthFor(x))' = MonthFor(x)
            BY <1>1, <2>4 DEF RegisterInv, Op, MonthFor
        <3>2. Op(x) \in {"add", "dispose"} => job[x].asset \in Assets
            BY <1>1, JobShape
        <3>3. pc[x] # "dispose"
            <4>1. pc[x] = "dispose" => Op(x) = "dispose"
                BY <1>1, JobShape DEF Placed, Own, LabelsOf, Ops
            <4> QED BY <1>2, <2>4, <4>1 DEF ScheduleInv, Exclusive, Running, Ended, RegisterData
        <3>4. pc[x] = "depreciate" => depVoucher'[month[x]] # 0
            BY <1>2, <2>3, OneMonth
        <3> QED BY <1>1, <2>3, <3>1, <3>2, <3>3, <3>4 DEF AtAssets
    <2> QED BY <1>3, <2>3, <2>4 DEF RegisterInv
<1> QED BY <1>4, <1>5

\* An asset joins the register with nothing depreciated.
LEMMA AddRegisters ==
    ASSUME RegisterData, ScheduleInv, RegisterInv, NEW q \in Requests, AddAsset(q)
    PROVE  RegisterInv'
<1> DEFINE new == job[q].asset
<1>1. /\ Placed /\ job' = job /\ today' = today /\ RegisterPlan(job)
      /\ \A x \in Requests \ {q} : pc'[x] = pc[x] /\ month'[x] = month[x] /\ found'[x] = found[x]
    BY OthersStay DEF ScheduleInv, Serve, Placed, RegisterData
<1>2. /\ pc[q] = "start" /\ Op(q) = "add" /\ pc'[q] = "ended"
      /\ asset' = [asset EXCEPT ![new] = "active"]
      /\ UNCHANGED <<accumulated, row, depVoucher, depAccount>>
    BY <1>1 DEF AddAsset, Starts, Goto, Placed
<1>3. new \in Assets /\ asset[new] = "none" /\ accumulated[new] = 0 /\ Cost[new] > 0
    BY <1>1, <1>2, JobShape DEF RegisterInv, AtAssets, AssetTypes, RegisterData
<1>4. AssetTypes /\ RowsAddUp /\ BooksFollowRegister
    BY DEF RegisterInv
<1>5. /\ DOMAIN asset' = Assets /\ asset'[new] = "active"
      /\ \A a \in Assets \ {new} : asset'[a] = asset[a]
    BY <1>2, <1>3, <1>4 DEF AssetTypes
<1> HIDE DEF new
<1>6. AssetTypes'
    BY <1>2, <1>3, <1>4, <1>5 DEF AssetTypes
<1>7. RowsAddUp'
    BY <1>2, <1>3, <1>4, <1>5 DEF RowsAddUp, SumOf
<1>8. BooksFollowRegister'
    <2>1. Held' = Held
        BY <1>3, <1>5 DEF Held
    <2> QED BY <1>2, <1>4, <2>1 DEF BooksFollowRegister, Held, SumOf
<1>9. ASSUME NEW x \in Requests, x # q PROVE AtAssets(x)'
    <2>1. /\ AtAssets(x) /\ pc'[x] = pc[x] /\ month'[x] = month[x] /\ found'[x] = found[x] /\ job' = job
          /\ (Op(x))' = Op(x) /\ (MonthFor(x))' = MonthFor(x)
        BY <1>1, <1>9 DEF RegisterInv, Op, MonthFor
    <2>2. Op(x) \in {"add", "dispose"} => job[x].asset \in Assets
        BY <1>1, JobShape
    <2>3. Op(x) = "add" => job[x].asset # new
        BY <1>1, <1>2, <1>9 DEF RegisterPlan, Op, new
    <2>4. pc[x] = "dispose" => Op(x) = "dispose"
        BY <1>1, JobShape DEF Placed, Own, LabelsOf, Ops
    <2>5. FoundNow(x) => FoundNow(x)'
        BY <1>2, <1>3, <1>5, <2>1 DEF FoundNow
    <2>6. Op(x) = "add" /\ pc[x] = "start" => asset'[job[x].asset] = "none"
        BY <1>5, <2>1, <2>2, <2>3 DEF AtAssets
    <2>7. Op(x) = "dispose" /\ pc[x] \in {"start", "dispose"} => asset'[job[x].asset] # "disposed"
        BY <1>5, <2>1, <2>2 DEF AtAssets
    <2>8. pc[x] = "dispose" => asset'[job[x].asset] # "none"
        BY <1>5, <2>1, <2>2, <2>4 DEF AtAssets
    <2> QED BY <1>2, <2>1, <2>4, <2>5, <2>6, <2>7, <2>8 DEF AtAssets
<1>10. AtAssets(q)'
    BY <1>2 DEF AtAssets
<1> QED BY <1>6, <1>7, <1>8, <1>9, <1>10 DEF RegisterInv

\* An asset disposed of leaves register and books with all it had accumulated.
LEMMA DisposalRegisters ==
    ASSUME RegisterData, ScheduleInv, RegisterInv, NEW q \in Requests, CommitDisposal(q)
    PROVE  RegisterInv'
<1> DEFINE old == job[q].asset
<1>1. /\ Placed /\ job' = job /\ today' = today /\ RegisterPlan(job)
      /\ \A x \in Requests \ {q} : pc'[x] = pc[x] /\ month'[x] = month[x] /\ found'[x] = found[x]
    BY OthersStay DEF ScheduleInv, Serve, Placed, RegisterData
<1>2. /\ pc[q] = "dispose" /\ pc'[q] \in {"templates", "ended", "failed"}
      /\ UNCHANGED <<accumulated, row, depVoucher>>
    BY <1>1 DEF CommitDisposal, Finish, Goto, Placed
<1>3. Op(q) = "dispose"
    BY <1>1, <1>2, JobShape DEF Placed, Own, LabelsOf, Ops
<1>4. AtAssets(q)'
    BY <1>2 DEF AtAssets
<1>5. CASE UNCHANGED <<disposals, depAccount, asset>>
    <2>1. UNCHANGED assetData
        BY <1>2, <1>5 DEF assetData
    <2> QED BY <1>4, <2>1, Untouched DEF Serve
<1>6. CASE /\ depAccount' = [depAccount EXCEPT ![AccountOf[old]] = @ - found[q][old]]
           /\ asset' = [asset EXCEPT ![old] = "disposed"]
    <2>1. /\ old \in Assets /\ asset[old] \notin {"none", "disposed"} /\ found[q][old] = accumulated[old]
          /\ accumulated[old] \in Nat
        BY <1>1, <1>2, <1>3, JobShape DEF RegisterInv, AtAssets, AssetTypes
    <2>2. AssetTypes /\ RowsAddUp /\ BooksFollowRegister
        BY DEF RegisterInv
    <2>3. /\ DOMAIN asset' = Assets /\ asset'[old] = "disposed"
          /\ \A a \in Assets \ {old} : asset'[a] = asset[a]
        BY <1>6, <2>1, <2>2 DEF AssetTypes
    <2>o. old = job[q].asset
        OBVIOUS
    <2> HIDE DEF old
    <2>4. AssetTypes'
        <3>1. depAccount' \in [Accounts -> Int]
            BY <1>6, <2>1, <2>2 DEF AssetTypes, Accounts
        <3> QED BY <1>2, <2>1, <2>2, <2>3, <3>1 DEF AssetTypes
    <2>5. RowsAddUp'
        BY <1>2, <2>1, <2>2, <2>3 DEF RowsAddUp, SumOf
    <2>6. BooksFollowRegister'
        <3>1. Held' = Held \ {old} /\ old \in Held /\ Held \subseteq Assets
            BY <2>1, <2>3 DEF Held
        <3>2. IsFiniteSet(Held) /\ \A a \in Held : accumulated[a] \in Int
            <4>1. \A a \in Held : accumulated[a] \in Int
                BY <2>2, <3>1 DEF AssetTypes
            <4>2. IsFiniteSet(Assets)
                BY MonthEndSets
            <4> QED BY <3>1, <4>1, <4>2, FS_Subset
        <3>3. PICK held : held = Held
            OBVIOUS
        <3>4. SumFunctionOnSet(accumulated, held) = accumulated[old] + SumFunctionOnSet(accumulated, held \ {old})
            BY <3>1, <3>2, <3>3, SumRemove
        <3>5. SumFunctionOnSet(accumulated, held \ {old}) \in Int
            <4>1. IsFiniteSet(held \ {old})
                BY <3>2, <3>3, FS_Subset
            <4> QED BY <3>2, <3>3, <4>1, SumInt
        <3>6. SumFunctionOnSet(depAccount, Accounts) = SumFunctionOnSet(accumulated, held)
            BY <2>2, <3>3 DEF BooksFollowRegister, Held, SumOf
        <3>a. SumFunctionOnSet(depAccount', Accounts)
                  = SumFunctionOnSet(depAccount, Accounts) + (0 - accumulated[old])
            <4>1. PICK f, g, c, x : /\ f = depAccount /\ g = depAccount'
                                    /\ c = AccountOf[old] /\ x = 0 - accumulated[old]
                OBVIOUS
            <4>2. c \in Accounts /\ x \in Int /\ f \in [Accounts -> Int]
                BY <2>1, <2>2, <4>1 DEF Accounts, AssetTypes
            <4>3. /\ \A a \in Accounts : f[a] \in Int
                  /\ g[c] = f[c] + x /\ \A a \in Accounts \ {c} : g[a] = f[a]
                BY <1>6, <2>1, <4>1, <4>2
            <4>4. IsFiniteSet(Assets)
                BY MonthEndSets
            <4>5. SumFunctionOnSet(g, Accounts) = SumFunctionOnSet(f, Accounts) + x
                BY <4>2, <4>3, <4>4, AccountChanged
            <4> QED BY <4>1, <4>5
        <3>7. SumFunctionOnSet(depAccount', Accounts) = SumFunctionOnSet(accumulated, held \ {old})
            BY <2>1, <3>4, <3>5, <3>6, <3>a
        <3>8. SumFunctionOnSet(depAccount', Accounts) = SumFunctionOnSet(accumulated', Held')
            BY <1>2, <3>1, <3>3, <3>7
        <3> QED BY <1>2, <2>2, <3>8 DEF BooksFollowRegister, Held, SumOf
    <2>7. ASSUME NEW x \in Requests, x # q PROVE AtAssets(x)'
        <3>1. /\ AtAssets(x) /\ pc'[x] = pc[x] /\ (Op(x))' = Op(x) /\ job' = job
            BY <1>1, <2>7 DEF RegisterInv, Op
        <3>2. Op(x) \in {"add", "dispose"} => job[x].asset \in Assets
            BY <1>1, JobShape
        <3>3. pc[x] \notin {"dispose", "depreciate"}
            BY <1>2, <1>3, <2>7 DEF ScheduleInv, Exclusive, Running, Ended, RegisterData
        <3>4. Op(x) = "dispose" => job[x].asset # old
            BY <1>1, <1>3, <2>7, <2>o DEF RegisterPlan, Op
        <3>5. Op(x) = "add" /\ pc[x] = "start" => asset'[job[x].asset] = "none"
            BY <2>1, <2>3, <3>1, <3>2 DEF AtAssets
        <3>6. Op(x) = "dispose" /\ pc[x] = "start" => asset'[job[x].asset] # "disposed"
            BY <2>3, <3>1, <3>2, <3>4 DEF AtAssets
        <3> QED BY <3>1, <3>3, <3>5, <3>6 DEF AtAssets
    <2> QED BY <1>4, <2>4, <2>5, <2>6, <2>7 DEF RegisterInv
<1> QED BY <1>5, <1>6 DEF CommitDisposal, StatusAfter

\* Every step keeps the register.
LEMMA ServeRegisters ==
    ASSUME RegisterData, ScheduleInv, RegisterInv, NEW q \in Requests, Serve(q) \/ Dies(q)
    PROVE  RegisterInv'
<1>1. Placed /\ job' = job /\ today' = today /\ DOMAIN pc = Requests /\ AtAssets(q)
    BY OthersStay DEF ScheduleInv, Placed, RegisterInv
<1>2. (Op(q))' = Op(q) /\ (MonthFor(q))' = MonthFor(q)
    BY <1>1 DEF Op, MonthFor
<1>g. \A l : Goto(q, l) => pc'[q] = l
    BY <1>1 DEF Goto
<1>h. \A ok : Finish(q, ok) => pc'[q] \in {"templates", "ended", "failed"}
    BY <1>g DEF Finish
<1>3. CASE CommitDepreciation(q)
    BY <1>3, CommitRegisters
<1>4. CASE AddAsset(q)
    BY <1>4, AddRegisters
<1>5. CASE CommitDisposal(q)
    BY <1>5, DisposalRegisters
<1>6. CASE BeginDepreciation(q)
    <2>1. /\ pc'[q] = "depreciate" /\ month'[q] = MonthFor(q) /\ UNCHANGED assetData
          /\ found'[q] = [a \in {b \in Assets : asset[b] = "active" /\ row[b][MonthFor(q)] = 0} |-> accumulated[a]]
        BY <1>1, <1>6, <1>g DEF BeginDepreciation, Placed
    <2>2. UNCHANGED <<asset, row, accumulated>>
        BY <2>1 DEF assetData
    <2>3. FoundNow(q)'
        BY <2>1, <2>2 DEF FoundNow
    <2>4. AtAssets(q)'
        BY <1>2, <2>1, <2>3 DEF AtAssets
    <2> QED BY <1>6, <2>1, <2>4, Untouched DEF Serve
<1>7. CASE LoadAsset(q)
    <2>1. /\ pc[q] = "start" /\ Op(q) = "dispose" /\ pc'[q] = "dispose" /\ UNCHANGED assetData
          /\ asset[job[q].asset] # "none"
          /\ found'[q] = [b \in {job[q].asset} |-> accumulated[b]]
        BY <1>1, <1>7, <1>g DEF LoadAsset, Starts, Placed
    <2>2. UNCHANGED <<asset, accumulated>>
        BY <2>1 DEF assetData
    <2>3. AtAssets(q)'
        BY <1>1, <1>2, <2>1, <2>2 DEF AtAssets
    <2> QED BY <1>7, <2>1, <2>3, Untouched DEF Serve
<1>8. CASE UNCHANGED assetData /\ pc'[q] \notin {"start", "dispose", "depreciate"}
    <2>1. AtAssets(q)'
        BY <1>8 DEF AtAssets
    <2> QED BY <1>8, <2>1, Untouched
<1>9. CASE ListDue(q) \/ NextTemplate(q) \/ AllRun(q) \/ Hire(q) \/ Dies(q)
    BY <1>8, <1>9, <1>g DEF ListDue, NextTemplate, AllRun, Hire, Dies
<1>10. CASE BeginCalculation(q) \/ CommitCalculation(q) \/ PostPayroll(q) \/ Close(q)
    BY <1>8, <1>10, <1>g, <1>h DEF BeginCalculation, CommitCalculation, PostPayroll, Close
<1>11. CASE InsertBatch(q) \/ InsertFxVoucher(q) \/ InsertFxLines(q) \/ FinishBatch(q)
    BY <1>8, <1>11, <1>g DEF InsertBatch, InsertFxVoucher, InsertFxLines, FinishBatch
<1> QED BY <1>3, <1>4, <1>5, <1>6, <1>7, <1>9, <1>10, <1>11 DEF Serve

\* The inductive invariant of the register.
LEMMA RegisterAlways == ASSUME RegisterData PROVE Spec => []RegisterInv
<1>1. Init => RegisterInv
    <2> SUFFICES ASSUME Init PROVE RegisterInv
        OBVIOUS
    <2>1. IsFiniteSet(Months) /\ IsFiniteSet(Assets) /\ IsFiniteSet(Held)
        BY MonthsAre, MonthEndSets, FS_Subset DEF Held, Init
    <2>2. AssetTypes
        BY DEF Init, AssetTypes
    <2>3. RowsAddUp
        <3>1. \A a \in Assets : SumFunctionOnSet(row[a], Months) = 0
            BY <2>1, SumZero DEF Init
        <3>2. \A a \in Assets : accumulated[a] = 0 /\ asset[a] = "none" /\ Cost[a] \in Nat
            BY MonthEndData DEF Init
        <3> QED BY <3>1, <3>2 DEF RowsAddUp, SumOf
    <2>4. BooksFollowRegister
        <3>1. ASSUME NEW m \in Months PROVE SumFunctionOnSet([a \in Assets |-> row[a][m]], Assets) = 0
            <4>1. PICK f : f = [a \in Assets |-> row[a][m]]
                OBVIOUS
            <4>2. \A a \in Assets : f[a] = 0
                BY <4>1 DEF Init
            <4> QED BY <2>1, <4>1, <4>2, SumZero
        <3>2. SumFunctionOnSet(accumulated, Held) = 0
            BY <2>1, SumZero DEF Init, Held
        <3>3. \A m \in Months : depVoucher[m] = 0
            BY DEF Init
        <3>4. SumFunctionOnSet(depAccount, Accounts) = 0
            BY <2>1, AccountsAre, SumZero DEF Init
        <3> QED BY <3>1, <3>2, <3>3, <3>4 DEF BooksFollowRegister, Held, SumOf
    <2>5. \A q \in Requests : AtAssets(q)
        <3>1. TAKE q \in Requests
        <3>2. Op(q) \in {"add", "dispose"} => job[q].asset \in Assets
            BY MonthEndData DEF Init, Op, Jobs
        <3> QED BY <3>2 DEF Init, AtAssets
    <2> QED BY <2>2, <2>3, <2>4, <2>5 DEF RegisterInv
<1>2. ScheduleInv /\ RegisterInv /\ [Next]_vars => RegisterInv'
    <2> SUFFICES ASSUME ScheduleInv, RegisterInv, [Next]_vars PROVE RegisterInv'
        OBVIOUS
    <2>1. CASE \E q \in Requests : Serve(q) \/ Dies(q)
        BY <2>1, ServeRegisters
    <2>2. ASSUME UNCHANGED <<job, assetData, pc, month, found>>,
                 today' = today \/ \A q \in Requests : ~Running(q)
          PROVE  RegisterInv'
        <3>1. UNCHANGED <<asset, accumulated, row, depVoucher, depAccount>>
            BY <2>2 DEF assetData
        <3>2. AssetTypes' /\ RowsAddUp' /\ BooksFollowRegister'
            BY <3>1 DEF RegisterInv, AssetTypes, RowsAddUp, BooksFollowRegister, SumOf
        <3>3. ASSUME NEW q \in Requests PROVE AtAssets(q)'
            <4>1. AtAssets(q) /\ (Op(q))' = Op(q) /\ (FoundNow(q)' <=> FoundNow(q))
                BY <2>2, <3>1 DEF RegisterInv, Op, FoundNow
            <4>2. pc[q] = "depreciate" => (MonthFor(q))' = MonthFor(q)
                BY <2>2 DEF MonthFor, Op, Running, Ended
            <4> QED BY <2>2, <3>1, <4>1, <4>2 DEF AtAssets
        <3> QED BY <3>2, <3>3 DEF RegisterInv
    <2>3. CASE NextDay
        BY <2>2, <2>3 DEF NextDay, locals
    <2>4. CASE UNCHANGED vars
        BY <2>2, <2>4 DEF vars, locals
    <2> QED BY <2>1, <2>3, <2>4 DEF Next
<1> QED BY <1>1, <1>2, ScheduleAlways, PTL DEF Spec

\* However runs of a month overlap and die, each asset's rows add up to what it has
\* accumulated, and it is fully depreciated exactly when nothing is left: the number
\* of the month's voucher stops every run but the first to commit.
THEOREM AssetRowsAddUp == ASSUME RegisterData PROVE Spec => []RowsAddUp
<1>1. RegisterInv => RowsAddUp
    BY DEF RegisterInv
<1> QED BY <1>1, RegisterAlways, PTL

\* The month's voucher is the sum of its rows and the account what the assets held
\* have accumulated: runs and disposals write register and books in one transaction.
THEOREM BooksAreTheRegister == ASSUME RegisterData PROVE Spec => []BooksFollowRegister
<1>1. RegisterInv => BooksFollowRegister
    BY DEF RegisterInv
<1> QED BY <1>1, RegisterAlways, PTL
=============================================================================
