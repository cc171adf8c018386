-------------------------- MODULE RetentionProofs --------------------------
(***************************************************************************)
(* Proofs about Retention, for every number of reports, every size of a    *)
(* plan and every bound: the reports are kept (ReportsKept) and deleted by *)
(* the plan only (DeletedByPlan).                                          *)
(*                                                                         *)
(* The argument is about what a worker knows between two of its steps.     *)
(* From the lease of the directory on, nobody else writes its marker; from *)
(* the store's mutex on, nobody else changes the owner, a pin, a           *)
(* resolution or a task, so that what Remove read is true when Unlink      *)
(* acts on it.  The collector's worker knows besides that its plan is the  *)
(* one in the store and that the items it has passed are removed.          *)
(***************************************************************************)
EXTENDS Retention, FiniteSetTheorems, WellFoundedInduction, TLAPS

Binding == 0 .. MaxBindings
Requests == {<<>>, <<"manual">>} \cup {<<"gc", r, t>> : r \in 0 .. MaxRevision, t \in {0, 1}}
Deletions == [phase : {"none", "prepared", "removed"}, request : Requests,
              binding : Binding, facts : Binding]
Plans == {p \in [request : Requests, binding : Binding, items : SUBSET Items,
                 next : 0 .. Last, facts : UNION {[S -> Binding] : S \in SUBSET Items}] :
            DOMAIN p.facts = p.items}
Policies == [enabled : BOOLEAN, revision : 0 .. MaxRevision, binding : Binding, plan : Plans,
             cursor : 0 .. Last, tick : {0, 1}]

\* The steps of a worker that hold the store's mutex, those that hold the lease
\* of a directory, and those that are about an item.
Writing == {"stage", "publish", "unlink", "commit"}
Holding == {"prepare", "remove"} \cup Writing
Busy == {"open"} \cup Holding
Applying == {"next"} \cup Busy
Steps == {"idle", "plan", "save", "begin", "finish"} \cup Applying

Works == [pc : Steps, plan : Plans, todo : SUBSET Items, saved : Deletions,
          seen : Policies, failed : BOOLEAN]

\* The types of the structured variables as well.
Typed ==
    /\ TypeOK
    /\ deletion \in [Items -> Deletions]
    /\ files \in [Items -> [data : BOOLEAN, stage : BOOLEAN, marker : Requests]]
    /\ policy \in Policies
    /\ work \in [Workers -> Works]

\* A worker has an item exactly while it applies a plan, one of that plan.
Itemised(w) ==
    /\ work[w].todo \subseteq work[w].plan.items
    /\ work[w].pc \notin Applying => work[w].todo = {}
    /\ work[w].pc \in Busy => work[w].todo # {}

\* The lease and the mutex are the worker's at the steps that use them.
Held(w) ==
    /\ work[w].pc \in Holding => lease[Item(w)] = w
    /\ work[w].pc \in Writing => writer = w

\* A deletion the worker found, or committed itself, is still on record.
Recorded(w) ==
    /\ work[w].pc = "open" /\ work[w].saved # NoDeletion => deletion[Item(w)].phase # "none"
    /\ work[w].pc \in {"remove"} \cup Writing => deletion[Item(w)].phase # "none"

\* The marker of the directory is absent or the plan's, and the plan's before
\* the body is unlinked.
Marked(w) ==
    /\ work[w].pc \in {"prepare", "remove"} => files[Item(w)].marker \in {<<>>, Request(w)}
    /\ work[w].pc = "unlink" => files[Item(w)].marker = Request(w)

\* From Remove to Unlink the deletion is this plan's and the owner consents.
Consented(w) ==
    work[w].pc \in {"stage", "publish", "unlink"} =>
        /\ deletion[Item(w)].request = Request(w)
        /\ deletion[Item(w)].binding = owner
        /\ Eligible(Item(w), owner)

\* The collector applies the plan of the store and has removed what it passed.
Collecting ==
    LET w == work["gc"]
    IN  /\ w.failed => w.pc = "finish"
        /\ w.pc \in {"begin", "finish"} \cup Applying /\ ~w.failed => w.plan = policy.plan
        /\ w.pc \in {"finish"} \cup Applying /\ ~w.failed =>
              \A i \in w.plan.items \ w.todo : deletion[i].phase = "removed"

\* The inductive invariant.
Kept ==
    /\ MissingIsJournalled /\ ReleasedIsGone /\ PinnedIsThere /\ NoRunWhileDeleting
    /\ \A i \in Items : deletion[i].phase = "none" => deletion[i] = NoDeletion
Careful(w) == Itemised(w) /\ Held(w) /\ Recorded(w) /\ Marked(w) /\ Consented(w)
RetentionInv == Typed /\ Kept /\ (\A w \in Workers : Careful(w)) /\ Collecting

-----------------------------------------------------------------------------
(* The operators of the model.                                             *)

(* Every set of natural numbers that is not empty has a least element.     *)
LEMMA LeastFact == ASSUME NEW S \in SUBSET Nat, S # {} PROVE \E m \in S : \A n \in S : m <= n
<1> DEFINE less == OpToRel(<, Nat)
<1>1. \A x, y \in Nat : x < y => <<x, y>> \in less BY Zenon DEF OpToRel
<1>2. IsWellFoundedOn(less, Nat) BY NatLessThanWellFounded
<1> HIDE DEF less
<1>3. \E m \in S : \A n \in S : <<n, m>> \notin less BY <1>2, WFMin
<1>4. PICK m \in S : \A n \in S : <<n, m>> \notin less BY <1>3
<1>5. \A n \in S : ~(n < m) BY <1>1, <1>4
<1> QED BY <1>5

(* The smallest of some items is one of them.                              *)
LEMMA MinFact == ASSUME NEW S \in SUBSET Items, S # {} PROVE Min(S) \in S
<1>1. S \in SUBSET Nat BY RetentionAssumption DEF RetentionParameters, Items
<1>2. \E m \in S : \A n \in S : m <= n BY <1>1, LeastFact
<1> QED BY <1>2 DEF Min

(* The largest of some items is one of them.                               *)
LEMMA MaxFact == ASSUME NEW S \in SUBSET Items, S # {} PROVE Max(S) \in S
<1> DEFINE T == {Last - x : x \in S}
<1>0. Last \in Nat /\ \A x \in S : x \in Nat /\ x <= Last
  BY RetentionAssumption DEF RetentionParameters, Items
<1>1. T \in SUBSET Nat /\ T # {} BY <1>0
<1> HIDE DEF T
<1>2. PICK m \in T : \A n \in T : m <= n BY <1>1, LeastFact
<1>3. PICK x \in S : m = Last - x BY DEF T
<1>4. \A y \in S : Last - x <= Last - y BY <1>2, <1>3 DEF T
<1>5. \A y \in S : x >= y BY <1>0, <1>4
<1> QED BY <1>5 DEF Max

(* What stands for no plan, no deletion and no policy is one of each.      *)
LEMMA IdleFact ==
    /\ NoPlan \in Plans /\ NoDeletion \in Deletions /\ NoPolicy \in Policies
    /\ Idle \in Works
<1>0. 0 \in Binding /\ 0 \in 0 .. MaxRevision /\ 0 \in 0 .. Last
  BY RetentionAssumption DEF RetentionParameters, Binding
<1>1. <<>> \in Requests BY DEF Requests
<1>2. <<>> \in [{} -> Binding] /\ DOMAIN <<>> = {} OBVIOUS
<1>3. <<>> \in UNION {[S -> Binding] : S \in SUBSET Items} BY <1>2
<1>4. NoPlan \in Plans BY <1>0, <1>1, <1>2, <1>3 DEF NoPlan, Plans
<1>5. NoDeletion \in Deletions BY <1>0, <1>1 DEF NoDeletion, Deletions
<1>6. NoPolicy \in Policies BY <1>0, <1>4 DEF NoPolicy, Policies
<1>7. "idle" \in Steps BY DEF Steps
<1> QED BY <1>4, <1>5, <1>6, <1>7 DEF Idle, Works

(* A plan is made for the current owner and takes items that have no       *)
(* deletion yet.                                                           *)
LEMMA PlanFact ==
    ASSUME owner \in 1 .. MaxBindings, NEW cursor, NEW request \in Requests
    PROVE  PlanFrom(cursor, request) \in Plans
<1> DEFINE found == {i \in Items : /\ i > cursor /\ deletion[i] = NoDeletion
                                  /\ Eligible(i, owner)}
           items == {i \in found : Cardinality({j \in found : j < i}) < Limit}
           facts == [i \in items |-> Facts(i, owner)]
           next == IF Cardinality(items) = Limit THEN Max(items) ELSE 0
<1>1. items \in SUBSET Items OBVIOUS
<1>2. owner \in Binding /\ 0 \in Binding
  BY RetentionAssumption DEF RetentionParameters, Binding
<1>3. \A i \in items : Facts(i, owner) \in Binding BY <1>2 DEF Facts
<1>4. PlanFrom(cursor, request) =
        [request |-> request, binding |-> owner, items |-> items, next |-> next, facts |-> facts]
  BY DEF PlanFrom
<1>5. next \in 0 .. Last
  <2>1. CASE Cardinality(items) = Limit
    <3>1. items # {}
      BY <2>1, FS_EmptySet, RetentionAssumption DEF RetentionParameters
    <3> HIDE DEF items
    <3>2. Max(items) \in Items BY <1>1, <3>1, MaxFact
    <3>3. next = Max(items) BY <2>1
    <3> HIDE DEF next
    <3> QED BY <3>2, <3>3, RetentionAssumption DEF RetentionParameters, Items
  <2>2. CASE Cardinality(items) # Limit
    BY <2>2, RetentionAssumption DEF RetentionParameters
  <2> QED BY <2>1, <2>2
<1> HIDE DEF items
<1>6. facts \in [items -> Binding] /\ DOMAIN facts = items BY <1>3
<1> HIDE DEF facts, next
<1>7. facts \in UNION {[S -> Binding] : S \in SUBSET Items} BY <1>6, <1>1
<1> QED BY <1>1, <1>2, <1>4, <1>5, <1>6, <1>7 DEF Plans
-----------------------------------------------------------------------------
(* The steps of a worker, field by field.                                  *)

\* A step that moves w only.
Others(w) == \A v \in Workers \ {w} : work'[v] = work[v]

(* Go changes where the worker is and nothing else of it.                  *)
LEMMA GoFact ==
    ASSUME work \in [Workers -> Works], NEW w \in Workers, NEW pc \in Steps, Go(w, pc)
    PROVE  /\ work' \in [Workers -> Works] /\ Others(w)
           /\ work'[w].pc = pc
           /\ work'[w].plan = work[w].plan /\ work'[w].todo = work[w].todo
           /\ work'[w].saved = work[w].saved /\ work'[w].seen = work[w].seen
           /\ work'[w].failed = work[w].failed
BY DEF Go, Works, Others

(* A worker that gives up has no item left and, if it is the collector's,  *)
(* goes on to the end of the round.                                        *)
LEMMA GiveFact ==
    ASSUME work \in [Workers -> Works], NEW w \in Workers, Give(w)
    PROVE  /\ work' \in [Workers -> Works] /\ Others(w)
           /\ work'[w].pc = (IF w = "gc" THEN "finish" ELSE "idle")
           /\ work'[w].plan = work[w].plan /\ work'[w].todo = {}
           /\ work'[w].saved = work[w].saved /\ work'[w].seen = work[w].seen
           /\ work'[w].failed = TRUE
<1>1. (IF w = "gc" THEN "finish" ELSE "idle") \in Steps BY DEF Steps
<1>2. {} \in SUBSET Items OBVIOUS
<1> DEFINE pc == IF w = "gc" THEN "finish" ELSE "idle"
<1>3. work' = [work EXCEPT ![w].pc = pc, ![w].failed = TRUE, ![w].todo = {}] BY DEF Give
<1> HIDE DEF pc
<1>4. pc \in Steps BY <1>1 DEF pc
<1>5. /\ work' \in [Workers -> Works] /\ Others(w)
      /\ work'[w].pc = pc
      /\ work'[w].plan = work[w].plan /\ work'[w].todo = {}
      /\ work'[w].saved = work[w].saved /\ work'[w].seen = work[w].seen
      /\ work'[w].failed = TRUE
  BY <1>2, <1>3, <1>4 DEF Works, Others
<1> QED BY <1>5 DEF pc

(* The steps that set several fields at once.                              *)
LEMMA BeginFact ==
    ASSUME work \in [Workers -> Works], NEW w \in Workers, NEW S \in SUBSET Items,
           work' = [work EXCEPT ![w].todo = S, ![w].failed = FALSE, ![w].pc = "next"]
    PROVE  /\ work' \in [Workers -> Works] /\ Others(w)
           /\ work'[w].pc = "next" /\ work'[w].todo = S /\ work'[w].failed = FALSE
           /\ work'[w].plan = work[w].plan /\ work'[w].saved = work[w].saved
           /\ work'[w].seen = work[w].seen
<1>1. "next" \in Steps BY DEF Steps, Applying
<1> QED BY <1>1 DEF Works, Others
LEMMA SnapshotFact ==
    ASSUME work \in [Workers -> Works], NEW w \in Workers, NEW e \in Deletions,
           work' = [work EXCEPT ![w].pc = "open", ![w].saved = e]
    PROVE  /\ work' \in [Workers -> Works] /\ Others(w)
           /\ work'[w].pc = "open" /\ work'[w].saved = e
           /\ work'[w].plan = work[w].plan /\ work'[w].todo = work[w].todo
           /\ work'[w].seen = work[w].seen /\ work'[w].failed = work[w].failed
<1>1. "open" \in Steps BY DEF Steps, Applying, Busy
<1> QED BY <1>1 DEF Works, Others
LEMMA CommitFact ==
    ASSUME work \in [Workers -> Works], NEW w \in Workers, NEW i,
           work' = [work EXCEPT ![w].pc = "next", ![w].todo = @ \ {i}, ![w].saved = NoDeletion]
    PROVE  /\ work' \in [Workers -> Works] /\ Others(w)
           /\ work'[w].pc = "next" /\ work'[w].todo = work[w].todo \ {i}
           /\ work'[w].plan = work[w].plan /\ work'[w].saved = NoDeletion
           /\ work'[w].seen = work[w].seen /\ work'[w].failed = work[w].failed
<1>1. "next" \in Steps BY DEF Steps, Applying
<1>2. \A S \in SUBSET Items : S \ {i} \in SUBSET Items OBVIOUS
<1> QED BY <1>1, <1>2, IdleFact DEF Works, Others
LEMMA PlannedFact ==
    ASSUME work \in [Workers -> Works], NEW pc \in Steps, NEW plan \in Plans,
           work' = [work EXCEPT !["gc"].pc = pc, !["gc"].plan = plan]
    PROVE  /\ work' \in [Workers -> Works] /\ Others("gc")
           /\ work'["gc"].pc = pc /\ work'["gc"].plan = plan
           /\ work'["gc"].todo = work["gc"].todo /\ work'["gc"].saved = work["gc"].saved
           /\ work'["gc"].seen = work["gc"].seen /\ work'["gc"].failed = work["gc"].failed
BY DEF Works, Workers, Others

(* Unhold lets go of what w holds and of nothing else.                     *)
LEMMA UnholdFact ==
    ASSUME lease \in [Items -> Workers \cup {"none"}], writer \in Workers \cup {"none"},
           NEW w \in Workers, Unhold(w)
    PROVE  /\ lease' \in [Items -> Workers \cup {"none"}] /\ writer' \in Workers \cup {"none"}
           /\ \A v \in Workers \ {w} : /\ writer = v => writer' = v
                                      /\ \A i \in Items : lease[i] = v => lease'[i] = v
BY DEF Unhold, Workers

(* The item a worker is busy with is an item of its plan.                  *)
LEMMA ItemFact ==
    ASSUME work \in [Workers -> Works], NEW w \in Workers, Itemised(w), work[w].pc \in Busy
    PROVE  Item(w) \in Items /\ Item(w) \in work[w].plan.items /\ Item(w) \in work[w].todo
<1>1. work[w].todo \in SUBSET Items /\ work[w].todo # {} BY DEF Works, Itemised
<1>2. Min(work[w].todo) \in work[w].todo BY <1>1, MinFact
<1> QED BY <1>1, <1>2 DEF Item, Itemised

(* The row of a deletion under the worker's plan.                          *)
LEMMA RowFact ==
    ASSUME work \in [Workers -> Works], NEW w \in Workers, NEW i \in work[w].plan.items
    PROVE  Row(w, i) \in Deletions
<1>1. work[w].plan \in Plans BY DEF Works
<1>2. /\ work[w].plan.request \in Requests /\ work[w].plan.binding \in Binding
      /\ work[w].plan.facts \in UNION {[S -> Binding] : S \in SUBSET Items}
      /\ DOMAIN work[w].plan.facts = work[w].plan.items
  BY <1>1 DEF Plans
<1>3. work[w].plan.facts[i] \in Binding BY <1>2
<1> QED BY <1>2, <1>3 DEF Row, Request, Deletions
-----------------------------------------------------------------------------
(* Types.                                                                  *)

(* Every variable keeps its type, TypeOK included.                         *)
LEMMA TypedStep ==
    ASSUME Typed, \A w \in Workers : Itemised(w), [Next]_vars
    PROVE  Typed'
<1> USE DEF Typed, TypeOK
<1>0. "gc" \in Workers /\ "manual" \in Workers BY DEF Workers
<1>a. \A e \in Deletions : e.phase \in {"none", "prepared", "removed"} BY DEF Deletions
<1>b. \A e \in Policies : e.revision \in 0 .. MaxRevision BY DEF Policies
<1>c. owner \in Binding BY RetentionAssumption DEF RetentionParameters, Binding
<1>1. CASE Rebind
  <2>1. owner' \in 1 .. MaxBindings BY <1>1, RetentionAssumption DEF RetentionParameters, Rebind
  <2> QED BY <1>1, <2>1 DEF Rebind
<1>2. ASSUME NEW i \in Items, Age(i) PROVE Typed'
  BY <1>2 DEF Age
<1>3. ASSUME NEW i \in Items, Resolve(i) PROVE Typed'
  BY <1>3 DEF Resolve
<1>4. ASSUME NEW i \in Items, Pin(i) PROVE Typed'
  <2>1. owner \in 0 .. MaxBindings BY <1>c DEF Binding
  <2>2. pin' \in [Items -> (0 .. MaxBindings) \cup {Released}] BY <1>4, <2>1 DEF Pin
  <2> QED BY <1>4, <2>2 DEF Pin
<1>5. ASSUME NEW i \in Items, Unpin(i) PROVE Typed'
  BY <1>5 DEF Unpin
<1>6. ASSUME NEW i \in Items, Retry(i) PROVE Typed'
  BY <1>6 DEF Retry
<1>7. ASSUME NEW i \in Items, Dispatch(i) PROVE Typed'
  BY <1>7 DEF Dispatch
<1>8. CASE Enable
  <2>1. policy.revision + 1 \in 0 .. MaxRevision
    BY <1>8, <1>b, RetentionAssumption DEF Enable, RetentionParameters
  <2>2. policy' \in Policies BY <1>8, <1>c, <2>1 DEF Enable, Policies
  <2> QED BY <1>8, <1>b, <2>2 DEF Enable, store
<1>9. CASE Disable
  <2>1. policy.revision + 1 \in 0 .. MaxRevision
    BY <1>9, <1>b, RetentionAssumption DEF Disable, RetentionParameters
  <2>2. policy' \in Policies BY <1>9, <2>1 DEF Disable, Policies
  <2> QED BY <1>9, <1>b, <2>2 DEF Disable, store
<1>10. CASE Select
  <2>1. policy.plan \in Plans BY DEF Policies
  <2>2. "plan" \in Steps /\ "begin" \in Steps BY DEF Steps
  <2>3. [Idle EXCEPT !.pc = IF policy.plan = NoPlan THEN "plan" ELSE "begin",
                     !.plan = policy.plan, !.seen = policy] \in Works
    BY <2>1, <2>2, IdleFact DEF Works
  <2>4. work' \in [Workers -> Works] BY <1>10, <2>3 DEF Select
  <2> QED BY <1>10, <2>4 DEF Select, store
<1>11. CASE Plan
  <2> DEFINE seen == work["gc"].seen
             request == <<"gc", seen.revision, seen.tick>>
             plan == PlanFrom(seen.cursor, request)
  <2>1. seen \in Policies BY <1>0 DEF Works
  <2>2. request \in Requests BY <2>1 DEF Policies, Requests
  <2>3. plan \in Plans BY <2>2, PlanFact
  <2>4. "save" \in Steps BY DEF Steps
  <2>5. CASE work' = [work EXCEPT !["gc"].pc = "save", !["gc"].plan = plan]
    <3> HIDE DEF plan
    <3>1. work' \in [Workers -> Works] BY <2>3, <2>4, <2>5, PlannedFact
    <3> QED BY <1>11, <3>1 DEF Plan, store
  <2>6. CASE Give("gc") BY <1>0, <1>11, <2>6, GiveFact DEF Plan, store
  <2> QED BY <1>11, <2>5, <2>6 DEF Plan
<1>12. CASE Save
  <2>1. CASE Go("gc", "begin") /\ policy' = [policy EXCEPT !.plan = work["gc"].plan]
    <3>1. "begin" \in Steps BY DEF Steps
    <3>2. work["gc"].plan \in Plans BY <1>0 DEF Works
    <3>3. policy' \in Policies BY <2>1, <3>2 DEF Policies
    <3>4. work' \in [Workers -> Works] BY <1>0, <2>1, <3>1, GoFact
    <3> QED BY <1>12, <1>b, <3>3, <3>4 DEF Save, store
  <2>2. CASE Give("gc") /\ UNCHANGED policy BY <1>0, <1>12, <2>2, GiveFact DEF Save, store
  <2> QED BY <1>12, <2>1, <2>2 DEF Save
<1>13. CASE ManualPlan
  <2> DEFINE plan == PlanFrom(0, <<"manual">>)
  <2>1. plan \in Plans BY PlanFact DEF Requests
  <2>2. work' = [work EXCEPT !["manual"].plan = plan] BY <1>13 DEF ManualPlan
  <2> HIDE DEF plan
  <2>3. work' \in [Workers -> Works] BY <2>1, <2>2 DEF Works
  <2> QED BY <1>13, <2>3 DEF ManualPlan, store
<1>14. CASE ManualApply
  <2>1. "begin" \in Steps BY DEF Steps
  <2> QED BY <1>0, <1>14, <2>1, GoFact DEF ManualApply, store
<1>15. ASSUME NEW w \in Workers, Begin(w) PROVE Typed'
  <2>1. CASE work' = [work EXCEPT ![w].todo = work[w].plan.items, ![w].failed = FALSE,
                                  ![w].pc = "next"]
    <3>2. work[w].plan.items \in SUBSET Items BY DEF Works, Plans
    <3>3. work' \in [Workers -> Works] BY <2>1, <3>2, BeginFact
    <3> QED BY <1>15, <3>3 DEF Begin, store
  <2>2. CASE Give(w) BY <1>15, <2>2, GiveFact DEF Begin, store
  <2> QED BY <1>15, <2>1, <2>2 DEF Begin
<1>16. ASSUME NEW w \in Workers, Done(w) PROVE Typed'
  <2>1. "finish" \in Steps /\ "idle" \in Steps BY DEF Steps
  <2>2. (IF w = "gc" THEN "finish" ELSE "idle") \in Steps BY <2>1
  <2>3. work' \in [Workers -> Works] BY <1>16, <2>2, GoFact DEF Done
  <2> QED BY <1>16, <2>3 DEF Done, store
<1>17. ASSUME NEW w \in Workers, Snapshot(w) PROVE Typed'
  <2>1. CASE Give(w) BY <1>17, <2>1, GiveFact DEF Snapshot, store
  <2>2. CASE work' = [work EXCEPT ![w].pc = "open", ![w].saved = deletion[Item(w)]]
    <3>2. Item(w) \in Items
      <4>1. work[w].todo \in SUBSET Items /\ work[w].todo # {} BY <1>17 DEF Snapshot, Works
      <4> QED BY <4>1, MinFact DEF Item
    <3>3. work' \in [Workers -> Works] BY <2>2, <3>2, SnapshotFact
    <3> QED BY <1>17, <3>3 DEF Snapshot, store
  <2> QED BY <1>17, <2>1, <2>2 DEF Snapshot
<1>18. ASSUME NEW w \in Workers, Open(w) PROVE Typed'
  <2>0. (IF work[w].saved = NoDeletion THEN "prepare" ELSE "remove") \in Steps
    BY DEF Steps, Applying, Busy, Holding
  <2>1. CASE /\ lease' = [lease EXCEPT ![Item(w)] = w]
             /\ Go(w, IF work[w].saved = NoDeletion THEN "prepare" ELSE "remove")
    <3>1. work' \in [Workers -> Works] BY <2>0, <2>1, GoFact
    <3>2. lease' \in [Items -> Workers \cup {"none"}] BY <2>1
    <3> QED BY <1>18, <3>1, <3>2 DEF Open, store
  <2>2. CASE Give(w) /\ UNCHANGED lease BY <1>18, <2>2, GiveFact DEF Open, store
  <2> QED BY <1>18, <2>1, <2>2 DEF Open
<1>19. ASSUME NEW w \in Workers, Prepare(w) PROVE Typed'
  <2>1. CASE /\ deletion' = [deletion EXCEPT ![Item(w)] = Row(w, Item(w))]
             /\ writer' = w /\ Go(w, "remove") /\ UNCHANGED lease
    <3>1. "remove" \in Steps BY DEF Steps, Applying, Busy, Holding
    <3>2. work' \in [Workers -> Works] BY <2>1, <3>1, GoFact
    <3>3. Item(w) \in work[w].plan.items
      BY <1>19, ItemFact DEF Prepare, Busy, Holding
    <3>4. Row(w, Item(w)) \in Deletions BY <3>3, RowFact
    <3>5. deletion' \in [Items -> Deletions] BY <2>1, <3>4
    <3> QED BY <1>19, <1>a, <2>1, <3>2, <3>5 DEF Prepare, store
  <2>2. CASE Give(w) /\ Unhold(w) /\ UNCHANGED deletion
    BY <1>19, <2>2, GiveFact, UnholdFact DEF Prepare, store
  <2> QED BY <1>19, <2>1, <2>2 DEF Prepare
<1>20. ASSUME NEW w \in Workers, Remove(w) PROVE Typed'
  <2> DEFINE pc == IF deletion[Item(w)].phase = "removed" THEN "commit"
                   ELSE IF files[Item(w)].marker = <<>> THEN "stage" ELSE "unlink"
  <2>1. pc \in Steps BY DEF Steps, Applying, Busy, Holding, Writing
  <2>2. CASE writer' = w /\ Go(w, pc) /\ UNCHANGED lease
    <3> HIDE DEF pc
    <3> QED BY <1>20, <2>1, <2>2, GoFact DEF Remove, store
  <2>3. CASE Give(w) /\ Unhold(w)
    BY <1>20, <2>3, GiveFact, UnholdFact DEF Remove, store
  <2> QED BY <1>20, <2>2, <2>3 DEF Remove
<1>21. ASSUME NEW w \in Workers, Stage(w) PROVE Typed'
  <2>1. "publish" \in Steps BY DEF Steps, Applying, Busy, Holding, Writing
  <2>2. work' \in [Workers -> Works] BY <1>21, <2>1, GoFact DEF Stage
  <2> QED BY <1>21, <2>2 DEF Stage, store
<1>22. ASSUME NEW w \in Workers, Publish(w) PROVE Typed'
  <2>1. "unlink" \in Steps BY DEF Steps, Applying, Busy, Holding, Writing
  <2>2. work' \in [Workers -> Works] BY <1>22, <2>1, GoFact DEF Publish
  <2>3. Request(w) \in Requests BY DEF Request, Works, Plans
  <2>4. files' \in [Items -> [data : BOOLEAN, stage : BOOLEAN, marker : Requests]]
    BY <1>22, <2>3 DEF Publish
  <2> QED BY <1>22, <2>2, <2>4 DEF Publish, store
<1>23. ASSUME NEW w \in Workers, Unlink(w) PROVE Typed'
  <2>1. "commit" \in Steps BY DEF Steps, Applying, Busy, Holding, Writing
  <2>2. work' \in [Workers -> Works] BY <1>23, <2>1, GoFact DEF Unlink
  <2> QED BY <1>23, <2>2 DEF Unlink, store
<1>24. ASSUME NEW w \in Workers, Commit(w) PROVE Typed'
  <2>2. work' \in [Workers -> Works] BY <1>24, CommitFact DEF Commit
  <2>3. deletion' \in [Items -> Deletions]
    <3>1. deletion' = [deletion EXCEPT ![Item(w)].phase = "removed"] BY <1>24 DEF Commit
    <3>2. \A e \in Deletions : [e EXCEPT !.phase = "removed"] \in Deletions BY DEF Deletions
    <3> QED BY <3>1, <3>2
  <2> QED BY <1>24, <1>a, <2>2, <2>3, UnholdFact DEF Commit, store
<1>25. CASE Finish
  <2>1. work' \in [Workers -> Works] BY <1>25, IdleFact DEF Finish
  <2>2. work["gc"].plan.next \in 0 .. Last BY <1>0 DEF Works, Plans
  <2>3. 1 - policy.tick \in {0, 1} BY DEF Policies
  <2>4. policy' \in Policies BY <1>25, <2>2, <2>3, IdleFact DEF Finish, Policies
  <2> QED BY <1>25, <1>b, <2>1, <2>4 DEF Finish, store
<1>26. ASSUME NEW w \in Workers, Interrupt(w) PROVE Typed'
  <2>1. [Idle EXCEPT !.plan = IF w = "manual" THEN work[w].plan ELSE NoPlan] \in Works
    BY IdleFact DEF Works
  <2>2. work' \in [Workers -> Works] BY <1>26, <2>1 DEF Interrupt
  <2>3. faults' \in 0 .. MaxFaults
    BY <1>26, RetentionAssumption DEF Interrupt, RetentionParameters
  <2> QED BY <1>26, <2>2, <2>3, UnholdFact DEF Interrupt, store
<1>27. CASE Crash
  <2>1. \A w \in Workers :
          [Idle EXCEPT !.plan = IF w = "manual" THEN work[w].plan ELSE NoPlan] \in Works
    BY IdleFact DEF Works
  <2>2. work' \in [Workers -> Works] BY <1>27, <2>1 DEF Crash
  <2>3. faults' \in 0 .. MaxFaults
    BY <1>27, RetentionAssumption DEF Crash, RetentionParameters
  <2> QED BY <1>27, <2>2, <2>3 DEF Crash, store
<1>28. CASE UNCHANGED vars BY <1>28 DEF vars
<1>29. ASSUME NEW w \in Workers, Apply(w) PROVE Typed'
  BY <1>29, <1>15, <1>16, <1>17, <1>18, <1>19, <1>20, <1>21, <1>22, <1>23, <1>24 DEF Apply
<1> HIDE DEF Typed, TypeOK
<1> QED
  BY <1>0, <1>1, <1>2, <1>3, <1>4, <1>5, <1>6, <1>7, <1>8, <1>9, <1>10, <1>11, <1>12, <1>13,
     <1>14, <1>25, <1>26, <1>27, <1>28, <1>29 DEF Next, GC, ByHand
-----------------------------------------------------------------------------
(* What a worker relies on between its steps.                              *)

(* A worker that does not move keeps what it relies on, as long as the     *)
(* others respect its lease and its mutex.                                 *)
LEMMA FrameFact ==
    ASSUME Typed, NEW w \in Workers, Careful(w), work'[w] = work[w],
           writer = w => writer' = w,
           \A i \in Items : lease[i] = w => lease'[i] = w,
           \A i \in Items : deletion[i].phase # "none" => deletion'[i].phase # "none",
           \A i \in Items : lease[i] = w => files'[i].marker = files[i].marker,
           \A i \in Items : lease[i] = w /\ deletion[i].phase # "none" =>
               /\ deletion'[i].request = deletion[i].request
               /\ deletion'[i].binding = deletion[i].binding,
           writer = w =>
               owner' = owner /\ \A i \in Items : Eligible(i, owner) => Eligible(i, owner)'
    PROVE  Careful(w)'
<1>0. PICK i : i = Item(w) OBVIOUS
<1>1. Itemised(w) /\ Held(w) /\ Recorded(w) /\ Marked(w) /\ Consented(w) BY DEF Careful
<1>2. Itemised(w)' BY <1>1 DEF Itemised
<1>3. Item(w)' = i /\ Request(w)' = Request(w) BY <1>0 DEF Item, Request
<1>4. CASE work[w].pc \notin Busy
  BY <1>2, <1>4 DEF Careful, Held, Recorded, Marked, Consented, Busy, Holding, Writing
<1>5. CASE work[w].pc \in Busy
  <2>1. i \in Items BY <1>0, <1>1, <1>5, ItemFact DEF Typed
  <2>2. Held(w)' BY <1>0, <1>1, <1>3, <2>1 DEF Held
  <2>3. Recorded(w)' BY <1>0, <1>1, <1>3, <2>1 DEF Recorded
  <2>4. work[w].pc \in Holding => lease[i] = w BY <1>0, <1>1 DEF Held
  <2>5. Marked(w)' BY <1>0, <1>1, <1>3, <2>1, <2>4 DEF Marked, Holding, Writing
  <2>6. Consented(w)'
    <3> SUFFICES ASSUME work[w].pc \in {"stage", "publish", "unlink"}
                 PROVE  /\ deletion'[i].request = Request(w)
                        /\ deletion'[i].binding = owner'
                        /\ Eligible(i, owner)'
      BY <1>0, <1>3 DEF Consented
    <3>1. work[w].pc \in Writing /\ work[w].pc \in Holding BY DEF Writing, Holding
    <3>2. writer = w /\ lease[i] = w /\ deletion[i].phase # "none"
      BY <1>0, <3>1, <2>4, <1>1 DEF Held, Recorded
    <3>3. /\ deletion[i].request = Request(w) /\ deletion[i].binding = owner
          /\ Eligible(i, owner)
      BY <1>0, <1>1 DEF Consented
    <3> QED BY <2>1, <3>2, <3>3
  <2> QED BY <1>2, <2>2, <2>3, <2>5, <2>6 DEF Careful
<1> QED BY <1>4, <1>5

(* A worker without an item relies on nothing.                             *)
LEMMA UnbusyFact ==
    ASSUME NEW w \in Workers, work'[w].pc \notin Busy, Itemised(w)'
    PROVE  Careful(w)'
BY DEF Careful, Held, Recorded, Marked, Consented, Busy, Holding, Writing

(* Whoever gives up relies on nothing any more.                            *)
LEMMA GivenUpFact ==
    ASSUME Typed, NEW w \in Workers, Give(w)
    PROVE  Careful(w)'
<1>1. work'[w].pc \in {"finish", "idle"} /\ work'[w].todo = {} BY GiveFact DEF Typed
<1> QED BY <1>1, UnbusyFact DEF Itemised, Busy, Applying, Holding, Writing
(* The transactions of the others: none of them is between the intent and  *)
(* the receipt of a deletion.                                              *)
LEMMA CarefulStore ==
    ASSUME Typed, \A w \in Workers : Careful(w),
           \/ Rebind \/ Enable \/ Disable \/ UNCHANGED vars
           \/ \E i \in Items : Age(i) \/ Resolve(i) \/ Pin(i) \/ Unpin(i) \/ Retry(i) \/ Dispatch(i)
    PROVE  \A w \in Workers : Careful(w)'
<1> TAKE w \in Workers
<1>1. UNCHANGED <<work, deletion, files, lease, writer>>
  BY DEF Rebind, Enable, Disable, Age, Resolve, Pin, Unpin, Retry, Dispatch, vars
<1>2. writer = w =>
        owner' = owner /\ \A i \in Items : Eligible(i, owner) => Eligible(i, owner)'
  <2> SUFFICES ASSUME writer = w
               PROVE  owner' = owner /\ \A i \in Items : Eligible(i, owner) => Eligible(i, owner)'
    OBVIOUS
  <2>1. ~Free BY DEF Free, Workers
  <2>2. CASE Rebind \/ \E i \in Items : Resolve(i) \/ Pin(i) \/ Unpin(i) \/ Retry(i) \/ Dispatch(i)
    BY <2>1, <2>2 DEF Rebind, Resolve, Pin, Unpin, Retry, Dispatch
  <2>3. CASE Enable \/ Disable \/ UNCHANGED vars
    BY <2>3 DEF Enable, Disable, vars, store, Eligible
  <2>4. CASE \E i \in Items : Age(i) BY <2>4 DEF Age, Eligible, Typed, TypeOK
  <2> QED BY <2>2, <2>3, <2>4
<1> QED BY <1>1, <1>2, FrameFact

(* What a step leaves alone in the others when it writes nothing but what  *)
(* the collector or a plan remembers.                                      *)
LEMMA CarefulPlanning ==
    ASSUME Typed, \A w \in Workers : Careful(w), NEW v \in Workers,
           UNCHANGED <<store, deletion, files, lease, writer>>, Others(v), Careful(v)'
    PROVE  \A w \in Workers : Careful(w)'
<1> SUFFICES ASSUME NEW w \in Workers, w # v PROVE Careful(w)'
  OBVIOUS
<1>1. work'[w] = work[w] BY DEF Others
<1> QED BY <1>1, FrameFact DEF store, Eligible

(* The steps of the collector's round that come before and after a plan is *)
(* applied, and those of the owner's plan by hand.                         *)
LEMMA CarefulRound ==
    ASSUME Typed, \A w \in Workers : Careful(w),
           Select \/ Plan \/ Save \/ Finish \/ ManualPlan \/ ManualApply
    PROVE  \A w \in Workers : Careful(w)'
<1>0. "gc" \in Workers /\ "manual" \in Workers /\ work \in [Workers -> Works] BY DEF Workers, Typed
<1>1. \A w \in Workers : Itemised(w) BY DEF Careful
<1> USE DEF Busy, Applying, Holding, Writing
<1>2. CASE Select
  <2>1. Others("gc") /\ work'["gc"].pc \in {"plan", "begin"} /\ work'["gc"].todo = {}
    BY <1>0, <1>2 DEF Select, Idle, Others
  <2>2. Careful("gc")' BY <1>0, <2>1, UnbusyFact DEF Itemised
  <2> QED BY <1>0, <1>2, <2>1, <2>2, CarefulPlanning DEF Select
<1>3. CASE Plan
  <2>1. CASE Give("gc")
    BY <1>0, <1>3, <2>1, GiveFact, GivenUpFact, CarefulPlanning DEF Plan
  <2>2. CASE PolicyCurrent("gc") /\ ~Give("gc")
    <3> DEFINE seen == work["gc"].seen
               plan == PlanFrom(seen.cursor, <<"gc", seen.revision, seen.tick>>)
    <3>1. work' = [work EXCEPT !["gc"].pc = "save", !["gc"].plan = plan] BY <1>3, <2>2 DEF Plan
    <3> HIDE DEF plan
    <3>2. Others("gc") /\ work'["gc"].pc = "save" /\ work'["gc"].todo = work["gc"].todo
      BY <1>0, <3>1 DEF Others, Works
    <3>3. work["gc"].todo = {} BY <1>0, <1>1, <1>3 DEF Plan, Itemised
    <3>4. Careful("gc")' BY <1>0, <3>2, <3>3, UnbusyFact DEF Itemised
    <3> QED BY <1>0, <1>3, <3>2, <3>4, CarefulPlanning DEF Plan
  <2> QED BY <1>3, <2>1, <2>2 DEF Plan
<1>4. CASE Save
  <2>1. CASE Give("gc")
    BY <1>0, <1>4, <2>1, GiveFact, GivenUpFact, CarefulPlanning DEF Save
  <2>2. CASE Go("gc", "begin")
    <3>1. "begin" \in Steps BY DEF Steps
    <3>2. Others("gc") /\ work'["gc"].pc = "begin" /\ work'["gc"].todo = work["gc"].todo
      BY <1>0, <2>2, <3>1, GoFact
    <3>3. work["gc"].todo = {} BY <1>0, <1>1, <1>4 DEF Save, Itemised
    <3>4. Careful("gc")' BY <1>0, <3>2, <3>3, UnbusyFact DEF Itemised
    <3> QED BY <1>0, <1>4, <3>2, <3>4, CarefulPlanning DEF Save
  <2> QED BY <1>4, <2>1, <2>2 DEF Save
<1>5. CASE Finish
  <2>1. Others("gc") /\ work'["gc"].pc = "idle" /\ work'["gc"].todo = {}
    BY <1>0, <1>5 DEF Finish, Idle, Others
  <2>2. Careful("gc")' BY <1>0, <2>1, UnbusyFact DEF Itemised
  <2> QED BY <1>0, <1>5, <2>1, <2>2, CarefulPlanning DEF Finish
<1>6. CASE ManualPlan
  <2> DEFINE plan == PlanFrom(0, <<"manual">>)
  <2>1. work' = [work EXCEPT !["manual"].plan = plan] BY <1>6 DEF ManualPlan
  <2> HIDE DEF plan
  <2>2. /\ Others("manual") /\ work'["manual"].pc = work["manual"].pc
        /\ work'["manual"].todo = work["manual"].todo
    BY <1>0, <2>1 DEF Others, Works
  <2>3. work["manual"].pc = "idle" /\ work["manual"].todo = {}
    BY <1>0, <1>1, <1>6 DEF ManualPlan, Itemised
  <2>4. Careful("manual")' BY <1>0, <2>2, <2>3, UnbusyFact DEF Itemised
  <2> QED BY <1>0, <1>6, <2>2, <2>4, CarefulPlanning DEF ManualPlan
<1>7. CASE ManualApply
  <2>1. "begin" \in Steps BY DEF Steps
  <2>2. /\ Others("manual") /\ work'["manual"].pc = "begin"
        /\ work'["manual"].todo = work["manual"].todo
    BY <1>0, <1>7, <2>1, GoFact DEF ManualApply
  <2>3. work["manual"].todo = {} BY <1>0, <1>1, <1>7 DEF ManualApply, Itemised
  <2>4. Careful("manual")' BY <1>0, <2>2, <2>3, UnbusyFact DEF Itemised
  <2> QED BY <1>0, <1>7, <2>2, <2>4, CarefulPlanning DEF ManualApply
<1> QED BY <1>2, <1>3, <1>4, <1>5, <1>6, <1>7
(* A deletion of this plan has its request and its binding.                *)
LEMMA SameFact ==
    ASSUME NEW d \in Deletions, NEW e \in Deletions, Same(d, e)
    PROVE  d.request = e.request /\ d.binding = e.binding
<1>1. /\ [d EXCEPT !.phase = "any"].request = [e EXCEPT !.phase = "any"].request
      /\ [d EXCEPT !.phase = "any"].binding = [e EXCEPT !.phase = "any"].binding
  BY DEF Same
<1>2. \A f \in Deletions : /\ [f EXCEPT !.phase = "any"].request = f.request
                           /\ [f EXCEPT !.phase = "any"].binding = f.binding
  BY DEF Deletions
<1> QED BY <1>1, <1>2

(* The steps of a plan, up to the lease.                                   *)
LEMMA CarefulOpening ==
    ASSUME Typed, Kept, \A w \in Workers : Careful(w), NEW v \in Workers,
           Begin(v) \/ Done(v) \/ Snapshot(v) \/ Open(v)
    PROVE  \A w \in Workers : Careful(w)'
<1>0. work \in [Workers -> Works] /\ Itemised(v) BY DEF Typed, Careful
<1> USE DEF Busy, Applying, Holding, Writing
<1>1. CASE Give(v) /\ UNCHANGED <<store, deletion, files, lease, writer>>
  BY <1>0, <1>1, GiveFact, GivenUpFact, CarefulPlanning
<1>2. CASE Begin(v) /\ ~Give(v)
  <2>1. work' = [work EXCEPT ![v].todo = work[v].plan.items, ![v].failed = FALSE, ![v].pc = "next"]
    BY <1>2 DEF Begin
  <2>2. work[v].plan.items \in SUBSET Items BY <1>0 DEF Works, Plans
  <2>3. /\ Others(v) /\ work'[v].pc = "next" /\ work'[v].todo = work[v].plan.items
        /\ work'[v].plan = work[v].plan
    BY <1>0, <2>1, <2>2, BeginFact
  <2>4. Careful(v)' BY <2>3, UnbusyFact DEF Itemised
  <2> QED BY <1>2, <2>3, <2>4, CarefulPlanning DEF Begin
<1>3. CASE Done(v)
  <2> DEFINE pc == IF v = "gc" THEN "finish" ELSE "idle"
  <2>1. pc \in Steps /\ pc \notin Applying BY DEF Steps
  <2>2. Go(v, pc) BY <1>3 DEF Done
  <2> HIDE DEF pc
  <2>3. Others(v) /\ work'[v].pc = pc /\ work'[v].todo = work[v].todo /\ work'[v].plan = work[v].plan
    BY <1>0, <2>1, <2>2, GoFact
  <2>4. work[v].todo = {} BY <1>3 DEF Done
  <2>5. Careful(v)' BY <2>1, <2>3, <2>4, UnbusyFact DEF Itemised
  <2> QED BY <1>3, <2>3, <2>5, CarefulPlanning DEF Done
<1>4. CASE Snapshot(v) /\ ~Give(v)
  <2>0. PICK i : i = Item(v) OBVIOUS
  <2>1. work' = [work EXCEPT ![v].pc = "open", ![v].saved = deletion[i]] /\ work[v].todo # {}
    BY <1>4, <2>0 DEF Snapshot
  <2>2. i \in Items
    <3>1. work[v].todo \in SUBSET Items BY <1>0 DEF Works
    <3> QED BY <2>0, <2>1, <3>1, MinFact DEF Item
  <2>3. deletion[i] \in Deletions BY <2>2 DEF Typed
  <2>4. /\ Others(v) /\ work'[v].pc = "open" /\ work'[v].saved = deletion[i]
        /\ work'[v].plan = work[v].plan /\ work'[v].todo = work[v].todo
    BY <1>0, <2>1, <2>3, SnapshotFact
  <2>5. UNCHANGED deletion /\ Item(v)' = i BY <1>4, <2>0, <2>4 DEF Snapshot, Item
  <2>6. Itemised(v)' BY <1>0, <2>1, <2>4 DEF Itemised
  <2>7. deletion[i] # NoDeletion => deletion[i].phase # "none" BY <2>2 DEF Kept
  <2>8. Recorded(v)' BY <2>4, <2>5, <2>7 DEF Recorded
  <2>9. Careful(v)' BY <2>4, <2>6, <2>8 DEF Careful, Held, Marked, Consented
  <2> QED BY <1>4, <2>4, <2>9, CarefulPlanning DEF Snapshot
<1>5. CASE Open(v) /\ Bound(v, Item(v))
  <2>0. PICK i : i = Item(v) OBVIOUS
  <2> DEFINE pc == IF work[v].saved = NoDeletion THEN "prepare" ELSE "remove"
  <2>1. /\ work[v].pc = "open" /\ Bound(v, i) /\ lease[i] = "none"
        /\ lease' = [lease EXCEPT ![i] = v] /\ Go(v, pc)
    BY <1>5, <2>0 DEF Open
  <2>2. pc \in Steps /\ pc \in {"prepare", "remove"} /\ (pc = "remove" => work[v].saved # NoDeletion)
    BY DEF Steps
  <2> HIDE DEF pc
  <2>3. /\ Others(v) /\ work'[v].pc = pc /\ work'[v].saved = work[v].saved
        /\ work'[v].plan = work[v].plan /\ work'[v].todo = work[v].todo
    BY <1>0, <2>1, <2>2, GoFact
  <2>4. i \in Items BY <1>0, <2>0, <2>1, ItemFact
  <2>5. UNCHANGED <<store, deletion, files, writer>> /\ Item(v)' = i /\ Request(v)' = Request(v)
    BY <1>5, <2>0, <2>3 DEF Open, Item, Request
  <2>6. lease'[i] = v /\ \A j \in Items : lease[j] \in Workers => lease'[j] = lease[j]
    BY <2>1, <2>4 DEF Typed, TypeOK, Workers
  <2>7. Itemised(v)' BY <1>0, <2>1, <2>2, <2>3 DEF Itemised
  <2>8. Held(v)' BY <2>2, <2>3, <2>5, <2>6 DEF Held
  <2>9. Recorded(v)
    BY DEF Careful
  <2>10. Recorded(v)' BY <2>0, <2>1, <2>2, <2>3, <2>5, <2>9 DEF Recorded
  <2>11. Marked(v)' BY <2>1, <2>2, <2>3, <2>5 DEF Marked, Bound
  <2>12. Consented(v)' BY <2>2, <2>3 DEF Consented
  <2>13. Careful(v)' BY <2>7, <2>8, <2>10, <2>11, <2>12 DEF Careful
  <2>14. ASSUME NEW w \in Workers, w # v PROVE Careful(w)'
    <3>1. work'[w] = work[w] BY <2>3, <2>14 DEF Others
    <3> QED BY <2>5, <2>6, <3>1, FrameFact DEF store, Eligible
  <2> QED BY <2>13, <2>14
<1>6. CASE Open(v) /\ ~Bound(v, Item(v))
  <2>1. Give(v) /\ UNCHANGED <<store, deletion, files, lease, writer>> BY <1>6 DEF Open
  <2> QED BY <2>1, <1>1
<1>7. CASE Begin(v) /\ Give(v)
  <2>1. UNCHANGED <<store, deletion, files, lease, writer>> BY <1>7 DEF Begin
  <2> QED BY <2>1, <1>1, <1>7
<1>8. CASE Snapshot(v) /\ Give(v)
  <2>1. UNCHANGED <<store, deletion, files, lease, writer>> BY <1>8 DEF Snapshot
  <2> QED BY <2>1, <1>1, <1>8
<1> QED BY <1>2, <1>3, <1>4, <1>5, <1>6, <1>7, <1>8
(* What a step of the holder of a directory leaves alone in the others: it *)
(* touches no other directory, and takes the mutex only when it is free.   *)
LEMMA CarefulHolding ==
    ASSUME Typed, \A w \in Workers : Careful(w), NEW v \in Workers, NEW i \in Items,
           lease[i] = v, Others(v), Careful(v)', UNCHANGED store,
           \A j \in Items \ {i} : /\ deletion'[j] = deletion[j] /\ files'[j] = files[j]
                                /\ (lease'[j] = lease[j] \/ lease[j] = v),
           deletion[i].phase # "none" => deletion'[i].phase # "none",
           writer' = writer \/ writer \notin Workers \ {v}
    PROVE  \A w \in Workers : Careful(w)'
<1> SUFFICES ASSUME NEW w \in Workers, w # v PROVE Careful(w)'
  OBVIOUS
<1>1. work'[w] = work[w] BY DEF Others
<1>2. writer = w => writer' = w OBVIOUS
<1>3. \A j \in Items : lease[j] = w => lease'[j] = w OBVIOUS
<1>4. \A j \in Items : deletion[j].phase # "none" => deletion'[j].phase # "none" OBVIOUS
<1>5. \A j \in Items : lease[j] = w => files'[j].marker = files[j].marker OBVIOUS
<1>6. \A j \in Items : lease[j] = w /\ deletion[j].phase # "none" =>
        deletion'[j].request = deletion[j].request /\ deletion'[j].binding = deletion[j].binding
  OBVIOUS
<1>7. owner' = owner /\ \A j \in Items : Eligible(j, owner) => Eligible(j, owner)'
  BY DEF store, Eligible
<1> QED BY <1>1, <1>2, <1>3, <1>4, <1>5, <1>6, <1>7, FrameFact

(* The steps between the lease and the receipt.                            *)
LEMMA CarefulDeleting ==
    ASSUME Typed, \A w \in Workers : Careful(w), NEW v \in Workers,
           Prepare(v) \/ Remove(v) \/ Stage(v) \/ Publish(v) \/ Unlink(v) \/ Commit(v)
    PROVE  \A w \in Workers : Careful(w)'
<1>0. PICK i : i = Item(v) OBVIOUS
<1> USE DEF Holding, Writing
<1>1. /\ work \in [Workers -> Works] /\ Itemised(v) /\ Held(v) /\ Recorded(v) /\ Marked(v)
      /\ Consented(v)
  BY DEF Typed, Careful
<1>2. work[v].pc \in Holding
  BY DEF Prepare, Remove, Stage, Publish, Unlink, Commit
<1>3. i \in Items /\ i \in work[v].plan.items /\ lease[i] = v
  BY <1>0, <1>1, <1>2, ItemFact DEF Busy, Held
<1>4. deletion \in [Items -> Deletions] /\ deletion[i] \in Deletions BY <1>3 DEF Typed
<1>5. files \in [Items -> [data : BOOLEAN, stage : BOOLEAN, marker : Requests]] BY DEF Typed
<1>6. CASE Give(v) /\ Unhold(v) /\ UNCHANGED <<store, deletion, files>>
  <2>1. Others(v) /\ Careful(v)' BY <1>1, <1>6, GiveFact, GivenUpFact
  <2>2. \A w \in Workers \ {v} : /\ writer = w => writer' = w
                               /\ \A j \in Items : lease[j] = w => lease'[j] = w
    BY <1>6, UnholdFact DEF Typed, TypeOK
  <2> SUFFICES ASSUME NEW w \in Workers, w # v PROVE Careful(w)'
    BY <2>1
  <2>3. work'[w] = work[w] BY <2>1 DEF Others
  <2> QED BY <1>6, <2>2, <2>3, FrameFact DEF store, Eligible
<1>7. CASE Prepare(v) /\ Authorized(v) /\ deletion[i] = NoDeletion /\ FactsHold(v, i)
  <2>1. /\ Free /\ deletion[i] = NoDeletion /\ work[v].pc = "prepare"
        /\ deletion' = [deletion EXCEPT ![i] = Row(v, i)]
        /\ writer' = v /\ Go(v, "remove") /\ UNCHANGED <<store, files, lease>>
    BY <1>0, <1>7 DEF Prepare
  <2>2. "remove" \in Steps BY DEF Steps, Applying, Busy
  <2>3. /\ Others(v) /\ work'[v].pc = "remove"
        /\ work'[v].plan = work[v].plan /\ work'[v].todo = work[v].todo
    BY <1>1, <2>1, <2>2, GoFact
  <2>4. Item(v)' = i /\ Request(v)' = Request(v) BY <1>0, <2>3 DEF Item, Request
  <2>5. deletion'[i].phase = "prepared" BY <1>3, <1>4, <2>1 DEF Row
  <2>6. Itemised(v)' BY <1>1, <2>1, <2>3 DEF Itemised, Applying, Busy
  <2>7. Held(v)' BY <1>3, <2>1, <2>3, <2>4 DEF Held
  <2>8. Recorded(v)' BY <2>3, <2>4, <2>5 DEF Recorded
  <2>9. Marked(v)' BY <1>0, <1>1, <2>1, <2>3, <2>4 DEF Marked
  <2>10. Careful(v)' BY <2>3, <2>6, <2>7, <2>8, <2>9 DEF Careful, Consented
  <2> QED BY <1>3, <1>4, <2>1, <2>3, <2>5, <2>10, CarefulHolding DEF Free, Workers
<1>8. CASE Remove(v) /\ /\ Authorized(v) /\ Same(deletion[i], Row(v, i))
                        /\ deletion[i].phase = "prepared" => FactsHold(v, i)
  <2> DEFINE pc == IF deletion[Item(v)].phase = "removed" THEN "commit"
                   ELSE IF files[Item(v)].marker = <<>> THEN "stage" ELSE "unlink"
  <2>a. /\ Remove(v) /\ Authorized(v) /\ Same(deletion[Item(v)], Row(v, Item(v)))
        /\ deletion[Item(v)].phase = "prepared" => FactsHold(v, Item(v))
    BY <1>0, <1>8
  <2>b. writer' = v /\ Go(v, pc) /\ UNCHANGED lease BY <2>a DEF Remove
  <2>1. /\ writer \in {"none", v} /\ work[v].pc = "remove"
        /\ Authorized(v) /\ Same(deletion[i], Row(v, i))
        /\ deletion[i].phase = "prepared" => FactsHold(v, i)
        /\ writer' = v /\ Go(v, pc) /\ UNCHANGED <<store, deletion, files, lease>>
    <3> HIDE DEF pc
    <3>1. writer \in {"none", v} /\ work[v].pc = "remove" /\ UNCHANGED <<store, deletion, files>>
      BY <1>8 DEF Remove
    <3> QED BY <1>8, <2>b, <3>1
  <2>2. pc \in Steps /\ pc \in {"commit", "stage", "unlink"} BY DEF Steps, Applying, Busy
  <2>3. /\ pc = "stage" => deletion[i].phase # "removed"
        /\ pc = "unlink" => deletion[i].phase # "removed" /\ files[i].marker # <<>>
    BY <1>0
  <2> HIDE DEF pc
  <2>4. /\ Others(v) /\ work'[v].pc = pc
        /\ work'[v].plan = work[v].plan /\ work'[v].todo = work[v].todo
    BY <1>1, <2>1, <2>2, GoFact
  <2>5. Item(v)' = i /\ Request(v)' = Request(v) BY <1>0, <2>4 DEF Item, Request
  <2>6. deletion[i].phase # "none" BY <1>0, <1>1, <2>1 DEF Recorded
  <2>7. deletion[i].request = Request(v) /\ deletion[i].binding = owner
    <3>1. Row(v, i) \in Deletions BY <1>1, <1>3, RowFact
    <3>2. deletion[i].request = Row(v, i).request /\ deletion[i].binding = Row(v, i).binding
      BY <1>4, <2>1, <3>1, SameFact
    <3> QED BY <2>1, <3>2 DEF Row, Authorized
  <2>8. deletion[i].phase # "removed" => Eligible(i, owner)
    <3>1. deletion[i].phase \in {"none", "prepared", "removed"} BY <1>4 DEF Deletions
    <3> QED BY <2>1, <2>6, <3>1 DEF FactsHold, Authorized
  <2>9. Itemised(v)' BY <1>1, <2>1, <2>2, <2>4 DEF Itemised, Applying, Busy
  <2>10. Held(v)' BY <1>3, <2>1, <2>4, <2>5 DEF Held
  <2>11. Recorded(v)' BY <2>1, <2>2, <2>4, <2>5, <2>6 DEF Recorded
  <2>12. Marked(v)' BY <1>0, <1>1, <2>1, <2>2, <2>3, <2>4, <2>5 DEF Marked
  <2>13. Consented(v)' BY <2>1, <2>2, <2>3, <2>4, <2>5, <2>7, <2>8 DEF Consented, store, Eligible
  <2>14. Careful(v)' BY <2>9, <2>10, <2>11, <2>12, <2>13 DEF Careful
  <2> QED BY <1>3, <2>1, <2>4, <2>14, CarefulHolding DEF Workers
<1>9. CASE Stage(v)
  <2>1. "publish" \in Steps BY DEF Steps, Applying, Busy
  <2>2. /\ work[v].pc = "stage" /\ Go(v, "publish") /\ files' = [files EXCEPT ![i].stage = TRUE]
        /\ UNCHANGED <<store, deletion, lease, writer>>
    BY <1>0, <1>9 DEF Stage
  <2>3. /\ Others(v) /\ work'[v].pc = "publish"
        /\ work'[v].plan = work[v].plan /\ work'[v].todo = work[v].todo
    BY <1>1, <2>1, <2>2, GoFact
  <2>4. Item(v)' = i /\ Request(v)' = Request(v) BY <1>0, <2>3 DEF Item, Request
  <2>5. Itemised(v)' BY <1>1, <2>2, <2>3 DEF Itemised, Applying, Busy
  <2>6. Held(v)' BY <1>1, <1>3, <2>2, <2>3, <2>4 DEF Held
  <2>7. Recorded(v)' BY <1>0, <1>1, <2>2, <2>3, <2>4 DEF Recorded
  <2>8. Consented(v)' BY <1>0, <1>1, <2>2, <2>3, <2>4 DEF Consented, store, Eligible
  <2>9. Careful(v)' BY <2>3, <2>5, <2>6, <2>7, <2>8 DEF Careful, Marked
  <2> QED BY <1>3, <2>2, <2>3, <2>9, CarefulHolding
<1>10. CASE Publish(v)
  <2>1. "unlink" \in Steps BY DEF Steps, Applying, Busy
  <2>2. /\ work[v].pc = "publish" /\ Go(v, "unlink")
        /\ files' = [files EXCEPT ![i].stage = FALSE, ![i].marker = Request(v)]
        /\ UNCHANGED <<store, deletion, lease, writer>>
    BY <1>0, <1>10 DEF Publish
  <2>3. /\ Others(v) /\ work'[v].pc = "unlink"
        /\ work'[v].plan = work[v].plan /\ work'[v].todo = work[v].todo
    BY <1>1, <2>1, <2>2, GoFact
  <2>4. Item(v)' = i /\ Request(v)' = Request(v) BY <1>0, <2>3 DEF Item, Request
  <2>5. files'[i].marker = Request(v) BY <1>3, <1>5, <2>2
  <2>6. Itemised(v)' BY <1>1, <2>2, <2>3 DEF Itemised, Applying, Busy
  <2>7. Held(v)' BY <1>1, <1>3, <2>2, <2>3, <2>4 DEF Held
  <2>8. Recorded(v)' BY <1>0, <1>1, <2>2, <2>3, <2>4 DEF Recorded
  <2>9. Consented(v)' BY <1>0, <1>1, <2>2, <2>3, <2>4 DEF Consented, store, Eligible
  <2>10. Careful(v)' BY <2>3, <2>4, <2>5, <2>6, <2>7, <2>8, <2>9 DEF Careful, Marked
  <2>11. \A j \in Items \ {i} : files'[j] = files[j] BY <1>5, <2>2
  <2> QED BY <1>3, <2>2, <2>3, <2>10, <2>11, CarefulHolding
<1>11. CASE Unlink(v)
  <2>1. "commit" \in Steps BY DEF Steps, Applying, Busy
  <2>2. /\ work[v].pc = "unlink" /\ Go(v, "commit") /\ files' = [files EXCEPT ![i].data = FALSE]
        /\ UNCHANGED <<store, deletion, lease, writer>>
    BY <1>0, <1>11 DEF Unlink
  <2>3. /\ Others(v) /\ work'[v].pc = "commit"
        /\ work'[v].plan = work[v].plan /\ work'[v].todo = work[v].todo
    BY <1>1, <2>1, <2>2, GoFact
  <2>4. Item(v)' = i BY <1>0, <2>3 DEF Item
  <2>5. Itemised(v)' BY <1>1, <2>2, <2>3 DEF Itemised, Applying, Busy
  <2>6. Held(v)' BY <1>1, <1>3, <2>2, <2>3, <2>4 DEF Held
  <2>7. Recorded(v)' BY <1>0, <1>1, <2>2, <2>3, <2>4 DEF Recorded
  <2>8. Careful(v)' BY <2>3, <2>5, <2>6, <2>7 DEF Careful, Marked, Consented
  <2> QED BY <1>3, <2>2, <2>3, <2>8, CarefulHolding
<1>12. CASE Commit(v)
  <2>1. /\ work[v].pc = "commit" /\ deletion' = [deletion EXCEPT ![i].phase = "removed"]
        /\ work' = [work EXCEPT ![v].pc = "next", ![v].todo = @ \ {i}, ![v].saved = NoDeletion]
        /\ Unhold(v) /\ UNCHANGED <<store, files>>
    BY <1>0, <1>12 DEF Commit
  <2>2. /\ Others(v) /\ work'[v].pc = "next"
        /\ work'[v].plan = work[v].plan /\ work'[v].todo = work[v].todo \ {i}
    BY <1>1, <2>1, CommitFact
  <2>3. Itemised(v)' BY <1>1, <2>2 DEF Itemised, Applying, Busy
  <2>4. Careful(v)' BY <2>2, <2>3, UnbusyFact DEF Busy
  <2>5. \A w \in Workers \ {v} : /\ writer = w => writer' = w
                               /\ \A j \in Items : lease[j] = w => lease'[j] = w
    BY <2>1, UnholdFact DEF Typed, TypeOK
  <2>6. \A j \in Items : /\ deletion[j].phase # "none" => deletion'[j].phase # "none"
                        /\ deletion'[j].request = deletion[j].request
                        /\ deletion'[j].binding = deletion[j].binding
    BY <1>4, <2>1 DEF Deletions
  <2> SUFFICES ASSUME NEW w \in Workers, w # v PROVE Careful(w)'
    BY <2>4
  <2>7. work'[w] = work[w] BY <2>2 DEF Others
  <2> QED BY <2>1, <2>5, <2>6, <2>7, FrameFact DEF store, Eligible
<1>13. CASE Prepare(v) /\ ~(Authorized(v) /\ deletion[i] = NoDeletion /\ FactsHold(v, i))
  <2>1. Give(v) /\ Unhold(v) /\ UNCHANGED <<store, deletion, files>> BY <1>0, <1>13 DEF Prepare
  <2> QED BY <2>1, <1>6
<1>14. CASE Remove(v) /\ ~(/\ Authorized(v) /\ Same(deletion[i], Row(v, i))
                           /\ deletion[i].phase = "prepared" => FactsHold(v, i))
  <2>1. Give(v) /\ Unhold(v) /\ UNCHANGED <<store, deletion, files>> BY <1>0, <1>14 DEF Remove
  <2> QED BY <2>1, <1>6
<1> QED BY <1>7, <1>8, <1>9, <1>10, <1>11, <1>12, <1>13, <1>14
(* A fault takes the lease and the mutex of the workers it stops only.     *)
LEMMA CarefulFault ==
    ASSUME Typed, \A w \in Workers : Careful(w),
           Crash \/ \E w \in Workers : Interrupt(w)
    PROVE  \A w \in Workers : Careful(w)'
<1>1. ASSUME NEW v \in Workers, work'[v].pc = "idle", work'[v].todo = {} PROVE Careful(v)'
  BY <1>1, UnbusyFact DEF Itemised, Busy, Applying, Holding, Writing
<1>2. CASE Crash
  <2>1. \A v \in Workers : work'[v].pc = "idle" /\ work'[v].todo = {} BY <1>2 DEF Crash, Idle
  <2> QED BY <1>1, <2>1
<1>3. ASSUME NEW v \in Workers, Interrupt(v) PROVE \A w \in Workers : Careful(w)'
  <2>1. Others(v) /\ work'[v].pc = "idle" /\ work'[v].todo = {}
    BY <1>3 DEF Interrupt, Idle, Others, Typed
  <2>2. \A w \in Workers \ {v} : /\ writer = w => writer' = w
                               /\ \A j \in Items : lease[j] = w => lease'[j] = w
    BY <1>3, UnholdFact DEF Interrupt, Typed, TypeOK
  <2>3. Careful(v)' BY <1>1, <2>1
  <2> SUFFICES ASSUME NEW w \in Workers, w # v PROVE Careful(w)'
    BY <2>3
  <2>4. work'[w] = work[w] BY <2>1 DEF Others
  <2>5. UNCHANGED <<store, deletion, files>> BY <1>3 DEF Interrupt
  <2> QED BY <2>2, <2>4, <2>5, FrameFact DEF store, Eligible
<1> QED BY <1>2, <1>3

LEMMA CarefulStep ==
    ASSUME Typed, Kept, \A w \in Workers : Careful(w), [Next]_vars
    PROVE  \A w \in Workers : Careful(w)'
<1>1. ASSUME NEW v \in Workers, Apply(v) PROVE \A w \in Workers : Careful(w)'
  BY <1>1, CarefulOpening, CarefulDeleting DEF Apply
<1> QED
  BY <1>1, CarefulStore, CarefulRound, CarefulFault DEF Next, GC, ByHand, Workers

-----------------------------------------------------------------------------
(* The records and the files.                                              *)

(* A body goes only under a deletion on record with its marker in place,   *)
(* its capacity only after it, and never under a pin or a running task.    *)
LEMMA KeptStep ==
    ASSUME Typed, Kept, \A w \in Workers : Careful(w), [Next]_vars
    PROVE  Kept'
<1> USE DEF Kept, MissingIsJournalled, ReleasedIsGone, PinnedIsThere, NoRunWhileDeleting
<1>1. CASE UNCHANGED <<task, pin, deletion, files>>
  BY <1>1
<1>2. ASSUME NEW i \in Items, Pin(i) \/ Unpin(i) PROVE Kept'
  <2>1. UNCHANGED <<task, deletion, files>> BY <1>2 DEF Pin, Unpin
  <2>2. \A j \in Items : pin'[j] > 0 => pin[j] > 0 \/ deletion[j] = NoDeletion
    <3>1. CASE Pin(i) BY <3>1 DEF Pin, Typed, TypeOK
    <3>2. CASE Unpin(i) BY <3>2 DEF Unpin, Typed, TypeOK, Released
    <3> QED BY <1>2, <3>1, <3>2
  <2>3. \A j \in Items : deletion[j] = NoDeletion => files[j].data BY DEF NoDeletion, Typed
  <2> QED BY <2>1, <2>2, <2>3
<1>3. ASSUME NEW i \in Items, Retry(i) PROVE Kept'
  BY <1>3 DEF Retry, Typed, TypeOK
<1>4. ASSUME NEW i \in Items, Dispatch(i) PROVE Kept'
  BY <1>4 DEF Dispatch, Typed, TypeOK
<1>5. ASSUME NEW v \in Workers, work[v].pc \in Busy, NEW i, i = Item(v),
             UNCHANGED <<task, pin>>,
             \A j \in Items \ {i} : deletion'[j] = deletion[j] /\ files'[j] = files[j],
             i \in Items =>
                /\ ~files'[i].data =>
                      deletion'[i].phase # "none" /\ files'[i].marker = deletion'[i].request
                /\ deletion'[i].phase = "removed" => ~files'[i].data
                /\ pin[i] > 0 => deletion'[i] = NoDeletion /\ files'[i].data
                /\ task[i] = "running" => deletion'[i].phase # "prepared"
                /\ deletion'[i].phase = "none" => deletion'[i] = NoDeletion
      PROVE Kept'
  BY <1>5
<1>6. ASSUME NEW v \in Workers, Prepare(v) PROVE Kept'
  <2>0. PICK i : i = Item(v) OBVIOUS
  <2>1. CASE deletion' = deletion BY <1>1, <1>6, <2>1 DEF Prepare, store
  <2>2. CASE deletion[i] = NoDeletion /\ FactsHold(v, i) /\ deletion' = [deletion EXCEPT ![i] = Row(v, i)]
    <3>1. work[v].pc \in Busy /\ UNCHANGED <<task, pin, files>>
      BY <1>6 DEF Prepare, store, Busy, Holding
    <3>2. \A j \in Items \ {i} : deletion'[j] = deletion[j] BY <2>2 DEF Typed
    <3>3. i \in Items => deletion'[i].phase = "prepared" BY <2>2 DEF Row, Typed
    <3>4. i \in Items => files[i].data BY <2>2 DEF NoDeletion
    <3>5. i \in Items => ~(pin[i] > 0) /\ task[i] # "running"
      BY <2>2 DEF FactsHold, Eligible, Typed, TypeOK, Released
    <3> QED BY <1>5, <2>0, <3>1, <3>2, <3>3, <3>4, <3>5
  <2> QED BY <1>6, <2>0, <2>1, <2>2 DEF Prepare
<1>7. ASSUME NEW v \in Workers, Stage(v) \/ Publish(v) \/ Unlink(v) PROVE Kept'
  <2>0. PICK i : i = Item(v) OBVIOUS
  <2>1. work[v].pc \in {"stage", "publish", "unlink"} /\ UNCHANGED <<task, pin, deletion>>
    BY <1>7 DEF Stage, Publish, Unlink, store
  <2>2. work[v].pc \in Busy BY <2>1 DEF Busy, Holding, Writing
  <2>3. /\ deletion[i].phase # "none" /\ deletion[i].request = Request(v)
        /\ Eligible(i, owner) /\ (work[v].pc = "unlink" => files[i].marker = Request(v))
    BY <2>0, <2>1 DEF Careful, Recorded, Consented, Marked, Writing
  <2>4. \A j \in Items \ {i} : files'[j] = files[j]
    BY <1>7, <2>0 DEF Stage, Publish, Unlink, Typed
  <2>5. i \in Items => ~(pin[i] > 0)
    BY <2>3 DEF Eligible, Typed, TypeOK, Released
  <2>6. i \in Items =>
          /\ ~files'[i].data => files'[i].marker = Request(v)
          /\ deletion[i].phase = "removed" => ~files'[i].data
    <3>1. CASE Stage(v) BY <2>0, <2>3, <3>1 DEF Stage, Typed
    <3>2. CASE Publish(v) BY <2>0, <2>3, <3>2 DEF Publish, Typed
    <3>3. CASE Unlink(v) BY <2>0, <2>3, <3>3 DEF Unlink, Typed
    <3> QED BY <1>7, <3>1, <3>2, <3>3
  <2>7. i \in Items =>
          /\ ~files'[i].data => deletion'[i].phase # "none" /\ files'[i].marker = deletion'[i].request
          /\ deletion'[i].phase = "removed" => ~files'[i].data
          /\ pin[i] > 0 => deletion'[i] = NoDeletion /\ files'[i].data
          /\ task[i] = "running" => deletion'[i].phase # "prepared"
          /\ deletion'[i].phase = "none" => deletion'[i] = NoDeletion
    BY <2>1, <2>3, <2>5, <2>6
  <2>8. \A j \in Items \ {i} : deletion'[j] = deletion[j] /\ files'[j] = files[j] BY <2>1, <2>4
  <2>9. UNCHANGED <<task, pin>> BY <2>1
  <2> HIDE DEF Kept, MissingIsJournalled, ReleasedIsGone, PinnedIsThere, NoRunWhileDeleting
  <2> QED BY <1>5, <2>0, <2>2, <2>7, <2>8, <2>9
<1>8. ASSUME NEW v \in Workers, Commit(v) PROVE Kept'
  <2>0. PICK i : i = Item(v) OBVIOUS
  <2>1. /\ work[v].pc = "commit" /\ ~files[i].data /\ UNCHANGED <<task, pin, files>>
        /\ deletion' = [deletion EXCEPT ![i].phase = "removed"]
    BY <1>8, <2>0 DEF Commit, store
  <2>2. work[v].pc \in Busy BY <2>1 DEF Busy, Holding, Writing
  <2>3. \A j \in Items \ {i} : deletion'[j] = deletion[j] BY <2>1 DEF Typed
  <2>4. i \in Items => deletion'[i].phase = "removed" /\ deletion'[i].request = deletion[i].request
    BY <2>1 DEF Typed, Deletions
  <2> QED BY <1>5, <2>0, <2>1, <2>2, <2>3, <2>4
<1>9. ASSUME NEW v \in Workers, Apply(v) PROVE Kept'
  <2>1. CASE Begin(v) \/ Done(v) \/ Snapshot(v) \/ Open(v) \/ Remove(v)
    BY <1>1, <2>1 DEF Begin, Done, Snapshot, Open, Remove, store
  <2> QED BY <1>6, <1>7, <1>8, <1>9, <2>1 DEF Apply
<1>10. CASE Rebind \/ Enable \/ Disable \/ Select \/ Plan \/ Save \/ Finish \/ ManualPlan
            \/ ManualApply \/ Crash \/ UNCHANGED vars
  BY <1>1, <1>10 DEF Rebind, Enable, Disable, Select, Plan, Save, Finish, ManualPlan, ManualApply,
     Crash, store, vars
<1>11. ASSUME NEW i \in Items, Age(i) \/ Resolve(i) PROVE Kept'
  BY <1>1, <1>11 DEF Age, Resolve
<1>12. ASSUME NEW v \in Workers, Interrupt(v) PROVE Kept'
  BY <1>1, <1>12 DEF Interrupt, store
<1> HIDE DEF Kept, MissingIsJournalled, ReleasedIsGone, PinnedIsThere, NoRunWhileDeleting
<1>13. "gc" \in Workers /\ "manual" \in Workers BY DEF Workers
<1> QED BY <1>2, <1>3, <1>4, <1>9, <1>10, <1>11, <1>12, <1>13 DEF Next, GC, ByHand
-----------------------------------------------------------------------------
(* The collector.                                                          *)

(* A removed deletion stays removed.                                       *)
LEMMA RemovedStays ==
    ASSUME Typed, [Next]_vars, NEW i \in Items, deletion[i].phase = "removed"
    PROVE  deletion'[i].phase = "removed"
<1>1. ASSUME NEW w \in Workers, Prepare(w) PROVE deletion'[i].phase = "removed"
  <2>1. PICK j : j = Item(w) OBVIOUS
  <2>2. \/ deletion' = deletion
        \/ deletion[j] = NoDeletion /\ deletion' = [deletion EXCEPT ![j] = Row(w, j)]
    BY <1>1, <2>1 DEF Prepare
  <2> QED BY <2>2 DEF NoDeletion, Typed
<1>2. ASSUME NEW w \in Workers, Commit(w) PROVE deletion'[i].phase = "removed"
  <2>1. PICK j : j = Item(w) OBVIOUS
  <2>2. deletion' = [deletion EXCEPT ![j].phase = "removed"] BY <1>2, <2>1 DEF Commit
  <2> QED BY <2>2 DEF Deletions, Typed
<1>3. ASSUME NEW w \in Workers, Apply(w) PROVE deletion'[i].phase = "removed"
  BY <1>1, <1>2, <1>3 DEF Apply, Begin, Done, Snapshot, Open, Remove, Stage, Publish, Unlink
<1>4. "gc" \in Workers /\ "manual" \in Workers BY DEF Workers
<1> QED
  BY <1>3, <1>4 DEF Next, GC, ByHand, Rebind, Enable, Disable, Select, Plan, Save, Finish, ManualPlan,
     ManualApply, Age, Resolve, Pin, Unpin, Retry, Dispatch, Interrupt, Crash, vars

(* The collector is not disturbed by the others.                           *)
LEMMA CollectingFrame ==
    ASSUME Typed, Collecting, [Next]_vars, work'["gc"] = work["gc"], policy'.plan = policy.plan
    PROVE  Collecting'
<1>1. \A i \in Items : deletion[i].phase = "removed" => deletion'[i].phase = "removed"
  BY RemovedStays
<1>2. work["gc"].plan.items \subseteq Items BY DEF Typed, Works, Plans, Workers
<1> QED BY <1>1, <1>2 DEF Collecting

(* Between the begin and the end of a round the collector keeps its plan   *)
(* and passes an item only when it is removed.                             *)
LEMMA CollectingStep ==
    ASSUME Typed, \A w \in Workers : Careful(w), Collecting, [Next]_vars
    PROVE  Collecting'
<1>0. "gc" \in Workers /\ "manual" \in Workers /\ work \in [Workers -> Works] BY DEF Workers, Typed
<1>a. \A i \in Items : deletion[i].phase = "removed" => deletion'[i].phase = "removed"
  BY RemovedStays
<1>b. work["gc"].plan.items \subseteq Items BY <1>0 DEF Works, Plans
<1>c. Itemised("gc") BY <1>0 DEF Careful
<1> USE DEF Busy, Applying, Holding, Writing
<1>d. ASSUME Give("gc") PROVE Collecting'
  BY <1>0, <1>d, GiveFact DEF Collecting
<1>1. CASE Select
  <2>1. /\ work'["gc"].pc \in {"plan", "begin"} /\ work'["gc"].failed = FALSE
        /\ work'["gc"].plan = policy.plan /\ UNCHANGED policy
    BY <1>0, <1>1 DEF Select, Idle
  <2> QED BY <2>1 DEF Collecting
<1>2. CASE Plan /\ ~Give("gc")
  <2> DEFINE seen == work["gc"].seen
             plan == PlanFrom(seen.cursor, <<"gc", seen.revision, seen.tick>>)
  <2>1. work' = [work EXCEPT !["gc"].pc = "save", !["gc"].plan = plan] /\ work["gc"].pc = "plan"
    BY <1>2 DEF Plan
  <2> HIDE DEF plan
  <2>2. work'["gc"].pc = "save" /\ work'["gc"].failed = work["gc"].failed BY <1>0, <2>1 DEF Works
  <2> QED BY <2>1, <2>2 DEF Collecting
<1>3. CASE Save /\ Go("gc", "begin")
  <2>1. /\ work["gc"].pc = "save" /\ (Give("gc") \/ policy' = [policy EXCEPT !.plan = work["gc"].plan])
    BY <1>3 DEF Save
  <2>2. CASE policy' = [policy EXCEPT !.plan = work["gc"].plan]
    <3>1. policy'.plan = work["gc"].plan BY <2>2 DEF Typed, Policies
    <3>2. "begin" \in Steps BY DEF Steps
    <3>3. /\ work'["gc"].pc = "begin" /\ work'["gc"].plan = work["gc"].plan
          /\ work'["gc"].failed = work["gc"].failed
      BY <1>0, <1>3, <3>2, GoFact
    <3> QED BY <2>1, <3>1, <3>3 DEF Collecting
  <2> QED BY <1>d, <2>1, <2>2
<1>4. CASE Finish
  <2>1. work'["gc"] = Idle BY <1>0, <1>4 DEF Finish
  <2> QED BY <2>1 DEF Collecting, Idle
<1>5. CASE Begin("gc") /\ ~Give("gc")
  <2>1. /\ work' = [work EXCEPT !["gc"].todo = work["gc"].plan.items, !["gc"].failed = FALSE,
                                !["gc"].pc = "next"]
        /\ work["gc"].pc = "begin" /\ UNCHANGED policy
    BY <1>5 DEF Begin
  <2>2. /\ work'["gc"].pc = "next" /\ work'["gc"].failed = FALSE
        /\ work'["gc"].todo = work["gc"].plan.items /\ work'["gc"].plan = work["gc"].plan
    BY <1>0, <1>b, <2>1, BeginFact
  <2> QED BY <2>1, <2>2 DEF Collecting
<1>6. ASSUME NEW pc \in {"finish"} \cup Applying, work["gc"].pc \in Applying, UNCHANGED policy,
             work'["gc"].pc = pc, work'["gc"].plan = work["gc"].plan,
             work'["gc"].todo = work["gc"].todo, work'["gc"].failed = work["gc"].failed
      PROVE Collecting'
  BY <1>6, <1>a, <1>b DEF Collecting
<1>7. CASE Done("gc")
  <2>1. "finish" \in Steps BY DEF Steps
  <2>2. Go("gc", "finish") /\ work["gc"].pc = "next" /\ UNCHANGED policy BY <1>7 DEF Done
  <2>3. /\ work'["gc"].pc = "finish" /\ work'["gc"].plan = work["gc"].plan
        /\ work'["gc"].todo = work["gc"].todo /\ work'["gc"].failed = work["gc"].failed
    BY <1>0, <2>1, <2>2, GoFact
  <2> QED BY <1>6, <2>2, <2>3
<1>8. CASE Snapshot("gc") /\ ~Give("gc")
  <2>1. /\ work' = [work EXCEPT !["gc"].pc = "open", !["gc"].saved = deletion[Item("gc")]]
        /\ work["gc"].pc = "next" /\ UNCHANGED policy
    BY <1>8 DEF Snapshot
  <2>2. /\ work'["gc"].pc = "open" /\ work'["gc"].plan = work["gc"].plan
        /\ work'["gc"].todo = work["gc"].todo /\ work'["gc"].failed = work["gc"].failed
    BY <1>0, <2>1 DEF Works
  <2> QED BY <1>6, <2>1, <2>2
<1>9. ASSUME NEW pc \in Applying, Go("gc", pc), work["gc"].pc \in Applying, UNCHANGED policy
      PROVE Collecting'
  <2>1. pc \in Steps BY DEF Steps
  <2>2. /\ work'["gc"].pc = pc /\ work'["gc"].plan = work["gc"].plan
        /\ work'["gc"].todo = work["gc"].todo /\ work'["gc"].failed = work["gc"].failed
    BY <1>0, <1>9, <2>1, GoFact
  <2> QED BY <1>6, <1>9, <2>2
<1>10. CASE Open("gc") \/ Prepare("gc") \/ Remove("gc")
  <2>1. work["gc"].pc \in Applying /\ UNCHANGED policy BY <1>10 DEF Open, Prepare, Remove
  <2>2. CASE Open("gc")
    <3> DEFINE pc == IF work["gc"].saved = NoDeletion THEN "prepare" ELSE "remove"
    <3>1. Give("gc") \/ Go("gc", pc) BY <2>2 DEF Open
    <3>2. pc \in Applying OBVIOUS
    <3> HIDE DEF pc
    <3> QED BY <1>9, <1>d, <2>1, <3>1, <3>2
  <2>3. CASE Prepare("gc")
    <3>1. Give("gc") \/ Go("gc", "remove") BY <2>3 DEF Prepare
    <3> QED BY <1>9, <1>d, <2>1, <3>1
  <2>4. CASE Remove("gc")
    <3> DEFINE pc == IF deletion[Item("gc")].phase = "removed" THEN "commit"
                     ELSE IF files[Item("gc")].marker = <<>> THEN "stage" ELSE "unlink"
    <3>1. Give("gc") \/ Go("gc", pc) BY <2>4 DEF Remove
    <3>2. pc \in Applying OBVIOUS
    <3> HIDE DEF pc
    <3> QED BY <1>9, <1>d, <2>1, <3>1, <3>2
  <2> QED BY <1>10, <2>2, <2>3, <2>4
<1>11. CASE Stage("gc") \/ Publish("gc") \/ Unlink("gc")
  BY <1>9, <1>11 DEF Stage, Publish, Unlink
<1>12. CASE Commit("gc")
  <2>0. PICK i : i = Item("gc") OBVIOUS
  <2>1. /\ work' = [work EXCEPT !["gc"].pc = "next", !["gc"].todo = @ \ {i}, !["gc"].saved = NoDeletion]
        /\ deletion' = [deletion EXCEPT ![i].phase = "removed"]
        /\ work["gc"].pc = "commit" /\ UNCHANGED policy
    BY <1>12, <2>0 DEF Commit
  <2>2. /\ work'["gc"].pc = "next" /\ work'["gc"].plan = work["gc"].plan
        /\ work'["gc"].todo = work["gc"].todo \ {i} /\ work'["gc"].failed = work["gc"].failed
    BY <1>0, <2>1, CommitFact
  <2>3. i \in Items => deletion'[i].phase = "removed" BY <2>1 DEF Typed, Deletions
  <2> QED BY <1>a, <1>b, <2>1, <2>2, <2>3 DEF Collecting
<1>13. CASE Apply("gc")
  BY <1>13, <1>5, <1>7, <1>8, <1>10, <1>11, <1>12, <1>d DEF Apply
<1>14. CASE Crash \/ Interrupt("gc")
  <2>1. work'["gc"].pc = "idle" /\ work'["gc"].failed = FALSE
    BY <1>0, <1>14 DEF Crash, Interrupt, Idle
  <2> QED BY <2>1 DEF Collecting
<1>15. ASSUME work'["gc"] = work["gc"], policy'.plan = policy.plan PROVE Collecting'
  BY <1>15, CollectingFrame
<1>16. CASE Rebind \/ UNCHANGED vars
            \/ \E i \in Items : Age(i) \/ Resolve(i) \/ Pin(i) \/ Unpin(i) \/ Retry(i) \/ Dispatch(i)
  BY <1>15, <1>16 DEF Rebind, vars, Age, Resolve, Pin, Unpin, Retry, Dispatch
<1>17. CASE Enable \/ Disable
  BY <1>15, <1>17 DEF Enable, Disable, Typed, Policies
<1>18. CASE ManualApply
  <2>1. "begin" \in Steps BY DEF Steps
  <2>2. Others("manual") /\ UNCHANGED policy BY <1>0, <1>18, <2>1, GoFact DEF ManualApply
  <2> QED BY <1>0, <1>15, <2>2 DEF Others
<1>19. CASE Apply("manual") \/ Interrupt("manual")
  <2>1. work'["gc"] = work["gc"]
    <3>1. CASE Begin("manual") \/ Snapshot("manual") \/ Commit("manual") \/ Interrupt("manual")
      BY <1>0, <3>1 DEF Begin, Snapshot, Commit, Interrupt, Give
    <3>2. CASE Done("manual") \/ Open("manual") \/ Prepare("manual") \/ Remove("manual")
      BY <1>0, <3>2 DEF Done, Open, Prepare, Remove, Go, Give
    <3>3. CASE Stage("manual") \/ Publish("manual") \/ Unlink("manual")
      BY <1>0, <3>3 DEF Stage, Publish, Unlink, Go
    <3> QED BY <1>19, <3>1, <3>2, <3>3 DEF Apply
  <2>2. UNCHANGED policy
    BY <1>19 DEF Apply, Begin, Done, Snapshot, Open, Prepare, Remove, Stage, Publish, Unlink, Commit,
       Interrupt
  <2> QED BY <1>15, <2>1, <2>2
<1>21. CASE ManualPlan
  <2> DEFINE plan == PlanFrom(0, <<"manual">>)
  <2>1. work' = [work EXCEPT !["manual"].plan = plan] /\ UNCHANGED policy BY <1>21 DEF ManualPlan
  <2> HIDE DEF plan
  <2>2. work'["gc"] = work["gc"] BY <1>0, <2>1
  <2> QED BY <1>15, <2>1, <2>2
<1>20. CASE Plan \/ Save
  BY <1>20, <1>2, <1>3, <1>d DEF Plan, Save
<1> QED
  BY <1>1, <1>4, <1>13, <1>14, <1>16, <1>17, <1>18, <1>19, <1>20, <1>21 DEF Next, GC, ByHand, Workers
-----------------------------------------------------------------------------
(* The theorems.                                                           *)

(* The invariant holds initially.                                          *)
LEMMA RetentionInit == Init => RetentionInv
<1> SUFFICES ASSUME Init PROVE RetentionInv
  OBVIOUS
<1> USE DEF Init
<1>1. TypeOK
  BY RetentionAssumption DEF RetentionParameters, TypeOK, NoDeletion, NoPolicy, Workers, Released
<1>2. <<>> \in Requests BY DEF Requests
<1>3. Typed BY <1>1, <1>2, IdleFact DEF Typed
<1>4. Kept
  BY DEF Kept, MissingIsJournalled, ReleasedIsGone, PinnedIsThere, NoRunWhileDeleting, NoDeletion
<1>5. \A w \in Workers : Careful(w)
  BY DEF Careful, Itemised, Held, Recorded, Marked, Consented, Idle, NoPlan, Applying, Busy,
     Holding, Writing
<1>6. Collecting BY DEF Collecting, Idle, Applying, Busy, Holding, Writing, Workers
<1> QED BY <1>3, <1>4, <1>5, <1>6 DEF RetentionInv

(* Every step preserves it.                                                *)
LEMMA RetentionStep == RetentionInv /\ [Next]_vars => RetentionInv'
<1> SUFFICES ASSUME RetentionInv, [Next]_vars PROVE RetentionInv'
  OBVIOUS
<1>1. Typed /\ Kept /\ (\A w \in Workers : Careful(w)) /\ Collecting BY DEF RetentionInv
<1>2. Typed' BY <1>1, TypedStep DEF Careful
<1>3. Kept' BY <1>1, KeptStep
<1>4. \A w \in Workers : Careful(w)' BY <1>1, CarefulStep
<1>5. Collecting' BY <1>1, CollectingStep
<1> QED BY <1>2, <1>3, <1>4, <1>5 DEF RetentionInv

THEOREM RetentionInvariant == Spec => []RetentionInv
BY RetentionInit, RetentionStep, PTL DEF Spec

(* ReportsKept: whatever crash, change of owner, pin or retry falls between *)
(* two steps of a deletion, a missing body is on record with its marker,   *)
(* its capacity comes back only after it, and nobody who may still read it *)
(* meets the deletion (deletion.go, report_retention_delete.go).           *)
THEOREM ReportsStayKept == Spec => []ReportsKept
<1>1. RetentionInv => ReportsKept BY DEF RetentionInv, Typed, Kept, ReportsKept
<1> QED BY <1>1, RetentionInvariant, PTL

(* Bytes go only while the owner consents and the evidence holds.          *)
LEMMA UnlinkFact == ASSUME RetentionInv, [Next]_vars PROVE UnlinkStep
<1> SUFFICES ASSUME NEW i \in Items, files[i].data, ~files'[i].data
             PROVE  owner = deletion[i].binding /\ Eligible(i, owner)
  BY DEF UnlinkStep
<1>1. ASSUME NEW w \in Workers, Apply(w) PROVE owner = deletion[i].binding /\ Eligible(i, owner)
  <2>1. files \in [Items -> [data : BOOLEAN, stage : BOOLEAN, marker : Requests]]
    BY DEF RetentionInv, Typed
  <2>2. Unlink(w) /\ i = Item(w)
    <3>1. CASE Stage(w) BY <2>1, <3>1 DEF Stage
    <3>2. CASE Publish(w) BY <2>1, <3>2 DEF Publish
    <3>3. CASE Unlink(w) BY <2>1, <3>3 DEF Unlink
    <3> QED BY <1>1, <3>1, <3>2, <3>3
        DEF Apply, Begin, Done, Snapshot, Open, Prepare, Remove, Commit
  <2>3. Consented(w) BY DEF RetentionInv, Careful
  <2> QED BY <2>2, <2>3 DEF Consented, Unlink
<1>2. "gc" \in Workers /\ "manual" \in Workers BY DEF Workers
<1> QED
  BY <1>1, <1>2 DEF Next, GC, ByHand, Rebind, Enable, Disable, Select, Plan, Save, Finish, ManualPlan,
     ManualApply, Age, Resolve, Pin, Unpin, Retry, Dispatch, Interrupt, Crash, vars

(* A plan leaves the policy only when its items have been removed.         *)
LEMMA ForgetFact == ASSUME RetentionInv, [Next]_vars PROVE ForgetStep
<1> SUFFICES ASSUME policy.plan # NoPlan, policy'.plan = NoPlan
             PROVE  \A i \in policy.plan.items : deletion[i].phase = "removed"
  BY DEF ForgetStep
<1>0. Typed /\ Collecting /\ "gc" \in Workers /\ "manual" \in Workers /\ Itemised("gc")
  BY DEF RetentionInv, Careful, Workers
<1>1. CASE Finish
  <2>1. work["gc"].pc = "finish" /\ ~work["gc"].failed
    BY <1>0, <1>1 DEF Finish, Typed, Policies
  <2>2. work["gc"].todo = {} BY <1>0, <2>1 DEF Itemised, Applying, Busy, Holding, Writing
  <2> QED BY <1>0, <2>1, <2>2 DEF Collecting
<1>2. CASE Save BY <1>2 DEF Save
<1>3. CASE Enable \/ Disable BY <1>0, <1>3 DEF Enable, Disable, Typed, Policies
<1>4. ASSUME NEW w \in Workers, Apply(w) PROVE FALSE
  BY <1>4 DEF Apply, Begin, Done, Snapshot, Open, Prepare, Remove, Stage, Publish, Unlink, Commit
<1> QED
  BY <1>0, <1>1, <1>2, <1>3, <1>4 DEF Next, GC, ByHand, Rebind, Select, Plan, ManualPlan,
     ManualApply, Age, Resolve, Pin, Unpin, Retry, Dispatch, Interrupt, Crash, vars

(* DeletedByPlan: the consent of the owner and the evidence of the plan,   *)
(* read again by Remove, are still those at the moment of Unlink, and an   *)
(* interrupted round is finished before its plan is forgotten              *)
(* (report_retention_delete.go, report_gc.go).                             *)
THEOREM OnlyDeletedByPlan == Spec => DeletedByPlan
<1>1. RetentionInv /\ [Next]_vars => UnlinkStep /\ ForgetStep BY UnlinkFact, ForgetFact
<1> QED BY <1>1, RetentionInvariant, PTL DEF Spec, DeletedByPlan

=============================================================================
