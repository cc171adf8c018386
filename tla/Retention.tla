----------------------------- MODULE Retention -----------------------------
(***************************************************************************)
(* Deletion of the report artefacts of one run: the owner's plans and      *)
(* pins, the journal of deletions in the store, the marker protocol in the *)
(* artefact's directory, and the collector with its saved plan             *)
(* (store/report_retention*.go, store/report_gc.go, artifacts/deletion.go, *)
(* coordinator/report_retention.go, coordinator/diagnostics_gc.go).        *)
(*                                                                         *)
(* An item is a committed intake whose report event the owner handled and  *)
(* whose attempt has exited: a result of a completed task or a failure of  *)
(* a failed one.  Each step of a worker is one transaction of the store or *)
(* one operation on the directory; a crash or a cancelled context may fall *)
(* between any two of them.                                                *)
(***************************************************************************)
EXTENDS Integers, FiniteSets, FiniteSetsExt

CONSTANTS
    Last,           \* the items are 1 .. Last, in the order of their identifiers
    Results,        \* the items that are results; the others are failures
    Limit,          \* items of one plan (8 in the code)
    Pinnable,       \* the items a consumer may pin
    Retriable,      \* the failed tasks the owner may retry
    Manual,         \* whether the owner also applies a plan by hand
    MaxBindings,    \* bound on changes of the owner's binding
    MaxRevision,    \* bound on enabling and disabling the collector
    MaxFaults       \* bound on crashes and cancelled contexts

Items == 1 .. Last
Workers == {"gc", "manual"}

RetentionParameters ==
    /\ Last \in Nat \ {0} /\ Limit \in Nat \ {0}
    /\ Results \subseteq Items /\ Pinnable \subseteq Items
    /\ Retriable \subseteq Items \ Results
    /\ Manual \in BOOLEAN
    /\ MaxBindings \in Nat \ {0} /\ MaxRevision \in Nat \ {0} /\ MaxFaults \in Nat
ASSUME RetentionAssumption == RetentionParameters

VARIABLES
    owner,      \* the run's current owner binding
    task,       \* status of the task of each item
    aged,       \* whether the retention time of the item has passed
    pin,        \* the pin of the item: 0, the binding that holds it, or Released
    resolved,   \* the bindings under which a failure was resolved
    deletion,   \* the row of report_artifact_deletions of each item
    files,      \* the artefact's directory: body, marker and its stage
    lease,      \* holder of the directory's writer.lock
    writer,     \* holder of the store's mutex from the intent to the receipt
    policy,     \* the row of report_gc_policies
    work,       \* the plan each worker applies and how far it is
    faults

Released == -1
store == <<owner, task, aged, pin, resolved>>
vars == <<owner, task, aged, pin, resolved, deletion, files, lease, writer, policy, work, faults>>

NoDeletion == [phase |-> "none", request |-> <<>>, binding |-> 0, facts |-> 0]
NoPlan == [request |-> <<>>, binding |-> 0, items |-> {}, next |-> 0, facts |-> <<>>]
NoPolicy == [enabled |-> FALSE, revision |-> 0, binding |-> 0, plan |-> NoPlan,
             cursor |-> 0, tick |-> 0]
Idle == [pc |-> "idle", plan |-> NoPlan, todo |-> {}, saved |-> NoDeletion,
         seen |-> NoPolicy, failed |-> FALSE]

Init ==
    /\ owner = 1
    /\ task = [i \in Items |-> IF i \in Results THEN "completed" ELSE "failed"]
    /\ aged = [i \in Items |-> FALSE]
    /\ pin = [i \in Items |-> 0]
    /\ resolved = [i \in Items |-> {}]
    /\ deletion = [i \in Items |-> NoDeletion]
    /\ files = [i \in Items |-> [data |-> TRUE, stage |-> FALSE, marker |-> <<>>]]
    /\ lease = [i \in Items |-> "none"]
    /\ writer = "none"
    /\ policy = NoPolicy
    /\ work = [w \in Workers |-> Idle]
    /\ faults = 0

Free == writer = "none"

----------------------------------------------------------------------------
(* The evidence a deletion rests on.                                        *)

\* reportRetentionFacts: the task is terminal with this as its latest attempt,
\* nothing pins the item, its time has passed, and a failure has a resolution
\* of the binding the plan was made under.
Eligible(i, b) ==
    /\ task[i] \in {"completed", "failed"}
    /\ pin[i] <= 0
    /\ i \in Results \/ b \in resolved[i]
    /\ aged[i]

\* The part of the evidence vector that can differ between two readings: the
\* resolution it names.  The clock is not part of it.
Facts(i, b) == IF i \in Results THEN 0 ELSE b

\* validateReportGC and authorizeReportPlan: the collector acts only under the
\* revision and the binding it was enabled with, the owner only under the
\* binding of the plan.
PolicyCurrent(w) ==
    /\ policy.enabled /\ policy.revision = work[w].seen.revision
    /\ policy.binding = work[w].seen.binding /\ owner = work[w].seen.binding
Authorized(w) ==
    /\ w = "gc" => PolicyCurrent(w)
    /\ owner = work[w].plan.binding

----------------------------------------------------------------------------
(* Other transactions of the store.                                         *)

Rebind ==
    /\ Free /\ owner < MaxBindings
    /\ owner' = owner + 1
    /\ UNCHANGED <<task, aged, pin, resolved, deletion, files, lease, writer, policy, work, faults>>

Age(i) ==
    /\ ~aged[i]
    /\ i \in Results \/ resolved[i] # {}
    /\ aged' = [aged EXCEPT ![i] = TRUE]
    /\ UNCHANGED <<owner, task, pin, resolved, deletion, files, lease, writer, policy, work, faults>>

\* resolveReportArtifactAt: one immutable resolution of each binding; the
\* retention time counts from the resolution of the current owner.
Resolve(i) ==
    /\ Free
    /\ i \notin Results /\ deletion[i] = NoDeletion /\ owner \notin resolved[i]
    /\ resolved' = [resolved EXCEPT ![i] = @ \cup {owner}]
    /\ aged' = [aged EXCEPT ![i] = FALSE]
    /\ UNCHANGED <<owner, task, pin, deletion, files, lease, writer, policy, work, faults>>

\* PinReportArtifact: taken only while the reservation is active, released only
\* under the binding that took it.
Pin(i) ==
    /\ Free
    /\ i \in Pinnable /\ pin[i] = 0 /\ deletion[i] = NoDeletion
    /\ pin' = [pin EXCEPT ![i] = owner]
    /\ UNCHANGED <<owner, task, aged, resolved, deletion, files, lease, writer, policy, work, faults>>
Unpin(i) ==
    /\ Free
    /\ pin[i] = owner
    /\ pin' = [pin EXCEPT ![i] = Released]
    /\ UNCHANGED <<owner, task, aged, resolved, deletion, files, lease, writer, policy, work, faults>>

\* queueRetry of a failed task without an execution policy: the handled report
\* does not close its slot, and the journal of deletions is not looked at.
Retry(i) ==
    /\ Free
    /\ i \in Retriable /\ task[i] = "failed"
    /\ task' = [task EXCEPT ![i] = "ready"]
    /\ UNCHANGED <<owner, aged, pin, resolved, deletion, files, lease, writer, policy, work, faults>>

\* The claim of a ready task inserts an attempt, which the trigger
\* report_retention_attempt_fence aborts while a deletion is prepared.
Dispatch(i) ==
    /\ Free
    /\ task[i] = "ready" /\ deletion[i].phase # "prepared"
    /\ task' = [task EXCEPT ![i] = "running"]
    /\ UNCHANGED <<owner, aged, pin, resolved, deletion, files, lease, writer, policy, work, faults>>

\* ControlReportGC: a pending plan is resumed only under the binding it was
\* saved under, and survives disabling.
Enable ==
    /\ Free /\ policy.revision < MaxRevision
    /\ policy.plan # NoPlan => policy.binding = owner
    /\ policy' = [policy EXCEPT !.enabled = TRUE, !.revision = @ + 1, !.binding = owner]
    /\ UNCHANGED <<store, deletion, files, lease, writer, work, faults>>
Disable ==
    /\ Free /\ policy.enabled /\ policy.revision < MaxRevision
    /\ policy' = [policy EXCEPT !.enabled = FALSE, !.revision = @ + 1]
    /\ UNCHANGED <<store, deletion, files, lease, writer, work, faults>>

----------------------------------------------------------------------------
(* Planning.                                                                *)

\* planReportArtifactRetentionAt: the first Limit eligible items after the
\* cursor; the scan goes on after the last of them, or starts again.
PlanFrom(cursor, request) ==
    LET found == {i \in Items : /\ i > cursor /\ deletion[i] = NoDeletion
                                /\ Eligible(i, owner)}
        items == {i \in found : Cardinality({j \in found : j < i}) < Limit}
    IN  [request |-> request, binding |-> owner, items |-> items,
         next |-> IF Cardinality(items) = Limit THEN Max(items) ELSE 0,
         facts |-> [i \in items |-> Facts(i, owner)]]

Go(w, pc) == work' = [work EXCEPT ![w].pc = pc]
Give(w) == work' = [work EXCEPT ![w].pc = IF w = "gc" THEN "finish" ELSE "idle",
                                ![w].failed = TRUE, ![w].todo = {}]
Unhold(w) ==
    /\ lease' = [i \in Items |-> IF lease[i] = w THEN "none" ELSE lease[i]]
    /\ writer' = IF writer = w THEN "none" ELSE writer

\* RunReportGC: the enabled policy is read and its pending plan taken up.
Select ==
    /\ Free
    /\ work["gc"].pc = "idle" /\ policy.enabled
    /\ work' = [work EXCEPT !["gc"] =
          [Idle EXCEPT !.pc = IF policy.plan = NoPlan THEN "plan" ELSE "begin",
                       !.plan = policy.plan, !.seen = policy]]
    /\ UNCHANGED <<store, deletion, files, lease, writer, policy, faults>>

Plan ==
    /\ Free
    /\ work["gc"].pc = "plan"
    /\ \/ /\ PolicyCurrent("gc")
          /\ LET seen == work["gc"].seen
             IN  work' = [work EXCEPT !["gc"].pc = "save",
                                      !["gc"].plan = PlanFrom(seen.cursor,
                                            <<"gc", seen.revision, seen.tick>>)]
       \/ ~PolicyCurrent("gc") /\ Give("gc")
    /\ UNCHANGED <<store, deletion, files, lease, writer, policy, faults>>

\* saveReportGCPlan: nothing is deleted for the collector before its exact
\* plan is in the store.
Save ==
    /\ Free
    /\ work["gc"].pc = "save"
    /\ \/ /\ PolicyCurrent("gc") /\ policy.plan = NoPlan
          /\ policy' = [policy EXCEPT !.plan = work["gc"].plan]
          /\ Go("gc", "begin")
       \/ ~PolicyCurrent("gc") /\ Give("gc") /\ UNCHANGED policy
    /\ UNCHANGED <<store, deletion, files, lease, writer, faults>>

\* PlanReportArtifactRetention by the owner, once.
ManualPlan ==
    /\ Free /\ Manual
    /\ work["manual"].pc = "idle" /\ work["manual"].plan = NoPlan
    /\ work' = [work EXCEPT !["manual"].plan = PlanFrom(0, <<"manual">>)]
    /\ work'["manual"].plan.items # {}
    /\ UNCHANGED <<store, deletion, files, lease, writer, policy, faults>>
\* ApplyReportArtifactRetention, also again with the same saved plan.
ManualApply ==
    /\ work["manual"].pc = "idle" /\ work["manual"].plan # NoPlan
    /\ Go("manual", "begin")
    /\ UNCHANGED <<store, deletion, files, lease, writer, policy, faults>>

----------------------------------------------------------------------------
(* Applying a plan, item by item.                                           *)

Item(w) == Min(work[w].todo)
Request(w) == work[w].plan.request

\* applyReportArtifactRetentionAt
Begin(w) ==
    /\ Free
    /\ work[w].pc = "begin"
    /\ \/ /\ Authorized(w)
          /\ work' = [work EXCEPT ![w].todo = work[w].plan.items, ![w].failed = FALSE,
                                  ![w].pc = "next"]
       \/ ~Authorized(w) /\ Give(w)
    /\ UNCHANGED <<store, deletion, files, lease, writer, policy, faults>>

Done(w) ==
    /\ work[w].pc = "next" /\ work[w].todo = {}
    /\ Go(w, IF w = "gc" THEN "finish" ELSE "idle")
    /\ UNCHANGED <<store, deletion, files, lease, writer, policy, faults>>

\* The row a deletion of the item under this plan has.
Row(w, i) == [phase |-> "prepared", request |-> Request(w), binding |-> work[w].plan.binding,
              facts |-> work[w].plan.facts[i]]
Same(d, e) == [d EXCEPT !.phase = "any"] = [e EXCEPT !.phase = "any"]
FactsHold(w, i) ==
    /\ Eligible(i, work[w].plan.binding)
    /\ Facts(i, work[w].plan.binding) = work[w].plan.facts[i]

\* reportDeletionSnapshot: the item's deletion is this plan's, or there is none
\* and the plan's evidence still holds.
Snapshot(w) ==
    /\ Free
    /\ work[w].pc = "next" /\ work[w].todo # {}
    /\ LET i == Item(w)
       IN  \/ /\ Authorized(w)
              /\ \/ deletion[i] # NoDeletion /\ Same(deletion[i], Row(w, i))
                 \/ deletion[i] = NoDeletion /\ FactsHold(w, i)
              /\ work' = [work EXCEPT ![w].pc = "open", ![w].saved = deletion[i]]
           \/ /\ \/ ~Authorized(w)
                 \/ deletion[i] # NoDeletion /\ ~Same(deletion[i], Row(w, i))
                 \/ deletion[i] = NoDeletion /\ ~FactsHold(w, i)
              /\ Give(w)
    /\ UNCHANGED <<store, deletion, files, lease, writer, policy, faults>>

\* Deletion.bind: a stage left behind or the marker of another plan makes the
\* directory unsafe, and a new deletion needs the whole body.
Bound(w, i) ==
    /\ ~files[i].stage
    /\ files[i].marker \in {<<>>, Request(w)}
    /\ work[w].saved = NoDeletion => files[i].data

\* OpenDeletion: the writer lock is polled until it is free.
Open(w) ==
    /\ work[w].pc = "open"
    /\ LET i == Item(w)
       IN  /\ lease[i] = "none"
           /\ \/ /\ Bound(w, i)
                 /\ lease' = [lease EXCEPT ![i] = w]
                 /\ Go(w, IF work[w].saved = NoDeletion THEN "prepare" ELSE "remove")
              \/ /\ ~Bound(w, i)
                 /\ Give(w)
                 /\ UNCHANGED lease
    /\ UNCHANGED <<store, deletion, files, writer, policy, faults>>

\* Mutant: the evidence read before the lease was taken is trusted.
PrepareStale(w) ==
    /\ Free
    /\ work[w].pc = "prepare"
    /\ LET i == Item(w)
       IN  /\ deletion[i] = NoDeletion /\ Authorized(w)
           /\ deletion' = [deletion EXCEPT ![i] = Row(w, i)]
           /\ writer' = w
           /\ Go(w, "remove")
    /\ UNCHANGED <<store, files, lease, policy, faults>>
\* deleteReportRetentionItem, first transaction: authorization and evidence are
\* read again and the intent is committed; the reservation becomes 'deleting'.
Prepare(w) ==
    /\ Free
    /\ work[w].pc = "prepare"
    /\ LET i == Item(w)
           ok == Authorized(w) /\ deletion[i] = NoDeletion /\ FactsHold(w, i)
       IN  \/ /\ ok
              /\ deletion' = [deletion EXCEPT ![i] = Row(w, i)]
              /\ writer' = w
              /\ Go(w, "remove")
              /\ UNCHANGED lease
           \/ /\ ~ok
              /\ Give(w)
              /\ Unhold(w)
              /\ UNCHANGED deletion
    /\ UNCHANGED <<store, files, policy, faults>>

\* Mutant: a recovered deletion is carried out without asking again.
RemoveUnasked(w) ==
    /\ writer \in {"none", w}
    /\ work[w].pc = "remove"
    /\ LET i == Item(w)
       IN  /\ deletion[i].phase = "prepared" /\ Same(deletion[i], Row(w, i))
           /\ writer' = w
           /\ Go(w, IF files[i].marker = <<>> THEN "stage" ELSE "unlink")
    /\ UNCHANGED <<store, deletion, files, lease, policy, faults>>
\* The second transaction asks once more and stays open across the removal; the
\* mutex is still held after Prepare and taken here by a recovery.  A deletion
\* found removed is only verified.
Remove(w) ==
    /\ writer \in {"none", w}
    /\ work[w].pc = "remove"
    /\ LET i == Item(w)
           ok == /\ Authorized(w) /\ Same(deletion[i], Row(w, i))
                 /\ deletion[i].phase = "prepared" => FactsHold(w, i)
       IN  \/ /\ ok
              /\ writer' = w
              /\ Go(w, IF deletion[i].phase = "removed" THEN "commit"
                       ELSE IF files[i].marker = <<>> THEN "stage" ELSE "unlink")
              /\ UNCHANGED lease
           \/ /\ ~ok
              /\ Give(w)
              /\ Unhold(w)
    /\ UNCHANGED <<store, deletion, files, policy, faults>>

\* ensureMarker: the plan is written to a stage file and renamed to the marker.
Stage(w) ==
    /\ work[w].pc = "stage"
    /\ files' = [files EXCEPT ![Item(w)].stage = TRUE]
    /\ Go(w, "publish")
    /\ UNCHANGED <<store, deletion, lease, writer, policy, faults>>
Publish(w) ==
    /\ work[w].pc = "publish"
    /\ files' = [files EXCEPT ![Item(w)].stage = FALSE, ![Item(w)].marker = Request(w)]
    /\ Go(w, "unlink")
    /\ UNCHANGED <<store, deletion, lease, writer, policy, faults>>

\* Deletion.Remove, also of a body an earlier try already unlinked.
Unlink(w) ==
    /\ work[w].pc = "unlink"
    /\ files' = [files EXCEPT ![Item(w)].data = FALSE]
    /\ Go(w, "commit")
    /\ UNCHANGED <<store, deletion, lease, writer, policy, faults>>

\* VerifyRemoved and the receipt: the reservation is released.
Commit(w) ==
    /\ work[w].pc = "commit"
    /\ LET i == Item(w)
       IN  /\ ~files[i].data /\ files[i].marker = Request(w)
           /\ deletion' = [deletion EXCEPT ![i].phase = "removed"]
           /\ work' = [work EXCEPT ![w].pc = "next", ![w].todo = @ \ {i}, ![w].saved = NoDeletion]
    /\ Unhold(w)
    /\ UNCHANGED <<store, files, policy, faults>>

\* Mutant: the scan starts after the last item deleted, even at the end.
FinishStuck ==
    /\ Free
    /\ work["gc"].pc = "finish"
    /\ policy' = IF PolicyCurrent("gc") /\ ~work["gc"].failed
                 THEN [policy EXCEPT !.plan = NoPlan, !.tick = 1 - @,
                                     !.cursor = IF work["gc"].plan.items = {} THEN @
                                                ELSE Max(work["gc"].plan.items)]
                 ELSE policy
    /\ work' = [work EXCEPT !["gc"] = Idle]
    /\ UNCHANGED <<store, deletion, files, lease, writer, faults>>
\* finishReportGCRound: a round that failed keeps its plan; a policy whose owner
\* has changed is switched off; one changed since the round began is left alone.
Finish ==
    /\ Free
    /\ work["gc"].pc = "finish"
    /\ LET w == work["gc"]
           unchanged == policy.enabled /\ policy.revision = w.seen.revision
       IN  policy' = CASE ~unchanged -> policy
                       [] unchanged /\ owner # policy.binding ->
                            [policy EXCEPT !.enabled = FALSE]
                       [] unchanged /\ owner = policy.binding /\ w.failed ->
                            [policy EXCEPT !.tick = 1 - @]
                       [] unchanged /\ owner = policy.binding /\ ~w.failed ->
                            [policy EXCEPT !.plan = NoPlan, !.cursor = w.plan.next, !.tick = 1 - @]
    /\ work' = [work EXCEPT !["gc"] = Idle]
    /\ UNCHANGED <<store, deletion, files, lease, writer, faults>>

----------------------------------------------------------------------------
(* Faults: a cancelled context or an error ends the round of one worker, a *)
(* crash of the coordinator ends both; locks are released, files and rows  *)
(* stay.                                                                    *)

Interrupt(w) ==
    /\ faults < MaxFaults /\ work[w].pc # "idle"
    /\ work' = [work EXCEPT ![w] = [Idle EXCEPT !.plan = IF w = "manual" THEN work[w].plan
                                                         ELSE NoPlan]]
    /\ Unhold(w)
    /\ faults' = faults + 1
    /\ UNCHANGED <<store, deletion, files, policy>>
Crash ==
    /\ faults < MaxFaults /\ \E w \in Workers : work[w].pc # "idle"
    /\ work' = [w \in Workers |-> [Idle EXCEPT !.plan = IF w = "manual" THEN work[w].plan
                                                        ELSE NoPlan]]
    /\ lease' = [i \in Items |-> "none"] /\ writer' = "none"
    /\ faults' = faults + 1
    /\ UNCHANGED <<store, deletion, files, policy>>

Apply(w) ==
    \/ Begin(w) \/ Done(w) \/ Snapshot(w) \/ Open(w) \/ Prepare(w) \/ Remove(w)
    \/ Stage(w) \/ Publish(w) \/ Unlink(w) \/ Commit(w)
GC == Select \/ Plan \/ Save \/ Apply("gc") \/ Finish
ByHand == ManualApply \/ Apply("manual")

Next ==
    \/ Rebind \/ Enable \/ Disable \/ ManualPlan
    \/ \E i \in Items : Age(i) \/ Resolve(i) \/ Pin(i) \/ Unpin(i) \/ Retry(i) \/ Dispatch(i)
    \/ GC \/ ByHand
    \/ \E w \in Workers : Interrupt(w)
    \/ Crash

Spec == Init /\ [][Next]_vars

\* The collector runs every minute and on each enabling; an owner who applies a
\* plan by hand repeats it; a ready task is claimed when the store accepts it.
Fairness ==
    /\ SF_vars(GC) /\ SF_vars(ByHand)
    /\ \A i \in Items : WF_vars(Dispatch(i)) /\ WF_vars(Age(i))

----------------------------------------------------------------------------
(* Properties.                                                              *)

\* Every variable keeps its type.
TypeOK ==
    /\ owner \in 1 .. MaxBindings
    /\ task \in [Items -> {"completed", "failed", "ready", "running"}]
    /\ aged \in [Items -> BOOLEAN]
    /\ pin \in [Items -> (0 .. MaxBindings) \cup {Released}]
    /\ resolved \in [Items -> SUBSET (1 .. MaxBindings)]
    /\ \A i \in Items : deletion[i].phase \in {"none", "prepared", "removed"}
    /\ lease \in [Items -> Workers \cup {"none"}]
    /\ writer \in Workers \cup {"none"}
    /\ policy.revision \in 0 .. MaxRevision
    /\ faults \in 0 .. MaxFaults

\* A body is missing only when a committed deletion names it and the marker in
\* its directory is that deletion's plan: whatever crash follows, the store can
\* tell a deletion from a loss (deletion.go, ensureMarker before Unlinkat).
MissingIsJournalled ==
    \A i \in Items : ~files[i].data =>
        deletion[i].phase # "none" /\ files[i].marker = deletion[i].request

\* Capacity is given back only for a body that is gone
\* (report_retention_delete.go, VerifyRemoved before 'released').
ReleasedIsGone == \A i \in Items : deletion[i].phase = "removed" => ~files[i].data

\* A consumer that holds a pin finds the body: a pin taken while the plan is
\* being applied stops the deletion, and a deletion stops the pin.
PinnedIsThere == \A i \in Items : pin[i] > 0 => deletion[i] = NoDeletion /\ files[i].data

\* No attempt of the task runs while its report is being deleted.
NoRunWhileDeleting == \A i \in Items : task[i] = "running" => deletion[i].phase # "prepared"

\* A report is missing only by a deletion on record, its capacity comes back
\* only after it, and neither a consumer nor a running task meets one under way.
ReportsKept ==
    /\ TypeOK
    /\ MissingIsJournalled /\ ReleasedIsGone /\ PinnedIsThere /\ NoRunWhileDeleting

\* Bytes are removed only with the consent of the owner at that moment and with
\* the evidence of the plan still in force, also when a deletion is recovered
\* after a crash and the owner or the task has changed since.
UnlinkStep ==
    \A i \in Items : files[i].data /\ ~files'[i].data =>
        owner = deletion[i].binding /\ Eligible(i, owner)

\* The collector forgets a plan only when every item of it has been removed: an
\* interrupted round is finished before the next is planned.
ForgetStep ==
    policy.plan # NoPlan /\ policy'.plan = NoPlan =>
        \A i \in policy.plan.items : deletion[i].phase = "removed"

\* The collector keeps to its plans: bytes go only by one that is still in
\* force and agreed to, and a plan goes only when it has been carried out.
DeletedByPlan == [][UnlinkStep /\ ForgetStep]_vars

\* The saved plan has an item it cannot delete any more: the owner has deleted
\* it by hand, or its evidence has changed since, with a retry of its task
\* (report_retention_delete.go:71, decisions.go:363-391).
PlanStuck ==
    \E i \in policy.plan.items :
        LET p == policy.plan  d == deletion[i] IN
        \/ d # NoDeletion /\ (d.request # p.request \/ d.binding # p.binding)
        \/ d.phase # "removed" /\ ~(Eligible(i, p.binding) /\ Facts(i, p.binding) = p.facts[i])

\* What the collector is to delete, and what ends its duty: the item is removed
\* or kept, the saved plan is stuck, a crash left the partial marker for which
\* a directory is refused, or a plan of a replaced owner is deleting the item.
Due(i) == policy.enabled /\ Eligible(i, owner) /\ owner = policy.binding
Discharged(i) ==
    \/ deletion[i].phase = "removed"
    \/ ~policy.enabled \/ ~Eligible(i, owner)
    \/ PlanStuck \/ \E j \in Items : files[j].stage
    \/ deletion[i].phase = "prepared" /\ deletion[i].binding # owner

\* Under an enabled policy every item that is eligible and stays so is collected
\* in the end, past crashes and whatever page the cursor is at, unless a crash
\* left the partial marker the directory is then refused for, an item of the
\* saved plan was deleted by hand or retried, after which each round fails, or
\* the item is being deleted by a plan of an owner who has been replaced.
Collected == \A i \in Items : Due(i) ~> Discharged(i)

=============================================================================
