------------------------------ MODULE Scheduler ------------------------------
(***************************************************************************)
(* The coordinator's durable scheduler: the tasks, attempts, segments,     *)
(* active-time reservations, stops, questions, retry promises and owner    *)
(* deliveries that tools/orchestrator/internal/store keeps in one SQLite   *)
(* database, and the transactions that change them.  The store serialises  *)
(* every transaction behind one mutex, so each is one action here.         *)
(*                                                                         *)
(* A source host runs the segments.  It appends their events to a durable  *)
(* spool under one producer-wide sequence (`spool' is the part the store   *)
(* has not committed) and the coordinator commits them in that order       *)
(* (`events' are the committed ones).                                      *)
(***************************************************************************)
EXTENDS Integers, FiniteSets, FiniteSetsExt, Sequences

CONSTANTS
  Task, Host,
  HostOf,         \* the host launch a task belongs to
  GroupOf,        \* the budget group of a task
  Deps,           \* the tasks a task depends on
  Order,          \* creation order of the tasks (created_at, id)
  Policy,         \* the tasks submitted with an execution policy
  Completion,     \* completion_policy: "review", "fixture" or "artifact"
  KeysOf,         \* the provider and the workspace a task occupies
  KeyLimit,       \* the concurrency cap of a provider or a workspace
  Slots,          \* the global concurrency cap
  TaskAttempts,   \* attempts a policy task may use
  GroupAttempts,  \* attempts its budget group may use, as each task was told
  SegmentMS, AttemptMS, TaskMS, GroupMS, \* active time, the group's as each task was told
  Backoffs,       \* length of the policy's backoff list
  MaxAttempt,     \* bound: attempt ordinals
  MaxSegment,     \* bound: segments of one attempt
  MaxSpool,       \* bound: uncommitted events of one host
  MaxFaults       \* bound: disconnections, restarts and shutdown timeouts

Attempt   == 1..MaxAttempt
SegmentId == Task \X Attempt \X (1..MaxSegment)

ASSUME BoundsAssumption ==
  /\ MaxAttempt \in Nat \ {0} /\ MaxSegment \in Nat \ {0}
  /\ MaxSpool \in Nat \ {0} /\ MaxFaults \in Nat
  /\ Slots \in Nat \ {0} /\ Backoffs \in Nat
ASSUME PlanAssumption ==
  /\ IsFiniteSet(Task)
  /\ HostOf \in [Task -> Host] /\ Deps \in [Task -> SUBSET Task]
  /\ Order \in [Task -> 1..Cardinality(Task)] /\ Policy \subseteq Task
  /\ Completion \in [Task -> {"review", "fixture", "artifact"}]
  /\ KeysOf \in [Task -> SUBSET DOMAIN KeyLimit]
ASSUME BudgetAssumption ==
  /\ SegmentMS \in [Task -> Nat] /\ AttemptMS \in [Task -> Nat]
  /\ TaskMS \in [Task -> Nat] /\ GroupMS \in [Task -> Nat]
  /\ TaskAttempts \in [Task -> Nat] /\ GroupAttempts \in [Task -> Nat]
\* A plan is admitted only if the tasks of a budget group agree on its limits
\* and on having a policy (execution_policy_group_mixed, ErrInvalidDAG).
ASSUME GroupAssumption ==
  \A t, u \in Task : GroupOf[t] = GroupOf[u] =>
    /\ GroupMS[t] = GroupMS[u] /\ GroupAttempts[t] = GroupAttempts[u]
    /\ t \in Policy <=> u \in Policy
ASSUME CapAssumption == \A k \in DOMAIN KeyLimit : KeyLimit[k] \in Nat

VARIABLES
  status,     \* tasks.status
  readySeq,   \* task_runtime.ready_sequence
  nextReady,  \* runtime_meta.next_ready_sequence
  attempt,    \* attempts.status by task and ordinal, "none" before it exists
  seg,        \* segment_runtime, budget_runtime and stop_runtime of a segment
  question,   \* runtime_questions.status by asking segment
  binding,    \* the pending decision_attempt_bindings row of a task
  retried,    \* attempts a retry decision supersedes
  autoRetries,\* retry_decisions of origin 'policy', by task
  rejected,   \* segments whose result the owner rejected
  pending,    \* runtime_events awaiting the owner, as <<segment, kind>>
  hostStatus, \* runtime_hosts.status
  released,   \* launches whose host_launches.status is 'released'
  joining,    \* hosts between RegisterHost and BeginHostReconcile
  session,    \* how far the connection in Server.hosts has got, or "none"
  stale,      \* hosts whose replaced connection still has to finish reconciling
  spool,      \* host: events appended and not committed, in sequence order
  events,     \* runtime_events: the kinds committed for a segment
  faults      \* faults taken so far

taskVars  == <<status, readySeq, nextReady, binding>>
workVars  == <<attempt, seg, question>>
ownerVars == <<retried, autoRetries, rejected, pending>>
hostVars  == <<hostStatus, released, joining, session, stale>>
spoolVars == <<spool, events>>
vars == <<taskVars, workVars, ownerVars, hostVars, spoolVars, faults>>

-----------------------------------------------------------------------------
TaskStatus ==
  {"queued", "ready", "resume_queued", "running", "stopping", "unknown",
   "waiting_question", "interrupted", "result_ready", "completed", "failed",
   "cancelled", "blocked_dependency"}
AttemptStatus ==
  {"none", "running", "result_ready", "failed", "interrupted", "unknown"}
ActiveStatus ==
  {"launch_requested", "prepared", "spawned", "running", "stopping", "unknown"}
TerminalStatus == {"exited", "not_started"}
OutcomeKind == {"result", "failed", "stopped", "question"}
EventKind ==
  OutcomeKind \cup {"prepared", "spawned", "running", "unknown", "exited",
                    "launch_rejected", "resource"}
StopStatus == {"none", "pending", "accepted", "completed", "unknown"}

SegmentRecord ==
  [status  : {"none"} \cup ActiveStatus \cup TerminalStatus,
   outcome : {"", "launch_rejected"} \cup OutcomeKind,
   stop    : StopStatus,
   budget  : {"none", "reserved", "settled"},
   granted : Nat,
   used    : Nat]
NoSegment == [status |-> "none", outcome |-> "", stop |-> "none",
              budget |-> "none", granted |-> 0, used |-> 0]

Binding   == [pending : BOOLEAN, ms : Nat, due : BOOLEAN, promise : Nat]
NoBinding == [pending |-> FALSE, ms |-> 0, due |-> TRUE, promise |-> 0]

TypeOK ==
  /\ status \in [Task -> TaskStatus]
  /\ readySeq \in [Task -> Nat] /\ nextReady \in Nat
  /\ attempt \in [Task -> [Attempt -> AttemptStatus]]
  /\ seg \in [SegmentId -> SegmentRecord]
  /\ question \in [SegmentId -> {"none", "open", "resume_queued", "resume_started", "resolved"}]
  /\ binding \in [Task -> Binding]
  /\ retried \subseteq Task \X Attempt
  /\ autoRetries \in [Task -> Nat]
  /\ rejected \subseteq SegmentId
  /\ pending \subseteq SegmentId \X EventKind
  /\ hostStatus \in [Host -> {"absent", "ready", "reconciling", "offline", "released"}]
  /\ released \subseteq Host /\ joining \subseteq Host /\ stale \subseteq Host
  /\ session \in [Host -> {"none", "replaying", "finishing", "live"}]
  /\ spool \in [Host -> Seq(SegmentId \X EventKind)]
  /\ events \in [SegmentId -> SUBSET EventKind]
  /\ faults \in Nat

-----------------------------------------------------------------------------
(* What a task has run so far. *)

ActiveSegments == {s \in SegmentId : seg[s].status \in ActiveStatus}
HasActive(t)   == \E s \in ActiveSegments : s[1] = t

\* nextTaskAttemptOrdinal: a is MAX(attempt_no) + 1.
nextTaskAttemptOrdinal(t, a) == \A b \in Attempt : attempt[t][b] # "none" <=> b < a
SomeAttempt(t, a) == attempt[t][a] # "none"  \* mutant: the ORDER BY is lost
LatestAttempt(t, a) ==
  attempt[t][a] # "none" /\ \A b \in Attempt : attempt[t][b] # "none" => b <= a
NextSegment(t, a, n) ==
  \A m \in 1..MaxSegment : seg[<<t, a, m>>].status # "none" <=> m < n
\* The segment ORDER BY attempt_no DESC, segment_no DESC LIMIT 1 of its task.
LatestSegment(s) ==
  /\ LatestAttempt(s[1], s[2])
  /\ seg[s].status # "none"
  /\ \A m \in 1..MaxSegment : seg[<<s[1], s[2], m>>].status # "none" => m <= s[3]
AttemptsOf(t) == Cardinality({a \in Attempt : attempt[t][a] # "none"})

-----------------------------------------------------------------------------
(* Execution budget.  sg is the segment table the transaction has reached. *)

Siblings(t) == {u \in Task : GroupOf[u] = GroupOf[t]}

\* An unsettled reservation is charged in full, a settled one what it used.
Charge(r) == IF r.budget = "settled" THEN r.used ELSE r.granted
Charged(sg, S) == SumFunctionOnSet([s \in SegmentId |-> Charge(sg[s])], S)
GroupCharge(sg, t)      == Charged(sg, {s \in SegmentId : s[1] \in Siblings(t)})
chargedTaskActiveMS(sg, t) == Charged(sg, {s \in SegmentId : s[1] = t})
attemptChargedActiveMS(sg, t, a) == Charged(sg, {s \in SegmentId : s[1] = t /\ s[2] = a})

\* pendingActiveHolds: time promised to pending retries, except to those in own.
pendingActiveHolds(S, own) == SumFunctionOnSet([u \in Task |-> binding[u].ms], S \ own)

\* The pending promise a claim of t consumes, if it reserves capacity.
Own(t) == {u \in {t} : status[u] = "ready" /\ binding[u].pending /\ (u \in Policy \/ binding[u].ms > 0)}

\* Attempts the group has used.
GroupAttemptsOf(t) == SumFunctionOnSet([u \in Task |-> AttemptsOf(u)], Siblings(t))
\* Mutant: promised attempts are not counted.
executionCapacityUnheld(t, own) ==
  /\ GroupAttemptsOf(t) < GroupAttempts[t]
  /\ t \in Policy => AttemptsOf(t) < TaskAttempts[t]
executionCapacity(t, own) ==
  LET held == {u \in Siblings(t) \ own :
                 binding[u].pending /\ (binding[u].ms > 0 \/ t \in Policy)}
  IN /\ GroupAttemptsOf(t) + Cardinality(held) < GroupAttempts[t]
     /\ t \in Policy =>
          AttemptsOf(t) + Cardinality(held \cap {t}) < TaskAttempts[t]

\* executionGrantForBinding before a promise narrows it; ran is the set of
\* attempts the grant resumes (none, or the latest one).
Allowance(sg, t, ran, own) ==
  Min({SegmentMS[t], AttemptMS[t],
       GroupMS[t] - GroupCharge(sg, t) - pendingActiveHolds(Siblings(t), own)}
      \cup {TaskMS[u] - chargedTaskActiveMS(sg, u) - pendingActiveHolds({u}, own) :
              u \in {t} \cap Policy}
      \cup {AttemptMS[t] - attemptChargedActiveMS(sg, t, a) : a \in ran})

executionGrant(sg, t, ran) == Allowance(sg, t, ran, {})
Grants(t) == 1..SegmentMS[t]

\* A claim of t is granted its promise exactly, or its allowance.
executionGrantForBinding(t, ran) ==
  IF Own(t) # {} THEN binding[t].ms ELSE Allowance(seg, t, ran, {})
\* ErrConflict: the promise no longer fits.  It stops the whole selection.
GrantConflict(t) ==
  Own(t) # {} /\ binding[t].ms \notin 1..Allowance(seg, t, {}, Own(t))

executionExhausted(sg, t) ==
  ~executionCapacity(t, {}) \/ executionGrant(sg, t, {}) <= 0

-----------------------------------------------------------------------------
(* Dependencies.  ts is the task table the transaction has reached. *)

\* blockFailedDependencies: the waiting tasks that depend, through waiting
\* tasks, on one of `terminal'.
Blocked(ts, terminal) ==
  LET waiting   == {t \in Task : ts[t] \in {"queued", "ready"}}
      closed(S) == \A t \in waiting : Deps[t] \cap (terminal \cup S) # {} => t \in S
  IN {t \in waiting : \A S \in SUBSET waiting : closed(S) => t \in S}

blockFailedDependencies(ts, terminal) ==
  [t \in Task |-> IF t \in Blocked(ts, terminal) THEN "blocked_dependency" ELSE ts[t]]

\* The roots of a call without roots: every failed or cancelled task.
AllFailed(ts) == {t \in Task : ts[t] \in {"failed", "cancelled", "blocked_dependency"}}

\* Mutant: one completed dependency is enough.
releaseReadyEarly(ts) ==
  {t \in Task : ts[t] = "queued" /\ \E d \in Deps[t] : ts[d] = "completed"}
releaseReady(ts) ==
  {t \in Task : ts[t] = "queued" /\ \A d \in Deps[t] : ts[d] = "completed"}
Promoted(ts) == [t \in Task |-> IF t \in releaseReady(ts) THEN "ready" ELSE ts[t]]

\* retireDecisionBindings: blocked tasks lose their promise.
Retire(ts, bnd) == [t \in Task |-> IF ts[t] = "blocked_dependency" THEN NoBinding ELSE bnd[t]]
\* takeReadySequence for every entering task, in creation order.
Place(t, entering) == Cardinality({u \in entering : Order[u] < Order[t]})

\* Commit the task table ts with bindings bnd; the tasks in entering are enqueued.
Reschedule(ts, entering, bnd) ==
  /\ status' = ts
  /\ binding' = Retire(ts, bnd)
  /\ readySeq' = [t \in Task |->
       IF t \in entering THEN nextReady + Place(t, entering) ELSE readySeq[t]]
  /\ nextReady' = nextReady + Cardinality(entering)

SetStatus(t, st) == Reschedule([status EXCEPT ![t] = st], {}, binding)
Enqueue(t, st, bnd) == Reschedule([status EXCEPT ![t] = st], {t}, bnd)

-----------------------------------------------------------------------------
Init ==
  /\ status = [t \in Task |-> IF Deps[t] = {} THEN "ready" ELSE "queued"]
  /\ readySeq = [t \in Task |-> Order[t]]
  /\ nextReady = Cardinality(Task) + 1
  /\ attempt = [t \in Task |-> [a \in Attempt |-> "none"]]
  /\ seg = [s \in SegmentId |-> NoSegment]
  /\ question = [s \in SegmentId |-> "none"]
  /\ binding = [t \in Task |-> NoBinding]
  /\ retried = {} /\ rejected = {} /\ pending = {}
  /\ autoRetries = [t \in Task |-> 0]
  /\ hostStatus = [h \in Host |-> "absent"]
  /\ released = {} /\ joining = {} /\ stale = {}
  /\ session = [h \in Host |-> "none"]
  /\ spool = [h \in Host |-> <<>>]
  /\ events = [s \in SegmentId |-> {}]
  /\ faults = 0

-----------------------------------------------------------------------------
(* Hosts. *)

\* ReleasedHostIdentity: handleHost turns a released launch away.
NotReleasedNow(h) == hostStatus[h] # "released"  \* mutant: forgets over a restart
Welcome(h) == h \notin released

\* handleHost registers the host as ready and only then, in a second
\* transaction, makes it reconcile.  A host that still has a connection replaces it.
RegisterHost(h) ==
  /\ Welcome(h) /\ h \notin joining
  /\ \/ session[h] = "none" /\ faults' = faults
     \/ session[h] # "none" /\ faults < MaxFaults /\ faults' = faults + 1
  /\ hostStatus' = [hostStatus EXCEPT ![h] = "ready"]
  /\ joining' = joining \cup {h}
  /\ UNCHANGED <<taskVars, workVars, ownerVars, released, session, stale, spoolVars>>

\* The new connection enters Server.hosts; hostRegistrationMu is held since
\* RegisterHost.
BeginHostReconcile(h) ==
  /\ h \in joining
  /\ joining' = joining \ {h}
  /\ hostStatus' = [hostStatus EXCEPT ![h] = "reconciling"]
  /\ session' = [session EXCEPT ![h] = "replaying"]
  /\ stale' = IF session[h] = "finishing" THEN stale \cup {h} ELSE stale
  /\ UNCHANGED <<taskVars, workVars, ownerVars, released, spoolVars, faults>>

\* The host has replayed its spool and says so.
HostReconciled(h) ==
  /\ session[h] = "replaying" /\ h \notin joining
  /\ spool[h] = <<>>
  /\ session' = [session EXCEPT ![h] = "finishing"]
  /\ UNCHANGED <<taskVars, workVars, ownerVars, hostStatus, released, joining, stale, spoolVars, faults>>

\* The host is ready for dispatch.
FinishHostReconcile(h) ==
  /\ session[h] = "finishing" /\ hostStatus[h] \in {"reconciling", "ready"}
  /\ hostStatus' = [hostStatus EXCEPT ![h] = "ready"]
  /\ session' = [session EXCEPT ![h] = "live"]
  /\ UNCHANGED <<taskVars, workVars, ownerVars, released, joining, stale, spoolVars, faults>>

\* The same call, made for a connection that has been replaced or dropped.
FinishStaleReconcile(h) ==
  /\ h \in stale
  /\ stale' = stale \ {h}
  /\ hostStatus' = [hostStatus EXCEPT ![h] = IF @ = "reconciling" THEN "ready" ELSE @]
  /\ UNCHANGED <<taskVars, workVars, ownerVars, released, joining, session, spoolVars, faults>>

\* disconnectHost of the current connection.  MarkHostOffline leaves a host that
\* is still reconciling as it is.
MarkHostOffline(h) ==
  /\ session[h] # "none"
  /\ faults < MaxFaults
  /\ faults' = faults + 1
  /\ hostStatus' = [hostStatus EXCEPT ![h] = IF @ = "ready" THEN "offline" ELSE @]
  /\ session' = [session EXCEPT ![h] = "none"]
  /\ stale' = IF session[h] = "finishing" THEN stale \cup {h} ELSE stale
  /\ UNCHANGED <<taskVars, workVars, ownerVars, released, joining, spoolVars>>

\* A new coordinator process: every registered host, released ones included,
\* is offline until it registers again.
BeginCoordinatorEpoch ==
  /\ faults < MaxFaults
  /\ faults' = faults + 1
  /\ hostStatus' = [h \in Host |-> IF hostStatus[h] = "absent" THEN "absent" ELSE "offline"]
  /\ session' = [h \in Host |-> "none"]
  /\ joining' = {} /\ stale' = {}
  /\ UNCHANGED <<taskVars, workVars, ownerVars, released, spoolVars>>

\* retirableHostPredicate
Retirable(h) ==
  /\ hostStatus[h] = "ready"
  /\ \A t \in Task : HostOf[t] = h =>
       /\ ~binding[t].pending
       /\ status[t] \in {"completed", "result_ready", "cancelled", "failed", "blocked_dependency"}
       /\ status[t] = "failed" /\ t \in Policy => \A e \in pending : e[1][1] # t
       /\ ~HasActive(t)

RetireHost(h) ==
  /\ Retirable(h) /\ h \notin joining
  /\ session' = [session EXCEPT ![h] = "none"]
  /\ stale' = IF session[h] = "finishing" THEN stale \cup {h} ELSE stale
  /\ hostStatus' = [hostStatus EXCEPT ![h] = "released"]
  /\ released' = released \cup {h}
  /\ UNCHANGED <<taskVars, workVars, ownerVars, joining, spoolVars, faults>>

-----------------------------------------------------------------------------
(* Dispatch. *)

Occupancy(k) == Cardinality({s \in ActiveSegments : k \in KeysOf[s[1]]})

\* selectReady looks at the ready tasks of ready hosts in FIFO order.
Candidates ==
  {t \in Task : status[t] \in {"ready", "resume_queued"} /\ hostStatus[HostOf[t]] = "ready"}
Runs(t) == IF status[t] = "resume_queued" THEN {a \in Attempt : LatestAttempt(t, a)} ELSE {}
Deferred(t) == (\E k \in KeysOf[t] : Occupancy(k) >= KeyLimit[k]) \/ ~binding[t].due
AtAttemptLimit(t) == status[t] = "ready" /\ ~executionCapacity(t, Own(t))
BudgetExhausted(t) == executionGrantForBinding(t, Runs(t)) <= 0
Admissible(t) == ~AtAttemptLimit(t) /\ ~BudgetExhausted(t) /\ ~GrantConflict(t)
\* The scan passes over a refused task of another host.  Host h's own refused
\* task ends the scan with its error unless it has a policy or shares its
\* group with a pending promise.
\* Mutant: the scan ends at the first refused task.
PassedOverDeferred(t, h) == Deferred(t)
PassedOver(t, h) ==
  \/ Deferred(t)
  \/ ~Admissible(t) /\ HostOf[t] # h
  \/ /\ AtAttemptLimit(t) \/ (BudgetExhausted(t) /\ ~GrantConflict(t))
     /\ t \in Policy \/ \E u \in Siblings(t) : binding[u].ms > 0
selectReady(h, t) ==
  /\ t \in Candidates /\ HostOf[t] = h
  /\ ~Deferred(t) /\ Admissible(t)
  /\ \A u \in Candidates : readySeq[u] < readySeq[t] => PassedOver(u, h)

Granted(ms) == [NoSegment EXCEPT !.status = "launch_requested",
                                 !.budget = "reserved", !.granted = ms]
Launch(s, ms) == seg' = [seg EXCEPT ![s] = Granted(ms)]

\* ClaimReady for a new attempt: it consumes the pending promise, whose saved
\* ordinal wins over the next free one.
ClaimAttempt(h, t, a) ==
  /\ status[t] = "ready"
  /\ \E b \in Attempt : nextTaskAttemptOrdinal(t, b) /\ b <= a
                        /\ (a = IF binding[t].promise > 0 THEN binding[t].promise ELSE b)
  /\ \E ms \in Grants(t) :
       ms = executionGrantForBinding(t, {}) /\ Launch(<<t, a, 1>>, ms)
  /\ attempt' = [attempt EXCEPT ![t][a] = "running"]
  /\ Reschedule([status EXCEPT ![t] = "running"], {}, [binding EXCEPT ![t] = NoBinding])
  /\ UNCHANGED question

\* ClaimReady for a resumed attempt: the next segment of the latest attempt,
\* carrying the newest answered question.
ClaimResume(h, t, a) ==
  /\ status[t] = "resume_queued"
  /\ LatestAttempt(t, a)
  /\ \A s \in ActiveSegments : <<s[1], s[2]>> # <<t, a>>
  /\ \E n \in 1..MaxSegment, ms \in Grants(t) :
       /\ NextSegment(t, a, n)
       /\ ms = executionGrantForBinding(t, {a}) /\ Launch(<<t, a, n>>, ms)
  /\ attempt' = [attempt EXCEPT ![t][a] = "running"]
  /\ question' = [s \in SegmentId |->
       IF s[1] = t /\ s[2] = a /\ question[s] = "resume_queued" THEN "resume_started" ELSE question[s]]
  /\ SetStatus(t, "running")

ClaimReady(h, t) ==
  /\ hostStatus[h] = "ready" /\ session[h] # "none"
  /\ Cardinality(ActiveSegments) < Slots
  /\ selectReady(h, t)
  /\ \E a \in Attempt : ClaimAttempt(h, t, a) \/ ClaimResume(h, t, a)
  /\ UNCHANGED <<ownerVars, hostVars, spoolVars, faults>>

\* The backoff of an automatic retry elapses.
BackoffElapses(t) ==
  /\ binding[t].pending /\ ~binding[t].due
  /\ binding' = [binding EXCEPT ![t].due = TRUE]
  /\ UNCHANGED <<status, readySeq, nextReady, workVars, ownerVars, hostVars, spoolVars, faults>>

-----------------------------------------------------------------------------
(* Segment events.  The host appends the events of its segments at any time,
   whatever the store has recorded meanwhile; the coordinator commits the first
   one of the spool once the host is connected. *)

\* What the host has appended for s, committed or not.
Emitted(s) ==
  events[s] \cup {k \in EventKind : \E i \in 1..Len(spool[HostOf[s[1]]]) :
                                     spool[HostOf[s[1]]][i] = <<s, k>>}

\* The order in which Host.execute appends the events of one segment: E are the
\* ones it has appended.  "resource" stands for the candidate and workspace
\* records that follow the exit of a successful segment.
HostOrder(E, k) ==
  CASE k = "prepared" -> E = {}
    [] k = "launch_rejected" -> E \subseteq {"prepared"}
    [] k = "spawned"  -> E = {"prepared"}
    [] k = "running"  -> E = {"prepared", "spawned"}
    [] k \in OutcomeKind -> E = {"prepared", "spawned", "running"}
    [] k = "exited"   -> E \cap OutcomeKind # {} /\ E \cap {"exited", "unknown"} = {}
    [] k = "unknown"  -> E \cap {"exited", "launch_rejected", "unknown"} = {}
    [] k = "resource" -> {"result", "exited"} \subseteq E /\ "resource" \notin E

\* The host appends an event of a segment.  Nothing here says that it ever got
\* the grant: a host that did not never takes the first such step.
HostAppend(s, k) ==
  LET h == HostOf[s[1]] IN
  /\ seg[s].status # "none"
  /\ Len(spool[h]) < MaxSpool
  /\ HostOrder(Emitted(s), k)
  /\ spool' = [spool EXCEPT ![h] = Append(@, <<s, k>>)]
  /\ UNCHANGED <<taskVars, workVars, ownerVars, hostVars, events, faults>>

\* commitHostEvent for a connected host: the event becomes durable history and,
\* if it is actionable, an owner delivery.
Historical(s) == <<s[1], s[2]>> \in retried \/ seg[s].status = "not_started"
Actionable == OutcomeKind \cup {"unknown", "launch_rejected"}
CommitEvent(s, k) ==
  LET h == HostOf[s[1]] IN
  /\ spool[h] # <<>> /\ Head(spool[h]) = <<s, k>>
  /\ hostStatus[h] \in {"ready", "reconciling"} /\ session[h] # "none"
  /\ spool' = [spool EXCEPT ![h] = Tail(@)]
  /\ events' = [events EXCEPT ![s] = @ \cup {k}]
  /\ pending' = IF k \in Actionable /\ ~Historical(s) THEN pending \cup {<<s, k>>} ELSE pending
  /\ UNCHANGED <<rejected, hostVars, faults>>

\* Resource records, and every event but a rejection of a superseded or
\* never-started segment, only add history.
CommitHistory(s, k) ==
  /\ k = "resource" \/ (k # "launch_rejected" /\ Historical(s))
  /\ CommitEvent(s, k)
  /\ UNCHANGED <<taskVars, workVars, retried, autoRetries>>

Phase(r, k) == [r EXCEPT !.status = k]
PhaseFrom == [prepared |-> {"launch_requested", "prepared"},
              spawned  |-> {"prepared", "spawned"},
              running  |-> {"spawned", "running"}]
CommitPhase(s, k) ==
  /\ k \in {"prepared", "spawned", "running"} /\ ~Historical(s)
  /\ CommitEvent(s, k)
  /\ seg' = IF seg[s].status \in PhaseFrom[k] THEN [seg EXCEPT ![s] = Phase(@, k)] ELSE seg
  /\ UNCHANGED <<taskVars, attempt, question, retried, autoRetries>>

Asked(r) == [r EXCEPT !.outcome = "question"]
\* A question is refused (ErrConflict, the whole event rolled back) when the
\* segment already has an outcome.
CommitQuestion(s) ==
  /\ ~Historical(s)
  /\ seg[s].status = "exited" \/ seg[s].outcome = ""
  /\ CommitEvent(s, "question")
  /\ IF seg[s].status = "exited" THEN UNCHANGED <<seg, question>>
     ELSE /\ seg' = [seg EXCEPT ![s] = Asked(@)]
          /\ question' = [question EXCEPT ![s] = "open"]
  /\ UNCHANGED <<taskVars, attempt, retried, autoRetries>>

\* A result, failure or stop keeps an outcome that is already there.
LastOutcome(r, k) == IF r.status # "exited" THEN k ELSE r.outcome  \* mutant: it wins instead
KeptOutcome(r, k) == IF r.status # "exited" /\ r.outcome = "" THEN k ELSE r.outcome
Reported(r, k) ==
  [r EXCEPT !.outcome = KeptOutcome(r, k),
            !.stop = IF k = "stopped" /\ @ # "none" THEN "accepted" ELSE @]
CommitOutcome(s, k) ==
  /\ k \in {"result", "failed", "stopped"} /\ ~Historical(s)
  /\ CommitEvent(s, k)
  /\ seg' = [seg EXCEPT ![s] = Reported(@, k)]
  /\ UNCHANGED <<taskVars, attempt, question, retried, autoRetries>>

CommitUnknown(s) ==
  /\ ~Historical(s)
  /\ CommitEvent(s, "unknown")
  /\ IF seg[s].status = "exited" THEN UNCHANGED <<taskVars, attempt, seg>>
     ELSE /\ seg' = [seg EXCEPT ![s] = Phase(@, "unknown")]
          /\ attempt' = [attempt EXCEPT ![s[1]][s[2]] = "unknown"]
          /\ SetStatus(s[1], "unknown")
  /\ UNCHANGED <<question, retried, autoRetries>>

\* Mutants of ExitStatus: the outcome is stored as it is; a stop is never taken back.
ExitStatusRaw(t, outcome, match) == <<"interrupted", outcome>>
ExitStatusStuck(t, outcome, match) ==
  IF outcome = "stopped" THEN <<"interrupted", "stopping">> ELSE <<"failed", "failed">>

\* applyExit: what the exit makes of the attempt and of the task.
ExitStatus(t, outcome, match) ==
  CASE outcome = "result" ->
         IF Completion[t] = "fixture" \/ (Completion[t] = "artifact" /\ match)
           THEN <<"result_ready", "completed">> ELSE <<"result_ready", "result_ready">>
    [] outcome = "question" -> <<"interrupted", "waiting_question">>
    [] outcome = "failed"   -> <<"failed", "failed">>
    [] OTHER                -> <<"interrupted", "interrupted">>

\* No measured time consumes the whole grant; a longer one is cut to it.
UsedRaw(ms, granted) == IF ms <= 0 THEN granted ELSE ms  \* mutant: not cut
UsedMS(ms, granted) == IF ms <= 0 \/ ms > granted THEN granted ELSE ms
ResolveQuestions(t, a) ==
  question' = [s \in SegmentId |->
    IF s[1] = t /\ s[2] = a /\ question[s] = "resume_started" THEN "resolved" ELSE question[s]]

Exited(r, ms) ==
  [r EXCEPT !.status = "exited", !.budget = "settled", !.used = UsedMS(ms, r.granted),
            !.stop = IF @ = "none" THEN @ ELSE "completed"]
CommitExit(s, ms, match) ==
  LET t  == s[1]
      to == ExitStatus(t, seg[s].outcome, match)
      sg == [seg EXCEPT ![s] = Exited(@, ms)]
      ts == [status EXCEPT ![t] = to[2]]
  IN /\ ~Historical(s)
     /\ CommitEvent(s, "exited")
     /\ seg[s].status # "exited"
     /\ seg' = sg
     /\ attempt' = [attempt EXCEPT ![t][s[2]] = to[1]]
     /\ ResolveQuestions(t, s[2])
     /\ CASE to[2] = "completed" ->
               Reschedule(Promoted(ts), releaseReady(ts), binding)
          [] to[2] = "failed" /\ executionExhausted(sg, t) ->
               Reschedule(blockFailedDependencies(ts, AllFailed(ts)), {}, binding)
          [] OTHER -> SetStatus(t, to[2])
     /\ UNCHANGED <<retried, autoRetries>>

\* Mutant: a stop forgets that the segment may still be rejected.
RejectionUnstopped(s) ==
  /\ seg[s].status \in {"launch_requested", "prepared"} /\ seg[s].outcome = ""
  /\ events[s] \subseteq {"prepared"}

\* validateLaunchRejection: the host proved the segment was never started.
RejectionProved(s) ==
  /\ seg[s].budget = "reserved" /\ seg[s].used = 0
  /\ \/ seg[s].status \in {"launch_requested", "prepared"} /\ seg[s].outcome = ""
     \/ seg[s].status = "stopping" /\ seg[s].outcome = "stopped" /\ seg[s].stop = "pending"
  /\ events[s] \subseteq {"prepared"}
  /\ \A r \in ActiveSegments : r[1] = s[1] /\ r[2] = s[2] => r = s

\* A stop accepted before the rejection remains authoritative.
StopPending(r) == r.stop = "pending"  \* mutant: the rejection has already settled it
Stopped(r) == r.stop # "none"

\* queuePolicyRetry after the rejection settled to sg, for a retryable code.
AutoRetry(s, sg, code) ==
  /\ s[1] \in Policy /\ code
  /\ ~Stopped(sg[s])
  /\ LatestAttempt(s[1], s[2])
  /\ \A r \in SegmentId : r[1] = s[1] =>
       question[r] \notin {"open", "resume_queued"}
       /\ (question[r] = "resume_started" => r[2] = s[2])
  /\ autoRetries[s[1]] < Backoffs
  /\ executionCapacity(s[1], {})
  /\ executionGrant(sg, s[1], {}) > 0

NotStarted(r) ==
  [r EXCEPT !.status = "not_started", !.outcome = "launch_rejected", !.budget = "settled",
            !.used = 0, !.stop = IF @ = "pending" THEN "completed" ELSE @]
CommitRejection(s, code) ==
  LET t  == s[1]
      sg == [seg EXCEPT ![s] = NotStarted(@)]
      ts == [status EXCEPT ![t] = "failed"]
  IN /\ ~Historical(s) /\ RejectionProved(s)
     /\ CommitEvent(s, "launch_rejected")
     /\ seg' = sg
     /\ attempt' = [attempt EXCEPT ![t][s[2]] = "failed"]
     /\ ResolveQuestions(t, s[2])
     /\ IF AutoRetry(s, sg, code)
        THEN /\ retried' = retried \cup {<<t, s[2]>>}
             /\ autoRetries' = [autoRetries EXCEPT ![t] = @ + 1]
             /\ \E ms \in Grants(t) :
                  /\ ms = executionGrant(sg, t, {})
                  /\ Enqueue(t, "ready", [binding EXCEPT ![t] =
                       [pending |-> TRUE, ms |-> ms, due |-> FALSE, promise |-> s[2] + 1]])
        ELSE /\ Reschedule(blockFailedDependencies(ts, {t}), {}, binding)
             /\ UNCHANGED <<retried, autoRetries>>

CommitHostEvent(s) ==
  \/ \E k \in EventKind : CommitHistory(s, k) \/ CommitPhase(s, k) \/ CommitOutcome(s, k)
  \/ CommitQuestion(s)
  \/ CommitUnknown(s)
  \/ \E ms \in 0..(seg[s].granted + 1), match \in BOOLEAN : CommitExit(s, ms, match)
  \/ \E code \in BOOLEAN : CommitRejection(s, code)

-----------------------------------------------------------------------------
(* The owner's decisions. *)

\* requestStopTx on a task that has not been dispatched.
CancelTask(t) ==
  /\ status[t] \in {"queued", "ready", "resume_queued"}
  /\ Reschedule(blockFailedDependencies([status EXCEPT ![t] = "cancelled"], {t}), {},
                [binding EXCEPT ![t] = NoBinding])
  /\ UNCHANGED <<workVars, ownerVars, hostVars, spoolVars, faults>>

StopRequested(r) == [r EXCEPT !.status = "stopping", !.outcome = "stopped", !.stop = "pending"]
\* requestStopTx on a dispatched task: the stop decides the outcome at once,
\* even over a result that is already durable.  A repeated stop changes nothing.
StopTask(t) ==
  /\ status[t] \notin {"queued", "ready", "resume_queued"}
  /\ \E s \in ActiveSegments :
       /\ s[1] = t /\ LatestSegment(s)
       /\ seg[s].stop = "none"
       /\ seg' = [seg EXCEPT ![s] = StopRequested(@)]
  /\ SetStatus(t, "stopping")
  /\ UNCHANGED <<attempt, question, ownerVars, hostVars, spoolVars, faults>>

Lost(r) ==
  [r EXCEPT !.status = IF @ = "stopping" THEN "unknown" ELSE @,
            !.stop = IF @ \in {"pending", "accepted"} THEN "unknown" ELSE @]
\* Server.Shutdown gave up waiting for the stops it requested.
MarkStoppingUnknown ==
  LET lost == {s \in SegmentId : seg[s].status \in {"stopping", "unknown"}}
  IN /\ \E s \in SegmentId : seg[s].status = "stopping"
     /\ faults < MaxFaults
     /\ faults' = faults + 1
     /\ seg' = [s \in SegmentId |-> Lost(seg[s])]
     /\ attempt' = [t \in Task |-> [a \in Attempt |->
          IF \E s \in lost : s[1] = t /\ s[2] = a THEN "unknown" ELSE attempt[t][a]]]
     /\ Reschedule([t \in Task |-> IF \E s \in lost : s[1] = t THEN "unknown" ELSE status[t]],
                   {}, binding)
     /\ UNCHANGED <<question, ownerVars, hostVars, spoolVars>>

QueueResume(t) ==
  /\ status[t] = "interrupted" /\ ~HasActive(t)
  /\ \E a \in Attempt :
       /\ LatestAttempt(t, a)
       /\ \E n \in 1..MaxSegment : NextSegment(t, a, n)
       /\ t \in Policy => executionGrant(seg, t, {a}) > 0
  /\ Enqueue(t, "resume_queued", binding)
  /\ UNCHANGED <<workVars, ownerVars, hostVars, spoolVars, faults>>

AnswerQuestion(s) ==
  LET t == s[1] IN
  /\ question[s] = "open" /\ status[t] = "waiting_question"
  /\ ~HasActive(t) /\ LatestSegment(s)
  /\ \E n \in 1..MaxSegment : NextSegment(t, s[2], n)
  /\ question' = [question EXCEPT ![s] = "resume_queued"]
  /\ Enqueue(t, "resume_queued", binding)
  /\ UNCHANGED <<attempt, seg, ownerVars, hostVars, spoolVars, faults>>

Reviewable(s) ==
  status[s[1]] = "result_ready" /\ LatestSegment(s) /\ "result" \in events[s]

AcceptResult(s) ==
  LET ts == [status EXCEPT ![s[1]] = "completed"]
  IN /\ Reviewable(s) /\ Completion[s[1]] # "artifact"
     /\ Reschedule(Promoted(ts), releaseReady(ts), binding)
     /\ UNCHANGED <<workVars, ownerVars, hostVars, spoolVars, faults>>

RejectResult(s) ==
  LET t  == s[1]
      ts == [status EXCEPT ![t] = "failed"]
  IN /\ Reviewable(s)
     /\ rejected' = rejected \cup {s}
     /\ attempt' = [attempt EXCEPT ![t][s[2]] = "failed"]
     /\ IF executionExhausted(seg, t)
        THEN Reschedule(blockFailedDependencies(ts, AllFailed(ts)), {}, binding)
        ELSE SetStatus(t, "failed")
     /\ UNCHANGED <<seg, question, retried, autoRetries, pending, hostVars, spoolVars, faults>>

\* QueueRetry of the failure, or of the rejected result, that segment s reported.
QueueRetry(s, k) ==
  LET t == s[1] IN
  /\ status[t] = "failed" /\ ~HasActive(t)
  /\ k \in events[s]
  /\ k = "failed" \/ (k = "result" /\ s \in rejected)
  /\ LatestAttempt(t, s[2]) /\ attempt[t][s[2]] = "failed"
  /\ <<t, s[2]>> \notin retried
  /\ t \in Policy => <<s, k>> \in pending
  /\ executionCapacity(t, {})
  /\ s[2] < MaxAttempt
  /\ retried' = retried \cup {<<t, s[2]>>}
  /\ \E ms \in IF t \in Policy THEN Grants(t) ELSE {0} :
       /\ t \in Policy => ms = executionGrant(seg, t, {})
       /\ Enqueue(t, "ready", [binding EXCEPT ![t] =
            [pending |-> TRUE, ms |-> ms, due |-> TRUE, promise |-> s[2] + 1]])
  /\ UNCHANGED <<workVars, autoRetries, rejected, pending, hostVars, spoolVars, faults>>

\* Any decision ("handled", "waiting_user", "stale" or "rejected") on a pending event.
AckDecision(e) ==
  /\ e \in pending
  /\ pending' = pending \ {e}
  /\ UNCHANGED <<taskVars, workVars, retried, autoRetries, rejected, hostVars, spoolVars, faults>>

-----------------------------------------------------------------------------
HostNext ==
  \E h \in Host :
    \/ RegisterHost(h) \/ BeginHostReconcile(h) \/ HostReconciled(h)
    \/ FinishHostReconcile(h) \/ FinishStaleReconcile(h) \/ MarkHostOffline(h) \/ RetireHost(h)
    \/ \E t \in Task : ClaimReady(h, t)
SegmentNext ==
  \E s \in SegmentId : CommitHostEvent(s) \/ \E k \in EventKind : HostAppend(s, k)
OwnerNext ==
  \/ \E t \in Task : CancelTask(t) \/ StopTask(t) \/ QueueResume(t) \/ BackoffElapses(t)
  \/ \E s \in SegmentId : \/ AnswerQuestion(s) \/ AcceptResult(s) \/ RejectResult(s)
                          \/ \E k \in {"failed", "result"} : QueueRetry(s, k)
  \/ \E e \in pending : AckDecision(e)
Next == HostNext \/ SegmentNext \/ OwnerNext \/ BeginCoordinatorEpoch \/ MarkStoppingUnknown

Spec == Init /\ [][Next]_vars

\* The host has recorded that the grant reached it.
Received(s) == Emitted(s) # {}

\* A grant that was lost with its connection is sent again while its segment is
\* "launch_requested" (FinishHostReconcile), so the host will know it then.
HostGoesOn(s) ==
  /\ Received(s) \/ seg[s].status = "launch_requested"
  /\ \E k \in EventKind : HostAppend(s, k)

\* What keeps running without the owner: source hosts reconnect and replay,
\* their loops append and publish, the coordinator dispatches after every
\* commit, and a timer wakes due retries.
Fairness ==
  /\ \A h \in Host : /\ WF_vars(RegisterHost(h) /\ session[h] = "none")
                     /\ WF_vars(BeginHostReconcile(h)) /\ WF_vars(HostReconciled(h))
                     /\ WF_vars(FinishHostReconcile(h)) /\ WF_vars(FinishStaleReconcile(h))
                     /\ \A t \in Task : WF_vars(ClaimReady(h, t))
  /\ \A s \in SegmentId : /\ WF_vars(CommitHostEvent(s))
                          /\ WF_vars(HostGoesOn(s))
  /\ \A t \in Task : WF_vars(BackoffElapses(t))
FairSpec == Spec /\ Fairness

-----------------------------------------------------------------------------
(* Properties. *)

Dispatched == {"running", "stopping", "unknown"}

\* A task is dispatched exactly while one of its segments is active, and that
\* segment is the last one of its last attempt: no two segments of a task ever
\* execute together, whatever order claims, stops, events and restarts take.
OneActiveSegment ==
  /\ \A s \in ActiveSegments : LatestSegment(s) /\ status[s[1]] \in Dispatched
  /\ \A t \in Task : status[t] \in Dispatched => HasActive(t)

\* A task leaves the waiting states only when every dependency is completed,
\* and no later event of a dependency takes that back.
DependenciesDone ==
  \A t \in Task : status[t] \notin {"queued", "blocked_dependency", "cancelled"} =>
    \A d \in Deps[t] : status[d] = "completed"

\* The owner's stop decides: a stopped segment can only have been stopped or
\* never have started, even if its result was durable before the stop.
StopAuthoritative ==
  \A s \in SegmentId : seg[s].stop # "none" => seg[s].outcome \in {"stopped", "launch_rejected"}

\* Every reservation is open exactly while its segment is active, and settles
\* for no more than was granted.
ReservationsSettle ==
  \A s \in SegmentId :
    /\ seg[s].budget = "reserved" <=> seg[s].status \in ActiveStatus
    /\ seg[s].budget = "settled" <=> seg[s].status \in TerminalStatus
    /\ seg[s].used <= seg[s].granted

\* ClaimReady keeps the global cap and the provider and workspace caps, with
\* every unknown segment still holding its place; the active time charged to a
\* group, a policy task or an attempt, with what is promised to its pending
\* retries, and the attempts it has used stay within its budget.
CapsRespected ==
  /\ Cardinality(ActiveSegments) <= Slots
  /\ \A k \in DOMAIN KeyLimit : Occupancy(k) <= KeyLimit[k]
GroupWithinBudget(t) ==
  /\ GroupCharge(seg, t) + pendingActiveHolds(Siblings(t), {}) <= GroupMS[t]
  /\ GroupAttemptsOf(t) <= GroupAttempts[t]
TaskWithinBudget(t) ==
  /\ chargedTaskActiveMS(seg, t) + pendingActiveHolds({t}, {}) <= TaskMS[t]
  /\ AttemptsOf(t) <= TaskAttempts[t]
LimitsRespected ==
  /\ CapsRespected
  /\ \A t \in Task : GroupWithinBudget(t)
  /\ \A t \in Policy : TaskWithinBudget(t)
  /\ \A t \in Task, a \in Attempt : attemptChargedActiveMS(seg, t, a) <= AttemptMS[t]

\* A queued retry of a policy task can be dispatched when it comes due: nothing
\* admitted since has used the attempt or the time it was promised.
PromiseKept ==
  \A t \in Policy : binding[t].pending =>
    /\ status[t] = "ready" /\ nextTaskAttemptOrdinal(t, binding[t].promise)
    /\ ~AtAttemptLimit(t) /\ ~GrantConflict(t)

\* A released launch never comes back: it has no connection and no segment.
ReleasedIsFinal ==
  \A h \in released :
    /\ hostStatus[h] \in {"released", "offline"}
    /\ \A s \in ActiveSegments : HostOf[s[1]] # h

\* A stop is never undone: the exit of a stopped segment interrupts the task,
\* and a rejected launch that was stopped fails it and queues no retry.
StopNeverRestarts ==
  [][\A s \in SegmentId :
       seg[s].stop # "none" /\ seg[s].status \in ActiveStatus /\ seg[s].status' \in TerminalStatus
         => status'[s[1]] \in {"interrupted", "failed"} /\ retried' = retried]_vars

\* What is over stays as it is: a completed or cancelled task, a segment that
\* has ended, and an attempt superseded by a retry, with its segments, are not
\* changed by a replayed or late event, a resume, a claim or a second review.
HistoryFrozen ==
  [][/\ \A t \in Task : status[t] \in {"completed", "cancelled"} => status'[t] = status[t]
     /\ \A s \in SegmentId : seg[s].status \in TerminalStatus => seg'[s] = seg[s]
     /\ \A t \in Task, a \in Attempt : <<t, a>> \in retried =>
          /\ attempt'[t][a] = attempt[t][a]
          /\ \A n \in 1..MaxSegment : seg'[<<t, a, n>>] = seg[<<t, a, n>>]]_vars

\* A question the store will never accept stands in front of the spool.
QuestionWedged(h) ==
  \E s \in SegmentId : spool[h] # <<>> /\ Head(spool[h]) = <<s, "question">> /\ seg[s].outcome # ""

\* "existing Host connections must remain able to commit their final
\* stopped/exited events": an exit the host has recorded is committed.
ExitCommits == \A s \in SegmentId : "exited" \in Emitted(s) ~> "exited" \in events[s]

\* The stop of a segment whose grant the host received ends, by the segment's
\* exit, its rejection or its being unknown, unless a refused question wedges the
\* spool of its host.  A grant that was lost with its connection and then stopped
\* is never sent again: that segment stays "stopping".
StopResolvesUnlessWedged ==
  \A s \in SegmentId : (seg[s].status = "stopping" /\ Received(s)) ~>
    \/ seg[s].status # "stopping"
    \/ "unknown" \in events[s]
    \/ QuestionWedged(HostOf[s[1]])

RetrySettled(t) ==
  \/ ~binding[t].pending
  \/ \E s \in SegmentId : seg[s].status = "unknown"
  \/ \E s \in SegmentId : seg[s].status = "stopping" /\ ~Received(s)
  \/ \E h \in Host : QuestionWedged(h)
  \/ HostOf[t] \in released

\* A queued retry is dispatched or withdrawn, unless a segment that is unknown,
\* or was stopped before its host received it, keeps a slot, a wedged spool keeps
\* a host from publishing or the retry's own launch is released.
RetryServed == \A t \in Task : binding[t].pending ~> RetrySettled(t)
=============================================================================
