--------------------------- MODULE SchedulerProofs ---------------------------
(***************************************************************************)
(* Proofs about the scheduler, for every plan and every bound: its types   *)
(* and its safety invariants.  The latter go through two summaries of      *)
(* Next: SegmentMoves lists what a step may make of one segment, TaskMoves *)
(* what it may make of one task.                                           *)
(***************************************************************************)
EXTENDS Scheduler, FiniteSetTheorems, TLAPS

\* The cardinality of a set of tasks is a natural number.
LEMMA TaskCardinality ==
  ASSUME NEW S, S \subseteq Task PROVE Cardinality(S) \in Nat
BY PlanAssumption, FS_Subset, FS_CardinalityType

\* Retiring the promises of blocked tasks keeps the type of the bindings.
LEMMA RetireType ==
  ASSUME NEW ts, NEW bnd \in [Task -> Binding] PROVE Retire(ts, bnd) \in [Task -> Binding]
BY DEF Retire, NoBinding, Binding

\* The place of a task among those entering the queue is a natural number.
LEMMA PlaceType ==
  ASSUME NEW entering, entering \subseteq Task, NEW t PROVE Place(t, entering) \in Nat
BY TaskCardinality DEF Place

\* Entering the queue keeps the type of the ready sequence.
LEMMA QueueType ==
  ASSUME NEW rs \in [Task -> Nat], NEW next \in Nat, NEW entering, entering \subseteq Task
  PROVE  /\ [t \in Task |-> IF t \in entering THEN next + Place(t, entering) ELSE rs[t]]
               \in [Task -> Nat]
         /\ next + Cardinality(entering) \in Nat
<1>1. \A t : Place(t, entering) \in Nat BY PlaceType
<1>2. Cardinality(entering) \in Nat BY TaskCardinality
<1> QED BY <1>1, <1>2

\* Committing a task table keeps the type of the task variables.
LEMMA RescheduleType ==
  ASSUME TypeOK, NEW STATE ts, ts \in [Task -> TaskStatus],
         NEW STATE entering, entering \subseteq Task,
         NEW STATE bnd, bnd \in [Task -> Binding], Reschedule(ts, entering, bnd)
  PROVE  /\ status' \in [Task -> TaskStatus] /\ binding' \in [Task -> Binding]
         /\ readySeq' \in [Task -> Nat] /\ nextReady' \in Nat
<1>0. readySeq \in [Task -> Nat] /\ nextReady \in Nat BY DEF TypeOK
<1>1. status' \in [Task -> TaskStatus] BY DEF Reschedule
<1>2. binding' \in [Task -> Binding] BY RetireType DEF Reschedule
<1>3. readySeq' \in [Task -> Nat] BY <1>0, QueueType DEF Reschedule
<1>4. nextReady' \in Nat BY <1>0, QueueType DEF Reschedule
<1> QED BY <1>1, <1>2, <1>3, <1>4

\* Setting one task's status keeps the type of the task table.
LEMMA SetStatusType ==
  ASSUME TypeOK, NEW t \in Task, NEW STATE st, st \in TaskStatus, SetStatus(t, st)
  PROVE  /\ status' \in [Task -> TaskStatus] /\ binding' \in [Task -> Binding]
         /\ readySeq' \in [Task -> Nat] /\ nextReady' \in Nat
<1>1. [status EXCEPT ![t] = st] \in [Task -> TaskStatus] /\ binding \in [Task -> Binding]
  BY DEF TypeOK
<1>2. {} \subseteq Task OBVIOUS
<1>3. Reschedule([status EXCEPT ![t] = st], {}, binding) BY DEF SetStatus
<1> QED BY <1>1, <1>2, <1>3, RescheduleType

\* So does putting one task in the queue.
LEMMA EnqueueType ==
  ASSUME TypeOK, NEW t \in Task, NEW STATE st, st \in TaskStatus,
         NEW STATE bnd, bnd \in [Task -> Binding], Enqueue(t, st, bnd)
  PROVE  /\ status' \in [Task -> TaskStatus] /\ binding' \in [Task -> Binding]
         /\ readySeq' \in [Task -> Nat] /\ nextReady' \in Nat
<1>1. [status EXCEPT ![t] = st] \in [Task -> TaskStatus] BY DEF TypeOK
<1>2. {t} \subseteq Task OBVIOUS
<1>3. Reschedule([status EXCEPT ![t] = st], {t}, bnd) BY DEF Enqueue
<1> QED BY <1>1, <1>2, <1>3, RescheduleType

\* A submitted plan starts with every row of its type.
LEMMA InitType == Init => TypeOK
<1> SUFFICES ASSUME Init PROVE TypeOK OBVIOUS
<1>1. Cardinality(Task) \in Nat BY TaskCardinality
<1>2. NoBinding \in Binding BY DEF NoBinding, Binding
<1>3. NoSegment \in SegmentRecord 
  BY DEF NoSegment, SegmentRecord, ActiveStatus, TerminalStatus, OutcomeKind, StopStatus
<1>4. /\ status \in [Task -> TaskStatus] /\ readySeq \in [Task -> Nat] /\ nextReady \in Nat
  BY <1>1, PlanAssumption DEF Init, TaskStatus
<1>5. /\ attempt \in [Task -> [Attempt -> AttemptStatus]]
      /\ seg \in [SegmentId -> SegmentRecord] /\ binding \in [Task -> Binding]
  BY <1>2, <1>3 DEF Init, AttemptStatus
<1>6. /\ question \in [SegmentId -> {"none", "open", "resume_queued", "resume_started", "resolved"}]
      /\ autoRetries \in [Task -> Nat]
      /\ hostStatus \in [Host -> {"absent", "ready", "reconciling", "offline", "released"}]
      /\ session \in [Host -> {"none", "replaying", "finishing", "live"}]
      /\ events \in [SegmentId -> SUBSET EventKind] /\ faults \in Nat
  BY DEF Init
<1>7. spool \in [Host -> Seq(SegmentId \X EventKind)] BY DEF Init
<1> QED BY <1>4, <1>5, <1>6, <1>7 DEF Init, TypeOK

\* What each event makes of a segment record is a segment record.
LEMMA GrantedType == ASSUME NEW ms \in Nat PROVE Granted(ms) \in SegmentRecord
BY DEF Granted, NoSegment, SegmentRecord, ActiveStatus, TerminalStatus, OutcomeKind, StopStatus
\* A phase event (prepared, spawned, running) writes a well-formed segment row.
LEMMA PhaseRecord ==
  ASSUME NEW r \in SegmentRecord, NEW k \in ActiveStatus PROVE Phase(r, k) \in SegmentRecord
BY DEF Phase, SegmentRecord
\* A question writes a well-formed segment row.
LEMMA AskedRecord == ASSUME NEW r \in SegmentRecord PROVE Asked(r) \in SegmentRecord
BY DEF Asked, SegmentRecord, OutcomeKind
\* A reported outcome writes a well-formed segment row.
LEMMA ReportedRecord ==
  ASSUME NEW r \in SegmentRecord, NEW k \in OutcomeKind PROVE Reported(r, k) \in SegmentRecord
BY DEF Reported, KeptOutcome, SegmentRecord, StopStatus
\* An exit writes a well-formed row and settles a natural number of milliseconds.
LEMMA ExitedRecord ==
  ASSUME NEW r \in SegmentRecord, NEW ms \in Nat PROVE Exited(r, ms) \in SegmentRecord
BY DEF Exited, UsedMS, SegmentRecord, TerminalStatus, StopStatus
\* A launch rejection writes a well-formed segment row.
LEMMA NotStartedRecord == ASSUME NEW r \in SegmentRecord PROVE NotStarted(r) \in SegmentRecord
BY DEF NotStarted, SegmentRecord, TerminalStatus, StopStatus
\* A stop request writes a well-formed segment row.
LEMMA StopRequestedRecord == ASSUME NEW r \in SegmentRecord PROVE StopRequested(r) \in SegmentRecord
BY DEF StopRequested, SegmentRecord, ActiveStatus, OutcomeKind, StopStatus
\* A shutdown that gives up writes a well-formed segment row.
LEMMA LostRecord == ASSUME NEW r \in SegmentRecord PROVE Lost(r) \in SegmentRecord
BY DEF Lost, SegmentRecord, ActiveStatus, StopStatus

\* Replacing one segment record keeps the type of the segment table.
LEMMA SegmentType ==
  ASSUME TypeOK, NEW s \in SegmentId, NEW STATE r, r \in SegmentRecord
  PROVE  [seg EXCEPT ![s] = r] \in [SegmentId -> SegmentRecord]
BY DEF TypeOK

\* The helper that launches a segment keeps the segment table's type.
LEMMA LaunchType ==
  ASSUME TypeOK, NEW s \in SegmentId, NEW ms \in Nat, Launch(s, ms)
  PROVE  seg' \in [SegmentId -> SegmentRecord]
BY GrantedType DEF Launch, TypeOK

\* The actions on hosts keep the type invariant.
LEMMA HostType ==
  ASSUME TypeOK, NEW h \in Host,
         \/ RegisterHost(h) \/ BeginHostReconcile(h) \/ HostReconciled(h)
         \/ FinishHostReconcile(h) \/ FinishStaleReconcile(h) \/ MarkHostOffline(h) \/ RetireHost(h)
  PROVE  TypeOK'
<1> USE DEF taskVars, workVars, ownerVars, spoolVars
<1>1. CASE RegisterHost(h) BY <1>1 DEF TypeOK, RegisterHost
<1>2. CASE BeginHostReconcile(h) BY <1>2 DEF TypeOK, BeginHostReconcile
<1>3. CASE HostReconciled(h) BY <1>3 DEF TypeOK, HostReconciled
<1>4. CASE FinishHostReconcile(h) BY <1>4 DEF TypeOK, FinishHostReconcile
<1>5. CASE FinishStaleReconcile(h) BY <1>5 DEF TypeOK, FinishStaleReconcile
<1>6. CASE MarkHostOffline(h) BY <1>6 DEF TypeOK, MarkHostOffline
<1>7. CASE RetireHost(h) BY <1>7 DEF TypeOK, RetireHost
<1> QED BY <1>1, <1>2, <1>3, <1>4, <1>5, <1>6, <1>7

\* A claim keeps the type invariant.
LEMMA ClaimType ==
  ASSUME TypeOK, NEW h \in Host, NEW t \in Task, ClaimReady(h, t) PROVE TypeOK'
<1>1. PICK a \in Attempt : ClaimAttempt(h, t, a) \/ ClaimResume(h, t, a) BY DEF ClaimReady
<1>2. /\ retried' = retried /\ autoRetries' = autoRetries /\ rejected' = rejected
      /\ pending' = pending /\ hostStatus' = hostStatus /\ released' = released
      /\ joining' = joining /\ session' = session /\ stale' = stale
      /\ spool' = spool /\ events' = events /\ faults' = faults
  BY DEF ClaimReady, ownerVars, hostVars, spoolVars
<1>3. Grants(t) \subseteq Nat BY BudgetAssumption DEF Grants
<1>4. attempt' \in [Task -> [Attempt -> AttemptStatus]]
  <2>1. attempt' = [attempt EXCEPT ![t][a] = "running"] BY <1>1 DEF ClaimAttempt, ClaimResume
  <2> QED BY <2>1 DEF TypeOK, AttemptStatus
<1>5. /\ status' \in [Task -> TaskStatus] /\ binding' \in [Task -> Binding]
      /\ readySeq' \in [Task -> Nat] /\ nextReady' \in Nat
  <2>1. [status EXCEPT ![t] = "running"] \in [Task -> TaskStatus] BY DEF TypeOK, TaskStatus
  <2>2. [binding EXCEPT ![t] = NoBinding] \in [Task -> Binding] BY DEF TypeOK, NoBinding, Binding
  <2>3. CASE ClaimAttempt(h, t, a)
    <3>1. Reschedule([status EXCEPT ![t] = "running"], {}, [binding EXCEPT ![t] = NoBinding])
      BY <2>3 DEF ClaimAttempt
    <3> QED BY <2>1, <2>2, <3>1, RescheduleType
  <2>4. CASE ClaimResume(h, t, a) BY <2>4, SetStatusType DEF ClaimResume, TaskStatus
  <2> QED BY <1>1, <2>3, <2>4
<1>6. seg' \in [SegmentId -> SegmentRecord]
  <2>1. CASE ClaimAttempt(h, t, a)
    <3>1. PICK ms \in Grants(t) : Launch(<<t, a, 1>>, ms) BY <2>1 DEF ClaimAttempt
    <3>2. <<t, a, 1>> \in SegmentId BY BoundsAssumption DEF SegmentId
    <3> QED BY <3>1, <3>2, <1>3, LaunchType
  <2>2. CASE ClaimResume(h, t, a)
    <3>1. PICK n \in 1..MaxSegment, ms \in Grants(t) : Launch(<<t, a, n>>, ms)
      BY <2>2 DEF ClaimResume
    <3>2. <<t, a, n>> \in SegmentId BY DEF SegmentId
    <3> QED BY <3>1, <3>2, <1>3, LaunchType
  <2> QED BY <1>1, <2>1, <2>2
<1>7. question' \in [SegmentId -> {"none", "open", "resume_queued", "resume_started", "resolved"}]
  BY <1>1 DEF ClaimAttempt, ClaimResume, TypeOK
<1> QED BY <1>2, <1>4, <1>5, <1>6, <1>7 DEF TypeOK

QuestionStatus == {"none", "open", "resume_queued", "resume_started", "resolved"}

\* Every segment belongs to a task, one of its attempts and that task's host.
LEMMA SegmentParts ==
  ASSUME NEW s \in SegmentId
  PROVE  s[1] \in Task /\ s[2] \in Attempt /\ s[3] \in 1..MaxSegment /\ HostOf[s[1]] \in Host
BY PlanAssumption DEF SegmentId

\* Changing the status of one attempt keeps the type of the attempts.
LEMMA AttemptType ==
  ASSUME TypeOK, NEW t \in Task, NEW a \in Attempt, NEW STATE st, st \in AttemptStatus
  PROVE  [attempt EXCEPT ![t][a] = st] \in [Task -> [Attempt -> AttemptStatus]]
BY DEF TypeOK

\* Committing an event keeps the types of the spool, the events and the deliveries.
LEMMA CommitEventType ==
  ASSUME TypeOK, NEW s \in SegmentId, NEW k \in EventKind, CommitEvent(s, k)
  PROVE  /\ rejected' \subseteq SegmentId
         /\ pending' \subseteq SegmentId \X EventKind
         /\ hostStatus' \in [Host -> {"absent", "ready", "reconciling", "offline", "released"}]
         /\ released' \subseteq Host /\ joining' \subseteq Host /\ stale' \subseteq Host
         /\ session' \in [Host -> {"none", "replaying", "finishing", "live"}]
         /\ spool' \in [Host -> Seq(SegmentId \X EventKind)]
         /\ events' \in [SegmentId -> SUBSET EventKind]
         /\ faults' \in Nat
<1>1. HostOf[s[1]] \in Host BY SegmentParts
<1>2. spool' \in [Host -> Seq(SegmentId \X EventKind)]
  <2>1. /\ spool[HostOf[s[1]]] # <<>>
        /\ spool' = [spool EXCEPT ![HostOf[s[1]]] = Tail(spool[HostOf[s[1]]])]
    BY DEF CommitEvent
  <2>2. spool \in [Host -> Seq(SegmentId \X EventKind)] BY DEF TypeOK
  <2>3. Tail(spool[HostOf[s[1]]]) \in Seq(SegmentId \X EventKind) BY <1>1, <2>1, <2>2
  <2> QED BY <1>1, <2>1, <2>2, <2>3
<1>3. events' \in [SegmentId -> SUBSET EventKind] BY DEF CommitEvent, TypeOK
<1>4. pending' \subseteq SegmentId \X EventKind BY DEF CommitEvent, TypeOK
<1> QED BY <1>2, <1>3, <1>4 DEF CommitEvent, TypeOK, hostVars

\* An event that is only history keeps every type.
LEMMA HistoryType ==
  ASSUME TypeOK, NEW s \in SegmentId, NEW k \in EventKind, CommitHistory(s, k) PROVE TypeOK'
<1>1. CommitEvent(s, k) BY DEF CommitHistory
<1> QED BY <1>1, CommitEventType DEF CommitHistory, TypeOK, taskVars, workVars

\* Committing a phase event keeps every type.
LEMMA PhaseType ==
  ASSUME TypeOK, NEW s \in SegmentId, NEW k \in EventKind, CommitPhase(s, k) PROVE TypeOK'
<1>1. CommitEvent(s, k) BY DEF CommitPhase
<1>2. seg' \in [SegmentId -> SegmentRecord]
  <2>1. k \in ActiveStatus BY DEF CommitPhase, ActiveStatus
  <2>2. seg[s] \in SegmentRecord BY DEF TypeOK
  <2>3. seg' = [seg EXCEPT ![s] = Phase(seg[s], k)] \/ seg' = seg BY DEF CommitPhase
  <2>4. Phase(seg[s], k) \in SegmentRecord BY <2>1, <2>2, PhaseRecord
  <2> QED BY <2>3, <2>4, SegmentType DEF TypeOK
<1> QED BY <1>1, <1>2, CommitEventType DEF CommitPhase, TypeOK, taskVars

\* Committing a result, a failure or a stop keeps every type.
LEMMA OutcomeType ==
  ASSUME TypeOK, NEW s \in SegmentId, NEW k \in EventKind, CommitOutcome(s, k) PROVE TypeOK'
<1>1. CommitEvent(s, k) BY DEF CommitOutcome
<1>2. seg' \in [SegmentId -> SegmentRecord]
  <2>1. k \in OutcomeKind BY DEF CommitOutcome, OutcomeKind
  <2>2. seg[s] \in SegmentRecord BY DEF TypeOK
  <2>3. seg' = [seg EXCEPT ![s] = Reported(seg[s], k)] BY DEF CommitOutcome
  <2>4. Reported(seg[s], k) \in SegmentRecord BY <2>1, <2>2, ReportedRecord
  <2> QED BY <2>3, <2>4, SegmentType
<1> QED BY <1>1, <1>2, CommitEventType DEF CommitOutcome, TypeOK, taskVars

\* Committing a question keeps every type.
LEMMA QuestionType ==
  ASSUME TypeOK, NEW s \in SegmentId, CommitQuestion(s) PROVE TypeOK'
<1>1. CommitEvent(s, "question") /\ "question" \in EventKind
  BY DEF CommitQuestion, EventKind, OutcomeKind
<1>2. seg' \in [SegmentId -> SegmentRecord]
  <2>1. seg[s] \in SegmentRecord BY DEF TypeOK
  <2>2. seg' = [seg EXCEPT ![s] = Asked(seg[s])] \/ seg' = seg BY DEF CommitQuestion
  <2>3. Asked(seg[s]) \in SegmentRecord BY <2>1, AskedRecord
  <2> QED BY <2>2, <2>3, SegmentType DEF TypeOK
<1>3. question' \in [SegmentId -> QuestionStatus]
  BY DEF CommitQuestion, TypeOK, QuestionStatus
<1> QED BY <1>1, <1>2, <1>3, CommitEventType DEF CommitQuestion, TypeOK, taskVars, QuestionStatus

\* Committing an unknown keeps every type.
LEMMA UnknownType ==
  ASSUME TypeOK, NEW s \in SegmentId, CommitUnknown(s) PROVE TypeOK'
<1>1. CommitEvent(s, "unknown") /\ "unknown" \in EventKind BY DEF CommitUnknown, EventKind
<1>2. seg' \in [SegmentId -> SegmentRecord]
  <2>1. seg[s] \in SegmentRecord /\ "unknown" \in ActiveStatus BY DEF TypeOK, ActiveStatus
  <2>2. seg' = [seg EXCEPT ![s] = Phase(seg[s], "unknown")] \/ seg' = seg
    BY DEF CommitUnknown, taskVars
  <2>3. Phase(seg[s], "unknown") \in SegmentRecord BY <2>1, PhaseRecord
  <2> QED BY <2>2, <2>3, SegmentType DEF TypeOK
<1>3. attempt' \in [Task -> [Attempt -> AttemptStatus]]
  <2>1. "unknown" \in AttemptStatus BY DEF AttemptStatus
  <2>2. attempt' = attempt \/ attempt' = [attempt EXCEPT ![s[1]][s[2]] = "unknown"]
    BY DEF CommitUnknown
  <2>3. [attempt EXCEPT ![s[1]][s[2]] = "unknown"] \in [Task -> [Attempt -> AttemptStatus]]
    BY <2>1, SegmentParts, AttemptType
  <2> QED BY <2>2, <2>3 DEF TypeOK
<1>4. /\ status' \in [Task -> TaskStatus] /\ binding' \in [Task -> Binding]
      /\ readySeq' \in [Task -> Nat] /\ nextReady' \in Nat
  <2>1. CASE seg[s].status = "exited" BY <2>1 DEF CommitUnknown, TypeOK, taskVars
  <2>2. CASE seg[s].status # "exited"
    <3>1. SetStatus(s[1], "unknown") BY <2>2 DEF CommitUnknown
    <3>2. "unknown" \in TaskStatus BY DEF TaskStatus
    <3> QED BY <3>1, <3>2, SegmentParts, SetStatusType
  <2> QED BY <2>1, <2>2
<1> QED BY <1>1, <1>2, <1>3, <1>4, CommitEventType DEF CommitUnknown, TypeOK

\* Blocking dependents keeps the type of a task table.
LEMMA BlockType ==
  ASSUME NEW ts \in [Task -> TaskStatus], NEW terminal
  PROVE  blockFailedDependencies(ts, terminal) \in [Task -> TaskStatus]
BY DEF blockFailedDependencies, TaskStatus

\* So does releasing the tasks whose dependencies are done.
LEMMA ReleaseType ==
  ASSUME NEW ts \in [Task -> TaskStatus]
  PROVE  /\ releaseReady(ts) \subseteq Task
         /\ Promoted(ts) \in [Task -> TaskStatus]
BY DEF releaseReady, Promoted, TaskStatus

\* The statuses an exit leads to.
LEMMA ExitStatusType ==
  ASSUME NEW t, NEW outcome, NEW match
  PROVE  /\ ExitStatus(t, outcome, match)[1] \in AttemptStatus
         /\ ExitStatus(t, outcome, match)[2] \in TaskStatus
BY DEF ExitStatus, AttemptStatus, TaskStatus

\* Resolving the questions of an attempt keeps their type.
LEMMA ResolveType ==
  ASSUME TypeOK, NEW t, NEW a, ResolveQuestions(t, a)
  PROVE  question' \in [SegmentId -> QuestionStatus]
BY DEF TypeOK, ResolveQuestions, QuestionStatus

\* applyExit keeps every type, whether it releases, blocks or does neither.
LEMMA ExitType ==
  ASSUME TypeOK, NEW s \in SegmentId, NEW ms \in Nat, NEW match \in BOOLEAN,
         CommitExit(s, ms, match)
  PROVE  TypeOK'
<1> DEFINE to == ExitStatus(s[1], seg[s].outcome, match)
           ts == [status EXCEPT ![s[1]] = to[2]]
           sg == [seg EXCEPT ![s] = Exited(seg[s], ms)]
<1>1. CommitEvent(s, "exited") /\ "exited" \in EventKind BY DEF CommitExit, EventKind
<1>2. seg' \in [SegmentId -> SegmentRecord]
  <2>1. seg[s] \in SegmentRecord BY DEF TypeOK
  <2>2. seg' = sg BY DEF CommitExit
  <2>3. Exited(seg[s], ms) \in SegmentRecord BY <2>1, ExitedRecord
  <2> QED BY <2>2, <2>3, SegmentType
<1>3. to[1] \in AttemptStatus /\ to[2] \in TaskStatus BY ExitStatusType
<1>4. attempt' \in [Task -> [Attempt -> AttemptStatus]]
  <2>1. attempt' = [attempt EXCEPT ![s[1]][s[2]] = to[1]] BY DEF CommitExit
  <2> QED BY <1>3, <2>1, SegmentParts, AttemptType
<1>5. question' \in [SegmentId -> QuestionStatus]
  <2>1. ResolveQuestions(s[1], s[2]) BY DEF CommitExit
  <2> QED BY <2>1, ResolveType
<1>6. /\ status' \in [Task -> TaskStatus] /\ binding' \in [Task -> Binding]
      /\ readySeq' \in [Task -> Nat] /\ nextReady' \in Nat
  <2>1. ts \in [Task -> TaskStatus] /\ binding \in [Task -> Binding]
    BY <1>3, SegmentParts DEF TypeOK
  <2>2. \/ Reschedule(Promoted(ts), releaseReady(ts), binding)
        \/ Reschedule(blockFailedDependencies(ts, AllFailed(ts)), {}, binding)
        \/ SetStatus(s[1], to[2])
    BY DEF CommitExit
  <2>3. CASE Reschedule(Promoted(ts), releaseReady(ts), binding)
    BY <2>1, <2>3, ReleaseType, RescheduleType
  <2>4. CASE Reschedule(blockFailedDependencies(ts, AllFailed(ts)), {}, binding)
    BY <2>1, <2>4, BlockType, RescheduleType
  <2>5. CASE SetStatus(s[1], to[2]) BY <1>3, <2>5, SegmentParts, SetStatusType
  <2> QED BY <2>2, <2>3, <2>4, <2>5
<1> QED BY <1>1, <1>2, <1>4, <1>5, <1>6, CommitEventType DEF CommitExit, TypeOK, QuestionStatus

\* A promise is a binding.
LEMMA PromiseType ==
  ASSUME TypeOK, NEW t \in Task, NEW ms \in Nat, NEW due \in BOOLEAN, NEW n \in Nat
  PROVE  [binding EXCEPT ![t] = [pending |-> TRUE, ms |-> ms, due |-> due, promise |-> n]]
           \in [Task -> Binding]
BY DEF TypeOK, Binding

\* applyLaunchRejection keeps every type, with or without an automatic retry.
LEMMA RejectionType ==
  ASSUME TypeOK, NEW s \in SegmentId, NEW code \in BOOLEAN, CommitRejection(s, code)
  PROVE  TypeOK'
<1> DEFINE ts == [status EXCEPT ![s[1]] = "failed"]
           sg == [seg EXCEPT ![s] = NotStarted(seg[s])]
<1>1. CommitEvent(s, "launch_rejected") /\ "launch_rejected" \in EventKind
  BY DEF CommitRejection, EventKind
<1>2. seg' \in [SegmentId -> SegmentRecord]
  <2>1. seg[s] \in SegmentRecord BY DEF TypeOK
  <2>2. seg' = sg BY DEF CommitRejection
  <2>3. NotStarted(seg[s]) \in SegmentRecord BY <2>1, NotStartedRecord
  <2> QED BY <2>2, <2>3, SegmentType
<1>3. attempt' \in [Task -> [Attempt -> AttemptStatus]]
  <2>1. attempt' = [attempt EXCEPT ![s[1]][s[2]] = "failed"] BY DEF CommitRejection
  <2>2. "failed" \in AttemptStatus BY DEF AttemptStatus
  <2> QED BY <2>1, <2>2, SegmentParts, AttemptType
<1>4. question' \in [SegmentId -> QuestionStatus]
  <2>1. ResolveQuestions(s[1], s[2]) BY DEF CommitRejection
  <2> QED BY <2>1, ResolveType
<1>5. /\ status' \in [Task -> TaskStatus] /\ binding' \in [Task -> Binding]
      /\ readySeq' \in [Task -> Nat] /\ nextReady' \in Nat
  <2>1. CASE AutoRetry(s, sg, code)
    <3>1. PICK ms \in Grants(s[1]) : Enqueue(s[1], "ready", [binding EXCEPT ![s[1]] =
            [pending |-> TRUE, ms |-> ms, due |-> FALSE, promise |-> s[2] + 1]])
      BY <2>1 DEF CommitRejection
    <3>2. ms \in Nat /\ s[2] + 1 \in Nat BY SegmentParts, BudgetAssumption DEF Grants, Attempt
    <3>3. "ready" \in TaskStatus BY DEF TaskStatus
    <3>4. [binding EXCEPT ![s[1]] = [pending |-> TRUE, ms |-> ms, due |-> FALSE, promise |-> s[2] + 1]]
            \in [Task -> Binding]
      BY <3>2, SegmentParts, PromiseType
    <3> QED BY <3>1, <3>3, <3>4, SegmentParts, EnqueueType
  <2>2. CASE ~AutoRetry(s, sg, code)
    <3>1. Reschedule(blockFailedDependencies(ts, {s[1]}), {}, binding) BY <2>2 DEF CommitRejection
    <3>2. ts \in [Task -> TaskStatus] /\ binding \in [Task -> Binding]
      BY SegmentParts DEF TypeOK, TaskStatus
    <3> QED BY <3>1, <3>2, BlockType, RescheduleType
  <2> QED BY <2>1, <2>2
<1>6. retried' \subseteq Task \X Attempt /\ autoRetries' \in [Task -> Nat]
  <2>1. \/ retried' = retried /\ autoRetries' = autoRetries
        \/ /\ retried' = retried \cup {<<s[1], s[2]>>}
           /\ autoRetries' = [autoRetries EXCEPT ![s[1]] = @ + 1]
    BY DEF CommitRejection
  <2>2. s[1] \in Task /\ <<s[1], s[2]>> \in Task \X Attempt BY SegmentParts
  <2>3. retried' \subseteq Task \X Attempt BY <2>1, <2>2 DEF TypeOK
  <2>4. autoRetries' \in [Task -> Nat] BY <2>1, <2>2 DEF TypeOK
  <2> QED BY <2>3, <2>4
<1> QED BY <1>1, <1>2, <1>3, <1>4, <1>5, <1>6, CommitEventType DEF TypeOK, QuestionStatus

\* Whatever event the coordinator commits, every type is kept.
LEMMA HostEventType ==
  ASSUME TypeOK, NEW s \in SegmentId, CommitHostEvent(s) PROVE TypeOK'
<1>1. \A ms \in 0..(seg[s].granted + 1) : ms \in Nat
  <2>1. seg[s] \in SegmentRecord BY DEF TypeOK
  <2>2. seg[s].granted \in Nat BY <2>1 DEF SegmentRecord
  <2> QED BY <2>2
<1>2. CASE \E k \in EventKind : CommitHistory(s, k) \/ CommitPhase(s, k) \/ CommitOutcome(s, k)
  BY <1>2, HistoryType, PhaseType, OutcomeType
<1>3. CASE CommitQuestion(s) BY <1>3, QuestionType
<1>4. CASE CommitUnknown(s) BY <1>4, UnknownType
<1>5. CASE \E ms \in 0..(seg[s].granted + 1), match \in BOOLEAN : CommitExit(s, ms, match)
  BY <1>1, <1>5, ExitType
<1>6. CASE \E code \in BOOLEAN : CommitRejection(s, code) BY <1>6, RejectionType
<1> QED BY <1>2, <1>3, <1>4, <1>5, <1>6 DEF CommitHostEvent

\* An event the host appends keeps every type.
LEMMA HostAppendType ==
  ASSUME TypeOK, NEW s \in SegmentId, NEW k \in EventKind, HostAppend(s, k) PROVE TypeOK'
<1>1. HostOf[s[1]] \in Host BY SegmentParts
<1>2. spool' \in [Host -> Seq(SegmentId \X EventKind)]
  <2>1. spool' = [spool EXCEPT ![HostOf[s[1]]] = Append(spool[HostOf[s[1]]], <<s, k>>)]
    BY DEF HostAppend
  <2>2. spool \in [Host -> Seq(SegmentId \X EventKind)] BY DEF TypeOK
  <2>3. Append(spool[HostOf[s[1]]], <<s, k>>) \in Seq(SegmentId \X EventKind) BY <1>1, <2>2
  <2> QED BY <1>1, <2>1, <2>2, <2>3
<1> QED BY <1>2 DEF HostAppend, TypeOK, taskVars, workVars, ownerVars, hostVars

\* What an owner decision leaves alone when it only changes the task table.
LEMMA TaskTableType ==
  ASSUME TypeOK, NEW STATE ts, ts \in [Task -> TaskStatus],
         NEW STATE entering, entering \subseteq Task,
         NEW STATE bnd, bnd \in [Task -> Binding], Reschedule(ts, entering, bnd),
         UNCHANGED <<workVars, ownerVars, hostVars, spoolVars, faults>>
  PROVE  TypeOK'
BY RescheduleType DEF TypeOK, workVars, ownerVars, hostVars, spoolVars

\* Cancelling a task that waits keeps every type.
LEMMA CancelType == ASSUME TypeOK, NEW t \in Task, CancelTask(t) PROVE TypeOK'
<1>1. blockFailedDependencies([status EXCEPT ![t] = "cancelled"], {t}) \in [Task -> TaskStatus]
  <2>1. [status EXCEPT ![t] = "cancelled"] \in [Task -> TaskStatus] BY DEF TypeOK, TaskStatus
  <2> QED BY <2>1, BlockType
<1>2. [binding EXCEPT ![t] = NoBinding] \in [Task -> Binding] BY DEF TypeOK, NoBinding, Binding
<1> QED BY <1>1, <1>2, TaskTableType DEF CancelTask

\* Stopping a dispatched task keeps every type.
LEMMA StopType == ASSUME TypeOK, NEW t \in Task, StopTask(t) PROVE TypeOK'
<1>1. PICK s \in SegmentId : seg' = [seg EXCEPT ![s] = StopRequested(seg[s])]
  BY DEF StopTask, ActiveSegments
<1>2. seg' \in [SegmentId -> SegmentRecord]
  <2>1. seg[s] \in SegmentRecord BY DEF TypeOK
  <2>2. StopRequested(seg[s]) \in SegmentRecord BY <2>1, StopRequestedRecord
  <2> QED BY <1>1, <2>2, SegmentType
<1>3. SetStatus(t, "stopping") /\ "stopping" \in TaskStatus BY DEF StopTask, TaskStatus
<1> QED BY <1>2, <1>3, SetStatusType DEF StopTask, TypeOK, ownerVars, hostVars, spoolVars

\* QueueResume keeps every type.
LEMMA QueueResumeType == ASSUME TypeOK, NEW t \in Task, QueueResume(t) PROVE TypeOK'
<1>1. Enqueue(t, "resume_queued", binding) BY DEF QueueResume
<1>2. "resume_queued" \in TaskStatus /\ binding \in [Task -> Binding] BY DEF TaskStatus, TypeOK
<1> QED BY <1>1, <1>2, EnqueueType
        DEF QueueResume, TypeOK, workVars, ownerVars, hostVars, spoolVars

\* AnswerQuestion keeps every type.
LEMMA AnswerType == ASSUME TypeOK, NEW s \in SegmentId, AnswerQuestion(s) PROVE TypeOK'
<1>1. Enqueue(s[1], "resume_queued", binding) BY DEF AnswerQuestion
<1>2. "resume_queued" \in TaskStatus /\ binding \in [Task -> Binding] BY DEF TaskStatus, TypeOK
<1>3. question' \in [SegmentId -> QuestionStatus] BY DEF AnswerQuestion, TypeOK, QuestionStatus
<1> QED BY <1>1, <1>2, <1>3, SegmentParts, EnqueueType
        DEF AnswerQuestion, TypeOK, ownerVars, hostVars, spoolVars, QuestionStatus

\* Accepting a result keeps every type.
LEMMA AcceptType == ASSUME TypeOK, NEW s \in SegmentId, AcceptResult(s) PROVE TypeOK'
<1> DEFINE ts == [status EXCEPT ![s[1]] = "completed"]
<1>1. ts \in [Task -> TaskStatus] BY SegmentParts DEF TypeOK, TaskStatus
<1>2. Reschedule(Promoted(ts), releaseReady(ts), binding)
  BY DEF AcceptResult
<1>3. binding \in [Task -> Binding] BY DEF TypeOK
<1> QED BY <1>1, <1>2, <1>3, ReleaseType, TaskTableType DEF AcceptResult

\* Rejecting a result keeps every type.
LEMMA RejectType == ASSUME TypeOK, NEW s \in SegmentId, RejectResult(s) PROVE TypeOK'
<1> DEFINE ts == [status EXCEPT ![s[1]] = "failed"]
<1>1. attempt' \in [Task -> [Attempt -> AttemptStatus]]
  <2>1. attempt' = [attempt EXCEPT ![s[1]][s[2]] = "failed"] BY DEF RejectResult
  <2>2. "failed" \in AttemptStatus BY DEF AttemptStatus
  <2> QED BY <2>1, <2>2, SegmentParts, AttemptType
<1>2. /\ status' \in [Task -> TaskStatus] /\ binding' \in [Task -> Binding]
      /\ readySeq' \in [Task -> Nat] /\ nextReady' \in Nat
  <2>1. /\ ts \in [Task -> TaskStatus] /\ binding \in [Task -> Binding]
        /\ "failed" \in TaskStatus
    BY SegmentParts DEF TypeOK, TaskStatus
  <2>2. CASE Reschedule(blockFailedDependencies(ts, AllFailed(ts)), {}, binding)
    BY <2>1, <2>2, BlockType, RescheduleType
  <2>3. CASE SetStatus(s[1], "failed") BY <2>1, <2>3, SegmentParts, SetStatusType
  <2> QED BY <2>2, <2>3 DEF RejectResult
<1>3. rejected' \subseteq SegmentId BY DEF RejectResult, TypeOK
<1> QED BY <1>1, <1>2, <1>3 DEF RejectResult, TypeOK, hostVars, spoolVars

\* queueRetry keeps every type, the promise it makes included.
LEMMA QueueRetryType ==
  ASSUME TypeOK, NEW s \in SegmentId, NEW k, QueueRetry(s, k) PROVE TypeOK'
<1>1. PICK ms \in IF s[1] \in Policy THEN Grants(s[1]) ELSE {0} :
        Enqueue(s[1], "ready", [binding EXCEPT ![s[1]] =
            [pending |-> TRUE, ms |-> ms, due |-> TRUE, promise |-> s[2] + 1]])
  BY DEF QueueRetry
<1>2. ms \in Nat /\ s[2] + 1 \in Nat BY SegmentParts, BudgetAssumption DEF Grants, Attempt
<1>3. [binding EXCEPT ![s[1]] = [pending |-> TRUE, ms |-> ms, due |-> TRUE, promise |-> s[2] + 1]]
        \in [Task -> Binding]
  BY <1>2, SegmentParts, PromiseType
<1>4. "ready" \in TaskStatus BY DEF TaskStatus
<1>5. retried' \subseteq Task \X Attempt
  <2>1. retried' = retried \cup {<<s[1], s[2]>>} BY DEF QueueRetry
  <2> QED BY <2>1, SegmentParts DEF TypeOK
<1>6. /\ status' \in [Task -> TaskStatus] /\ binding' \in [Task -> Binding]
      /\ readySeq' \in [Task -> Nat] /\ nextReady' \in Nat
  BY <1>1, <1>3, <1>4, SegmentParts, EnqueueType
<1> QED BY <1>5, <1>6 DEF QueueRetry, TypeOK, workVars, hostVars, spoolVars

\* MarkStoppingUnknown keeps every type.
LEMMA LostType == ASSUME TypeOK, MarkStoppingUnknown PROVE TypeOK'
<1>1. seg' \in [SegmentId -> SegmentRecord]
  <2>1. seg' = [s \in SegmentId |-> Lost(seg[s])] BY DEF MarkStoppingUnknown
  <2>2. \A s \in SegmentId : Lost(seg[s]) \in SegmentRecord BY LostRecord DEF TypeOK
  <2> QED BY <2>1, <2>2
<1>2. attempt' \in [Task -> [Attempt -> AttemptStatus]]
  BY DEF MarkStoppingUnknown, TypeOK, AttemptStatus
<1>3. /\ status' \in [Task -> TaskStatus] /\ binding' \in [Task -> Binding]
      /\ readySeq' \in [Task -> Nat] /\ nextReady' \in Nat
  <2> DEFINE lost == {s \in SegmentId : seg[s].status \in {"stopping", "unknown"}}
             ts == [t \in Task |-> IF \E s \in lost : s[1] = t THEN "unknown" ELSE status[t]]
  <2>1. ts \in [Task -> TaskStatus] /\ binding \in [Task -> Binding] BY DEF TypeOK, TaskStatus
  <2>2. Reschedule(ts, {}, binding) BY DEF MarkStoppingUnknown
  <2> QED BY <2>1, <2>2, RescheduleType
<1> QED BY <1>1, <1>2, <1>3 DEF MarkStoppingUnknown, TypeOK, ownerVars, hostVars, spoolVars

\* Every transaction and every host step keeps every type.
LEMMA TypeStep == ASSUME TypeOK, [Next]_vars PROVE TypeOK'
<1>1. CASE HostNext BY <1>1, HostType, ClaimType DEF HostNext
<1>2. CASE SegmentNext BY <1>2, HostEventType, HostAppendType DEF SegmentNext
<1>3. CASE OwnerNext
  <2>1. CASE \E t \in Task : CancelTask(t) \/ StopTask(t) \/ QueueResume(t)
    BY <2>1, CancelType, StopType, QueueResumeType
  <2>2. CASE \E t \in Task : BackoffElapses(t)
    <3>1. PICK t \in Task : BackoffElapses(t) BY <2>2
    <3>2. binding' \in [Task -> Binding] BY <3>1 DEF BackoffElapses, TypeOK, Binding
    <3> QED BY <3>1, <3>2 DEF BackoffElapses, TypeOK, workVars, ownerVars, hostVars, spoolVars
  <2>3. CASE \E s \in SegmentId : AnswerQuestion(s) \/ AcceptResult(s) \/ RejectResult(s)
    BY <2>3, AnswerType, AcceptType, RejectType
  <2>4. CASE \E s \in SegmentId, k \in {"failed", "result"} : QueueRetry(s, k)
    BY <2>4, QueueRetryType
  <2>5. CASE \E e \in pending : AckDecision(e)
    BY <2>5 DEF AckDecision, TypeOK, taskVars, workVars, hostVars, spoolVars
  <2> QED BY <1>3, <2>1, <2>2, <2>3, <2>4, <2>5 DEF OwnerNext
<1>4. CASE BeginCoordinatorEpoch
  BY <1>4 DEF BeginCoordinatorEpoch, TypeOK, taskVars, workVars, ownerVars, spoolVars
<1>5. CASE MarkStoppingUnknown BY <1>5, LostType
<1>6. CASE UNCHANGED vars
  BY <1>6 DEF vars, TypeOK, taskVars, workVars, ownerVars, hostVars, spoolVars
<1> QED BY <1>1, <1>2, <1>3, <1>4, <1>5, <1>6 DEF Next

\* Every variable keeps its type, whatever the plan, the budgets and the bounds.
THEOREM TypeCorrect == Spec => []TypeOK
BY InitType, TypeStep, PTL DEF Spec

-----------------------------------------------------------------------------
(* What a step may make of one segment. *)

\* An event the store has not committed belongs to a segment that exists.
SpoolKnown ==
  \A h \in Host : \A i \in 1..Len(spool[h]) : seg[spool[h][i][1]].status # "none"

\* What a host event, a stop or a shutdown makes of a segment; a claim starts it.
Progress(s) ==
  \/ seg'[s] = seg[s]
  \/ seg[s].status \in ActiveStatus /\ \E k \in ActiveStatus : seg'[s] = Phase(seg[s], k)
  \/ seg[s].status \in ActiveStatus /\ seg[s].outcome = "" /\ seg'[s] = Asked(seg[s])
  \/ \E k \in OutcomeKind : seg'[s] = Reported(seg[s], k)
  \/ seg[s].status \in ActiveStatus /\ \E ms \in Nat : seg'[s] = Exited(seg[s], ms)
  \/ seg[s].status \in ActiveStatus /\ seg'[s] = NotStarted(seg[s])
  \/ seg[s].status \in ActiveStatus /\ seg'[s] = StopRequested(seg[s])
  \/ seg'[s] = Lost(seg[s])
SegmentMoves(s) ==
  \/ Progress(s)
  \/ hostStatus[HostOf[s[1]]] = "ready" /\ \E ms \in Nat : seg'[s] = Granted(ms)

\* The head of a spool is an event of a segment that exists.
LEMMA HeadKnown ==
  ASSUME TypeOK, SpoolKnown, NEW s \in SegmentId, NEW k, CommitEvent(s, k)
  PROVE  seg[s].status # "none"
<1>1. HostOf[s[1]] \in Host BY SegmentParts
<1>2. /\ spool[HostOf[s[1]]] \in Seq(SegmentId \X EventKind) /\ spool[HostOf[s[1]]] # <<>>
      /\ Head(spool[HostOf[s[1]]]) = <<s, k>>
  BY <1>1 DEF TypeOK, CommitEvent
<1>3. 1 \in 1..Len(spool[HostOf[s[1]]]) /\ spool[HostOf[s[1]]][1] = <<s, k>> BY <1>2
<1>4. spool[HostOf[s[1]]][1][1] = s BY <1>3
<1> QED BY <1>1, <1>3, <1>4 DEF SpoolKnown

\* A segment that exists and has not ended is active.
LEMMA NotEnded ==
  ASSUME TypeOK, NEW s \in SegmentId, seg[s].status # "none", seg[s].status # "exited",
         ~Historical(s)
  PROVE  seg[s].status \in ActiveStatus
<1>1. seg[s] \in SegmentRecord BY DEF TypeOK
<1>2. seg[s].status \in {"none"} \cup ActiveStatus \cup TerminalStatus BY <1>1 DEF SegmentRecord
<1> QED BY <1>2 DEF TerminalStatus, Historical

\* A host event moves its own segment as Progress allows, and no other.
LEMMA HostEventMoves ==
  ASSUME TypeOK, SpoolKnown, NEW s \in SegmentId, CommitHostEvent(s), NEW r \in SegmentId
  PROVE  Progress(r)
<1>0. seg \in [SegmentId -> SegmentRecord] BY DEF TypeOK
<1>1. CASE \E k \in EventKind : CommitHistory(s, k) BY <1>1 DEF CommitHistory, workVars, Progress
<1>2. CASE \E k \in EventKind : CommitPhase(s, k)
  <2>1. PICK k \in EventKind : CommitPhase(s, k) BY <1>2
  <2>2. k \in ActiveStatus BY <2>1 DEF CommitPhase, ActiveStatus
  <2>3. CASE seg' = seg BY <2>3 DEF Progress
  <2>4. CASE seg[s].status \in PhaseFrom[k] /\ seg' = [seg EXCEPT ![s] = Phase(seg[s], k)]
    <3>1. seg[s].status \in ActiveStatus BY <2>1, <2>4 DEF CommitPhase, PhaseFrom, ActiveStatus
    <3> QED BY <1>0, <2>2, <2>4, <3>1 DEF Progress
  <2> QED BY <2>1, <2>3, <2>4 DEF CommitPhase
<1>3. CASE \E k \in EventKind : CommitOutcome(s, k)
  BY <1>0, <1>3 DEF CommitOutcome, OutcomeKind, Progress
<1>4. CASE CommitQuestion(s)
  <2>1. CommitEvent(s, "question") /\ ~Historical(s) BY <1>4 DEF CommitQuestion
  <2>2. CASE seg' = seg BY <2>2 DEF Progress
  <2>3. CASE seg[s].status # "exited" /\ seg[s].outcome = ""
             /\ seg' = [seg EXCEPT ![s] = Asked(seg[s])]
    <3>1. seg[s].status \in ActiveStatus BY <2>1, <2>3, HeadKnown, NotEnded
    <3> QED BY <1>0, <2>3, <3>1 DEF Progress
  <2> QED BY <1>4, <2>2, <2>3 DEF CommitQuestion
<1>5. CASE CommitUnknown(s)
  <2>1. CommitEvent(s, "unknown") /\ ~Historical(s) BY <1>5 DEF CommitUnknown
  <2>2. CASE seg' = seg BY <2>2 DEF Progress
  <2>3. CASE seg[s].status # "exited" /\ seg' = [seg EXCEPT ![s] = Phase(seg[s], "unknown")]
    <3>1. seg[s].status \in ActiveStatus BY <2>1, <2>3, HeadKnown, NotEnded
    <3> QED BY <1>0, <2>3, <3>1 DEF Progress, ActiveStatus
  <2> QED BY <1>5, <2>2, <2>3 DEF CommitUnknown
<1>6. CASE \E ms \in 0..(seg[s].granted + 1), match \in BOOLEAN : CommitExit(s, ms, match)
  <2>1. PICK ms \in 0..(seg[s].granted + 1), match \in BOOLEAN : CommitExit(s, ms, match) BY <1>6
  <2>2. ms \in Nat
    <3>1. seg[s].granted \in Nat BY <1>0 DEF SegmentRecord
    <3> QED BY <3>1
  <2>3. CommitEvent(s, "exited") /\ ~Historical(s) /\ seg[s].status # "exited"
    BY <2>1 DEF CommitExit
  <2>4. seg[s].status \in ActiveStatus BY <2>3, HeadKnown, NotEnded
  <2>5. seg' = [seg EXCEPT ![s] = Exited(seg[s], ms)] BY <2>1 DEF CommitExit
  <2> QED BY <1>0, <2>2, <2>4, <2>5 DEF Progress
<1>7. CASE \E code \in BOOLEAN : CommitRejection(s, code)
  <2>1. PICK code \in BOOLEAN : CommitRejection(s, code) BY <1>7
  <2>2. seg[s].status \in ActiveStatus BY <2>1 DEF CommitRejection, RejectionProved, ActiveStatus
  <2>3. seg' = [seg EXCEPT ![s] = NotStarted(seg[s])] BY <2>1 DEF CommitRejection
  <2> QED BY <1>0, <2>2, <2>3 DEF Progress
<1> QED BY <1>1, <1>2, <1>3, <1>4, <1>5, <1>6, <1>7 DEF CommitHostEvent

\* So do a stop and a shutdown that gives up waiting.
LEMMA StopMoves ==
  ASSUME TypeOK, NEW r \in SegmentId, MarkStoppingUnknown \/ \E t \in Task : StopTask(t)
  PROVE  Progress(r)
<1>0. seg \in [SegmentId -> SegmentRecord] BY DEF TypeOK
<1>1. CASE \E t \in Task : StopTask(t)
  <2>1. PICK s \in ActiveSegments : seg' = [seg EXCEPT ![s] = StopRequested(seg[s])]
    BY <1>1 DEF StopTask
  <2>2. s \in SegmentId /\ seg[s].status \in ActiveStatus BY DEF ActiveSegments
  <2> QED BY <1>0, <2>1, <2>2 DEF Progress
<1>2. CASE MarkStoppingUnknown BY <1>2 DEF MarkStoppingUnknown, Progress
<1> QED BY <1>1, <1>2

\* So does every step.
LEMMA SegmentStep ==
  ASSUME TypeOK, SpoolKnown, [Next]_vars, NEW r \in SegmentId PROVE SegmentMoves(r)
<1>0. seg \in [SegmentId -> SegmentRecord] BY DEF TypeOK
<1>1. CASE seg' = seg BY <1>1 DEF SegmentMoves, Progress
<1>2. CASE \E h \in Host, t \in Task : ClaimReady(h, t)
  <2>1. PICK h \in Host, t \in Task, a \in Attempt :
          /\ HostOf[t] = h /\ hostStatus[h] = "ready"
          /\ ClaimAttempt(h, t, a) \/ ClaimResume(h, t, a)
    BY <1>2 DEF ClaimReady, selectReady
  <2>2. PICK n \in 1..MaxSegment, ms \in Grants(t) : Launch(<<t, a, n>>, ms)
    <3>1. 1 \in 1..MaxSegment BY BoundsAssumption
    <3> QED BY <2>1, <3>1 DEF ClaimAttempt, ClaimResume
  <2>3. ms \in Nat BY BudgetAssumption DEF Grants
  <2>4. CASE r = <<t, a, n>>
    <3>1. seg'[r] = Granted(ms) BY <1>0, <2>2, <2>4 DEF Launch
    <3> QED BY <2>1, <2>3, <2>4, <3>1 DEF SegmentMoves, Progress
  <2>5. CASE r # <<t, a, n>> BY <1>0, <2>2, <2>5 DEF Launch, SegmentMoves, Progress
  <2> QED BY <2>4, <2>5
<1>3. CASE \E s \in SegmentId : CommitHostEvent(s) BY <1>3, HostEventMoves DEF SegmentMoves
<1>4. CASE \E t \in Task : StopTask(t) BY <1>4, StopMoves DEF SegmentMoves
<1>5. CASE MarkStoppingUnknown BY <1>5, StopMoves DEF SegmentMoves
<1>6. [Next]_vars => \/ seg' = seg
                     \/ \E h \in Host, t \in Task : ClaimReady(h, t)
                     \/ \E s \in SegmentId : CommitHostEvent(s)
                     \/ \E t \in Task : StopTask(t)
                     \/ MarkStoppingUnknown
  <2> USE DEF vars, workVars
  <2>1. CASE HostNext
    BY <2>1 DEF HostNext, RegisterHost, BeginHostReconcile, HostReconciled, FinishHostReconcile,
                FinishStaleReconcile, MarkHostOffline, RetireHost
  <2>2. CASE SegmentNext BY <2>2 DEF SegmentNext, HostAppend
  <2>3. CASE OwnerNext
    BY <2>3 DEF OwnerNext, CancelTask, QueueResume, BackoffElapses, AnswerQuestion, AcceptResult,
                RejectResult, QueueRetry, AckDecision
  <2>4. CASE BeginCoordinatorEpoch BY <2>4 DEF BeginCoordinatorEpoch
  <2> QED BY <2>1, <2>2, <2>3, <2>4 DEF Next
<1> QED BY <1>1, <1>2, <1>3, <1>4, <1>5, <1>6

\* A segment that exists keeps existing.
LEMMA StaysKnown ==
  ASSUME TypeOK, NEW s \in SegmentId, SegmentMoves(s), seg[s].status # "none"
  PROVE  seg'[s].status # "none"
<1>1. seg[s] \in SegmentRecord BY DEF TypeOK
<1> QED BY <1>1 DEF SegmentMoves, Progress, SegmentRecord, Granted, NoSegment, Phase, Asked, Reported, Exited,
                    NotStarted, StopRequested, Lost, ActiveStatus

\* Every host event takes the head of a spool.
LEMMA CommitsEvent ==
  ASSUME NEW s \in SegmentId, CommitHostEvent(s) PROVE \E k : CommitEvent(s, k)
<1>1. CASE \E k \in EventKind : CommitHistory(s, k) \/ CommitPhase(s, k) \/ CommitOutcome(s, k)
  BY <1>1 DEF CommitHistory, CommitPhase, CommitOutcome
<1>2. CASE CommitQuestion(s) BY <1>2 DEF CommitQuestion
<1>3. CASE CommitUnknown(s) BY <1>3 DEF CommitUnknown
<1>4. CASE \E ms \in 0..(seg[s].granted + 1), match \in BOOLEAN : CommitExit(s, ms, match)
  BY <1>4 DEF CommitExit
<1>5. CASE \E code \in BOOLEAN : CommitRejection(s, code) BY <1>5 DEF CommitRejection
<1> QED BY <1>1, <1>2, <1>3, <1>4, <1>5 DEF CommitHostEvent

\* Steps leave a spool alone, take its head or append an event of a segment that exists.
LEMMA SpoolStep ==
  ASSUME TypeOK, [Next]_vars, NEW h \in Host
  PROVE  \/ spool'[h] = spool[h]
         \/ spool[h] # <<>> /\ spool'[h] = Tail(spool[h])
         \/ \E s \in SegmentId, k \in EventKind :
              seg[s].status # "none" /\ spool'[h] = Append(spool[h], <<s, k>>)
<1>0. spool \in [Host -> Seq(SegmentId \X EventKind)] BY DEF TypeOK
<1>1. CASE \E s \in SegmentId, k \in EventKind : HostAppend(s, k) BY <1>0, <1>1 DEF HostAppend
<1>2. CASE \E s \in SegmentId : \E k : CommitEvent(s, k) BY <1>0, <1>2 DEF CommitEvent
<1>3. CASE spool' = spool BY <1>3
<1>4. \/ \E s \in SegmentId, k \in EventKind : HostAppend(s, k)
      \/ \E s \in SegmentId : \E k : CommitEvent(s, k)
      \/ spool' = spool
  <2> USE DEF vars, spoolVars
  <2>1. CASE HostNext
    BY <2>1 DEF HostNext, RegisterHost, BeginHostReconcile, HostReconciled, FinishHostReconcile,
                FinishStaleReconcile, MarkHostOffline, RetireHost, ClaimReady
  <2>2. CASE SegmentNext
    BY <2>2, CommitsEvent DEF SegmentNext
  <2>3. CASE OwnerNext
    BY <2>3 DEF OwnerNext, CancelTask, StopTask, QueueResume, BackoffElapses, AnswerQuestion,
                AcceptResult, RejectResult, QueueRetry, AckDecision
  <2>4. CASE BeginCoordinatorEpoch BY <2>4 DEF BeginCoordinatorEpoch
  <2>5. CASE MarkStoppingUnknown BY <2>5 DEF MarkStoppingUnknown
  <2> QED BY <2>1, <2>2, <2>3, <2>4, <2>5 DEF Next
<1> QED BY <1>1, <1>2, <1>3, <1>4

\* No step leaves an event of a segment that was never claimed in a spool.
LEMMA SpoolKnownStep ==
  ASSUME TypeOK, SpoolKnown, [Next]_vars PROVE SpoolKnown'
<1>1. SUFFICES ASSUME NEW h \in Host, NEW i \in 1..Len(spool'[h])
               PROVE  seg'[spool'[h][i][1]].status # "none"
  BY DEF SpoolKnown
<1>2. spool[h] \in Seq(SegmentId \X EventKind) BY DEF TypeOK
<1>3. \A r \in SegmentId : seg[r].status # "none" => seg'[r].status # "none"
  BY SegmentStep, StaysKnown
<1>4. \A j \in 1..Len(spool[h]) :
        /\ spool[h][j] \in SegmentId \X EventKind /\ spool[h][j][1] \in SegmentId
        /\ seg[spool[h][j][1]].status # "none"
  BY <1>2 DEF SpoolKnown
<1>5. CASE spool'[h] = spool[h] BY <1>3, <1>4, <1>5
<1>6. CASE spool[h] # <<>> /\ spool'[h] = Tail(spool[h])
  <2>1. i + 1 \in 1..Len(spool[h]) /\ spool'[h][i] = spool[h][i + 1] BY <1>2, <1>6
  <2> QED BY <1>3, <1>4, <2>1
<1>7. CASE \E s \in SegmentId, k \in EventKind :
             seg[s].status # "none" /\ spool'[h] = Append(spool[h], <<s, k>>)
  <2>1. PICK s \in SegmentId, k \in EventKind :
          seg[s].status # "none" /\ spool'[h] = Append(spool[h], <<s, k>>)
    BY <1>7
  <2>2. CASE i \in 1..Len(spool[h])
    <3>1. spool'[h][i] = spool[h][i] BY <1>2, <2>1, <2>2
    <3> QED BY <1>3, <1>4, <2>2, <3>1
  <2>3. CASE i = Len(spool[h]) + 1
    <3>1. spool'[h][i] = <<s, k>> BY <1>2, <2>1, <2>3
    <3>2. spool'[h][i][1] = s BY <3>1
    <3> QED BY <1>3, <2>1, <3>2
  <2>4. i \in 1..(Len(spool[h]) + 1) BY <1>1, <1>2, <2>1
  <2> QED BY <1>2, <2>2, <2>3, <2>4
<1> QED BY <1>5, <1>6, <1>7, SpoolStep

-----------------------------------------------------------------------------
(* Stops and reservations. *)

\* What StopAuthoritative and ReservationsSettle say of one segment.
Sound(r) ==
  /\ r.stop # "none" => r.outcome \in {"stopped", "launch_rejected"}
  /\ r.budget = "reserved" <=> r.status \in ActiveStatus
  /\ r.budget = "settled" <=> r.status \in TerminalStatus
  /\ r.used <= r.granted

\* A segment that was never claimed is sound.
LEMMA SoundNone == Sound(NoSegment)
<1>1. NoSegment.used <= NoSegment.granted BY DEF NoSegment
<1> QED BY <1>1 DEF Sound, NoSegment, ActiveStatus, TerminalStatus

\* An exit settles the reservation, cutting what was used to what was granted.
LEMMA SoundExit ==
  ASSUME NEW r \in SegmentRecord, NEW ms \in Nat, Sound(r) PROVE Sound(Exited(r, ms))
<1> DEFINE e == Exited(r, ms)
<1>1. /\ e.status = "exited" /\ e.budget = "settled" /\ e.outcome = r.outcome
      /\ e.stop = IF r.stop = "none" THEN r.stop ELSE "completed"
  BY DEF Exited, SegmentRecord
<1>2. e.granted = r.granted /\ e.used = UsedMS(ms, r.granted) BY DEF Exited, SegmentRecord
<1>3. r.granted \in Nat BY DEF SegmentRecord
<1>4. e.used <= e.granted BY <1>2, <1>3 DEF UsedMS
<1> QED BY <1>1, <1>4 DEF Sound, ActiveStatus, TerminalStatus

\* So does a rejection, for nothing.
LEMMA SoundRejection ==
  ASSUME NEW r \in SegmentRecord, Sound(r) PROVE Sound(NotStarted(r))
<1> DEFINE e == NotStarted(r)
<1>1. /\ e.status = "not_started" /\ e.budget = "settled" /\ e.outcome = "launch_rejected"
      /\ e.granted = r.granted /\ e.used = 0
  BY DEF NotStarted, SegmentRecord
<1>2. r.granted \in Nat BY DEF SegmentRecord
<1>3. e.used <= e.granted BY <1>1, <1>2
<1> QED BY <1>1, <1>3 DEF Sound, ActiveStatus, TerminalStatus

\* Every change a step may make to a segment keeps it sound.
LEMMA SoundStep ==
  ASSUME TypeOK, NEW s \in SegmentId, SegmentMoves(s), Sound(seg[s]) PROVE Sound(seg'[s])
<1> DEFINE r == seg[s]
<1>0. r \in SegmentRecord BY DEF TypeOK
<1>6. CASE r.status \in ActiveStatus /\ \E ms \in Nat : seg'[s] = Exited(r, ms)
  BY <1>0, <1>6, SoundExit
<1>7. CASE r.status \in ActiveStatus /\ seg'[s] = NotStarted(r) BY <1>0, <1>7, SoundRejection
<1> USE DEF Sound, SegmentRecord, ActiveStatus, TerminalStatus
<1>1. CASE seg'[s] = r BY <1>1
<1>2. CASE hostStatus[HostOf[s[1]]] = "ready" /\ \E ms \in Nat : seg'[s] = Granted(ms)
  BY <1>2 DEF Granted, NoSegment
<1>3. CASE r.status \in ActiveStatus /\ \E k \in ActiveStatus : seg'[s] = Phase(r, k)
  BY <1>0, <1>3 DEF Phase
<1>4. CASE r.status \in ActiveStatus /\ r.outcome = "" /\ seg'[s] = Asked(r)
  BY <1>0, <1>4 DEF Asked
<1>5. CASE \E k \in OutcomeKind : seg'[s] = Reported(r, k) BY <1>0, <1>5 DEF Reported, KeptOutcome
<1>8. CASE r.status \in ActiveStatus /\ seg'[s] = StopRequested(r) BY <1>0, <1>8 DEF StopRequested
<1>9. CASE seg'[s] = Lost(r) BY <1>0, <1>9 DEF Lost
<1> QED BY <1>1, <1>2, <1>3, <1>4, <1>5, <1>6, <1>7, <1>8, <1>9 DEF SegmentMoves, Progress

SegmentInv == TypeOK /\ SpoolKnown /\ \A s \in SegmentId : Sound(seg[s])

\* Segments stay sound in every reachable state.
LEMMA SegmentInvInvariant == Spec => []SegmentInv
<1>1. Init => SegmentInv
  <2>1. ASSUME Init PROVE SpoolKnown
    <3>1. \A h \in Host : spool[h] = <<>> BY <2>1 DEF Init
    <3> QED BY <3>1 DEF SpoolKnown
  <2>2. ASSUME Init, NEW s \in SegmentId PROVE Sound(seg[s])
    <3>1. seg[s] = NoSegment BY <2>2 DEF Init
    <3> QED BY <3>1, SoundNone
  <2> QED BY <2>1, <2>2, InitType DEF SegmentInv
<1>2. SegmentInv /\ [Next]_vars => SegmentInv'
  BY TypeStep, SpoolKnownStep, SegmentStep, SoundStep DEF SegmentInv
<1> QED BY <1>1, <1>2, PTL DEF Spec

\* The owner's stop decides: no event committed after it, in any order, gives a
\* stopped segment another outcome.
THEOREM StopIsAuthoritative == Spec => []StopAuthoritative
<1>1. SegmentInv => StopAuthoritative BY DEF SegmentInv, Sound, StopAuthoritative
<1> QED BY <1>1, SegmentInvInvariant, PTL

\* Every reservation is open exactly while its segment is active and settles
\* once, for no more than was granted.
THEOREM ReservationsAlwaysSettle == Spec => []ReservationsSettle
<1>1. SegmentInv => ReservationsSettle BY DEF SegmentInv, Sound, ReservationsSettle
<1> QED BY <1>1, SegmentInvInvariant, PTL

-----------------------------------------------------------------------------
(* What a step may make of one task. *)

\* Committing a task table blocks waiting tasks and releases ready ones.
Ripples(u) ==
  \/ status'[u] = status[u]
  \/ status[u] \in {"queued", "ready"} /\ status'[u] = "blocked_dependency"
  \/ /\ status[u] = "queued" /\ status'[u] = "ready"
     /\ \A d \in Deps[u] : status'[d] = "completed"

\* The step moves task t from `from' to `to' and ripples through the others.
Moves(t, from, to) ==
  status[t] \in from /\ status'[t] \in to /\ \A u \in Task \ {t} : Ripples(u)

\* blockFailedDependencies only moves waiting tasks, and only to blocked_dependency.
LEMMA BlockRipples ==
  ASSUME NEW ts \in [Task -> TaskStatus], NEW terminal, NEW u \in Task
  PROVE  LET bs == blockFailedDependencies(ts, terminal)
         IN bs[u] = ts[u] \/ (ts[u] \in {"queued", "ready"} /\ bs[u] = "blocked_dependency")
BY DEF blockFailedDependencies, Blocked

\* releaseReady only moves queued tasks whose dependencies are completed, to ready.
LEMMA ReleaseRipples ==
  ASSUME NEW ts \in [Task -> TaskStatus], NEW u \in Task
  PROVE  \/ Promoted(ts)[u] = ts[u]
         \/ /\ ts[u] = "queued" /\ Promoted(ts)[u] = "ready"
            /\ \A d \in Deps[u] : Promoted(ts)[d] = "completed"
BY PlanAssumption DEF releaseReady, Promoted

\* One task moves and nothing ripples.
LEMMA MoveOne ==
  ASSUME TypeOK, NEW t \in Task, NEW STATE st, SetStatus(t, st), NEW from, status[t] \in from
  PROVE  Moves(t, from, {st})
BY DEF TypeOK, SetStatus, Reschedule, Moves, Ripples

\* Enqueuing a task moves that task alone.
LEMMA MoveQueued ==
  ASSUME TypeOK, NEW t \in Task, NEW STATE st, NEW STATE bnd, Enqueue(t, st, bnd),
         NEW from, status[t] \in from
  PROVE  Moves(t, from, {st})
BY DEF TypeOK, Enqueue, Reschedule, Moves, Ripples

\* A failure or a cancellation blocks.
LEMMA MoveBlocking ==
  ASSUME TypeOK, NEW t \in Task, NEW STATE st, st \in {"failed", "cancelled"},
         NEW STATE terminal, NEW STATE bnd,
         Reschedule(blockFailedDependencies([status EXCEPT ![t] = st], terminal), {}, bnd),
         NEW from, status[t] \in from
  PROVE  Moves(t, from, {st})
<1> DEFINE ts == [status EXCEPT ![t] = st]
<1>1. ts \in [Task -> TaskStatus] BY DEF TypeOK, TaskStatus
<1>2. status' = blockFailedDependencies(ts, terminal) BY DEF Reschedule
<1>3. \A u \in Task : status'[u] = ts[u]
                       \/ (ts[u] \in {"queued", "ready"} /\ status'[u] = "blocked_dependency")
  BY <1>1, <1>2, BlockRipples
<1>4. ts[t] = st /\ \A u \in Task \ {t} : ts[u] = status[u] BY DEF TypeOK
<1> QED BY <1>3, <1>4 DEF Moves, Ripples

\* A completion releases.
LEMMA MoveReleasing ==
  ASSUME TypeOK, NEW t \in Task, NEW STATE st, st = "completed",
         NEW STATE ts, ts = [status EXCEPT ![t] = st],
         Reschedule(Promoted(ts), releaseReady(ts), binding),
         NEW from, status[t] \in from
  PROVE  Moves(t, from, {st})
<1>1. ts \in [Task -> TaskStatus] BY DEF TypeOK, TaskStatus
<1>2. status' = Promoted(ts) BY DEF Reschedule
<1>3. \A u \in Task : \/ status'[u] = ts[u]
                      \/ /\ ts[u] = "queued" /\ status'[u] = "ready"
                         /\ \A d \in Deps[u] : status'[d] = "completed"
  BY <1>1, <1>2, ReleaseRipples
<1>4. ts[t] = "completed" /\ \A u \in Task \ {t} : ts[u] = status[u] BY DEF TypeOK
<1> QED BY <1>3, <1>4 DEF Moves, Ripples

\* Where a segment's end takes its task.
Ended == {"ready", "interrupted", "waiting_question", "result_ready", "completed", "failed"}

\* An exit moves its own task to what it decided, and otherwise only waiting tasks.
LEMMA ExitMoves ==
  ASSUME TypeOK, NEW s \in SegmentId, NEW ms, NEW match, CommitExit(s, ms, match),
         NEW from, status[s[1]] \in from
  PROVE  Moves(s[1], from, {ExitStatus(s[1], seg[s].outcome, match)[2]})
<1> DEFINE t == s[1]
           to == ExitStatus(t, seg[s].outcome, match)
           ts == [status EXCEPT ![t] = to[2]]
           sg == [seg EXCEPT ![s] = Exited(seg[s], ms)]
<1>1. \/ /\ to[2] = "completed"
         /\ Reschedule(Promoted(ts), releaseReady(ts), binding)
      \/ /\ to[2] = "failed"
         /\ Reschedule(blockFailedDependencies(ts, AllFailed(ts)), {}, binding)
      \/ SetStatus(t, to[2])
  BY DEF CommitExit
<1>2. t \in Task BY SegmentParts
<1>3. CASE /\ to[2] = "completed"
           /\ Reschedule(Promoted(ts), releaseReady(ts), binding)
  BY <1>2, <1>3, MoveReleasing
<1>4. CASE /\ to[2] = "failed"
           /\ Reschedule(blockFailedDependencies(ts, AllFailed(ts)), {}, binding)
  BY <1>2, <1>4, MoveBlocking
<1>5. CASE SetStatus(t, to[2]) BY <1>2, <1>5, MoveOne
<1> QED BY <1>1, <1>3, <1>4, <1>5

\* A rejection fails its task or queues its retry, and otherwise moves only waiting tasks.
LEMMA RejectionMoves ==
  ASSUME TypeOK, NEW s \in SegmentId, NEW code, CommitRejection(s, code),
         NEW from, status[s[1]] \in from
  PROVE  Moves(s[1], from, {"ready", "failed"})
<1>1. s[1] \in Task BY SegmentParts
<1>2. \/ \E bnd : Enqueue(s[1], "ready", bnd)
      \/ Reschedule(blockFailedDependencies([status EXCEPT ![s[1]] = "failed"], {s[1]}), {}, binding)
  BY DEF CommitRejection
<1>3. CASE \E bnd : Enqueue(s[1], "ready", bnd)
  BY <1>1, <1>3 DEF TypeOK, Enqueue, Reschedule, Moves, Ripples
<1>4. CASE Reschedule(blockFailedDependencies([status EXCEPT ![s[1]] = "failed"], {s[1]}), {}, binding)
  <2>1. Moves(s[1], from, {"failed"}) BY <1>1, <1>4, MoveBlocking
  <2> QED BY <2>1 DEF Moves
<1> QED BY <1>2, <1>3, <1>4

-----------------------------------------------------------------------------
(* One active segment per task. *)

\* A segment that exists belongs to an attempt that exists.
AttemptKnown == \A s \in SegmentId : seg[s].status # "none" => attempt[s[1]][s[2]] # "none"

Act(s)   == seg[s].status \in ActiveStatus
Known(s) == seg[s].status # "none"

\* OneActiveSegment spelled out.
Exclusive ==
  /\ \A s \in SegmentId : Act(s) =>
       /\ status[s[1]] \in Dispatched
       /\ \A b \in Attempt : attempt[s[1]][b] # "none" => b <= s[2]
       /\ \A m \in 1..MaxSegment : Known(<<s[1], s[2], m>>) => m <= s[3]
  /\ \A t \in Task : status[t] \in Dispatched => \E s \in SegmentId : s[1] = t /\ Act(s)

CoreInv == SegmentInv /\ AttemptKnown /\ Exclusive

\* The inductive invariant gives the property.
LEMMA ExclusiveIsOne == ASSUME AttemptKnown, Exclusive PROVE OneActiveSegment
BY DEF AttemptKnown, Exclusive, OneActiveSegment, ActiveSegments, HasActive, LatestSegment,
       LatestAttempt, Act, Known, ActiveStatus

\* Two active segments of one task are the same.
LEMMA Unique ==
  ASSUME AttemptKnown, Exclusive, NEW r \in SegmentId, NEW s \in SegmentId, Act(r), Act(s), r[1] = s[1]
  PROVE  r = s
<1>1. /\ r = <<r[1], r[2], r[3]>> /\ s = <<s[1], s[2], s[3]>>
      /\ r[2] \in Attempt /\ s[2] \in Attempt /\ r[3] \in 1..MaxSegment /\ s[3] \in 1..MaxSegment
  BY DEF SegmentId
<1>2. Known(r) /\ Known(s) BY DEF Act, Known, ActiveStatus
<1>3. attempt[r[1]][r[2]] # "none" /\ attempt[s[1]][s[2]] # "none"
  BY <1>2 DEF AttemptKnown, Known
<1>4. r[2] <= s[2] /\ s[2] <= r[2] BY <1>1, <1>3 DEF Exclusive
<1>5. r[2] = s[2]
  <2>1. r[2] \in Int /\ s[2] \in Int BY <1>1, BoundsAssumption DEF Attempt
  <2> QED BY <1>4, <2>1
<1>6. r[3] <= s[3] /\ s[3] <= r[3]
  <2>1. Known(<<s[1], s[2], r[3]>>) /\ Known(<<r[1], r[2], s[3]>>) BY <1>1, <1>2, <1>5
  <2> QED BY <1>1, <2>1 DEF Exclusive
<1>7. r[3] = s[3]
  <2>1. r[3] \in Int /\ s[3] \in Int BY <1>1, BoundsAssumption
  <2> QED BY <1>6, <2>1
<1> QED BY <1>1, <1>5, <1>7

\* A step that starts no segment keeps the active ones the latest.
LEMMA NothingStarts ==
  ASSUME AttemptKnown, Exclusive,
         \A s \in SegmentId : Known(s)' <=> Known(s),
         \A s \in SegmentId : Act(s)' => Act(s),
         \A t \in Task, a \in Attempt : attempt'[t][a] = "none" <=> attempt[t][a] = "none",
         \A s \in SegmentId : Act(s)' => status'[s[1]] \in Dispatched,
         \A t \in Task : status'[t] \in Dispatched => \E s \in SegmentId : s[1] = t /\ Act(s)'
  PROVE  AttemptKnown' /\ Exclusive'
<1>1. AttemptKnown' BY SegmentParts DEF AttemptKnown, Known
<1>2. ASSUME NEW s \in SegmentId, Act(s)'
      PROVE  /\ \A b \in Attempt : attempt'[s[1]][b] # "none" => b <= s[2]
             /\ \A m \in 1..MaxSegment : Known(<<s[1], s[2], m>>)' => m <= s[3]
  <2>1. s[1] \in Task /\ \A m \in 1..MaxSegment : <<s[1], s[2], m>> \in SegmentId BY DEF SegmentId
  <2> QED BY <1>2, <2>1 DEF Exclusive
<1> QED BY <1>1, <1>2 DEF Exclusive

\* Nor does a step that only moves tasks without crossing Dispatched.
LEMMA NothingChanges ==
  ASSUME AttemptKnown, Exclusive,
         \A s \in SegmentId : (Known(s)' <=> Known(s)) /\ (Act(s)' <=> Act(s)),
         \A t \in Task, a \in Attempt : attempt'[t][a] = "none" <=> attempt[t][a] = "none",
         \A t \in Task : status'[t] \in Dispatched <=> status[t] \in Dispatched
  PROVE  AttemptKnown' /\ Exclusive'
<1>1. \A s \in SegmentId : Act(s)' => status'[s[1]] \in Dispatched BY SegmentParts DEF Exclusive
<1>2. \A t \in Task : status'[t] \in Dispatched => \E s \in SegmentId : s[1] = t /\ Act(s)'
  BY DEF Exclusive
<1> QED BY <1>1, <1>2, NothingStarts

\* Tasks that are not dispatched move among states that are not.
LEMMA NotCrossed ==
  ASSUME TypeOK, NEW t \in Task, NEW from, NEW to, Moves(t, from, to),
         from \cap Dispatched = {}, to \cap Dispatched = {}
  PROVE  \A u \in Task : status'[u] \in Dispatched <=> status[u] \in Dispatched
BY DEF Moves, Ripples, Dispatched

\* An ended segment leaves its task with none.
LEMMA SegmentEnds ==
  ASSUME TypeOK, AttemptKnown, Exclusive, NEW s \in SegmentId, Act(s), Known(s)', ~Act(s)',
         \A r \in SegmentId : r # s => seg'[r] = seg[r],
         \A t \in Task, a \in Attempt : attempt'[t][a] = "none" <=> attempt[t][a] = "none",
         NEW STATE to, Moves(s[1], Dispatched, to), to \cap Dispatched = {}
  PROVE  AttemptKnown' /\ Exclusive'
<1>1. \A r \in SegmentId : Known(r)' <=> Known(r) BY DEF Known, Act, ActiveStatus
<1>2. \A r \in SegmentId : Act(r)' => Act(r) /\ r # s BY DEF Act
<1>3. \A u \in Task : u # s[1] => (status'[u] \in Dispatched <=> status[u] \in Dispatched)
  BY DEF Moves, Ripples, Dispatched
<1>4. status'[s[1]] \notin Dispatched BY DEF Moves
<1>5. \A r \in SegmentId : Act(r)' => r[1] # s[1] BY <1>2, Unique
<1>6. \A r \in SegmentId : Act(r)' => status'[r[1]] \in Dispatched
  BY <1>2, <1>3, <1>5, SegmentParts DEF Exclusive
<1>7. ASSUME NEW t \in Task, status'[t] \in Dispatched
      PROVE  \E r \in SegmentId : r[1] = t /\ Act(r)'
  <2>1. t # s[1] /\ status[t] \in Dispatched BY <1>3, <1>4, <1>7
  <2>2. PICK r \in SegmentId : r[1] = t /\ Act(r) BY <2>1 DEF Exclusive
  <2> QED BY <2>1, <2>2 DEF Act
<1> QED BY <1>1, <1>2, <1>6, <1>7, NothingStarts

\* A claim starts the only segment of a task that had none.
LEMMA SegmentStarts ==
  ASSUME TypeOK, AttemptKnown, Exclusive, NEW t \in Task, NEW a \in Attempt, NEW n \in 1..MaxSegment,
         NEW ms \in Nat, Launch(<<t, a, n>>, ms), attempt' = [attempt EXCEPT ![t][a] = "running"],
         \A b \in Attempt : attempt[t][b] # "none" => b <= a,
         \A m \in 1..MaxSegment : Known(<<t, a, m>>) => m <= n,
         Moves(t, {"ready", "resume_queued"}, {"running"})
  PROVE  AttemptKnown' /\ Exclusive'
<1> DEFINE new == <<t, a, n>>
<1>1. new \in SegmentId BY DEF SegmentId
<1>2. Act(new)' /\ Known(new)'
  <2>1. seg' = [seg EXCEPT ![new] = Granted(ms)] BY DEF Launch
  <2>2. seg'[new] = Granted(ms) BY <1>1, <2>1 DEF TypeOK
  <2>3. Granted(ms).status = "launch_requested" BY DEF Granted, NoSegment
  <2> QED BY <2>2, <2>3 DEF Act, Known, ActiveStatus
<1>3. \A r \in SegmentId : r # new => seg'[r] = seg[r] BY <1>1 DEF Launch, TypeOK
<1>4. /\ attempt'[t][a] = "running"
      /\ \A u \in Task, b \in Attempt : <<u, b>> # <<t, a>> => attempt'[u][b] = attempt[u][b]
  BY DEF TypeOK
<1>5. status[t] \notin Dispatched BY DEF Moves, Dispatched
<1>6. \A r \in SegmentId : Act(r)' /\ r # new => Act(r) /\ r[1] # t
  BY <1>3, <1>5 DEF Act, Exclusive
<1>7. AttemptKnown'
  <2>1. SUFFICES ASSUME NEW r \in SegmentId, seg'[r].status # "none"
                 PROVE  attempt'[r[1]][r[2]] # "none"
    BY DEF AttemptKnown
  <2>2. CASE <<r[1], r[2]>> = <<t, a>> BY <1>4, <2>2
  <2>3. CASE <<r[1], r[2]>> # <<t, a>>
    <3>1. r # new BY <2>3
    <3> QED BY <1>3, <1>4, <2>1, <2>3, <3>1, SegmentParts DEF AttemptKnown
  <2> QED BY <2>2, <2>3
<1>8. ASSUME NEW r \in SegmentId, Act(r)'
      PROVE  /\ status'[r[1]] \in Dispatched
             /\ \A b \in Attempt : attempt'[r[1]][b] # "none" => b <= r[2]
             /\ \A m \in 1..MaxSegment : Known(<<r[1], r[2], m>>)' => m <= r[3]
  <2>1. CASE r = new
    <3>1. status'[t] \in Dispatched BY DEF Moves, Dispatched
    <3>2. \A b \in Attempt : attempt'[t][b] # "none" => b <= a
      <4>1. a \in Int BY DEF Attempt
      <4> QED BY <1>4, <4>1
    <3>3. \A m \in 1..MaxSegment : Known(<<t, a, m>>)' => m <= n
      <4>1. n \in Int OBVIOUS
      <4>2. \A m \in 1..MaxSegment : <<t, a, m>> \in SegmentId BY DEF SegmentId
      <4>3. \A m \in 1..MaxSegment : m # n => (Known(<<t, a, m>>)' <=> Known(<<t, a, m>>))
        BY <1>3, <4>2 DEF Known
      <4> QED BY <4>1, <4>3
    <3> QED BY <2>1, <3>1, <3>2, <3>3
  <2>2. CASE r # new
    <3>1. Act(r) /\ r[1] # t /\ r[1] \in Task BY <1>6, <1>8, <2>2, SegmentParts
    <3>2. status'[r[1]] \in Dispatched
      <4>1. status[r[1]] \in Dispatched BY <3>1 DEF Exclusive
      <4> QED BY <3>1, <4>1 DEF Moves, Ripples, Dispatched
    <3>3. \A b \in Attempt : attempt'[r[1]][b] = attempt[r[1]][b] BY <1>4, <3>1
    <3>4. \A m \in 1..MaxSegment : Known(<<r[1], r[2], m>>)' <=> Known(<<r[1], r[2], m>>)
      <4>1. \A m \in 1..MaxSegment : <<r[1], r[2], m>> \in SegmentId BY DEF SegmentId
      <4>2. \A m \in 1..MaxSegment : <<r[1], r[2], m>> # new BY <3>1
      <4> QED BY <1>3, <4>1, <4>2 DEF Known
    <3> QED BY <3>1, <3>2, <3>3, <3>4 DEF Exclusive
  <2> QED BY <2>1, <2>2
<1>9. ASSUME NEW u \in Task, status'[u] \in Dispatched
      PROVE  \E r \in SegmentId : r[1] = u /\ Act(r)'
  <2>1. CASE u = t BY <1>1, <1>2, <2>1
  <2>2. CASE u # t
    <3>1. status[u] \in Dispatched BY <1>9, <2>2 DEF Moves, Ripples, Dispatched
    <3>2. PICK r \in SegmentId : r[1] = u /\ Act(r) BY <3>1 DEF Exclusive
    <3>3. r # new BY <2>2, <3>2
    <3> QED BY <1>3, <3>2, <3>3 DEF Act
  <2> QED BY <2>1, <2>2
<1> QED BY <1>7, <1>8, <1>9 DEF Exclusive

\* A claim creates the one active segment of its task.
LEMMA ClaimExclusive ==
  ASSUME TypeOK, AttemptKnown, Exclusive, NEW h \in Host, NEW t \in Task, ClaimReady(h, t)
  PROVE  AttemptKnown' /\ Exclusive'
<1>1. PICK a \in Attempt : ClaimAttempt(h, t, a) \/ ClaimResume(h, t, a) BY DEF ClaimReady
<1>2. Grants(t) \subseteq Nat BY BudgetAssumption DEF Grants
<1>3. attempt' = [attempt EXCEPT ![t][a] = "running"] BY <1>1 DEF ClaimAttempt, ClaimResume
<1>4. Moves(t, {"ready", "resume_queued"}, {"running"})
  <2>1. status[t] \in {"ready", "resume_queued"} BY <1>1 DEF ClaimAttempt, ClaimResume
  <2>2. status' = [status EXCEPT ![t] = "running"]
    BY <1>1 DEF ClaimAttempt, ClaimResume, SetStatus, Reschedule
  <2> QED BY <2>1, <2>2 DEF Moves, Ripples, TypeOK
<1>5. CASE ClaimAttempt(h, t, a)
  <2>1. PICK ms \in Grants(t) : Launch(<<t, a, 1>>, ms) BY <1>5 DEF ClaimAttempt
  <2>2. PICK b \in Attempt : nextTaskAttemptOrdinal(t, b) /\ b <= a BY <1>5 DEF ClaimAttempt
  <2>3. a \in Int /\ b \in Int /\ \A c \in Attempt : c \in Int BY DEF Attempt
  <2>4. \A c \in Attempt : attempt[t][c] # "none" => c < b BY <2>2 DEF nextTaskAttemptOrdinal
  <2>5. \A c \in Attempt : attempt[t][c] # "none" => c <= a
    <3>1. ASSUME NEW c \in Attempt, c < b PROVE c <= a BY <2>2, <2>3, <3>1
    <3> QED BY <2>4, <3>1
  <2>6. attempt[t][a] = "none" BY <2>2, <2>3, <2>4
  <2>7. \A m \in 1..MaxSegment : ~Known(<<t, a, m>>)
    <3>1. \A m \in 1..MaxSegment : <<t, a, m>> \in SegmentId BY DEF SegmentId
    <3> QED BY <2>6, <3>1 DEF AttemptKnown, Known
  <2>8. 1 \in 1..MaxSegment BY BoundsAssumption
  <2> QED BY <1>2, <1>3, <1>4, <2>1, <2>5, <2>7, <2>8, SegmentStarts
<1>6. CASE ClaimResume(h, t, a)
  <2>1. PICK n \in 1..MaxSegment, ms \in Grants(t) : NextSegment(t, a, n) /\ Launch(<<t, a, n>>, ms)
    BY <1>6 DEF ClaimResume
  <2>2. \A b \in Attempt : attempt[t][b] # "none" => b <= a BY <1>6 DEF ClaimResume, LatestAttempt
  <2>3. \A m \in 1..MaxSegment : Known(<<t, a, m>>) => m <= n BY <2>1 DEF NextSegment, Known
  <2> QED BY <1>2, <1>3, <1>4, <2>1, <2>2, <2>3, SegmentStarts
<1> QED BY <1>1, <1>5, <1>6

\* Overwriting the status of an attempt that exists creates none.
LEMMA AttemptsSame ==
  ASSUME TypeOK, NEW t \in Task, NEW a \in Attempt, attempt[t][a] # "none",
         NEW STATE st, st # "none", attempt' = [attempt EXCEPT ![t][a] = st]
  PROVE  \A u \in Task, b \in Attempt : attempt'[u][b] = "none" <=> attempt[u][b] = "none"
BY DEF TypeOK

\* An event of an active segment finds its task dispatched.
LEMMA ActiveTask ==
  ASSUME AttemptKnown, Exclusive, NEW s \in SegmentId, Act(s)
  PROVE  /\ s[1] \in Task /\ s[2] \in Attempt
         /\ status[s[1]] \in Dispatched /\ attempt[s[1]][s[2]] # "none"
BY SegmentParts DEF AttemptKnown, Exclusive, Act, ActiveStatus

\* An unknown keeps its segment the active one.
LEMMA UnknownExclusive ==
  ASSUME TypeOK, SpoolKnown, AttemptKnown, Exclusive, NEW s \in SegmentId, CommitUnknown(s)
  PROVE  AttemptKnown' /\ Exclusive'
<1>1. CASE seg[s].status = "exited"
  BY <1>1, NothingChanges DEF CommitUnknown, taskVars, Act, Known
<1>2. CASE seg[s].status # "exited"
  <2>1. CommitEvent(s, "unknown") /\ ~Historical(s) BY DEF CommitUnknown
  <2>2. Act(s) BY <1>2, <2>1, HeadKnown, NotEnded DEF Act
  <2>3. /\ attempt' = [attempt EXCEPT ![s[1]][s[2]] = "unknown"] /\ SetStatus(s[1], "unknown")
        /\ seg' = [seg EXCEPT ![s] = Phase(seg[s], "unknown")]
    BY <1>2 DEF CommitUnknown
  <2>4. \A u \in Task, b \in Attempt : attempt'[u][b] = "none" <=> attempt[u][b] = "none"
    BY <2>2, <2>3, ActiveTask, AttemptsSame
  <2>5. \A r \in SegmentId : (Known(r)' <=> Known(r)) /\ (Act(r)' <=> Act(r))
    <3>1. seg[s] \in SegmentRecord BY DEF TypeOK
    <3>2. seg'[s].status = "unknown" /\ \A r \in SegmentId : r # s => seg'[r] = seg[r]
      BY <2>3, <3>1 DEF TypeOK, Phase, SegmentRecord
    <3> QED BY <2>2, <3>2 DEF Act, Known, ActiveStatus
  <2>6. Moves(s[1], Dispatched, {"unknown"}) BY <2>2, <2>3, ActiveTask, MoveOne
  <2>7. \A u \in Task : status'[u] \in Dispatched <=> status[u] \in Dispatched
    BY <2>6 DEF Moves, Ripples, Dispatched
  <2> QED BY <2>4, <2>5, <2>7, NothingChanges
<1> QED BY <1>1, <1>2

\* An exit leaves its task without an active segment.
LEMMA ExitExclusive ==
  ASSUME TypeOK, SpoolKnown, AttemptKnown, Exclusive, NEW s \in SegmentId, NEW ms \in Nat,
         NEW match \in BOOLEAN, CommitExit(s, ms, match)
  PROVE  AttemptKnown' /\ Exclusive'
<1> DEFINE to == ExitStatus(s[1], seg[s].outcome, match)
<1>1. CommitEvent(s, "exited") /\ ~Historical(s) /\ seg[s].status # "exited" BY DEF CommitExit
<1>2. Act(s) BY <1>1, HeadKnown, NotEnded DEF Act
<1>3. /\ attempt' = [attempt EXCEPT ![s[1]][s[2]] = to[1]]
      /\ seg' = [seg EXCEPT ![s] = Exited(seg[s], ms)]
  BY DEF CommitExit
<1>4. to[1] # "none" /\ {to[2]} \cap Dispatched = {} BY DEF ExitStatus, Dispatched
<1>5. \A u \in Task, b \in Attempt : attempt'[u][b] = "none" <=> attempt[u][b] = "none"
  BY <1>2, <1>3, <1>4, ActiveTask, AttemptsSame
<1>6. seg'[s].status = "exited" /\ \A r \in SegmentId : r # s => seg'[r] = seg[r]
  <2>1. seg[s] \in SegmentRecord BY DEF TypeOK
  <2>2. Exited(seg[s], ms).status = "exited" BY <2>1 DEF Exited, SegmentRecord
  <2> QED BY <1>3, <2>2 DEF TypeOK
<1>7. Known(s)' /\ ~Act(s)' BY <1>6 DEF Act, Known, ActiveStatus
<1>8. Moves(s[1], Dispatched, {to[2]}) BY <1>2, ActiveTask, ExitMoves
<1> QED BY <1>2, <1>4, <1>5, <1>6, <1>7, <1>8, SegmentEnds

\* A rejection leaves its task without an active segment.
LEMMA RejectionExclusive ==
  ASSUME TypeOK, AttemptKnown, Exclusive, NEW s \in SegmentId,
         NEW code \in BOOLEAN, CommitRejection(s, code)
  PROVE  AttemptKnown' /\ Exclusive'
<1>1. Act(s) BY DEF CommitRejection, RejectionProved, ActiveStatus, Act
<1>2. /\ attempt' = [attempt EXCEPT ![s[1]][s[2]] = "failed"]
      /\ seg' = [seg EXCEPT ![s] = NotStarted(seg[s])]
  BY DEF CommitRejection
<1>3. \A u \in Task, b \in Attempt : attempt'[u][b] = "none" <=> attempt[u][b] = "none"
  BY <1>1, <1>2, ActiveTask, AttemptsSame
<1>4. seg'[s].status = "not_started" /\ \A r \in SegmentId : r # s => seg'[r] = seg[r]
  <2>1. seg[s] \in SegmentRecord BY DEF TypeOK
  <2>2. NotStarted(seg[s]).status = "not_started" BY <2>1 DEF NotStarted, SegmentRecord
  <2> QED BY <1>2, <2>2 DEF TypeOK
<1>5. Known(s)' /\ ~Act(s)' BY <1>4 DEF Act, Known, ActiveStatus
<1>6. Moves(s[1], Dispatched, {"ready", "failed"}) BY <1>1, ActiveTask, RejectionMoves
<1>7. {"ready", "failed"} \cap Dispatched = {} BY DEF Dispatched
<1> QED BY <1>1, <1>3, <1>4, <1>5, <1>6, <1>7, SegmentEnds

\* The other host events end and start nothing and move no task.
LEMMA ProgressExclusive ==
  ASSUME TypeOK, SpoolKnown, AttemptKnown, Exclusive, NEW s \in SegmentId, NEW k \in EventKind,
         CommitHistory(s, k) \/ CommitPhase(s, k) \/ CommitOutcome(s, k) \/ CommitQuestion(s)
  PROVE  AttemptKnown' /\ Exclusive'
<1>1. status' = status /\ attempt' = attempt
  BY DEF CommitHistory, CommitPhase, CommitOutcome, CommitQuestion, taskVars, workVars
<1>2. \A r \in SegmentId : (Known(r)' <=> Known(r)) /\ (Act(r)' <=> Act(r))
  <2>0. seg \in [SegmentId -> SegmentRecord] BY DEF TypeOK
  <2>1. CASE seg' = seg BY <2>1 DEF Act, Known
  <2>2. CASE k \in ActiveStatus /\ seg[s].status \in ActiveStatus
             /\ seg' = [seg EXCEPT ![s] = Phase(seg[s], k)]
    <3>1. seg'[s].status = k BY <2>0, <2>2 DEF Phase, SegmentRecord
    <3> QED BY <2>0, <2>2, <3>1 DEF Act, Known, ActiveStatus
  <2>3. CASE seg' = [seg EXCEPT ![s] = Reported(seg[s], k)]
    <3>1. seg'[s].status = seg[s].status BY <2>0, <2>3 DEF Reported, SegmentRecord
    <3> QED BY <2>0, <2>3, <3>1 DEF Act, Known
  <2>4. CASE seg' = [seg EXCEPT ![s] = Asked(seg[s])]
    <3>1. seg'[s].status = seg[s].status BY <2>0, <2>4 DEF Asked, SegmentRecord
    <3> QED BY <2>0, <2>4, <3>1 DEF Act, Known
  <2>5. CASE CommitPhase(s, k)
    <3>1. k \in ActiveStatus BY <2>5 DEF CommitPhase, ActiveStatus
    <3>2. seg[s].status \in PhaseFrom[k] => seg[s].status \in ActiveStatus
      BY <2>5 DEF CommitPhase, PhaseFrom, ActiveStatus
    <3> QED BY <2>1, <2>2, <2>5, <3>1, <3>2 DEF CommitPhase
  <2>6. CASE CommitHistory(s, k) BY <2>1, <2>6 DEF CommitHistory, workVars
  <2>7. CASE CommitOutcome(s, k) BY <2>3, <2>7 DEF CommitOutcome
  <2>8. CASE CommitQuestion(s) BY <2>1, <2>4, <2>8 DEF CommitQuestion
  <2> QED BY <2>5, <2>6, <2>7, <2>8
<1> QED BY <1>1, <1>2, NothingChanges

\* No committed event makes a second segment of a task active.
LEMMA HostEventExclusive ==
  ASSUME TypeOK, SpoolKnown, AttemptKnown, Exclusive, NEW s \in SegmentId, CommitHostEvent(s)
  PROVE  AttemptKnown' /\ Exclusive'
<1>1. CASE \E k \in EventKind : CommitHistory(s, k) \/ CommitPhase(s, k) \/ CommitOutcome(s, k)
  BY <1>1, ProgressExclusive
<1>2. CASE CommitQuestion(s)
  <2>1. "question" \in EventKind BY DEF EventKind, OutcomeKind
  <2> QED BY <1>2, <2>1, ProgressExclusive
<1>3. CASE CommitUnknown(s) BY <1>3, UnknownExclusive
<1>4. CASE \E ms \in 0..(seg[s].granted + 1), match \in BOOLEAN : CommitExit(s, ms, match)
  <2>1. seg[s] \in SegmentRecord BY DEF TypeOK
  <2>2. seg[s].granted \in Nat BY <2>1 DEF SegmentRecord
  <2>3. \A ms \in 0..(seg[s].granted + 1) : ms \in Nat BY <2>2
  <2> QED BY <1>4, <2>3, ExitExclusive
<1>5. CASE \E code \in BOOLEAN : CommitRejection(s, code) BY <1>5, RejectionExclusive
<1> QED BY <1>1, <1>2, <1>3, <1>4, <1>5 DEF CommitHostEvent

\* A stop keeps its segment the active one.
LEMMA StopExclusive ==
  ASSUME TypeOK, AttemptKnown, Exclusive, NEW t \in Task, StopTask(t)
  PROVE  AttemptKnown' /\ Exclusive'
<1>1. PICK s \in SegmentId : Act(s) /\ s[1] = t /\ seg' = [seg EXCEPT ![s] = StopRequested(seg[s])]
  BY DEF StopTask, ActiveSegments, Act
<1>2. \A r \in SegmentId : (Known(r)' <=> Known(r)) /\ (Act(r)' <=> Act(r))
  <2>1. seg[s] \in SegmentRecord BY DEF TypeOK
  <2>2. seg'[s].status = "stopping" /\ \A r \in SegmentId : r # s => seg'[r] = seg[r]
    BY <1>1, <2>1 DEF TypeOK, StopRequested, SegmentRecord
  <2> QED BY <1>1, <2>2 DEF Act, Known, ActiveStatus
<1>3. Moves(t, Dispatched, {"stopping"}) BY <1>1, ActiveTask, MoveOne DEF StopTask
<1>4. \A u \in Task : status'[u] \in Dispatched <=> status[u] \in Dispatched
  BY <1>3 DEF Moves, Ripples, Dispatched
<1> QED BY <1>2, <1>4, NothingChanges DEF StopTask

\* MarkStoppingUnknown keeps each lost segment the active one of its task.
LEMMA LostExclusive ==
  ASSUME TypeOK, AttemptKnown, Exclusive, MarkStoppingUnknown
  PROVE  AttemptKnown' /\ Exclusive'
<1> DEFINE lost == {s \in SegmentId : seg[s].status \in {"stopping", "unknown"}}
<1>1. \A r \in SegmentId : (Known(r)' <=> Known(r)) /\ (Act(r)' <=> Act(r))
  <2>1. \A r \in SegmentId : seg[r] \in SegmentRecord /\ seg'[r] = Lost(seg[r])
    BY DEF TypeOK, MarkStoppingUnknown
  <2>2. \A r \in SegmentId :
          seg'[r].status = IF seg[r].status = "stopping" THEN "unknown" ELSE seg[r].status
    BY <2>1 DEF Lost, SegmentRecord
  <2> QED BY <2>2 DEF Act, Known, ActiveStatus
<1>2. \A s \in lost : Act(s) /\ status[s[1]] \in Dispatched /\ attempt[s[1]][s[2]] # "none"
  BY ActiveTask DEF Act, ActiveStatus
<1>3. \A u \in Task, b \in Attempt : attempt'[u][b] = "none" <=> attempt[u][b] = "none"
  BY <1>2 DEF MarkStoppingUnknown
<1>4. \A u \in Task : status'[u] \in Dispatched <=> status[u] \in Dispatched
  BY <1>2 DEF MarkStoppingUnknown, Reschedule, Dispatched
<1> QED BY <1>1, <1>3, <1>4, NothingChanges

-----------------------------------------------------------------------------
(* The owner's other decisions move one task that is not dispatched. *)

Waiting == {"queued", "ready", "resume_queued"}
Parked  == {"interrupted", "waiting_question", "result_ready", "failed"}
Resumed == {"ready", "resume_queued", "completed", "failed"}

\* A cancellation moves a waiting task to cancelled.
LEMMA CancelMoves == ASSUME TypeOK, NEW t \in Task, CancelTask(t) PROVE Moves(t, Waiting, {"cancelled"})
BY MoveBlocking DEF CancelTask, Waiting

\* QueueResume moves a task without an active segment.
LEMMA QueueResumeMoves == ASSUME TypeOK, NEW t \in Task, QueueResume(t) PROVE Moves(t, Parked, Resumed)
<1>1. Moves(t, Parked, {"resume_queued"}) BY MoveQueued DEF QueueResume, Parked
<1> QED BY <1>1 DEF Moves, Resumed

\* AnswerQuestion moves a task without an active segment.
LEMMA AnswerMoves == ASSUME TypeOK, NEW s \in SegmentId, AnswerQuestion(s) PROVE Moves(s[1], Parked, Resumed)
<1>1. Moves(s[1], Parked, {"resume_queued"}) BY SegmentParts, MoveQueued DEF AnswerQuestion, Parked
<1> QED BY <1>1 DEF Moves, Resumed

\* Accepting a result moves a task without an active segment.
LEMMA AcceptMoves == ASSUME TypeOK, NEW s \in SegmentId, AcceptResult(s) PROVE Moves(s[1], Parked, Resumed)
<1> DEFINE ts == [status EXCEPT ![s[1]] = "completed"]
<1>1. Reschedule(Promoted(ts), releaseReady(ts), binding) BY DEF AcceptResult
<1>2. status[s[1]] \in Parked BY DEF AcceptResult, Reviewable, Parked
<1>3. Moves(s[1], Parked, {"completed"}) BY <1>1, <1>2, SegmentParts, MoveReleasing
<1> QED BY <1>3 DEF Moves, Resumed

\* Rejecting a result moves a task without an active segment.
LEMMA RejectMoves == ASSUME TypeOK, NEW s \in SegmentId, RejectResult(s) PROVE Moves(s[1], Parked, Resumed)
<1> DEFINE ts == [status EXCEPT ![s[1]] = "failed"]
<1>1. status[s[1]] \in Parked BY DEF RejectResult, Reviewable, Parked
<1>2. CASE Reschedule(blockFailedDependencies(ts, AllFailed(ts)), {}, binding)
  <2>1. Moves(s[1], Parked, {"failed"}) BY <1>1, <1>2, SegmentParts, MoveBlocking
  <2> QED BY <2>1 DEF Moves, Resumed
<1>3. CASE SetStatus(s[1], "failed")
  <2>1. Moves(s[1], Parked, {"failed"}) BY <1>1, <1>3, SegmentParts, MoveOne
  <2> QED BY <2>1 DEF Moves, Resumed
<1> QED BY <1>2, <1>3 DEF RejectResult

\* A retry moves a task without an active segment.
LEMMA RetryMoves == ASSUME TypeOK, NEW s \in SegmentId, NEW k, QueueRetry(s, k) PROVE Moves(s[1], Parked, Resumed)
<1>1. status[s[1]] \in Parked BY DEF QueueRetry, Parked
<1>2. status' = [status EXCEPT ![s[1]] = "ready"] BY DEF QueueRetry, Enqueue, Reschedule
<1> QED BY <1>1, <1>2, SegmentParts DEF Moves, Ripples, Resumed, TypeOK

\* Every decision that moves a task that is not dispatched.
Decide(t) ==
  \/ CancelTask(t) \/ QueueResume(t)
  \/ \E s \in SegmentId : /\ s[1] = t
                           /\ \/ AnswerQuestion(s) \/ AcceptResult(s) \/ RejectResult(s)
                              \/ \E k \in {"failed", "result"} : QueueRetry(s, k)

\* Each decision of the owner but a stop moves one task that has no active segment.
LEMMA DecideMoves ==
  ASSUME TypeOK, NEW t \in Task, Decide(t)
  PROVE  Moves(t, Waiting, {"cancelled"}) \/ Moves(t, Parked, Resumed)
BY CancelMoves, QueueResumeMoves, AnswerMoves, AcceptMoves, RejectMoves, RetryMoves DEF Decide

\* No decision of the owner disturbs the one active segment of a task.
LEMMA DecideExclusive ==
  ASSUME TypeOK, AttemptKnown, Exclusive, NEW t \in Task, Decide(t)
  PROVE  AttemptKnown' /\ Exclusive'
<1>1. seg' = seg
  BY DEF Decide, CancelTask, QueueResume, AnswerQuestion, AcceptResult, RejectResult, QueueRetry, workVars
<1>2. \A u \in Task, b \in Attempt : attempt'[u][b] = "none" <=> attempt[u][b] = "none"
  <2>1. CASE attempt' = attempt BY <2>1
  <2>2. CASE \E s \in SegmentId : RejectResult(s)
    <3>1. PICK s \in SegmentId : RejectResult(s) BY <2>2
    <3>2. attempt[s[1]][s[2]] # "none" BY <3>1 DEF RejectResult, Reviewable, LatestSegment, LatestAttempt
    <3>3. attempt' = [attempt EXCEPT ![s[1]][s[2]] = "failed"] BY <3>1 DEF RejectResult
    <3> QED BY <3>2, <3>3, SegmentParts, AttemptsSame
  <2> QED BY <2>1, <2>2
        DEF Decide, CancelTask, QueueResume, AnswerQuestion, AcceptResult, QueueRetry, workVars
<1>3. \A u \in Task : status'[u] \in Dispatched <=> status[u] \in Dispatched
  BY DecideMoves DEF Moves, Ripples, Waiting, Parked, Resumed, Dispatched
<1> QED BY <1>1, <1>2, <1>3, NothingChanges DEF Act, Known

\* The steps that leave tasks, attempts and segments alone.
LEMMA OtherSteps ==
  ASSUME [Next]_vars
  PROVE  \/ /\ status' = status /\ attempt' = attempt /\ seg' = seg
            /\ binding' = binding \/ \E t \in Task : BackoffElapses(t)
         \/ \E h \in Host, t \in Task : ClaimReady(h, t)
         \/ \E s \in SegmentId : CommitHostEvent(s)
         \/ \E t \in Task : StopTask(t) \/ Decide(t)
         \/ MarkStoppingUnknown
<1> USE DEF vars, taskVars, workVars
<1>1. CASE HostNext
  BY <1>1 DEF HostNext, RegisterHost, BeginHostReconcile, HostReconciled, FinishHostReconcile,
              FinishStaleReconcile, MarkHostOffline, RetireHost
<1>2. CASE SegmentNext BY <1>2 DEF SegmentNext, HostAppend
<1>3. CASE OwnerNext
  <2>1. CASE \E t \in Task : CancelTask(t) \/ StopTask(t) \/ QueueResume(t) BY <2>1 DEF Decide
  <2>2. CASE \E t \in Task : BackoffElapses(t) BY <2>2 DEF BackoffElapses
  <2>3. CASE \E s \in SegmentId : \/ AnswerQuestion(s) \/ AcceptResult(s) \/ RejectResult(s)
                                  \/ \E k \in {"failed", "result"} : QueueRetry(s, k)
    BY <2>3, SegmentParts DEF Decide
  <2>4. CASE \E e \in pending : AckDecision(e) BY <2>4 DEF AckDecision
  <2> QED BY <1>3, <2>1, <2>2, <2>3, <2>4 DEF OwnerNext
<1>4. CASE BeginCoordinatorEpoch BY <1>4 DEF BeginCoordinatorEpoch
<1> QED BY <1>1, <1>2, <1>3, <1>4 DEF Next

\* Segments stay sound and exclusive in every reachable state.
LEMMA CoreInvariant == Spec => []CoreInv
<1>1. ASSUME Init PROVE AttemptKnown /\ Exclusive
  <2>1. \A s \in SegmentId : seg[s].status = "none"
    <3>1. \A s \in SegmentId : seg[s] = NoSegment BY <1>1 DEF Init
    <3>2. NoSegment.status = "none" BY DEF NoSegment
    <3> QED BY <3>1, <3>2
  <2>2. \A t \in Task : status[t] \notin Dispatched BY <1>1 DEF Init, Dispatched
  <2> QED BY <2>1, <2>2 DEF AttemptKnown, Exclusive, Act, ActiveStatus
<1>2. ASSUME SegmentInv, AttemptKnown, Exclusive, [Next]_vars PROVE AttemptKnown' /\ Exclusive'
  <2> USE <1>2 DEF SegmentInv
  <2>1. CASE status' = status /\ attempt' = attempt /\ seg' = seg
    BY <2>1, NothingChanges DEF Act, Known
  <2>2. CASE \E h \in Host, t \in Task : ClaimReady(h, t) BY <2>2, ClaimExclusive
  <2>3. CASE \E s \in SegmentId : CommitHostEvent(s) BY <2>3, HostEventExclusive
  <2>4. CASE \E t \in Task : StopTask(t) \/ Decide(t) BY <2>4, StopExclusive, DecideExclusive
  <2>5. CASE MarkStoppingUnknown BY <2>5, LostExclusive
  <2> QED BY <2>1, <2>2, <2>3, <2>4, <2>5, OtherSteps
<1>3. AttemptKnown /\ Exclusive /\ SegmentInv /\ [Next]_vars => (AttemptKnown /\ Exclusive)' BY <1>2
<1> QED BY <1>1, <1>3, SegmentInvInvariant, PTL DEF Spec, CoreInv

\* A task is dispatched exactly while one segment of it is active, its latest:
\* claims, stops, host events in any legal order, restarts and decisions never
\* let two segments of a task run together.
THEOREM AlwaysOneActiveSegment == Spec => []OneActiveSegment
<1>1. CoreInv => OneActiveSegment BY ExclusiveIsOne DEF CoreInv
<1> QED BY <1>1, CoreInvariant, PTL

-----------------------------------------------------------------------------
(* Dependencies. *)

\* Every way a task may move in one step.
TaskMoves(u) ==
  \/ Ripples(u)
  \/ status[u] \in Waiting /\ status'[u] = "cancelled"
  \/ /\ status[u] \in {"ready", "resume_queued"} \cup Dispatched \cup Parked
     /\ status'[u] \in {"ready", "resume_queued", "completed"} \cup Dispatched \cup Parked

\* A move is one of the changes of TaskMoves.
LEMMA MovesAre ==
  ASSUME NEW t \in Task, NEW from, NEW to, Moves(t, from, to),
         from \subseteq {"ready", "resume_queued"} \cup Dispatched \cup Parked,
         to \subseteq {"ready", "resume_queued", "completed"} \cup Dispatched \cup Parked,
         NEW u \in Task
  PROVE  TaskMoves(u)
BY DEF Moves, TaskMoves

\* A host event leaves every task where it is, or moves its own task, which is
\* dispatched, and lets the others ripple.
LEMMA EventStatus ==
  ASSUME CoreInv, NEW s \in SegmentId, CommitHostEvent(s)
  PROVE  \/ status' = status
         \/ \E to : /\ to \subseteq {"ready", "resume_queued", "completed"} \cup Dispatched \cup Parked
                    /\ Moves(s[1], Dispatched, to)
<1> USE DEF CoreInv, SegmentInv
<1>2. CASE \E k \in EventKind : CommitHistory(s, k) \/ CommitPhase(s, k) \/ CommitOutcome(s, k)
  BY <1>2 DEF CommitHistory, CommitPhase, CommitOutcome, taskVars
<1>3. CASE CommitQuestion(s) BY <1>3 DEF CommitQuestion, taskVars
<1>4. CASE CommitUnknown(s)
  <2>1. CASE seg[s].status = "exited" BY <1>4, <2>1 DEF CommitUnknown, taskVars
  <2>2. CASE seg[s].status # "exited"
    <3>1. CommitEvent(s, "unknown") /\ ~Historical(s) BY <1>4 DEF CommitUnknown
    <3>2. Act(s) BY <2>2, <3>1, HeadKnown, NotEnded DEF Act
    <3>3. Moves(s[1], Dispatched, {"unknown"})
      BY <1>4, <2>2, <3>2, ActiveTask, MoveOne DEF CommitUnknown
    <3>4. {"unknown"} \subseteq Dispatched BY DEF Dispatched
    <3> QED BY <3>3, <3>4
  <2> QED BY <2>1, <2>2
<1>5. CASE \E ms \in 0..(seg[s].granted + 1), match \in BOOLEAN : CommitExit(s, ms, match)
  <2>1. PICK ms, match : CommitExit(s, ms, match) BY <1>5
  <2>2. CommitEvent(s, "exited") /\ ~Historical(s) /\ seg[s].status # "exited"
    BY <2>1 DEF CommitExit
  <2>3. Act(s) BY <2>2, HeadKnown, NotEnded DEF Act
  <2>4. Moves(s[1], Dispatched, {ExitStatus(s[1], seg[s].outcome, match)[2]})
    BY <2>1, <2>3, ActiveTask, ExitMoves
  <2>5. ExitStatus(s[1], seg[s].outcome, match)[2] \in {"completed"} \cup Parked
    BY DEF ExitStatus, Parked
  <2> QED BY <2>4, <2>5
<1>6. CASE \E code \in BOOLEAN : CommitRejection(s, code)
  <2>1. PICK code : CommitRejection(s, code) BY <1>6
  <2>2. Act(s) BY <2>1 DEF CommitRejection, RejectionProved, ActiveStatus, Act
  <2>3. Moves(s[1], Dispatched, {"ready", "failed"}) BY <2>1, <2>2, ActiveTask, RejectionMoves
  <2>4. "failed" \in Parked BY DEF Parked
  <2> QED BY <2>3, <2>4
<1> QED BY <1>2, <1>3, <1>4, <1>5, <1>6 DEF CommitHostEvent

\* Every step changes the task table only as TaskMoves says.
LEMMA TaskStep ==
  ASSUME CoreInv, [Next]_vars, NEW u \in Task PROVE TaskMoves(u)
<1> USE DEF CoreInv, SegmentInv
<1>1. CASE status' = status BY <1>1 DEF TaskMoves, Ripples
<1>2. CASE \E h \in Host, t \in Task : ClaimReady(h, t)
  <2>1. PICK t \in Task : status[t] \in {"ready", "resume_queued"}
                          /\ status' = [status EXCEPT ![t] = "running"]
    BY <1>2 DEF ClaimReady, ClaimAttempt, ClaimResume, SetStatus, Reschedule
  <2> QED BY <2>1 DEF TypeOK, TaskMoves, Ripples, Dispatched
<1>3. CASE \E s \in SegmentId : CommitHostEvent(s)
  <2>1. PICK s \in SegmentId : CommitHostEvent(s) BY <1>3
  <2>2. CASE \E to : /\ to \subseteq {"ready", "resume_queued", "completed"} \cup Dispatched \cup Parked
                     /\ Moves(s[1], Dispatched, to)
    BY <2>2, MovesAre, SegmentParts
  <2> QED BY <1>1, <2>1, <2>2, EventStatus
<1>4. CASE \E t \in Task : StopTask(t)
  <2>1. PICK t \in Task : StopTask(t) BY <1>4
  <2>2. PICK s \in SegmentId : Act(s) /\ s[1] = t BY <2>1 DEF StopTask, ActiveSegments, Act
  <2>3. Moves(t, Dispatched, {"stopping"}) BY <2>1, <2>2, ActiveTask, MoveOne DEF StopTask
  <2>4. {"stopping"} \subseteq Dispatched BY DEF Dispatched
  <2> QED BY <2>3, <2>4, MovesAre
<1>5. CASE \E t \in Task : Decide(t)
  <2>1. PICK t \in Task : Decide(t) BY <1>5
  <2>2. CASE Moves(t, Waiting, {"cancelled"}) BY <2>2 DEF Moves, TaskMoves
  <2>3. CASE Moves(t, Parked, Resumed)
    <3>1. Resumed \subseteq {"ready", "resume_queued", "completed"} \cup Dispatched \cup Parked
      BY DEF Resumed, Parked
    <3> QED BY <2>3, <3>1, MovesAre
  <2> QED BY <2>1, <2>2, <2>3, DecideMoves
<1>6. CASE MarkStoppingUnknown
  <2> DEFINE lost == {s \in SegmentId : seg[s].status \in {"stopping", "unknown"}}
  <2>1. \A s \in lost : status[s[1]] \in Dispatched BY ActiveTask DEF Act, ActiveStatus
  <2> QED BY <1>6, <2>1 DEF MarkStoppingUnknown, Reschedule, TaskMoves, Ripples, Dispatched
<1> QED BY <1>1, <1>2, <1>3, <1>4, <1>5, <1>6, OtherSteps

\* A completed task stays completed, and a task's dependencies are completed
\* before it leaves the waiting states.
LEMMA DependenciesStep ==
  ASSUME CoreInv, DependenciesDone, [Next]_vars PROVE DependenciesDone'
<1>1. \A d \in Task : status[d] = "completed" => status'[d] = "completed"
  BY TaskStep DEF TaskMoves, Ripples, Waiting, Parked, Dispatched
<1>2. SUFFICES ASSUME NEW t \in Task, status'[t] \notin {"queued", "blocked_dependency", "cancelled"},
                      NEW d \in Deps[t]
               PROVE  status'[d] = "completed"
  BY DEF DependenciesDone
<1>3. d \in Task BY PlanAssumption
<1>4. CASE status[t] \notin {"queued", "blocked_dependency", "cancelled"}
  BY <1>1, <1>3, <1>4 DEF DependenciesDone
<1>5. CASE status[t] \in {"queued", "blocked_dependency", "cancelled"}
  BY <1>2, <1>5, TaskStep DEF TaskMoves, Ripples, Waiting, Parked, Dispatched
<1> QED BY <1>4, <1>5

\* No task is dispatched, reviewed or retried before every task it depends on
\* has completed, and no later event of a dependency takes that back.
THEOREM DependenciesAlwaysDone == Spec => []DependenciesDone
<1>1. Init => DependenciesDone BY PlanAssumption DEF Init, DependenciesDone
<1>2. CoreInv /\ DependenciesDone /\ [Next]_vars => DependenciesDone' BY DependenciesStep
<1> QED BY <1>1, <1>2, CoreInvariant, PTL DEF Spec

-----------------------------------------------------------------------------
(* Stops. *)

\* The step that ends a stopped segment interrupts or fails its task and queues no retry.
LEMMA StopStep ==
  ASSUME CoreInv, [Next]_vars, NEW s \in SegmentId, seg[s].stop # "none",
         seg[s].status \in ActiveStatus, seg'[s].status \in TerminalStatus
  PROVE  status'[s[1]] \in {"interrupted", "failed"} /\ retried' = retried
<1> USE DEF CoreInv, SegmentInv
<1>0. seg[s] \in SegmentRecord /\ s[1] \in Task BY SegmentParts DEF TypeOK
<1>1. seg'[s] # seg[s] BY DEF ActiveStatus, TerminalStatus
<1>2. CASE \E h \in Host, t \in Task : ClaimReady(h, t)
  <2>1. PICK r, ms : Launch(r, ms) BY <1>2 DEF ClaimReady, ClaimAttempt, ClaimResume
  <2>2. Granted(ms).status = "launch_requested" BY DEF Granted, NoSegment
  <2>3. seg'[s] = seg[s] \/ seg'[s] = Granted(ms) BY <2>1 DEF Launch, TypeOK
  <2> QED BY <1>1, <2>2, <2>3 DEF TerminalStatus
<1>3. CASE \E r \in SegmentId : CommitHostEvent(r)
  <2>1. PICK r \in SegmentId : CommitHostEvent(r) BY <1>3
  <2>2. CASE \E k \in EventKind : CommitHistory(r, k) BY <1>1, <2>2 DEF CommitHistory, workVars
  <2>3. CASE \E k \in EventKind : CommitPhase(r, k)
    <3>1. PICK k \in EventKind : CommitPhase(r, k) BY <2>3
    <3>2. seg'[s] = seg[s] \/ seg'[s] = Phase(seg[s], k) BY <3>1 DEF CommitPhase, TypeOK
    <3>3. Phase(seg[s], k).status = k BY <1>0 DEF Phase, SegmentRecord
    <3> QED BY <1>1, <3>1, <3>2, <3>3 DEF CommitPhase, TerminalStatus
  <2>4. CASE \E k \in EventKind : CommitOutcome(r, k)
    <3>1. PICK k \in EventKind : CommitOutcome(r, k) BY <2>4
    <3>2. seg'[s] = seg[s] \/ seg'[s] = Reported(seg[s], k) BY <3>1 DEF CommitOutcome, TypeOK
    <3>3. Reported(seg[s], k).status = seg[s].status BY <1>0 DEF Reported, SegmentRecord
    <3> QED BY <3>2, <3>3 DEF ActiveStatus, TerminalStatus
  <2>5. CASE CommitQuestion(r)
    <3>1. seg'[s] = seg[s] \/ seg'[s] = Asked(seg[s])
      <4>1. seg' = seg \/ seg' = [seg EXCEPT ![r] = Asked(seg[r])] BY <2>5 DEF CommitQuestion
      <4>2. seg \in [SegmentId -> SegmentRecord] BY DEF TypeOK
      <4> QED BY <4>1, <4>2
    <3>2. Asked(seg[s]).status = seg[s].status BY <1>0 DEF Asked, SegmentRecord
    <3> QED BY <3>1, <3>2 DEF ActiveStatus, TerminalStatus
  <2>6. CASE CommitUnknown(r)
    <3>1. seg'[s] = seg[s] \/ seg'[s] = Phase(seg[s], "unknown") BY <2>6 DEF CommitUnknown, TypeOK
    <3>2. Phase(seg[s], "unknown").status = "unknown" BY <1>0 DEF Phase, SegmentRecord
    <3> QED BY <3>1, <3>2 DEF ActiveStatus, TerminalStatus
  <2>7. CASE \E ms \in 0..(seg[r].granted + 1), match \in BOOLEAN : CommitExit(r, ms, match)
    <3>1. PICK ms, match : CommitExit(r, ms, match) BY <2>7
    <3>2. r = s BY <1>1, <3>1 DEF CommitExit, TypeOK
    <3>3. seg[s].outcome \in {"stopped", "launch_rejected"} BY DEF Sound
    <3>4. ExitStatus(s[1], seg[s].outcome, match)[2] = "interrupted" BY <3>3 DEF ExitStatus
    <3>5. Moves(s[1], Dispatched, {ExitStatus(s[1], seg[s].outcome, match)[2]})
      BY <3>1, <3>2, ActiveTask, ExitMoves DEF Act
    <3> QED BY <3>1, <3>4, <3>5 DEF Moves, CommitExit
  <2>8. CASE \E code \in BOOLEAN : CommitRejection(r, code)
    <3>1. PICK code : CommitRejection(r, code) BY <2>8
    <3>2. r = s BY <1>1, <3>1 DEF CommitRejection, TypeOK
    <3> DEFINE sg == [seg EXCEPT ![s] = NotStarted(seg[s])]
    <3>3. Stopped(sg[s])
      <4>1. sg[s] = NotStarted(seg[s]) BY DEF TypeOK
      <4>2. NotStarted(seg[s]).stop # "none" BY <1>0 DEF NotStarted, SegmentRecord
      <4> QED BY <4>1, <4>2 DEF Stopped
    <3>4. ~AutoRetry(s, sg, code) BY <3>3 DEF AutoRetry
    <3>5. /\ retried' = retried
          /\ Reschedule(blockFailedDependencies([status EXCEPT ![s[1]] = "failed"], {s[1]}), {}, binding)
      BY <3>1, <3>2, <3>4 DEF CommitRejection
    <3>6. Moves(s[1], Dispatched, {"failed"}) BY <1>0, <3>5, ActiveTask, MoveBlocking DEF Act
    <3> QED BY <3>5, <3>6 DEF Moves
  <2> QED BY <2>1, <2>2, <2>3, <2>4, <2>5, <2>6, <2>7, <2>8 DEF CommitHostEvent
<1>4. CASE \E t \in Task : StopTask(t)
  <2>1. seg'[s] = seg[s] \/ seg'[s] = StopRequested(seg[s]) BY <1>4 DEF StopTask, ActiveSegments, TypeOK
  <2>2. StopRequested(seg[s]).status = "stopping" BY <1>0 DEF StopRequested, SegmentRecord
  <2> QED BY <1>1, <2>1, <2>2 DEF TerminalStatus
<1>5. CASE MarkStoppingUnknown
  <2>1. seg'[s] = Lost(seg[s]) BY <1>5 DEF MarkStoppingUnknown
  <2>2. Lost(seg[s]).status \in ActiveStatus BY <1>0 DEF Lost, SegmentRecord, ActiveStatus
  <2> QED BY <2>1, <2>2 DEF ActiveStatus, TerminalStatus
<1>6. CASE \E t \in Task : Decide(t)
  BY <1>1, <1>6 DEF Decide, CancelTask, QueueResume, AnswerQuestion, AcceptResult, RejectResult,
                    QueueRetry, workVars
<1> QED BY <1>1, <1>2, <1>3, <1>4, <1>5, <1>6, OtherSteps

\* A stop is never undone: a stopped segment ends with its task interrupted or
\* failed, and no retry is queued for it by the event that ends it.
THEOREM StoppedNeverRestarts == Spec => StopNeverRestarts
<1>1. ASSUME CoreInv, [Next]_vars
      PROVE  \A s \in SegmentId :
               seg[s].stop # "none" /\ seg[s].status \in ActiveStatus /\ seg[s].status' \in TerminalStatus
                 => status'[s[1]] \in {"interrupted", "failed"} /\ retried' = retried
  BY <1>1, StopStep
<1>2. CoreInv /\ [Next]_vars =>
        [\A s \in SegmentId :
           seg[s].stop # "none" /\ seg[s].status \in ActiveStatus /\ seg[s].status' \in TerminalStatus
             => status'[s[1]] \in {"interrupted", "failed"} /\ retried' = retried]_vars
  BY <1>1
<1> QED BY <1>2, CoreInvariant, PTL DEF Spec, StopNeverRestarts

-----------------------------------------------------------------------------
(* Released launches. *)

\* ReleasedIsFinal, with what makes it inductive: a released host is not on its way in.
Shut ==
  \A h \in released :
    /\ hostStatus[h] \in {"released", "offline"} /\ h \notin joining
    /\ \A s \in SegmentId : Act(s) => HostOf[s[1]] # h

\* Segments become active only by a claim for a ready host.
LEMMA NewlyActive ==
  ASSUME TypeOK, NEW s \in SegmentId, SegmentMoves(s), Act(s)', ~Act(s)
  PROVE  hostStatus[HostOf[s[1]]] = "ready"
<1>0. seg[s] \in SegmentRecord BY DEF TypeOK
<1>1. \A k : Reported(seg[s], k).status = seg[s].status BY <1>0 DEF Reported, SegmentRecord
<1>2. Lost(seg[s]).status \in ActiveStatus => seg[s].status \in ActiveStatus
  BY <1>0 DEF Lost, SegmentRecord, ActiveStatus
<1> QED BY <1>1, <1>2 DEF SegmentMoves, Progress, Act

\* The steps that change a host.
LEMMA HostSteps ==
  ASSUME [Next]_vars
  PROVE  \/ UNCHANGED hostVars
         \/ \E g \in Host : RegisterHost(g)
         \/ \E g \in Host : BeginHostReconcile(g)
         \/ \E g \in Host : HostReconciled(g) \/ FinishHostReconcile(g) \/ FinishStaleReconcile(g)
                           \/ MarkHostOffline(g)
         \/ BeginCoordinatorEpoch
         \/ \E g \in Host : RetireHost(g)
<1>1. CASE HostNext BY <1>1 DEF HostNext, ClaimReady
<1>2. CASE SegmentNext BY <1>2, CommitsEvent DEF SegmentNext, HostAppend, CommitEvent
<1>3. CASE OwnerNext
  BY <1>3 DEF OwnerNext, CancelTask, StopTask, QueueResume, BackoffElapses, AnswerQuestion,
              AcceptResult, RejectResult, QueueRetry, AckDecision
<1>4. CASE MarkStoppingUnknown BY <1>4 DEF MarkStoppingUnknown
<1>5. CASE UNCHANGED vars BY <1>5 DEF vars
<1> QED BY <1>1, <1>2, <1>3, <1>4, <1>5 DEF Next

\* No step revives a released launch.
LEMMA ShutStep == ASSUME CoreInv, Shut, [Next]_vars PROVE Shut'
<1> USE DEF CoreInv, SegmentInv
<1>1. ASSUME NEW h \in released PROVE \A s \in SegmentId : Act(s)' => HostOf[s[1]] # h
  BY <1>1, SegmentStep, NewlyActive DEF Shut
<1>2. CASE released' = released
  <2>1. SUFFICES ASSUME NEW h \in released
                 PROVE  hostStatus'[h] \in {"released", "offline"} /\ h \notin joining'
    BY <1>1, <1>2 DEF Shut
  <2>2. hostStatus[h] \in {"released", "offline"} /\ h \notin joining /\ h \in Host
    BY DEF Shut, TypeOK
  <2>3. CASE UNCHANGED hostVars BY <2>2, <2>3 DEF hostVars
  <2>4. CASE \E g \in Host : RegisterHost(g)
    <3>1. PICK g \in Host : RegisterHost(g) BY <2>4
    <3>2. g # h BY <3>1 DEF RegisterHost, Welcome
    <3> QED BY <2>2, <3>1, <3>2 DEF RegisterHost, TypeOK
  <2>5. CASE \E g \in Host : BeginHostReconcile(g)
    <3>1. PICK g \in Host : BeginHostReconcile(g) BY <2>5
    <3>2. g # h BY <2>2, <3>1 DEF BeginHostReconcile
    <3> QED BY <2>2, <3>1, <3>2 DEF BeginHostReconcile, TypeOK
  <2>6. CASE \E g \in Host : HostReconciled(g) \/ FinishHostReconcile(g) \/ FinishStaleReconcile(g)
                             \/ MarkHostOffline(g)
    BY <2>2, <2>6 DEF HostReconciled, FinishHostReconcile, FinishStaleReconcile, MarkHostOffline, TypeOK
  <2>7. CASE BeginCoordinatorEpoch BY <2>2, <2>7 DEF BeginCoordinatorEpoch
  <2>8. CASE \E g \in Host : RetireHost(g)
    <3>1. PICK g \in Host : RetireHost(g) BY <2>8
    <3> QED BY <2>2, <3>1 DEF RetireHost, TypeOK
  <2> QED BY <2>3, <2>4, <2>5, <2>6, <2>7, <2>8, HostSteps
<1>3. CASE \E g \in Host : RetireHost(g)
  <2>1. PICK g \in Host : RetireHost(g) BY <1>3
  <2>2. /\ released' = released \cup {g} /\ joining' = joining /\ g \notin joining /\ seg' = seg
        /\ hostStatus' = [hostStatus EXCEPT ![g] = "released"]
    BY <2>1 DEF RetireHost, workVars
  <2>3. \A s \in SegmentId : Act(s) => HostOf[s[1]] # g
    BY <2>1, SegmentParts DEF RetireHost, Retirable, HasActive, ActiveSegments, Act
  <2> QED BY <2>2, <2>3 DEF Shut, TypeOK, Act
<1> QED BY <1>2, <1>3, HostSteps DEF hostVars, RegisterHost, BeginHostReconcile, HostReconciled,
           FinishHostReconcile, FinishStaleReconcile, MarkHostOffline, BeginCoordinatorEpoch

\* A released launch stays released over disconnections, coordinator restarts
\* and replaced connections: no segment of it is ever active again.
THEOREM ReleasedStaysReleased == Spec => []ReleasedIsFinal
<1>1. Init => Shut BY DEF Init, Shut
<1>2. CoreInv /\ Shut /\ [Next]_vars => Shut' BY ShutStep
<1>3. Shut => ReleasedIsFinal BY DEF Shut, ReleasedIsFinal, ActiveSegments, Act
<1> QED BY <1>1, <1>2, <1>3, CoreInvariant, PTL DEF Spec
=============================================================================
