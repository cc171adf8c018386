--------------------------- MODULE ReportChannel ---------------------------
(***************************************************************************)
(* The channel over which the worker of a segment reports questions,       *)
(* results and progress to the coordinator (store/reports.go,              *)
(* store/report_intake.go, store/host_events.go, host/report.go,           *)
(* host/source_report_registry.go, host/source_runtime.go).                *)
(*                                                                         *)
(* A report reaches the store beside the host's event spool, so the two    *)
(* meet in every order.  A question needs the provider's session, which    *)
(* only the spool brings: it waits for it as pending_session, and is       *)
(* materialized by the commit of the session event.  A report with an      *)
(* artifact takes two transactions with a copy between them.               *)
(***************************************************************************)
EXTENDS Integers, Sequences, FiniteSets, SequencesExt

CONSTANTS Questions, Results, Progress, \* the events a worker may report, by kind
          Handlers,    \* report requests served concurrently
          MaxSegments, \* bound on the segments of the task
          MaxReports,  \* bound on the reports of a segment
          MaxFaults,   \* bound on broken connections and restarts
          OwnerStops,  \* whether the owner stops the task
          NativeQuestions, \* whether the provider may end with a question itself
          Continued,   \* whether an answer is bound to a continuation decision
          Managed      \* whether a retry is a managed one, which revokes

ReportChannelParameters ==
    /\ MaxSegments \in Nat \ {0} /\ MaxReports \in Nat /\ MaxFaults \in Nat
    /\ {OwnerStops, NativeQuestions, Continued, Managed} \subseteq BOOLEAN

Segments == 1..MaxSegments
Events == Questions \cup Results \cup Progress
Idle == [seg |-> 0]

VARIABLES
    task,      \* tasks.status
    seg,       \* segment_runtime.status
    outcome,   \* segment_runtime.outcome
    stop,      \* stop_runtime.reason
    question,  \* runtime_questions.status of the question a segment asked
    session,   \* segment_sessions: segments whose session is known
    cap,       \* report_capabilities: status, whether a token is bound, epoch
    reports,   \* report_events of a capability, by sequence
    intake,    \* managed_artifact_intakes of a capability
    handler,   \* report requests between their two transactions
    hostRow,   \* runtime_hosts.status
    epoch,     \* the coordinator's epoch, and the host row's
    link,      \* the host's connection
    backlog,   \* events left of the spool that connect() publishes
    toReplay,  \* registrations left to replay on this connection
    registry,  \* sourceReportRegistry: the bindings the host remembers
    worker,    \* how far the host has got with a segment
    announced, \* segments whose session event the host has appended
    spool,     \* host events the coordinator has not committed
    faults

store == <<task, seg, outcome, stop, question, session>>
channel == <<cap, reports, intake, handler>>
connection == <<hostRow, epoch, link, backlog, toReplay, faults>>
host == <<registry, worker, announced, spool>>
vars == <<store, channel, connection, host>>

TaskStatus == {"ready", "resume_queued", "running", "stopping",
               "waiting_question", "interrupted", "result_ready", "failed"}
OpenStatus == {"open", "resume_queued", "resume_started"}
Report == [event : Events, session : BOOLEAN,
           status : {"internal", "pending", "pending_session"}]
Intake == [n : 1..MaxReports, event : Events, phase : {"prepared", "committed"}]
Call == [seg : Segments, n : 1..MaxReports, event : Events, epoch : Nat]
HostEvents == Segments \X {"running", "session", "question", "result", "failed",
                           "stopped", "exited", "rejected"}

TypeOK ==
    /\ task \in TaskStatus
    /\ seg \in [Segments -> {"none", "launch_requested", "running", "stopping",
                             "exited", "not_started"}]
    /\ outcome \in [Segments -> {"", "question", "result", "failed", "stopped"}]
    /\ stop \in [Segments -> {"none", "waiting_question", "owner"}]
    /\ question \in [Segments -> {"none", "resolved"} \cup OpenStatus]
    /\ session \in SUBSET Segments
    /\ cap \in [Segments -> [status : {"none", "pending", "registered", "revoked"},
                             bound : BOOLEAN, epoch : Nat]]
    /\ reports \in [Segments -> Seq(Report)]
    /\ intake \in [Segments -> SUBSET Intake]
    /\ handler \in [Handlers -> {Idle} \cup Call]
    /\ hostRow \in {"ready", "reconciling", "offline"} /\ epoch \in Nat
    /\ link \in {"down", "publishing", "registering", "up"} /\ backlog \in Nat
    /\ toReplay \in SUBSET Segments /\ registry \in SUBSET Segments
    /\ worker \in [Segments -> {"none", "preparing", "registered", "running", "ended"}]
    /\ announced \in SUBSET Segments
    /\ spool \in Seq(HostEvents) /\ faults \in 0..MaxFaults

Init ==
    /\ task = "ready"
    /\ seg = [s \in Segments |-> "none"] /\ outcome = [s \in Segments |-> ""]
    /\ stop = [s \in Segments |-> "none"] /\ question = [s \in Segments |-> "none"]
    /\ session = {}
    /\ cap = [s \in Segments |-> [status |-> "none", bound |-> FALSE, epoch |-> 0]]
    /\ reports = [s \in Segments |-> <<>>] /\ intake = [s \in Segments |-> {}]
    /\ handler = [h \in Handlers |-> Idle]
    /\ hostRow = "ready" /\ epoch = 1 /\ link = "up" /\ backlog = 0
    /\ toReplay = {} /\ registry = {} /\ worker = [s \in Segments |-> "none"]
    /\ announced = {} /\ spool = <<>> /\ faults = 0

-----------------------------------------------------------------------------
(* Claims, and the owner. *)

\* Reports of questions that wait for the session of their segment.
Waiting(s) == {n \in DOMAIN reports[s] : reports[s][n].status = "pending_session"}
Latest(s) == seg[s] # "none" /\ \A r \in Segments : r > s => seg[r] = "none"

\* ClaimReady: the segment gets a pending capability; a queued answer starts.
Claim(s) ==
    /\ task \in {"ready", "resume_queued"} /\ hostRow = "ready" /\ link = "up"
    /\ seg[s] = "none" /\ \A r \in Segments : r < s => seg[r] # "none"
    /\ seg' = [seg EXCEPT ![s] = "launch_requested"]
    /\ cap' = [cap EXCEPT ![s] = [status |-> "pending", bound |-> FALSE, epoch |-> epoch]]
    /\ task' = "running"
    /\ question' = IF task = "ready" THEN question
                   ELSE [r \in Segments |-> IF question[r] = "resume_queued"
                                            THEN "resume_started" ELSE question[r]]
    /\ UNCHANGED <<outcome, stop, session, reports, intake, handler, connection, host>>

\* requestStopTx: an active segment is stopped once, with the outcome 'stopped'.
RequestStop(s) ==
    /\ OwnerStops /\ seg[s] \in {"launch_requested", "running"} /\ stop[s] = "none"
    /\ stop' = [stop EXCEPT ![s] = "owner"]
    /\ seg' = [seg EXCEPT ![s] = "stopping"]
    /\ outcome' = [outcome EXCEPT ![s] = "stopped"]
    /\ task' = "stopping"
    /\ UNCHANGED <<question, session, channel, connection, host>>

AnswerQuestion(s) ==
    /\ task = "waiting_question" /\ Latest(s) /\ question[s] = "open"
    /\ question' = [question EXCEPT ![s] = "resume_queued"]
    /\ task' = "resume_queued"
    /\ UNCHANGED <<seg, outcome, stop, session, channel, connection, host>>

QueueResume ==
    /\ task = "interrupted"
    /\ task' = "resume_queued"
    /\ UNCHANGED <<seg, outcome, stop, question, session, channel, connection, host>>

\* queueRetry: a managed retry needs every question settled and revokes every
\* capability of the task.
QueueRetry ==
    /\ task = "failed"
    /\ Managed => \A s \in Segments : question[s] \notin OpenStatus /\ Waiting(s) = {}
    /\ task' = "ready"
    /\ cap' = [s \in Segments |->
                 IF Managed /\ cap[s].status # "none"
                 THEN [cap[s] EXCEPT !.status = "revoked"] ELSE cap[s]]
    /\ UNCHANGED <<seg, outcome, stop, question, session, reports, intake, handler,
                   connection, host>>

-----------------------------------------------------------------------------
(* Registration of the capability. *)

\* prepareReportCapability remembers the binding before it sends it.
Remember(s) ==
    /\ seg[s] \in {"launch_requested", "stopping"} /\ worker[s] = "none" /\ link = "up"
    /\ worker' = [worker EXCEPT ![s] = "preparing"]
    /\ registry' = registry \cup {s}
    /\ UNCHANGED <<announced, spool, store, channel, connection>>

\* Mutant: a capability revoked before it was registered cannot be bound.
RegistrableLive(s) ==
    /\ cap[s].status # "none" /\ hostRow \in {"ready", "reconciling"}
    /\ cap[s].status = "revoked" => cap[s].bound
\* RegisterReportCapability accepts the host's own token for a pending row, a
\* bound row, and a revoked row without history, which it binds.
Registrable(s) ==
    /\ cap[s].status # "none" /\ hostRow \in {"ready", "reconciling"}
    /\ cap[s].status = "revoked" /\ ~cap[s].bound => reports[s] = <<>>

RegisterReportCapability(s) ==
    /\ Registrable(s)
    /\ cap' = [cap EXCEPT ![s] =
                 [status |-> IF cap[s].status = "revoked" THEN "revoked" ELSE "registered",
                  bound |-> TRUE, epoch |-> epoch]]

\* The worker of the segment may start once its registration is acknowledged;
\* the acknowledgement may be lost.
Register(s) ==
    /\ worker[s] = "preparing" /\ link = "up"
    /\ RegisterReportCapability(s)
    /\ \E ack \in {"preparing", "registered"} : worker' = [worker EXCEPT ![s] = ack]
    /\ UNCHANGED <<store, reports, intake, handler, connection, registry, announced, spool>>

\* sourceReportRegistry.replay, one binding at a time.
ReplayRegistration(s) ==
    /\ link = "registering" /\ s \in toReplay
    /\ RegisterReportCapability(s)
    /\ toReplay' = toReplay \ {s}
    /\ UNCHANGED <<store, reports, intake, handler, hostRow, epoch, link, backlog, faults, host>>

-----------------------------------------------------------------------------
(* The host runs the segment. *)

Append2(s, k) == spool \o <<<<s, k>>, <<s, "exited">>>>

\* The preparation fails, or a stop is known before the process starts.
RejectLaunch(s) ==
    /\ worker[s] \in {"preparing", "registered"}
    /\ worker' = [worker EXCEPT ![s] = "ended"]
    /\ spool' = Append(spool, <<s, "rejected">>)
    /\ UNCHANGED <<store, channel, connection, registry, announced>>

Start(s) ==
    /\ worker[s] = "registered"
    /\ worker' = [worker EXCEPT ![s] = "running"]
    /\ spool' = Append(spool, <<s, "running">>)
    /\ UNCHANGED <<store, channel, connection, registry, announced>>

\* The provider's output names its session.
AnnounceSession(s) ==
    /\ worker[s] = "running" /\ s \notin announced
    /\ announced' = announced \cup {s}
    /\ spool' = Append(spool, <<s, "session">>)
    /\ UNCHANGED <<store, channel, connection, registry, worker>>

\* The process ends by itself.
End(s, k) ==
    /\ worker[s] = "running"
    /\ k = "question" => NativeQuestions /\ s \in announced
    /\ worker' = [worker EXCEPT ![s] = "ended"]
    /\ spool' = Append2(s, k)
    /\ UNCHANGED <<store, channel, connection, registry, announced>>

\* The host has received the stop command and ends the process.
StopWorker(s) ==
    /\ worker[s] = "running" /\ stop[s] # "none" /\ link = "up"
    /\ worker' = [worker EXCEPT ![s] = "ended"]
    /\ spool' = Append2(s, "stopped")
    /\ UNCHANGED <<store, channel, connection, registry, announced>>

-----------------------------------------------------------------------------
(* Questions. *)

\* applyEvent of a question: a segment that has exited ignores it, one that has
\* an outcome refuses it.
ApplyQuestion(s) ==
    \/ seg[s] = "exited" /\ UNCHANGED <<question, outcome>>
    \/ /\ seg[s] # "exited" /\ outcome[s] = ""
       /\ question' = [question EXCEPT ![s] = "open"]
       /\ outcome' = [outcome EXCEPT ![s] = "question"]

\* ensureQuestionStop: a segment that executes is stopped to wait for the
\* answer; without that stop, or with another one, the question is refused.
EnsureQuestionStop(s) ==
    \/ stop[s] = "waiting_question" /\ UNCHANGED <<task, seg, stop>>
    \/ /\ stop[s] = "none" /\ seg[s] = "running"
       /\ stop' = [stop EXCEPT ![s] = "waiting_question"]
       /\ seg' = [seg EXCEPT ![s] = "stopping"]
       /\ task' = "stopping"

Ask(s) == ApplyQuestion(s) /\ EnsureQuestionStop(s)

AsksOf(r, s) ==
    \/ question[r] \in {"open", "resume_queued"}
    \/ question[r] = "resume_started" /\ ~(Continued /\ r # s)
\* openQuestions = 0 in commitReportEventPrepared.
MayAsk(s) == \A r \in Segments : ~AsksOf(r, s) /\ Waiting(r) = {}

-----------------------------------------------------------------------------
(* The commit of the host's events. *)

Materialized(s) ==
    [n \in DOMAIN reports[s] |->
       IF n \in Waiting(s)
       THEN [reports[s][n] EXCEPT !.status = "pending", !.session = TRUE]
       ELSE reports[s][n]]

CommitRunning(s) ==
    /\ seg' = [seg EXCEPT ![s] = IF seg[s] = "launch_requested" THEN "running" ELSE seg[s]]
    /\ UNCHANGED <<task, outcome, stop, question, session, cap, reports>>

\* Mutant: the question is left waiting when the session becomes known.
CommitSessionOnly(s) ==
    /\ session' = session \cup {s}
    /\ UNCHANGED <<task, seg, outcome, stop, question, cap, reports>>
\* materializePendingReportQuestion is part of the session event.
CommitSession(s) ==
    IF seg[s] = "exited"
    THEN UNCHANGED <<task, seg, outcome, stop, question, session, cap, reports>>
    ELSE /\ session' = session \cup {s} /\ UNCHANGED cap
         /\ IF Waiting(s) = {} THEN UNCHANGED <<task, seg, outcome, stop, question, reports>>
            ELSE Ask(s) /\ reports' = [reports EXCEPT ![s] = Materialized(s)]

CommitQuestion(s) ==
    ApplyQuestion(s) /\ UNCHANGED <<task, seg, stop, session, cap, reports>>

\* Mutant: the stop that a question causes overwrites the question.
CommitLastOutcome(s, k) ==
    /\ outcome' = [outcome EXCEPT ![s] = k]
    /\ UNCHANGED <<task, seg, stop, question, session, cap, reports>>
CommitOutcome(s, k) ==
    /\ outcome' = [outcome EXCEPT ![s] = IF @ = "" /\ seg[s] # "exited" THEN k ELSE @]
    /\ UNCHANGED <<task, seg, stop, question, session, cap, reports>>

Resolved == [r \in Segments |->
               IF question[r] = "resume_started" THEN "resolved" ELSE question[r]]
\* applyExit.
CommitExit(s) ==
    /\ seg' = [seg EXCEPT ![s] = "exited"]
    /\ question' = Resolved
    /\ task' = CASE outcome[s] = "question" -> "waiting_question"
                 [] outcome[s] = "failed" -> "failed"
                 [] outcome[s] = "result" -> "result_ready"
                 [] OTHER -> "interrupted"
    /\ UNCHANGED <<outcome, stop, session, cap, reports>>

\* validateLaunchRejection and applyLaunchRejection.
CommitRejection(s) ==
    /\ reports[s] = <<>> /\ s \notin session
    /\ seg' = [seg EXCEPT ![s] = "not_started"]
    /\ cap' = [cap EXCEPT ![s].status = "revoked"]
    /\ question' = Resolved
    /\ task' = "failed"
    /\ UNCHANGED <<outcome, stop, session, reports>>

CommitKind(s, k) ==
    \/ k = "running" /\ CommitRunning(s)
    \/ k = "session" /\ CommitSession(s)
    \/ k = "question" /\ CommitQuestion(s)
    \/ k \in {"result", "failed", "stopped"} /\ CommitOutcome(s, k)
    \/ k = "exited" /\ CommitExit(s)
    \/ k = "rejected" /\ CommitRejection(s)

\* PublishAll sends the events in sequence and stops at the first refusal.
Commit ==
    /\ link \in {"publishing", "up"} /\ spool # <<>>
    /\ link = "publishing" => backlog > 0
    /\ CommitKind(Head(spool)[1], Head(spool)[2])
    /\ spool' = Tail(spool)
    /\ backlog' = IF link = "publishing" THEN backlog - 1 ELSE backlog
    /\ UNCHANGED <<intake, handler, hostRow, epoch, link, toReplay, faults,
                   registry, worker, announced>>

-----------------------------------------------------------------------------
(* The connection of the host. *)

\* MarkHostOffline leaves a reconciling host as it is.
Break ==
    /\ faults < MaxFaults /\ link # "down"
    /\ faults' = faults + 1 /\ link' = "down"
    /\ hostRow' = IF hostRow = "ready" THEN "offline" ELSE hostRow
    /\ UNCHANGED <<store, channel, epoch, backlog, toReplay, host>>

\* BeginCoordinatorEpoch: requests in progress are lost with the process.
Restart ==
    /\ faults < MaxFaults
    /\ faults' = faults + 1 /\ link' = "down"
    /\ epoch' = epoch + 1 /\ hostRow' = "offline"
    /\ handler' = [h \in Handlers |-> Idle]
    /\ UNCHANGED <<store, cap, reports, intake, backlog, toReplay, host>>

\* livingSource.connect: first the spool, then the registrations.
Connect ==
    /\ link = "down"
    /\ link' = "publishing" /\ hostRow' = "reconciling" /\ backlog' = Len(spool)
    /\ UNCHANGED <<store, channel, epoch, toReplay, faults, host>>

Published ==
    /\ link = "publishing" /\ backlog = 0
    /\ link' = "registering" /\ toReplay' = registry
    /\ UNCHANGED <<store, channel, hostRow, epoch, backlog, faults, host>>

FinishReconcile ==
    /\ link = "registering" /\ toReplay = {}
    /\ link' = "up" /\ hostRow' = "ready"
    /\ UNCHANGED <<store, channel, epoch, backlog, toReplay, faults, host>>

-----------------------------------------------------------------------------
(* Reports. *)

\* intakeAuthority, and the same conditions in commitReportEventPrepared.
Authorized(s) ==
    /\ cap[s].status \in {"registered", "revoked"}
    /\ hostRow = "ready" /\ cap[s].epoch = epoch

\* A new report: the next sequence of a registered capability, by an event
\* that no other sequence used.
New(s, n, e) ==
    /\ Authorized(s) /\ cap[s].status = "registered"
    /\ n = Len(reports[s]) + 1
    /\ \A m \in DOMAIN reports[s] : reports[s][m].event # e

Stored(e, hasSession) ==
    [event |-> e, session |-> hasSession,
     status |-> CASE e \in Progress -> "internal"
                  [] e \in Questions /\ ~hasSession -> "pending_session"
                  [] OTHER -> "pending"]

\* A progress report takes one transaction.  It does not look at the intakes.
ReportProgress(s, n, e) ==
    /\ worker[s] = "running" /\ e \in Progress /\ New(s, n, e)
    /\ reports' = [reports EXCEPT ![s] = Append(@, Stored(e, FALSE))]
    /\ UNCHANGED <<store, cap, intake, handler, connection, host>>

\* beginReportIntake: reserve, or take up the prepared intake of the same
\* request.
BeginReportIntake(h, s, n, e) ==
    /\ handler[h] = Idle /\ worker[s] = "running"
    /\ e \notin Progress /\ New(s, n, e)
    /\ \A i \in intake[s] : i.n = n \/ i.event = e =>
                              i = [n |-> n, event |-> e, phase |-> "prepared"]
    /\ intake' = [intake EXCEPT ![s] = @ \cup {[n |-> n, event |-> e, phase |-> "prepared"]}]
    /\ handler' = [handler EXCEPT ![h] = [seg |-> s, n |-> n, event |-> e, epoch |-> epoch]]
    /\ UNCHANGED <<store, cap, reports, connection, host>>

\* commitReportIntake.
Committed(s, n, e) ==
    (intake[s] \ {[n |-> n, event |-> e, phase |-> "prepared"]})
        \cup {[n |-> n, event |-> e, phase |-> "committed"]}

\* commitReportEventPrepared of a new report, after the copy.
CommitReport(h) ==
    /\ handler[h] # Idle
    /\ LET s == handler[h].seg  n == handler[h].n  e == handler[h].event IN
       /\ New(s, n, e) /\ handler[h].epoch = epoch
       /\ [n |-> n, event |-> e, phase |-> "prepared"] \in intake[s]
       /\ e \in Questions => MayAsk(s)
       /\ IF e \in Questions /\ s \in session THEN Ask(s)
          ELSE UNCHANGED <<task, seg, outcome, stop, question>>
       /\ reports' = [reports EXCEPT ![s] =
                        Append(@, Stored(e, e \in Questions /\ s \in session))]
       /\ intake' = [intake EXCEPT ![s] = Committed(s, n, e)]
    /\ handler' = [handler EXCEPT ![h] = Idle]
    /\ UNCHANGED <<session, cap, connection, host>>

\* The request is refused, cancelled, or finds its report recorded by another
\* one and is acknowledged: the store does not change.
EndRequest(h) ==
    /\ handler[h] # Idle
    /\ handler' = [handler EXCEPT ![h] = Idle]
    /\ UNCHANGED <<store, cap, reports, intake, connection, host>>

HostStep ==
    \/ Commit \/ Connect \/ Published \/ FinishReconcile
    \/ \E s \in Segments :
         \/ Remember(s) \/ Register(s) \/ ReplayRegistration(s) \/ RejectLaunch(s)
         \/ Start(s) \/ AnnounceSession(s) \/ StopWorker(s)
         \/ \E k \in {"result", "failed", "question"} : End(s, k)

Next ==
    \/ HostStep \/ Break \/ Restart \/ QueueResume \/ QueueRetry
    \/ \E s \in Segments : Claim(s) \/ RequestStop(s) \/ AnswerQuestion(s)
    \/ \E s \in Segments, n \in 1..MaxReports, e \in Events :
         \/ ReportProgress(s, n, e)
         \/ \E h \in Handlers : BeginReportIntake(h, s, n, e)
    \/ \E h \in Handlers : CommitReport(h) \/ EndRequest(h)

Spec == Init /\ [][Next]_vars

\* The host publishes, reconnects and replays; a process that runs ends.
Progression ==
    /\ WF_vars(Commit) /\ WF_vars(Connect) /\ WF_vars(Published) /\ WF_vars(FinishReconcile)
    /\ \A s \in Segments : WF_vars(ReplayRegistration(s))
    /\ \A s \in Segments : WF_vars(\E k \in {"result", "failed", "question"} : End(s, k))

-----------------------------------------------------------------------------
(* Properties. *)

\* "An exact report replay returns the original ACK" (README): the body that a
\* repeated request would build from the session table and its intake is the
\* recorded one, whatever has become known since (reports.go:189-195).
ExactReplayAcked ==
    \A s \in Segments : \A n \in DOMAIN reports[s] :
        LET r == reports[s][n] IN
        /\ r.event \in Questions => (r.session <=> s \in session)
        /\ r.event \notin Progress =>
             [n |-> n, event |-> r.event, phase |-> "committed"] \in intake[s]

\* A reconnection can replay every binding the host remembers, whatever became
\* of the capability in the meantime (reports.go:46-66): a refusal would fail
\* connect() on every attempt.
ReplayAccepted ==
    \A s \in registry : hostRow # "offline" => Registrable(s)

\* What is repeated after a lost answer or connection is accepted as before.
ReplaySound == TypeOK /\ ExactReplayAcked /\ ReplayAccepted

\* At most one question of the task awaits its session or an answer, although
\* questions come over two channels and requests are concurrent
\* (reports.go:214-221).  Set aside are a question whose segment the owner
\* stopped, which requestStopTx leaves open without an outcome, and one whose
\* segment ended before its session was known, which nothing takes up again.
OneQuestion ==
    Cardinality({s \in Segments : question[s] \in {"open", "resume_queued"}
                                  /\ stop[s] # "owner"})
      + Cardinality(UNION {{<<s, n>> : n \in Waiting(s)} :
                             s \in {r \in Segments : seg[r] # "exited"}}) <= 1

\* A task waits for an answer exactly while the question of its last segment is
\* open and that segment has ended: neither the stop the question caused, nor
\* the result the process still produced, replaces it (host_events.go:335,474),
\* unless the owner stopped the segment.
WaitsForItsQuestion ==
    task = "waiting_question" <=>
        \E s \in Segments : Latest(s) /\ seg[s] = "exited" /\ question[s] = "open"
                            /\ stop[s] # "owner"

\* One question at a time, and the task waits exactly for it.
QuestionSound == OneQuestion /\ WaitsForItsQuestion

\* The coordinator refuses the first event of the spool for ever: a question of
\* a segment whose outcome another question or the owner's stop has decided, or
\* the session of a stopped segment whose question waits for it
\* (host_events.go:322,403-410).
Blocked ==
    /\ spool # <<>>
    /\ LET s == Head(spool)[1]  k == Head(spool)[2] IN
       \/ k = "question" /\ outcome[s] # ""
       \/ k = "session" /\ Waiting(s) # {} /\ stop[s] # "none"

\* A question that was acknowledged reaches the owner once the host has
\* announced the session of its segment, through breaks and restarts
\* (host_events.go:367-415), unless a refused question blocks the spool.
QuestionReachesOwner ==
    \A s \in Segments :
        (s \in announced /\ Waiting(s) # {}) ~> (Waiting(s) = {} \/ Blocked)

\* What the host has recorded of the end of a segment is committed
\* (server.go:1377-1378), unless a refused question blocks the spool.
ExitCommits ==
    \A s \in Segments :
        (worker[s] = "ended") ~> (seg[s] \in {"exited", "not_started"} \/ Blocked)

\* What a worker asked and how it ended comes to the owner, although the owner
\* stops the task and the provider asks as well: only a question that is refused
\* keeps what follows it in the host's spool.
ReportsReachOwner == QuestionReachesOwner /\ ExitCommits

=============================================================================
