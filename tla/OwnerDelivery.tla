--------------------------- MODULE OwnerDelivery ---------------------------
(***************************************************************************)
(* What the owner of a task is told and what the owner does about it       *)
(* (store/delivery.go, store/collection.go, store/decisions.go,            *)
(* store/rework.go, store/summary.go, coordinator/server.go).              *)
(*                                                                         *)
(* Every actionable event has an action slot.  The owner collects pending  *)
(* events in pages, acknowledges a page as a whole, and reviews, answers,  *)
(* retries, resumes or reworks in commands of their own.  Every command    *)
(* may be repeated, delayed, and overtaken by the next segment of the task.*)
(***************************************************************************)
EXTENDS Integers, Sequences, FiniteSets, SequencesExt

CONSTANTS Decisions,   \* the decisions an acknowledgement may carry
          PageLimit,   \* events of a page
          MaxEvents,   \* bound on the actionable events
          MaxSegments, \* bound on the segments of the task
          MaxRevision, \* bound on the work revisions
          MaxPages,    \* bound on the pages that are collected
          MaxWaits     \* bound on the calls of wait-events

OwnerDeliveryParameters ==
    /\ Decisions \subseteq {"handled", "waiting_user", "stale", "rejected"}
    /\ {PageLimit, MaxEvents, MaxSegments, MaxRevision} \subseteq Nat \ {0}
    /\ {MaxPages, MaxWaits} \subseteq Nat
ASSUME OwnerAssumption == OwnerDeliveryParameters

VARIABLES
    policy,    \* whether the task has an execution policy
    completion,\* task_runtime.completion_policy of the task
    task,      \* tasks.status
    revision,  \* task_runtime.work_revision
    segments,  \* the attempt of every segment of the task
    outcome,   \* segment_runtime.outcome of the current segment
    events,    \* actionable events in the order of delivery_order
    question,  \* runtime_questions.status of the question an event asked
    decided,   \* runtime_decisions of an event's slot
    pages,     \* collection_receipts: pages of events
    receipts,  \* delivery_receipts: acknowledged pages with their decisions
    reviewed,  \* review_decisions of an event's slot
    retried,   \* retry_decisions: events with a retry
    causes,    \* resumes and reworks, which no slot records
    scan,      \* the owner's walk over the pages
    waiter,    \* a wait-events request
    signal     \* notifications so far, and whether one is due

work == <<task, revision, segments, outcome>>
commands == <<reviewed, retried, causes>>
delivery == <<decided, pages, receipts>>
waiting == <<waiter, signal>>
vars == <<policy, completion, work, events, question, delivery, commands, scan, waiting>>

Slots == 1..MaxEvents
TaskStatus == {"ready", "resume_queued", "running", "waiting_question", "result_ready",
               "failed", "interrupted", "completed"}
CompletionPolicies == {"review", "fixture", "artifact"}
Event == [kind : {"question", "result", "failed", "stopped"}, from : {"host", "report"},
          segment : 1..MaxSegments, revision : 1..MaxRevision]
Receipt == UNION {[page : {p}, decisions : [p -> Decisions]] : p \in SUBSET Slots}
NoScan == [at |-> 0, owed |-> {}, seen |-> {}, open |-> FALSE]

TypeOK ==
    /\ policy \in BOOLEAN /\ completion \in CompletionPolicies
    /\ task \in TaskStatus /\ revision \in 1..MaxRevision
    /\ segments \in Seq(1..MaxSegments)
    /\ outcome \in {"", "question", "result", "failed", "stopped"}
    /\ events \in Seq(Event)
    /\ question \in [Slots -> {"none", "open", "resume_queued", "resume_started", "resolved"}]
    /\ decided \in [Slots -> {"none"} \cup Decisions]
    /\ pages \subseteq SUBSET Slots /\ receipts \subseteq Receipt
    /\ reviewed \in [Slots -> {"none", "accept", "reject"}]
    /\ retried \subseteq Slots /\ causes \in Nat
    /\ scan \in [at : 0..MaxEvents, owed : SUBSET Slots, seen : SUBSET Slots, open : BOOLEAN]
    /\ waiter \in [phase : {"idle", "armed", "parked"}, saw : Nat, waits : 0..MaxWaits]
    /\ signal \in [count : Nat, due : BOOLEAN]

Init ==
    /\ policy \in BOOLEAN /\ completion \in CompletionPolicies
    /\ task = "ready" /\ revision = 1 /\ segments = <<>> /\ outcome = "" /\ events = <<>>
    /\ question = [e \in Slots |-> "none"] /\ decided = [e \in Slots |-> "none"]
    /\ pages = {} /\ receipts = {} /\ reviewed = [e \in Slots |-> "none"]
    /\ retried = {} /\ causes = 0 /\ scan = NoScan
    /\ waiter = [phase |-> "idle", saw |-> 0, waits |-> 0]
    /\ signal = [count |-> 0, due |-> FALSE]

-----------------------------------------------------------------------------
Pending == {e \in DOMAIN events : decided[e] = "none"}
Current(e) == events[e].segment = Len(segments)
Attempt(e) == segments[events[e].segment]
LatestAttempt == Last(segments)

(* Segments. *)

\* ClaimReady.
Start ==
    /\ task \in {"ready", "resume_queued"} /\ Len(segments) < MaxSegments
    /\ segments' = Append(segments,
                          IF segments = <<>> THEN 1
                          ELSE IF task = "ready" THEN LatestAttempt + 1 ELSE LatestAttempt)
    /\ task' = "running" /\ outcome' = ""
    /\ question' = [e \in Slots |-> IF question[e] = "resume_queued" THEN "resume_started"
                                    ELSE question[e]]
    /\ UNCHANGED <<revision, events, delivery, commands, scan, waiting>>

\* Mutant: nobody is notified of the event.
RecordSilently(k, from) ==
    /\ Len(events) < MaxEvents
    /\ events' = Append(events, [kind |-> k, from |-> from,
                                 segment |-> Len(segments), revision |-> revision])
    /\ UNCHANGED signal
Record(k, from) ==
    /\ Len(events) < MaxEvents
    /\ events' = Append(events, [kind |-> k, from |-> from,
                                 segment |-> Len(segments), revision |-> revision])
    /\ signal' = [signal EXCEPT !.due = TRUE]

\* A question or a result that the worker reports.  A question is the outcome
\* of its segment; a reported result is only delivered.
Report(k) ==
    /\ task = "running" /\ ~signal.due
    /\ k = "question" => outcome = ""
    /\ \A e \in DOMAIN events : ~(Current(e) /\ events[e].from = "report")
    /\ Record(k, "report")
    /\ outcome' = IF k = "question" THEN k ELSE outcome
    /\ question' = IF k = "question" THEN [question EXCEPT ![Len(events) + 1] = "open"]
                   ELSE question
    /\ UNCHANGED <<task, revision, segments, delivery, commands, scan, waiter>>

\* What the exit makes of the task.  The result of an artifact task completes
\* it if the digest is the one of the plan.
TasksAfter(o) ==
    CASE o = "question" -> {"waiting_question"}
      [] o = "result" -> {t \in {"result_ready", "completed"} :
                            /\ t = "result_ready" => completion # "fixture"
                            /\ t = "completed" => completion # "review"}
      [] o = "failed" -> {"failed"}
      [] o = "stopped" -> {"interrupted"}

\* The host's terminal event and the exit.  It does not replace an outcome,
\* and a question of the host's own needs that there is none.
End(k) ==
    /\ task = "running" /\ ~signal.due
    /\ k = "question" => outcome = ""
    /\ Record(k, "host")
    /\ LET o == IF outcome = "" THEN k ELSE outcome IN
       /\ outcome' = o /\ task' \in TasksAfter(o)
    /\ question' = [e \in Slots |->
                      IF k = "question" /\ e = Len(events) + 1 THEN "open"
                      ELSE IF question[e] = "resume_started" THEN "resolved" ELSE question[e]]
    /\ UNCHANGED <<revision, segments, delivery, commands, scan, waiter>>

\* notifyActionableEvent follows the commit.
Notify ==
    /\ signal.due
    /\ signal' = [count |-> signal.count + 1, due |-> FALSE]
    /\ UNCHANGED <<work, events, question, delivery, commands, scan, waiter>>

-----------------------------------------------------------------------------
(* Collection. *)

After(n) == {e \in Pending : e > n}
FirstOf(S) == {e \in S : Cardinality({d \in S : d <= e}) <= PageLimit}
LastOf(p) == CHOOSE e \in p : \A d \in p : d <= e

OpenScan ==
    /\ ~scan.open /\ Cardinality(pages) < MaxPages
    /\ scan' = [at |-> 0, owed |-> Pending, seen |-> {}, open |-> TRUE]
    /\ UNCHANGED <<work, events, question, delivery, commands, waiting>>

\* Mutant: the cursor names the first event that was left out.
NextCursorSkips(p) == LastOf(p) + 1
\* The cursor of the next page is the last ordinal of this one.
NextCursor(p) == LastOf(p)

\* CollectPending, and the receipt of the page that was returned.
Collect ==
    /\ scan.open
    /\ LET p == FirstOf(After(scan.at)) IN
       /\ pages' = IF p = {} THEN pages ELSE pages \cup {p}
       /\ scan' = [scan EXCEPT !.seen = @ \cup p,
                               !.at = IF p # After(scan.at) THEN NextCursor(p) ELSE 0,
                               !.open = p # After(scan.at)]
    /\ UNCHANGED <<work, events, question, decided, receipts, commands, waiting>>

\* wait-events takes the signal, then looks, then waits for the signal.
Arm ==
    /\ waiter.phase = "idle" /\ waiter.waits < MaxWaits
    /\ waiter' = [phase |-> "armed", saw |-> signal.count, waits |-> waiter.waits + 1]
    /\ UNCHANGED <<work, events, question, delivery, commands, scan, signal>>

Look ==
    /\ waiter.phase = "armed"
    /\ IF Pending = {} THEN waiter' = [waiter EXCEPT !.phase = "parked"] /\ UNCHANGED pages
       ELSE /\ waiter' = [waiter EXCEPT !.phase = "idle"]
            /\ pages' = pages \cup {FirstOf(Pending)}
    /\ UNCHANGED <<work, events, question, decided, receipts, commands, scan, signal>>

\* The signal the request waits for has been closed: it looks again.
Wake ==
    /\ waiter.phase = "parked" /\ waiter.saw < signal.count
    /\ waiter' = [waiter EXCEPT !.phase = "armed", !.saw = signal.count]
    /\ UNCHANGED <<work, events, question, delivery, commands, scan, signal>>

Timeout ==
    /\ waiter.phase = "parked"
    /\ waiter' = [waiter EXCEPT !.phase = "idle"]
    /\ UNCHANGED <<work, events, question, delivery, commands, scan, signal>>

-----------------------------------------------------------------------------
(* Acknowledgement. *)

\* hasBoundBusinessEffect.
BoundEffect(e) ==
    \/ e \in retried
    \/ reviewed[e] # "none"
    \/ question[e] \in {"resume_queued", "resume_started"}

Agrees(e, d) == decided[e] = d

\* applyAckDecision of a slot that is not decided: a decision that claims the
\* event needs the current revision, and the current segment or a bound effect.
Fresh(e, d) ==
    /\ decided[e] = "none"
    /\ d \in {"handled", "waiting_user"} =>
         /\ events[e].revision = revision
         /\ Current(e) \/ (d = "handled" /\ BoundEffect(e))

\* AckDelivery and AckDecisions: the decisions of a page, in one transaction.
\* A repeated delivery is compared with its receipt and changes nothing.
Ack(p, f) ==
    /\ p \in pages /\ \A r \in receipts : r.page # p
    /\ \A e \in p : Agrees(e, f[e]) \/ Fresh(e, f[e])
    /\ receipts' = receipts \cup {[page |-> p, decisions |-> f]}
    /\ decided' = [e \in Slots |-> IF e \in p /\ decided[e] = "none" THEN f[e] ELSE decided[e]]
    /\ UNCHANGED <<work, events, question, pages, commands, scan, waiting>>

-----------------------------------------------------------------------------
(* Commands. *)

\* A result that ReviewResult lets the owner decide so: an artifact that does
\* not match its digest can only be rejected.
Reviewable(e, d) ==
    /\ task = "result_ready" /\ events[e].from = "host" /\ events[e].kind = "result"
    /\ Current(e) /\ reviewed[e] = "none"
    /\ d = "accept" => completion # "artifact"

\* ReviewResult.
Review(e, d) ==
    /\ Reviewable(e, d)
    /\ reviewed' = [reviewed EXCEPT ![e] = d]
    /\ task' = IF d = "accept" THEN "completed" ELSE "failed"
    /\ UNCHANGED <<revision, segments, outcome, events, question, delivery, retried, causes,
                   scan, waiting>>

\* AnswerQuestion.
Answerable(e) ==
    task = "waiting_question" /\ Current(e) /\ question[e] = "open"
Answer(e) ==
    /\ Answerable(e)
    /\ question' = [question EXCEPT ![e] = "resume_queued"]
    /\ task' = "resume_queued" /\ causes' = causes + 1
    /\ UNCHANGED <<revision, segments, outcome, events, delivery, reviewed, retried, scan, waiting>>

\* QueueResume.
Resume ==
    /\ task = "interrupted"
    /\ task' = "resume_queued" /\ causes' = causes + 1
    /\ UNCHANGED <<revision, segments, outcome, events, question, delivery, reviewed, retried,
                   scan, waiting>>

Source(e) == events[e].kind = "failed" \/ (events[e].kind = "result" /\ reviewed[e] = "reject")

\* Mutant: the failure of an earlier attempt may be retried as well.
RetryableAnyAttempt(e) ==
    /\ task = "failed" /\ e \notin retried /\ Source(e)
    /\ policy => decided[e] = "none"
\* queueRetry: a failure or a rejected result of the latest attempt, whose slot
\* no acknowledgement has closed when there is a policy.
Retryable(e) ==
    /\ task = "failed" /\ e \notin retried /\ Source(e)
    /\ policy => decided[e] = "none"
    /\ Attempt(e) = LatestAttempt
Retry(e) ==
    /\ Retryable(e)
    /\ retried' = retried \cup {e}
    /\ task' = "ready"
    /\ UNCHANGED <<revision, segments, outcome, events, question, delivery, reviewed, causes,
                   scan, waiting>>

\* QueueRework of the accepted candidate of a reviewed task, decided by the review of its result.
Rework ==
    /\ task = "completed" /\ completion = "review" /\ revision < MaxRevision
    /\ \A e \in Slots : question[e] \notin {"open", "resume_queued", "resume_started"}
    /\ task' = "ready" /\ revision' = revision + 1 /\ causes' = causes + 1
    /\ UNCHANGED <<segments, outcome, events, question, delivery, reviewed, retried, scan, waiting>>

\* hasOpenPolicyRetryAction.
OpenPolicyRetry ==
    \E e \in Pending : Source(e) /\ Current(e) /\ events[e].revision = revision
\* The failures Summary looks for: the host's, of the latest attempt.
Failure == \E e \in DOMAIN events :
    events[e].from = "host" /\ Source(e) /\ Attempt(e) = LatestAttempt
\* What Summary lists as allowed actions.
Offers == (IF task = "result_ready" /\ \E e \in DOMAIN events :
                events[e].from = "host" /\ events[e].kind = "result" /\ Current(e)
           THEN {"accept"} ELSE {})
    \cup (IF task = "waiting_question" /\ \E e \in DOMAIN events :
                question[e] = "open" /\ events[e].revision = revision
          THEN {"answer"} ELSE {})
    \cup (IF task = "failed" /\ Failure /\ (policy => OpenPolicyRetry)
          THEN {"retry"} ELSE {})

Step ==
    \/ Start \/ Notify \/ OpenScan \/ Collect \/ Arm \/ Look \/ Wake \/ Timeout
    \/ Resume \/ Rework
    \/ \E k \in {"question", "result"} : Report(k)
    \/ \E k \in {"question", "result", "failed", "stopped"} : End(k)
    \/ \E p \in pages : \E f \in [p -> Decisions] : Ack(p, f)
    \/ \E e \in DOMAIN events : Answer(e) \/ Retry(e)
                                \/ \E d \in {"accept", "reject"} : Review(e, d)

\* The policies of a task come with its plan.
Next == Step /\ UNCHANGED <<policy, completion>>

Spec == Init /\ [][Next]_vars

-----------------------------------------------------------------------------
(* Properties. *)

\* Two deliveries that hold the same event never record different decisions of
\* it, and what a delivery recorded is what its slots say (delivery.go:182-190).
DecisionsAgree ==
    \A r \in receipts : \A e \in r.page : decided[e] = r.decisions[e]

\* An attempt is retried at most once, whichever of its failures the owner
\* names and however late the command comes (decisions.go:449-453).
OneRetryPerAttempt ==
    \A d, e \in retried : Attempt(d) = Attempt(e) => d = e

\* Every segment after the first has one cause: a retry, an answer, a resume or
\* a rework (README: a replay never consumes another attempt).
CauseForEverySegment ==
    Len(segments) + (IF task \in {"ready", "resume_queued"} THEN 1 ELSE 0)
      = 1 + Cardinality(retried) + causes

\* An event the owner has reviewed or retried can still be acknowledged as
\* handled, although later segments have run (delivery.go:207,224-239).
EffectCanBeAcked ==
    \A e \in Pending :
        (e \in retried \/ reviewed[e] # "none") /\ events[e].revision = revision
            => Fresh(e, "handled")

\* A decision takes effect once and for all: deliveries agree on it, an attempt
\* is retried once, each segment has its cause, and the delivery of an event
\* that was acted on can still be closed.
DecisionsSound ==
    /\ TypeOK
    /\ DecisionsAgree /\ OneRetryPerAttempt /\ CauseForEverySegment /\ EffectCanBeAcked

\* An owner that follows next_cursor until it is absent has seen every event
\* that was pending when it began and still is, although pages are acknowledged
\* and events arrive in between (README:180-182).
ScanComplete == ~scan.open => scan.owed \cap Pending \subseteq scan.seen

\* A wait-events request is not left waiting with an event to return: the
\* signal it waits for is closed or about to be (server.go:945-963).
NoLostWakeup ==
    waiter.phase = "parked" /\ Pending # {} => waiter.saw < signal.count \/ signal.due

\* Every action Summary offers is one the commands would accept now, as far as
\* the statuses and decisions of the task go (summary.go:131-210).  One offer is
\* not: "accept" of a result whose artifact does not match, which a review may
\* only reject (decisions.go:226-228).
OffersAccepted ==
    /\ "accept" \in Offers =>
         \E e \in DOMAIN events :
            Reviewable(e, IF completion = "artifact" THEN "reject" ELSE "accept")
    /\ "answer" \in Offers => \E e \in DOMAIN events : Answerable(e)
    /\ "retry" \in Offers => \E e \in DOMAIN events : Retryable(e)

\* What an owner reads is complete and can be acted on, although it is read in
\* pages and summaries while events arrive and are acknowledged.
CollectionComplete == ScanComplete /\ OffersAccepted
=============================================================================
