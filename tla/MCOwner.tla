------------------------------- MODULE MCOwner -------------------------------
(*****************************************************************************)
(* What the owner of a run is told and what he does about it, for TLC:       *)
(* deliveries and decisions, and what must eventually reach him from the     *)
(* report channel.  They share no state: component names the one that runs   *)
(* while the other keeps its initial state, so that one run explores the     *)
(* behaviours of each.                                                       *)
(*****************************************************************************)
EXTENDS OwnerDelivery, TLC

CONSTANTS q1, h1

\* The component that runs.
VARIABLE component
VARIABLES rTask, seg, rOutcome, stop, rQuestion, session, cap, reports, intake,
          handler, hostRow, epoch, link, backlog, toReplay, registry, worker,
          announced, spool, faults

\* Three ways to bound the deliveries of a task: an owner of a task with a
\* policy that collects, decides and reworks; an owner of an artifact that
\* retries late, with most of the events and few decisions; an owner that waits
\* for the events of a task that needs no review.
Collecting ==
    /\ Len(events') <= 3 /\ waiter' = waiter
    /\ scan'.open /\ ~scan.open => Cardinality(pages) < 2
Retrying ==
    /\ revision' = 1 /\ waiter' = waiter
    /\ scan'.open /\ ~scan.open => pages = {}
    /\ \A e \in Slots : decided'[e] # "handled"
Waiting ==
    Len(events') <= 3 /\ revision' = 1 /\ scan' = scan

Channel == INSTANCE ReportChannel WITH
    Questions <- {q1}, Results <- {}, Progress <- {}, Handlers <- {h1},
    MaxSegments <- 2, MaxReports <- 1, MaxFaults <- 1, OwnerStops <- TRUE,
    NativeQuestions <- TRUE, Continued <- TRUE, Managed <- FALSE, task <-
    rTask, outcome <- rOutcome, question <- rQuestion

reportChannelVars == <<rTask, seg, rOutcome, stop, rQuestion, session, cap,
                       reports, intake, handler, hostRow, epoch, link,
                       backlog, toReplay, registry, worker, announced, spool,
                       faults>>

MCInit ==
    /\ component \in {"collect", "retry", "wait", "report"}
    /\ Init /\ policy = (component = "collect")
    /\ completion = CASE component = "retry" -> "artifact" [] component = "wait" -> "fixture"
                      [] OTHER -> "review"
    /\ Channel!Init

MCNext ==
    /\ UNCHANGED component
    /\ \/ component = "collect" /\ Next /\ Collecting /\ UNCHANGED reportChannelVars
       \/ component = "retry" /\ Next /\ Retrying /\ UNCHANGED reportChannelVars
       \/ component = "wait" /\ Next /\ Waiting /\ UNCHANGED reportChannelVars
       \/ component = "report" /\ Channel!Next /\ UNCHANGED vars

allVars == <<component, vars, reportChannelVars>>

MCSpec == MCInit /\ [][MCNext]_allVars

\* The fairness of the report channel, when it runs.
ReportFairness ==
    /\ WF_reportChannelVars(component = "report" /\ Channel!Commit)
    /\ WF_reportChannelVars(component = "report" /\ Channel!Connect)
    /\ WF_reportChannelVars(component = "report" /\ Channel!Published)
    /\ WF_reportChannelVars(component = "report" /\ Channel!FinishReconcile)
    /\ \A s \in Channel!Segments :
         /\ WF_reportChannelVars(component = "report" /\ Channel!ReplayRegistration(s))
         /\ WF_reportChannelVars(component = "report"
              /\ \E k \in {"result", "failed", "question"} : Channel!End(s, k))

MCFairSpec == MCSpec /\ ReportFairness

ASSUME OwnerParameters == Channel!ReportChannelParameters

-----------------------------------------------------------------------------

\* ReportChannel: What a worker asked and how it ended comes to the owner, unless
\* a question that the coordinator refuses blocks the host's spool.
ReportsReachOwner == Channel!ReportsReachOwner

=============================================================================
