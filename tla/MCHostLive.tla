------------------------------ MODULE MCHostLive ------------------------------
(*****************************************************************************)
(* What must eventually happen between the coordinator and its hosts, for    *)
(* TLC: a stop of the scheduler, a stop at the host, the delivery of grants, *)
(* and that of events by the hooks of a native session.  They share no       *)
(* state: component names the one that runs while the others keep their      *)
(* initial state, so that one run explores the behaviours of each.  The      *)
(* delivery of grants, which this module extends, runs in two shapes: one    *)
(* segment through every interruption, and two segments through few.         *)
(*****************************************************************************)
EXTENDS GrantDelivery, TLC

CONSTANTS t1, h1, s1, s2, c1, p1, p2

\* The component that runs.
VARIABLE component
VARIABLES status, readySeq, nextReady, attempt, cSeg, cQuestion, binding,
          retried, autoRetries, rejected, pending, hostStatus, released,
          joining, cSession, stale, cSpool, cEvents, cFaults, pc, todo, ret,
          waitErr, ctx, cancels, active, proc, waited, requests, requested, op,
          tail, retire, launch, log, call, stopping, lost, generation, faults,
          early, natural, events, revised, owner, bindings, natives, batches,
          attempts, hooks, written, tallies

Scheduling == INSTANCE Scheduler WITH
    Task <- {t1}, Host <- {h1}, HostOf <- t1 :> h1, GroupOf <- t1 :> "group",
    Deps <- t1 :> {}, Order <- t1 :> 1, Policy <- {}, Completion <- t1 :>
    "review", KeysOf <- t1 :> {}, KeyLimit <- <<>>, Slots <- 1, TaskAttempts <-
    t1 :> 1, GroupAttempts <- t1 :> 1, SegmentMS <- t1 :> 1, AttemptMS <- t1 :> 1,
    TaskMS <- t1 :> 1, GroupMS <- t1 :> 1, Backoffs <- 0, MaxAttempt <- 1,
    MaxSegment <- 1, MaxSpool <- 2, MaxFaults <- 1, seg <- cSeg, question <-
    cQuestion, session <- cSession, spool <- cSpool, events <- cEvents, faults
    <- cFaults
Stop == INSTANCE HostStop WITH
    Segments <- {s1}, Callers <- {c1}, Target <- c1 :> s1, MaxFaults <- 1,
    intent <- requests
Bridge == INSTANCE BridgeDelivery WITH
    Senders <- {p1, p2}, MaxEvents <- 1, BatchEvents <- 2, MaxBindings <- 1,
    MaxRebinds <- 0, MaxLapses <- 1, MaxDeaths <- 1, MaxRestarts <- 1,
    counts <- tallies

schedulerVars == <<status, readySeq, nextReady, attempt, cSeg, cQuestion,
                   binding, retried, autoRetries, rejected, pending,
                   hostStatus, released, joining, cSession, stale, cSpool,
                   cEvents, cFaults>>
hostStopVars == <<pc, todo, ret, waitErr, ctx, cancels, active, proc, waited,
                  requests, requested, op, tail, retire, launch, log, call,
                  stopping, lost, generation, faults, early, natural>>
bridgeDeliveryVars == <<events, revised, owner, bindings, natives, batches,
                        attempts, hooks, written, tallies>>

\* The shapes of the grants component.
Untouched(s) == seg'[s] = "none"
FewInterruptions ==
    seg'[s2] = "none" \/ breaks' + crashes' + restarts' = 0

MCInit ==
    /\ component \in {"scheduler", "stop", "grant", "grants", "bridge"}
    /\ Scheduling!Init
    /\ Stop!Init
    /\ Init
    /\ Bridge!Init

MCNext ==
    /\ UNCHANGED component
    /\ \/ /\ component = "scheduler" /\ Scheduling!Next
          /\ UNCHANGED <<hostStopVars, vars, bridgeDeliveryVars>>
       \/ /\ component = "stop" /\ Stop!Next
          /\ UNCHANGED <<schedulerVars, vars, bridgeDeliveryVars>>
       \/ /\ component = "grant" /\ Next /\ Untouched(s2) /\ crashes' = 0
          /\ UNCHANGED <<schedulerVars, hostStopVars, bridgeDeliveryVars>>
       \/ /\ component = "grants" /\ Next /\ FewInterruptions
          /\ UNCHANGED <<schedulerVars, hostStopVars, bridgeDeliveryVars>>
       \/ /\ component = "bridge" /\ Bridge!Next
          /\ UNCHANGED <<schedulerVars, hostStopVars, vars>>

allVars == <<component, schedulerVars, hostStopVars, vars, bridgeDeliveryVars>>

MCSpec == MCInit /\ [][MCNext]_allVars

\* The fairness of each component, for the one that runs.  It is the premise of
\* the component's property, not a part of MCSpec, so that TLC checks each
\* property under the conditions of its own component only.
SchedulerFairness ==
    /\ WF_schedulerVars(
         component = "scheduler" /\ cSession[h1] = "none" /\ Scheduling!RegisterHost(h1))
    /\ WF_schedulerVars(component = "scheduler" /\ Scheduling!BeginHostReconcile(h1))
    /\ WF_schedulerVars(component = "scheduler" /\ Scheduling!HostReconciled(h1))
    /\ WF_schedulerVars(component = "scheduler" /\ Scheduling!FinishHostReconcile(h1))
    /\ WF_schedulerVars(component = "scheduler" /\ Scheduling!FinishStaleReconcile(h1))
    /\ WF_schedulerVars(component = "scheduler" /\ Scheduling!ClaimReady(h1, t1))
    /\ WF_schedulerVars(component = "scheduler" /\ Scheduling!CommitHostEvent(<<t1, 1, 1>>))
    /\ WF_schedulerVars(component = "scheduler" /\ Scheduling!HostGoesOn(<<t1, 1, 1>>))

StopFairness ==
    /\ WF_hostStopVars(component = "stop" /\ Stop!WorkerStep(s1))
    /\ WF_hostStopVars(component = "stop" /\ Stop!OperationStep(s1))
    /\ WF_hostStopVars(component = "stop" /\ call[c1].at # "idle" /\ Stop!CallStep(c1))
    /\ WF_hostStopVars(component = "stop" /\ stopping /\ Stop!SourceCancelled)

GrantFairness ==
    /\ component # "grants"
    /\ WF_vars(component = "grant" /\ Connect)
    /\ WF_vars(component = "grant" /\ FinishReconcile)
    /\ WF_vars(component = "grant" /\ Commit)
    /\ WF_vars(component = "grant" /\ SendLaunch(s1))
    /\ WF_vars(component = "grant" /\ SendStop(s1))
    /\ WF_vars(component = "grant" /\ ReceiveLaunch(s1))
    /\ WF_vars(component = "grant" /\ ReceiveStop(s1))
    /\ WF_vars(component = "grant"
         /\ (Prepare(s1) \/ Reject(s1) \/ Start(s1)))
    /\ WF_vars(component = "grant" /\ ReportRunning(s1))
    /\ WF_vars(component = "grant"
         /\ s1 \in intent /\ (End(s1) \/ LeaveUnknown(s1)))

BridgeFairness == WF_bridgeDeliveryVars(component = "bridge" /\ Bridge!Progress)

ASSUME HostParameters ==
    Stop!HostStopParameters  /\ Bridge!BridgeDeliveryParameters

-----------------------------------------------------------------------------

\* Scheduler: The stop of a segment whose grant the host received ends, by the
\* segment's exit, its rejection or its being unknown, unless a refused question
\* wedges the spool of its host.
StopResolvesUnlessWedged == SchedulerFairness => Scheduling!StopResolvesUnlessWedged

\* HostStop: A stop ends: at the worker it was registered for and for its
\* caller (stopOwned, StopSegment).
StopEnds == StopFairness => Stop!StopEnds

\* GrantDelivery: Neither a grant nor the stop of an accepted one waits for
\* ever for a command that was lost with its connection.
GrantsResolved == GrantFairness => GrantsResolve

\* BridgeDelivery: Whatever hooks die, leases lapse and coordinators restart,
\* a pending event is received by the session, unless it is decided, the
\* session can no longer be sent to, or the source of an open attempt
\* changed.
Delivered == BridgeFairness => Bridge!Delivered

=============================================================================
