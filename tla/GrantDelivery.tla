--------------------------- MODULE GrantDelivery ---------------------------
(***************************************************************************)
(* The delivery of launch grants and stop commands to a source host        *)
(* (store/scheduling.go, store/lifecycle.go, store/launch_rejected.go,     *)
(* store/admission.go, coordinator/server.go, coordinator/host_recovery.go,*)
(* host/source_runtime.go, host/host.go).                                  *)
(*                                                                         *)
(* The coordinator commits a grant before it sends it.  The connection may *)
(* break and both processes may crash at any point; grants and stops are   *)
(* sent again after a reconnection, and the host's durable ledger of       *)
(* grants decides whether a segment is executed.  What the host reports    *)
(* goes through its spool, whose prefix the coordinator commits in order.  *)
(***************************************************************************)
EXTENDS Integers, Sequences, FiniteSets, SequencesExt

CONSTANTS Segments,    \* the segments granted to this host
          MaxBreaks,   \* bound on broken connections
          MaxCrashes,  \* bound on crashes of the host process
          MaxRestarts  \* bound on restarts of the coordinator

GrantDeliveryParameters ==
    /\ IsFiniteSet(Segments)
    /\ MaxBreaks \in Nat /\ MaxCrashes \in Nat /\ MaxRestarts \in Nat
ASSUME GrantAssumption == GrantDeliveryParameters

VARIABLES
    seg,       \* segment_runtime.status
    stop,      \* stop_runtime.status
    hostRow,   \* runtime_hosts.status
    link,      \* the host's connection: down, replaying its spool, up
    wire,      \* commands on their way to the host
    unsent,    \* a grant committed and not sent yet
    process,   \* the host process: the registered one, another one, none
    ledger,    \* .grants: the grants the host has accepted
    worker,    \* how far Host.execute of a segment has come in this process
    intent,    \* a stop the host process has heard of
    spool,     \* the events the coordinator has not committed
    out,       \* the last event of a segment in the host's spool
    starts,    \* how often the segment's process was started
    breaks, crashes, restarts

coordinator == <<seg, stop, hostRow>>
channel == <<link, wire, unsent>>
memory == <<worker, intent>>
disk == <<ledger, spool, out>>
counts == <<breaks, crashes, restarts>>
vars == <<coordinator, channel, process, memory, disk, starts, counts>>

Active == {"launch_requested", "prepared", "running", "stopping", "unknown"}
Kinds == {"prepared", "running", "exited", "rejected", "unknown"}
Closed == {"exited", "rejected", "unknown"}
Commands == {"launch", "stop"} \X Segments
Workers == {"none", "accepted", "prepared", "started", "running"}

TypeOK ==
    /\ seg \in [Segments -> {"none", "exited", "not_started"} \cup Active]
    /\ stop \in [Segments -> {"none", "pending", "completed", "unknown"}]
    /\ hostRow \in {"ready", "reconciling", "offline"}
    /\ link \in {"down", "replaying", "up"}
    /\ wire \in Seq(Commands) /\ unsent \in SUBSET Segments
    /\ process \in {"registered", "other", "none"}
    /\ ledger \in SUBSET Segments /\ worker \in [Segments -> Workers]
    /\ intent \in SUBSET Segments
    /\ spool \in Seq(Segments \X Kinds)
    /\ out \in [Segments -> {"none"} \cup Kinds] /\ starts \in [Segments -> Nat]
    /\ breaks \in 0..MaxBreaks /\ crashes \in 0..MaxCrashes
    /\ restarts \in 0..MaxRestarts

\* The host is connected and no segment has been claimed.
Init ==
    /\ seg = [s \in Segments |-> "none"] /\ stop = [s \in Segments |-> "none"]
    /\ hostRow = "ready" /\ link = "up" /\ wire = <<>> /\ unsent = {}
    /\ process = "registered" /\ ledger = {} /\ intent = {}
    /\ worker = [s \in Segments |-> "none"]
    /\ spool = <<>> /\ out = [s \in Segments |-> "none"]
    /\ starts = [s \in Segments |-> 0]
    /\ breaks = 0 /\ crashes = 0 /\ restarts = 0

-----------------------------------------------------------------------------
(* Coordinator: grants and stops *)

\* ClaimReady commits the grant; sendLaunch is a second step of dispatch.
Claim(s) ==
    /\ link = "up" /\ hostRow = "ready" /\ unsent = {}
    /\ seg[s] = "none"
    /\ seg' = [seg EXCEPT ![s] = "launch_requested"]
    /\ unsent' = {s}
    /\ UNCHANGED <<stop, hostRow, link, wire, process, memory, disk, starts, counts>>

\* The grant is sent as it was committed, even when a stop came in between.
SendLaunch(s) ==
    /\ link = "up" /\ s \in unsent
    /\ wire' = Append(wire, <<"launch", s>>)
    /\ unsent' = {}
    /\ UNCHANGED <<coordinator, link, process, memory, disk, starts, counts>>

\* requestStopTx for a segment that has no stop yet.
RequestStop(s) ==
    /\ seg[s] \in Active /\ stop[s] = "none"
    /\ seg' = [seg EXCEPT ![s] = "stopping"]
    /\ stop' = [stop EXCEPT ![s] = "pending"]
    /\ UNCHANGED <<hostRow, channel, process, memory, disk, starts, counts>>

\* sendStop: after the request, and again by dispatchPendingStops, which also
\* reaches a session that is still replaying.  One copy at a time on the wire.
SendStop(s) ==
    /\ link # "down" /\ stop[s] = "pending"
    /\ <<"stop", s>> \notin ToSet(wire) /\ s \notin intent
    /\ wire' = Append(wire, <<"stop", s>>)
    /\ UNCHANGED <<coordinator, link, unsent, process, memory, disk, starts, counts>>

\* Shutdown gives up on its stops: MarkStoppingUnknown.
MarkStoppingUnknown ==
    /\ \E s \in Segments : stop[s] = "pending"
    /\ seg' = [s \in Segments |-> IF seg[s] = "stopping" THEN "unknown" ELSE seg[s]]
    /\ stop' = [s \in Segments |-> IF stop[s] = "pending" THEN "unknown" ELSE stop[s]]
    /\ UNCHANGED <<hostRow, channel, process, memory, disk, starts, counts>>

-----------------------------------------------------------------------------
(* Connection *)

\* The connection is lost with what was on it.  MarkHostOffline changes only a
\* ready host: one that was replaying stays 'reconciling'.
Lost == /\ link' = "down" /\ wire' = <<>> /\ unsent' = {}

MarkHostOffline == hostRow' = IF hostRow = "ready" THEN "offline" ELSE hostRow

Break ==
    /\ link # "down" /\ breaks < MaxBreaks
    /\ Lost /\ MarkHostOffline
    /\ breaks' = breaks + 1
    /\ UNCHANGED <<seg, stop, process, memory, disk, starts, crashes, restarts>>

\* BeginCoordinatorEpoch after a restart.
CoordinatorRestart ==
    /\ restarts < MaxRestarts
    /\ restarts' = restarts + 1
    /\ Lost /\ hostRow' = "offline"
    /\ UNCHANGED <<seg, stop, process, memory, disk, starts, breaks, crashes>>

\* registerHostLocked, RegisterHost and BeginHostReconcile: the same process is
\* always taken back; another one, with segments still active, only while the
\* row is offline.  A refused process ends.
Rebindable == hostRow = "offline" \/ \A s \in Segments : seg[s] \notin Active

Connect ==
    /\ link = "down" /\ process # "none"
    /\ IF process = "registered" \/ Rebindable
       THEN process' = "registered" /\ hostRow' = "reconciling" /\ link' = "replaying"
       ELSE process' = "none" /\ UNCHANGED <<hostRow, link>>
    /\ UNCHANGED <<seg, stop, wire, unsent, memory, disk, starts, counts>>

\* The statuses PendingLaunches sends again.
ResendableNone == {}

Resendable == {"launch_requested"}

\* HostReconciled after the replay: FinishHostReconcile, dispatchPendingStops,
\* then the grants of PendingLaunches.
FinishReconcile ==
    /\ link = "replaying" /\ spool = <<>>
    /\ hostRow' = "ready" /\ link' = "up"
    /\ wire' = wire \o SetToSeq({c \in Commands : c[1] = "stop" /\ stop[c[2]] = "pending"
                                              /\ c \notin ToSet(wire)})
                    \o SetToSeq({c \in Commands : c[1] = "launch" /\ seg[c[2]] \in Resendable})
    /\ UNCHANGED <<seg, stop, unsent, process, memory, disk, starts, counts>>

-----------------------------------------------------------------------------
(* Host *)

Report(s, kind) == /\ spool' = Append(spool, <<s, kind>>)
                   /\ out' = [out EXCEPT ![s] = kind]

\* receive, dispatchLaunch, acceptGrant: a grant that is new to the ledger gets
\* a worker; a repeated one that nobody works on is closed as unknown unless
\* its end is recorded (recoverDuplicateGrant).
ReceiveLaunch(s) ==
    /\ link = "up" /\ wire # <<>> /\ Head(wire) = <<"launch", s>>
    /\ wire' = Tail(wire)
    /\ IF s \notin ledger
       THEN /\ ledger' = ledger \cup {s} /\ worker' = [worker EXCEPT ![s] = "accepted"]
            /\ UNCHANGED <<spool, out>>
       ELSE /\ IF worker[s] = "none" /\ out[s] \notin Closed
               THEN Report(s, "unknown") ELSE UNCHANGED <<spool, out>>
            /\ UNCHANGED <<ledger, worker>>
    /\ UNCHANGED <<coordinator, link, unsent, process, intent, starts, counts>>

\* dispatchStop: StopSegment keeps an intent, also for a segment the host has
\* not heard of; a segment whose end is recorded needs none.
ReceiveStop(s) ==
    /\ link = "up" /\ wire # <<>> /\ Head(wire) = <<"stop", s>>
    /\ wire' = Tail(wire)
    /\ intent' = IF out[s] \in Closed THEN intent ELSE intent \cup {s}
    /\ UNCHANGED <<coordinator, link, unsent, process, worker, disk, starts, counts>>

\* Host.execute before Start: prepared, or the rejection that a stop or a
\* failed preparation leads to.
Prepare(s) ==
    /\ worker[s] = "accepted"
    /\ worker' = [worker EXCEPT ![s] = "prepared"]
    /\ Report(s, "prepared")
    /\ UNCHANGED <<coordinator, channel, process, intent, ledger, starts, counts>>

\* The worker returns: the segment is closed and clearStop drops its intent.
Close(s, kind) ==
    /\ Report(s, kind)
    /\ worker' = [worker EXCEPT ![s] = "none"] /\ intent' = intent \ {s}
    /\ UNCHANGED <<coordinator, channel, process, ledger, starts, counts>>

Reject(s) == worker[s] \in {"accepted", "prepared"} /\ Close(s, "rejected")

\* Start follows the last look at the stop; what it did is reported after it.
Start(s) ==
    /\ worker[s] = "prepared" /\ s \notin intent
    /\ worker' = [worker EXCEPT ![s] = "started"]
    /\ starts' = [starts EXCEPT ![s] = @ + 1]
    /\ UNCHANGED <<coordinator, channel, process, intent, disk, counts>>

ReportRunning(s) ==
    /\ worker[s] = "started"
    /\ worker' = [worker EXCEPT ![s] = "running"]
    /\ Report(s, "running")
    /\ UNCHANGED <<coordinator, channel, process, intent, ledger, starts, counts>>

\* The process ends, by itself or because of the stop; at any point of the
\* execution what happened may also be left unproved.
End(s) == worker[s] = "running" /\ Close(s, "exited")

LeaveUnknown(s) == worker[s] # "none" /\ Close(s, "unknown")

\* The host process is gone with its memory; the disk remains.
HostCrash ==
    /\ process = "registered" /\ crashes < MaxCrashes
    /\ crashes' = crashes + 1
    /\ process' = "none" /\ intent' = {}
    /\ worker' = [s \in Segments |-> "none"]
    /\ Lost /\ MarkHostOffline
    /\ UNCHANGED <<seg, stop, disk, starts, breaks, restarts>>

HostStart ==
    /\ process = "none" /\ process' = "other"
    /\ UNCHANGED <<coordinator, channel, memory, disk, starts, counts>>

-----------------------------------------------------------------------------
(* Coordinator: the head of the host's spool *)

\* validateLaunchRejection
RejectionProvedUnstopped(s) == seg[s] \in {"launch_requested", "prepared"}

RejectionProved(s) == \/ seg[s] \in {"launch_requested", "prepared"}
                      \/ seg[s] = "stopping" /\ stop[s] = "pending"

Completed(s) == [stop EXCEPT ![s] = IF stop[s] = "pending" THEN "completed" ELSE stop[s]]

\* applyEvent, applyExit, applyLaunchRejection.  A refused event stays at the
\* head of the spool: no later publication or reconnection gets past it.
Commit ==
    LET s == Head(spool)[1]
        kind == Head(spool)[2]
        refused == kind = "rejected" /\ ~RejectionProved(s)
    IN  /\ link \in {"replaying", "up"} /\ spool # <<>>
        /\ ~refused
        /\ spool' = Tail(spool)
        /\ \/ /\ kind = "prepared"
              /\ seg' = [seg EXCEPT ![s] = IF @ = "launch_requested" THEN "prepared" ELSE @]
              /\ UNCHANGED stop
           \/ /\ kind = "running"
              /\ seg' = [seg EXCEPT ![s] = IF @ \in {"launch_requested", "prepared"}
                                           THEN "running" ELSE @]
              /\ UNCHANGED stop
           \/ /\ kind = "exited"
              /\ seg' = [seg EXCEPT ![s] = "exited"] /\ stop' = Completed(s)
           \/ /\ kind = "rejected"
              /\ seg' = [seg EXCEPT ![s] = "not_started"] /\ stop' = Completed(s)
           \/ /\ kind = "unknown"
              /\ seg' = [seg EXCEPT ![s] = "unknown"]
              /\ stop' = [stop EXCEPT ![s] = IF @ = "pending" THEN "unknown" ELSE @]
        /\ UNCHANGED <<hostRow, channel, process, memory, ledger, out, starts, counts>>

-----------------------------------------------------------------------------
HostStep(s) == ReceiveLaunch(s) \/ ReceiveStop(s) \/ Prepare(s) \/ Reject(s)
               \/ Start(s) \/ ReportRunning(s) \/ End(s) \/ LeaveUnknown(s)

Next ==
    \/ \E s \in Segments : Claim(s) \/ SendLaunch(s) \/ RequestStop(s) \/ SendStop(s)
                           \/ HostStep(s)
    \/ MarkStoppingUnknown \/ Break \/ CoordinatorRestart \/ Connect \/ FinishReconcile
    \/ HostCrash \/ HostStart \/ Commit

Spec == Init /\ [][Next]_vars

\* The host reconnects, reads its connection and publishes; the coordinator
\* commits and sends; a worker that was told to stop ends.
Fairness ==
    /\ WF_vars(Connect) /\ WF_vars(FinishReconcile) /\ WF_vars(Commit)
    /\ \A s \in Segments :
         /\ WF_vars(SendLaunch(s)) /\ WF_vars(SendStop(s))
         /\ WF_vars(ReceiveLaunch(s)) /\ WF_vars(ReceiveStop(s))
         /\ WF_vars(Prepare(s) \/ Reject(s) \/ Start(s))
         /\ WF_vars(ReportRunning(s)) /\ WF_vars(s \in intent /\ (End(s) \/ LeaveUnknown(s)))

-----------------------------------------------------------------------------
(* Properties *)

\* However often a grant is sent and whoever crashes, its process is started at
\* most once, and never for a segment the coordinator settled as not started.
StartedOnce ==
    \A s \in Segments :
        /\ starts[s] <= 1
        /\ (seg[s] = "not_started" \/ out[s] = "rejected") => starts[s] = 0

\* A rejection on its way is refused only when shutdown has already given up on
\* the stop: no resend, stop or reconnection makes it unprovable.
RejectionAccepted ==
    \A i \in DOMAIN spool :
        spool[i][2] = "rejected" =>
            RejectionProved(spool[i][1]) \/ stop[spool[i][1]] = "unknown"

\* What the coordinator believes of a segment is never ahead of what the host
\* recorded: a closed segment was closed by the host's own event.
ClosedByHost ==
    \A s \in Segments :
        /\ seg[s] = "exited" => out[s] = "exited"
        /\ seg[s] = "not_started" => out[s] = "rejected"

\* A grant that is sent, lost and sent again is executed at most once, and what
\* the coordinator concludes of it is what the host recorded (scheduling.go:269,
\* launch_rejected.go).
GrantSound == TypeOK /\ StartedOnce /\ RejectionAccepted /\ ClosedByHost

\* While the host process lives, a committed grant is delivered and reported on.
GrantDelivered ==
    \A s \in Segments : (seg[s] = "launch_requested") ~> (seg[s] # "launch_requested")

\* A stop of a segment whose grant the host has accepted and not closed as
\* unknown is resolved, although commands and the connection are lost.
StopOfAcceptedResolves ==
    \A s \in Segments :
        (stop[s] = "pending" /\ s \in ledger /\ out[s] # "unknown")
            ~> (stop[s] # "pending")

\* Neither a grant nor the stop of an accepted one waits for ever for a command
\* that was lost with its connection.
GrantsResolve == GrantDelivered /\ StopOfAcceptedResolves

=============================================================================
