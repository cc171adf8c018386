------------------------------ MODULE MCSession ------------------------------
(*****************************************************************************)
(* The native sessions of a run, for TLC: the bridge that writes events into *)
(* the owner's session, and the channel over which a worker's session        *)
(* reports.  They share no state: component names the one that runs while    *)
(* the others keep their initial state, so that one run explores the         *)
(* behaviours of each.                                                       *)
(*****************************************************************************)
EXTENDS BridgeDelivery, TLC

CONSTANTS p1, p2, q1, q2, r1, n1, h1, h2

\* The component that runs.
VARIABLE component
VARIABLES task, seg, outcome, stop, question, session, cap, reports, intake,
          handler, hostRow, epoch, link, backlog, toReplay, registry, worker,
          announced, spool, faults

\* Three ways to bound the bridge: two events in one session whose leases
\* lapse and whose hooks die; one event through a rebinding and a restart;
\* more events than one batch takes.
Emitting ==
    /\ Len(bindings') <= 1 /\ owner' = 0 /\ counts'.restarts = 0
    /\ \A e \in Events : e > 2 => events'[e] = "none"
Rebinding ==
    /\ counts'.lapses = 0
    /\ \A e \in Events : e > 1 => events'[e] = "none"
Paging ==
    Len(bindings') <= 1 /\ owner' = 0 /\ counts' = counts

Channel == INSTANCE ReportChannel WITH
    Questions <- {q1, q2}, Results <- {r1}, Progress <- {n1}, Handlers <- {h1,
    h2}, MaxSegments <- 1, MaxReports <- 2, MaxFaults <- 2, OwnerStops <-
    TRUE, NativeQuestions <- TRUE, Continued <- TRUE, Managed <- FALSE
Resuming == INSTANCE ReportChannel WITH
    Questions <- {q1}, Results <- {}, Progress <- {}, Handlers <- {h1},
    MaxSegments <- 3, MaxReports <- 1, MaxFaults <- 0, OwnerStops <- TRUE,
    NativeQuestions <- TRUE, Continued <- TRUE, Managed <- TRUE

reportChannelVars == <<task, seg, outcome, stop, question, session, cap,
                       reports, intake, handler, hostRow, epoch, link,
                       backlog, toReplay, registry, worker, announced, spool,
                       faults>>

MCInit ==
    /\ component \in {"emit", "rebind", "page", "report", "resume"}
    /\ Init
    /\ CASE component = "resume" -> Resuming!Init
         [] OTHER -> Channel!Init

MCNext ==
    /\ UNCHANGED component
    /\ \/ component = "emit" /\ Next /\ Emitting /\ UNCHANGED reportChannelVars
       \/ component = "rebind" /\ Next /\ Rebinding /\ UNCHANGED reportChannelVars
       \/ component = "page" /\ Next /\ Paging /\ UNCHANGED reportChannelVars
       \/ component = "report" /\ Channel!Next /\ UNCHANGED vars
       \/ component = "resume" /\ Resuming!Next /\ UNCHANGED vars

allVars == <<component, vars, reportChannelVars>>

MCSpec == MCInit /\ [][MCNext]_allVars

ASSUME SessionParameters ==
    Channel!ReportChannelParameters /\ Resuming!ReportChannelParameters

\* Hooks are interchangeable, and so are the handlers of reports.
Symmetry == Permutations({p1, p2}) \union Permutations({h1, h2})

-----------------------------------------------------------------------------

\* ReportChannel: What is repeated after a lost answer or connection is
\* accepted as before.
ReplaySound == 
    /\ component = "report" => Channel!ReplaySound
    /\ component = "resume" => Resuming!ReplaySound

\* ReportChannel: One question at a time, and the task waits exactly for it.
QuestionSound == 
    /\ component = "report" => Channel!QuestionSound
    /\ component = "resume" => Resuming!QuestionSound

=============================================================================
