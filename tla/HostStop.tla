------------------------------ MODULE HostStop ------------------------------
(***************************************************************************)
(* How a source host executes a segment and how a stop reaches it          *)
(* (internal/host: host.go, stop_operation.go, stop_lifecycle.go,          *)
(* source_runtime.go; internal/process/process.go).                        *)
(*                                                                         *)
(* Each segment is executed once by a worker goroutine that starts one     *)
(* process and records the outcome: a launch phase in launch.json and      *)
(* events in the spool.  A stop command (StopSegment), the shutdown of the *)
(* host (BeginStopAll) and the natural end of the process meet in a small  *)
(* registry: an intent per segment, and a stop operation bound to the      *)
(* original process handle which is shared by everybody who waits for it.  *)
(* Every action is one critical section of stopMu, or one step outside it. *)
(***************************************************************************)
EXTENDS Integers, FiniteSets, Sequences, SequencesExt

CONSTANTS Segments,   \* the segments this host was granted
          Callers,    \* concurrent StopSegment calls
          Target,     \* the segment each call stops
          MaxFaults   \* bound on the file operations that fail

HostStopParameters ==
    /\ Target \in [Callers -> Segments]
    /\ MaxFaults \in Nat
ASSUME HostStopAssumption == HostStopParameters

VARIABLES
    pc,        \* the worker of a segment: where Host.execute is
    todo,      \* what the worker has still to record: phases and events
    ret,       \* the status execute returns
    waitErr,   \* p.Wait returned because the context was done
    ctx,       \* the segment's own context is cancelled
    cancels,   \* Host.segmentCancels holds the segment
    active,    \* Host.activeBySeg holds the segment's handle
    proc,      \* the process group: the leader, its descendants, nobody
    waited,    \* the original cmd.Wait has returned
    intent,    \* Host.stopIntents
    requested, \* Host.stopRequested
    op,        \* the stop operation on the segment's handle
    tail,      \* the operation closed done and has not looked at retire yet
    retire,    \* hostStopOperation.retire
    launch,    \* the phase in launch.json
    log,       \* the outcome events of the segment's spool
    call,      \* StopSegment calls
    stopping,  \* Host.stopping
    lost,      \* the source's context is cancelled
    generation,\* Host.naturalGeneration
    faults,    \* file operations that failed
    early,     \* a stop was registered before the natural end was selected
    natural    \* a failed natural observation was selected

worker == <<pc, todo, ret, waitErr>>
handle == <<proc, waited>>
registry == <<intent, requested, op, tail, retire, generation>>
files == <<launch, log>>
vars == <<worker, ctx, cancels, active, handle, registry, files, call,
          stopping, lost, faults, early, natural>>

Terminal == {"exited", "not_started", "unknown"}
Phases == {"none", "prepared", "starting", "running", "stopped"} \cup Terminal
Outcomes == {"stopped", "result", "failed", "rejected", "unknown", "exited"}
Closing == {"rejected", "unknown", "exited"}
Records == ({"phase"} \X Phases) \cup ({"event"} \X Outcomes)
OpDone == {"ok", "unknown"}
OpRunning == {"pending", "terming", "confirming", "killing"}

TypeOK ==
    /\ pc \in [Segments -> {"idle", "prepared", "starting", "failjoin", "started",
                            "registered", "abandoning", "waiting", "waited", "natural",
                            "unproved", "confirmed", "proved", "finalizing", "joining",
                            "recording", "unregister", "unclear", "uncancel", "clear",
                            "fallback", "closing", "cleared", "done"}]
    /\ todo \in [Segments -> Seq(Records)]
    /\ ret \in [Segments -> {"none", "ok", "interrupted", "failed", "unknown"}]
    /\ waitErr \in [Segments -> BOOLEAN] /\ ctx \in [Segments -> BOOLEAN]
    /\ cancels \in [Segments -> BOOLEAN] /\ active \in [Segments -> BOOLEAN]
    /\ proc \in [Segments -> {"none", "leader", "descendants", "gone"}]
    /\ waited \in [Segments -> BOOLEAN]
    /\ intent \in [Segments -> {"none", "unbound", "bound", "terminal"}]
    /\ requested \in [Segments -> BOOLEAN]
    /\ op \in [Segments -> {"none"} \cup OpRunning \cup OpDone]
    /\ tail \in [Segments -> BOOLEAN] /\ retire \in [Segments -> BOOLEAN]
    /\ launch \in [Segments -> Phases] /\ log \in [Segments -> Seq(Outcomes)]
    /\ call \in [Callers -> [at : {"idle", "again", "looking", "read", "registered", "reread",
                                   "clearing", "joining", "done"},
                             seen : Nat, terminal : BOOLEAN, cancel : BOOLEAN]]
    /\ stopping \in BOOLEAN /\ lost \in BOOLEAN
    /\ generation \in Nat /\ faults \in 0..MaxFaults
    /\ early \in [Segments -> BOOLEAN] /\ natural \in [Segments -> BOOLEAN]

Init ==
    /\ pc = [s \in Segments |-> "idle"] /\ todo = [s \in Segments |-> <<>>]
    /\ ret = [s \in Segments |-> "none"] /\ waitErr = [s \in Segments |-> FALSE]
    /\ ctx = [s \in Segments |-> FALSE] /\ cancels = [s \in Segments |-> FALSE]
    /\ active = [s \in Segments |-> FALSE] /\ proc = [s \in Segments |-> "none"]
    /\ waited = [s \in Segments |-> FALSE] /\ intent = [s \in Segments |-> "none"]
    /\ requested = [s \in Segments |-> FALSE]
    /\ op = [s \in Segments |-> "none"] /\ tail = [s \in Segments |-> FALSE]
    /\ retire = [s \in Segments |-> FALSE] /\ launch = [s \in Segments |-> "none"]
    /\ log = [s \in Segments |-> <<>>]
    /\ call = [c \in Callers |-> [at |-> "idle", seen |-> 0, terminal |-> FALSE,
                                  cancel |-> FALSE]]
    /\ stopping = FALSE /\ lost = FALSE /\ generation = 0 /\ faults = 0
    /\ early = [s \in Segments |-> FALSE] /\ natural = [s \in Segments |-> FALSE]

-----------------------------------------------------------------------------
(* Helpers *)

Go(s, where) == pc' = [pc EXCEPT ![s] = where]

CtxDone(s) == ctx[s] \/ lost
StopWasRequested(s) == stopping \/ requested[s]
GroupAlive(s) == proc[s] \in {"leader", "descendants"}
Logged(s) == ToSet(log[s])

\* The records of each outcome, in the order the code writes them.
Write(kind, what) == <<kind, what>>
UnknownRecords == <<Write("phase", "unknown"), Write("event", "unknown")>>
CandidateUnknownRecords == <<Write("event", "unknown"), Write("phase", "unknown")>>
RejectedRecords == <<Write("phase", "not_started"), Write("event", "rejected")>>
StoppedRecords == <<Write("phase", "stopped"), Write("event", "stopped"),
                    Write("phase", "exited"), Write("event", "exited")>>
ResultRecords(kind) == <<Write("event", kind), Write("phase", "exited"),
                         Write("event", "exited")>>

Record(s, records, status) ==
    /\ Go(s, "recording")
    /\ todo' = [todo EXCEPT ![s] = records]
    /\ ret' = [ret EXCEPT ![s] = status]
    /\ UNCHANGED waitErr

\* bindStopLocked: the first binding of the intent makes the operation.
Bind(s) ==
    /\ intent' = [intent EXCEPT ![s] = "bound"]
    /\ op' = IF intent[s] = "bound" THEN op ELSE [op EXCEPT ![s] = "pending"]

-----------------------------------------------------------------------------
(* The worker: Host.execute *)

\* A file operation that fails.  It may nevertheless be visible: the rename or
\* the link was made and only the sync of the directory failed.
Fails == faults < MaxFaults /\ faults' = faults + 1

\* Host.execute registers its cancellation and publishes "prepared": the phase,
\* then the event.
Enter(s) ==
    /\ pc[s] = "idle"
    /\ cancels' = [cancels EXCEPT ![s] = TRUE]
    /\ \/ /\ Go(s, "prepared")
          /\ launch' = [launch EXCEPT ![s] = "prepared"]
          /\ UNCHANGED <<ret, faults>>
       \/ /\ Fails
          /\ Go(s, "uncancel")
          /\ ret' = [ret EXCEPT ![s] = "failed"]
          /\ \E phase \in {launch[s], "prepared"} : launch' = [launch EXCEPT ![s] = phase]
       \/ /\ Fails
          /\ Go(s, "uncancel")
          /\ ret' = [ret EXCEPT ![s] = "unknown"]
          /\ launch' = [launch EXCEPT ![s] = "prepared"]
    /\ UNCHANGED <<todo, waitErr, ctx, active, handle, registry, log, call,
                   stopping, lost, early, natural>>

\* Before Start: a requested stop rejects the launch; a preparation that fails
\* leaves the record to execute's caller, and so does a failed write of
\* "starting", as unknown; an uncertain preparation is unknown.
Prelaunch(s) ==
    /\ pc[s] = "prepared"
    /\ \/ /\ StopWasRequested(s) \/ CtxDone(s)
          /\ Record(s, RejectedRecords, "failed")
          /\ UNCHANGED <<launch, faults>>
       \/ /\ ~StopWasRequested(s)
          /\ Record(s, CandidateUnknownRecords, "unknown")
          /\ UNCHANGED <<launch, faults>>
       \/ /\ ~StopWasRequested(s)
          /\ Go(s, "uncancel")
          /\ ret' = [ret EXCEPT ![s] = "failed"]
          /\ UNCHANGED <<todo, waitErr, launch, faults>>
       \/ /\ ~StopWasRequested(s)
          /\ Go(s, "starting")
          /\ launch' = [launch EXCEPT ![s] = "starting"]
          /\ UNCHANGED <<todo, ret, waitErr, faults>>
       \/ /\ ~StopWasRequested(s)
          /\ Fails
          /\ Go(s, "uncancel")
          /\ ret' = [ret EXCEPT ![s] = "unknown"]
          /\ \E phase \in {launch[s], "starting"} : launch' = [launch EXCEPT ![s] = phase]
          /\ UNCHANGED <<todo, waitErr>>
    /\ UNCHANGED <<ctx, cancels, active, handle, registry, log, call, stopping, lost,
                   early, natural>>

\* process.Start succeeds, fails without a process, or fails with one: then
\* stopFailedStart owns it by an operation outside the registry.
Start(s) ==
    /\ pc[s] = "starting"
    /\ \/ /\ Go(s, "started")
          /\ proc' = [proc EXCEPT ![s] = "leader"]
          /\ UNCHANGED <<todo, ret, waitErr, op>>
       \/ /\ Record(s, UnknownRecords, "unknown")
          /\ UNCHANGED <<proc, op>>
       \/ /\ Go(s, "failjoin")
          /\ proc' = [proc EXCEPT ![s] = "leader"]
          /\ op' = [op EXCEPT ![s] = "pending"]
          /\ UNCHANGED <<todo, ret, waitErr>>
    /\ UNCHANGED <<ctx, cancels, active, waited, intent, requested, tail, retire,
                   generation, files, call, stopping, lost, faults, early, natural>>

FailedStartJoined(s) ==
    /\ pc[s] = "failjoin"
    /\ op[s] \in OpDone
    /\ Record(s, UnknownRecords, "unknown")
    /\ UNCHANGED <<ctx, cancels, active, handle, registry, files, call, stopping, lost,
                   faults, early, natural>>

\* registerOwnedHandle: an intent that waited for a handle, or a global stop,
\* binds its operation here, before the context is cancelled.
RegisterOwnedHandle(s) ==
    /\ pc[s] = "started"
    /\ Go(s, "registered")
    /\ active' = [active EXCEPT ![s] = TRUE]
    /\ IF intent[s] # "none" \/ stopping
       THEN Bind(s) /\ ctx' = [ctx EXCEPT ![s] = TRUE]
       ELSE UNCHANGED <<intent, op, ctx>>
    /\ UNCHANGED <<todo, ret, waitErr, cancels, handle, requested, tail, retire,
                   generation, files, call, stopping, lost, faults, early, natural>>

\* "spawned" and "running" are published; a failure stops the process, ignores
\* the result and leaves the record to execute's caller.
Announce(s) ==
    /\ pc[s] = "registered"
    /\ \/ /\ Go(s, "waiting")
          /\ launch' = [launch EXCEPT ![s] = "running"]
          /\ UNCHANGED <<intent, op, faults>>
       \/ /\ Fails
          /\ Go(s, "abandoning")
          /\ Bind(s)
          /\ \E phase \in {launch[s], "running"} : launch' = [launch EXCEPT ![s] = phase]
    /\ UNCHANGED <<todo, ret, waitErr, ctx, cancels, active, handle, requested,
                   tail, retire, generation, log, call, stopping, lost, early, natural>>

AbandonJoined(s) ==
    /\ pc[s] = "abandoning"
    /\ op[s] \in OpDone
    /\ Go(s, "unregister")
    /\ ret' = [ret EXCEPT ![s] = "unknown"]
    /\ UNCHANGED <<todo, waitErr, ctx, cancels, active, handle, registry, files, call,
                   stopping, lost, faults, early, natural>>

\* p.Wait(ctx): either arm of the select when both are ready.
Wait(s) ==
    /\ pc[s] = "waiting"
    /\ \E err \in BOOLEAN :
         /\ IF err THEN CtxDone(s) ELSE waited[s]
         /\ waitErr' = [waitErr EXCEPT ![s] = err]
    /\ Go(s, "waited")
    /\ UNCHANGED <<todo, ret, ctx, cancels, active, handle, registry, files, call,
                   stopping, lost, faults, early, natural>>

\* stopForExecution after the wait: it may create the stop of a cancelled wait.
StopForExecution(s) ==
    /\ pc[s] = "waited"
    /\ IF intent[s] \in {"unbound", "bound"} \/ stopping \/ waitErr[s]
       THEN Go(s, "joining") /\ Bind(s)
       ELSE Go(s, "natural") /\ UNCHANGED <<intent, op>>
    /\ UNCHANGED <<todo, ret, waitErr, ctx, cancels, active, handle, requested,
                   tail, retire, generation, files, call, stopping, lost, faults, early,
                   natural>>

\* ConfirmTreeExited, outside stopMu.
ConfirmTreeExited(s) ==
    /\ pc[s] = "natural"
    /\ Go(s, IF waited[s] /\ ~GroupAlive(s) THEN "confirmed" ELSE "unproved")
    /\ UNCHANGED <<todo, ret, waitErr, ctx, cancels, active, handle, registry, files,
                   call, stopping, lost, faults, early, natural>>

\* stopAfterNaturalProof: an earlier stop governs; otherwise a failed
\* observation becomes terminal.
StopAfterNaturalProof(s) ==
    /\ pc[s] \in {"confirmed", "unproved"}
    /\ \/ /\ intent[s] # "none" \/ stopping
          /\ Go(s, "joining") /\ Bind(s)
          /\ UNCHANGED <<todo, ret, waitErr, generation, natural>>
       \/ /\ intent[s] = "none" /\ ~stopping /\ pc[s] = "unproved"
          /\ intent' = [intent EXCEPT ![s] = "terminal"]
          /\ generation' = generation + 1
          /\ natural' = [natural EXCEPT ![s] = TRUE]
          /\ Record(s, UnknownRecords, "unknown")
          /\ UNCHANGED op
       \/ /\ intent[s] = "none" /\ ~stopping /\ pc[s] = "confirmed"
          /\ Go(s, "proved")
          /\ UNCHANGED <<todo, ret, waitErr, intent, op, generation, natural>>
    /\ UNCHANGED <<ctx, cancels, active, handle, requested, tail, retire, files,
                   call, stopping, lost, faults, early>>

\* A stop after the observation still governs; a process that was killed
\* (ExitCode() < 0) ends as stopped without any operation.
AfterProof(s) ==
    /\ pc[s] = "proved"
    /\ \/ /\ intent[s] # "none" \/ stopping
          /\ Go(s, "joining") /\ Bind(s)
          /\ UNCHANGED <<todo, ret, waitErr>>
       \/ /\ intent[s] = "none" /\ ~stopping
          /\ Record(s, StoppedRecords, "interrupted")
          /\ UNCHANGED <<intent, op>>
       \/ /\ ~StopWasRequested(s)
          /\ Go(s, "finalizing")
          /\ UNCHANGED <<todo, ret, waitErr, intent, op>>
    /\ UNCHANGED <<ctx, cancels, active, handle, requested, tail, retire,
                   generation, files, call, stopping, lost, faults, early, natural>>

\* The end of execute: a finalizer (freezing a candidate, an action) may be
\* uncertain or interrupted; without one the outcome is recorded as it is.
Finalize(s) ==
    /\ pc[s] = "finalizing"
    /\ \/ Record(s, CandidateUnknownRecords, "unknown")
       \/ /\ CtxDone(s) \/ StopWasRequested(s)
          /\ Record(s, StoppedRecords, "interrupted")
       \/ \E kind \in {"result", "failed"} : Record(s, ResultRecords(kind), "ok")
    /\ UNCHANGED <<ctx, cancels, active, handle, registry, files, call, stopping, lost,
                   faults, early, natural>>

\* joinStop, then finishJoinedStop: only a proved stop is an exit.
StopJoined(s) ==
    /\ pc[s] = "joining"
    /\ op[s] \in OpDone
    /\ IF op[s] = "ok" THEN Record(s, StoppedRecords, "interrupted")
                       ELSE Record(s, UnknownRecords, "unknown")
    /\ UNCHANGED <<ctx, cancels, active, handle, registry, files, call, stopping, lost,
                   faults, early, natural>>

\* publishLaunchPhase and appendPhase write the next record.
WriteNext(s) ==
    LET next == Head(todo[s])
    IN  IF next[1] = "phase"
        THEN launch' = [launch EXCEPT ![s] = next[2]] /\ UNCHANGED log
        ELSE log' = [log EXCEPT ![s] = Append(log[s], next[2])] /\ UNCHANGED launch

\* The records, in order.  A write of an unknown outcome that fails is skipped;
\* any other failure ends the sequence with unknown.  An event that follows one
\* left visible by a failure may conflict with it, which is a failure as well.
RecordNext(s) ==
    /\ pc[s] = "recording"
    /\ LET leave == IF active[s] THEN "unregister" ELSE "uncancel"
       IN  \/ /\ todo[s] = <<>>
              /\ Go(s, leave)
              /\ UNCHANGED <<todo, ret, files, faults>>
           \/ /\ todo[s] # <<>>
              /\ todo' = [todo EXCEPT ![s] = Tail(todo[s])]
              /\ WriteNext(s)
              /\ UNCHANGED <<pc, ret, faults>>
           \/ /\ todo[s] # <<>> /\ Fails
              /\ ret' = [ret EXCEPT ![s] = "unknown"]
              /\ IF Head(todo[s])[2] = "unknown"
                 THEN todo' = [todo EXCEPT ![s] = Tail(todo[s])] /\ UNCHANGED pc
                 ELSE todo' = [todo EXCEPT ![s] = <<>>] /\ Go(s, leave)
              /\ UNCHANGED files \/ WriteNext(s)
    /\ UNCHANGED <<waitErr, ctx, cancels, active, handle, registry, call, stopping, lost,
                   early, natural>>

\* clearStop: a terminal intent stays while the segment is occupied; a running
\* operation is asked to retire the intent itself.
ClearStop(s) ==
    LET occupied == active[s] \/ cancels[s]
    IN  IF intent[s] = "terminal" /\ occupied
        THEN UNCHANGED <<intent, requested, retire, generation>>
        ELSE /\ generation' = generation + (IF intent[s] = "terminal" THEN 1 ELSE 0)
             /\ IF intent[s] = "bound" /\ op[s] \notin OpDone
                THEN /\ retire' = [retire EXCEPT ![s] = TRUE]
                     /\ UNCHANGED <<intent, requested>>
                ELSE /\ intent' = [intent EXCEPT ![s] = "none"]
                     /\ requested' = [requested EXCEPT ![s] = FALSE]
                     /\ UNCHANGED retire

\* The deferred calls of execute, last first: unregisterOwnedHandle and its
\* clearStop, the cancellation with its removal, and clearStop again.
Leave(s) ==
    /\ \/ /\ pc[s] = "unregister"
          /\ Go(s, "unclear")
          /\ active' = [active EXCEPT ![s] = FALSE]
          /\ UNCHANGED <<ctx, cancels, intent, requested, retire, generation>>
       \/ /\ pc[s] = "unclear"
          /\ Go(s, "uncancel")
          /\ ClearStop(s)
          /\ UNCHANGED <<ctx, cancels, active>>
       \/ /\ pc[s] = "uncancel"
          /\ Go(s, "clear")
          /\ ctx' = [ctx EXCEPT ![s] = TRUE]
          /\ cancels' = [cancels EXCEPT ![s] = FALSE]
          /\ UNCHANGED <<active, intent, requested, retire, generation>>
       \/ /\ pc[s] = "clear"
          /\ Go(s, "fallback")
          /\ ClearStop(s)
          /\ UNCHANGED <<ctx, cancels, active>>
    /\ UNCHANGED <<todo, ret, waitErr, handle, op, tail, files, call, stopping, lost,
                   faults, early, natural>>

\* livingSource.execute after ExecuteLaunch: an outcome that execute left open
\* is closed by ensureLaunchUnknown or recordLaunchFailed, unless it is there.
Fallback(s) ==
    /\ pc[s] = "fallback"
    /\ \/ /\ ret[s] \in {"ok", "interrupted"}
          /\ Go(s, "done")
          /\ UNCHANGED todo
       \/ /\ ret[s] \in {"unknown", "failed"}
          /\ Go(s, "closing")
          /\ todo' = [todo EXCEPT ![s] =
                        IF Logged(s) \cap Closing # {} THEN <<>>
                        ELSE IF ret[s] = "unknown" THEN UnknownRecords
                        ELSE RejectedRecords]
    /\ UNCHANGED <<ret, waitErr, ctx, cancels, active, handle, registry, files, call,
                   stopping, lost, faults, early, natural>>

\* recordLaunchUnknown and recordLaunchFailed; a failure leaves the rest undone.
CloseNext(s) ==
    /\ pc[s] = "closing"
    /\ \/ /\ todo[s] = <<>>
          /\ Go(s, "cleared")
          /\ UNCHANGED <<todo, files, faults>>
       \/ /\ todo[s] # <<>>
          /\ todo' = [todo EXCEPT ![s] = Tail(todo[s])]
          /\ WriteNext(s)
          /\ UNCHANGED <<pc, faults>>
       \/ /\ todo[s] # <<>> /\ Fails
          /\ Go(s, "cleared")
          /\ UNCHANGED files \/ WriteNext(s)
          /\ UNCHANGED todo
    /\ UNCHANGED <<ret, waitErr, ctx, cancels, active, handle, registry, call, stopping,
                   lost, early, natural>>

\* The clearStop both fallbacks defer; what they could not record is reported as
\* an error, which cancels the source.
Cleared(s) ==
    /\ pc[s] = "cleared"
    /\ Go(s, "done")
    /\ ClearStop(s)
    /\ lost' = (lost \/ todo[s] # <<>>)
    /\ UNCHANGED <<todo, ret, waitErr, ctx, cancels, active, handle, op, tail, files,
                   call, stopping, faults, early, natural>>

-----------------------------------------------------------------------------
(* The process (external) and the stop operation: Handle.Stop *)

\* The leader ends, by itself or by a signal, with or without descendants.
LeaderExits(s) ==
    /\ proc[s] = "leader"
    /\ \E left \in {"descendants", "gone"} : proc' = [proc EXCEPT ![s] = left]
    /\ UNCHANGED <<worker, ctx, cancels, active, waited, registry, files, call, stopping,
                   lost, faults, early, natural>>

DescendantsExit(s) ==
    /\ proc[s] = "descendants"
    /\ proc' = [proc EXCEPT ![s] = "gone"]
    /\ UNCHANGED <<worker, ctx, cancels, active, waited, registry, files, call, stopping,
                   lost, faults, early, natural>>

\* The original cmd.Wait returns.
Reaped(s) ==
    /\ proc[s] \in {"descendants", "gone"} /\ ~waited[s]
    /\ waited' = [waited EXCEPT ![s] = TRUE]
    /\ UNCHANGED <<worker, ctx, cancels, active, proc, registry, files, call, stopping,
                   lost, faults, early, natural>>

StopStep(s, state) ==
    /\ op' = [op EXCEPT ![s] = state]
    /\ tail' = [tail EXCEPT ![s] = state \in OpDone]
    /\ UNCHANGED <<worker, ctx, cancels, active, handle, intent, requested, retire,
                   generation, files, call, stopping, lost, faults, early, natural>>

\* A leader that is gone is never signalled: the proof is sought passively.
StopBegin(s) ==
    /\ op[s] = "pending"
    /\ StopStep(s, IF waited[s] \/ proc[s] # "leader" THEN "confirming"
                   ELSE "terming")

\* Mutant: the operation waits for the group without a deadline.
StopTermUnbounded(s) ==
    /\ op[s] = "terming"
    /\ ~GroupAlive(s) /\ StopStep(s, "confirming")

\* waitGroupGone within the window, then confirmStopped; or the window ends:
\* SIGKILL while the leader is still the one that was started.
StopTerm(s) ==
    /\ op[s] = "terming"
    /\ \/ ~GroupAlive(s) /\ StopStep(s, "confirming")
       \/ GroupAlive(s) /\ StopStep(s, IF proc[s] = "leader" THEN "killing" ELSE "unknown")

\* The proof of a stop: the group is gone and the original Wait returned, in
\* the remaining window.
StopConfirm(s) ==
    /\ op[s] \in {"confirming", "killing"}
    /\ \/ ~GroupAlive(s) /\ waited[s] /\ StopStep(s, "ok")
       \/ StopStep(s, "unknown")

\* After closing done the operation retires the intent when it was asked to.
StopRetire(s) ==
    /\ tail[s]
    /\ tail' = [tail EXCEPT ![s] = FALSE]
    /\ IF intent[s] = "bound" /\ retire[s]
       THEN /\ intent' = [intent EXCEPT ![s] = "none"]
            /\ requested' = [requested EXCEPT ![s] = FALSE]
       ELSE UNCHANGED <<intent, requested>>
    /\ UNCHANGED <<worker, ctx, cancels, active, handle, op, retire, generation, files,
                   call, stopping, lost, faults, early, natural>>

-----------------------------------------------------------------------------
(* StopSegment *)

CallGoes(c, where) == call' = [call EXCEPT ![c].at = where]

\* Under stopMu: a terminal intent ends the call, a bound one is joined, and
\* otherwise the generation is remembered for the unlocked read that follows.
\* The window of the stop is the deadline every stop command carries.
StopLookup(c) ==
    LET s == Target[c]
    IN  /\ call[c].at \in {"idle", "again"}
        /\ \/ intent[s] = "terminal" /\ CallGoes(c, "done")
           \/ intent[s] = "bound" /\ CallGoes(c, "joining")
           \/ /\ intent[s] \in {"none", "unbound"}
              /\ call' = [call EXCEPT ![c].at = "looking", ![c].seen = generation]
        /\ UNCHANGED <<worker, ctx, cancels, active, handle, registry, files, stopping,
                       lost, faults, early, natural>>

\* segmentStopComplete: launch.json is read outside the lock.
StopRead(c) ==
    /\ call[c].at = "looking"
    /\ call' = [call EXCEPT ![c].at = "read",
                            ![c].terminal = launch[Target[c]] \in Terminal]
    /\ UNCHANGED <<worker, ctx, cancels, active, handle, registry, files, stopping, lost,
                   faults, early, natural>>

\* Mutant: the read is trusted although a natural failure was selected since.
AnyGeneration(c) == TRUE

\* The generation check that guards a stale read.
SameGeneration(c) == call[c].seen = generation

\* Under stopMu again: a natural failure selected since the read makes the call
\* start over; otherwise the intent is registered, and bound when there is a
\* handle.
StopRegister(c) ==
    LET s == Target[c]
    IN  /\ call[c].at = "read"
        /\ \/ /\ ~SameGeneration(c)
              /\ CallGoes(c, "again")
              /\ UNCHANGED <<intent, op, requested, early>>
           \/ /\ SameGeneration(c)
              /\ \/ intent[s] = "terminal" /\ CallGoes(c, "done")
                 \/ intent[s] = "bound" /\ CallGoes(c, "joining")
                 \/ intent[s] \in {"none", "unbound"} /\ call[c].terminal /\ CallGoes(c, "done")
              /\ UNCHANGED <<intent, op, requested, early>>
           \/ /\ SameGeneration(c)
              /\ intent[s] \in {"none", "unbound"} /\ ~call[c].terminal
              /\ call' = [call EXCEPT ![c].at = "registered", ![c].cancel = cancels[s]]
              /\ requested' = [requested EXCEPT ![s] = TRUE]
              /\ early' = [early EXCEPT ![s] = early[s] \/
                             pc[s] \notin {"proved", "finalizing", "recording",
                                           "unregister", "unclear", "uncancel", "clear",
                                           "fallback", "closing", "cleared", "done"}]
              /\ IF active[s] THEN Bind(s)
                 ELSE /\ intent' = [intent EXCEPT ![s] = "unbound"]
                      /\ UNCHANGED op
        /\ UNCHANGED <<worker, ctx, cancels, active, handle, tail, retire, generation,
                       files, stopping, lost, faults, natural>>

\* After the lock: cancel the execution, then join the operation, or look at
\* launch.json again when there was nobody to cancel.
StopCancel(c) ==
    LET s == Target[c]
    IN  /\ call[c].at = "registered"
        /\ ctx' = [ctx EXCEPT ![s] = ctx[s] \/ call[c].cancel]
        /\ CallGoes(c, IF intent[s] = "bound" THEN "joining"
                       ELSE IF call[c].cancel THEN "done" ELSE "reread")
        /\ UNCHANGED <<worker, cancels, active, handle, registry, files, stopping, lost,
                       faults, early, natural>>

\* Mutant: the call does not look at launch.json again.
StopNoReread(c) ==
    /\ call[c].at \in {"reread", "clearing"}
    /\ CallGoes(c, "done")
    /\ UNCHANGED <<worker, ctx, cancels, active, handle, registry, files, stopping, lost,
                   faults, early, natural>>

\* A launch that ended in between has nobody else to clear the intent.
StopReread(c) ==
    LET s == Target[c]
    IN  /\ \/ /\ call[c].at = "reread"
              /\ CallGoes(c, IF launch[s] \in Terminal THEN "clearing" ELSE "done")
              /\ UNCHANGED <<intent, requested, retire, generation>>
           \/ /\ call[c].at = "clearing"
              /\ CallGoes(c, "done")
              /\ ClearStop(s)
        /\ UNCHANGED <<worker, ctx, cancels, active, handle, op, tail, files, stopping,
                       lost, faults, early, natural>>

\* joinHostStopOperations; the registry may already have dropped the intent.
StopJoin(c) ==
    /\ call[c].at = "joining"
    /\ op[Target[c]] \in OpDone
    /\ CallGoes(c, "done")
    /\ UNCHANGED <<worker, ctx, cancels, active, handle, registry, files, stopping, lost,
                   faults, early, natural>>

-----------------------------------------------------------------------------
(* Shutdown of the source *)

\* The source's context is cancelled: its origin owner is gone, or BeginStopAll
\* has registered every stop and the cleanup goes on.
SourceCancelled ==
    /\ ~lost
    /\ lost' = TRUE
    /\ UNCHANGED <<worker, ctx, cancels, active, handle, registry, files, call, stopping,
                   faults, early, natural>>

\* BeginStopAll: one window for every segment that is occupied and not terminal.
BeginStopAll ==
    LET live == {s \in Segments : (cancels[s] \/ active[s]) /\ intent[s] # "terminal"}
    IN  /\ ~stopping
        /\ stopping' = TRUE
        /\ requested' = [s \in Segments |-> requested[s] \/ s \in live]
        /\ intent' = [s \in Segments |-> IF s \notin live THEN intent[s]
                                         ELSE IF active[s] THEN "bound"
                                         ELSE IF intent[s] = "none" THEN "unbound"
                                         ELSE intent[s]]
        /\ op' = [s \in Segments |-> IF s \in live /\ active[s] /\ intent[s] # "bound"
                                     THEN "pending" ELSE op[s]]
        /\ early' = [s \in Segments |-> early[s] \/ pc[s] = "idle" \/
                       (s \in live /\ pc[s] \notin {"proved", "finalizing", "recording",
                                                    "unregister", "unclear", "uncancel"})]
        /\ UNCHANGED <<worker, ctx, cancels, active, handle, tail, retire,
                       generation, files, call, lost, faults, natural>>

-----------------------------------------------------------------------------
WorkerStep(s) ==
    \/ Prelaunch(s) \/ Start(s) \/ FailedStartJoined(s) \/ RegisterOwnedHandle(s)
    \/ Announce(s) \/ AbandonJoined(s) \/ Wait(s) \/ StopForExecution(s)
    \/ ConfirmTreeExited(s) \/ StopAfterNaturalProof(s) \/ AfterProof(s) \/ Finalize(s)
    \/ StopJoined(s) \/ RecordNext(s) \/ Leave(s) \/ Fallback(s) \/ CloseNext(s)
    \/ Cleared(s)

OperationStep(s) == StopBegin(s) \/ StopTerm(s) \/ StopConfirm(s) \/ StopRetire(s)
ProcessStep(s) == LeaderExits(s) \/ DescendantsExit(s) \/ Reaped(s)
CallStep(c) == StopLookup(c) \/ StopRead(c) \/ StopRegister(c) \/ StopCancel(c)
               \/ StopReread(c) \/ StopJoin(c)

Next ==
    \/ \E s \in Segments : Enter(s) \/ WorkerStep(s) \/ OperationStep(s) \/ ProcessStep(s)
    \/ \E c \in Callers : CallStep(c)
    \/ SourceCancelled \/ BeginStopAll

Spec == Init /\ [][Next]_vars

\* Goroutines are scheduled and the windows of a stop operation end.  Nothing
\* says that a process exits or that anybody asks for a stop.
Fairness ==
    /\ \A s \in Segments : WF_vars(WorkerStep(s)) /\ WF_vars(OperationStep(s))
    /\ \A c \in Callers : WF_vars(call[c].at # "idle" /\ CallStep(c))
    /\ WF_vars(stopping /\ SourceCancelled)

-----------------------------------------------------------------------------
(* Properties *)

\* An exit is recorded, in launch.json or as an event, and a stop reports
\* success, only when the whole process group of the original handle is gone
\* and its Wait has returned; a rejection only when nothing was started.
ExitProved ==
    \A s \in Segments :
        /\ (launch[s] \in {"stopped", "exited"} \/ "exited" \in Logged(s) \/ op[s] = "ok")
             => proc[s] = "gone" /\ waited[s]
        /\ (launch[s] = "not_started" \/ "rejected" \in Logged(s)) => proc[s] = "none"

\* A stop registered before the natural end of the process was selected governs
\* the outcome: the segment never reports a result or a failure of its own.
StopGoverns ==
    \A s \in Segments : early[s] => Logged(s) \cap {"result", "failed"} = {}

\* A worker that is done has recorded exactly one closing event, the last one,
\* and launch.json does not contradict it, whatever write of the execution
\* failed on the way.  Only a failure of the caller's own closing record may
\* leave the segment without one (or with one that is visible and reported as
\* failed), and that failure ends the source.
OneOutcome ==
    \A s \in Segments :
        pc[s] = "done" =>
            /\ \A i \in DOMAIN log[s] : log[s][i] \in Closing => i = Len(log[s])
            /\ (Logged(s) \cap Closing = {} \/ todo[s] # <<>>) =>
                 todo[s] # <<>> /\ ret[s] \in {"failed", "unknown"} /\ lost
            /\ "exited" \in Logged(s) => launch[s] = "exited"
            /\ "rejected" \in Logged(s) => launch[s] = "not_started"
            /\ "unknown" \in Logged(s) => launch[s] \notin {"exited", "not_started"}

\* When the worker, the operation and every call of a segment have ended and the
\* end is in launch.json, the registry keeps nothing of the segment.
RegistryReleased ==
    \A s \in Segments :
        (/\ pc[s] = "done" /\ launch[s] \in Terminal /\ ~tail[s] /\ op[s] \notin OpRunning
         /\ \A c \in Callers : Target[c] = s => call[c].at \in {"idle", "done"})
        => intent[s] = "none" /\ ~requested[s]

\* What the host records of a launch is true, single and governed by an earlier
\* stop, and leaves nothing in the registry, whichever of the stop calls,
\* StopAll, the natural end and failed writes come in which order.
OutcomeSound == TypeOK /\ ExitProved /\ StopGoverns /\ OneOutcome /\ RegistryReleased

\* Once a failed natural observation was selected, no later stop request is
\* registered for the segment, neither while the selection is in the registry
\* nor, after the registry dropped it, on the strength of a launch.json read
\* before; this relies on the phase having been written.
NaturalFailureFinal ==
    [][\A s \in Segments :
          natural[s] /\ ~requested[s] /\ faults = 0 => ~requested'[s]]_vars

\* A stop that was registered for a worker brings the worker to its end.
StopEndsWorker ==
    \A s \in Segments : (requested[s] /\ pc[s] # "idle") ~> (pc[s] = "done")

\* Every StopSegment call that was made returns, however often a natural
\* failure makes it start over.
CallReturns ==
    \A c \in Callers : (call[c].at # "idle") ~> (call[c].at = "done")

\* A stop ends: at the worker it was registered for and for its caller
\* (stopOwned, StopSegment).
StopEnds == StopEndsWorker /\ CallReturns
=============================================================================
