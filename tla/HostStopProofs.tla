--------------------------- MODULE HostStopProofs ---------------------------
(***************************************************************************)
(* What the host records of a launch is true, single and governed by an    *)
(* earlier stop, and the registry keeps nothing of it (OutcomeSound); a    *)
(* failed natural observation that was selected stays the last word        *)
(* (NaturalFailureFinal).                                                  *)
(*                                                                         *)
(* The invariant says where the worker is with its process (Placed), what  *)
(* it has recorded and still has to record (Recorded), what an exit, a     *)
(* rejection and a proved stop presuppose (Truth), where an early stop     *)
(* waits until it is obeyed (Governed), who retires the intent of a        *)
(* segment (Registered) and what a call has seen (Called, Final).          *)
(***************************************************************************)
EXTENDS HostStop, TLAPS

\* Where the worker is: before its process, with it, before anything is
\* recorded, after it gave up its handle, and after it left execute.
Unstarted == {"idle", "prepared", "starting"}
Handled == {"registered", "abandoning", "waiting", "waited", "natural", "unproved",
            "confirmed", "proved", "finalizing", "joining"}
Before == Unstarted \cup {"failjoin", "started"} \cup Handled
Early == Before \ {"proved", "finalizing", "joining"}
Deferred == {"unregister", "unclear", "uncancel", "clear"}
After == {"fallback", "closing", "cleared", "done"}
Ending == {"recording"} \cup Deferred \cup After

OpenLogs == {<<>>, <<"stopped">>, <<"result">>, <<"failed">>}
Underway == {"none", "prepared", "starting", "running"}
EndRecords == <<Write("phase", "exited"), Write("event", "exited")>>
LastRecord == <<Write("event", "exited")>>
UnknownPhase == <<Write("phase", "unknown")>>
UnknownEvent == <<Write("event", "unknown")>>
RejectedEvent == <<Write("event", "rejected")>>
StoppedEvent == <<Write("event", "stopped"), Write("phase", "exited"), Write("event", "exited")>>
OwnRecords == {ResultRecords("result"), ResultRecords("failed")}
ExitRecords == OwnRecords \cup {StoppedRecords, StoppedEvent, EndRecords, LastRecord}

-----------------------------------------------------------------------------

\* The worker, its handle and its process.
Placed(s) ==
    /\ cancels[s] <=> pc[s] \notin {"idle", "clear"} \cup After
    /\ pc[s] \in Handled \cup {"unregister"} => active[s]
    /\ active[s] => pc[s] \in Handled \cup {"recording", "unregister"}
    /\ pc[s] \in Unstarted => proc[s] = "none"
    /\ pc[s] \in Before \ Unstarted => proc[s] # "none"
    /\ waited[s] => proc[s] \in {"descendants", "gone"}

\* The closing event is there, and launch.json agrees with it.
Agrees(kind, phase) ==
    /\ kind = "exited" => phase = "exited"
    /\ kind = "rejected" => phase = "not_started"
    /\ kind = "unknown" => phase \notin {"exited", "not_started"}
Settled(s) ==
    \E l \in OpenLogs, kind \in Closing : log[s] = Append(l, kind) /\ Agrees(kind, launch[s])

\* What execute leaves: a closed outcome or one that its caller closes.
Left(s) ==
    /\ Settled(s) \/ (ret[s] \in {"failed", "unknown"} /\ log[s] \in OpenLogs)
    /\ ret[s] \in {"ok", "interrupted"} => launch[s] = "exited"
    /\ ret[s] # "none" /\ todo[s] = <<>>

Recording(s) ==
    \/ Left(s)
    \/ /\ ret[s] = "unknown"
       /\ \/ todo[s] \in {UnknownRecords, CandidateUnknownRecords} /\ log[s] = <<>>
             /\ launch[s] \in Underway
          \/ todo[s] = UnknownEvent /\ log[s] = <<>> /\ launch[s] \in Underway \cup {"unknown"}
          \/ todo[s] = UnknownPhase /\ log[s] \in {<<>>, <<"unknown">>}
             /\ launch[s] \in Underway
    \/ /\ ret[s] = "failed" /\ log[s] = <<>>
       /\ \/ todo[s] = RejectedRecords
          \/ todo[s] = RejectedEvent /\ launch[s] = "not_started"
    \/ /\ ret[s] \in {"ok", "interrupted"}
       /\ \/ todo[s] \in OwnRecords \cup {StoppedRecords, StoppedEvent} /\ log[s] = <<>>
          \/ todo[s] = EndRecords /\ log[s] \in OpenLogs
          \/ todo[s] = LastRecord /\ log[s] \in OpenLogs /\ launch[s] = "exited"

Reclosing(s) ==
    \/ todo[s] = <<>> /\ Settled(s) /\ ret[s] \in {"unknown", "failed"}
    \/ /\ log[s] \in OpenLogs /\ ret[s] = "unknown"
       /\ todo[s] = UnknownRecords \/ (todo[s] = UnknownEvent /\ launch[s] = "unknown")
    \/ /\ log[s] \in OpenLogs /\ ret[s] = "failed"
       /\ todo[s] = RejectedRecords \/ (todo[s] = RejectedEvent /\ launch[s] = "not_started")

\* The caller could not close the outcome: the record it was at may be there.
Stranded(s) ==
    /\ ret[s] \in {"failed", "unknown"} /\ (Settled(s) \/ log[s] \in OpenLogs)
    /\ todo[s] \in {UnknownRecords, UnknownEvent, RejectedRecords, RejectedEvent}

\* What is recorded and what is still to be, where the worker is.
Recorded(s) ==
    /\ pc[s] \in Before => /\ log[s] = <<>> /\ todo[s] = <<>> /\ ret[s] = "none"
                           /\ launch[s] \in Underway
    /\ pc[s] = "recording" => Recording(s)
    /\ pc[s] \in Deferred \cup {"fallback"} => Left(s)
    /\ pc[s] = "closing" => Reclosing(s)
    /\ pc[s] \in {"cleared", "done"} => (todo[s] = <<>> /\ Settled(s)) \/ Stranded(s)
    /\ pc[s] = "done" => todo[s] = <<>> \/ lost

\* An exit, a rejection and a proved stop are true.
Truth(s) ==
    /\ (\/ launch[s] \in {"stopped", "exited"} \/ "exited" \in Logged(s) \/ op[s] = "ok"
        \/ pc[s] \in {"confirmed", "proved", "finalizing"} \/ todo[s] \in ExitRecords)
         => proc[s] = "gone" /\ waited[s]
    /\ (\/ launch[s] = "not_started" \/ "rejected" \in Logged(s)
        \/ ret[s] = "failed" \/ todo[s] \in {RejectedRecords, RejectedEvent})
         => proc[s] = "none" /\ pc[s] \in Ending

\* An early stop is in the registry until it is obeyed.
Governed(s) ==
    early[s] => /\ pc[s] \in Early => stopping \/ intent[s] \in {"unbound", "bound"}
                /\ pc[s] \notin {"proved", "finalizing"} /\ todo[s] \notin OwnRecords
                /\ Logged(s) \cap {"result", "failed"} = {}

\* Who clears the intent of a worker that is past its own clearing.
Owed(s) ==
    \/ \E c \in Callers : /\ Target[c] = s
                          /\ \/ call[c].at = "registered" /\ ~call[c].cancel
                             \/ call[c].at \in {"reread", "clearing"}
    \/ pc[s] = "fallback" /\ ret[s] \in {"failed", "unknown"}
    \/ pc[s] \in {"closing", "cleared"}
    \/ pc[s] = "done" /\ launch[s] \notin Terminal

\* The intent, its operation and its end.
Registered(s) ==
    /\ requested[s] => intent[s] \in {"unbound", "bound"}
    /\ intent[s] = "bound" => op[s] \in OpRunning \cup OpDone
    /\ pc[s] \in Unstarted \cup {"failjoin", "started"} => intent[s] \in {"none", "unbound"}
    /\ intent[s] = "terminal" => pc[s] \in {"recording"} \cup Deferred
    /\ retire[s] => pc[s] \in Ending
    /\ pc[s] \in After /\ intent[s] = "bound" => retire[s] /\ (op[s] \in OpRunning \/ tail[s])
    /\ pc[s] \in After /\ intent[s] = "unbound" => Owed(s)

\* What a call has seen.
Called(c) ==
    /\ call[c].seen <= generation
    /\ call[c].at = "clearing" => pc[Target[c]] \in Ending
    /\ call[c].at \in {"registered", "reread"} /\ pc[Target[c]] \in Early
         => intent[Target[c]] \in {"unbound", "bound"}

\* A natural failure that was selected is final.
Final(s) ==
    natural[s] =>
        /\ pc[s] \in Ending /\ ret[s] = "unknown"
        /\ faults = 0 => launch[s] = "unknown" \/ (pc[s] = "recording" /\ todo[s] = UnknownRecords)
        /\ pc[s] \notin After =>
             /\ intent[s] = "terminal"
             /\ \A c \in Callers : Target[c] = s => call[c].at \notin {"registered", "reread", "clearing"}
        /\ faults = 0 =>
             \A c \in Callers :
                Target[c] = s /\ call[c].at \in {"looking", "read"} /\ call[c].seen = generation
                  => pc[s] \in After /\ (call[c].at = "read" => call[c].terminal)

StopInv ==
    /\ TypeOK
    /\ \A s \in Segments : /\ Placed(s) /\ Recorded(s) /\ Truth(s) /\ Governed(s)
                           /\ Registered(s) /\ Final(s)
    /\ \A c \in Callers : Called(c)

\* The variables that are functions, and of what.
LEMMA Domains ==
    ASSUME TypeOK
    PROVE  /\ DOMAIN pc = Segments /\ DOMAIN todo = Segments /\ DOMAIN ret = Segments
           /\ DOMAIN waitErr = Segments /\ DOMAIN ctx = Segments /\ DOMAIN cancels = Segments
           /\ DOMAIN active = Segments /\ DOMAIN proc = Segments /\ DOMAIN waited = Segments
           /\ DOMAIN intent = Segments /\ DOMAIN requested = Segments /\ DOMAIN op = Segments
           /\ DOMAIN tail = Segments /\ DOMAIN retire = Segments /\ DOMAIN launch = Segments
           /\ DOMAIN log = Segments /\ DOMAIN call = Callers
           /\ DOMAIN early = Segments /\ DOMAIN natural = Segments
BY DEF TypeOK

\* A step is a worker's, or it leaves alone what only workers write.
LEMMA Working ==
    ASSUME Next
    PROVE  \/ \E r \in Segments : Enter(r) \/ WorkerStep(r)
           \/ UNCHANGED <<worker, cancels, active, files, faults, natural>>
<1>1. ASSUME NEW r \in Segments, OperationStep(r)
      PROVE  UNCHANGED <<worker, cancels, active, files, faults, natural>>
  BY <1>1 DEF OperationStep, StopBegin, StopTerm, StopConfirm, StopRetire, StopStep
<1>2. ASSUME NEW r \in Segments, ProcessStep(r)
      PROVE  UNCHANGED <<worker, cancels, active, files, faults, natural>>
  BY <1>2 DEF ProcessStep, LeaderExits, DescendantsExit, Reaped
<1>3. ASSUME NEW c \in Callers, CallStep(c)
      PROVE  UNCHANGED <<worker, cancels, active, files, faults, natural>>
  BY <1>3 DEF CallStep, StopLookup, StopRead, StopRegister, StopCancel, StopReread, StopJoin
<1>4. CASE SourceCancelled \/ BeginStopAll BY <1>4 DEF SourceCancelled, BeginStopAll
<1> QED BY <1>1, <1>2, <1>3, <1>4 DEF Next

-----------------------------------------------------------------------------
(* The worker and its process. *)

\* Every step keeps the worker, its handle and its process together.
LEMMA PlacedStep == ASSUME StopInv, Next, NEW s \in Segments PROVE Placed(s)'
<1>1. TypeOK /\ Placed(s) BY DEF StopInv
<1>2. ASSUME NEW r \in Segments, Enter(r) PROVE Placed(s)'
  BY <1>1, <1>2, Domains DEF Enter, Fails, Go, Placed, Unstarted, Handled, Before, After, handle
<1>3. ASSUME NEW r \in Segments, Prelaunch(r) PROVE Placed(s)'
  BY <1>1, <1>3, Domains DEF Prelaunch, Fails, Record, Go, Placed, Unstarted, Handled, Before, After, handle
<1>4. ASSUME NEW r \in Segments, Start(r) PROVE Placed(s)'
  BY <1>1, <1>4, Domains DEF Start, Record, Go, Placed, Unstarted, Handled, Before, After, handle
<1>5. ASSUME NEW r \in Segments, FailedStartJoined(r) PROVE Placed(s)'
  BY <1>1, <1>5, Domains DEF FailedStartJoined, Record, Go, Placed, Unstarted, Handled, Before, After, handle
<1>6. ASSUME NEW r \in Segments, RegisterOwnedHandle(r) PROVE Placed(s)'
  BY <1>1, <1>6, Domains DEF RegisterOwnedHandle, Go, Placed, Unstarted, Handled, Before, After, handle
<1>7. ASSUME NEW r \in Segments, Announce(r) PROVE Placed(s)'
  BY <1>1, <1>7, Domains DEF Announce, Fails, Go, Placed, Unstarted, Handled, Before, After, handle
<1>8. ASSUME NEW r \in Segments, AbandonJoined(r) PROVE Placed(s)'
  BY <1>1, <1>8, Domains DEF AbandonJoined, Go, Placed, Unstarted, Handled, Before, After, handle
<1>9. ASSUME NEW r \in Segments, Wait(r) PROVE Placed(s)'
  BY <1>1, <1>9, Domains DEF Wait, Go, Placed, Unstarted, Handled, Before, After, handle
<1>10. ASSUME NEW r \in Segments, StopForExecution(r) PROVE Placed(s)'
  BY <1>1, <1>10, Domains DEF StopForExecution, Go, Placed, Unstarted, Handled, Before, After, handle
<1>11. ASSUME NEW r \in Segments, ConfirmTreeExited(r) PROVE Placed(s)'
  BY <1>1, <1>11, Domains DEF ConfirmTreeExited, Go, Placed, Unstarted, Handled, Before, After, handle
<1>12. ASSUME NEW r \in Segments, StopAfterNaturalProof(r) PROVE Placed(s)'
  BY <1>1, <1>12, Domains DEF StopAfterNaturalProof, Record, Go, Placed, Unstarted, Handled, Before, After, handle
<1>13. ASSUME NEW r \in Segments, AfterProof(r) PROVE Placed(s)'
  BY <1>1, <1>13, Domains DEF AfterProof, Record, Go, Placed, Unstarted, Handled, Before, After, handle
<1>14. ASSUME NEW r \in Segments, Finalize(r) PROVE Placed(s)'
  BY <1>1, <1>14, Domains DEF Finalize, Record, Go, Placed, Unstarted, Handled, Before, After, handle
<1>15. ASSUME NEW r \in Segments, StopJoined(r) PROVE Placed(s)'
  BY <1>1, <1>15, Domains DEF StopJoined, Record, Go, Placed, Unstarted, Handled, Before, After, handle
<1>16. ASSUME NEW r \in Segments, RecordNext(r) PROVE Placed(s)'
  BY <1>1, <1>16, Domains DEF RecordNext, WriteNext, Fails, Go, Placed, Unstarted, Handled, Before, After, handle
<1>17. ASSUME NEW r \in Segments, Leave(r) PROVE Placed(s)'
  BY <1>1, <1>17, Domains DEF Leave, Go, Placed, Unstarted, Handled, Before, After, handle
<1>18. ASSUME NEW r \in Segments, Fallback(r) PROVE Placed(s)'
  BY <1>1, <1>18, Domains DEF Fallback, Go, Placed, Unstarted, Handled, Before, After, handle
<1>19. ASSUME NEW r \in Segments, CloseNext(r) PROVE Placed(s)'
  BY <1>1, <1>19, Domains DEF CloseNext, WriteNext, Fails, Go, Placed, Unstarted, Handled, Before, After, handle
<1>20. ASSUME NEW r \in Segments, Cleared(r) PROVE Placed(s)'
  BY <1>1, <1>20, Domains DEF Cleared, Go, Placed, Unstarted, Handled, Before, After, handle
<1>21. ASSUME NEW r \in Segments, ProcessStep(r) PROVE Placed(s)'
  BY <1>1, <1>21, Domains DEF ProcessStep, LeaderExits, DescendantsExit, Reaped, Placed, worker,
     Unstarted, Handled, Before, After
<1>22. CASE UNCHANGED <<worker, cancels, active, handle>>
  BY <1>1, <1>22 DEF worker, handle, Placed
<1>23. ASSUME NEW r \in Segments, OperationStep(r) PROVE UNCHANGED <<worker, cancels, active, handle>>
  BY <1>23 DEF OperationStep, StopBegin, StopTerm, StopConfirm, StopRetire, StopStep
<1>24. ASSUME NEW c \in Callers, CallStep(c) PROVE UNCHANGED <<worker, cancels, active, handle>>
  BY <1>24 DEF CallStep, StopLookup, StopRead, StopRegister, StopCancel, StopReread, StopJoin
<1>25. ASSUME SourceCancelled \/ BeginStopAll PROVE UNCHANGED <<worker, cancels, active, handle>>
  BY <1>25 DEF SourceCancelled, BeginStopAll
<1>26. CASE \E r \in Segments : Enter(r) \/ WorkerStep(r)
  BY <1>2, <1>3, <1>4, <1>5, <1>6, <1>7, <1>8, <1>9, <1>10, <1>11, <1>12, <1>13, <1>14, <1>15, <1>16,
     <1>17, <1>18, <1>19, <1>20, <1>26 DEF WorkerStep
<1>27. CASE \E r \in Segments : OperationStep(r) \/ ProcessStep(r)
  BY <1>21, <1>22, <1>23, <1>27
<1>28. CASE (\E c \in Callers : CallStep(c)) \/ SourceCancelled \/ BeginStopAll
  BY <1>22, <1>24, <1>25, <1>28
<1> QED BY <1>26, <1>27, <1>28 DEF Next

-----------------------------------------------------------------------------
(* The records. *)

\* The records, one after the other.
LEMMA RecordsFact ==
    /\ UnknownRecords # <<>> /\ Head(UnknownRecords) = <<"phase", "unknown">>
    /\ Tail(UnknownRecords) = UnknownEvent
    /\ CandidateUnknownRecords # <<>> /\ Head(CandidateUnknownRecords) = <<"event", "unknown">>
    /\ Tail(CandidateUnknownRecords) = UnknownPhase
    /\ UnknownEvent # <<>> /\ Head(UnknownEvent) = <<"event", "unknown">> /\ Tail(UnknownEvent) = <<>>
    /\ UnknownPhase # <<>> /\ Head(UnknownPhase) = <<"phase", "unknown">> /\ Tail(UnknownPhase) = <<>>
    /\ RejectedRecords # <<>> /\ Head(RejectedRecords) = <<"phase", "not_started">>
    /\ Tail(RejectedRecords) = RejectedEvent
    /\ RejectedEvent # <<>> /\ Head(RejectedEvent) = <<"event", "rejected">>
    /\ Tail(RejectedEvent) = <<>>
    /\ StoppedRecords # <<>> /\ Head(StoppedRecords) = <<"phase", "stopped">>
    /\ Tail(StoppedRecords) = StoppedEvent
    /\ StoppedEvent # <<>> /\ Head(StoppedEvent) = <<"event", "stopped">>
    /\ Tail(StoppedEvent) = EndRecords
    /\ EndRecords # <<>> /\ Head(EndRecords) = <<"phase", "exited">> /\ Tail(EndRecords) = LastRecord
    /\ LastRecord # <<>> /\ Head(LastRecord) = <<"event", "exited">> /\ Tail(LastRecord) = <<>>
    /\ \A kind \in {"result", "failed"} :
         /\ ResultRecords(kind) # <<>> /\ Head(ResultRecords(kind)) = <<"event", kind>>
         /\ Tail(ResultRecords(kind)) = EndRecords
BY DEF UnknownRecords, CandidateUnknownRecords, UnknownEvent, UnknownPhase, RejectedRecords,
   RejectedEvent, StoppedRecords, StoppedEvent, EndRecords, LastRecord, ResultRecords, Write

\* A log that is open, and one closing event behind it.
LEMMA LogsFact ==
    /\ \A k \in {"stopped", "result", "failed"} : Append(<<>>, k) = <<k>> /\ <<k>> \in OpenLogs
    /\ Append(<<>>, "unknown") = <<"unknown">> /\ <<>> \in OpenLogs
    /\ \A l \in OpenLogs : l \in Seq(Outcomes) /\ ToSet(l) \subseteq {"stopped", "result", "failed"}
    /\ \A l \in OpenLogs, k \in Closing :
         /\ ToSet(Append(l, k)) = ToSet(l) \cup {k}
         /\ Append(l, k) \in Seq(Outcomes) /\ Append(l, k) # <<>>
         /\ Len(Append(l, k)) \in DOMAIN Append(l, k) /\ Append(l, k)[Len(Append(l, k))] = k
         /\ \A i \in DOMAIN Append(l, k) : i # Len(Append(l, k)) => Append(l, k)[i] \notin Closing
<1>1. \A k \in {"stopped", "result", "failed"} : Append(<<>>, k) = <<k>> /\ <<k>> \in OpenLogs
  BY DEF OpenLogs
<1>2. Append(<<>>, "unknown") = <<"unknown">> /\ <<>> \in OpenLogs BY DEF OpenLogs
<1>3. ASSUME NEW l \in OpenLogs
      PROVE  /\ l \in Seq(Outcomes) /\ ToSet(l) \subseteq {"stopped", "result", "failed"}
             /\ Len(l) \in Nat /\ DOMAIN l = 1..Len(l)
  <2>1. \A k \in {"stopped", "result", "failed"} :
          <<k>> \in Seq(Outcomes) /\ Len(<<k>>) = 1 /\ DOMAIN <<k>> = 1..1 /\ ToSet(<<k>>) = {k}
    BY DEF Outcomes, ToSet
  <2>2. <<>> \in Seq(Outcomes) /\ Len(<<>>) = 0 /\ DOMAIN <<>> = 1..0 /\ ToSet(<<>>) = {}
    BY DEF ToSet
  <2> QED BY <2>1, <2>2 DEF OpenLogs
<1>4. ASSUME NEW l \in OpenLogs, NEW k \in Closing
      PROVE  /\ ToSet(Append(l, k)) = ToSet(l) \cup {k}
             /\ Append(l, k) \in Seq(Outcomes) /\ Append(l, k) # <<>>
             /\ Len(Append(l, k)) \in DOMAIN Append(l, k) /\ Append(l, k)[Len(Append(l, k))] = k
             /\ \A i \in DOMAIN Append(l, k) : i # Len(Append(l, k)) => Append(l, k)[i] \notin Closing
  <2>1. k \in Outcomes BY DEF Closing, Outcomes
  <2>2. /\ Append(l, k) \in Seq(Outcomes) /\ Len(Append(l, k)) = Len(l) + 1
        /\ \A i \in 1..Len(l) : Append(l, k)[i] = l[i]
        /\ Append(l, k)[Len(l) + 1] = k
    BY <1>3, <2>1
  <2>3. DOMAIN Append(l, k) = 1..(Len(l) + 1) BY <2>2
  <2>4. \A i \in DOMAIN l : l[i] \notin Closing BY <1>3 DEF ToSet, Closing
  <2>5. ToSet(Append(l, k)) = ToSet(l) \cup {k} BY <1>3, <2>2, <2>3 DEF ToSet
  <2> QED BY <1>3, <2>2, <2>3, <2>4, <2>5
<1> QED BY <1>1, <1>2, <1>3, <1>4

\* Nothing a segment's worker wrote or will write changes.
SameWork(s) ==
    /\ pc'[s] = pc[s] /\ todo'[s] = todo[s] /\ ret'[s] = ret[s]
    /\ launch'[s] = launch[s] /\ log'[s] = log[s]

\* A worker writes nothing of another segment.
LEMMA SameWorkFact ==
    ASSUME TypeOK, NEW r \in Segments, NEW s \in Segments, r # s, Enter(r) \/ WorkerStep(r)
    PROVE  SameWork(s)
<1> USE Domains DEF SameWork
<1>1. ASSUME Enter(r) \/ Prelaunch(r) \/ Start(r) \/ FailedStartJoined(r) \/ RegisterOwnedHandle(r)
             \/ Announce(r) \/ AbandonJoined(r) \/ Wait(r) \/ StopForExecution(r)
      PROVE  SameWork(s)
  BY <1>1 DEF Enter, Fails, Prelaunch, Start, FailedStartJoined, RegisterOwnedHandle, Announce,
     AbandonJoined, Wait, StopForExecution, Go, Record, files
<1>2. ASSUME ConfirmTreeExited(r) \/ StopAfterNaturalProof(r) \/ AfterProof(r) \/ Finalize(r)
             \/ StopJoined(r) \/ Leave(r) \/ Fallback(r) \/ Cleared(r)
      PROVE  SameWork(s)
  BY <1>2 DEF ConfirmTreeExited, StopAfterNaturalProof, AfterProof, Finalize, StopJoined, Leave,
     Fallback, Cleared, Go, Record, files
<1>3. ASSUME RecordNext(r) \/ CloseNext(r) PROVE SameWork(s)
  BY <1>3 DEF RecordNext, WriteNext, Fails, CloseNext, Go, files
<1> QED BY <1>1, <1>2, <1>3 DEF WorkerStep

\* A source that is cancelled stays cancelled.
LEMMA LostStays == ASSUME Next PROVE lost => lost'
<1>1. ASSUME NEW r \in Segments, Enter(r) \/ WorkerStep(r) PROVE lost => lost'
  <2>1. CASE Cleared(r) BY <2>1 DEF Cleared
  <2>2. CASE \/ Enter(r) \/ Prelaunch(r) \/ Start(r) \/ FailedStartJoined(r)
             \/ RegisterOwnedHandle(r) \/ Announce(r) \/ AbandonJoined(r) \/ Wait(r)
             \/ StopForExecution(r) \/ ConfirmTreeExited(r)
    BY <2>2 DEF Enter, Prelaunch, Start, FailedStartJoined, RegisterOwnedHandle, Announce,
       AbandonJoined, Wait, StopForExecution, ConfirmTreeExited
  <2>3. CASE \/ StopAfterNaturalProof(r) \/ AfterProof(r) \/ Finalize(r) \/ StopJoined(r)
             \/ RecordNext(r) \/ Leave(r) \/ Fallback(r) \/ CloseNext(r)
    BY <2>3 DEF StopAfterNaturalProof, AfterProof, Finalize, StopJoined, RecordNext, Leave,
       Fallback, CloseNext
  <2> QED BY <1>1, <2>1, <2>2, <2>3 DEF WorkerStep
<1>2. ASSUME NEW r \in Segments, OperationStep(r) \/ ProcessStep(r) PROVE lost => lost'
  BY <1>2 DEF OperationStep, StopBegin, StopTerm, StopConfirm, StopRetire, StopStep,
     ProcessStep, LeaderExits, DescendantsExit, Reaped
<1>3. ASSUME NEW c \in Callers, CallStep(c) PROVE lost => lost'
  BY <1>3 DEF CallStep, StopLookup, StopRead, StopRegister, StopCancel, StopReread, StopJoin
<1>4. CASE SourceCancelled \/ BeginStopAll BY <1>4 DEF SourceCancelled, BeginStopAll
<1> QED BY <1>1, <1>2, <1>3, <1>4 DEF Next

\* A step that writes nothing of the segment keeps what is recorded.
LEMMA RecordedKept ==
    ASSUME NEW s \in Segments, Recorded(s), SameWork(s), lost => lost' PROVE Recorded(s)'
BY DEF Recorded, SameWork, Recording, Reclosing, Left, Settled, Stranded

\* The record that is written goes to launch.json or to the spool.
LEMMA WriteNextFact ==
    ASSUME TypeOK, NEW s \in Segments, WriteNext(s)
    PROVE  /\ \A what : Head(todo[s]) = <<"phase", what>> => launch'[s] = what /\ log'[s] = log[s]
           /\ \A what : Head(todo[s]) = <<"event", what>> =>
                launch'[s] = launch[s] /\ log'[s] = Append(log[s], what)
BY Domains DEF WriteNext

\* A worker that begins to record.
LEMMA RecordedBegins ==
    ASSUME TypeOK, NEW s \in Segments, Recorded(s), pc[s] \in Before, UNCHANGED log, UNCHANGED launch,
           NEW records, NEW status, Record(s, records, status),
           \/ status = "unknown" /\ records \in {UnknownRecords, CandidateUnknownRecords}
           \/ status = "failed" /\ records = RejectedRecords
           \/ status = "interrupted" /\ records = StoppedRecords
           \/ status = "ok" /\ records \in OwnRecords
    PROVE  Recorded(s)'
<1>1. pc'[s] = "recording" /\ todo'[s] = records /\ ret'[s] = status BY Domains DEF Record, Go
<1>2. log[s] = <<>> /\ launch[s] \in Underway BY DEF Recorded
<1> QED BY <1>1, <1>2 DEF Recorded, Recording, Before, Unstarted, Handled, Deferred, After

\* The next record is written, or its write fails.
LEMMA RecordedNext ==
    ASSUME TypeOK, NEW s \in Segments, Recorded(s), RecordNext(s) PROVE Recorded(s)'
<1>1. Recording(s) /\ pc[s] = "recording" BY DEF Recorded, RecordNext
<1>2. CASE todo[s] = <<>>
  <2>1. Left(s) BY <1>1, <1>2, RecordsFact DEF Recording, OwnRecords
  <2>2. /\ pc'[s] \in Deferred /\ todo'[s] = todo[s] /\ ret'[s] = ret[s]
        /\ launch'[s] = launch[s] /\ log'[s] = log[s]
    BY <1>2, Domains DEF RecordNext, WriteNext, Fails, Go, files, Deferred
  <2>3. Left(s)' BY <2>1, <2>2 DEF Left, Settled
  <2> QED BY <2>2, <2>3 DEF Recorded, Before, Unstarted, Handled, Deferred, After
<1>3. ASSUME todo[s] # <<>>, todo'[s] = Tail(todo[s]), WriteNext(s), pc'[s] = pc[s],
             ret'[s] = ret[s]
      PROVE  Recorded(s)'
  <2>1. todo'[s] = Tail(todo[s]) /\ ret'[s] = ret[s] /\ pc'[s] = "recording"
    BY <1>1, <1>3
  <2>2. \A what : Head(todo[s]) = <<"phase", what>> => launch'[s] = what /\ log'[s] = log[s]
    BY <1>3, WriteNextFact
  <2>3. \A what : Head(todo[s]) = <<"event", what>> =>
          launch'[s] = launch[s] /\ log'[s] = Append(log[s], what)
    BY <1>3, WriteNextFact
  <2>4. ~Left(s) BY <1>3 DEF Left
  <2>5. Recording(s)'
    <3>1. CASE ret[s] = "unknown"
      <4>1. CASE todo[s] = UnknownRecords /\ log[s] = <<>>
        BY <4>1, <3>1, <2>1, <2>2, RecordsFact DEF Recording
      <4>2. CASE todo[s] = CandidateUnknownRecords /\ log[s] = <<>> /\ launch[s] \in Underway
        <5>1. log'[s] = Append(<<>>, "unknown") /\ launch'[s] = launch[s] /\ todo'[s] = UnknownPhase
          BY <4>2, <2>1, <2>3, RecordsFact
        <5>2. log'[s] = <<"unknown">> BY <5>1, LogsFact
        <5> QED BY <5>1, <5>2, <4>2, <3>1, <2>1 DEF Recording
      <4>3. CASE todo[s] = UnknownEvent /\ log[s] = <<>> /\ launch[s] \in Underway \cup {"unknown"}
        <5>1. log'[s] = Append(<<>>, "unknown") /\ launch'[s] = launch[s] /\ todo'[s] = <<>>
          BY <4>3, <2>1, <2>3, RecordsFact
        <5> QED BY <5>1, <4>3, <3>1, <2>1, LogsFact
                DEF Recording, Left, Settled, Agrees, Closing, Underway
      <4>4. CASE todo[s] = UnknownPhase /\ log[s] \in {<<>>, <<"unknown">>}
        <5>1. log'[s] = log[s] /\ launch'[s] = "unknown" /\ todo'[s] = <<>>
          BY <4>4, <2>1, <2>2, RecordsFact
        <5> QED BY <5>1, <4>4, <3>1, <2>1, LogsFact
                DEF Recording, Left, Settled, Agrees, Closing, Underway
      <4> QED BY <4>1, <4>2, <4>3, <4>4, <3>1, <2>4, <1>1 DEF Recording
    <3>2. CASE ret[s] = "failed"
      <4>1. CASE todo[s] = RejectedRecords /\ log[s] = <<>>
        BY <4>1, <3>2, <2>1, <2>2, RecordsFact DEF Recording
      <4>2. CASE todo[s] = RejectedEvent /\ log[s] = <<>> /\ launch[s] = "not_started"
        <5>1. log'[s] = Append(<<>>, "rejected") /\ launch'[s] = "not_started" /\ todo'[s] = <<>>
          BY <4>2, <2>1, <2>3, RecordsFact
        <5> QED BY <5>1, <3>2, <2>1, LogsFact DEF Recording, Left, Settled, Agrees, Closing
      <4> QED BY <4>1, <4>2, <3>2, <2>4, <1>1 DEF Recording
    <3>3. CASE ret[s] \in {"ok", "interrupted"}
      <4>1. CASE todo[s] \in OwnRecords /\ log[s] = <<>>
        <5>1. PICK kind \in {"result", "failed"} : todo[s] = ResultRecords(kind)
          BY <4>1 DEF OwnRecords
        <5>2. log'[s] = Append(<<>>, kind) /\ todo'[s] = EndRecords
          BY <5>1, <4>1, <2>1, <2>3, RecordsFact
        <5> QED BY <5>2, <3>3, <2>1, LogsFact DEF Recording
      <4>2. CASE todo[s] = StoppedRecords /\ log[s] = <<>>
        BY <4>2, <3>3, <2>1, <2>2, RecordsFact DEF Recording
      <4>3. CASE todo[s] = StoppedEvent /\ log[s] = <<>>
        <5>1. log'[s] = Append(<<>>, "stopped") /\ todo'[s] = EndRecords
          BY <4>3, <2>1, <2>3, RecordsFact
        <5> QED BY <5>1, <3>3, <2>1, LogsFact DEF Recording
      <4>4. CASE todo[s] = EndRecords /\ log[s] \in OpenLogs
        BY <4>4, <3>3, <2>1, <2>2, RecordsFact DEF Recording
      <4>5. CASE todo[s] = LastRecord /\ log[s] \in OpenLogs /\ launch[s] = "exited"
        <5>1. log'[s] = Append(log[s], "exited") /\ launch'[s] = "exited" /\ todo'[s] = <<>>
          BY <4>5, <2>1, <2>3, RecordsFact
        <5> QED BY <5>1, <4>5, <3>3, <2>1 DEF Recording, Left, Settled, Agrees, Closing
      <4> QED BY <4>1, <4>2, <4>3, <4>4, <4>5, <3>3, <2>4, <1>1 DEF Recording
    <3> QED BY <3>1, <3>2, <3>3, <2>4, <1>1 DEF Recording
  <2> QED BY <2>1, <2>5 DEF Recorded, Before, Unstarted, Handled, Deferred, After
<1>4. ASSUME todo[s] # <<>>, ret' = [ret EXCEPT ![s] = "unknown"], UNCHANGED files \/ WriteNext(s),
             IF Head(todo[s])[2] = "unknown"
             THEN todo' = [todo EXCEPT ![s] = Tail(todo[s])] /\ UNCHANGED pc
             ELSE /\ todo' = [todo EXCEPT ![s] = <<>>]
                  /\ Go(s, IF active[s] THEN "unregister" ELSE "uncancel")
      PROVE  Recorded(s)'
  <2>1. ret'[s] = "unknown" BY <1>4, Domains
  <2>2. ~Left(s) BY <1>4 DEF Left
  <2>3. CASE ret[s] = "unknown"
    <3>1. Head(todo[s])[2] = "unknown"
      <4>1. todo[s] \in {UnknownRecords, CandidateUnknownRecords, UnknownEvent, UnknownPhase}
        BY <2>3, <2>2, <1>1 DEF Recording
      <4>2. Head(todo[s]) \in {<<"phase", "unknown">>, <<"event", "unknown">>}
        BY <4>1, RecordsFact
      <4> QED BY <4>2
    <3>2. todo'[s] = Tail(todo[s]) /\ pc'[s] = "recording" /\ pc'[s] = pc[s] /\ ret'[s] = ret[s]
      BY <3>1, <2>1, <2>3, <1>1, <1>4, Domains
    <3>3. CASE WriteNext(s) BY <3>2, <3>3, <1>3, <1>4
    <3>4. CASE UNCHANGED files
      <4>0. log'[s] = log[s] /\ launch'[s] = launch[s] BY <3>4 DEF files
      <4>1. CASE todo[s] = UnknownRecords /\ log[s] = <<>> /\ launch[s] \in Underway
        BY <4>0, <4>1, <3>2, <2>1, RecordsFact
           DEF Recorded, Recording, Before, Unstarted, Handled, Deferred, After
      <4>2. CASE todo[s] = CandidateUnknownRecords /\ log[s] = <<>> /\ launch[s] \in Underway
        BY <4>0, <4>2, <3>2, <2>1, RecordsFact
           DEF Recorded, Recording, Before, Unstarted, Handled, Deferred, After
      <4>3. CASE todo[s] = UnknownEvent /\ log[s] = <<>>
        <5>0. todo'[s] = <<>> /\ log'[s] = <<>> BY <4>0, <4>3, <3>2, RecordsFact
        <5>1. Left(s)' BY <5>0, <2>1, LogsFact DEF Left
        <5> QED BY <5>1, <3>2 DEF Recorded, Recording, Before, Unstarted, Handled, Deferred, After
      <4>4. CASE todo[s] = UnknownPhase /\ log[s] \in {<<>>, <<"unknown">>} /\ launch[s] \in Underway
        <5>0. todo'[s] = <<>> /\ log'[s] \in {<<>>, Append(<<>>, "unknown")} /\ launch'[s] \in Underway
          BY <4>0, <4>4, <3>2, RecordsFact, LogsFact
        <5>1. Left(s)' BY <5>0, <2>1, LogsFact DEF Left, Settled, Agrees, Closing, Underway
        <5> QED BY <5>1, <3>2 DEF Recorded, Recording, Before, Unstarted, Handled, Deferred, After
      <4> QED BY <4>1, <4>2, <4>3, <4>4, <2>3, <2>2, <1>1 DEF Recording
    <3> QED BY <3>3, <3>4, <1>4
  <2>4. CASE ret[s] # "unknown"
    <3>1. Head(todo[s])[2] # "unknown"
      <4>1. todo[s] \in {RejectedRecords, RejectedEvent, ResultRecords("result"),
                         ResultRecords("failed"), StoppedRecords, StoppedEvent, EndRecords, LastRecord}
        BY <2>4, <2>2, <1>1 DEF Recording, OwnRecords
      <4>2. \E k \in {"phase", "event"},
               what \in {"not_started", "rejected", "result", "failed", "stopped", "exited"} :
              Head(todo[s]) = <<k, what>>
        BY <4>1, RecordsFact
      <4> QED BY <4>2
    <3>2. todo'[s] = <<>> /\ pc'[s] \in Deferred
      BY <3>1, <1>4, Domains DEF Go, Deferred
    <3>3. log[s] \in OpenLogs BY <2>4, <2>2, <1>1, LogsFact DEF Recording
    <3>4. Settled(s)' \/ log'[s] \in OpenLogs
      <4>1. CASE UNCHANGED files BY <4>1, <3>3 DEF files
      <4>2. CASE WriteNext(s)
        <5>1. CASE todo[s] \in {RejectedRecords, StoppedRecords, EndRecords}
          BY <5>1, <4>2, <3>3, WriteNextFact, RecordsFact
        <5>2. CASE todo[s] = RejectedEvent /\ log[s] = <<>> /\ launch[s] = "not_started"
          <6>1. log'[s] = Append(<<>>, "rejected") /\ launch'[s] = "not_started"
            BY <5>2, <4>2, WriteNextFact, RecordsFact
          <6> QED BY <6>1, LogsFact DEF Settled, Agrees, Closing
        <5>3. CASE todo[s] \in OwnRecords /\ log[s] = <<>>
          <6>1. PICK kind \in {"result", "failed"} : todo[s] = ResultRecords(kind)
            BY <5>3 DEF OwnRecords
          <6>2. log'[s] = Append(<<>>, kind) BY <6>1, <5>3, <4>2, WriteNextFact, RecordsFact
          <6> QED BY <6>2, LogsFact
        <5>4. CASE todo[s] = StoppedEvent /\ log[s] = <<>>
          <6>1. log'[s] = Append(<<>>, "stopped") BY <5>4, <4>2, WriteNextFact, RecordsFact
          <6> QED BY <6>1, LogsFact
        <5>5. CASE todo[s] = LastRecord /\ launch[s] = "exited"
          <6>1. log'[s] = Append(log[s], "exited") /\ launch'[s] = "exited"
            BY <5>5, <4>2, WriteNextFact, RecordsFact
          <6> QED BY <6>1, <3>3 DEF Settled, Agrees, Closing
        <5> QED BY <5>1, <5>2, <5>3, <5>4, <5>5, <2>4, <2>2, <1>1 DEF Recording
      <4> QED BY <4>1, <4>2, <1>4
    <3>5. Left(s)' BY <3>2, <3>4, <2>1 DEF Left
    <3> QED BY <3>2, <3>5 DEF Recorded, Before, Unstarted, Handled, Deferred, After
  <2> QED BY <2>3, <2>4
<1>5. ASSUME todo[s] # <<>>, todo' = [todo EXCEPT ![s] = Tail(todo[s])], WriteNext(s),
             UNCHANGED <<pc, ret>>
      PROVE  Recorded(s)'
  BY <1>3, <1>5, Domains
<1> QED BY <1>2, <1>4, <1>5 DEF RecordNext, Fails

\* The fallback writes what is missing, or its write fails and the rest is left.
LEMMA RecordedCloses ==
    ASSUME TypeOK, NEW s \in Segments, Recorded(s), CloseNext(s) PROVE Recorded(s)'
<1>1. Reclosing(s) /\ pc[s] = "closing" /\ ret'[s] = ret[s] BY DEF Recorded, CloseNext
<1>2. CASE todo[s] = <<>>
  <2>1. Settled(s) BY <1>1, <1>2, RecordsFact DEF Reclosing
  <2>2. /\ pc'[s] = "cleared" /\ todo'[s] = <<>> /\ launch'[s] = launch[s] /\ log'[s] = log[s]
    BY <1>2, Domains DEF CloseNext, Go, files
  <2>3. Settled(s)' BY <2>1, <2>2 DEF Settled
  <2> QED BY <2>2, <2>3 DEF Recorded, Before, Unstarted, Handled, Deferred
<1>3. ASSUME todo[s] # <<>>, todo'[s] = Tail(todo[s]), pc'[s] = "closing", WriteNext(s)
      PROVE  Recorded(s)'
  <2>1. \A what : Head(todo[s]) = <<"phase", what>> => launch'[s] = what /\ log'[s] = log[s]
    BY <1>3, WriteNextFact
  <2>2. \A what : Head(todo[s]) = <<"event", what>> =>
          launch'[s] = launch[s] /\ log'[s] = Append(log[s], what)
    BY <1>3, WriteNextFact
  <2>3. Reclosing(s)'
    <3>1. CASE todo[s] = UnknownRecords /\ log[s] \in OpenLogs /\ ret[s] = "unknown"
      BY <3>1, <2>1, <1>1, <1>3, RecordsFact DEF Reclosing
    <3>2. CASE /\ todo[s] = UnknownEvent /\ log[s] \in OpenLogs /\ ret[s] = "unknown"
               /\ launch[s] = "unknown"
      <4>1. log'[s] = Append(log[s], "unknown") /\ todo'[s] = <<>> /\ launch'[s] = "unknown"
        BY <3>2, <2>2, <1>3, RecordsFact
      <4> QED BY <4>1, <3>2, <1>1 DEF Reclosing, Settled, Agrees, Closing
    <3>3. CASE todo[s] = RejectedRecords /\ log[s] \in OpenLogs /\ ret[s] = "failed"
      BY <3>3, <2>1, <1>1, <1>3, RecordsFact DEF Reclosing
    <3>4. CASE /\ todo[s] = RejectedEvent /\ log[s] \in OpenLogs /\ ret[s] = "failed"
               /\ launch[s] = "not_started"
      <4>1. log'[s] = Append(log[s], "rejected") /\ todo'[s] = <<>> /\ launch'[s] = "not_started"
        BY <3>4, <2>2, <1>3, RecordsFact
      <4> QED BY <4>1, <3>4, <1>1 DEF Reclosing, Settled, Agrees, Closing
    <3> QED BY <3>1, <3>2, <3>3, <3>4, <1>1, <1>3 DEF Reclosing
  <2> QED BY <2>3, <1>3 DEF Recorded, Before, Unstarted, Handled, Deferred
<1>4. ASSUME todo[s] # <<>>, todo'[s] = todo[s], pc'[s] = "cleared", UNCHANGED files \/ WriteNext(s)
      PROVE  Recorded(s)'
  <2>1. /\ log[s] \in OpenLogs /\ ret'[s] \in {"failed", "unknown"}
        /\ todo'[s] \in {UnknownRecords, UnknownEvent, RejectedRecords, RejectedEvent}
    BY <1>1, <1>4 DEF Reclosing
  <2>2. Settled(s)' \/ log'[s] \in OpenLogs
    <3>1. CASE UNCHANGED files BY <2>1, <3>1 DEF files
    <3>2. CASE WriteNext(s)
      <4>1. CASE todo[s] \in {UnknownRecords, RejectedRecords}
        BY <4>1, <3>2, <2>1, WriteNextFact, RecordsFact
      <4>2. CASE todo[s] = UnknownEvent /\ launch[s] = "unknown"
        <5>1. log'[s] = Append(log[s], "unknown") /\ launch'[s] = "unknown"
          BY <4>2, <3>2, WriteNextFact, RecordsFact
        <5> QED BY <5>1, <2>1 DEF Settled, Agrees, Closing
      <4>3. CASE todo[s] = RejectedEvent /\ launch[s] = "not_started"
        <5>1. log'[s] = Append(log[s], "rejected") /\ launch'[s] = "not_started"
          BY <4>3, <3>2, WriteNextFact, RecordsFact
        <5> QED BY <5>1, <2>1 DEF Settled, Agrees, Closing
      <4> QED BY <4>1, <4>2, <4>3, <1>1, <1>4 DEF Reclosing
    <3> QED BY <3>1, <3>2, <1>4
  <2>3. Stranded(s)' BY <2>1, <2>2 DEF Stranded
  <2> QED BY <2>3, <1>4 DEF Recorded, Before, Unstarted, Handled, Deferred
<1>5. \/ todo[s] = <<>>
      \/ todo[s] # <<>> /\ todo'[s] = Tail(todo[s]) /\ pc'[s] = "closing" /\ WriteNext(s)
      \/ /\ todo[s] # <<>> /\ todo'[s] = todo[s] /\ pc'[s] = "cleared"
         /\ UNCHANGED files \/ WriteNext(s)
  <2>1. todo' = [todo EXCEPT ![s] = Tail(todo[s])] => todo'[s] = Tail(todo[s]) BY Domains
  <2>2. Go(s, "cleared") => pc'[s] = "cleared" BY Domains DEF Go
  <2> QED BY <1>1, <2>1, <2>2 DEF CloseNext
<1> QED BY <1>2, <1>3, <1>4, <1>5

\* A log that is settled has a closing event, and an open one has none.
LEMMA ClosingFact ==
    ASSUME NEW s \in Segments
    PROVE  /\ Settled(s) => Logged(s) \cap Closing # {}
           /\ log[s] \in OpenLogs => Logged(s) \cap Closing = {}
<1>1. ASSUME NEW l \in OpenLogs, NEW k \in Closing, log[s] = Append(l, k) PROVE k \in Logged(s)
  BY <1>1, LogsFact DEF Logged
<1> QED BY <1>1, LogsFact DEF Settled, Logged, Closing

\* The fallback closes what execute left open, and nothing else.
LEMMA RecordedFallback ==
    ASSUME TypeOK, NEW s \in Segments, Recorded(s), Fallback(s) PROVE Recorded(s)'
<1>1. /\ Left(s) /\ ret'[s] = ret[s] /\ launch'[s] = launch[s] /\ log'[s] = log[s]
  BY DEF Fallback, Recorded, files
<1>2. Settled(s) => Settled(s)' BY <1>1 DEF Settled
<1>3. CASE ret[s] \in {"ok", "interrupted"}
  <2>1. pc'[s] = "done" /\ todo'[s] = todo[s] BY <1>3, Domains DEF Fallback, Go
  <2> QED BY <1>1, <1>2, <1>3, <2>1 DEF Left, Recorded, Before, Unstarted, Handled, Deferred
<1>4. CASE ret[s] \in {"unknown", "failed"}
  <2>1. /\ pc'[s] = "closing"
        /\ todo'[s] = IF Logged(s) \cap Closing # {} THEN <<>>
                      ELSE IF ret[s] = "unknown" THEN UnknownRecords ELSE RejectedRecords
    BY <1>4, Domains DEF Fallback, Go
  <2>2. Reclosing(s)'
    BY <1>1, <1>2, <1>4, <2>1, ClosingFact DEF Left, Reclosing
  <2> QED BY <2>1, <2>2 DEF Recorded, Before, Unstarted, Handled, Deferred
<1> QED BY <1>3, <1>4 DEF Fallback

\* Every step keeps the order of the records.
LEMMA RecordedStep == ASSUME StopInv, Next, NEW s \in Segments PROVE Recorded(s)'
<1>1. TypeOK /\ Recorded(s) BY DEF StopInv
<1>2. CASE UNCHANGED <<worker, cancels, active, files, faults, natural>>
  BY <1>1, <1>2, RecordedKept, LostStays DEF SameWork, worker, files
<1>3. ASSUME NEW r \in Segments, r # s, Enter(r) \/ WorkerStep(r) PROVE Recorded(s)'
  BY <1>1, <1>3, SameWorkFact, RecordedKept, LostStays
<1>4. CASE RegisterOwnedHandle(s) \/ Wait(s) \/ ConfirmTreeExited(s)
  BY <1>1, <1>4, Domains DEF RegisterOwnedHandle, Wait, ConfirmTreeExited, Go, files,
     Recorded, Before, Unstarted, Handled, Deferred, Underway
<1>13. CASE Enter(s)
  <2>1. /\ log[s] = <<>> /\ todo[s] = <<>> /\ ret[s] = "none" /\ launch[s] \in Underway
        /\ log'[s] = log[s] /\ todo'[s] = todo[s]
    BY <1>1, <1>13 DEF Enter, Recorded, Before, Unstarted
  <2>2. CASE Go(s, "prepared") /\ launch' = [launch EXCEPT ![s] = "prepared"] /\ UNCHANGED ret
    BY <1>1, <2>1, <2>2, Domains DEF Go, Recorded, Before, Unstarted, Handled, Deferred, Underway
  <2>3. ASSUME Go(s, "uncancel"), ret'[s] \in {"failed", "unknown"} PROVE Recorded(s)'
    <3>1. Left(s)' BY <2>1, <2>3, LogsFact DEF Left
    <3>2. pc'[s] = "uncancel" BY <1>1, <2>3, Domains DEF Go
    <3> QED BY <3>1, <3>2 DEF Recorded, Before, Unstarted, Handled, Deferred
  <2> QED BY <1>1, <1>13, <2>2, <2>3, Domains DEF Enter
<1>5. CASE Prelaunch(s)
  <2>1. UNCHANGED log /\ pc[s] \in Before BY <1>5 DEF Prelaunch, Fails, Before, Unstarted
  <2>2. CASE Record(s, RejectedRecords, "failed") /\ UNCHANGED launch
    BY <1>1, <2>1, <2>2, RecordedBegins
  <2>3. CASE Record(s, CandidateUnknownRecords, "unknown") /\ UNCHANGED launch
    BY <1>1, <2>1, <2>3, RecordedBegins
  <2>4. CASE Go(s, "uncancel") /\ ret' = [ret EXCEPT ![s] = "failed"] /\ UNCHANGED <<todo, waitErr, launch>>
    BY <1>1, <2>1, <2>4, Domains, LogsFact DEF Go, Recorded, Left, Before, Unstarted, Handled, Deferred
  <2>5. CASE Go(s, "starting") /\ launch' = [launch EXCEPT ![s] = "starting"]
             /\ UNCHANGED <<todo, ret, waitErr>>
    BY <1>1, <2>1, <2>5, Domains DEF Go, Recorded, Before, Unstarted, Handled, Deferred, Underway
  <2>6. CASE Go(s, "uncancel") /\ ret' = [ret EXCEPT ![s] = "unknown"] /\ UNCHANGED <<todo, waitErr>>
    <3>1. pc'[s] = "uncancel" /\ ret'[s] = "unknown" /\ todo'[s] = <<>> /\ log'[s] = <<>>
      BY <1>1, <2>1, <2>6, Domains DEF Go, Recorded
    <3>2. Left(s)' BY <3>1, LogsFact DEF Left
    <3> QED BY <3>1, <3>2 DEF Recorded, Before, Unstarted, Handled, Deferred
  <2> QED BY <1>5, <2>2, <2>3, <2>4, <2>5, <2>6 DEF Prelaunch, Fails
<1>6. CASE Start(s)
  <2>1. UNCHANGED <<log, launch>> /\ pc[s] \in Before BY <1>6 DEF Start, Before, Unstarted, files
  <2>2. CASE Record(s, UnknownRecords, "unknown") BY <1>1, <2>1, <2>2, RecordedBegins
  <2>3. CASE (Go(s, "started") \/ Go(s, "failjoin")) /\ UNCHANGED <<todo, ret>>
    BY <1>1, <2>1, <2>3, Domains DEF Go, Recorded, Before, Unstarted, Handled, Deferred
  <2> QED BY <1>6, <2>2, <2>3 DEF Start
<1>7. CASE FailedStartJoined(s) \/ StopJoined(s) \/ Finalize(s)
  <2>1. UNCHANGED <<log, launch>> /\ pc[s] \in Before
    BY <1>7 DEF FailedStartJoined, StopJoined, Finalize, Before, Handled, files
  <2>2. \/ Record(s, UnknownRecords, "unknown") \/ Record(s, CandidateUnknownRecords, "unknown")
        \/ Record(s, StoppedRecords, "interrupted")
        \/ \E kind \in {"result", "failed"} : Record(s, ResultRecords(kind), "ok")
    BY <1>7 DEF FailedStartJoined, StopJoined, Finalize
  <2> QED BY <1>1, <2>1, <2>2, RecordedBegins DEF OwnRecords
<1>8. CASE StopForExecution(s) \/ StopAfterNaturalProof(s) \/ AfterProof(s)
  <2>1. UNCHANGED <<log, launch>> /\ pc[s] \in Before
    BY <1>8 DEF StopForExecution, StopAfterNaturalProof, AfterProof, Before, Handled, files
  <2>2. \/ Record(s, UnknownRecords, "unknown") \/ Record(s, StoppedRecords, "interrupted")
        \/ /\ Go(s, "joining") \/ Go(s, "natural") \/ Go(s, "proved") \/ Go(s, "finalizing")
           /\ UNCHANGED <<todo, ret>>
    BY <1>8 DEF StopForExecution, StopAfterNaturalProof, AfterProof
  <2>3. CASE /\ Go(s, "joining") \/ Go(s, "natural") \/ Go(s, "proved") \/ Go(s, "finalizing")
             /\ UNCHANGED <<todo, ret>>
    BY <1>1, <2>1, <2>3, Domains DEF Go, Recorded, Before, Unstarted, Handled, Deferred
  <2> QED BY <1>1, <2>1, <2>2, <2>3, RecordedBegins
<1>9. CASE Announce(s)
  BY <1>1, <1>9, Domains DEF Announce, Fails, Go, Recorded, Before, Unstarted, Handled, Deferred, Underway
<1>10. CASE AbandonJoined(s)
  BY <1>1, <1>10, Domains, LogsFact DEF AbandonJoined, Go, files, Recorded, Left, Before, Unstarted,
     Handled, Deferred
<1>11. CASE Leave(s)
  <2>1. /\ Left(s) /\ todo'[s] = todo[s] /\ ret'[s] = ret[s] /\ log'[s] = log[s]
        /\ launch'[s] = launch[s] /\ pc'[s] \in Deferred \cup {"fallback"}
    BY <1>1, <1>11, Domains DEF Leave, Recorded, Deferred, Go, files
  <2>2. Left(s)' BY <2>1 DEF Left, Settled
  <2> QED BY <2>1, <2>2 DEF Recorded, Before, Unstarted, Handled, Deferred
<1>12. CASE Cleared(s)
  <2>1. /\ log'[s] = log[s] /\ launch'[s] = launch[s] /\ ret'[s] = ret[s] /\ todo'[s] = todo[s]
        /\ pc'[s] = "done" /\ (todo[s] = <<>> \/ lost')
    BY <1>1, <1>12, Domains DEF Cleared, Go, files
  <2>2. (todo[s] = <<>> /\ Settled(s)) \/ Stranded(s) BY <1>1, <1>12 DEF Cleared, Recorded
  <2>3. (todo'[s] = <<>> /\ Settled(s)') \/ Stranded(s)' BY <2>1, <2>2 DEF Settled, Stranded
  <2> QED BY <2>1, <2>3 DEF Recorded, Before, Unstarted, Handled, Deferred
<1> QED BY <1>1, <1>2, <1>3, <1>4, <1>5, <1>6, <1>7, <1>8, <1>9, <1>10, <1>11, <1>12, <1>13, Working,
           RecordedNext, RecordedCloses, RecordedFallback DEF WorkerStep

-----------------------------------------------------------------------------
(* What is listed, written and said. *)

\* What the next record says, and what the rest still says.
UnknownLists == {UnknownRecords, CandidateUnknownRecords, UnknownEvent, UnknownPhase}
StopLists == {StoppedRecords, StoppedEvent, EndRecords, LastRecord}
Rejections == {RejectedRecords, RejectedEvent}
Lists == UnknownLists \cup StopLists \cup Rejections \cup OwnRecords

\* What the first record of a list says, by the kind of the list.
LEMMA HeadsFact ==
    /\ \A list \in UnknownLists : Head(list)[2] = "unknown"
    /\ \A list \in StopLists : Head(list)[2] \in {"stopped", "exited"}
    /\ \A list \in Rejections : Head(list)[2] \in {"not_started", "rejected"}
    /\ \A list \in OwnRecords : Head(list)[2] \in {"result", "failed"}
    /\ \A list \in Lists : Head(list)[1] \in {"phase", "event"}
    /\ \A list \in UnknownLists : Head(list)[1] = "phase" => Head(list) = <<"phase", "unknown">>
<1>1. \A k, what : <<k, what>>[1] = k /\ <<k, what>>[2] = what OBVIOUS
<1>2. \A list \in UnknownLists : Head(list) \in {<<"phase", "unknown">>, <<"event", "unknown">>}
  BY RecordsFact DEF UnknownLists
<1>3. \A list \in StopLists : Head(list) \in {<<"phase", "stopped">>, <<"event", "stopped">>,
                                               <<"phase", "exited">>, <<"event", "exited">>}
  BY RecordsFact DEF StopLists
<1>4. \A list \in Rejections : Head(list) \in {<<"phase", "not_started">>, <<"event", "rejected">>}
  BY RecordsFact DEF Rejections
<1>5. \A list \in OwnRecords : Head(list) \in {<<"event", "result">>, <<"event", "failed">>}
  BY RecordsFact DEF OwnRecords
<1> QED BY <1>1, <1>2, <1>3, <1>4, <1>5 DEF Lists

\* No list is of two kinds, and the rest of a list is of its kind.
LEMMA ListsFact ==
    ASSUME NEW list \in Lists
    PROVE  /\ list # <<>>
           /\ list \in UnknownLists => Tail(list) \in UnknownLists \cup {<<>>}
           /\ list \in Rejections => Tail(list) \in {RejectedEvent, <<>>}
           /\ list \in StopLists => Tail(list) \in StopLists \cup {<<>>}
           /\ list \in OwnRecords => Tail(list) = EndRecords
           /\ list \in UnknownLists => list \notin StopLists \cup Rejections \cup OwnRecords
           /\ list \in Rejections => list \notin StopLists \cup OwnRecords
           /\ list \in StopLists => list \notin OwnRecords
           /\ ExitRecords = StopLists \cup OwnRecords
<1>1. list \in UnknownLists => list # <<>> BY RecordsFact DEF UnknownLists
<1>2. list \in Rejections => list # <<>> BY RecordsFact DEF Rejections
<1>3. list \in StopLists => list # <<>> BY RecordsFact DEF StopLists
<1>4. list \in OwnRecords => list # <<>> BY RecordsFact DEF OwnRecords
<1>5. list # <<>> BY <1>1, <1>2, <1>3, <1>4 DEF Lists
<1>6. list \in UnknownLists => list \notin StopLists \cup Rejections \cup OwnRecords BY HeadsFact
<1>7. list \in Rejections => list \notin StopLists \cup OwnRecords BY HeadsFact
<1>8. list \in StopLists => list \notin OwnRecords BY HeadsFact
<1>9. ExitRecords = StopLists \cup OwnRecords BY DEF ExitRecords, StopLists
<1>10. list \in UnknownLists => Tail(list) \in UnknownLists \cup {<<>>}
  BY RecordsFact DEF UnknownLists
<1>11. list \in Rejections => Tail(list) \in {RejectedEvent, <<>>} BY RecordsFact DEF Rejections
<1>12. list \in StopLists => Tail(list) \in StopLists \cup {<<>>} BY RecordsFact DEF StopLists
<1>13. list \in OwnRecords => Tail(list) = EndRecords BY RecordsFact DEF OwnRecords
<1> QED BY <1>5, <1>6, <1>7, <1>8, <1>9, <1>10, <1>11, <1>12, <1>13

\* What is still listed after a record was, and what the record says.
LEMMA NextFact ==
    ASSUME NEW list \in Lists
    PROVE  /\ list # <<>> /\ Head(list)[1] \in {"phase", "event"}
           /\ <<>> \notin ExitRecords /\ <<>> \notin Rejections /\ <<>> \notin OwnRecords
           /\ Tail(list) \in ExitRecords => list \in ExitRecords
           /\ Tail(list) \in Rejections => list \in Rejections
           /\ Tail(list) \notin OwnRecords
           /\ Head(list)[2] \in {"stopped", "exited"} => list \in ExitRecords
           /\ Head(list)[2] \in {"not_started", "rejected"} => list \in Rejections
           /\ Head(list)[2] \in {"result", "failed"} => list \in OwnRecords
<1>1. \A l \in Lists : l # <<>> BY ListsFact
<1>2. <<>> \notin StopLists /\ <<>> \notin Rejections /\ <<>> \notin OwnRecords
  BY <1>1 DEF Lists
<1>3. ExitRecords = StopLists \cup OwnRecords BY ListsFact
<1>4. \A l \in Lists : /\ l \in UnknownLists => l \notin StopLists \cup Rejections \cup OwnRecords
                       /\ l \in Rejections => l \notin StopLists \cup OwnRecords
                       /\ l \in StopLists => l \notin OwnRecords
  BY ListsFact
<1>5. RejectedEvent \in Rejections /\ EndRecords \in StopLists BY DEF Rejections, StopLists
<1>6. UnknownLists \subseteq Lists /\ StopLists \subseteq Lists /\ Rejections \subseteq Lists
      /\ OwnRecords \subseteq Lists
  BY DEF Lists
<1>7. CASE list \in UnknownLists
  BY <1>1, <1>2, <1>3, <1>4, <1>6, <1>7, ListsFact, HeadsFact
<1>8. CASE list \in Rejections
  BY <1>1, <1>2, <1>3, <1>4, <1>5, <1>6, <1>8, ListsFact, HeadsFact
<1>9. CASE list \in StopLists
  BY <1>1, <1>2, <1>3, <1>4, <1>6, <1>9, ListsFact, HeadsFact
<1>10. CASE list \in OwnRecords
  BY <1>1, <1>2, <1>3, <1>4, <1>5, <1>6, <1>10, ListsFact, HeadsFact
<1> QED BY <1>7, <1>8, <1>9, <1>10 DEF Lists

\* A worker that records or closes has one of the lists left, or none.
LEMMA TodoFact ==
    ASSUME NEW s \in Segments, Recorded(s), pc[s] \in {"recording", "closing"}
    PROVE  todo[s] \in Lists \cup {<<>>}
BY DEF Recorded, Recording, Reclosing, Left, Lists, UnknownLists, StopLists, Rejections

\* What a step adds to the files was on the list, and so is what it leaves there.
Listed(s) ==
    /\ todo'[s] \in ExitRecords => todo[s] \in ExitRecords
    /\ todo'[s] \in Rejections => todo[s] \in Rejections
    /\ todo'[s] \in OwnRecords => todo[s] \in OwnRecords
    /\ launch'[s] \in {"stopped", "exited"} => launch'[s] = launch[s] \/ todo[s] \in ExitRecords
    /\ launch'[s] = "not_started" => launch'[s] = launch[s] \/ todo[s] \in Rejections
    /\ "exited" \in Logged(s)' => "exited" \in Logged(s) \/ todo[s] \in ExitRecords
    /\ "rejected" \in Logged(s)' => "rejected" \in Logged(s) \/ todo[s] \in Rejections
    /\ Logged(s)' \cap {"result", "failed"} # {} =>
         Logged(s) \cap {"result", "failed"} # {} \/ todo[s] \in OwnRecords

\* Nothing is written that was not on the list.
LEMMA WritesFact ==
    ASSUME TypeOK, NEW s \in Segments, Recorded(s), RecordNext(s) \/ CloseNext(s)
    PROVE  Listed(s)
<1>1. pc[s] \in {"recording", "closing"} BY DEF RecordNext, WriteNext, Fails, CloseNext
<1>2. todo[s] \in Lists \cup {<<>>} BY <1>1, TodoFact
<1>3. log[s] \in Seq(Outcomes) BY DEF TypeOK
<1>4. <<>> \notin ExitRecords \cup Rejections /\ <<>> \notin OwnRecords
  <2>1. UnknownEvent \in Lists BY DEF Lists, UnknownLists
  <2> QED BY <2>1, NextFact
<1>5. todo'[s] \in {todo[s], <<>>} \/ (todo[s] # <<>> /\ todo'[s] = Tail(todo[s]))
  <2>1. CASE RecordNext(s) BY <2>1, Domains DEF RecordNext
  <2>2. CASE CloseNext(s) BY <2>2, Domains DEF CloseNext
  <2> QED BY <2>1, <2>2
<1>6. /\ todo'[s] \in ExitRecords => todo[s] \in ExitRecords
      /\ todo'[s] \in Rejections => todo[s] \in Rejections
      /\ todo'[s] \in OwnRecords => todo[s] \in OwnRecords
  <2>1. todo[s] # <<>> =>
          /\ Tail(todo[s]) \in ExitRecords => todo[s] \in ExitRecords
          /\ Tail(todo[s]) \in Rejections => todo[s] \in Rejections
          /\ Tail(todo[s]) \notin OwnRecords
    BY <1>2, NextFact
  <2> QED BY <1>4, <1>5, <2>1
<1>7. CASE UNCHANGED files
  <2>1. launch'[s] = launch[s] /\ Logged(s)' = Logged(s) BY <1>7 DEF files, Logged
  <2> QED BY <1>6, <2>1 DEF Listed
<1>8. CASE todo[s] # <<>> /\ WriteNext(s)
  <2>1. /\ Head(todo[s])[2] \in {"stopped", "exited"} => todo[s] \in ExitRecords
        /\ Head(todo[s])[2] \in {"not_started", "rejected"} => todo[s] \in Rejections
        /\ Head(todo[s])[2] \in {"result", "failed"} => todo[s] \in OwnRecords
    BY <1>2, <1>8, NextFact
  <2>2. CASE launch'[s] = Head(todo[s])[2] /\ log'[s] = log[s]
    <3>1. Logged(s)' = Logged(s) BY <2>2 DEF Logged
    <3> QED BY <1>6, <2>1, <2>2, <3>1 DEF Listed
  <2>3. CASE launch'[s] = launch[s] /\ log'[s] = Append(log[s], Head(todo[s])[2])
    <3>1. Logged(s)' = Logged(s) \cup {Head(todo[s])[2]}
      <4> DEFINE what == Head(todo[s])[2]
      <4>1. /\ DOMAIN log[s] = 1..Len(log[s]) /\ Len(log[s]) \in Nat
            /\ DOMAIN Append(log[s], what) = 1..(Len(log[s]) + 1)
            /\ \A i \in 1..Len(log[s]) : Append(log[s], what)[i] = log[s][i]
            /\ Append(log[s], what)[Len(log[s]) + 1] = what
        BY <1>3
      <4> HIDE DEF what
      <4>2. ToSet(Append(log[s], what)) = ToSet(log[s]) \cup {what} BY <4>1 DEF ToSet
      <4> QED BY <4>2, <2>3 DEF Logged, what
    <3> QED BY <1>6, <2>1, <2>3, <3>1 DEF Listed
  <2> QED BY <1>8, <2>2, <2>3, Domains DEF WriteNext
<1>9. UNCHANGED files \/ (todo[s] # <<>> /\ WriteNext(s))
  <2>1. CASE RecordNext(s) BY <2>1 DEF RecordNext
  <2>2. CASE CloseNext(s) BY <2>2 DEF CloseNext
  <2> QED BY <2>1, <2>2
<1> QED BY <1>7, <1>8, <1>9

\* Nothing of a segment changes but what its calls have seen.
SameSegment(s) ==
    /\ SameWork(s) /\ cancels'[s] = cancels[s] /\ active'[s] = active[s]
    /\ proc'[s] = proc[s] /\ waited'[s] = waited[s] /\ intent'[s] = intent[s]
    /\ requested'[s] = requested[s] /\ op'[s] = op[s] /\ tail'[s] = tail[s]
    /\ retire'[s] = retire[s] /\ early'[s] = early[s] /\ natural'[s] = natural[s]

\* A step of one segment changes nothing of another.
LEMMA SegmentFact ==
    ASSUME TypeOK, NEW r \in Segments, NEW s \in Segments, r # s,
           \/ Enter(r) \/ WorkerStep(r) \/ OperationStep(r) \/ ProcessStep(r)
           \/ \E c \in Callers : Target[c] = r /\ CallStep(c)
    PROVE  SameSegment(s)
<1> USE Domains DEF SameSegment
<1>1. ASSUME Enter(r) \/ WorkerStep(r) PROVE SameSegment(s)
  <2>1. SameWork(s) BY <1>1, SameWorkFact
  <2> USE <2>1
  <2>2. CASE Enter(r) \/ Prelaunch(r) \/ Start(r) \/ FailedStartJoined(r) \/ AbandonJoined(r)
             \/ Wait(r) \/ ConfirmTreeExited(r) \/ Finalize(r) \/ StopJoined(r)
    BY <2>2 DEF Enter, Fails, Prelaunch, Start, FailedStartJoined, AbandonJoined, Wait,
       ConfirmTreeExited, Finalize, StopJoined, handle, registry
  <2>3. CASE RegisterOwnedHandle(r) \/ Announce(r) \/ StopForExecution(r)
             \/ StopAfterNaturalProof(r) \/ AfterProof(r)
    BY <2>3 DEF RegisterOwnedHandle, Announce, StopForExecution, StopAfterNaturalProof,
       AfterProof, Bind, handle
  <2>4. CASE RecordNext(r) \/ Fallback(r) \/ CloseNext(r)
    BY <2>4 DEF RecordNext, WriteNext, Fails, Fallback, CloseNext, handle, registry
  <2>5. CASE Leave(r) \/ Cleared(r) BY <2>5 DEF Leave, Cleared, ClearStop, handle
  <2> QED BY <1>1, <2>2, <2>3, <2>4, <2>5 DEF WorkerStep
<1>2. ASSUME OperationStep(r) PROVE SameSegment(s)
  BY <1>2 DEF OperationStep, StopBegin, StopTerm, StopConfirm, StopRetire, StopStep, SameWork,
     worker, handle, files
<1>3. ASSUME ProcessStep(r) PROVE SameSegment(s)
  BY <1>3 DEF ProcessStep, LeaderExits, DescendantsExit, Reaped, SameWork, worker, registry, files
<1>4. ASSUME NEW c \in Callers, Target[c] = r, CallStep(c) PROVE SameSegment(s)
  <2>1. CASE StopLookup(c) \/ StopRead(c) \/ StopCancel(c) \/ StopJoin(c)
    BY <2>1 DEF StopLookup, StopRead, StopCancel, StopJoin, SameWork, worker, handle, registry, files
  <2>2. CASE StopRegister(c)
    BY <1>4, <2>2 DEF StopRegister, Bind, SameWork, worker, handle, files
  <2>3. CASE StopReread(c)
    BY <1>4, <2>3 DEF StopReread, ClearStop, SameWork, worker, handle, files
  <2> QED BY <1>4, <2>1, <2>2, <2>3 DEF CallStep
<1> QED BY <1>1, <1>2, <1>3, <1>4

\* A step is one of the segment, or leaves it alone, or is one of the source.
LEMMA StepFact ==
    ASSUME StopInv, Next, NEW s \in Segments
    PROVE  \/ SameSegment(s)
           \/ Enter(s) \/ WorkerStep(s) \/ OperationStep(s) \/ ProcessStep(s)
           \/ \E c \in Callers : Target[c] = s /\ CallStep(c)
           \/ SourceCancelled \/ BeginStopAll
<1>1. \A c \in Callers : Target[c] \in Segments BY HostStopAssumption DEF HostStopParameters
<1> QED BY <1>1, SegmentFact DEF StopInv, Next

\* Which lists speak of an exit, and which of a rejection.
LEMMA KindsFact ==
    /\ UnknownRecords \notin ExitRecords \cup Rejections \cup OwnRecords
    /\ CandidateUnknownRecords \notin ExitRecords \cup Rejections \cup OwnRecords
    /\ RejectedRecords \notin ExitRecords \cup OwnRecords
    /\ StoppedRecords \notin Rejections \cup OwnRecords /\ OwnRecords \cap Rejections = {}
    /\ <<>> \notin ExitRecords \cup Rejections \cup OwnRecords
<1>1. /\ {UnknownRecords, CandidateUnknownRecords} \subseteq UnknownLists
      /\ RejectedRecords \in Rejections /\ StoppedRecords \in StopLists
      /\ UnknownLists \cup Rejections \cup StopLists \cup OwnRecords \subseteq Lists
  BY DEF UnknownLists, Rejections, StopLists, Lists
<1>2. \A list \in Lists :
        /\ list \in UnknownLists => list \notin StopLists \cup Rejections \cup OwnRecords
        /\ list \in Rejections => list \notin StopLists \cup OwnRecords
        /\ list \in StopLists => list \notin OwnRecords
        /\ ExitRecords = StopLists \cup OwnRecords
        /\ <<>> \notin ExitRecords /\ <<>> \notin Rejections /\ <<>> \notin OwnRecords
  BY ListsFact, NextFact
<1> QED BY <1>1, <1>2

\* Every step keeps an exit, a rejection and a proved stop true.
LEMMA TruthStep == ASSUME StopInv, Next, NEW s \in Segments PROVE Truth(s)'
<1>1. TypeOK /\ Truth(s) /\ Placed(s) /\ Recorded(s) BY DEF StopInv
<1>2. CASE SameSegment(s) BY <1>1, <1>2 DEF SameSegment, SameWork, Truth, Logged
<1>3. CASE RecordNext(s) \/ CloseNext(s)
  <2>1. Listed(s) BY <1>1, <1>3, WritesFact
  <2>2. /\ pc'[s] \in Ending /\ pc'[s] \notin {"confirmed", "proved", "finalizing"}
        /\ ret'[s] \in {ret[s], "unknown"} /\ op'[s] = op[s] /\ proc'[s] = proc[s] /\ waited'[s] = waited[s]
    BY <1>1, <1>3, Domains DEF RecordNext, WriteNext, Fails, CloseNext, Go, registry, handle, Ending, Deferred, After
  <2> QED BY <1>1, <2>1, <2>2 DEF Truth, Listed, Rejections
<1>15. CASE Enter(s)
  <2>1. /\ Logged(s)' = Logged(s) /\ todo'[s] = todo[s]
        /\ proc'[s] = proc[s] /\ waited'[s] = waited[s] /\ op'[s] = op[s]
        /\ launch'[s] \in {launch[s], "prepared"} /\ proc[s] = "none"
        /\ pc[s] \notin Ending /\ pc'[s] \in {"prepared", "uncancel"}
        /\ ret'[s] = ret[s] \/ pc'[s] = "uncancel"
    BY <1>1, <1>15, Domains DEF Enter, Go, handle, registry, Logged, Placed, Unstarted, Ending,
       Deferred, After
  <2> QED BY <1>1, <2>1 DEF Truth, Ending, Deferred
<1>4. CASE RegisterOwnedHandle(s) \/ Announce(s) \/ AbandonJoined(s) \/ Wait(s)
           \/ StopForExecution(s)
  <2>1. /\ Logged(s)' = Logged(s) /\ todo'[s] = todo[s] /\ ret'[s] \in {ret[s], "unknown"}
        /\ proc'[s] = proc[s] /\ waited'[s] = waited[s] /\ op'[s] \in {op[s], "pending"}
        /\ launch'[s] \in {launch[s], "prepared", "running"}
        /\ pc[s] \notin Ending /\ pc'[s] \notin {"confirmed", "proved", "finalizing"}
    BY <1>1, <1>4, Domains DEF RegisterOwnedHandle, Announce, Fails, AbandonJoined, Wait,
       StopForExecution, Go, Bind, handle, files, registry, Logged, Ending, Deferred, After
  <2> QED BY <1>1, <2>1 DEF Truth
<1>5. CASE Prelaunch(s)
  <2>1. /\ Logged(s)' = Logged(s) /\ proc[s] = "none" /\ proc'[s] = "none" /\ waited'[s] = waited[s]
        /\ op'[s] = op[s] /\ launch'[s] \in {launch[s], "starting"} /\ pc[s] \notin Ending
        /\ pc'[s] \in {"recording", "uncancel", "starting"}
        /\ todo'[s] \in {todo[s], RejectedRecords, CandidateUnknownRecords}
        /\ ret'[s] = "failed" \/ todo'[s] = RejectedRecords => pc'[s] \in Ending
    BY <1>1, <1>5, KindsFact, Domains DEF Prelaunch, Fails, Record, Go, Placed, Unstarted, handle, registry,
       Logged, Ending, Deferred, After, Recorded, Before, Rejections
  <2> QED BY <1>1, <2>1, KindsFact DEF Truth, Rejections
<1>6. CASE Start(s)
  <2>1. /\ Logged(s)' = Logged(s) /\ pc[s] \notin Ending /\ waited'[s] = waited[s]
        /\ op'[s] \in {op[s], "pending"} /\ launch'[s] = launch[s] /\ ret'[s] \in {ret[s], "unknown"}
        /\ todo'[s] \in {todo[s], UnknownRecords} /\ pc'[s] \in {"started", "failjoin", "recording"}
        /\ proc[s] = "none" /\ proc'[s] # "gone"
    BY <1>1, <1>6, Domains DEF Start, Record, Go, Placed, Unstarted, files, Logged, Ending,
       Deferred, After
  <2> QED BY <1>1, <2>1, KindsFact DEF Truth, Rejections
<1>7. CASE FailedStartJoined(s) \/ Finalize(s) \/ StopJoined(s)
  <2>1. /\ Logged(s)' = Logged(s) /\ pc[s] \notin Ending /\ pc'[s] = "recording"
        /\ proc'[s] = proc[s] /\ waited'[s] = waited[s] /\ op'[s] = op[s] /\ launch'[s] = launch[s]
        /\ ret'[s] # "failed"
    BY <1>1, <1>7, Domains DEF FailedStartJoined, Finalize, StopJoined, Record, Go, handle, registry,
       files, Logged, Ending, Deferred, After
  <2>2. \/ todo'[s] \in {UnknownRecords, CandidateUnknownRecords}
        \/ /\ todo'[s] = StoppedRecords \/ todo'[s] \in OwnRecords
           /\ op[s] = "ok" \/ pc[s] = "finalizing"
    BY <1>1, <1>7, Domains DEF FailedStartJoined, Finalize, StopJoined, Record, OwnRecords
  <2> QED BY <1>1, <2>1, <2>2, KindsFact DEF Truth, Rejections
<1>8. CASE ConfirmTreeExited(s)
  <2>1. pc'[s] = "confirmed" => proc[s] = "gone" /\ waited[s]
    BY <1>1, <1>8, Domains DEF ConfirmTreeExited, Go, GroupAlive, Placed
  <2>2. /\ Logged(s)' = Logged(s) /\ pc[s] \notin Ending /\ pc'[s] \in {"confirmed", "unproved"}
        /\ proc'[s] = proc[s] /\ waited'[s] = waited[s] /\ op'[s] = op[s] /\ launch'[s] = launch[s]
        /\ ret'[s] = ret[s] /\ todo'[s] = todo[s]
    BY <1>1, <1>8, Domains DEF ConfirmTreeExited, Go, handle, registry, files, Logged, Ending,
       Deferred, After
  <2> QED BY <1>1, <2>1, <2>2 DEF Truth
<1>9. CASE StopAfterNaturalProof(s) \/ AfterProof(s)
  <2>1. /\ Logged(s)' = Logged(s) /\ pc[s] \notin Ending
        /\ proc'[s] = proc[s] /\ waited'[s] = waited[s] /\ op'[s] \in {op[s], "pending"}
        /\ launch'[s] = launch[s] /\ ret'[s] \in {ret[s], "unknown", "interrupted"}
        /\ pc'[s] # "confirmed"
        /\ pc'[s] \in {"proved", "finalizing"} => pc[s] \in {"confirmed", "proved"}
        /\ todo'[s] = StoppedRecords => pc[s] = "proved" \/ todo'[s] = todo[s]
        /\ todo'[s] \in {todo[s], UnknownRecords, StoppedRecords}
    BY <1>1, <1>9, KindsFact, Domains DEF StopAfterNaturalProof, AfterProof, Record, Go, Bind, handle,
       files, Logged, Ending, Deferred, After, ExitRecords
  <2> QED BY <1>1, <2>1, KindsFact DEF Truth, Rejections
<1>10. CASE Leave(s) \/ Cleared(s)
  <2>1. /\ Logged(s)' = Logged(s) /\ todo'[s] = todo[s] /\ ret'[s] = ret[s]
        /\ proc'[s] = proc[s] /\ waited'[s] = waited[s] /\ op'[s] = op[s]
        /\ launch'[s] = launch[s] /\ pc'[s] \in Ending
    BY <1>1, <1>10, Domains DEF Leave, Cleared, Go, handle, files, Logged, Ending, Deferred, After
  <2> QED BY <1>1, <2>1 DEF Truth, Ending, Deferred, After
<1>11. CASE Fallback(s)
  <2>1. /\ Logged(s)' = Logged(s) /\ ret'[s] = ret[s] /\ proc'[s] = proc[s]
        /\ waited'[s] = waited[s] /\ op'[s] = op[s] /\ launch'[s] = launch[s]
        /\ pc'[s] \in {"done", "closing"} /\ todo'[s] \in {todo[s], <<>>, UnknownRecords, RejectedRecords}
        /\ todo'[s] = RejectedRecords => ret[s] = "failed" \/ todo'[s] = todo[s]
    BY <1>1, <1>11, KindsFact, Domains DEF Fallback, Go, handle, registry, files, Logged, Rejections
  <2> QED BY <1>1, <2>1, KindsFact DEF Truth, Ending, After, Rejections
<1>12. CASE OperationStep(s)
  <2>1. /\ SameWork(s) /\ Logged(s)' = Logged(s) /\ proc'[s] = proc[s] /\ waited'[s] = waited[s]
        /\ op'[s] = "ok" => op[s] = "ok" \/ (~GroupAlive(s) /\ waited[s])
    BY <1>1, <1>12, Domains DEF OperationStep, StopBegin, StopTerm, StopConfirm, StopRetire, StopStep,
       SameWork, worker, handle, files, Logged, OpRunning
  <2> QED BY <1>1, <2>1 DEF Truth, SameWork, GroupAlive, Placed
<1>13. CASE ProcessStep(s)
  <2>1. /\ SameWork(s) /\ Logged(s)' = Logged(s) /\ op'[s] = op[s]
        /\ proc[s] = "gone" => proc'[s] = "gone"
        /\ proc[s] = "none" => proc'[s] = "none"
        /\ waited[s] => waited'[s]
    BY <1>1, <1>13, Domains DEF ProcessStep, LeaderExits, DescendantsExit, Reaped, SameWork, worker,
       registry, files, Logged
  <2> QED BY <1>1, <2>1 DEF Truth, SameWork
<1>14. ASSUME \/ \E c \in Callers : Target[c] = s /\ CallStep(c)
              \/ SourceCancelled \/ BeginStopAll
       PROVE  Truth(s)'
  <2>1. CASE SourceCancelled \/ BeginStopAll
    BY <1>1, <2>1, Domains DEF SourceCancelled, BeginStopAll, registry, worker, handle, files,
       Truth, Logged
  <2>2. ASSUME NEW c \in Callers, Target[c] = s, CallStep(c)
        PROVE  UNCHANGED <<worker, handle, files>> /\ op'[s] \in {op[s], "pending"}
    <3>1. CASE StopRegister(c)
      BY <1>1, <2>2, <3>1, Domains DEF StopRegister, Bind
    <3>2. CASE StopLookup(c) \/ StopRead(c) \/ StopCancel(c) \/ StopReread(c) \/ StopJoin(c)
      BY <3>2 DEF StopLookup, StopRead, StopCancel, StopReread, StopJoin, registry
    <3> QED BY <2>2, <3>1, <3>2 DEF CallStep
  <2> QED BY <1>1, <1>14, <2>1, <2>2 DEF Truth, worker, handle, files, Logged
<1> QED BY <1>2, <1>3, <1>4, <1>5, <1>6, <1>7, <1>8, <1>9, <1>10, <1>11, <1>12, <1>13, <1>14,
           <1>15, StepFact DEF WorkerStep

-----------------------------------------------------------------------------
(* An early stop governs. *)

\* Only BeginStopAll stops the source.
LEMMA SourceFact == ASSUME Next PROVE UNCHANGED stopping \/ BeginStopAll
<1>1. ASSUME NEW s \in Segments, Enter(s) \/ WorkerStep(s) PROVE UNCHANGED stopping
  <2>1. CASE Enter(s) \/ Prelaunch(s) \/ Start(s) \/ FailedStartJoined(s) \/ RegisterOwnedHandle(s)
             \/ Announce(s) \/ AbandonJoined(s) \/ Wait(s) \/ StopForExecution(s)
    BY <2>1 DEF Enter, Fails, Prelaunch, Start, FailedStartJoined, RegisterOwnedHandle, Announce,
       AbandonJoined, Wait, StopForExecution
  <2>2. CASE ConfirmTreeExited(s) \/ StopAfterNaturalProof(s) \/ AfterProof(s) \/ Finalize(s)
             \/ StopJoined(s) \/ RecordNext(s) \/ Leave(s) \/ Fallback(s) \/ CloseNext(s) \/ Cleared(s)
    BY <2>2 DEF ConfirmTreeExited, StopAfterNaturalProof, AfterProof, Finalize, StopJoined, RecordNext,
       Leave, Fallback, CloseNext, Cleared
  <2> QED BY <1>1, <2>1, <2>2 DEF WorkerStep
<1>2. ASSUME NEW s \in Segments, OperationStep(s) \/ ProcessStep(s) PROVE UNCHANGED stopping
  BY <1>2 DEF OperationStep, StopBegin, StopTerm, StopConfirm, StopRetire, StopStep, ProcessStep,
     LeaderExits, DescendantsExit, Reaped
<1>3. ASSUME NEW c \in Callers, CallStep(c) PROVE UNCHANGED stopping
  BY <1>3 DEF CallStep, StopLookup, StopRead, StopRegister, StopCancel, StopReread, StopJoin
<1>4. CASE SourceCancelled BY <1>4 DEF SourceCancelled
<1> QED BY <1>1, <1>2, <1>3, <1>4 DEF Next

\* What a worker's step does to an early stop that is in the registry.
LEMMA GovernedWork ==
    ASSUME StopInv, NEW s \in Segments, early[s], UNCHANGED stopping,
           Enter(s) \/ WorkerStep(s)
    PROVE  Governed(s)'
<1>1. TypeOK /\ Governed(s) /\ Recorded(s) BY DEF StopInv
<1>2. /\ pc[s] \in Early => stopping \/ intent[s] \in {"unbound", "bound"}
      /\ pc[s] \notin {"proved", "finalizing"} /\ todo[s] \notin OwnRecords
      /\ Logged(s) \cap {"result", "failed"} = {}
  BY <1>1 DEF Governed
<1> USE DEF Early, Before, Unstarted, Handled
<1>3. CASE Enter(s) \/ Start(s) \/ FailedStartJoined(s) \/ AbandonJoined(s) \/ Wait(s)
           \/ ConfirmTreeExited(s)
  <2>1. /\ Logged(s)' = Logged(s) /\ intent'[s] = intent[s]
        /\ pc[s] \in Early /\ pc'[s] \notin {"proved", "finalizing"}
        /\ todo'[s] \in {todo[s], UnknownRecords}
    BY <1>1, <1>3, Domains DEF Enter, Fails, Start, FailedStartJoined, AbandonJoined, Wait, ConfirmTreeExited,
       Record, Go, registry, files, Logged
  <2> QED BY <1>2, <2>1, KindsFact DEF Governed
<1>4. CASE Prelaunch(s)
  <2>1. /\ Logged(s)' = Logged(s) /\ intent'[s] = intent[s]
        /\ pc[s] \in Early /\ pc'[s] \notin {"proved", "finalizing"}
        /\ todo'[s] \in {todo[s], RejectedRecords, CandidateUnknownRecords}
    BY <1>1, <1>4, Domains DEF Prelaunch, Fails, Record, Go, registry, Logged
  <2> QED BY <1>2, <2>1, KindsFact DEF Governed
<1>5. CASE RegisterOwnedHandle(s) \/ Announce(s) \/ StopForExecution(s)
  <2>1. /\ Logged(s)' = Logged(s) /\ intent'[s] \in {intent[s], "bound"} /\ todo'[s] = todo[s]
        /\ pc[s] \in Early
    BY <1>1, <1>5, Domains DEF RegisterOwnedHandle, Announce, StopForExecution, Bind, files, Logged
  <2>2. pc'[s] \notin {"proved", "finalizing"}
    BY <1>1, <1>5, Domains DEF RegisterOwnedHandle, Announce, StopForExecution, Go
  <2> QED BY <1>2, <2>1, <2>2 DEF Governed
<1>6. CASE StopAfterNaturalProof(s)
  <2>1. pc[s] \in Early BY <1>6 DEF StopAfterNaturalProof
  <2>2. intent[s] # "none" \/ stopping BY <1>2, <2>1
  <2>3. /\ Logged(s)' = Logged(s) /\ todo'[s] = todo[s] /\ pc'[s] = "joining"
    BY <1>1, <1>6, <2>2, Domains DEF StopAfterNaturalProof, Go, files, Logged
  <2> QED BY <1>2, <2>3 DEF Governed
<1>7. CASE AfterProof(s) \/ Finalize(s) BY <1>2, <1>7 DEF AfterProof, Finalize
<1>8. CASE StopJoined(s)
  <2>1. /\ Logged(s)' = Logged(s) /\ pc'[s] = "recording"
        /\ todo'[s] \in {UnknownRecords, StoppedRecords}
    BY <1>1, <1>8, Domains DEF StopJoined, Record, Go, files, Logged
  <2> QED BY <1>2, <2>1, KindsFact DEF Governed
<1>9. CASE RecordNext(s) \/ CloseNext(s)
  <2>1. Listed(s) BY <1>1, <1>9, WritesFact
  <2>2. pc'[s] \in Ending
    BY <1>1, <1>9, Domains DEF RecordNext, WriteNext, Fails, CloseNext, Go, Ending, Deferred, After
  <2> QED BY <1>2, <2>1, <2>2 DEF Governed, Listed, Ending, Deferred, After
<1>10. CASE Leave(s) \/ Cleared(s) \/ Fallback(s)
  <2>1. /\ Logged(s)' = Logged(s) /\ pc'[s] \in Ending
        /\ todo'[s] \in {todo[s], <<>>, UnknownRecords, RejectedRecords}
    BY <1>1, <1>10, Domains DEF Leave, Cleared, Fallback, Go, files, Logged, Ending, Deferred, After
  <2> QED BY <1>2, <2>1, KindsFact DEF Governed, Ending, Deferred, After
<1> QED BY <1>3, <1>4, <1>5, <1>6, <1>7, <1>8, <1>9, <1>10 DEF WorkerStep

\* Only StopRegister and BeginStopAll register an early stop.
LEMMA EarlyKept ==
    ASSUME StopInv, Next, NEW s \in Segments,
           Enter(s) \/ WorkerStep(s) \/ OperationStep(s) \/ ProcessStep(s)
    PROVE  early'[s] = early[s]
<1>1. CASE Enter(s) \/ Prelaunch(s) \/ Start(s) \/ FailedStartJoined(s) \/ RegisterOwnedHandle(s)
           \/ Announce(s) \/ AbandonJoined(s) \/ Wait(s) \/ StopForExecution(s)
  BY <1>1 DEF Enter, Fails, Prelaunch, Start, FailedStartJoined, RegisterOwnedHandle, Announce,
     AbandonJoined, Wait, StopForExecution
<1>2. CASE ConfirmTreeExited(s) \/ StopAfterNaturalProof(s) \/ AfterProof(s) \/ Finalize(s)
           \/ StopJoined(s) \/ RecordNext(s) \/ Leave(s) \/ Fallback(s) \/ CloseNext(s) \/ Cleared(s)
  BY <1>2 DEF ConfirmTreeExited, StopAfterNaturalProof, AfterProof, Finalize, StopJoined, RecordNext,
     Leave, Fallback, CloseNext, Cleared
<1>3. CASE OperationStep(s) \/ ProcessStep(s)
  BY <1>3 DEF OperationStep, StopBegin, StopTerm, StopConfirm, StopRetire, StopStep, ProcessStep,
     LeaderExits, DescendantsExit, Reaped
<1> QED BY <1>1, <1>2, <1>3 DEF WorkerStep

\* Every step keeps an early stop in force.
LEMMA GovernedStep == ASSUME StopInv, Next, NEW s \in Segments PROVE Governed(s)'
<1>1. TypeOK /\ Governed(s) /\ Recorded(s) /\ Placed(s) /\ Registered(s) BY DEF StopInv
<1>2. stopping => stopping' BY SourceFact DEF BeginStopAll
<1>3. CASE SameSegment(s) BY <1>1, <1>2, <1>3 DEF SameSegment, SameWork, Governed, Logged
<1>4. CASE Enter(s) \/ WorkerStep(s)
  <2>1. early'[s] = early[s] BY <1>4, EarlyKept
  <2>2. UNCHANGED stopping
    BY <1>4 DEF WorkerStep, Enter, Prelaunch, Start, FailedStartJoined, RegisterOwnedHandle, Announce,
       AbandonJoined, Wait, StopForExecution, ConfirmTreeExited, StopAfterNaturalProof, AfterProof,
       Finalize, StopJoined, RecordNext, Leave, Fallback, CloseNext, Cleared
  <2>3. CASE early[s] BY <1>4, <2>2, <2>3, GovernedWork
  <2> QED BY <2>1, <2>3 DEF Governed
<1>5. CASE OperationStep(s) \/ ProcessStep(s)
  <2>1. early'[s] = early[s] BY <1>5, EarlyKept
  <2>2. SameWork(s) /\ (intent'[s] = intent[s] \/ retire[s])
    BY <1>1, <1>5, Domains DEF OperationStep, StopBegin, StopTerm, StopConfirm, StopRetire, StopStep,
       ProcessStep, LeaderExits, DescendantsExit, Reaped, SameWork, worker, files, registry
  <2>3. retire[s] => pc[s] \notin Early
    BY <1>1 DEF Registered, Ending, Deferred, After, Early, Before, Unstarted, Handled
  <2> QED BY <1>1, <1>2, <2>1, <2>2, <2>3 DEF Governed, SameWork, Logged
<1>6. pc[s] \in Before => todo[s] \notin OwnRecords /\ Logged(s) \cap {"result", "failed"} = {}
  <2>1. Logged(s) = {} \/ log[s] # <<>> BY DEF Logged, ToSet
  <2> QED BY <1>1, <2>1, KindsFact DEF Recorded
<1>7. ASSUME NEW c \in Callers, Target[c] = s, CallStep(c) PROVE Governed(s)'
  <2>1. SameWork(s) BY <1>7 DEF CallStep, StopLookup, StopRead, StopRegister, StopCancel, StopReread,
                       StopJoin, SameWork, worker, files
  <2>2. CASE StopRegister(c)
    <3>1. /\ intent'[s] = intent[s] \/ intent'[s] \in {"unbound", "bound"}
          /\ early'[s] => early[s] \/ (pc[s] \in Before \ {"proved", "finalizing"} /\ intent'[s] \in {"unbound", "bound"})
      BY <1>1, <1>7, <2>2, Domains
         DEF StopRegister, Bind, Before, Unstarted, Handled, TypeOK
    <3> QED BY <1>1, <1>2, <1>6, <2>1, <3>1 DEF Governed, SameWork, Logged
  <2>3. CASE StopLookup(c) \/ StopRead(c) \/ StopCancel(c) \/ StopJoin(c)
    <3>1. intent'[s] = intent[s] /\ early'[s] = early[s]
      BY <2>3 DEF StopLookup, StopRead, StopCancel, StopJoin, registry
    <3> QED BY <1>1, <1>2, <2>1, <3>1 DEF Governed, SameWork, Logged
  <2>4. CASE StopReread(c)
    <3>1. early'[s] = early[s] /\ (intent'[s] = intent[s] \/ call[c].at = "clearing")
      BY <1>7, <2>4 DEF StopReread
    <3>2. call[c].at = "clearing" => pc[s] \notin Early
      BY <1>7 DEF StopInv, Called, Ending, Deferred, After, Early, Before, Unstarted, Handled
    <3> QED BY <1>1, <1>2, <2>1, <3>1, <3>2 DEF Governed, SameWork, Logged
  <2> QED BY <1>7, <2>2, <2>3, <2>4 DEF CallStep
<1>8. CASE SourceCancelled
  BY <1>1, <1>8 DEF SourceCancelled, Governed, worker, files, registry, Logged
<1>9. CASE BeginStopAll
  <2>1. UNCHANGED <<worker, files>> /\ stopping' BY <1>9 DEF BeginStopAll
  <2>2. early'[s] => early[s] \/ pc[s] \in Before \ {"proved", "finalizing"}
    BY <1>1, <1>9 DEF BeginStopAll, Placed, After, Before, Unstarted, Handled, TypeOK
  <2> QED BY <1>1, <1>6, <2>1, <2>2 DEF Governed, worker, files, Logged
<1> QED BY <1>3, <1>4, <1>5, <1>7, <1>8, <1>9, StepFact

-----------------------------------------------------------------------------
(* The registry. *)

\* A step changes one call at most.
LEMMA CallsFact ==
    ASSUME TypeOK, Next
    PROVE  \/ UNCHANGED call
           \/ \E c \in Callers : CallStep(c) /\ \A d \in Callers : d # c => call'[d] = call[d]
<1>1. ASSUME NEW s \in Segments, Enter(s) \/ WorkerStep(s) PROVE UNCHANGED call
  BY <1>1 DEF WorkerStep, Enter, Prelaunch, Start, FailedStartJoined, RegisterOwnedHandle, Announce,
     AbandonJoined, Wait, StopForExecution, ConfirmTreeExited, StopAfterNaturalProof, AfterProof,
     Finalize, StopJoined, RecordNext, Leave, Fallback, CloseNext, Cleared
<1>2. ASSUME NEW s \in Segments, OperationStep(s) \/ ProcessStep(s) PROVE UNCHANGED call
  BY <1>2 DEF OperationStep, StopBegin, StopTerm, StopConfirm, StopRetire, StopStep, ProcessStep,
     LeaderExits, DescendantsExit, Reaped
<1>3. ASSUME NEW c \in Callers, CallStep(c) PROVE \A d \in Callers : d # c => call'[d] = call[d]
  BY <1>3, Domains DEF CallStep, StopLookup, StopRead, StopRegister, StopCancel, StopReread, StopJoin,
     CallGoes
<1>4. CASE SourceCancelled \/ BeginStopAll BY <1>4 DEF SourceCancelled, BeginStopAll
<1> QED BY <1>1, <1>2, <1>3, <1>4 DEF Next

\* Who owes the clearing still does while nothing of the segment changes.
LEMMA OwedKept ==
    ASSUME NEW s \in Segments, Owed(s),
           \A c \in Callers : Target[c] = s => call'[c] = call[c],
           pc'[s] = pc[s], ret'[s] = ret[s], launch'[s] = launch[s]
    PROVE  Owed(s)'
BY DEF Owed

\* What clearStop leaves of the registry of a segment.
LEMMA ClearFact ==
    ASSUME TypeOK, NEW s \in Segments, ClearStop(s)
    PROVE  \/ /\ intent[s] = "terminal" /\ (active[s] \/ cancels[s])
              /\ intent'[s] = intent[s] /\ requested'[s] = requested[s] /\ retire'[s] = retire[s]
              /\ generation' = generation
           \/ /\ intent[s] = "bound" /\ op[s] \notin OpDone
              /\ intent'[s] = intent[s] /\ requested'[s] = requested[s] /\ retire'[s]
              /\ generation' = generation
           \/ /\ intent'[s] = "none" /\ ~requested'[s] /\ retire'[s] = retire[s]
              /\ generation' = generation + (IF intent[s] = "terminal" THEN 1 ELSE 0)
              /\ intent[s] = "terminal" => ~active[s] /\ ~cancels[s]
BY Domains DEF ClearStop, TypeOK

\* A worker's step keeps the registry in order.
LEMMA RegisteredWork ==
    ASSUME StopInv, NEW s \in Segments, Enter(s) \/ WorkerStep(s)
    PROVE  Registered(s)'
<1>1. TypeOK /\ Placed(s) /\ Recorded(s) /\ Registered(s) BY DEF StopInv
<1>2. UNCHANGED call
  BY DEF WorkerStep, Enter, Prelaunch, Start, FailedStartJoined, RegisterOwnedHandle, Announce,
     AbandonJoined, Wait, StopForExecution, ConfirmTreeExited, StopAfterNaturalProof, AfterProof,
     Finalize, StopJoined, RecordNext, Leave, Fallback, CloseNext, Cleared
<1>3. CASE Enter(s) \/ Prelaunch(s) \/ FailedStartJoined(s) \/ AbandonJoined(s) \/ Wait(s)
           \/ ConfirmTreeExited(s) \/ Finalize(s) \/ StopJoined(s) \/ RecordNext(s)
  <2>1. /\ UNCHANGED registry /\ pc[s] \in Before \cup {"recording"} /\ pc'[s] \notin After
        /\ pc'[s] \in Unstarted \cup {"failjoin", "started"} => pc[s] \in Unstarted \cup {"failjoin", "started"}
        /\ pc[s] = "recording" => pc'[s] \in {"recording"} \cup Deferred
    BY <1>1, <1>3, Domains DEF Enter, Fails, Prelaunch, FailedStartJoined, AbandonJoined, Wait, ConfirmTreeExited,
       Finalize, StopJoined, RecordNext, Record, Go, Before, Unstarted, Handled, After, Deferred
  <2> QED BY <1>1, <2>1 DEF Registered, registry, Ending, Deferred, After, Before, Unstarted, Handled
<1>4. CASE Start(s)
  <2>1. /\ intent'[s] = intent[s] /\ requested'[s] = requested[s] /\ retire'[s] = retire[s]
        /\ pc[s] = "starting" /\ pc'[s] \in {"started", "failjoin", "recording"}
    BY <1>1, <1>4, Domains DEF Start, Record, Go
  <2> QED BY <1>1, <2>1 DEF Registered, Ending, Deferred, After, Unstarted
<1>5. CASE RegisterOwnedHandle(s) \/ Announce(s) \/ StopForExecution(s) \/ StopAfterNaturalProof(s)
           \/ AfterProof(s)
  <2>1. /\ requested'[s] = requested[s] /\ retire'[s] = retire[s] /\ pc[s] \in Before
        /\ pc'[s] \in Handled \cup {"recording"}
        /\ \/ intent'[s] = intent[s] /\ op'[s] = op[s]
           \/ intent'[s] = "bound" /\ op'[s] \in {"pending"} \cup (IF intent[s] = "bound" THEN {op[s]} ELSE {})
           \/ intent'[s] = "terminal" /\ intent[s] = "none" /\ pc'[s] = "recording"
    BY <1>1, <1>5, Domains DEF RegisterOwnedHandle, Announce, StopForExecution, StopAfterNaturalProof,
       AfterProof, Record, Go, Bind, Before, Handled
  <2> QED BY <1>1, <2>1 DEF Registered, Ending, Deferred, After, Before, Unstarted, Handled, OpRunning
<1>6. CASE Leave(s)
  <2>1. /\ op'[s] = op[s] /\ tail'[s] = tail[s] /\ pc[s] \in Deferred /\ pc'[s] \in Deferred \cup {"fallback"}
        /\ pc'[s] = "fallback" => ~active[s] /\ ~cancels[s]
    BY <1>1, <1>6, Domains DEF Leave, Go, Deferred, After, Placed, Handled
  <2>2. CASE ClearStop(s)
    BY <1>1, <2>1, <2>2, ClearFact DEF Registered, Ending, Deferred, After, Unstarted, OpDone
  <2>3. CASE UNCHANGED <<intent, requested, retire>> /\ pc'[s] \in Deferred
    BY <1>1, <2>1, <2>3 DEF Registered, Ending, Deferred, After, Unstarted
  <2> QED BY <1>1, <1>6, <2>2, <2>3, Domains DEF Leave, Go, Deferred
<1>7. CASE Fallback(s) \/ CloseNext(s)
  <2>1. /\ UNCHANGED registry /\ ret'[s] = ret[s] /\ pc[s] \in After /\ pc'[s] \in After
        /\ pc[s] = "closing" => pc'[s] \in {"closing", "cleared"}
        /\ pc[s] = "fallback" /\ ret[s] \in {"failed", "unknown"} => pc'[s] = "closing"
        /\ pc[s] \in {"fallback", "closing"}
    BY <1>1, <1>7, Domains DEF Fallback, CloseNext, Go, After
  <2>2. Owed(s) => Owed(s)' BY <1>2, <2>1 DEF Owed
  <2> QED BY <1>1, <2>1, <2>2 DEF Registered, registry, Ending, Deferred, After, Unstarted
<1>8. CASE Cleared(s)
  <2>1. /\ op'[s] = op[s] /\ tail'[s] = tail[s] /\ pc[s] = "cleared" /\ pc'[s] = "done" /\ ClearStop(s)
    BY <1>1, <1>8, Domains DEF Cleared, Go
  <2> QED BY <1>1, <2>1, ClearFact DEF Registered, Ending, Deferred, After, Unstarted, OpDone
<1> QED BY <1>3, <1>4, <1>5, <1>6, <1>7, <1>8 DEF WorkerStep

\* A call's step keeps the registry in order.
LEMMA RegisteredCall ==
    ASSUME StopInv, Next, NEW c \in Callers, NEW s \in Segments, Target[c] = s, CallStep(c)
    PROVE  Registered(s)'
<1>1. TypeOK /\ Placed(s) /\ Recorded(s) /\ Registered(s) BY DEF StopInv
<1>2. \A d \in Callers : d # c => call'[d] = call[d]
  BY <1>1, Domains DEF CallStep, StopLookup, StopRead, StopRegister, StopCancel, StopReread, StopJoin, CallGoes
<1>3. SameWork(s) /\ tail'[s] = tail[s]
  BY DEF CallStep, StopLookup, StopRead, StopRegister, StopCancel, StopReread,
     StopJoin, SameWork, worker, files, registry
<1>4. ASSUME call[c].at \notin {"registered", "reread", "clearing"} PROVE Owed(s) => Owed(s)'
  BY <1>2, <1>3, <1>4 DEF Owed, SameWork
<1>5. CASE StopLookup(c) \/ StopRead(c) \/ StopJoin(c)
  <2>1. UNCHANGED registry /\ call[c].at \notin {"registered", "reread", "clearing"}
    BY <1>5 DEF StopLookup, StopRead, StopJoin
  <2> QED BY <1>1, <1>3, <1>4, <2>1 DEF Registered, registry, SameWork
<1>6. CASE StopRegister(c)
  <2>1. call[c].at = "read" /\ retire'[s] = retire[s] BY <1>6 DEF StopRegister
  <2>2. CASE UNCHANGED <<intent, op, requested>>
    BY <1>1, <1>3, <1>4, <2>1, <2>2 DEF Registered, SameWork
  <2>3. CASE /\ intent[s] \in {"none", "unbound"} /\ requested'[s]
             /\ call'[c] = [call[c] EXCEPT !.at = "registered", !.cancel = cancels[s]]
             /\ IF active[s] THEN Bind(s) ELSE intent'[s] = "unbound" /\ op'[s] = op[s]
    <3>1. CASE active[s]
      <4>1. intent'[s] = "bound" /\ op'[s] = "pending" BY <1>1, <2>3, <3>1, Domains DEF Bind
      <4>2. pc[s] \in Handled \cup {"recording", "unregister"} BY <1>1, <3>1 DEF Placed
      <4> QED BY <1>1, <1>3, <2>1, <4>1, <4>2
              DEF Registered, SameWork, Handled, Unstarted, After, OpRunning
    <3>2. CASE ~active[s]
      <4>1. intent'[s] = "unbound" BY <2>3, <3>2
      <4>2. pc[s] \in After => Owed(s)'
        <5>1. pc[s] \in After => ~cancels[s] BY <1>1 DEF Placed
        <5>2. call'[c].at = "registered" /\ call'[c].cancel = cancels[s]
          <6>1. call[c] \in [at : {"idle", "again", "looking", "read", "registered", "reread",
                                   "clearing", "joining", "done"},
                             seen : Nat, terminal : BOOLEAN, cancel : BOOLEAN]
            BY <1>1 DEF TypeOK
          <6> QED BY <2>3, <6>1
        <5> QED BY <5>1, <5>2 DEF Owed
      <4> QED BY <1>1, <1>3, <2>1, <4>1, <4>2 DEF Registered, SameWork
    <3> QED BY <3>1, <3>2
  <2> QED BY <1>1, <1>6, <2>2, <2>3, Domains DEF StopRegister
<1>7. CASE StopCancel(c)
  <2>1. UNCHANGED registry BY <1>7 DEF StopCancel
  <2>2. ASSUME intent[s] = "unbound", Owed(s) PROVE Owed(s)'
    <3>1. CASE ~call[c].cancel
      <4>1. call'[c].at = "reread"
        BY <1>1, <1>7, <2>2, <3>1, Domains DEF StopCancel, CallGoes, TypeOK
      <4> QED BY <4>1 DEF Owed
    <3>2. CASE call[c].cancel
      <4>1. call[c].at = "registered" BY <1>7 DEF StopCancel
      <4> QED BY <1>2, <1>3, <2>2, <3>2, <4>1 DEF Owed, SameWork
    <3> QED BY <3>1, <3>2
  <2> QED BY <1>1, <1>3, <2>1, <2>2 DEF Registered, registry, SameWork
<1>8. CASE StopReread(c)
  <2>1. CASE call[c].at = "reread"
    <3>1. /\ intent' = intent /\ requested' = requested /\ retire' = retire /\ op' = op
      BY <1>8, <2>1 DEF StopReread
    <3>2. ASSUME pc[s] \in After, Owed(s) PROVE Owed(s)'
      <4>1. CASE launch[s] \in Terminal
        <5>1. call'[c].at = "clearing"
          BY <1>1, <1>8, <2>1, <4>1, Domains DEF StopReread, CallGoes, TypeOK
        <5> QED BY <5>1 DEF Owed
      <4>2. CASE launch[s] \notin Terminal
        <5>1. pc[s] = "fallback" => ret[s] \in {"failed", "unknown"}
          BY <1>1, <4>2 DEF Recorded, Left, Terminal, TypeOK
        <5> QED BY <1>3, <3>2, <4>2, <5>1 DEF Owed, After, SameWork
      <4> QED BY <4>1, <4>2
    <3> QED BY <1>1, <1>3, <3>1, <3>2 DEF Registered, SameWork
  <2>2. CASE call[c].at = "clearing"
    <3>1. ClearStop(s) /\ op' = op BY <1>8, <2>2 DEF StopReread
    <3>2. pc[s] \in Ending BY <2>2 DEF StopInv, Called
    <3> QED BY <1>1, <1>3, <3>1, <3>2, ClearFact
            DEF Registered, SameWork, Ending, Deferred, After, Unstarted, OpDone
  <2> QED BY <1>8, <2>1, <2>2 DEF StopReread
<1> QED BY <1>5, <1>6, <1>7, <1>8 DEF CallStep

\* Every step keeps the registry in order.
LEMMA RegisteredStep == ASSUME StopInv, Next, NEW s \in Segments PROVE Registered(s)'
<1>1. TypeOK /\ Placed(s) /\ Registered(s) BY DEF StopInv
<1>2. CASE \E c \in Callers : Target[c] = s /\ CallStep(c) BY <1>2, RegisteredCall
<1>3. CASE ~\E c \in Callers : Target[c] = s /\ CallStep(c)
  <2>1. \A c \in Callers : Target[c] = s => call'[c] = call[c] BY <1>1, <1>3, CallsFact
  <2>2. CASE SameSegment(s)
    <3>1. Owed(s) => Owed(s)' BY <2>1, <2>2, OwedKept DEF SameSegment, SameWork
    <3> QED BY <1>1, <2>2, <3>1 DEF Registered, SameSegment, SameWork
  <2>3. CASE Enter(s) \/ WorkerStep(s) BY <2>3, RegisteredWork
  <2>4. CASE OperationStep(s)
    <3>1. SameWork(s) /\ retire'[s] = retire[s]
      BY <2>4 DEF OperationStep, StopBegin, StopTerm, StopConfirm, StopRetire, StopStep, SameWork,
         worker, files
    <3>2. Owed(s) => Owed(s)' BY <2>1, <3>1, OwedKept DEF SameWork
    <3>3. CASE StopBegin(s) \/ StopTerm(s) \/ StopConfirm(s)
      <4>1. /\ intent'[s] = intent[s] /\ requested'[s] = requested[s]
            /\ op'[s] \in OpRunning \/ (op'[s] \in OpDone /\ tail'[s])
        BY <1>1, <3>3, Domains DEF StopBegin, StopTerm, StopConfirm, StopStep, OpRunning, OpDone
      <4> QED BY <1>1, <3>1, <3>2, <4>1 DEF Registered, SameWork
    <3>4. CASE StopRetire(s)
      <4>1. /\ op'[s] = op[s]
            /\ \/ intent[s] = "bound" /\ retire[s] /\ intent'[s] = "none" /\ ~requested'[s]
               \/ ~(intent[s] = "bound" /\ retire[s]) /\ intent'[s] = intent[s] /\ requested'[s] = requested[s]
        BY <1>1, <3>4, Domains DEF StopRetire, TypeOK
      <4> QED BY <1>1, <3>1, <3>2, <4>1 DEF Registered, SameWork
    <3> QED BY <2>4, <3>3, <3>4 DEF OperationStep
  <2>5. CASE ProcessStep(s) \/ SourceCancelled
    <3>1. UNCHANGED <<worker, registry, files>>
      BY <2>5 DEF ProcessStep, LeaderExits, DescendantsExit, Reaped, SourceCancelled
    <3>2. Owed(s) => Owed(s)' BY <2>1, <3>1, OwedKept DEF worker, files
    <3> QED BY <1>1, <3>1, <3>2 DEF Registered, worker, registry
  <2>6. CASE BeginStopAll
    <3>1. UNCHANGED <<worker, files, tail, retire>> BY <2>6 DEF BeginStopAll
    <3>2. Owed(s) => Owed(s)' BY <2>1, <3>1, OwedKept DEF worker, files
    <3>3. \/ intent'[s] = intent[s] /\ requested'[s] = requested[s] /\ op'[s] = op[s]
          \/ /\ cancels[s] \/ active[s]
             /\ intent[s] # "terminal"
             /\ \/ active[s] /\ intent'[s] = "bound" /\ op'[s] = (IF intent[s] = "bound" THEN op[s] ELSE "pending")
                \/ ~active[s] /\ op'[s] = op[s] /\ intent'[s] = (IF intent[s] = "none" THEN "unbound" ELSE intent[s])
      BY <1>1, <2>6 DEF BeginStopAll, TypeOK
    <3>4. /\ pc[s] \in After => ~cancels[s] /\ ~active[s]
          /\ active[s] => pc[s] \notin Unstarted \cup {"failjoin", "started"}
      BY <1>1 DEF Placed, After, Handled, Unstarted
    <3> QED BY <1>1, <3>1, <3>2, <3>3, <3>4 DEF Registered, worker, OpRunning, TypeOK
  <2> QED BY <1>3, <2>2, <2>3, <2>4, <2>5, <2>6, StepFact
<1> QED BY <1>2, <1>3

-----------------------------------------------------------------------------
(* The calls, and a natural failure. *)

\* The generation and the faults only grow.
LEMMA MonotoneFact ==
    ASSUME TypeOK, Next
    PROVE  /\ generation' \in Nat /\ generation' >= generation
           /\ faults' \in 0..MaxFaults /\ (faults' = 0 => faults = 0)
<1>1. generation \in Nat /\ faults \in 0..MaxFaults /\ MaxFaults \in Nat
  BY HostStopAssumption DEF TypeOK, HostStopParameters
<1>2. ASSUME NEW s \in Segments, Enter(s) \/ WorkerStep(s)
      PROVE  /\ generation' \in {generation, generation + 1}
             /\ faults' = faults \/ (faults < MaxFaults /\ faults' = faults + 1)
  <2>1. CASE Enter(s) \/ Prelaunch(s) \/ Start(s) \/ FailedStartJoined(s) \/ RegisterOwnedHandle(s)
             \/ Announce(s) \/ AbandonJoined(s) \/ Wait(s) \/ StopForExecution(s)
    BY <2>1 DEF Enter, Fails, Prelaunch, Start, FailedStartJoined, RegisterOwnedHandle, Announce,
       AbandonJoined, Wait, StopForExecution, registry
  <2>2. CASE ConfirmTreeExited(s) \/ StopAfterNaturalProof(s) \/ AfterProof(s) \/ Finalize(s)
             \/ StopJoined(s) \/ RecordNext(s) \/ Fallback(s) \/ CloseNext(s)
    BY <2>2 DEF ConfirmTreeExited, StopAfterNaturalProof, AfterProof, Finalize, StopJoined, RecordNext,
       Fallback, CloseNext, Fails, registry
  <2>3. CASE Leave(s) \/ Cleared(s)
    BY <1>1, <2>3 DEF Leave, Cleared, ClearStop
  <2> QED BY <1>2, <2>1, <2>2, <2>3 DEF WorkerStep
<1>3. ASSUME NEW s \in Segments, OperationStep(s) \/ ProcessStep(s)
      PROVE  generation' = generation /\ faults' = faults
  BY <1>3 DEF OperationStep, StopBegin, StopTerm, StopConfirm, StopRetire, StopStep, ProcessStep,
     LeaderExits, DescendantsExit, Reaped, registry
<1>4. ASSUME NEW c \in Callers, CallStep(c)
      PROVE  generation' \in {generation, generation + 1} /\ faults' = faults
  BY <1>1, <1>4 DEF CallStep, StopLookup, StopRead, StopRegister, StopCancel, StopReread, StopJoin,
     ClearStop, registry
<1>5. ASSUME SourceCancelled \/ BeginStopAll PROVE generation' = generation /\ faults' = faults
  BY <1>5 DEF SourceCancelled, BeginStopAll, registry
<1>6. /\ generation' \in {generation, generation + 1}
      /\ faults' = faults \/ (faults < MaxFaults /\ faults' = faults + 1)
  BY <1>2, <1>3, <1>4, <1>5 DEF Next
<1> QED BY <1>1, <1>6

\* A worker is before its end or in it, and never comes back.
LEMMA PlacesFact ==
    ASSUME StopInv, Next, NEW s \in Segments
    PROVE  /\ pc[s] \in Before \cup Ending
           /\ pc[s] \in Before => pc[s] \notin Ending
           /\ pc[s] \in Ending => pc'[s] \in Ending
           /\ pc[s] \in After => pc'[s] \in After
           /\ pc'[s] \in Early => pc[s] \in Early
<1>1. TypeOK BY DEF StopInv
<1> USE DEF Before, Unstarted, Handled, Early, Ending, Deferred, After
<1>2. pc[s] \in Before \cup Ending BY <1>1 DEF TypeOK
<1>3. ASSUME pc'[s] = pc[s] PROVE /\ pc[s] \in Ending => pc'[s] \in Ending
                                  /\ pc[s] \in After => pc'[s] \in After
                                  /\ pc'[s] \in Early => pc[s] \in Early
  BY <1>3
<1>4. CASE SameSegment(s) BY <1>2, <1>3, <1>4 DEF SameSegment, SameWork
<1>5. CASE OperationStep(s) \/ ProcessStep(s) \/ SourceCancelled \/ BeginStopAll
           \/ \E c \in Callers : Target[c] = s /\ CallStep(c)
  <2>1. pc' = pc
    BY <1>5 DEF OperationStep, StopBegin, StopTerm, StopConfirm, StopRetire, StopStep, ProcessStep,
       LeaderExits, DescendantsExit, Reaped, SourceCancelled, BeginStopAll, CallStep, StopLookup,
       StopRead, StopRegister, StopCancel, StopReread, StopJoin, worker
  <2> QED BY <1>2, <1>3, <2>1
<1>6. CASE Enter(s) \/ Prelaunch(s) \/ Start(s) \/ FailedStartJoined(s) \/ RegisterOwnedHandle(s)
           \/ Announce(s) \/ AbandonJoined(s) \/ Wait(s) \/ StopForExecution(s)
  BY <1>1, <1>2, <1>6, Domains DEF Enter, Fails, Prelaunch, Start, FailedStartJoined, RegisterOwnedHandle, Announce,
     AbandonJoined, Wait, StopForExecution, Go, Record
<1>7. CASE ConfirmTreeExited(s) \/ StopAfterNaturalProof(s) \/ AfterProof(s) \/ Finalize(s)
           \/ StopJoined(s)
  BY <1>1, <1>2, <1>7, Domains DEF ConfirmTreeExited, StopAfterNaturalProof, AfterProof, Finalize,
     StopJoined, Go, Record
<1>8. CASE RecordNext(s) \/ Leave(s) \/ Fallback(s) \/ CloseNext(s) \/ Cleared(s)
  BY <1>1, <1>2, <1>8, Domains DEF RecordNext, WriteNext, Fails, Leave, Fallback, CloseNext, Cleared, Go
<1> QED BY <1>2, <1>4, <1>5, <1>6, <1>7, <1>8, StepFact DEF WorkerStep

\* A stop stays in the registry while the end of the worker is open.
LEMMA IntentKept ==
    ASSUME StopInv, Next, NEW s \in Segments, pc'[s] \in Early, intent[s] \in {"unbound", "bound"}
    PROVE  intent'[s] \in {"unbound", "bound"}
<1>1. TypeOK /\ Registered(s) BY DEF StopInv
<1>2. pc[s] \in Early /\ pc[s] \notin Ending BY PlacesFact DEF Early
<1>3. CASE SameSegment(s) BY <1>3 DEF SameSegment
<1>4. CASE Enter(s) \/ WorkerStep(s)
  <2>1. CASE Enter(s) \/ Prelaunch(s) \/ Start(s) \/ FailedStartJoined(s) \/ AbandonJoined(s)
             \/ Wait(s) \/ ConfirmTreeExited(s) \/ Finalize(s) \/ StopJoined(s) \/ RecordNext(s)
             \/ Fallback(s) \/ CloseNext(s)
    BY <2>1 DEF Enter, Fails, Prelaunch, Start, FailedStartJoined, AbandonJoined, Wait, ConfirmTreeExited,
       Finalize, StopJoined, RecordNext, Fallback, CloseNext, registry
  <2>2. CASE RegisterOwnedHandle(s) \/ Announce(s) \/ StopForExecution(s) \/ StopAfterNaturalProof(s)
             \/ AfterProof(s)
    BY <1>1, <2>2, Domains DEF RegisterOwnedHandle, Announce, StopForExecution, StopAfterNaturalProof,
       AfterProof, Bind
  <2>3. CASE Leave(s) \/ Cleared(s)
    BY <1>2, <2>3 DEF Leave, Cleared, Ending, Deferred, After
  <2> QED BY <1>4, <2>1, <2>2, <2>3 DEF WorkerStep
<1>5. CASE OperationStep(s)
  <2>1. ~retire[s] BY <1>1, <1>2 DEF Registered
  <2> QED BY <1>5, <2>1 DEF OperationStep, StopBegin, StopTerm, StopConfirm, StopRetire, StopStep
<1>6. CASE ProcessStep(s) \/ SourceCancelled
  BY <1>6 DEF ProcessStep, LeaderExits, DescendantsExit, Reaped, SourceCancelled, registry
<1>7. CASE BeginStopAll BY <1>7 DEF BeginStopAll
<1>8. ASSUME NEW c \in Callers, Target[c] = s, CallStep(c) PROVE intent'[s] \in {"unbound", "bound"}
  <2>1. call[c].at # "clearing" BY <1>2, <1>8 DEF StopInv, Called
  <2>2. CASE StopRegister(c) BY <1>1, <1>8, <2>2, Domains DEF StopRegister, Bind
  <2>3. CASE StopLookup(c) \/ StopRead(c) \/ StopCancel(c) \/ StopReread(c) \/ StopJoin(c)
    BY <2>1, <2>3 DEF StopLookup, StopRead, StopCancel, StopReread, StopJoin, registry
  <2> QED BY <1>8, <2>2, <2>3 DEF CallStep
<1> QED BY <1>3, <1>4, <1>5, <1>6, <1>7, <1>8, StepFact

\* Every step keeps what a call has seen.
LEMMA CalledStep == ASSUME StopInv, Next, NEW c \in Callers PROVE Called(c)'
<1> DEFINE s == Target[c]
<1>1. TypeOK /\ Called(c) /\ s \in Segments
  BY HostStopAssumption DEF StopInv, HostStopParameters
<1>2. /\ Recorded(s) /\ generation \in Nat /\ generation' \in Nat /\ generation' >= generation
      /\ call[c].seen \in Nat
  BY <1>1, MonotoneFact DEF StopInv, TypeOK
<1>3. pc[s] \in Ending => pc'[s] \in Ending BY <1>1, PlacesFact
<1>4. pc'[s] \in Early => pc[s] \in Early /\ (intent[s] \in {"unbound", "bound"} => intent'[s] \in {"unbound", "bound"})
  BY <1>1, PlacesFact, IntentKept
<1>5. CASE call'[c] = call[c] BY <1>1, <1>2, <1>3, <1>4, <1>5 DEF Called
<1>6. CASE CallStep(c)
  <2>1. call[c] \in [at : {"idle", "again", "looking", "read", "registered", "reread",
                           "clearing", "joining", "done"},
                     seen : Nat, terminal : BOOLEAN, cancel : BOOLEAN]
    BY <1>1 DEF TypeOK
  <2>2. CASE StopLookup(c)
    BY <1>1, <1>2, <2>1, <2>2, Domains DEF StopLookup, CallGoes, Called, registry
  <2>3. CASE StopRead(c) \/ StopJoin(c)
    BY <1>1, <1>2, <2>1, <2>3, Domains DEF StopRead, StopJoin, CallGoes, Called, registry
  <2>4. CASE StopRegister(c)
    <3>1. call'[c].at \in {"again", "done", "joining"} \/ (call'[c].at = "registered" /\ intent'[s] \in {"unbound", "bound"})
      BY <1>1, <2>1, <2>4, Domains DEF StopRegister, CallGoes, Bind
    <3>2. call'[c].seen = call[c].seen
      BY <1>1, <2>1, <2>4, Domains DEF StopRegister, CallGoes
    <3> QED BY <1>1, <1>2, <3>1, <3>2 DEF Called
  <2>5. CASE StopCancel(c)
    <3>1. /\ call[c].at = "registered" /\ call'[c].at \in {"joining", "done", "reread"}
          /\ call'[c].seen = call[c].seen
      BY <1>1, <2>1, <2>5, Domains DEF StopCancel, CallGoes
    <3> QED BY <1>1, <1>2, <1>4, <3>1 DEF Called
  <2>6. CASE StopReread(c)
    <3>1. /\ call'[c].at = "done" \/ (call'[c].at = "clearing" /\ launch[s] \in Terminal)
          /\ call'[c].seen = call[c].seen /\ pc' = pc
      BY <1>1, <2>1, <2>6, Domains DEF StopReread, CallGoes, worker
    <3>2. launch[s] \in Terminal => pc[s] \in Ending
      <4>1. pc[s] \in Before => launch[s] \notin Terminal
        BY <1>2 DEF Recorded, Terminal, Underway
      <4>2. pc[s] \in Before \cup Ending BY <1>1, PlacesFact
      <4> QED BY <4>1, <4>2
    <3> QED BY <1>1, <1>2, <3>1, <3>2 DEF Called
  <2> QED BY <1>6, <2>2, <2>3, <2>4, <2>5, <2>6 DEF CallStep
<1> QED BY <1>1, <1>5, <1>6, CallsFact

\* A worker that recorded an unknown outcome has nothing else to say.
LEMMA UnknownKept ==
    ASSUME TypeOK, NEW s \in Segments, Recorded(s), ret[s] = "unknown",
           RecordNext(s) \/ CloseNext(s)
    PROVE  /\ launch'[s] \in {launch[s], "unknown"} /\ ret'[s] = "unknown"
           /\ pc[s] = "recording" /\ todo[s] = UnknownRecords /\ faults' = faults => launch'[s] = "unknown"
<1>1. pc[s] \in {"recording", "closing"} BY DEF RecordNext, WriteNext, Fails, CloseNext
<1>2. todo[s] \in UnknownLists \cup {<<>>}
  BY <1>1 DEF Recorded, Recording, Reclosing, Left, UnknownLists
<1>3. todo[s] # <<>> => /\ Head(todo[s])[2] = "unknown"
                        /\ Head(todo[s])[1] = "phase" => Head(todo[s]) = <<"phase", "unknown">>
  BY <1>2, HeadsFact
<1>4. ret'[s] = "unknown"
  <2>1. CASE RecordNext(s) BY <2>1, Domains DEF RecordNext
  <2>2. CASE CloseNext(s) BY <2>2 DEF CloseNext
  <2> QED BY <2>1, <2>2
<1>5. launch'[s] \in {launch[s], "unknown"}
  <2>1. CASE RecordNext(s) BY <1>3, <2>1, Domains DEF RecordNext, WriteNext, Fails, files
  <2>2. CASE CloseNext(s) BY <1>3, <2>2, Domains DEF CloseNext, WriteNext, Fails, files
  <2> QED BY <2>1, <2>2
<1>6. ASSUME pc[s] = "recording", todo[s] = UnknownRecords, faults' = faults PROVE launch'[s] = "unknown"
  <2>1. RecordNext(s) BY <1>6 DEF CloseNext
  <2>2. Head(todo[s])[1] = "phase" /\ Head(todo[s])[2] = "unknown" /\ todo[s] # <<>>
    BY <1>6, RecordsFact
  <2>3. faults \in Nat BY DEF TypeOK
  <2> QED BY <1>6, <2>1, <2>2, <2>3, Domains DEF RecordNext, WriteNext, Fails
<1> QED BY <1>4, <1>5, <1>6

\* A failed observation that is selected now.
LEMMA FinalBegins ==
    ASSUME StopInv, NEW s \in Segments, StopAfterNaturalProof(s), ~natural[s], natural'[s]
    PROVE  Final(s)'
<1>1. TypeOK BY DEF StopInv
<1>2. /\ intent[s] = "none" /\ pc[s] = "unproved" /\ intent'[s] = "terminal" /\ generation' = generation + 1
      /\ pc'[s] = "recording" /\ todo'[s] = UnknownRecords /\ ret'[s] = "unknown" /\ UNCHANGED call
  BY <1>1, Domains DEF StopAfterNaturalProof, Record, Go
<1>3. pc[s] \in Early /\ pc[s] \notin Ending
  BY <1>2 DEF Early, Before, Handled, Ending, Deferred, After
<1>4. \A c \in Callers : Target[c] = s => call[c].at \notin {"registered", "reread", "clearing"}
  BY <1>2, <1>3 DEF StopInv, Called
<1>5. \A c \in Callers : call[c].seen # generation'
  <2>1. \A c \in Callers : call[c].seen \in Nat /\ call[c].seen <= generation /\ generation \in Nat
    BY <1>1 DEF StopInv, Called, TypeOK
  <2> QED BY <1>2, <2>1
<1> QED BY <1>2, <1>4, <1>5 DEF Final, Ending, After

\* What a worker does after a failed observation was selected.
LEMMA FinalWork ==
    ASSUME StopInv, Next, NEW s \in Segments, natural[s], Enter(s) \/ WorkerStep(s), UNCHANGED call
    PROVE  Final(s)'
<1>1. TypeOK /\ Final(s) /\ Recorded(s) /\ Placed(s) /\ Registered(s) BY DEF StopInv
<1>2. /\ pc[s] \in Ending /\ ret[s] = "unknown"
      /\ faults = 0 => launch[s] = "unknown" \/ (pc[s] = "recording" /\ todo[s] = UnknownRecords)
      /\ pc[s] \notin After =>
           /\ intent[s] = "terminal"
           /\ \A c \in Callers : Target[c] = s => call[c].at \notin {"registered", "reread", "clearing"}
      /\ faults = 0 =>
           \A c \in Callers :
              Target[c] = s /\ call[c].at \in {"looking", "read"} /\ call[c].seen = generation
                => pc[s] \in After /\ (call[c].at = "read" => call[c].terminal)
  BY <1>1 DEF Final
<1>3. faults' = 0 => faults = 0 BY <1>1, MonotoneFact
<1>4. pc'[s] \in Ending /\ (pc[s] \in After => pc'[s] \in After) BY <1>2, PlacesFact
<1>5. \A c \in Callers : generation' # generation => call[c].seen # generation'
  <2>1. \A c \in Callers : call[c].seen \in Nat /\ call[c].seen <= generation /\ generation \in Nat
    BY <1>1 DEF StopInv, Called, TypeOK
  <2>2. generation' \in Nat /\ generation' >= generation BY <1>1, MonotoneFact
  <2> QED BY <2>1, <2>2
<1>6. CASE RecordNext(s) \/ CloseNext(s)
  <2>1. UNCHANGED registry /\ (pc[s] \notin After => pc'[s] \notin After)
    BY <1>1, <1>6, Domains DEF RecordNext, WriteNext, Fails, CloseNext, Go, After
  <2>2. /\ launch'[s] \in {launch[s], "unknown"} /\ ret'[s] = "unknown"
        /\ pc[s] = "recording" /\ todo[s] = UnknownRecords /\ faults' = faults => launch'[s] = "unknown"
    BY <1>1, <1>2, <1>6, UnknownKept
  <2>3. faults' = 0 => faults' = faults BY <1>3
  <2> QED BY <1>2, <1>3, <1>4, <2>1, <2>2, <2>3 DEF Final, registry
<1>7. CASE Leave(s) \/ Fallback(s) \/ Cleared(s)
  <2>1. /\ ret'[s] = ret[s] /\ launch'[s] = launch[s] /\ pc[s] # "recording"
    BY <1>7 DEF Leave, Fallback, Cleared, files
  <2>2. ASSUME pc'[s] \notin After PROVE intent'[s] = "terminal" /\ pc[s] \notin After /\ generation' = generation
    <3>1. pc[s] \notin After /\ intent[s] = "terminal" BY <1>2, <1>4, <2>2
    <3>2. Leave(s) BY <1>7, <3>1 DEF Fallback, Cleared, After
    <3>3. CASE pc[s] = "unclear"
      <4>1. ClearStop(s) BY <3>2, <3>3 DEF Leave
      <4>2. cancels[s] BY <1>1, <3>3 DEF Placed, After
      <4> QED BY <3>1, <4>1, <4>2, ClearFact, <1>1
    <3>4. CASE pc[s] \in {"unregister", "uncancel"}
      BY <3>1, <3>2, <3>4 DEF Leave
    <3>5. CASE pc[s] = "clear"
      BY <1>1, <2>2, <3>2, <3>5, Domains DEF Leave, Go, After
    <3> QED BY <3>2, <3>3, <3>4, <3>5 DEF Leave
  <2>3. pc'[s] \in After \/ (pc'[s] \notin After /\ generation' = generation) BY <2>2
  <2>4. generation' = generation \/ pc[s] = "clear"
    <3>1. pc[s] \in After => intent[s] # "terminal" BY <1>1 DEF Registered, Deferred, After
    <3>2. CASE Fallback(s) BY <3>2 DEF Fallback, registry
    <3>3. CASE Cleared(s)
      <4>1. pc[s] \in After /\ ClearStop(s) BY <3>3 DEF Cleared, After
      <4> QED BY <1>1, <3>1, <4>1, ClearFact DEF TypeOK
    <3>4. CASE Leave(s)
      <4>1. CASE pc[s] = "unclear"
        <5>1. ClearStop(s) /\ cancels[s] /\ intent[s] = "terminal"
          BY <1>1, <1>2, <3>4, <4>1 DEF Leave, Placed, After
        <5> QED BY <1>1, <5>1, ClearFact
      <4> QED BY <3>4, <4>1 DEF Leave
    <3> QED BY <1>7, <3>2, <3>3, <3>4
  <2>5. pc[s] = "clear" => generation' # generation \/ pc'[s] \notin After
    <3>1. ASSUME pc[s] = "clear" PROVE generation' # generation
      <4>1. ClearStop(s) /\ ~active[s] /\ ~cancels[s] /\ intent[s] = "terminal"
        BY <1>1, <1>2, <1>7, <3>1 DEF Leave, Fallback, Cleared, Placed, After, Handled
      <4>2. generation \in Nat BY <1>1 DEF TypeOK
      <4>3. generation' = generation + 1 BY <1>1, <4>1, ClearFact
      <4> QED BY <4>2, <4>3
    <3> QED BY <3>1
  <2> QED BY <1>2, <1>3, <1>4, <1>5, <2>1, <2>2, <2>4, <2>5 DEF Final
<1>8. CASE Enter(s) \/ Prelaunch(s) \/ Start(s) \/ FailedStartJoined(s) \/ RegisterOwnedHandle(s)
           \/ Announce(s) \/ AbandonJoined(s) \/ Wait(s) \/ StopForExecution(s)
           \/ ConfirmTreeExited(s) \/ StopAfterNaturalProof(s) \/ AfterProof(s) \/ Finalize(s)
           \/ StopJoined(s)
  <2>1. pc[s] \notin Ending
    BY <1>8 DEF Enter, Fails, Prelaunch, Start, FailedStartJoined, RegisterOwnedHandle, Announce, AbandonJoined,
       Wait, StopForExecution, ConfirmTreeExited, StopAfterNaturalProof, AfterProof, Finalize,
       StopJoined, Ending, Deferred, After
  <2> QED BY <1>2, <2>1
<1> QED BY <1>6, <1>7, <1>8 DEF WorkerStep

\* What a call does after a failed observation was selected.
LEMMA FinalCall ==
    ASSUME StopInv, Next, NEW c \in Callers, NEW s \in Segments, Target[c] = s, CallStep(c), natural[s]
    PROVE  Final(s)' /\ (requested'[s] => requested[s] \/ faults # 0)
<1>1. TypeOK /\ Final(s) /\ Called(c) BY DEF StopInv
<1>2. /\ pc[s] \in Ending /\ ret[s] = "unknown"
      /\ faults = 0 => launch[s] = "unknown" \/ (pc[s] = "recording" /\ todo[s] = UnknownRecords)
      /\ pc[s] \notin After =>
           /\ intent[s] = "terminal"
           /\ \A d \in Callers : Target[d] = s => call[d].at \notin {"registered", "reread", "clearing"}
      /\ faults = 0 =>
           \A d \in Callers :
              Target[d] = s /\ call[d].at \in {"looking", "read"} /\ call[d].seen = generation
                => pc[s] \in After /\ (call[d].at = "read" => call[d].terminal)
  BY <1>1 DEF Final
<1>3. /\ UNCHANGED <<worker, files, natural, faults>>
      /\ \A d \in Callers : d # c => call'[d] = call[d]
  BY <1>1, Domains DEF CallStep, StopLookup, StopRead, StopRegister, StopCancel, StopReread, StopJoin, CallGoes
<1>4. \A d \in Callers : generation' # generation => call[d].seen # generation'
  <2>1. \A d \in Callers : call[d].seen \in Nat /\ call[d].seen <= generation /\ generation \in Nat
    BY <1>1 DEF StopInv, Called, TypeOK
  <2>2. generation' \in Nat /\ generation' >= generation BY <1>1, MonotoneFact
  <2> QED BY <2>1, <2>2
<1>5. call[c] \in [at : {"idle", "again", "looking", "read", "registered", "reread",
                         "clearing", "joining", "done"},
                   seen : Nat, terminal : BOOLEAN, cancel : BOOLEAN]
  BY <1>1 DEF TypeOK
\* The rest follows from what the step leaves of the intent and of its call.
<1>6. ASSUME intent'[s] = intent[s] \/ pc[s] \in After,
             call'[c].at \in {"registered", "reread", "clearing"} => pc[s] \in After,
             faults = 0 /\ call'[c].at \in {"looking", "read"} /\ call'[c].seen = generation' =>
                 pc[s] \in After /\ (call'[c].at = "read" => call'[c].terminal)
      PROVE  Final(s)'
  BY <1>2, <1>3, <1>4, <1>6 DEF Final, worker, files
<1>7. CASE StopLookup(c)
  <2>1. UNCHANGED registry BY <1>7 DEF StopLookup
  <2>2. \/ call'[c].at \in {"done", "joining"}
        \/ call'[c].at = "looking" /\ intent[s] \in {"none", "unbound"}
    BY <1>1, <1>5, <1>7, Domains DEF StopLookup, CallGoes
  <2> QED BY <1>2, <1>6, <2>1, <2>2 DEF registry
<1>8. CASE StopRead(c)
  <2>1. UNCHANGED registry BY <1>8 DEF StopRead
  <2>2. /\ call[c].at = "looking" /\ call'[c].at = "read" /\ call'[c].seen = call[c].seen
        /\ call'[c].terminal = (launch[s] \in Terminal)
    BY <1>1, <1>5, <1>8, Domains DEF StopRead
  <2>3. pc[s] \in After => pc[s] # "recording" BY DEF After
  <2> QED BY <1>2, <1>6, <2>1, <2>2, <2>3 DEF registry, Terminal
<1>9. CASE StopRegister(c)
  <2>1. call[c].at = "read" /\ generation' = generation BY <1>9 DEF StopRegister
  <2>2. CASE UNCHANGED <<intent, requested>> /\ call'[c].at \in {"again", "done", "joining"}
    BY <1>6, <2>2
  <2>3. CASE /\ SameGeneration(c) /\ intent[s] \in {"none", "unbound"} /\ ~call[c].terminal
             /\ call'[c].at = "registered"
    <3>1. faults # 0 BY <1>2, <2>1, <2>3 DEF SameGeneration
    <3>2. pc[s] \in After BY <1>2, <2>3
    <3> QED BY <1>6, <2>3, <3>1, <3>2
  <2> QED BY <1>1, <1>5, <1>9, <2>2, <2>3, Domains DEF StopRegister, CallGoes
<1>10. CASE StopCancel(c) \/ StopJoin(c)
  <2>1. UNCHANGED registry BY <1>10 DEF StopCancel, StopJoin
  <2>2. \/ call'[c].at \in {"done", "joining"}
        \/ call'[c].at = "reread" /\ call[c].at = "registered"
    BY <1>1, <1>5, <1>10, Domains DEF StopCancel, StopJoin, CallGoes
  <2> QED BY <1>2, <1>6, <2>1, <2>2 DEF registry
<1>11. CASE StopReread(c)
  <2>1. call[c].at \in {"reread", "clearing"} /\ pc[s] \in After
    BY <1>2, <1>11 DEF StopReread
  <2>2. call'[c].at \in {"done", "clearing"}
    BY <1>1, <1>5, <1>11, Domains DEF StopReread, CallGoes
  <2>3. requested'[s] => requested[s] BY <1>1, <1>11, ClearFact DEF StopReread
  <2> QED BY <1>6, <2>1, <2>2, <2>3
<1> QED BY <1>7, <1>8, <1>9, <1>10, <1>11 DEF CallStep

\* A failed observation that was selected stays the last word.
LEMMA FinalStep ==
    ASSUME StopInv, Next, NEW s \in Segments
    PROVE  Final(s)' /\ (natural[s] /\ ~requested[s] /\ faults = 0 => ~requested'[s])
<1>1. TypeOK /\ Final(s) /\ Placed(s) BY DEF StopInv
<1>2. CASE \E c \in Callers : Target[c] = s /\ CallStep(c)
  <2>1. UNCHANGED natural
    BY <1>2 DEF CallStep, StopLookup, StopRead, StopRegister, StopCancel, StopReread, StopJoin
  <2> QED BY <1>2, <2>1, FinalCall DEF Final
<1>3. CASE ~\E c \in Callers : Target[c] = s /\ CallStep(c)
  <2>1. \A c \in Callers : Target[c] = s => call'[c] = call[c] BY <1>1, <1>3, CallsFact
  <2>2. \A c \in Callers : generation' # generation => call[c].seen # generation'
    <3>1. \A c \in Callers : call[c].seen \in Nat /\ call[c].seen <= generation /\ generation \in Nat
      BY <1>1 DEF StopInv, Called, TypeOK
    <3>2. generation' \in Nat /\ generation' >= generation BY <1>1, MonotoneFact
    <3> QED BY <3>1, <3>2
  <2>3. faults' = 0 => faults = 0 BY <1>1, MonotoneFact
  <2>4. ASSUME SameWork(s), intent'[s] = intent[s] \/ intent[s] # "terminal", natural'[s] = natural[s]
        PROVE  Final(s)'
    BY <1>1, <2>1, <2>2, <2>3, <2>4 DEF Final, SameWork
  <2>5. CASE SameSegment(s) BY <2>4, <2>5 DEF SameSegment
  <2>6. CASE Enter(s) \/ WorkerStep(s)
    <3>1. UNCHANGED call
      BY <2>6 DEF WorkerStep, Enter, Prelaunch, Start, FailedStartJoined, RegisterOwnedHandle, Announce,
         AbandonJoined, Wait, StopForExecution, ConfirmTreeExited, StopAfterNaturalProof, AfterProof,
         Finalize, StopJoined, RecordNext, Leave, Fallback, CloseNext, Cleared
    <3>2. natural'[s] => natural[s] \/ StopAfterNaturalProof(s)
      BY <1>1, <2>6, Domains DEF WorkerStep, Enter, Prelaunch, Start, FailedStartJoined, RegisterOwnedHandle,
         Announce, AbandonJoined, Wait, StopForExecution, ConfirmTreeExited, AfterProof, Finalize,
         StopJoined, RecordNext, Leave, Fallback, CloseNext, Cleared
    <3>3. requested'[s] => requested[s]
      <4>1. CASE Leave(s) \/ Cleared(s)
        BY <1>1, <4>1, ClearFact DEF Leave, Cleared
      <4>2. CASE ~Leave(s) /\ ~Cleared(s)
        BY <2>6, <4>2 DEF WorkerStep, Enter, Prelaunch, Start, FailedStartJoined, RegisterOwnedHandle,
           Announce, AbandonJoined, Wait, StopForExecution, ConfirmTreeExited, StopAfterNaturalProof,
           AfterProof, Finalize, StopJoined, RecordNext, Fallback, CloseNext, registry
      <4> QED BY <4>1, <4>2
    <3>4. CASE natural[s] BY <2>6, <3>1, <3>3, <3>4, FinalWork
    <3>5. CASE ~natural[s]
      <4>1. CASE natural'[s] BY <3>2, <3>5, <4>1, FinalBegins
      <4> QED BY <3>5, <4>1 DEF Final
    <3> QED BY <3>4, <3>5
  <2>7. CASE OperationStep(s)
    <3>1. SameWork(s) /\ natural'[s] = natural[s]
      BY <2>7 DEF OperationStep, StopBegin, StopTerm, StopConfirm, StopRetire, StopStep, SameWork,
         worker, files
    <3>2. (intent'[s] = intent[s] \/ intent[s] # "terminal") /\ (requested'[s] => requested[s])
      BY <1>1, <2>7, Domains DEF OperationStep, StopBegin, StopTerm, StopConfirm, StopRetire, StopStep
    <3> QED BY <2>4, <3>1, <3>2
  <2>8. CASE ProcessStep(s) \/ SourceCancelled
    <3>1. UNCHANGED <<worker, registry, files, natural>>
      BY <2>8 DEF ProcessStep, LeaderExits, DescendantsExit, Reaped, SourceCancelled
    <3> QED BY <2>4, <3>1 DEF SameWork, worker, registry, files
  <2>9. CASE BeginStopAll
    <3>1. UNCHANGED <<worker, files, natural, faults>> BY <2>9 DEF BeginStopAll
    <3>2. \/ intent'[s] = intent[s] /\ requested'[s] = requested[s]
          \/ intent[s] # "terminal" /\ (cancels[s] \/ active[s])
      BY <1>1, <2>9 DEF BeginStopAll, TypeOK
    <3>3. natural[s] => intent[s] = "terminal" \/ (~cancels[s] /\ ~active[s])
      BY <1>1 DEF Final, Placed, After, Handled
    <3> QED BY <2>4, <3>1, <3>2, <3>3 DEF SameWork, worker, files
  <2> QED BY <1>3, <2>5, <2>6, <2>7, <2>8, <2>9, StepFact DEF SameSegment
<1> QED BY <1>2, <1>3

-----------------------------------------------------------------------------
(* Types. *)

\* The records and the phases are what TypeOK says.
LEMMA TypedRecords ==
    /\ \A list \in Lists \cup {<<>>} : list \in Seq(Records)
    /\ {UnknownRecords, CandidateUnknownRecords, RejectedRecords, StoppedRecords} \subseteq Lists
    /\ ResultRecords("result") \in Lists /\ ResultRecords("failed") \in Lists
<1>1. \A p \in Phases : Write("phase", p) \in Records BY DEF Records, Write
<1>2. \A e \in Outcomes : Write("event", e) \in Records BY DEF Records, Write
<1>3. {"stopped", "exited", "not_started", "unknown"} \subseteq Phases BY DEF Phases, Terminal
<1>4. {"stopped", "result", "failed", "rejected", "unknown", "exited"} = Outcomes BY DEF Outcomes
<1>5. /\ \A a \in Records : <<a>> \in Seq(Records)
      /\ \A a, b \in Records : <<a, b>> \in Seq(Records)
      /\ \A a, b, d \in Records : <<a, b, d>> \in Seq(Records)
      /\ \A a, b, d, e \in Records : <<a, b, d, e>> \in Seq(Records)
  OBVIOUS
<1>6. \A list \in UnknownLists : list \in Seq(Records)
  <2>1. Write("phase", "unknown") \in Records /\ Write("event", "unknown") \in Records
    BY <1>1, <1>2, <1>3, <1>4
  <2> QED BY <1>5, <2>1 DEF UnknownLists, UnknownRecords, CandidateUnknownRecords, UnknownEvent, UnknownPhase
<1>7. \A list \in Rejections : list \in Seq(Records)
  <2>1. Write("phase", "not_started") \in Records /\ Write("event", "rejected") \in Records
    BY <1>1, <1>2, <1>3, <1>4
  <2> QED BY <1>5, <2>1 DEF Rejections, RejectedRecords, RejectedEvent
<1>8. /\ Write("phase", "exited") \in Records /\ Write("event", "exited") \in Records
      /\ Write("phase", "stopped") \in Records /\ Write("event", "stopped") \in Records
      /\ Write("event", "result") \in Records /\ Write("event", "failed") \in Records
  BY <1>1, <1>2, <1>3, <1>4
<1>9. \A list \in StopLists : list \in Seq(Records)
  <2>1. StoppedRecords \in Seq(Records) /\ StoppedEvent \in Seq(Records)
    BY <1>5, <1>8 DEF StoppedRecords, StoppedEvent
  <2>2. EndRecords \in Seq(Records) /\ LastRecord \in Seq(Records)
    BY <1>5, <1>8 DEF EndRecords, LastRecord
  <2> QED BY <2>1, <2>2 DEF StopLists
<1>10. \A list \in OwnRecords : list \in Seq(Records)
  BY <1>5, <1>8 DEF OwnRecords, ResultRecords
<1> QED BY <1>6, <1>7, <1>9, <1>10
        DEF Lists, UnknownLists, StopLists, Rejections, OwnRecords

\* Where a worker can be, and what a call remembers.
Places == {"idle", "prepared", "starting", "failjoin", "started",
           "registered", "abandoning", "waiting", "waited", "natural",
           "unproved", "confirmed", "proved", "finalizing", "joining",
           "recording", "unregister", "unclear", "uncancel", "clear",
           "fallback", "closing", "cleared", "done"}
Seen == [at : {"idle", "again", "looking", "read", "registered", "reread",
               "clearing", "joining", "done"},
         seen : Nat, terminal : BOOLEAN, cancel : BOOLEAN]

\* A worker only goes where it can be.
LEMMA TypedGo ==
    ASSUME TypeOK, NEW s \in Segments, NEW where \in Places, Go(s, where)
    PROVE  pc' \in [Segments -> Places]
<1>1. pc \in [Segments -> Places] BY DEF TypeOK, Places
<1> QED BY <1>1 DEF Go

\* A worker that begins to record stays well typed.
LEMMA TypedRecord ==
    ASSUME TypeOK, NEW s \in Segments, NEW records \in Lists,
           NEW status \in {"ok", "interrupted", "failed", "unknown"}, Record(s, records, status)
    PROVE  /\ pc' \in [Segments -> Places] /\ todo' \in [Segments -> Seq(Records)]
           /\ ret' \in [Segments -> {"none", "ok", "interrupted", "failed", "unknown"}]
           /\ waitErr' = waitErr
<1>1. pc' \in [Segments -> Places] BY TypedGo DEF Record, Places
<1>2. records \in Seq(Records) BY TypedRecords
<1> QED BY <1>1, <1>2 DEF Record, TypeOK

\* The next record, written or not.
LEMMA TypedNext ==
    ASSUME TypeOK, NEW s \in Segments, RecordNext(s) \/ CloseNext(s)
    PROVE  /\ todo' \in [Segments -> Seq(Records)] /\ launch' \in [Segments -> Phases]
           /\ log' \in [Segments -> Seq(Outcomes)]
<1>1. todo \in [Segments -> Seq(Records)] /\ launch \in [Segments -> Phases] /\ log \in [Segments -> Seq(Outcomes)]
  BY DEF TypeOK
<1>2. <<>> \in Seq(Records) /\ (todo[s] # <<>> => Tail(todo[s]) \in Seq(Records) /\ Head(todo[s]) \in Records)
  BY <1>1
<1>3. todo' = todo \/ todo' = [todo EXCEPT ![s] = <<>>]
      \/ (todo[s] # <<>> /\ todo' = [todo EXCEPT ![s] = Tail(todo[s])])
  <2>1. CASE RecordNext(s) BY <2>1 DEF RecordNext
  <2>2. CASE CloseNext(s) BY <2>2 DEF CloseNext
  <2> QED BY <2>1, <2>2
<1>4. todo' \in [Segments -> Seq(Records)] BY <1>1, <1>2, <1>3
<1>5. \/ UNCHANGED files
      \/ /\ todo[s] # <<>>
         /\ \/ Head(todo[s])[1] = "phase" /\ UNCHANGED log
               /\ launch' = [launch EXCEPT ![s] = Head(todo[s])[2]]
            \/ Head(todo[s])[1] # "phase" /\ UNCHANGED launch
               /\ log' = [log EXCEPT ![s] = Append(log[s], Head(todo[s])[2])]
  <2>1. UNCHANGED files \/ (todo[s] # <<>> /\ WriteNext(s))
    <3>1. CASE RecordNext(s) BY <3>1 DEF RecordNext
    <3>2. CASE CloseNext(s) BY <3>2 DEF CloseNext
    <3> QED BY <3>1, <3>2
  <2> QED BY <2>1 DEF WriteNext
<1>6. todo[s] # <<>> => /\ Head(todo[s])[1] = "phase" => Head(todo[s])[2] \in Phases
                        /\ Head(todo[s])[1] # "phase" => Head(todo[s])[2] \in Outcomes
  BY <1>2 DEF Records
<1>7. launch' \in [Segments -> Phases] BY <1>1, <1>5, <1>6 DEF files
<1>8. todo[s] # <<>> /\ Head(todo[s])[1] # "phase" => Append(log[s], Head(todo[s])[2]) \in Seq(Outcomes)
  BY <1>1, <1>6
<1>9. log' \in [Segments -> Seq(Outcomes)] BY <1>1, <1>5, <1>8 DEF files
<1> QED BY <1>4, <1>7, <1>9

\* bindStopLocked keeps the types of the registry.
LEMMA TypedBind ==
    ASSUME TypeOK, NEW s \in Segments, Bind(s)
    PROVE  /\ intent' \in [Segments -> {"none", "unbound", "bound", "terminal"}]
           /\ op' \in [Segments -> {"none"} \cup OpRunning \cup OpDone]
BY DEF Bind, TypeOK, OpRunning

\* clearStop keeps the types of the registry.
LEMMA TypedClear ==
    ASSUME TypeOK, NEW s \in Segments, ClearStop(s)
    PROVE  /\ intent' \in [Segments -> {"none", "unbound", "bound", "terminal"}]
           /\ requested' \in [Segments -> BOOLEAN] /\ retire' \in [Segments -> BOOLEAN]
           /\ generation' \in Nat
<1>1. /\ intent \in [Segments -> {"none", "unbound", "bound", "terminal"}]
      /\ requested \in [Segments -> BOOLEAN] /\ retire \in [Segments -> BOOLEAN]
      /\ generation \in Nat
  BY DEF TypeOK
<1>2. \/ UNCHANGED <<intent, requested, retire>>
      \/ retire' = [retire EXCEPT ![s] = TRUE] /\ UNCHANGED <<intent, requested>>
      \/ /\ intent' = [intent EXCEPT ![s] = "none"] /\ requested' = [requested EXCEPT ![s] = FALSE]
         /\ UNCHANGED retire
  BY DEF ClearStop
<1>3. generation' = generation \/ generation' = generation + (IF intent[s] = "terminal" THEN 1 ELSE 0)
  BY DEF ClearStop
<1>4. generation' \in Nat BY <1>1, <1>3
<1>5. /\ intent' \in [Segments -> {"none", "unbound", "bound", "terminal"}]
      /\ requested' \in [Segments -> BOOLEAN] /\ retire' \in [Segments -> BOOLEAN]
  BY <1>1, <1>2
<1> QED BY <1>4, <1>5

\* A worker's step keeps every variable well typed.
LEMMA TypesWork == ASSUME TypeOK, NEW s \in Segments, Enter(s) \/ WorkerStep(s) PROVE TypeOK'
<1> DEFINE Returns == {"none", "ok", "interrupted", "failed", "unknown"}
<1> DEFINE Intents == {"none", "unbound", "bound", "terminal"}
<1> DEFINE Operations == {"none"} \cup OpRunning \cup OpDone
<1> DEFINE Processes == {"none", "leader", "descendants", "gone"}
<1>0. MaxFaults \in Nat BY HostStopAssumption DEF HostStopParameters
<1>1. /\ pc \in [Segments -> Places] /\ todo \in [Segments -> Seq(Records)] /\ ret \in [Segments -> Returns]
      /\ intent \in [Segments -> Intents] /\ op \in [Segments -> Operations]
      /\ proc \in [Segments -> Processes] /\ launch \in [Segments -> Phases] /\ log \in [Segments -> Seq(Outcomes)]
      /\ generation \in Nat /\ faults \in 0..MaxFaults
  BY DEF TypeOK, Places
<1>2. /\ waitErr \in [Segments -> BOOLEAN] /\ ctx \in [Segments -> BOOLEAN]
      /\ cancels \in [Segments -> BOOLEAN] /\ active \in [Segments -> BOOLEAN]
      /\ requested \in [Segments -> BOOLEAN] /\ retire \in [Segments -> BOOLEAN]
      /\ natural \in [Segments -> BOOLEAN]
  BY DEF TypeOK
\* The variables a worker never touches keep their types.
<1>3. UNCHANGED <<waited, tail, call, stopping, early>>
  <2>1. CASE Enter(s) \/ Prelaunch(s) \/ Start(s) \/ FailedStartJoined(s) \/ RegisterOwnedHandle(s)
             \/ Announce(s) \/ AbandonJoined(s) \/ Wait(s) \/ StopForExecution(s)
    BY <2>1 DEF Enter, Fails, Prelaunch, Start, FailedStartJoined, RegisterOwnedHandle, Announce,
       AbandonJoined, Wait, StopForExecution, handle, registry
  <2>2. CASE ConfirmTreeExited(s) \/ StopAfterNaturalProof(s) \/ AfterProof(s) \/ Finalize(s)
             \/ StopJoined(s) \/ RecordNext(s) \/ Leave(s) \/ Fallback(s) \/ CloseNext(s) \/ Cleared(s)
    BY <2>2 DEF ConfirmTreeExited, StopAfterNaturalProof, AfterProof, Finalize, StopJoined, RecordNext,
       Leave, Fallback, CloseNext, Cleared, handle, registry
  <2> QED BY <2>1, <2>2 DEF WorkerStep
<1>21. lost' \in BOOLEAN
  <2>1. UNCHANGED lost \/ lost' \in BOOLEAN
    <3>1. CASE Cleared(s) BY <3>1 DEF Cleared
    <3>2. CASE Enter(s) \/ Prelaunch(s) \/ Start(s) \/ FailedStartJoined(s) \/ RegisterOwnedHandle(s)
               \/ Announce(s) \/ AbandonJoined(s) \/ Wait(s) \/ StopForExecution(s)
      BY <3>2 DEF Enter, Prelaunch, Start, FailedStartJoined, RegisterOwnedHandle, Announce,
         AbandonJoined, Wait, StopForExecution
    <3>3. CASE ConfirmTreeExited(s) \/ StopAfterNaturalProof(s) \/ AfterProof(s) \/ Finalize(s)
               \/ StopJoined(s) \/ RecordNext(s) \/ Leave(s) \/ Fallback(s) \/ CloseNext(s)
      BY <3>3 DEF ConfirmTreeExited, StopAfterNaturalProof, AfterProof, Finalize, StopJoined, RecordNext,
         Leave, Fallback, CloseNext
    <3> QED BY <3>1, <3>2, <3>3 DEF WorkerStep
  <2> QED BY <2>1 DEF TypeOK
<1>22. faults' \in 0..MaxFaults BY MonotoneFact DEF Next
<1>4. SUFFICES /\ pc' \in [Segments -> Places] /\ todo' \in [Segments -> Seq(Records)]
               /\ ret' \in [Segments -> Returns] /\ waitErr' \in [Segments -> BOOLEAN]
               /\ ctx' \in [Segments -> BOOLEAN] /\ cancels' \in [Segments -> BOOLEAN]
               /\ active' \in [Segments -> BOOLEAN] /\ proc' \in [Segments -> Processes]
               /\ intent' \in [Segments -> Intents] /\ requested' \in [Segments -> BOOLEAN]
               /\ op' \in [Segments -> Operations] /\ retire' \in [Segments -> BOOLEAN]
               /\ launch' \in [Segments -> Phases] /\ log' \in [Segments -> Seq(Outcomes)]
               /\ generation' \in Nat /\ natural' \in [Segments -> BOOLEAN]
  BY <1>3, <1>21, <1>22 DEF TypeOK, Places
<1>5. \A where \in Places : Go(s, where) => pc' \in [Segments -> Places] BY TypedGo
<1> USE DEF Places
<1>6. CASE Enter(s)
  <2>1. pc' \in [Segments -> Places] BY <1>5, <1>6 DEF Enter
  <2>2. launch' = launch \/ launch' = [launch EXCEPT ![s] = launch[s]]
        \/ launch' = [launch EXCEPT ![s] = "prepared"]
    BY <1>6 DEF Enter
  <2>3. launch' \in [Segments -> Phases] BY <1>1, <2>2 DEF Phases
  <2>4. ret' \in [Segments -> Returns]
    <3>1. ret' = ret \/ ret' = [ret EXCEPT ![s] = "failed"] \/ ret' = [ret EXCEPT ![s] = "unknown"]
      BY <1>6 DEF Enter
    <3> QED BY <1>1, <3>1
  <2>5. cancels' \in [Segments -> BOOLEAN]
    <3>1. cancels' = [cancels EXCEPT ![s] = TRUE] BY <1>6 DEF Enter
    <3> QED BY <1>2, <3>1
  <2>6. UNCHANGED <<todo, waitErr, ctx, active, handle, registry, log, natural>> BY <1>6 DEF Enter
  <2> QED BY <1>1, <1>2, <2>1, <2>3, <2>4, <2>5, <2>6 DEF handle, registry
<1>7. CASE Prelaunch(s)
  <2>1. /\ pc' \in [Segments -> Places] /\ todo' \in [Segments -> Seq(Records)]
        /\ ret' \in [Segments -> Returns] /\ waitErr' = waitErr
    <3>1. CASE Record(s, RejectedRecords, "failed") BY <3>1, TypedRecords, TypedRecord
    <3>2. CASE Record(s, CandidateUnknownRecords, "unknown") BY <3>2, TypedRecords, TypedRecord
    <3>3. CASE Go(s, "uncancel") /\ ret' = [ret EXCEPT ![s] = "failed"] /\ UNCHANGED <<todo, waitErr>>
      BY <1>1, <1>5, <3>3
    <3>4. CASE Go(s, "starting") /\ UNCHANGED <<todo, ret, waitErr>> BY <1>1, <1>5, <3>4
    <3>5. CASE Go(s, "uncancel") /\ ret' = [ret EXCEPT ![s] = "unknown"] /\ UNCHANGED <<todo, waitErr>>
      BY <1>1, <1>5, <3>5
    <3> QED BY <1>7, <3>1, <3>2, <3>3, <3>4, <3>5 DEF Prelaunch
  <2>2. launch' = launch \/ launch' = [launch EXCEPT ![s] = launch[s]]
        \/ launch' = [launch EXCEPT ![s] = "starting"]
    BY <1>7 DEF Prelaunch
  <2>3. launch' \in [Segments -> Phases] BY <1>1, <2>2 DEF Phases
  <2>4. UNCHANGED <<ctx, cancels, active, handle, registry, log, natural>> BY <1>7 DEF Prelaunch
  <2> QED BY <1>1, <1>2, <2>1, <2>3, <2>4 DEF handle, registry
<1>8. CASE Start(s)
  <2>1. /\ pc' \in [Segments -> Places] /\ todo' \in [Segments -> Seq(Records)]
        /\ ret' \in [Segments -> Returns] /\ waitErr' = waitErr
    <3>1. CASE Record(s, UnknownRecords, "unknown") BY <3>1, TypedRecords, TypedRecord
    <3>2. CASE (Go(s, "started") \/ Go(s, "failjoin")) /\ UNCHANGED <<todo, ret, waitErr>>
      BY <1>1, <1>5, <3>2
    <3> QED BY <1>8, <3>1, <3>2 DEF Start
  <2>2. proc' \in [Segments -> Processes] /\ op' \in [Segments -> Operations]
    BY <1>1, <1>8 DEF Start, OpRunning
  <2> QED BY <1>1, <1>2, <1>8, <2>1, <2>2 DEF Start, files
<1>9. CASE FailedStartJoined(s) \/ Finalize(s) \/ StopJoined(s)
  <2>1. \E records \in Lists, status \in Returns \ {"none"} : Record(s, records, status)
    BY <1>9, TypedRecords DEF FailedStartJoined, Finalize, StopJoined
  <2>2. /\ pc' \in [Segments -> Places] /\ todo' \in [Segments -> Seq(Records)]
        /\ ret' \in [Segments -> Returns] /\ waitErr' = waitErr
    BY <2>1, TypedRecord
  <2>3. UNCHANGED <<ctx, cancels, active, handle, registry, files, faults, natural>>
    BY <1>9 DEF FailedStartJoined, Finalize, StopJoined
  <2> QED BY <1>1, <1>2, <2>2, <2>3 DEF handle, registry, files
<1>10. CASE RegisterOwnedHandle(s)
  <2>1. intent' \in [Segments -> Intents] /\ op' \in [Segments -> Operations] /\ ctx' \in [Segments -> BOOLEAN]
    BY <1>1, <1>2, <1>10, TypedBind DEF RegisterOwnedHandle
  <2>2. pc' \in [Segments -> Places] BY <1>5, <1>10 DEF RegisterOwnedHandle
  <2> QED BY <1>1, <1>2, <1>10, <2>1, <2>2 DEF RegisterOwnedHandle, handle, files
<1>11. CASE Announce(s)
  <2>1. intent' \in [Segments -> Intents] /\ op' \in [Segments -> Operations]
    BY <1>1, <1>11, TypedBind DEF Announce
  <2>2. pc' \in [Segments -> Places] BY <1>5, <1>11 DEF Announce
  <2>3. launch' = [launch EXCEPT ![s] = launch[s]] \/ launch' = [launch EXCEPT ![s] = "running"]
    BY <1>11 DEF Announce
  <2>4. launch' \in [Segments -> Phases] BY <1>1, <2>3 DEF Phases
  <2> QED BY <1>1, <1>2, <1>11, <2>1, <2>2, <2>4 DEF Announce, handle
<1>12. CASE AbandonJoined(s) \/ Wait(s) \/ ConfirmTreeExited(s)
  <2>1. pc' \in [Segments -> Places] BY <1>5, <1>12 DEF AbandonJoined, Wait, ConfirmTreeExited
  <2>2. ret' \in [Segments -> Returns] BY <1>1, <1>12 DEF AbandonJoined, Wait, ConfirmTreeExited
  <2>3. waitErr' \in [Segments -> BOOLEAN] BY <1>2, <1>12 DEF AbandonJoined, Wait, ConfirmTreeExited
  <2>4. UNCHANGED <<todo, ctx, cancels, active, handle, registry, files, faults, natural>>
    BY <1>12 DEF AbandonJoined, Wait, ConfirmTreeExited
  <2> QED BY <1>1, <1>2, <2>1, <2>2, <2>3, <2>4 DEF handle, registry, files
<1>13. CASE StopForExecution(s)
  <2>1. intent' \in [Segments -> Intents] /\ op' \in [Segments -> Operations]
    BY <1>1, <1>13, TypedBind DEF StopForExecution
  <2>2. pc' \in [Segments -> Places] BY <1>5, <1>13 DEF StopForExecution
  <2> QED BY <1>1, <1>2, <1>13, <2>1, <2>2 DEF StopForExecution, handle, files
<1>14. CASE StopAfterNaturalProof(s)
  <2>1. intent' \in [Segments -> Intents] /\ op' \in [Segments -> Operations]
    BY <1>1, <1>14, TypedBind DEF StopAfterNaturalProof
  <2>2. /\ pc' \in [Segments -> Places] /\ todo' \in [Segments -> Seq(Records)]
        /\ ret' \in [Segments -> Returns] /\ waitErr' = waitErr
    <3>1. CASE Record(s, UnknownRecords, "unknown") BY <3>1, TypedRecords, TypedRecord
    <3>2. CASE (Go(s, "joining") \/ Go(s, "proved")) /\ UNCHANGED <<todo, ret, waitErr>>
      BY <1>1, <1>5, <3>2
    <3> QED BY <1>14, <3>1, <3>2 DEF StopAfterNaturalProof
  <2>3. generation' \in Nat /\ natural' \in [Segments -> BOOLEAN]
    <3>1. generation' \in {generation, generation + 1}
      BY <1>14 DEF StopAfterNaturalProof
    <3>2. natural' = natural \/ natural' = [natural EXCEPT ![s] = TRUE]
      BY <1>14 DEF StopAfterNaturalProof
    <3>3. natural' \in [Segments -> BOOLEAN] BY <1>2, <3>2
    <3>4. generation' \in Nat BY <1>1, <3>1
    <3> QED BY <3>3, <3>4
  <2> QED BY <1>1, <1>2, <1>14, <2>1, <2>2, <2>3 DEF StopAfterNaturalProof, handle, files
<1>15. CASE AfterProof(s)
  <2>1. intent' \in [Segments -> Intents] /\ op' \in [Segments -> Operations]
    BY <1>1, <1>15, TypedBind DEF AfterProof
  <2>2. /\ pc' \in [Segments -> Places] /\ todo' \in [Segments -> Seq(Records)]
        /\ ret' \in [Segments -> Returns] /\ waitErr' = waitErr
    <3>1. CASE Record(s, StoppedRecords, "interrupted") BY <3>1, TypedRecords, TypedRecord
    <3>2. CASE (Go(s, "joining") \/ Go(s, "finalizing")) /\ UNCHANGED <<todo, ret, waitErr>>
      BY <1>1, <1>5, <3>2
    <3> QED BY <1>15, <3>1, <3>2 DEF AfterProof
  <2> QED BY <1>1, <1>2, <1>15, <2>1, <2>2 DEF AfterProof, handle, files
<1>16. CASE RecordNext(s)
  <2>1. /\ todo' \in [Segments -> Seq(Records)] /\ launch' \in [Segments -> Phases]
        /\ log' \in [Segments -> Seq(Outcomes)]
    BY <1>16, TypedNext
  <2>2. pc' \in [Segments -> Places] BY <1>1, <1>5, <1>16 DEF RecordNext
  <2>3. ret' \in [Segments -> Returns] BY <1>1, <1>16 DEF RecordNext
  <2>4. UNCHANGED <<waitErr, ctx, cancels, active, handle, registry, natural>> BY <1>16 DEF RecordNext
  <2> QED BY <1>1, <1>2, <2>1, <2>2, <2>3, <2>4 DEF handle, registry
<1>17. CASE Leave(s)
  <2>1. /\ intent' \in [Segments -> Intents] /\ requested' \in [Segments -> BOOLEAN]
        /\ retire' \in [Segments -> BOOLEAN] /\ generation' \in Nat
    BY <1>1, <1>2, <1>17, TypedClear DEF Leave
  <2>2. pc' \in [Segments -> Places] BY <1>5, <1>17 DEF Leave
  <2>3. /\ ctx' \in [Segments -> BOOLEAN] /\ cancels' \in [Segments -> BOOLEAN]
        /\ active' \in [Segments -> BOOLEAN]
    BY <1>2, <1>17 DEF Leave
  <2> QED BY <1>1, <1>2, <1>17, <2>1, <2>2, <2>3 DEF Leave, handle, files
<1>18. CASE Fallback(s)
  <2>1. todo' \in [Segments -> Seq(Records)]
    BY <1>1, <1>18, TypedRecords DEF Fallback
  <2>2. pc' \in [Segments -> Places] BY <1>5, <1>18 DEF Fallback
  <2> QED BY <1>1, <1>2, <1>18, <2>1, <2>2 DEF Fallback, handle, registry, files
<1>19. CASE CloseNext(s)
  <2>1. /\ todo' \in [Segments -> Seq(Records)] /\ launch' \in [Segments -> Phases]
        /\ log' \in [Segments -> Seq(Outcomes)]
    BY <1>19, TypedNext
  <2>2. pc' \in [Segments -> Places] BY <1>1, <1>5, <1>19 DEF CloseNext
  <2>3. UNCHANGED <<ret, waitErr, ctx, cancels, active, handle, registry, natural>>
    BY <1>19 DEF CloseNext
  <2> QED BY <1>1, <1>2, <2>1, <2>2, <2>3 DEF handle, registry
<1>20. CASE Cleared(s)
  <2>1. /\ intent' \in [Segments -> Intents] /\ requested' \in [Segments -> BOOLEAN]
        /\ retire' \in [Segments -> BOOLEAN] /\ generation' \in Nat
    BY <1>20, TypedClear DEF Cleared
  <2>2. pc' \in [Segments -> Places] BY <1>5, <1>20 DEF Cleared
  <2> QED BY <1>1, <1>2, <1>20, <2>1, <2>2 DEF Cleared, handle, files
<1> QED BY <1>6, <1>7, <1>8, <1>9, <1>10, <1>11, <1>12, <1>13, <1>14, <1>15, <1>16, <1>17, <1>18,
           <1>19, <1>20 DEF WorkerStep

\* A call's step keeps every variable well typed.
LEMMA TypesCall == ASSUME TypeOK, NEW c \in Callers, CallStep(c) PROVE TypeOK'
<1> DEFINE Intents == {"none", "unbound", "bound", "terminal"}
<1> DEFINE Operations == {"none"} \cup OpRunning \cup OpDone
<1>1. Target[c] \in Segments BY HostStopAssumption DEF HostStopParameters
<1>2. /\ call \in [Callers -> Seen] /\ generation \in Nat /\ cancels \in [Segments -> BOOLEAN]
      /\ intent \in [Segments -> Intents] /\ op \in [Segments -> Operations]
      /\ ctx \in [Segments -> BOOLEAN] /\ requested \in [Segments -> BOOLEAN]
      /\ retire \in [Segments -> BOOLEAN] /\ early \in [Segments -> BOOLEAN]
  BY DEF TypeOK, Seen
<1>3. SUFFICES /\ call' \in [Callers -> Seen] /\ ctx' \in [Segments -> BOOLEAN] /\ intent' \in [Segments -> Intents]
               /\ op' \in [Segments -> Operations] /\ requested' \in [Segments -> BOOLEAN]
               /\ retire' \in [Segments -> BOOLEAN] /\ generation' \in Nat /\ early' \in [Segments -> BOOLEAN]
  <2>1. UNCHANGED <<worker, cancels, active, handle, tail, files, stopping, lost, faults, natural>>
    BY DEF CallStep, StopLookup, StopRead, StopRegister, StopCancel, StopReread, StopJoin, registry
  <2> QED BY <2>1 DEF TypeOK, Seen, worker, handle, files
<1>4. \A where \in {"again", "joining", "done", "reread", "clearing"} :
        CallGoes(c, where) => call' \in [Callers -> Seen]
  <2>1. \A where \in {"again", "joining", "done", "reread", "clearing"} :
          [call[c] EXCEPT !.at = where] \in Seen
    BY <1>2 DEF Seen
  <2> QED BY <1>2, <2>1 DEF CallGoes
<1>5. CASE StopLookup(c)
  <2>1. [call[c] EXCEPT !.at = "looking", !.seen = generation] \in Seen BY <1>2 DEF Seen
  <2>2. call' \in [Callers -> Seen] BY <1>2, <1>4, <1>5, <2>1 DEF StopLookup
  <2> QED BY <1>2, <1>5, <2>2 DEF StopLookup, registry
<1>6. CASE StopRead(c)
  <2>1. [call[c] EXCEPT !.at = "read", !.terminal = launch[Target[c]] \in Terminal] \in Seen
    <3>1. call[c] \in Seen /\ (launch[Target[c]] \in Terminal) \in BOOLEAN BY <1>2
    <3> QED BY <3>1 DEF Seen
  <2>2. call' \in [Callers -> Seen] BY <1>2, <1>6, <2>1 DEF StopRead
  <2> QED BY <1>2, <1>6, <2>2 DEF StopRead, registry
<1>7. CASE StopRegister(c)
  <2>1. call' \in [Callers -> Seen]
    <3>1. [call[c] EXCEPT !.at = "registered", !.cancel = cancels[Target[c]]] \in Seen
      <4>1. call[c] \in Seen /\ cancels[Target[c]] \in BOOLEAN BY <1>1, <1>2
      <4> QED BY <4>1 DEF Seen
    <3>2. \/ CallGoes(c, "again") \/ CallGoes(c, "done") \/ CallGoes(c, "joining")
          \/ call' = [call EXCEPT ![c].at = "registered", ![c].cancel = cancels[Target[c]]]
      BY <1>7 DEF StopRegister
    <3> QED BY <1>2, <1>4, <3>1, <3>2
  <2>2. intent' \in [Segments -> Intents] /\ op' \in [Segments -> Operations]
    BY <1>1, <1>2, <1>7, TypedBind DEF StopRegister
  <2>3. requested' \in [Segments -> BOOLEAN]
    BY <1>1, <1>2, <1>7 DEF StopRegister
  <2>4. early' \in [Segments -> BOOLEAN]
    BY <1>1, <1>2, <1>7 DEF StopRegister
  <2> QED BY <1>2, <1>7, <2>1, <2>2, <2>3, <2>4 DEF StopRegister
<1>8. CASE StopCancel(c)
  <2>1. call' \in [Callers -> Seen] BY <1>4, <1>8 DEF StopCancel
  <2>2. ctx' \in [Segments -> BOOLEAN]
    <3>1. call[c].cancel \in BOOLEAN BY <1>2 DEF Seen
    <3> QED BY <1>1, <1>2, <1>8, <3>1 DEF StopCancel
  <2> QED BY <1>2, <1>8, <2>1, <2>2 DEF StopCancel, registry
<1>9. CASE StopReread(c)
  <2>1. call' \in [Callers -> Seen] BY <1>4, <1>9 DEF StopReread
  <2>2. /\ intent' \in [Segments -> Intents] /\ requested' \in [Segments -> BOOLEAN]
        /\ retire' \in [Segments -> BOOLEAN] /\ generation' \in Nat
    BY <1>1, <1>2, <1>9, TypedClear DEF StopReread
  <2> QED BY <1>2, <1>9, <2>1, <2>2 DEF StopReread
<1>10. CASE StopJoin(c)
  <2>1. call' \in [Callers -> Seen] BY <1>4, <1>10 DEF StopJoin
  <2> QED BY <1>2, <1>10, <2>1 DEF StopJoin, registry
<1> QED BY <1>5, <1>6, <1>7, <1>8, <1>9, <1>10 DEF CallStep

\* Every step keeps every variable well typed.
LEMMA TypesStep == ASSUME TypeOK, Next PROVE TypeOK'
<1> DEFINE Operations == {"none"} \cup OpRunning \cup OpDone
<1>1. ASSUME NEW s \in Segments, OperationStep(s) PROVE TypeOK'
  <2>1. CASE StopBegin(s) \/ StopTerm(s) \/ StopConfirm(s)
    <3>1. PICK state \in Operations : StopStep(s, state)
      BY <2>1 DEF StopBegin, StopTerm, StopConfirm, OpRunning, OpDone
    <3>2. op' \in [Segments -> Operations] /\ tail' \in [Segments -> BOOLEAN]
      BY <3>1 DEF StopStep, TypeOK
    <3> QED BY <3>1, <3>2 DEF StopStep, TypeOK, worker, handle, files
  <2>2. CASE StopRetire(s) BY <2>2 DEF StopRetire, TypeOK, worker, handle, files
  <2> QED BY <1>1, <2>1, <2>2 DEF OperationStep
<1>2. ASSUME NEW s \in Segments, ProcessStep(s) PROVE TypeOK'
  <2>1. proc' \in [Segments -> {"none", "leader", "descendants", "gone"}] /\ waited' \in [Segments -> BOOLEAN]
    <3>1. proc \in [Segments -> {"none", "leader", "descendants", "gone"}] /\ waited \in [Segments -> BOOLEAN]
      BY DEF TypeOK
    <3>2. \/ \E left \in {"descendants", "gone"} : proc' = [proc EXCEPT ![s] = left] /\ waited' = waited
          \/ waited' = [waited EXCEPT ![s] = TRUE] /\ proc' = proc
      BY <1>2 DEF ProcessStep, LeaderExits, DescendantsExit, Reaped
    <3> QED BY <3>1, <3>2
  <2>2. UNCHANGED <<worker, ctx, cancels, active, registry, files, call, stopping, lost, faults, early, natural>>
    BY <1>2 DEF ProcessStep, LeaderExits, DescendantsExit, Reaped
  <2> QED BY <2>1, <2>2 DEF TypeOK, worker, registry, files
<1>3. CASE SourceCancelled BY <1>3 DEF SourceCancelled, TypeOK, worker, handle, registry, files
<1>4. CASE BeginStopAll
  <2>1. /\ intent' \in [Segments -> {"none", "unbound", "bound", "terminal"}]
        /\ op' \in [Segments -> Operations]
    BY <1>4 DEF BeginStopAll, TypeOK, OpRunning
  <2>2. /\ requested' \in [Segments -> BOOLEAN] /\ early' \in [Segments -> BOOLEAN] /\ stopping' \in BOOLEAN
    BY <1>4 DEF BeginStopAll, TypeOK
  <2> QED BY <1>4, <2>1, <2>2 DEF BeginStopAll, TypeOK, worker, handle, files
<1> QED BY <1>1, <1>2, <1>3, <1>4, TypesWork, TypesCall DEF Next

-----------------------------------------------------------------------------
(* The theorems. *)

\* The invariant holds initially.
LEMMA StopStart == ASSUME Init PROVE StopInv
<1>1. TypeOK
  <2>1. <<>> \in Seq(Records) /\ <<>> \in Seq(Outcomes) OBVIOUS
  <2>2. MaxFaults \in Nat BY HostStopAssumption DEF HostStopParameters
  <2>3. /\ log \in [Segments -> Seq(Outcomes)] /\ todo \in [Segments -> Seq(Records)]
        /\ launch \in [Segments -> Phases]
    BY <2>1 DEF Init, Phases
  <2>4. call \in [Callers -> [at : {"idle", "again", "looking", "read", "registered", "reread",
                                    "clearing", "joining", "done"},
                              seen : Nat, terminal : BOOLEAN, cancel : BOOLEAN]]
    BY DEF Init
  <2>5. faults \in 0..MaxFaults /\ generation \in Nat BY <2>2 DEF Init
  <2> QED BY <2>3, <2>4, <2>5 DEF Init, TypeOK
<1>2. ASSUME NEW s \in Segments PROVE Placed(s) /\ Recorded(s) /\ Truth(s) /\ Governed(s)
  <2>1. Logged(s) = {} BY DEF Init, Logged, ToSet
  <2>2. todo[s] = <<>> /\ log[s] = <<>> BY DEF Init
  <2> QED BY <2>1, <2>2, KindsFact DEF Init, Placed, Recorded, Truth, Governed, Before, Early, Unstarted, Handled,
          Ending, Deferred, After, Underway, Rejections
<1>3. ASSUME NEW s \in Segments PROVE Registered(s) /\ Final(s)
  BY DEF Init, Registered, Final, Ending, Deferred, After, Unstarted
<1>4. ASSUME NEW c \in Callers PROVE Called(c)
  BY DEF Init, Called
<1> QED BY <1>1, <1>2, <1>3, <1>4 DEF StopInv

\* Every step keeps the invariant.
LEMMA StopInductive == ASSUME StopInv, [Next]_vars PROVE StopInv'
<1>1. CASE Next
  <2>1. TypeOK' BY <1>1, TypesStep DEF StopInv
  <2>2. ASSUME NEW s \in Segments
        PROVE  Placed(s)' /\ Recorded(s)' /\ Truth(s)' /\ Governed(s)' /\ Registered(s)' /\ Final(s)'
    BY <1>1, PlacedStep, RecordedStep, TruthStep, GovernedStep, RegisteredStep, FinalStep
  <2>3. ASSUME NEW c \in Callers PROVE Called(c)'
    BY <1>1, CalledStep
  <2> QED BY <2>1, <2>2, <2>3 DEF StopInv
<1>2. CASE UNCHANGED vars
  <2>1. UNCHANGED <<pc, todo, ret, waitErr, ctx, cancels, active, proc, waited, intent, requested, op,
                    tail, retire, generation, launch, log, call, stopping, lost, faults, early, natural>>
    BY <1>2 DEF vars, worker, handle, registry, files
  <2>2. TypeOK' BY <2>1 DEF StopInv, TypeOK
  <2>3. ASSUME NEW s \in Segments
        PROVE  Placed(s)' /\ Recorded(s)' /\ Truth(s)' /\ Governed(s)'
    <3>1. Recorded(s)' BY <2>1, RecordedKept DEF StopInv, SameWork
    <3> QED BY <2>1, <3>1 DEF StopInv, Placed, Truth, Governed, Logged
  <2>4. ASSUME NEW s \in Segments PROVE Registered(s)' /\ Final(s)'
    <3>1. Owed(s) => Owed(s)' BY <2>1, OwedKept
    <3> QED BY <2>1, <3>1 DEF StopInv, Registered, Final
  <2>5. ASSUME NEW c \in Callers PROVE Called(c)' BY <2>1 DEF StopInv, Called
  <2> QED BY <2>2, <2>3, <2>4, <2>5 DEF StopInv
<1> QED BY <1>1, <1>2

\* The invariant, for every number of segments, calls and failed writes.
THEOREM StopInvariant == Spec => []StopInv
<1>1. Init => StopInv BY StopStart
<1>2. StopInv /\ [Next]_vars => StopInv' BY StopInductive
<1> QED BY <1>1, <1>2, PTL DEF Spec

\* The invariant proves every recorded exit and rejection.
LEMMA ExitFact == ASSUME StopInv PROVE ExitProved
BY DEF StopInv, Truth, ExitProved

\* The invariant lets an early stop govern the outcome.
LEMMA GovernsFact == ASSUME StopInv PROVE StopGoverns
BY DEF StopInv, Governed, StopGoverns

\* The invariant closes the log of a worker that is done once, or the caller's
\* own closing record failed.
LEMMA OneOutcomeFact == ASSUME StopInv PROVE OneOutcome
<1> SUFFICES ASSUME NEW s \in Segments, pc[s] = "done"
             PROVE  /\ \A i \in DOMAIN log[s] : log[s][i] \in Closing => i = Len(log[s])
                    /\ (Logged(s) \cap Closing = {} \/ todo[s] # <<>>) =>
                         todo[s] # <<>> /\ ret[s] \in {"failed", "unknown"} /\ lost
                    /\ "exited" \in Logged(s) => launch[s] = "exited"
                    /\ "rejected" \in Logged(s) => launch[s] = "not_started"
                    /\ "unknown" \in Logged(s) => launch[s] \notin {"exited", "not_started"}
  BY DEF OneOutcome
<1>1. ((todo[s] = <<>> /\ Settled(s)) \/ Stranded(s)) /\ (todo[s] = <<>> \/ lost)
  BY DEF StopInv, Recorded
<1>2. (Logged(s) \cap Closing = {} \/ todo[s] # <<>>) =>
        todo[s] # <<>> /\ ret[s] \in {"failed", "unknown"} /\ lost
  BY <1>1, ClosingFact, RecordsFact DEF Stranded
<1>3. CASE log[s] \in OpenLogs
  <2>1. Logged(s) \cap Closing = {} BY <1>3, ClosingFact
  <2>2. \A i \in DOMAIN log[s] : log[s][i] \in Logged(s)
    BY DEF Logged, ToSet
  <2> QED BY <1>2, <2>1, <2>2 DEF Closing
<1>4. CASE Settled(s)
  <2>1. PICK l \in OpenLogs, kind \in Closing : log[s] = Append(l, kind) /\ Agrees(kind, launch[s])
    BY <1>4 DEF Settled
  <2>2. \A i \in DOMAIN log[s] : log[s][i] \in Closing => i = Len(log[s]) BY <2>1, LogsFact
  <2>3. Logged(s) \cap Closing = {kind}
    <3>1. Logged(s) = ToSet(l) \cup {kind} /\ ToSet(l) \subseteq {"stopped", "result", "failed"}
      BY <2>1, LogsFact DEF Logged
    <3> QED BY <3>1, <2>1 DEF Closing
  <2>4. "exited" \in Closing /\ "rejected" \in Closing /\ "unknown" \in Closing BY DEF Closing
  <2> QED BY <1>2, <2>1, <2>2, <2>3, <2>4 DEF Agrees
<1> QED BY <1>1, <1>3, <1>4 DEF Stranded

\* The invariant leaves nothing in the registry when all have ended.
LEMMA ReleasedFact == ASSUME StopInv PROVE RegistryReleased
<1> SUFFICES ASSUME NEW s \in Segments,
                    pc[s] = "done", launch[s] \in Terminal, ~tail[s], op[s] \notin OpRunning,
                    \A c \in Callers : Target[c] = s => call[c].at \in {"idle", "done"}
             PROVE  intent[s] = "none" /\ ~requested[s]
  BY DEF RegistryReleased
<1>1. Registered(s) /\ TypeOK BY DEF StopInv
<1>2. ~Owed(s) BY DEF Owed
<1>3. intent[s] \in {"none", "unbound", "bound", "terminal"} BY <1>1 DEF TypeOK
<1> QED BY <1>1, <1>2, <1>3 DEF Registered, After, Deferred

\* HostStop!OutcomeSound: what the host records of a launch is true, single and
\* governed by an earlier stop, and the registry keeps nothing of it.
THEOREM OutcomeStaysSound == Spec => []OutcomeSound
<1>1. StopInv => OutcomeSound
  BY ExitFact, GovernsFact, OneOutcomeFact, ReleasedFact DEF OutcomeSound, StopInv
<1> QED BY <1>1, StopInvariant, PTL

\* HostStop!NaturalFailureFinal: no stop is registered after a failed natural
\* observation was selected, while the registry holds it or on a stale read.
THEOREM NaturalFailureStaysFinal == Spec => NaturalFailureFinal
<1>1. StopInv /\ [Next]_vars =>
        [\A s \in Segments : natural[s] /\ ~requested[s] /\ faults = 0 => ~requested'[s]]_vars
  BY FinalStep
<1> QED BY <1>1, StopInvariant, PTL DEF Spec, NaturalFailureFinal
=============================================================================
