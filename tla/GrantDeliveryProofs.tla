------------------------ MODULE GrantDeliveryProofs ------------------------
(***************************************************************************)
(* Proofs about GrantDelivery, for every finite set of segments and every  *)
(* bound on breaks, crashes and restarts: a grant is executed at most once *)
(* and the coordinator's conclusions are the host's (GrantSound).          *)
(*                                                                         *)
(* A segment has three records that may lag behind one another: the grant  *)
(* and its status at the coordinator, the ledger and the worker of the     *)
(* host, and what is still in the spool.  The invariant says how far each  *)
(* can be ahead: the ledger behind the grant, the worker behind the        *)
(* ledger, and the spool ending with what the host recorded last, so that  *)
(* a rejection still in it finds the segment as Claim, the stops and the   *)
(* events before it left it.                                               *)
(***************************************************************************)
EXTENDS GrantDelivery, SequenceTheorems, FiniteSetTheorems, TLAPS

\* A launch is on its way, or accepted, only for a segment that was granted.
GrantedFirst ==
    /\ \A s \in unsent \cup ledger : seg[s] # "none"
    /\ \A i \in DOMAIN wire : wire[i][1] = "launch" => seg[wire[i][2]] # "none"

\* What the worker of a segment has done agrees with what the host recorded,
\* and only a segment in the ledger has a worker or a record.
WorkerAgrees ==
    \A s \in Segments :
        /\ s \notin ledger => worker[s] = "none" /\ out[s] = "none" /\ starts[s] = 0
        /\ worker[s] = "accepted" => out[s] = "none" /\ starts[s] = 0
        /\ worker[s] = "prepared" => out[s] = "prepared" /\ starts[s] = 0
        /\ worker[s] = "started" => out[s] = "prepared"
        /\ worker[s] = "running" => out[s] = "running"
        /\ out[s] = "rejected" => starts[s] = 0
        /\ starts[s] <= 1

\* An event in the spool is among the last the host recorded of its segment; a
\* closing one is the last.
SpoolAgrees ==
    \A i \in DOMAIN spool :
        LET s == spool[i][1]
            kind == spool[i][2]
        IN  /\ kind = "prepared" => out[s] # "none"
            /\ kind = "running" => out[s] \notin {"none", "prepared", "rejected"}
            /\ kind \in Closed => /\ out[s] = kind
                                  /\ \A j \in DOMAIN spool : j > i => spool[j][1] # s

\* The coordinator closes a segment after the last event of it.
ClosedLast ==
    /\ ClosedByHost
    /\ \A i \in DOMAIN spool : seg[spool[i][1]] \notin {"exited", "not_started"}

\* Until the host has recorded a start or an end, only a stop takes the segment
\* away from the status in which its rejection is accepted.
Acceptable ==
    \A s \in Segments :
        out[s] \in {"none", "prepared", "rejected"} =>
            \/ seg[s] = "none"
            \/ RejectionProved(s)
            \/ stop[s] = "unknown"
            \/ out[s] = "rejected" /\ seg[s] = "not_started"

\* The inductive invariant.
GrantInv ==
    TypeOK /\ GrantedFirst /\ WorkerAgrees /\ SpoolAgrees /\ ClosedLast /\ Acceptable
-----------------------------------------------------------------------------
(* The operators of the model.                                             *)

(* Appending to a sequence keeps its elements and adds one at the end.     *)
LEMMA AppendFact ==
    ASSUME NEW S, NEW q \in Seq(S), NEW x \in S
    PROVE  /\ Append(q, x) \in Seq(S)
           /\ DOMAIN q = 1 .. Len(q) /\ DOMAIN Append(q, x) = 1 .. Len(q) + 1
           /\ \A i \in 1 .. Len(q) : Append(q, x)[i] = q[i]
           /\ Append(q, x)[Len(q) + 1] = x
BY AppendProperties

(* The tail of a sequence has its elements, one place further on.          *)
LEMMA TailFact ==
    ASSUME NEW S, NEW q \in Seq(S), q # <<>>
    PROVE  /\ Tail(q) \in Seq(S) /\ Head(q) = q[1] /\ 1 \in DOMAIN q
           /\ \A i \in DOMAIN Tail(q) : i + 1 \in DOMAIN q /\ i \in Nat /\ Tail(q)[i] = q[i + 1]
BY HeadTailProperties

(* SetToSeq lists the elements of a finite set.                            *)
LEMMA SetToSeqFact ==
    ASSUME NEW S, IsFiniteSet(S)
    PROVE  SetToSeq(S) \in Seq(S)
<1>1. PICK n \in Nat : ExistsBijection(1 .. n, S) BY FS_NatBijection
<1>2. Cardinality(S) = n BY <1>1, FS_CountingElements
<1>3. PICK f : f \in Bijection(1 .. n, S) BY <1>1 DEF ExistsBijection
<1>4. f \in [1 .. n -> S] /\ IsInjective(f)
  BY <1>3 DEF Bijection, Injection, IsInjective
<1>5. SetToSeq(S) \in [1 .. n -> S] BY <1>2, <1>4 DEF SetToSeq
<1> QED BY <1>5

(* The commands are finitely many.                                         *)
LEMMA CommandsFinite == \A C \in SUBSET Commands : IsFiniteSet(C)
<1>1. IsFiniteSet({"launch", "stop"}) /\ IsFiniteSet(Segments)
  <2>1. IsFiniteSet({"launch"}) BY FS_Singleton
  <2>2. IsFiniteSet({"launch"} \cup {"stop"}) BY <2>1, FS_AddElement
  <2>3. {"launch", "stop"} = {"launch"} \cup {"stop"} OBVIOUS
  <2> QED BY <2>2, <2>3, GrantAssumption DEF GrantDeliveryParameters
<1>2. IsFiniteSet(Commands) BY <1>1, FS_Product DEF Commands
<1> QED BY <1>2, FS_Subset

(* What FinishReconcile puts on the wire behind the commands that are on   *)
(* it are commands, and the launches among them are of segments that are   *)
(* still in launch_requested.                                              *)
LEMMA ResentFact ==
    ASSUME TypeOK, FinishReconcile
    PROVE  /\ wire' \in Seq(Commands)
           /\ \A i \in DOMAIN wire' :
                 \/ \E j \in DOMAIN wire : wire'[i] = wire[j]
                 \/ wire'[i][1] # "launch"
                 \/ seg[wire'[i][2]] = "launch_requested"
<1> DEFINE C == {c \in Commands : c[1] = "stop" /\ stop[c[2]] = "pending" /\ c \notin ToSet(wire)}
           D == {c \in Commands : c[1] = "launch" /\ seg[c[2]] \in Resendable}
           p == SetToSeq(C)
           q == SetToSeq(D)
<1>1. IsFiniteSet(C) /\ IsFiniteSet(D) BY CommandsFinite
<1>2. p \in Seq(C) /\ q \in Seq(D) BY <1>1, SetToSeqFact
<1>3. wire' = wire \o p \o q BY DEF FinishReconcile
<1>4. C \subseteq Commands /\ D \subseteq Commands OBVIOUS
<1>5. /\ \A c \in C : c[1] # "launch"
      /\ \A c \in D : seg[c[2]] = "launch_requested"
  BY DEF Resendable
<1> HIDE DEF C, D, p, q
<1>6. wire \in Seq(Commands) /\ p \in Seq(Commands) /\ q \in Seq(Commands) BY <1>2, <1>4 DEF TypeOK
<1>7. wire \o p \in Seq(Commands) BY <1>6, ConcatProperties
<1>8. wire \o p \o q \in Seq(Commands) BY <1>6, <1>7, ConcatProperties
<1>9. ASSUME NEW i \in DOMAIN (wire \o p \o q)
      PROVE  \/ \E j \in DOMAIN wire : (wire \o p \o q)[i] = wire[j]
             \/ (wire \o p \o q)[i][1] # "launch"
             \/ seg[(wire \o p \o q)[i][2]] = "launch_requested"
  <2>1. /\ Len(wire \o p) = Len(wire) + Len(p)
        /\ \A k \in 1 .. Len(wire) + Len(p) :
              (wire \o p)[k] = IF k <= Len(wire) THEN wire[k] ELSE p[k - Len(wire)]
    BY <1>6, ConcatProperties
  <2>2. /\ Len(wire \o p \o q) = Len(wire \o p) + Len(q)
        /\ \A k \in 1 .. Len(wire \o p) + Len(q) :
              (wire \o p \o q)[k] = IF k <= Len(wire \o p) THEN (wire \o p)[k]
                                    ELSE q[k - Len(wire \o p)]
    BY <1>6, <1>7, ConcatProperties
  <2>3. Len(wire) \in Nat /\ Len(p) \in Nat /\ Len(q) \in Nat BY <1>6
  <2>4. i \in 1 .. Len(wire) + Len(p) + Len(q) BY <1>8, <1>9, <2>1, <2>2, <2>3
  <2>5. CASE i <= Len(wire)
    <3>1. i \in DOMAIN wire /\ (wire \o p \o q)[i] = wire[i]
      BY <1>6, <2>1, <2>2, <2>3, <2>4, <2>5
    <3> QED BY <3>1
  <2>6. CASE i > Len(wire) /\ i <= Len(wire) + Len(p)
    <3>1. i - Len(wire) \in 1 .. Len(p) /\ (wire \o p \o q)[i] = p[i - Len(wire)]
      BY <2>1, <2>2, <2>3, <2>4, <2>6
    <3>2. p[i - Len(wire)] \in C BY <1>2, <3>1
    <3> QED BY <1>5, <3>1, <3>2
  <2>7. CASE i > Len(wire) + Len(p)
    <3>1. /\ i - Len(wire \o p) \in 1 .. Len(q)
          /\ (wire \o p \o q)[i] = q[i - Len(wire \o p)]
      BY <2>1, <2>2, <2>3, <2>4, <2>7
    <3>2. q[i - Len(wire \o p)] \in D BY <1>2, <3>1
    <3> QED BY <1>5, <3>1, <3>2
  <2> QED BY <2>3, <2>4, <2>5, <2>6, <2>7
<1> QED BY <1>3, <1>8, <1>9
-----------------------------------------------------------------------------
(* Types.                                                                  *)

(* Recording an event appends it to the spool.                             *)
LEMMA ReportFact ==
    ASSUME spool \in Seq(Segments \X Kinds), out \in [Segments -> {"none"} \cup Kinds],
           NEW s \in Segments, NEW kind \in Kinds, Report(s, kind)
    PROVE  /\ spool' \in Seq(Segments \X Kinds) /\ out' \in [Segments -> {"none"} \cup Kinds]
           /\ DOMAIN spool = 1 .. Len(spool) /\ DOMAIN spool' = 1 .. Len(spool) + 1
           /\ Len(spool) \in Nat
           /\ \A i \in 1 .. Len(spool) : spool'[i] = spool[i]
           /\ spool'[Len(spool) + 1][1] = s /\ spool'[Len(spool) + 1][2] = kind
           /\ out'[s] = kind /\ \A r \in Segments \ {s} : out'[r] = out[r]
<1>1. <<s, kind>> \in Segments \X Kinds OBVIOUS
<1>2. spool' = Append(spool, <<s, kind>>) /\ out' = [out EXCEPT ![s] = kind] BY DEF Report
<1>3. /\ spool' \in Seq(Segments \X Kinds)
      /\ DOMAIN spool = 1 .. Len(spool) /\ DOMAIN spool' = 1 .. Len(spool) + 1
      /\ \A i \in 1 .. Len(spool) : spool'[i] = spool[i]
      /\ spool'[Len(spool) + 1] = <<s, kind>>
  BY <1>1, <1>2, AppendFact
<1>4. Len(spool) \in Nat OBVIOUS
<1> QED BY <1>2, <1>3, <1>4

(* What is taken from the wire leaves the rest of it.                      *)
LEMMA WireTail ==
    ASSUME TypeOK, wire # <<>>, wire' = Tail(wire)
    PROVE  /\ wire' \in Seq(Commands)
           /\ \A i \in DOMAIN wire' : \E j \in DOMAIN wire : wire'[i] = wire[j]
<1>1. wire \in Seq(Commands) BY DEF TypeOK
<1> QED BY <1>1, TailFact

(* What is put on the wire is behind the rest of it.                       *)
LEMMA WireAppend ==
    ASSUME TypeOK, NEW c \in Commands, wire' = Append(wire, c)
    PROVE  /\ wire' \in Seq(Commands)
           /\ \A i \in DOMAIN wire' : wire'[i] = c \/ \E j \in DOMAIN wire : wire'[i] = wire[j]
<1>1. wire \in Seq(Commands) BY DEF TypeOK
<1>2. /\ wire' \in Seq(Commands)
      /\ DOMAIN wire = 1 .. Len(wire) /\ DOMAIN wire' = 1 .. Len(wire) + 1
      /\ \A i \in 1 .. Len(wire) : wire'[i] = wire[i]
      /\ wire'[Len(wire) + 1] = c
  BY <1>1, AppendFact
<1>3. Len(wire) \in Nat BY <1>1
<1> QED BY <1>2, <1>3

(* The head of the spool, and what is left of it.                          *)
LEMMA CommitFact ==
    ASSUME TypeOK, Commit
    PROVE  \E s \in Segments, kind \in Kinds :
             /\ 1 \in DOMAIN spool /\ spool[1][1] = s /\ spool[1][2] = kind
             /\ spool' \in Seq(Segments \X Kinds)
             /\ \A i \in DOMAIN spool' :
                   i \in Nat /\ i \geq 1 /\ i + 1 \in DOMAIN spool /\ spool'[i] = spool[i + 1]
             /\ kind = "rejected" => RejectionProved(s)
             /\ \/ /\ kind = "prepared" /\ UNCHANGED stop
                   /\ seg' = [seg EXCEPT ![s] = IF @ = "launch_requested" THEN "prepared" ELSE @]
                \/ /\ kind = "running" /\ UNCHANGED stop
                   /\ seg' = [seg EXCEPT ![s] = IF @ \in {"launch_requested", "prepared"}
                                                THEN "running" ELSE @]
                \/ /\ kind = "exited" /\ stop' = Completed(s)
                   /\ seg' = [seg EXCEPT ![s] = "exited"]
                \/ /\ kind = "rejected" /\ stop' = Completed(s)
                   /\ seg' = [seg EXCEPT ![s] = "not_started"]
                \/ /\ kind = "unknown"
                   /\ stop' = [stop EXCEPT ![s] = IF @ = "pending" THEN "unknown" ELSE @]
                   /\ seg' = [seg EXCEPT ![s] = "unknown"]
<1>1. spool \in Seq(Segments \X Kinds) /\ spool # <<>> /\ spool' = Tail(spool)
  BY DEF TypeOK, Commit
<1>2. /\ spool' \in Seq(Segments \X Kinds) /\ Head(spool) = spool[1] /\ 1 \in DOMAIN spool
      /\ \A i \in DOMAIN spool' : i + 1 \in DOMAIN spool /\ i \in Nat /\ spool'[i] = spool[i + 1]
  BY <1>1, TailFact
<1>3. \A i \in DOMAIN spool' : i \geq 1 BY <1>2
<1>4. spool[1] \in Segments \X Kinds BY <1>1, <1>2
<1>5. PICK s \in Segments, kind \in Kinds : spool[1] = <<s, kind>> BY <1>4
<1>6. Head(spool)[1] = s /\ Head(spool)[2] = kind BY <1>2, <1>5
<1> QED BY <1>2, <1>3, <1>5, <1>6 DEF Commit

(* Every variable keeps its type.                                          *)
LEMMA TypeStep == ASSUME TypeOK, WorkerAgrees, [Next]_vars PROVE TypeOK'
<1> USE DEF coordinator, channel, memory, disk, counts
<1>1. ASSUME NEW s \in Segments,
             Claim(s) \/ RequestStop(s)
      PROVE TypeOK'
  BY <1>1 DEF Claim, RequestStop, TypeOK, Active
<1>2. ASSUME NEW s \in Segments, SendLaunch(s) \/ SendStop(s) PROVE TypeOK'
  <2>1. <<"launch", s>> \in Commands /\ <<"stop", s>> \in Commands BY DEF Commands
  <2>2. wire' \in Seq(Commands) BY <1>2, <2>1, WireAppend DEF SendLaunch, SendStop
  <2> QED BY <1>2, <2>2 DEF SendLaunch, SendStop, TypeOK
<1>3. CASE Break \/ CoordinatorRestart \/ HostCrash
  <2>1. wire' = <<>> /\ unsent' = {} /\ link' = "down"
    BY <1>3 DEF Break, CoordinatorRestart, HostCrash, Lost
  <2>2. hostRow' \in {"ready", "reconciling", "offline"}
    BY <1>3 DEF Break, CoordinatorRestart, HostCrash, MarkHostOffline, TypeOK
  <2>3. /\ breaks' \in 0..MaxBreaks /\ crashes' \in 0..MaxCrashes
        /\ restarts' \in 0..MaxRestarts
    BY <1>3, GrantAssumption
    DEF Break, CoordinatorRestart, HostCrash, TypeOK, GrantDeliveryParameters
  <2>4. /\ process' \in {"registered", "other", "none"} /\ intent' \in SUBSET Segments
        /\ worker' \in [Segments -> Workers]
    BY <1>3 DEF Break, CoordinatorRestart, HostCrash, TypeOK, Workers
  <2>5. UNCHANGED <<seg, stop, ledger, spool, out, starts>>
    BY <1>3 DEF Break, CoordinatorRestart, HostCrash
  <2> QED BY <2>1, <2>2, <2>3, <2>4, <2>5 DEF TypeOK
<1>4. CASE Connect \/ HostStart
  BY <1>4 DEF Connect, HostStart, TypeOK
<1>5. CASE FinishReconcile
  <2>1. wire' \in Seq(Commands) BY <1>5, ResentFact
  <2> QED BY <1>5, <2>1 DEF FinishReconcile, TypeOK
<1>6. ASSUME NEW s \in Segments, ReceiveLaunch(s) PROVE TypeOK'
  <2>1. wire' \in Seq(Commands) BY <1>6, WireTail DEF ReceiveLaunch
  <2>2. CASE UNCHANGED <<spool, out>>
    BY <1>6, <2>1, <2>2 DEF ReceiveLaunch, TypeOK, Workers
  <2>3. CASE Report(s, "unknown") /\ UNCHANGED <<ledger, worker>>
    <3>1. spool' \in Seq(Segments \X Kinds) /\ out' \in [Segments -> {"none"} \cup Kinds]
      BY <2>3, ReportFact DEF TypeOK, Kinds
    <3> QED BY <1>6, <2>1, <2>3, <3>1 DEF ReceiveLaunch, TypeOK
  <2> QED BY <1>6, <2>2, <2>3 DEF ReceiveLaunch
<1>7. ASSUME NEW s \in Segments, ReceiveStop(s) PROVE TypeOK'
  <2>1. wire' \in Seq(Commands) BY <1>7, WireTail DEF ReceiveStop
  <2> QED BY <1>7, <2>1 DEF ReceiveStop, TypeOK
<1>8. ASSUME NEW s \in Segments, NEW kind \in Kinds, Report(s, kind),
             worker' \in [Segments -> Workers], intent' \in SUBSET Segments,
             UNCHANGED <<coordinator, channel, process, ledger, starts, counts>>
      PROVE TypeOK'
  <2>1. spool' \in Seq(Segments \X Kinds) /\ out' \in [Segments -> {"none"} \cup Kinds]
    BY <1>8, ReportFact DEF TypeOK
  <2> QED BY <1>8, <2>1 DEF TypeOK
<1>9. ASSUME NEW s \in Segments,
             Prepare(s) \/ Reject(s) \/ ReportRunning(s) \/ End(s) \/ LeaveUnknown(s)
      PROVE TypeOK'
  <2>1. \E kind \in Kinds : Report(s, kind)
    BY <1>9 DEF Prepare, Reject, ReportRunning, End, LeaveUnknown, Close, Kinds
  <2>2. /\ worker' \in [Segments -> Workers] /\ intent' \in SUBSET Segments
        /\ UNCHANGED <<coordinator, channel, process, ledger, starts, counts>>
    BY <1>9 DEF Prepare, Reject, ReportRunning, End, LeaveUnknown, Close, TypeOK, Workers
  <2> QED BY <1>8, <2>1, <2>2
<1>10. ASSUME NEW s \in Segments, Start(s) PROVE TypeOK'
  BY <1>10 DEF Start, TypeOK, Workers
<1>11. CASE Commit
  <2>1. spool' \in Seq(Segments \X Kinds) BY <1>11, CommitFact
  <2>2. /\ seg' \in [Segments -> {"none", "exited", "not_started"} \cup Active]
        /\ stop' \in [Segments -> {"none", "pending", "completed", "unknown"}]
    BY <1>11, CommitFact DEF TypeOK, Active, Completed
  <2> QED BY <1>11, <2>1, <2>2 DEF Commit, TypeOK
<1>12. CASE UNCHANGED vars BY <1>12 DEF vars, TypeOK
<1>13. CASE MarkStoppingUnknown BY <1>13 DEF MarkStoppingUnknown, TypeOK, Active
<1> QED
  BY <1>1, <1>2, <1>3, <1>4, <1>5, <1>6, <1>7, <1>9, <1>10, <1>11, <1>12, <1>13 DEF Next, HostStep

-----------------------------------------------------------------------------
(* The records of a segment.                                               *)

(* What a step records in the host's spool: an event of a segment that is  *)
(* not closed; prepared and a rejection come before the segment runs.      *)
Recorded(s, kind) ==
    /\ Report(s, kind)
    /\ UNCHANGED <<seg, stop>>
    /\ out[s] \notin Closed
    /\ kind \in {"prepared", "rejected"} => out[s] \in {"none", "prepared"}

LEMMA RecordFact ==
    ASSUME TypeOK, WorkerAgrees, Next
    PROVE  \/ UNCHANGED <<spool, out>>
           \/ Commit
           \/ \E s \in Segments, kind \in Kinds : Recorded(s, kind)
<1> USE DEF coordinator, channel, memory, disk, counts
<1>1. ASSUME NEW s \in Segments,
             Claim(s) \/ SendLaunch(s) \/ RequestStop(s) \/ SendStop(s)
      PROVE UNCHANGED <<spool, out>>
  BY <1>1 DEF Claim, SendLaunch, RequestStop, SendStop
<1>2. ASSUME NEW s \in Segments, ReceiveLaunch(s)
      PROVE UNCHANGED <<spool, out>> \/ Recorded(s, "unknown")
  BY <1>2 DEF ReceiveLaunch, Recorded
<1>3. ASSUME NEW s \in Segments, ReceiveStop(s) \/ Start(s)
      PROVE UNCHANGED <<spool, out>>
  BY <1>3 DEF ReceiveStop, Start
<1>4. ASSUME NEW s \in Segments,
             Prepare(s) \/ Reject(s) \/ ReportRunning(s) \/ End(s) \/ LeaveUnknown(s)
      PROVE \E kind \in Kinds : Recorded(s, kind)
  <2>1. worker[s] \in Workers BY DEF TypeOK
  <2>2. worker[s] # "none" => out[s] \in {"none", "prepared", "running"}
    BY <2>1 DEF Workers, WorkerAgrees
  <2>3. worker[s] \in {"accepted", "prepared"} => out[s] \in {"none", "prepared"}
    BY DEF WorkerAgrees
  <2>4. CASE Prepare(s)
    BY <2>2, <2>3, <2>4 DEF Prepare, Recorded, Kinds, Closed
  <2>5. CASE Reject(s)
    BY <2>2, <2>3, <2>5 DEF Reject, Close, Recorded, Kinds, Closed
  <2>6. CASE ReportRunning(s)
    BY <2>2, <2>6 DEF ReportRunning, Recorded, Kinds, Closed
  <2>7. CASE End(s) \/ LeaveUnknown(s)
    BY <2>2, <2>7 DEF End, LeaveUnknown, Close, Recorded, Kinds, Closed
  <2> QED BY <1>4, <2>4, <2>5, <2>6, <2>7
<1>5. CASE MarkStoppingUnknown \/ Break \/ CoordinatorRestart \/ Connect
  BY <1>5 DEF MarkStoppingUnknown, Break, CoordinatorRestart, Connect
<1>6. CASE FinishReconcile \/ HostCrash \/ HostStart
  BY <1>6 DEF FinishReconcile, HostCrash, HostStart
<1>7. "unknown" \in Kinds BY DEF Kinds
<1> QED BY <1>1, <1>2, <1>3, <1>4, <1>5, <1>6, <1>7 DEF Next, HostStep

(* A granted segment stays granted.                                        *)
LEMMA GrantedStays ==
    ASSUME TypeOK, Next, NEW s \in Segments, seg[s] # "none"
    PROVE  seg'[s] # "none"
<1> USE DEF coordinator
<1>1. ASSUME NEW r \in Segments, Claim(r) \/ SendLaunch(r) \/ RequestStop(r) \/ SendStop(r)
      PROVE seg'[s] # "none"
  BY <1>1 DEF Claim, SendLaunch, RequestStop, SendStop, TypeOK
<1>2. ASSUME NEW r \in Segments, HostStep(r) PROVE UNCHANGED seg
  BY <1>2 DEF HostStep, ReceiveLaunch, ReceiveStop, Prepare, Reject, Start, ReportRunning, End,
              LeaveUnknown, Close
<1>3. CASE MarkStoppingUnknown BY <1>3 DEF MarkStoppingUnknown
<1>4. CASE Break \/ CoordinatorRestart \/ Connect \/ FinishReconcile \/ HostCrash \/ HostStart
  BY <1>4 DEF Break, CoordinatorRestart, Connect, FinishReconcile, HostCrash, HostStart
<1>5. CASE Commit BY <1>5, CommitFact DEF TypeOK
<1> QED BY <1>1, <1>2, <1>3, <1>4, <1>5 DEF Next

(* A launch on its way is of a granted segment.                            *)
LEMMA GrantedFirstStep ==
    ASSUME TypeOK, GrantedFirst, WorkerAgrees, [Next]_vars
    PROVE  GrantedFirst'
<1> USE DEF coordinator, channel, memory, disk, counts
<1>1. CASE UNCHANGED vars BY <1>1 DEF vars, GrantedFirst
<1>2. CASE Next
  <2>1. \A s \in Segments : seg[s] # "none" => seg'[s] # "none" BY <1>2, GrantedStays
  <2>2. unsent \in SUBSET Segments /\ ledger \in SUBSET Segments BY DEF TypeOK
  <2>3. \A c \in Commands : c[2] \in Segments BY DEF Commands
  <2>4. \A i \in DOMAIN wire : wire[i] \in Commands BY DEF TypeOK
  <2>5. ASSUME unsent' \subseteq unsent, ledger' \subseteq ledger,
               \A i \in DOMAIN wire' : \E j \in DOMAIN wire : wire'[i] = wire[j]
        PROVE GrantedFirst'
    <3>1. \A s \in unsent' \cup ledger' : seg'[s] # "none"
      BY <2>1, <2>2, <2>5 DEF GrantedFirst
    <3>2. ASSUME NEW i \in DOMAIN wire', wire'[i][1] = "launch" PROVE seg'[wire'[i][2]] # "none"
      <4>1. PICK j \in DOMAIN wire : wire'[i] = wire[j] BY <2>5
      <4>2. wire[j][2] \in Segments BY <2>3, <2>4
      <4> QED BY <2>1, <3>2, <4>1, <4>2 DEF GrantedFirst
    <3> QED BY <3>1, <3>2 DEF GrantedFirst
  <2>6. ASSUME wire' = wire, unsent' \subseteq unsent, ledger' \subseteq ledger PROVE GrantedFirst'
    BY <2>5, <2>6
  <2>7. ASSUME NEW s \in Segments, Claim(s) PROVE GrantedFirst'
    <3>1. unsent' = {s} /\ seg'[s] = "launch_requested" /\ UNCHANGED <<wire, ledger>>
      BY <2>7 DEF Claim, TypeOK
    <3>2. \A r \in ledger : seg'[r] # "none" BY <2>1, <2>2 DEF GrantedFirst
    <3>3. \A i \in DOMAIN wire : wire[i][1] = "launch" => seg'[wire[i][2]] # "none"
      BY <2>1, <2>3, <2>4 DEF GrantedFirst
    <3> QED BY <3>1, <3>2, <3>3 DEF GrantedFirst
  <2>8. ASSUME NEW s \in Segments, NEW c \in Commands, wire' = Append(wire, c),
               c[1] = "launch" => seg[c[2]] # "none",
               unsent' \subseteq unsent, ledger' \subseteq ledger
        PROVE GrantedFirst'
    <3>1. \A i \in DOMAIN wire' : wire'[i] = c \/ \E j \in DOMAIN wire : wire'[i] = wire[j]
      BY <2>8, WireAppend
    <3>2. \A r \in unsent' \cup ledger' : seg'[r] # "none"
      BY <2>1, <2>2, <2>8 DEF GrantedFirst
    <3>3. ASSUME NEW i \in DOMAIN wire', wire'[i][1] = "launch" PROVE seg'[wire'[i][2]] # "none"
      <4>1. CASE wire'[i] = c BY <2>1, <2>3, <2>8, <3>3, <4>1
      <4>2. ASSUME NEW j \in DOMAIN wire, wire'[i] = wire[j] PROVE seg'[wire'[i][2]] # "none"
        BY <2>1, <2>3, <2>4, <3>3, <4>2 DEF GrantedFirst
      <4> QED BY <3>1, <4>1, <4>2
    <3> QED BY <3>2, <3>3 DEF GrantedFirst
  <2>9. ASSUME NEW s \in Segments, SendLaunch(s) PROVE GrantedFirst'
    <3>1. <<"launch", s>> \in Commands BY DEF Commands
    <3>2. seg[s] # "none" BY <2>9 DEF SendLaunch, GrantedFirst
    <3>3. wire' = Append(wire, <<"launch", s>>) /\ unsent' = {} /\ ledger' = ledger
      BY <2>9 DEF SendLaunch
    <3> QED BY <2>8, <3>1, <3>2, <3>3
  <2>10. ASSUME NEW s \in Segments, SendStop(s) PROVE GrantedFirst'
    <3>1. <<"stop", s>> \in Commands BY DEF Commands
    <3>2. wire' = Append(wire, <<"stop", s>>) /\ unsent' = unsent /\ ledger' = ledger
      BY <2>10 DEF SendStop
    <3> QED BY <2>8, <3>1, <3>2
  <2>11. ASSUME NEW s \in Segments, ReceiveLaunch(s) PROVE GrantedFirst'
    <3>1. \A i \in DOMAIN wire' : \E j \in DOMAIN wire : wire'[i] = wire[j]
      BY <2>11, WireTail DEF ReceiveLaunch
    <3>2. wire # <<>> /\ wire \in Seq(Commands) BY <2>11 DEF ReceiveLaunch, TypeOK
    <3>3. 1 \in DOMAIN wire /\ wire[1] = <<"launch", s>>
      BY <2>11, <3>2, TailFact DEF ReceiveLaunch
    <3>4. seg[s] # "none" BY <3>3 DEF GrantedFirst
    <3>5. ledger' \subseteq ledger \cup {s} /\ unsent' = unsent /\ seg' = seg
      BY <2>11 DEF ReceiveLaunch
    <3>6. \A r \in unsent' \cup ledger' : seg'[r] # "none" BY <3>4, <3>5 DEF GrantedFirst
    <3>7. \A i \in DOMAIN wire' : wire'[i][1] = "launch" => seg'[wire'[i][2]] # "none"
      BY <3>1, <3>5 DEF GrantedFirst
    <3> QED BY <3>6, <3>7 DEF GrantedFirst
  <2>12. ASSUME NEW s \in Segments, ReceiveStop(s) PROVE GrantedFirst'
    <3>1. \A i \in DOMAIN wire' : \E j \in DOMAIN wire : wire'[i] = wire[j]
      BY <2>12, WireTail DEF ReceiveStop
    <3> QED BY <2>5, <2>12, <3>1 DEF ReceiveStop
  <2>13. ASSUME NEW s \in Segments,
                RequestStop(s) \/ Prepare(s) \/ Reject(s) \/ Start(s) \/ ReportRunning(s) \/ End(s)
                \/ LeaveUnknown(s)
         PROVE GrantedFirst'
    BY <2>6, <2>13 DEF RequestStop, Prepare, Reject, Start, ReportRunning, End, LeaveUnknown, Close
  <2>14. CASE Break \/ CoordinatorRestart \/ HostCrash
    <3>1. wire' = <<>> /\ unsent' = {} /\ ledger' = ledger
      BY <2>14 DEF Break, CoordinatorRestart, HostCrash, Lost
    <3> QED BY <2>5, <3>1
  <2>15. CASE FinishReconcile
    <3>1. \A i \in DOMAIN wire' :
             \/ \E j \in DOMAIN wire : wire'[i] = wire[j]
             \/ wire'[i][1] # "launch"
             \/ seg[wire'[i][2]] = "launch_requested"
      BY <2>15, ResentFact
    <3>2. UNCHANGED <<seg, unsent, ledger>> BY <2>15 DEF FinishReconcile
    <3> QED BY <3>1, <3>2 DEF GrantedFirst
  <2>16. CASE MarkStoppingUnknown \/ Connect \/ HostStart \/ Commit
    BY <2>6, <2>16 DEF MarkStoppingUnknown, Connect, HostStart, Commit
  <2> QED
    BY <1>2, <2>7, <2>9, <2>10, <2>11, <2>12, <2>13, <2>14, <2>15, <2>16 DEF Next, HostStep
<1> QED BY <1>1, <1>2

(* The worker, the ledger and the record of a segment move together.       *)
LEMMA WorkerAgreesStep ==
    ASSUME TypeOK, WorkerAgrees, [Next]_vars
    PROVE  WorkerAgrees'
<1> USE DEF coordinator, channel, memory, disk, counts
<1>1. ASSUME UNCHANGED <<ledger, worker, out, starts>> PROVE WorkerAgrees'
  BY <1>1 DEF WorkerAgrees
<1>2. CASE UNCHANGED vars BY <1>1, <1>2 DEF vars
<1>3. ASSUME NEW s \in Segments, Claim(s) \/ SendLaunch(s) \/ RequestStop(s) \/ SendStop(s)
      PROVE WorkerAgrees'
  BY <1>1, <1>3 DEF Claim, SendLaunch, RequestStop, SendStop
<1>4. ASSUME NEW s \in Segments, ReceiveLaunch(s) PROVE WorkerAgrees'
  <2>1. CASE s \notin ledger
    BY <1>4, <2>1 DEF ReceiveLaunch, WorkerAgrees, TypeOK
  <2>2. CASE s \in ledger /\ worker[s] = "none" /\ out[s] \notin Closed
    BY <1>4, <2>2 DEF ReceiveLaunch, Report, WorkerAgrees, TypeOK
  <2>3. CASE s \in ledger /\ ~(worker[s] = "none" /\ out[s] \notin Closed)
    BY <1>1, <1>4, <2>3 DEF ReceiveLaunch
  <2> QED BY <2>1, <2>2, <2>3
<1>5. ASSUME NEW s \in Segments, ReceiveStop(s) PROVE WorkerAgrees'
  BY <1>1, <1>5 DEF ReceiveStop
<1>6. ASSUME NEW s \in Segments, Prepare(s) \/ ReportRunning(s) PROVE WorkerAgrees'
  BY <1>6 DEF Prepare, ReportRunning, Report, WorkerAgrees, TypeOK
<1>7. ASSUME NEW s \in Segments, Reject(s) PROVE WorkerAgrees'
  BY <1>7 DEF Reject, Close, Report, WorkerAgrees, TypeOK
<1>8. ASSUME NEW s \in Segments, Start(s) PROVE WorkerAgrees'
  BY <1>8 DEF Start, WorkerAgrees, TypeOK
<1>9. ASSUME NEW s \in Segments, End(s) \/ LeaveUnknown(s) PROVE WorkerAgrees'
  BY <1>9 DEF End, LeaveUnknown, Close, Report, WorkerAgrees, TypeOK
<1>10. CASE HostCrash
  BY <1>10 DEF HostCrash, WorkerAgrees
<1>11. CASE MarkStoppingUnknown \/ Break \/ CoordinatorRestart \/ Connect
  BY <1>1, <1>11 DEF MarkStoppingUnknown, Break, CoordinatorRestart, Connect
<1>12. CASE FinishReconcile \/ HostStart \/ Commit
  BY <1>1, <1>12 DEF FinishReconcile, HostStart, Commit
<1> QED
  BY <1>2, <1>3, <1>4, <1>5, <1>6, <1>7, <1>8, <1>9, <1>10, <1>11, <1>12 DEF Next, HostStep

(* The spool ends with what the host recorded last of each segment.        *)
LEMMA SpoolAgreesStep ==
    ASSUME TypeOK, WorkerAgrees, SpoolAgrees, [Next]_vars
    PROVE  SpoolAgrees'
<1>1. ASSUME UNCHANGED <<spool, out>> PROVE SpoolAgrees' BY <1>1 DEF SpoolAgrees
<1>2. CASE UNCHANGED vars BY <1>1, <1>2 DEF vars, disk
<1>3. ASSUME NEW s \in Segments, NEW kind \in Kinds, Recorded(s, kind) PROVE SpoolAgrees'
  <2>1. Report(s, kind) /\ spool \in Seq(Segments \X Kinds)
    BY <1>3 DEF Recorded, TypeOK
  <2> DEFINE n == Len(spool)
  <2>2. /\ DOMAIN spool = 1 .. n /\ DOMAIN spool' = 1 .. n + 1 /\ n \in Nat
        /\ \A i \in 1 .. n : spool'[i] = spool[i]
        /\ spool'[n + 1][1] = s /\ spool'[n + 1][2] = kind
        /\ out'[s] = kind /\ \A r \in Segments \ {s} : out'[r] = out[r]
    BY <2>1, ReportFact DEF TypeOK
  <2>3. \A i \in 1 .. n : spool[i][1] \in Segments BY <2>1, <2>2
  <2> HIDE DEF n
  <2>4. ASSUME NEW i \in 1 .. n
        PROVE  /\ spool'[i][2] = "prepared" => out'[spool'[i][1]] # "none"
               /\ spool'[i][2] = "running"
                    => out'[spool'[i][1]] \notin {"none", "prepared", "rejected"}
    <3>1. CASE spool[i][1] = s
      BY <1>3, <2>2, <3>1 DEF SpoolAgrees, Recorded, Kinds
    <3>2. CASE spool[i][1] # s
      BY <2>2, <2>3, <3>2 DEF SpoolAgrees
    <3> QED BY <3>1, <3>2
  <2>5. ASSUME NEW i \in 1 .. n, spool'[i][2] \in Closed
        PROVE  /\ out'[spool'[i][1]] = spool'[i][2]
               /\ \A j \in 1 .. n + 1 : j > i => spool'[j][1] # spool'[i][1]
    <3>1. spool[i][2] \in Closed /\ out[spool[i][1]] = spool[i][2]
      BY <2>2, <2>5 DEF SpoolAgrees
    <3>2. spool[i][1] # s BY <1>3, <3>1 DEF Recorded
    <3>3. \A j \in 1 .. n : j > i => spool[j][1] # spool[i][1]
      BY <2>2, <3>1 DEF SpoolAgrees
    <3>4. \A j \in 1 .. n + 1 : j \in 1 .. n \/ j = n + 1 BY <2>2
    <3> QED BY <2>2, <2>3, <3>1, <3>2, <3>3, <3>4
  <2>6. /\ spool'[n + 1][2] = "prepared" => out'[spool'[n + 1][1]] # "none"
        /\ spool'[n + 1][2] = "running"
             => out'[spool'[n + 1][1]] \notin {"none", "prepared", "rejected"}
        /\ spool'[n + 1][2] \in Closed
             => /\ out'[spool'[n + 1][1]] = spool'[n + 1][2]
                /\ \A j \in 1 .. n + 1 : ~(j > n + 1)
    BY <2>2
  <2>7. \A i \in 1 .. n + 1 : i \in 1 .. n \/ i = n + 1 BY <2>2
  <2> QED BY <2>2, <2>4, <2>5, <2>6, <2>7 DEF SpoolAgrees
<1>4. CASE Commit
  <2>1. /\ \A i \in DOMAIN spool' :
              i \in Nat /\ i \geq 1 /\ i + 1 \in DOMAIN spool /\ spool'[i] = spool[i + 1]
        /\ out' = out
    BY <1>4, CommitFact DEF Commit
  <2>2. ASSUME NEW i \in DOMAIN spool', spool'[i][2] \in Closed,
               NEW j \in DOMAIN spool', j > i
        PROVE  spool'[j][1] # spool'[i][1]
    <3>1. /\ i + 1 \in DOMAIN spool /\ j + 1 \in DOMAIN spool /\ j + 1 > i + 1
          /\ spool'[i] = spool[i + 1] /\ spool'[j] = spool[j + 1]
      BY <2>1, <2>2
    <3>2. spool[i + 1][2] \in Closed BY <2>2, <3>1
    <3>3. spool[j + 1][1] # spool[i + 1][1] BY <3>1, <3>2 DEF SpoolAgrees
    <3> QED BY <3>1, <3>3
  <2>3. ASSUME NEW i \in DOMAIN spool'
        PROVE  /\ spool'[i][2] = "prepared" => out'[spool'[i][1]] # "none"
               /\ spool'[i][2] = "running"
                    => out'[spool'[i][1]] \notin {"none", "prepared", "rejected"}
               /\ spool'[i][2] \in Closed => out'[spool'[i][1]] = spool'[i][2]
    <3>1. i + 1 \in DOMAIN spool /\ spool'[i] = spool[i + 1] BY <2>1
    <3> QED BY <2>1, <3>1 DEF SpoolAgrees
  <2> QED BY <2>2, <2>3 DEF SpoolAgrees
<1> QED BY <1>1, <1>2, <1>3, <1>4, RecordFact

(* What the steps that record nothing and commit nothing do to the status  *)
(* of a segment and its stop.                                              *)
LEMMA StatusFact ==
    ASSUME TypeOK, Next, UNCHANGED <<spool, out>>
    PROVE  \A s \in Segments :
             \/ seg'[s] = seg[s] /\ stop'[s] = stop[s]
             \/ seg[s] = "none" /\ seg'[s] = "launch_requested" /\ stop'[s] = stop[s]
             \/ seg[s] \in Active /\ seg'[s] = "stopping" /\ stop'[s] = "pending"
             \/ /\ stop[s] = "pending" => stop'[s] = "unknown"
                /\ stop[s] # "pending" => stop'[s] = stop[s]
                /\ seg[s] = "stopping" => seg'[s] = "unknown"
                /\ seg[s] # "stopping" => seg'[s] = seg[s]
<1> USE DEF coordinator
<1>1. ASSUME NEW r \in Segments, Claim(r) \/ SendLaunch(r) \/ RequestStop(r) \/ SendStop(r)
      PROVE  \A s \in Segments :
               \/ seg'[s] = seg[s] /\ stop'[s] = stop[s]
               \/ seg[s] = "none" /\ seg'[s] = "launch_requested" /\ stop'[s] = stop[s]
               \/ seg[s] \in Active /\ seg'[s] = "stopping" /\ stop'[s] = "pending"
  BY <1>1 DEF Claim, SendLaunch, RequestStop, SendStop, TypeOK
<1>2. ASSUME NEW r \in Segments, HostStep(r) PROVE UNCHANGED <<seg, stop>>
  BY <1>2 DEF HostStep, ReceiveLaunch, ReceiveStop, Prepare, Reject, Start, ReportRunning, End,
              LeaveUnknown, Close
<1>3. CASE MarkStoppingUnknown BY <1>3 DEF MarkStoppingUnknown, TypeOK
<1>4. CASE Break \/ CoordinatorRestart \/ Connect \/ FinishReconcile \/ HostCrash \/ HostStart
  BY <1>4 DEF Break, CoordinatorRestart, Connect, FinishReconcile, HostCrash, HostStart
<1>5. ~Commit
  <2>1. spool \in Seq(Segments \X Kinds) BY DEF TypeOK
  <2>2. ASSUME Commit PROVE FALSE
    <3>1. spool # <<>> /\ spool' = Tail(spool) BY <2>2 DEF Commit
    <3>2. Len(Tail(spool)) = Len(spool) - 1 /\ Len(spool) \in Nat BY <2>1, <3>1, HeadTailProperties
    <3> QED BY <3>1, <3>2
  <2> QED BY <2>2
<1> QED BY <1>1, <1>2, <1>3, <1>4, <1>5 DEF Next

(* The coordinator closes a segment with the last event of it.             *)
LEMMA ClosedLastStep ==
    ASSUME TypeOK, WorkerAgrees, SpoolAgrees, ClosedLast, [Next]_vars
    PROVE  ClosedLast'
<1>1. CASE UNCHANGED vars
  BY <1>1 DEF vars, coordinator, disk, ClosedLast, ClosedByHost
<1>2. spool \in Seq(Segments \X Kinds) /\ \A i \in DOMAIN spool : spool[i][1] \in Segments
  BY DEF TypeOK
<1>3. CASE Next /\ UNCHANGED <<spool, out>>
  <2>1. \A s \in Segments : seg'[s] \in {"exited", "not_started"} => seg'[s] = seg[s]
    BY <1>3, StatusFact
  <2> QED BY <1>2, <1>3, <2>1 DEF ClosedLast, ClosedByHost
<1>4. ASSUME NEW s \in Segments, NEW kind \in Kinds, Recorded(s, kind) PROVE ClosedLast'
  <2>1. Report(s, kind) /\ seg' = seg /\ out[s] \notin Closed
    BY <1>4 DEF Recorded
  <2> DEFINE n == Len(spool)
  <2>2. /\ DOMAIN spool = 1 .. n /\ DOMAIN spool' = 1 .. n + 1 /\ n \in Nat
        /\ \A i \in 1 .. n : spool'[i] = spool[i]
        /\ spool'[n + 1][1] = s
        /\ \A r \in Segments \ {s} : out'[r] = out[r]
    BY <2>1, ReportFact DEF TypeOK
  <2> HIDE DEF n
  <2>3. seg[s] \notin {"exited", "not_started"}
    BY <2>1 DEF ClosedLast, ClosedByHost, Closed
  <2>4. \A i \in 1 .. n + 1 : i \in 1 .. n \/ i = n + 1 BY <2>2
  <2>5. ClosedByHost' BY <2>1, <2>2, <2>3 DEF ClosedLast, ClosedByHost
  <2>6. \A i \in DOMAIN spool' : seg'[spool'[i][1]] \notin {"exited", "not_started"}
    BY <2>1, <2>2, <2>3, <2>4 DEF ClosedLast
  <2> QED BY <2>5, <2>6 DEF ClosedLast
<1>5. CASE Commit
  <2>1. PICK s \in Segments, kind \in Kinds :
             /\ 1 \in DOMAIN spool /\ spool[1][1] = s /\ spool[1][2] = kind
             /\ \A i \in DOMAIN spool' :
                   i \in Nat /\ i \geq 1 /\ i + 1 \in DOMAIN spool /\ spool'[i] = spool[i + 1]
             /\ \A r \in Segments \ {s} : seg'[r] = seg[r]
             /\ seg'[s] = "exited" => seg[s] = "exited" \/ kind = "exited"
             /\ seg'[s] = "not_started" => seg[s] = "not_started" \/ kind = "rejected"
    BY <1>5, CommitFact DEF TypeOK
  <2>2. out' = out BY <1>5 DEF Commit
  <2>3. seg[s] \notin {"exited", "not_started"} BY <2>1 DEF ClosedLast
  <2>4. seg'[s] \in {"exited", "not_started"} =>
           /\ kind \in Closed /\ out[s] = kind
           /\ \A j \in DOMAIN spool : j > 1 => spool[j][1] # s
    BY <2>1, <2>3 DEF SpoolAgrees, Closed
  <2>5. ClosedByHost' BY <2>1, <2>2, <2>3, <2>4 DEF ClosedLast, ClosedByHost
  <2>6. ASSUME NEW i \in DOMAIN spool' PROVE seg'[spool'[i][1]] \notin {"exited", "not_started"}
    <3>1. i + 1 \in DOMAIN spool /\ i + 1 > 1 /\ spool'[i] = spool[i + 1] BY <2>1
    <3>2. spool[i + 1][1] \in Segments BY <1>2, <3>1
    <3>3. seg[spool[i + 1][1]] \notin {"exited", "not_started"} BY <3>1 DEF ClosedLast
    <3> QED BY <2>1, <2>4, <3>1, <3>2, <3>3
  <2> QED BY <2>5, <2>6 DEF ClosedLast
<1> QED BY <1>1, <1>3, <1>4, <1>5, RecordFact

(* Only a stop that was given up on makes a rejection unacceptable.        *)
LEMMA AcceptableStep ==
    ASSUME TypeOK, WorkerAgrees, SpoolAgrees, Acceptable, [Next]_vars
    PROVE  Acceptable'
<1>1. CASE UNCHANGED vars
  BY <1>1 DEF vars, coordinator, disk, Acceptable, RejectionProved
<1>2. CASE Next /\ UNCHANGED <<spool, out>>
  BY <1>2, StatusFact DEF Acceptable, RejectionProved, Active
<1>3. ASSUME NEW s \in Segments, NEW kind \in Kinds, Recorded(s, kind) PROVE Acceptable'
  <2>1. Report(s, kind) /\ UNCHANGED <<seg, stop>> /\ out[s] \notin Closed
    BY <1>3 DEF Recorded
  <2>2. out'[s] = kind /\ \A r \in Segments \ {s} : out'[r] = out[r]
    BY <2>1, ReportFact DEF TypeOK
  <2>3. out'[s] \in {"none", "prepared", "rejected"} => out[s] \in {"none", "prepared"}
    BY <1>3, <2>2 DEF Recorded, Kinds
  <2> QED BY <2>1, <2>2, <2>3 DEF Acceptable, RejectionProved
<1>4. CASE Commit
  <2>1. PICK s \in Segments, kind \in Kinds :
             /\ 1 \in DOMAIN spool /\ spool[1][1] = s /\ spool[1][2] = kind
             /\ \A r \in Segments \ {s} : seg'[r] = seg[r] /\ stop'[r] = stop[r]
             /\ \/ /\ kind = "prepared" /\ stop'[s] = stop[s]
                   /\ seg'[s] = IF seg[s] = "launch_requested" THEN "prepared" ELSE seg[s]
                \/ kind \in {"running", "exited", "unknown"}
                \/ kind = "rejected" /\ seg'[s] = "not_started"
    BY <1>4, CommitFact DEF TypeOK, Completed
  <2>2. out' = out BY <1>4 DEF Commit
  <2>3. /\ kind = "running" => out[s] \notin {"none", "prepared", "rejected"}
        /\ kind \in Closed => out[s] = kind
    BY <2>1 DEF SpoolAgrees
  <2> QED BY <2>1, <2>2, <2>3 DEF Acceptable, RejectionProved, Closed
<1> QED BY <1>1, <1>2, <1>3, <1>4, RecordFact
-----------------------------------------------------------------------------
(* The theorems.                                                           *)

LEMMA GrantInit == Init => GrantInv
<1> SUFFICES ASSUME Init PROVE GrantInv OBVIOUS
<1>1. spool = <<>> /\ wire = <<>> /\ DOMAIN spool = {} /\ DOMAIN wire = {} BY DEF Init
<1>2. TypeOK
  BY GrantAssumption DEF Init, TypeOK, Workers, GrantDeliveryParameters
<1>3. GrantedFirst /\ WorkerAgrees BY <1>1 DEF Init, GrantedFirst, WorkerAgrees
<1>4. SpoolAgrees /\ ClosedLast /\ Acceptable
  BY <1>1 DEF Init, SpoolAgrees, ClosedLast, ClosedByHost, Acceptable
<1> QED BY <1>2, <1>3, <1>4 DEF GrantInv

LEMMA GrantStep == GrantInv /\ [Next]_vars => GrantInv'
BY TypeStep, GrantedFirstStep, WorkerAgreesStep, SpoolAgreesStep, ClosedLastStep, AcceptableStep
DEF GrantInv

(* The three records of a granted segment agree, whatever is lost, sent    *)
(* again or restarted: the inductive invariant of the delivery of grants.  *)
THEOREM GrantInvariant == Spec => []GrantInv
<1>1. Init => GrantInv BY GrantInit
<1>2. GrantInv /\ [Next]_vars => GrantInv' BY GrantStep
<1> QED BY <1>1, <1>2, PTL DEF Spec

(* A grant that is sent again is executed at most once, what the           *)
(* coordinator concludes of it is what the host recorded, and a rejection  *)
(* on its way is refused only when shutdown gave up on the stop            *)
(* (scheduling.go:269, launch_rejected.go).                                *)
THEOREM GrantsStaySound == Spec => []GrantSound
<1>1. GrantInv => GrantSound
  <2> SUFFICES ASSUME GrantInv PROVE GrantSound OBVIOUS
  <2>1. TypeOK /\ ClosedByHost BY DEF GrantInv, ClosedLast
  <2>2. StartedOnce
    BY <2>1 DEF GrantInv, WorkerAgrees, ClosedByHost, StartedOnce
  <2>3. RejectionAccepted
    <3> SUFFICES ASSUME NEW i \in DOMAIN spool, spool[i][2] = "rejected"
                 PROVE RejectionProved(spool[i][1]) \/ stop[spool[i][1]] = "unknown"
      BY DEF RejectionAccepted
    <3>1. PICK s \in Segments : s = spool[i][1] BY <2>1 DEF TypeOK
    <3>2. out[s] = "rejected" BY <3>1 DEF GrantInv, SpoolAgrees, Closed
    <3>3. s \in ledger BY <3>2 DEF GrantInv, WorkerAgrees
    <3>4. seg[s] # "none" BY <3>3 DEF GrantInv, GrantedFirst
    <3>5. seg[s] # "not_started" BY <3>1 DEF GrantInv, ClosedLast
    <3> QED BY <3>1, <3>2, <3>4, <3>5 DEF GrantInv, Acceptable
  <2> QED BY <2>1, <2>2, <2>3 DEF GrantSound
<1> QED BY <1>1, GrantInvariant, PTL

=============================================================================
