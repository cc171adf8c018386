-------------------------- MODULE EventSpoolProofs --------------------------
(***************************************************************************)
(* Proofs about EventSpool, for every set of segments and every bound: the *)
(* channel keeps what EventLog promises.  Numbering, Cursors, Requests and *)
(* Pass are preserved together; the refinement then needs only the steps   *)
(* that link a file or store a row.                                        *)
(***************************************************************************)
EXTENDS EventSpool, SequenceTheorems, TLAPS

(* Larger picks one of its arguments and is not below either.              *)
LEMMA LargerFact ==
    ASSUME NEW m \in Nat, NEW n \in Nat
    PROVE  Larger(m, n) \in {m, n} /\ m <= Larger(m, n) /\ n <= Larger(m, n)
BY DEF Larger

(* Appending to a sequence keeps its elements and adds one at the end.     *)
LEMMA AppendFact ==
    ASSUME NEW S, NEW q \in Seq(S), NEW x \in S
    PROVE  /\ Append(q, x) \in Seq(S)
           /\ Len(Append(q, x)) = Len(q) + 1
           /\ \A i \in 1..Len(q) : Append(q, x)[i] = q[i]
           /\ Append(q, x)[Len(q) + 1] = x
BY AppendProperties

(* The event that stands for none is not an event.                         *)
LEMMA NoEventFact == NoEvent \notin Event
BY DEF NoEvent, Event

(* The fields of an event.                                                 *)
LEMMA EventFact ==
    \A e \in Event : /\ e.seg \in Segment /\ e.seq \in Nat
                      /\ 1 <= e.seq /\ e.seq <= MaxMade
BY BoundAssumption DEF Event

(* What is on disk is an event.                                            *)
LEMMA AcceptedFact == TypeOK => Accepted \subseteq Event
BY DEF TypeOK, Accepted

(* The channel's state stays well typed: every step of the host, the       *)
(* publisher, the coordinator and the faults keeps TypeOK, given the       *)
(* numbering that bounds the next number.                                  *)
LEMMA TypeStep == TypeOK /\ SpoolInv /\ [Next]_vars => TypeOK'
<1> SUFFICES ASSUME TypeOK, SpoolInv, [Next]_vars PROVE TypeOK'
  OBVIOUS
<1> USE DEF TypeOK
<1>1. CASE AppendWriteFails
  BY <1>1, EventFact DEF AppendWriteFails, diskVars, appendVars, passVars, netVars
<1>2. CASE AppendLink
  BY <1>2 DEF AppendLink, diskVars, appendVars, passVars, netVars, Linked
<1>3. CASE AppendDone
  BY <1>3, EventFact DEF AppendDone, diskVars, appendVars, passVars, netVars, Linked
<1>4. CASE Connect
  BY <1>4 DEF Connect, diskVars, appendVars, passVars, netVars
<1>5. CASE Wake
  BY <1>5 DEF Wake, diskVars, appendVars, passVars, netVars
<1>6. CASE BeginPass
  BY <1>6 DEF BeginPass, diskVars, appendVars, passVars, netVars
<1>7. CASE SequenceGap
  BY <1>7 DEF SequenceGap, diskVars, appendVars, passVars, netVars
<1>8. CASE SendFails
  BY <1>8 DEF SendFails, diskVars, appendVars, passVars, netVars
<1>9. CASE ReceiveAck
  BY <1>9 DEF ReceiveAck, diskVars, appendVars, passVars, netVars
<1>10. CASE BeginAck
  BY <1>10, EventFact DEF Sent, BeginAck, diskVars, appendVars, passVars, netVars
<1>11. CASE ArchiveLink
  BY <1>11 DEF Covered, ArchiveLink, diskVars, appendVars, passVars, netVars
<1>12. CASE ArchiveRemove
  BY <1>12 DEF ArchiveRemove, diskVars, appendVars, passVars, netVars
<1>13. CASE WritePublished
  BY <1>13 DEF WritePublished, diskVars, appendVars, passVars, netVars, PassDone
<1>14. CASE NothingNew
  BY <1>14 DEF NothingNew, diskVars, appendVars, passVars, netVars, PassDone
<1>15. CASE Disconnect
  <2>1. breaks' \in 0..MaxBreaks
    BY <1>15, BoundAssumption DEF Disconnect
  <2>2. fresh' \in BOOLEAN
    BY <1>15 DEF Disconnect
  <2>3. pc' \in {pc, "idle"} /\ conn' = FALSE /\ reply' = "none"
    BY <1>15 DEF Disconnect
  <2> QED BY <1>15, <2>1, <2>2, <2>3 DEF Disconnect, diskVars, appendVars
<1>16. CASE Crash
  <2>1. breaks' \in 0..MaxBreaks
    BY <1>16, BoundAssumption DEF Crash
  <2> QED BY <1>16, <2>1, BoundAssumption DEF Crash, diskVars
<1>17. CASE Restart
  BY <1>17 DEF Restart, diskVars, appendVars, passVars, netVars
<1>18. ASSUME NEW s \in Segment, NEW top \in 0..MaxMade, AppendStart(s, top) PROVE TypeOK'
  <2>1. top <= made
    <3>1. CASE loaded
      BY <1>18, <3>1 DEF AppendStart, Loads, SpoolInv, Numbering
    <3>2. CASE ~loaded
      <4>1. top \in Numbers
        BY <1>18, <3>2 DEF AppendStart, Loads, Highest
      <4>2. published <= made
        <5>1. published <= Len(committed) /\ Len(committed) \in Nat BY DEF SpoolInv, Cursors
        <5>2. CASE Len(committed) = 0 BY <5>1, <5>2
        <5>3. CASE Len(committed) # 0
          <6>1. Len(committed) \in 1..Len(committed) BY <5>1, <5>3
          <6>2. committed[Len(committed)] \in Accepted
                /\ committed[Len(committed)].seq = Len(committed)
            BY <6>1 DEF SpoolInv, Cursors
          <6>3. Len(committed) <= made BY <6>2 DEF SpoolInv, Numbering
          <6> QED BY <5>1, <6>3
        <5> QED BY <5>2, <5>3
      <4> QED BY <4>1, <4>2 DEF Numbers, SpoolInv, Numbering, Accepted
    <3> QED BY <3>1, <3>2
  <2>2. [seg |-> s, seq |-> top + 1, id |-> made] \in Event
    BY <1>18, <2>1, BoundAssumption DEF AppendStart, Event
  <2> QED BY <1>18, <2>2, BoundAssumption DEF AppendStart, diskVars, passVars, netVars
<1>19. ASSUME NEW s \in Segment, ReadSpool(s) PROVE TypeOK'
  <2>1. Larger(last, ack[s]) \in Nat
    BY LargerFact
  <2> QED BY <1>19, <2>1 DEF ReadSpool, diskVars, appendVars, netVars
<1>20. ASSUME NEW s \in Segment, NEW n \in 1..MaxMade, AckThrough(s, n) PROVE TypeOK'
  BY <1>20 DEF AckThrough, diskVars, appendVars, passVars, netVars
<1>21. ASSUME NEW e \in Event, SendEvent(e) PROVE TypeOK'
  BY <1>21 DEF SendEvent, diskVars, appendVars, passVars, netVars
<1>22. ASSUME NEW e \in Event, CommitHostEvent(e) PROVE TypeOK'
  <2>1. Append(committed, e) \in Seq(Event)
    BY <1>22, AppendFact
  <2> QED BY <1>22, <2>1 DEF CommitHostEvent, diskVars, appendVars, passVars
<1>23. ASSUME NEW e \in Event, LoseRequest(e) PROVE TypeOK'
  BY <1>23 DEF LoseRequest, diskVars, appendVars, passVars, netVars
<1>24. CASE UNCHANGED vars
  BY <1>24 DEF vars, diskVars, appendVars, passVars, netVars
<1>25. CASE AppendSyncFails
  BY <1>25 DEF AppendSyncFails, Linked, diskVars, passVars, netVars
<1>26. ASSUME NEW e \in Event, AppendRepeated(e) PROVE TypeOK'
  BY <1>26, EventFact DEF AppendRepeated, diskVars, passVars, netVars
<1> QED
  BY <1>1, <1>2, <1>3, <1>4, <1>5, <1>6, <1>7, <1>8, <1>9, <1>10, <1>11, <1>12, <1>13, <1>14, <1>15, <1>16, <1>17, <1>18, <1>19, <1>20, <1>21, <1>22, <1>23, <1>24, <1>25, <1>26
     DEF Next, AppendNext, PublishNext, Commit

(* Archiving moves events, it loses and adds none.                         *)
LEMMA AcceptedKept ==
    TypeOK /\ SpoolInv /\ (ArchiveLink \/ ArchiveRemove) => Accepted' = Accepted
<1>1. ASSUME ArchiveLink PROVE Accepted' = Accepted
  BY <1>1 DEF ArchiveLink, Covered, Accepted
<1>2. ASSUME SpoolInv, ArchiveRemove PROVE Accepted' = Accepted
  BY <1>2 DEF ArchiveRemove, Covered, Accepted, SpoolInv, Pass
<1> QED BY <1>1, <1>2

(* No step breaks the numbering: a link adds the next number, archiving      *)
(* moves files without losing one, a restart reloads the highest.          *)
LEMMA NumberingStep == TypeOK /\ SpoolInv /\ [Next]_vars => Numbering'
<1> SUFFICES ASSUME TypeOK, SpoolInv, [Next]_vars PROVE Numbering'
  OBVIOUS
<1> USE DEF TypeOK, SpoolInv
<1>1. CASE AppendWriteFails
  <2>1. appending \notin Accepted
    BY <1>1 DEF AppendWriteFails, Linked, Accepted
  <2> QED BY <1>1, <2>1
     DEF AppendWriteFails, Numbering, Accepted, diskVars
<1>2. CASE AppendLink
  BY <1>2 DEF AppendLink, Numbering, Accepted, diskVars, appendVars, passVars, netVars
<1>3. CASE AppendDone
  <2>1. appending \in Accepted /\ appending # NoEvent
    BY <1>3, NoEventFact DEF AppendDone, Linked, Accepted
  <2>2. UNCHANGED <<Accepted, loaded, made, unsynced>> /\ sequence' = sequence + 1
    BY <1>3, <2>1 DEF AppendDone, Numbering, Accepted, diskVars
  <2>3. \A e \in Accepted : e.seq <= sequence'
    BY <2>1, <2>2, EventFact DEF Numbering, Accepted
  <2>4. appending' = NoEvent /\ appending.seq = sequence'
    BY <1>3 DEF AppendDone
  <2> QED BY <2>1, <2>2, <2>3, <2>4 DEF Numbering
<1>4. CASE Connect
  BY <1>4 DEF Connect, Numbering, Accepted, diskVars, appendVars, passVars, netVars
<1>5. CASE Wake
  BY <1>5 DEF Wake, Numbering, Accepted, diskVars, appendVars, passVars, netVars
<1>6. CASE BeginPass
  BY <1>6 DEF BeginPass, Numbering, Accepted, diskVars, appendVars, passVars, netVars
<1>7. CASE SequenceGap
  BY <1>7 DEF SequenceGap, Numbering, Accepted, diskVars, appendVars, passVars, netVars
<1>8. CASE SendFails
  BY <1>8 DEF SendFails, Numbering, Accepted, diskVars, appendVars, passVars, netVars
<1>9. CASE ReceiveAck
  BY <1>9 DEF ReceiveAck, Numbering, Accepted, diskVars, appendVars, passVars, netVars
<1>10. CASE BeginAck
  BY <1>10 DEF BeginAck, Numbering, Accepted, diskVars, appendVars, passVars, netVars
<1>11. CASE ArchiveLink
  BY <1>11, AcceptedKept DEF ArchiveLink, Numbering, appendVars
<1>12. CASE ArchiveRemove
  BY <1>12, AcceptedKept DEF ArchiveRemove, Numbering, appendVars
<1>13. CASE WritePublished
  BY <1>13 DEF WritePublished, Numbering, Accepted, diskVars, appendVars, passVars, netVars
<1>14. CASE NothingNew
  BY <1>14 DEF NothingNew, Numbering, Accepted, diskVars, appendVars, passVars, netVars
<1>15. CASE Disconnect
  BY <1>15 DEF Disconnect, Numbering, Accepted, diskVars, appendVars, passVars, netVars
<1>16. CASE Crash
  BY <1>16 DEF Crash, Numbering, Accepted, diskVars, appendVars, passVars, netVars
<1>17. CASE Restart
  BY <1>17 DEF Restart, Numbering, Accepted, diskVars, appendVars, passVars, netVars
<1>18. ASSUME NEW s \in Segment, NEW top \in 0..MaxMade, AppendStart(s, top) PROVE Numbering'
  <2>1. UNCHANGED <<Accepted, unsynced>> /\ sequence' = top /\ loaded' = TRUE
    BY <1>18 DEF AppendStart, Accepted, diskVars
  <2>2. /\ made' = made + 1 /\ appending' # NoEvent
        /\ appending'.seq = top + 1 /\ appending'.seg = s
        /\ \A e \in Accepted : ~(e.seg = s /\ e.seq = top + 1)
    <3>1. appending' = [seg |-> s, seq |-> top + 1, id |-> made]
      BY <1>18 DEF AppendStart
    <3>2. /\ made' = made + 1
          /\ \A e \in Accepted : ~(e.seg = s /\ e.seq = top + 1)
      BY <1>18 DEF AppendStart, Accepted
    <3>3. appending' # NoEvent
      BY <3>1 DEF NoEvent
    <3> QED BY <3>1, <3>2, <3>3
  <2>3. /\ \A e \in Accepted : e.seq <= top \/ (e \in unsynced /\ e.seq = top + 1)
        /\ top = 0 \/ \E e \in Accepted : e.seq = top
    <3>1. CASE loaded
      <4>1. \A e \in Accepted : e # appending
        BY <1>18, NoEventFact, AcceptedFact DEF AppendStart
      <4>2. top = sequence
        BY <1>18, <3>1 DEF AppendStart, Loads
      <4> QED BY <3>1, <4>1, <4>2 DEF Numbering
    <3>2. CASE ~loaded
      <4>1. Highest(top, Numbers)
        BY <1>18, <3>2 DEF AppendStart, Loads
      <4>2. \A e \in Accepted : e.seq <= top
        BY <4>1 DEF Highest, Numbers, Accepted
      <4>3. CASE top = published /\ top # 0
        <5>1. top \in 1..Len(committed)
          BY <4>3 DEF Cursors
        <5> QED BY <4>2, <5>1 DEF Cursors
      <4>4. CASE top # published \/ top = 0
        BY <4>1, <4>2, <4>4 DEF Highest, Numbers, Accepted
      <4> QED BY <4>3, <4>4
    <3> QED BY <3>1, <3>2
  <2>4. top <= made
    BY <2>3 DEF Numbering
  <2>5. appending' \notin unsynced'
    BY <2>1, <2>2 DEF Numbering
  <2> QED BY <2>1, <2>2, <2>3, <2>4, <2>5, EventFact DEF Numbering, Accepted
<1>19. ASSUME NEW s \in Segment, ReadSpool(s) PROVE Numbering'
  BY <1>19 DEF ReadSpool, Numbering, Accepted, diskVars, appendVars, passVars, netVars
<1>20. ASSUME NEW s \in Segment, NEW n \in 1..MaxMade, AckThrough(s, n) PROVE Numbering'
  BY <1>20 DEF AckThrough, Numbering, Accepted, diskVars, appendVars, passVars, netVars
<1>21. ASSUME NEW e \in Event, SendEvent(e) PROVE Numbering'
  BY <1>21 DEF SendEvent, Numbering, Accepted, diskVars, appendVars, passVars, netVars
<1>22. ASSUME NEW e \in Event, CommitHostEvent(e) PROVE Numbering'
  BY <1>22 DEF CommitHostEvent, Numbering, Accepted, diskVars, appendVars, passVars, netVars
<1>23. ASSUME NEW e \in Event, LoseRequest(e) PROVE Numbering'
  BY <1>23 DEF LoseRequest, Numbering, Accepted, diskVars, appendVars, passVars, netVars
<1>24. CASE UNCHANGED vars
  BY <1>24 DEF vars, diskVars, appendVars, passVars, netVars, Numbering, Accepted
<1>25. CASE AppendSyncFails
  <2>1. appending \in Accepted /\ appending # NoEvent
    BY <1>25, NoEventFact DEF AppendSyncFails, Linked, Accepted
  <2>2. UNCHANGED <<Accepted, loaded, sequence, made>>
    BY <1>25 DEF AppendSyncFails, Accepted, diskVars
  <2>3. unsynced' = unsynced \cup {appending} /\ appending' = NoEvent
    BY <1>25 DEF AppendSyncFails
  <2>4. appending.seq = sequence + 1
    BY <2>1 DEF Numbering
  <2> QED BY <2>1, <2>2, <2>3, <2>4 DEF Numbering
<1>26. ASSUME NEW e \in Event, AppendRepeated(e) PROVE Numbering'
  <2>1. e \in Accepted /\ e.seq = sequence + 1 /\ appending = NoEvent /\ loaded
    BY <1>26 DEF AppendRepeated, Accepted
  <2>2. UNCHANGED <<Accepted, loaded, appending, made>>
    BY <1>26 DEF AppendRepeated, Accepted, diskVars
  <2>3. sequence' = e.seq /\ unsynced' = unsynced \ {e}
    BY <1>26 DEF AppendRepeated
  <2>4. \A f \in Accepted : f.seq <= sequence \/ (f \in unsynced /\ f.seq = sequence + 1)
    BY <2>1, NoEventFact, AcceptedFact DEF Numbering
  <2>5. \A f \in Accepted : f.seq <= sequence'
    BY <2>1, <2>3, <2>4, EventFact DEF Accepted
  <2>6. \A f, g \in Accepted : f.seq = g.seq /\ f # g => f \in unsynced' \/ g \in unsynced'
    <3> SUFFICES ASSUME NEW f \in Accepted, NEW g \in Accepted, f.seq = g.seq, f # g
                 PROVE  f \in unsynced' \/ g \in unsynced'
      OBVIOUS
    <3>1. CASE f = e
      BY <2>1, <2>3, <2>4, <3>1, EventFact DEF Accepted
    <3>2. CASE g = e
      BY <2>1, <2>3, <2>4, <3>2, EventFact DEF Accepted
    <3>3. CASE f # e /\ g # e
      BY <2>3, <3>3 DEF Numbering
    <3> QED BY <3>1, <3>2, <3>3
  <2> QED BY <2>1, <2>2, <2>3, <2>5, <2>6 DEF Numbering
<1> QED
  BY <1>1, <1>2, <1>3, <1>4, <1>5, <1>6, <1>7, <1>8, <1>9, <1>10, <1>11, <1>12,
     <1>13, <1>14, <1>15, <1>16, <1>17, <1>18, <1>19, <1>20, <1>21, <1>22, <1>23, <1>24, <1>25, <1>26
     DEF Next, AppendNext, PublishNext, Commit

(* No step lets a cursor pass what the coordinator has stored.             *)
LEMMA CursorsStep == TypeOK /\ SpoolInv /\ [Next]_vars => Cursors'
<1> SUFFICES ASSUME TypeOK, SpoolInv, [Next]_vars PROVE Cursors'
  OBVIOUS
<1> USE DEF TypeOK, SpoolInv
<1>1. CASE AppendWriteFails
  BY <1>1 DEF AppendWriteFails, Cursors, Accepted, diskVars, appendVars, passVars, netVars
<1>2. CASE AppendLink
  BY <1>2 DEF AppendLink, Cursors, Accepted, diskVars, appendVars, passVars, netVars
<1>3. CASE AppendDone
  BY <1>3 DEF AppendDone, Cursors, Accepted, diskVars, appendVars, passVars, netVars
<1>4. CASE Connect
  BY <1>4 DEF Connect, Cursors, Accepted, diskVars, appendVars, passVars, netVars
<1>5. CASE Wake
  BY <1>5 DEF Wake, Cursors, Accepted, diskVars, appendVars, passVars, netVars
<1>6. CASE BeginPass
  BY <1>6 DEF BeginPass, Cursors, Accepted, diskVars, appendVars, passVars, netVars
<1>7. CASE SequenceGap
  BY <1>7 DEF SequenceGap, Cursors, Accepted, diskVars, appendVars, passVars, netVars
<1>8. CASE SendFails
  BY <1>8 DEF SendFails, Cursors, Accepted, diskVars, appendVars, passVars, netVars
<1>9. CASE ReceiveAck
  <2>1. CASE reply = "durable"
    BY <1>9, <2>1 DEF ReceiveAck, Requests, Cursors, Accepted, diskVars
  <2>2. CASE reply # "durable"
    BY <1>9, <2>2 DEF ReceiveAck, Cursors, Accepted, diskVars
  <2> QED BY <2>1, <2>2
<1>10. CASE BeginAck
  BY <1>10 DEF BeginAck, Cursors, Accepted, diskVars, appendVars, passVars, netVars
<1>11. CASE ArchiveLink
  <2>1. UNCHANGED <<Accepted, committed, published, last, ack>>
    BY <1>11, AcceptedKept DEF ArchiveLink, passVars, netVars
  <2>2. \A e \in archived' : e.seq <= Len(committed)
    <3>1. spool \in Segment /\ ack[spool] <= Len(committed)
      BY <1>11 DEF ArchiveLink, Pass, Cursors
    <3> QED BY <1>11, <3>1, EventFact DEF ArchiveLink, Covered, Cursors
  <2> QED BY <2>1, <2>2 DEF Cursors
<1>12. CASE ArchiveRemove
  BY <1>12, AcceptedKept DEF ArchiveRemove, Cursors, netVars
<1>13. CASE WritePublished
  BY <1>13 DEF WritePublished, Cursors, Accepted, diskVars, appendVars, passVars, netVars
<1>14. CASE NothingNew
  BY <1>14 DEF NothingNew, Cursors, Accepted, diskVars, appendVars, passVars, netVars
<1>15. CASE Disconnect
  BY <1>15 DEF Disconnect, Cursors, Accepted, diskVars, appendVars, passVars, netVars
<1>16. CASE Crash
  BY <1>16 DEF Crash, Cursors, Accepted, diskVars, appendVars, passVars, netVars
<1>17. CASE Restart
  BY <1>17 DEF Restart, Cursors, Accepted, diskVars, appendVars, passVars, netVars
<1>18. ASSUME NEW s \in Segment, NEW top \in 0..MaxMade, AppendStart(s, top) PROVE Cursors'
  BY <1>18 DEF AppendStart, Cursors, Accepted, diskVars, appendVars, passVars, netVars
<1>19. ASSUME NEW s \in Segment, ReadSpool(s) PROVE Cursors'
  <2>1. Larger(last, ack[s]) <= Len(committed)
    BY LargerFact DEF Cursors
  <2> QED BY <1>19, <2>1 DEF ReadSpool, Cursors, Accepted, diskVars, netVars
<1>20. ASSUME NEW s \in Segment, NEW n \in 1..MaxMade, AckThrough(s, n) PROVE Cursors'
  <2>1. n <= last
    BY <1>20, EventFact DEF AckThrough, Highest, Sent
  <2>2. n <= Len(committed)
    BY <2>1, BoundAssumption DEF Cursors
  <2>3. UNCHANGED <<Accepted, archived, committed, published, last>>
    BY <1>20 DEF AckThrough, Accepted, netVars
  <2>4. \E e \in Accepted : e.seg = s /\ e.seq = n
    BY <1>20 DEF AckThrough, Highest, Sent, Pass
  <2>5. ack' = [ack EXCEPT ![s] = n]
    BY <1>20 DEF AckThrough
  <2>6. \A t \in Segment :
            /\ ack'[t] <= Len(committed)
            /\ ack'[t] = 0 \/ \E e \in Accepted : e.seg = t /\ e.seq = ack'[t]
    BY <2>2, <2>4, <2>5 DEF Cursors
  <2> QED BY <2>3, <2>6 DEF Cursors
<1>21. ASSUME NEW e \in Event, SendEvent(e) PROVE Cursors'
  BY <1>21 DEF SendEvent, Cursors, Accepted, diskVars, appendVars, passVars, netVars
<1>22. ASSUME NEW e \in Event, CommitHostEvent(e) PROVE Cursors'
  <2>1. UNCHANGED <<Accepted, archived, published, last, ack>>
    BY <1>22 DEF CommitHostEvent, Accepted, diskVars, passVars
  <2>2. CASE committed' = committed
    BY <2>1, <2>2 DEF Cursors
  <2>3. CASE committed' # committed
    <3>1. committed' = Append(committed, e) /\ e.seq = Len(committed) + 1
      BY <1>22, <2>3 DEF CommitHostEvent
    <3>2. e \in Accepted
      BY <1>22 DEF CommitHostEvent, Requests
    <3>3. Len(committed') = Len(committed) + 1 /\ committed'[Len(committed) + 1] = e
      BY <3>1, AppendFact
    <3>4. \A i \in 1..Len(committed) : committed'[i] = committed[i]
      BY <3>1, AppendFact
    <3>5. \A i \in 1..Len(committed') :
            committed'[i] \in Accepted /\ committed'[i].seq = i
      <4> TAKE i \in 1..Len(committed')
      <4>1. CASE i = Len(committed) + 1
        BY <3>1, <3>2, <3>3, <4>1
      <4>2. CASE i \in 1..Len(committed)
        BY <3>4, <4>2 DEF Cursors
      <4> QED BY <3>3, <4>1, <4>2
    <3>6. /\ published <= Len(committed') /\ last <= Len(committed')
          /\ \A s \in Segment :
                /\ ack[s] <= Len(committed')
                /\ ack[s] = 0 \/ \E f \in Accepted : f.seg = s /\ f.seq = ack[s]
          /\ \A f \in archived : f.seq <= Len(committed')
      BY <3>3, EventFact DEF Cursors
    <3> QED BY <2>1, <3>5, <3>6 DEF Cursors
  <2> QED BY <2>2, <2>3
<1>23. ASSUME NEW e \in Event, LoseRequest(e) PROVE Cursors'
  BY <1>23 DEF LoseRequest, Cursors, Accepted, diskVars, appendVars, passVars, netVars
<1>24. CASE UNCHANGED vars
  BY <1>24 DEF vars, diskVars, appendVars, passVars, netVars, Cursors, Accepted
<1>25. CASE AppendSyncFails
  BY <1>25 DEF AppendSyncFails, Cursors, Accepted, diskVars, passVars, netVars
<1>26. ASSUME NEW e \in Event, AppendRepeated(e) PROVE Cursors'
  BY <1>26 DEF AppendRepeated, Cursors, Accepted, diskVars, passVars, netVars
<1> QED
  BY <1>1, <1>2, <1>3, <1>4, <1>5, <1>6, <1>7, <1>8, <1>9, <1>10, <1>11, <1>12,
     <1>13, <1>14, <1>15, <1>16, <1>17, <1>18, <1>19, <1>20, <1>21, <1>22, <1>23, <1>24, <1>25, <1>26
     DEF Next, AppendNext, PublishNext, Commit

(* No step puts a request on the wire that would be refused, a reused      *)
(* number apart.                                                           *)
LEMMA RequestsStep == TypeOK /\ SpoolInv /\ [Next]_vars => Requests'
<1> SUFFICES ASSUME TypeOK, SpoolInv, [Next]_vars PROVE Requests'
  OBVIOUS
<1> USE DEF TypeOK, SpoolInv
<1>1. CASE AppendWriteFails
  BY <1>1 DEF AppendWriteFails, Requests, Reused, Accepted, diskVars, appendVars, passVars, netVars
<1>2. CASE AppendLink
  BY <1>2 DEF AppendLink, Requests, Reused, Accepted, diskVars, appendVars, passVars, netVars
<1>3. CASE AppendDone
  BY <1>3 DEF AppendDone, Requests, Reused, Accepted, diskVars, appendVars, passVars, netVars
<1>4. CASE Connect
  BY <1>4 DEF Connect, Requests, Reused, Accepted, diskVars, appendVars, passVars, netVars
<1>5. CASE Wake
  BY <1>5 DEF Wake, Requests, Reused, Accepted, diskVars, appendVars, passVars, netVars
<1>6. CASE BeginPass
  BY <1>6 DEF BeginPass, Requests, Reused, Accepted, diskVars, appendVars, passVars, netVars
<1>7. CASE SequenceGap
  BY <1>7 DEF SequenceGap, Requests, Reused, Accepted, diskVars, appendVars, passVars, netVars
<1>8. CASE SendFails
  BY <1>8 DEF SendFails, Requests, Reused, Accepted, diskVars, appendVars, passVars, netVars
<1>9. CASE ReceiveAck
  BY <1>9 DEF ReceiveAck, Requests, Reused, Accepted, diskVars, appendVars, passVars, netVars
<1>10. CASE BeginAck
  BY <1>10 DEF BeginAck, Requests, Reused, Accepted, diskVars, appendVars, passVars, netVars
<1>11. CASE ArchiveLink
  BY <1>11 DEF ArchiveLink, Requests, Reused, Accepted, diskVars, appendVars, passVars, netVars
<1>12. CASE ArchiveRemove
  BY <1>12, AcceptedKept DEF ArchiveRemove, Requests, Reused, appendVars, netVars
<1>13. CASE WritePublished
  BY <1>13 DEF WritePublished, Requests, Reused, Accepted, diskVars, appendVars, passVars, netVars
<1>14. CASE NothingNew
  BY <1>14 DEF NothingNew, Requests, Reused, Accepted, diskVars, appendVars, passVars, netVars
<1>15. CASE Disconnect
  BY <1>15 DEF Disconnect, Requests, Reused, Accepted, diskVars, appendVars, passVars, netVars
<1>16. CASE Crash
  BY <1>16 DEF Crash, Requests, Reused, Accepted, diskVars, appendVars, passVars, netVars
<1>17. CASE Restart
  BY <1>17 DEF Restart, Requests, Reused, Accepted, diskVars, appendVars, passVars, netVars
<1>18. ASSUME NEW s \in Segment, NEW top \in 0..MaxMade, AppendStart(s, top) PROVE Requests'
  BY <1>18 DEF AppendStart, Requests, Reused, Accepted, diskVars, appendVars, passVars, netVars
<1>19. ASSUME NEW s \in Segment, ReadSpool(s) PROVE Requests'
  BY <1>19 DEF ReadSpool, Requests, Reused, Accepted, diskVars, appendVars, passVars, netVars
<1>20. ASSUME NEW s \in Segment, NEW n \in 1..MaxMade, AckThrough(s, n) PROVE Requests'
  BY <1>20 DEF AckThrough, Requests, Reused, Accepted, diskVars, appendVars, passVars, netVars
<1>21. ASSUME NEW e \in Event, SendEvent(e) PROVE Requests'
  <2>1. e \in Accepted /\ e.seq <= Len(committed) + 1
    BY <1>21, EventFact DEF SendEvent, Sendable, Unsent, Pass, Cursors
  <2> QED BY <1>21, <2>1 DEF SendEvent, Requests, Accepted, diskVars
<1>22. ASSUME NEW e \in Event, CommitHostEvent(e) PROVE Requests'
  <2>1. UNCHANGED <<Accepted, pc, last>> /\ wire' = wire \ {e} /\ e \in wire
    BY <1>22 DEF CommitHostEvent, Accepted, diskVars, passVars
  <2>2. e \in Accepted /\ e.seq <= Len(committed) + 1
    BY <2>1 DEF Requests
  <2>3. Known(e) \/ e.seq = Len(committed) + 1 \/ Reused(e.seq)
    <3>1. CASE e.seq <= Len(committed)
      <4>1. e.seq \in 1..Len(committed)
        BY <3>1, EventFact
      <4>2. committed[e.seq] \in Accepted /\ committed[e.seq].seq = e.seq
        BY <4>1 DEF Cursors
      <4>3. CASE committed[e.seq] = e
        BY <3>1, <4>3 DEF Known
      <4>4. CASE committed[e.seq] # e
        BY <2>2, <4>2, <4>4 DEF Reused, Numbering
      <4> QED BY <4>3, <4>4
    <3> QED BY <2>2, <3>1, EventFact
  <2>5. Len(committed') >= Len(committed) /\ Len(committed') \in Nat
    <3>1. CASE committed' = committed
      BY <3>1
    <3>2. CASE committed' # committed
      BY <1>22, <3>2, AppendFact DEF CommitHostEvent
    <3> QED BY <3>1, <3>2
  <2>6. Known(e) \/ e.seq = Len(committed) + 1 => e.seq <= Len(committed')
    <3>1. CASE Known(e)
      BY <2>5, <3>1, EventFact DEF Known
    <3>2. CASE ~Known(e) /\ e.seq = Len(committed) + 1
      BY <1>22, <3>2, AppendFact DEF CommitHostEvent
    <3> QED BY <3>1, <3>2
  <2>7. \A f \in wire' : f \in Accepted' /\ f.seq <= Len(committed') + 1
    BY <2>1, <2>5, EventFact DEF Requests
  <2>8. \/ reply' = reply
        \/ Awaited(e) /\ reply' = "durable" /\ e.seq <= Len(committed')
        \/ Awaited(e) /\ reply' = "refused" /\ Reused(e.seq)
    BY <1>22, <2>3, <2>6 DEF CommitHostEvent
  <2>9. reply' = "durable" => pc' = "wait" /\ last' + 1 <= Len(committed')
    BY <2>1, <2>5, <2>8 DEF Requests, Awaited, Sendable
  <2>10. ASSUME reply' = "refused" PROVE pc' = "wait" /\ Reused(last + 1)
    BY <2>1, <2>8, <2>10 DEF Requests, Awaited, Sendable
  <2>11. ASSUME Reused(last + 1) PROVE Reused(last + 1)'
    BY <1>22, <2>1, <2>11 DEF CommitHostEvent, appendVars, Reused
  <2> QED BY <2>7, <2>9, <2>10, <2>11 DEF Requests
<1>23. ASSUME NEW e \in Event, LoseRequest(e) PROVE Requests'
  BY <1>23 DEF LoseRequest, Requests, Reused, Accepted, diskVars, appendVars, passVars, netVars
<1>24. CASE UNCHANGED vars
  BY <1>24 DEF vars, diskVars, appendVars, passVars, netVars, Requests, Reused, Accepted
<1>25. CASE AppendSyncFails
  BY <1>25 DEF AppendSyncFails, Requests, Reused, Accepted, diskVars, passVars, netVars
<1>26. ASSUME NEW e \in Event, AppendRepeated(e) PROVE Requests'
  <2>1. UNCHANGED <<Accepted, wire, reply, last, pc, committed>>
    BY <1>26 DEF AppendRepeated, Accepted, diskVars, passVars, netVars
  <2>2. ASSUME NEW n \in Nat, Reused(n) PROVE Reused(n)'
    <3>1. PICK f \in unsynced, g \in Accepted : g # f /\ g.seq = n /\ f.seq = n
      BY <2>2 DEF Reused
    <3>2. Numbering' /\ f \in Accepted
      BY NumberingStep DEF Numbering
    <3>3. f \in unsynced' \/ g \in unsynced'
      BY <2>1, <3>1, <3>2 DEF Numbering
    <3> QED BY <2>1, <3>1, <3>2, <3>3 DEF Reused
  <2> QED BY <2>1, <2>2 DEF Requests
<1> QED
  BY <1>1, <1>2, <1>3, <1>4, <1>5, <1>6, <1>7, <1>8, <1>9, <1>10, <1>11, <1>12,
     <1>13, <1>14, <1>15, <1>16, <1>17, <1>18, <1>19, <1>20, <1>21, <1>22, <1>23, <1>24, <1>25, <1>26
     DEF Next, AppendNext, PublishNext, Commit

(* A pass keeps working on files that exist.                               *)
LEMMA PassStep == TypeOK /\ SpoolInv /\ [Next]_vars => Pass'
<1> SUFFICES ASSUME TypeOK, SpoolInv, [Next]_vars PROVE Pass'
  OBVIOUS
<1> USE DEF TypeOK, SpoolInv
<1>1. CASE AppendWriteFails
  BY <1>1 DEF AppendWriteFails, Pass, Accepted, Covered, diskVars, appendVars, passVars, netVars
<1>2. CASE AppendLink
  <2>1. /\ active' = active \cup {appending}
        /\ UNCHANGED <<archived, ack, pending, pc, spool>>
    BY <1>2 DEF AppendLink, passVars
  <2>2. pc = "remove" => Covered' = Covered
    <3> SUFFICES ASSUME pc = "remove" PROVE Covered' = Covered
      OBVIOUS
    <3>1. appending \in Event /\ appending \notin Accepted
      BY <1>2 DEF AppendLink, Linked, Accepted
    <3>2. /\ appending.seq = sequence + 1 /\ loaded
          /\ \A e \in Accepted : e.seg = appending.seg => e.seq <= sequence
      BY <1>2, <3>1, EventFact DEF AppendLink, Numbering, Accepted
    <3>3. /\ spool \in Segment
          /\ ack[spool] = 0 \/ \E e \in Accepted : e.seg = spool /\ e.seq = ack[spool]
      BY DEF Pass, Cursors
    <3>4. ~(appending.seg = spool /\ appending.seq <= ack[spool])
      BY <3>2, <3>3
    <3> QED BY <2>1, <3>4 DEF Covered
  <2> QED BY <2>1, <2>2 DEF Pass, Accepted
<1>3. CASE AppendDone
  BY <1>3 DEF AppendDone, Pass, Accepted, Covered, diskVars, appendVars, passVars, netVars
<1>4. CASE Connect
  BY <1>4 DEF Connect, Pass, Accepted, Covered, diskVars, appendVars, passVars, netVars
<1>5. CASE Wake
  BY <1>5 DEF Wake, Pass, Accepted, Covered, diskVars, appendVars, passVars, netVars
<1>6. CASE BeginPass
  BY <1>6 DEF BeginPass, Pass, Accepted, Covered, diskVars, appendVars, passVars, netVars
<1>7. CASE SequenceGap
  BY <1>7 DEF SequenceGap, Pass, Accepted, Covered, diskVars, appendVars, passVars, netVars
<1>8. CASE SendFails
  BY <1>8 DEF SendFails, Pass, Accepted, Covered, diskVars, appendVars, passVars, netVars
<1>9. CASE ReceiveAck
  BY <1>9 DEF ReceiveAck, Pass, Accepted, Covered, diskVars, appendVars, passVars, netVars
<1>10. CASE BeginAck
  BY <1>10 DEF BeginAck, Pass, Accepted, Covered, diskVars, appendVars, passVars, netVars
<1>11. CASE ArchiveLink
  BY <1>11 DEF ArchiveLink, Pass, Accepted, Covered, diskVars, appendVars, passVars, netVars
<1>12. CASE ArchiveRemove
  BY <1>12 DEF ArchiveRemove, Pass, Accepted, Covered, diskVars, appendVars, passVars, netVars
<1>13. CASE WritePublished
  BY <1>13 DEF WritePublished, PassDone, Pass, Accepted, Covered
<1>14. CASE NothingNew
  BY <1>14 DEF NothingNew, PassDone, Pass, Accepted, Covered, diskVars
<1>15. CASE Disconnect
  BY <1>15 DEF Disconnect, Pass, Accepted, Covered, diskVars, appendVars, passVars, netVars
<1>16. CASE Crash
  BY <1>16 DEF Crash, Pass, Accepted, Covered, diskVars, appendVars, passVars, netVars
<1>17. CASE Restart
  BY <1>17 DEF Restart, Pass, Accepted, Covered, diskVars, appendVars, passVars, netVars
<1>18. ASSUME NEW s \in Segment, NEW top \in 0..MaxMade, AppendStart(s, top) PROVE Pass'
  BY <1>18 DEF AppendStart, Pass, Accepted, Covered, diskVars, appendVars, passVars, netVars
<1>19. ASSUME NEW s \in Segment, ReadSpool(s) PROVE Pass'
  BY <1>19 DEF ReadSpool, Pass, Accepted, Covered, diskVars, appendVars, passVars, netVars
<1>20. ASSUME NEW s \in Segment, NEW n \in 1..MaxMade, AckThrough(s, n) PROVE Pass'
  BY <1>20 DEF AckThrough, Pass, Accepted, Covered, diskVars, appendVars, passVars, netVars
<1>21. ASSUME NEW e \in Event, SendEvent(e) PROVE Pass'
  BY <1>21 DEF SendEvent, Pass, Accepted, Covered, diskVars, appendVars, passVars, netVars
<1>22. ASSUME NEW e \in Event, CommitHostEvent(e) PROVE Pass'
  BY <1>22 DEF CommitHostEvent, Pass, Accepted, Covered, diskVars, appendVars, passVars, netVars
<1>23. ASSUME NEW e \in Event, LoseRequest(e) PROVE Pass'
  BY <1>23 DEF LoseRequest, Pass, Accepted, Covered, diskVars, appendVars, passVars, netVars
<1>24. CASE UNCHANGED vars
  BY <1>24 DEF vars, diskVars, appendVars, passVars, netVars, Pass, Accepted, Covered
<1>25. CASE AppendSyncFails
  BY <1>25 DEF AppendSyncFails, Pass, Accepted, Covered, diskVars, passVars
<1>26. ASSUME NEW e \in Event, AppendRepeated(e) PROVE Pass'
  BY <1>26 DEF AppendRepeated, Pass, Accepted, Covered, diskVars, passVars
<1> QED
  BY <1>1, <1>2, <1>3, <1>4, <1>5, <1>6, <1>7, <1>8, <1>9, <1>10, <1>11, <1>12,
     <1>13, <1>14, <1>15, <1>16, <1>17, <1>18, <1>19, <1>20, <1>21, <1>22, <1>23, <1>24, <1>25, <1>26
     DEF Next, AppendNext, PublishNext, Commit

(* The initial state is empty.                                             *)
LEMMA SpoolInit == Init => TypeOK /\ SpoolInv
<1> SUFFICES ASSUME Init PROVE TypeOK /\ SpoolInv
  OBVIOUS
<1>1. TypeOK
  <2>1. committed \in Seq(Event) /\ made \in 0..MaxMade /\ breaks \in 0..MaxBreaks
    BY BoundAssumption DEF Init
  <2>2. ack \in [Segment -> Nat] /\ published \in Nat /\ sequence \in Nat
        /\ last \in Nat
    BY DEF Init
  <2> QED BY <2>1, <2>2 DEF Init, TypeOK
<1>2. Len(committed) = 0 /\ Accepted = {}
  BY DEF Init, Accepted
<1> QED BY <1>1, <1>2
   DEF Init, SpoolInv, Numbering, Cursors, Requests, Pass, Accepted, NoEvent

(* The channel keeps its types and its strengthened invariant.             *)
THEOREM SpoolInvariant == Spec => [](TypeOK /\ SpoolInv)
<1>1. TypeOK /\ SpoolInv /\ [Next]_vars => (TypeOK /\ SpoolInv)'
  BY TypeStep, NumberingStep, CursorsStep, RequestsStep, PassStep DEF SpoolInv
<1> QED BY SpoolInit, <1>1, PTL DEF Spec

(* Nothing is archived, and no cursor written, before the coordinator has  *)
(* the event: for any number of segments, events and faults.               *)
THEOREM ArchivedCommitted == Spec => []ArchivedIsCommitted
<1>1. TypeOK /\ SpoolInv => ArchivedIsCommitted
  <2> SUFFICES ASSUME TypeOK, SpoolInv PROVE ArchivedIsCommitted
    OBVIOUS
  <2>1. ASSUME NEW e \in archived
        PROVE  /\ e.seq <= Len(committed)
               /\ committed[e.seq] = e \/ Reused(e.seq)
    <3>1. e.seq \in 1..Len(committed) /\ e \in Accepted
      BY EventFact DEF TypeOK, SpoolInv, Cursors, Accepted
    <3>2. committed[e.seq] \in Accepted /\ committed[e.seq].seq = e.seq
      BY <3>1 DEF SpoolInv, Cursors
    <3> QED BY <3>1, <3>2 DEF SpoolInv, Numbering, Reused
  <2> QED BY <2>1 DEF ArchivedIsCommitted, SpoolInv, Cursors
<1> QED BY <1>1, SpoolInvariant, PTL

(* The coordinator never refuses a replayed or a new event.                *)
THEOREM NotRefused == Spec => []NeverRefused
<1>1. TypeOK /\ SpoolInv => NeverRefused
  BY DEF SpoolInv, Requests, NeverRefused
<1> QED BY <1>1, SpoolInvariant, PTL

(* A step of the channel is a step of EventLog or leaves it as it is: a    *)
(* link accepts, a stored row delivers.                                    *)
LEMMA LogStep == TypeOK /\ SpoolInv /\ [Next]_vars => [Log!Next]_(Log!vars)
<1> SUFFICES ASSUME TypeOK, SpoolInv, [Next]_vars
             PROVE  [Log!Next]_(Log!vars)
  OBVIOUS
<1> USE DEF Log!vars
<1>1. CASE AppendWriteFails
  BY <1>1 DEF AppendWriteFails, Accepted, diskVars, netVars, appendVars
<1>2. CASE AppendLink
  <2>1. appending \in Event /\ appending \notin Accepted
    BY <1>2 DEF AppendLink, Linked, Accepted, TypeOK
  <2>2. Accepted' = Accepted \cup {appending} /\ committed' = committed
    BY <1>2 DEF AppendLink, Accepted, netVars, appendVars
  <2>3. Log!Latest(appending, Accepted) /\ Log!NoHole(appending, Accepted)
    <3>1. appending.seq = sequence + 1 /\ loaded
      BY <1>2 DEF AppendLink, SpoolInv, Numbering
    <3>2. \A e \in Accepted : e.seq <= sequence
                               \/ (e \in unsynced /\ e.seq = sequence + 1)
      BY <2>1, <3>1 DEF SpoolInv, Numbering
    <3>3. sequence = 0 \/ \E e \in Accepted : e.seq = sequence
      BY <3>1 DEF SpoolInv, Numbering
    <3>4. sequence \in Nat /\ \A e \in Accepted : e.seq \in Nat
      BY EventFact, AcceptedFact DEF TypeOK
    <3> QED BY <3>1, <3>2, <3>3, <3>4 DEF Log!Latest, Log!NoHole
  <2>4. Log!Accept(appending)
    BY <1>2, <2>1, <2>2, <2>3 DEF Log!Accept, AppendLink, appendVars
  <2> QED BY <2>1, <2>4 DEF Log!Next
<1>3. CASE AppendDone
  BY <1>3 DEF AppendDone, Accepted, diskVars, netVars, appendVars
<1>4. CASE Connect
  BY <1>4 DEF Connect, Accepted, diskVars, netVars, appendVars
<1>5. CASE Wake
  BY <1>5 DEF Wake, Accepted, diskVars, netVars, appendVars
<1>6. CASE BeginPass
  BY <1>6 DEF BeginPass, Accepted, diskVars, netVars, appendVars
<1>7. CASE SequenceGap
  BY <1>7 DEF SequenceGap, Accepted, diskVars, netVars, appendVars
<1>8. CASE SendFails
  BY <1>8 DEF SendFails, Accepted, diskVars, netVars, appendVars
<1>9. CASE ReceiveAck
  BY <1>9 DEF ReceiveAck, Accepted, diskVars, netVars, appendVars
<1>10. CASE BeginAck
  BY <1>10 DEF BeginAck, Accepted, diskVars, netVars, appendVars
<1>11. CASE ArchiveLink
  BY <1>11, AcceptedKept DEF ArchiveLink, netVars, appendVars
<1>12. CASE ArchiveRemove
  BY <1>12, AcceptedKept DEF ArchiveRemove, netVars, appendVars
<1>13. CASE WritePublished
  BY <1>13 DEF WritePublished, Accepted, diskVars, netVars, appendVars
<1>14. CASE NothingNew
  BY <1>14 DEF NothingNew, Accepted, diskVars, netVars, appendVars
<1>15. CASE Disconnect
  BY <1>15 DEF Disconnect, Accepted, diskVars, netVars, appendVars
<1>16. CASE Crash
  BY <1>16 DEF Crash, Accepted, diskVars, netVars, appendVars
<1>17. CASE Restart
  BY <1>17 DEF Restart, Accepted, diskVars, netVars, appendVars
<1>18. ASSUME NEW s \in Segment, NEW top \in 0..MaxMade, AppendStart(s, top) PROVE [Log!Next]_(Log!vars)
  BY <1>18 DEF AppendStart, Accepted, diskVars, netVars, appendVars
<1>19. ASSUME NEW s \in Segment, ReadSpool(s) PROVE [Log!Next]_(Log!vars)
  BY <1>19 DEF ReadSpool, Accepted, diskVars, netVars, appendVars
<1>20. ASSUME NEW s \in Segment, NEW n \in 1..MaxMade, AckThrough(s, n) PROVE [Log!Next]_(Log!vars)
  BY <1>20 DEF AckThrough, Accepted, diskVars, netVars, appendVars
<1>21. ASSUME NEW e \in Event, SendEvent(e) PROVE [Log!Next]_(Log!vars)
  BY <1>21 DEF SendEvent, Accepted, diskVars, netVars, appendVars
<1>22. ASSUME NEW e \in Event, CommitHostEvent(e) PROVE [Log!Next]_(Log!vars)
  <2>1. UNCHANGED <<Accepted, unsynced>> /\ e \in Accepted
    BY <1>22 DEF CommitHostEvent, Accepted, diskVars, appendVars, SpoolInv, Requests
  <2>2. CASE committed' = committed
    BY <2>1, <2>2
  <2>3. CASE committed' # committed
    <3>1. committed' = Append(committed, e) /\ e.seq = Len(committed) + 1
      BY <1>22, <2>3 DEF CommitHostEvent
    <3> QED BY <2>1, <3>1 DEF Log!Deliver, Log!Next
  <2> QED BY <2>2, <2>3
<1>23. ASSUME NEW e \in Event, LoseRequest(e) PROVE [Log!Next]_(Log!vars)
  BY <1>23 DEF LoseRequest, Accepted, diskVars, netVars, appendVars
<1>24. CASE UNCHANGED vars
  BY <1>24 DEF vars, diskVars, appendVars, passVars, netVars, Accepted
<1>25. CASE AppendSyncFails
  <2>1. appending \in Event /\ appending \in Accepted /\ appending \notin unsynced
    BY <1>25, NoEventFact DEF AppendSyncFails, Linked, Accepted, TypeOK, SpoolInv, Numbering
  <2>2. Log!Latest(appending, Accepted)
    <3>1. appending.seq = sequence + 1 /\ loaded
      BY <2>1, NoEventFact DEF SpoolInv, Numbering
    <3> QED BY <2>1, <3>1, EventFact DEF Log!Latest, SpoolInv, Numbering, TypeOK, Accepted
  <2>3. Log!Doubt(appending)
    BY <1>25, <2>1, <2>2 DEF Log!Doubt, AppendSyncFails, Accepted, diskVars, netVars
  <2> QED BY <2>1, <2>3 DEF Log!Next
<1>26. ASSUME NEW e \in Event, AppendRepeated(e) PROVE [Log!Next]_(Log!vars)
  <2>1. e \in Accepted /\ e.seq = sequence + 1 /\ appending = NoEvent /\ loaded
    BY <1>26 DEF AppendRepeated, Accepted
  <2>2. \A f \in Accepted : f.seq <= sequence \/ (f \in unsynced /\ f.seq = sequence + 1)
    BY <2>1, NoEventFact, AcceptedFact DEF SpoolInv, Numbering
  <2>3. e \in unsynced /\ Log!Latest(e, Accepted)
    BY <2>1, <2>2, EventFact DEF Log!Latest, TypeOK, Accepted
  <2>4. Log!Confirm(e)
    BY <1>26, <2>3 DEF Log!Confirm, AppendRepeated, Accepted, diskVars, netVars
  <2> QED BY <2>4 DEF Log!Next
<1> QED
  BY <1>1, <1>2, <1>3, <1>4, <1>5, <1>6, <1>7, <1>8, <1>9, <1>10, <1>11, <1>12,
     <1>13, <1>14, <1>15, <1>16, <1>17, <1>18, <1>19, <1>20, <1>21, <1>22, <1>23, <1>24, <1>25, <1>26
     DEF Next, AppendNext, PublishNext, Commit

(* The spools, the publisher and the coordinator implement EventLog: what  *)
(* the host accepted is delivered in order, exactly once, for every number *)
(* of segments and through every crash and lost connection.                *)
THEOREM LogImplemented == Spec => ImplementsLog
<1>1. Init => Log!Init
  BY DEF Init, Log!Init, Accepted
<1> QED BY <1>1, LogStep, SpoolInvariant, PTL DEF Spec, Log!Spec, ImplementsLog

=============================================================================
