------------------------ MODULE OwnerDeliveryProofs ------------------------
(***************************************************************************)
(* Proofs about OwnerDelivery, for every size of a page and every bound:   *)
(* decisions take effect once (DecisionsSound), what an owner reads is     *)
(* complete and can be acted on (CollectionComplete), and a request that   *)
(* waits for events is woken (NoLostWakeup).                               *)
(*                                                                         *)
(* The records of a decision, a review, a retry or an answer, outlive the  *)
(* segment they are about.  The invariant ties each of them to the status  *)
(* the task has while that segment, or its attempt, is the latest one.     *)
(***************************************************************************)
EXTENDS OwnerDelivery, SequenceTheorems, FiniteSetTheorems, WellFoundedInduction, TLAPS

\* Segments belong to attempts that only grow, events to segments.
Numbered ==
    /\ Len(segments) <= MaxSegments /\ Len(events) <= MaxEvents
    /\ \A i \in DOMAIN segments : segments[i] <= i
    /\ \A i, j \in DOMAIN segments : i <= j => segments[i] <= segments[j]
    /\ \A e \in DOMAIN events : events[e].segment \in DOMAIN segments
    /\ task # "ready" => segments # <<>>

\* An open question is the outcome of the current segment, and the only one.
Asked ==
    /\ \A e \in Slots : question[e] = "open" =>
          /\ e \in DOMAIN events /\ Current(e) /\ outcome = "question"
          /\ task \in {"running", "waiting_question"}
    /\ \A d, e \in Slots : question[d] = "open" /\ question[e] = "open" => d = e

\* A reviewed result of the current segment has ended the work on it.
Judged ==
    \A e \in Slots : reviewed[e] # "none" =>
        /\ e \in DOMAIN events
        /\ Current(e) => task \in {"completed", "failed", "ready"}

\* While the retried attempt is the latest one, its task waits for the retry.
Requeued ==
    \A e \in retried : e \in DOMAIN events /\ (Attempt(e) = LatestAttempt => task = "ready")

\* What a walk over the pages has not returned lies behind its cursor.
Walked ==
    /\ scan.owed \subseteq DOMAIN events
    /\ scan.open => \A e \in scan.owed \cap Pending : e \in scan.seen \/ e > scan.at
    /\ ScanComplete

\* A request has seen no signal that is not there yet.
Woken == waiter.saw <= signal.count /\ NoLostWakeup

\* The inductive invariant.
OwnerInv ==
    /\ TypeOK /\ Numbered /\ Asked /\ Judged /\ Requeued /\ Walked /\ Woken
    /\ DecisionsAgree /\ OneRetryPerAttempt /\ CauseForEverySegment
-----------------------------------------------------------------------------
(* The operators of the model.                                             *)

(* Every set of natural numbers that is not empty has a least element.     *)
LEMMA LeastFact == ASSUME NEW S \in SUBSET Nat, S # {} PROVE \E m \in S : \A n \in S : m <= n
<1> DEFINE less == OpToRel(<, Nat)
<1>1. \A x, y \in Nat : x < y => <<x, y>> \in less BY Zenon DEF OpToRel
<1>2. IsWellFoundedOn(less, Nat) BY NatLessThanWellFounded
<1> HIDE DEF less
<1>3. PICK m \in S : \A n \in S : <<n, m>> \notin less BY <1>2, WFMin
<1>4. \A n \in S : ~(n < m) BY <1>1, <1>3
<1> QED BY <1>4

(* The bounds are natural numbers, and no decision is the absence of one.  *)
LEMMA BoundsFact ==
    /\ PageLimit \in Nat /\ PageLimit >= 1 /\ MaxEvents \in Nat /\ MaxSegments \in Nat
    /\ MaxRevision \in Nat /\ MaxRevision >= 1 /\ MaxWaits \in Nat /\ "none" \notin Decisions
BY OwnerAssumption DEF OwnerDeliveryParameters

(* The last event of a page is the largest one.                            *)
LEMMA LastOfFact ==
    ASSUME NEW p \in SUBSET Slots, p # {}
    PROVE  LastOf(p) \in p /\ \A d \in p : d <= LastOf(p)
<1> DEFINE T == {MaxEvents - x : x \in p}
<1>0. \A x \in p : x \in Nat /\ x <= MaxEvents BY BoundsFact DEF Slots
<1>1. T \in SUBSET Nat /\ T # {} BY <1>0, BoundsFact
<1> HIDE DEF T
<1>2. PICK m \in T : \A n \in T : m <= n BY <1>1, LeastFact
<1>3. PICK x \in p : m = MaxEvents - x BY DEF T
<1>4. \A y \in p : MaxEvents - x <= MaxEvents - y BY <1>2, <1>3 DEF T
<1>5. \A y \in p : y <= x BY <1>0, <1>4, BoundsFact
<1> QED BY <1>5 DEF LastOf

(* A page has the first of the events it is taken from, and is empty only  *)
(* if there are none.                                                      *)
LEMMA FirstOfFact ==
    ASSUME NEW S \in SUBSET Slots
    PROVE  /\ FirstOf(S) \subseteq S
           /\ \A e \in FirstOf(S), d \in S : d <= e => d \in FirstOf(S)
           /\ S # {} => FirstOf(S) # {}
<1> DEFINE Upto(e) == {x \in S : x <= e}
<1>1. IsFiniteSet(Slots) BY BoundsFact, FS_Interval DEF Slots
<1>2. IsFiniteSet(S) BY <1>1, FS_Subset
<1>3. \A e : IsFiniteSet(Upto(e)) /\ Cardinality(Upto(e)) \in Nat
  BY <1>2, FS_Subset, FS_CardinalityType
<1>4. S \subseteq Nat BY BoundsFact DEF Slots
<1>5. FirstOf(S) = {e \in S : Cardinality(Upto(e)) <= PageLimit} BY DEF FirstOf
<1>6. ASSUME NEW e \in FirstOf(S), NEW d \in S, d <= e PROVE d \in FirstOf(S)
  <2>0. e \in S BY <1>5
  <2>1. Upto(d) \subseteq Upto(e)
    <3> SUFFICES ASSUME NEW x \in S, x <= d PROVE x <= e OBVIOUS
    <3>1. x \in Nat /\ d \in Nat /\ e \in Nat BY <1>4, <2>0
    <3> QED BY <1>6, <3>1
  <2>2. Cardinality(Upto(d)) <= Cardinality(Upto(e)) BY <1>3, <2>1, FS_Subset
  <2>3. Cardinality(Upto(e)) <= PageLimit BY <1>5
  <2> HIDE DEF Upto
  <2>4. Cardinality(Upto(d)) <= PageLimit BY <1>3, <2>2, <2>3, BoundsFact
  <2> QED BY <1>5, <2>4
<1>7. ASSUME S # {} PROVE FirstOf(S) # {}
  <2>1. PICK m \in S : \A n \in S : m <= n BY <1>4, <1>7, LeastFact
  <2>2. Upto(m) = {m}
    <3>1. \A x \in S : x <= m => x = m
      <4> SUFFICES ASSUME NEW x \in S, x <= m PROVE x = m OBVIOUS
      <4>1. x \in Nat /\ m \in Nat /\ m <= x BY <1>4, <2>1
      <4> QED BY <4>1
    <3>2. m <= m BY <1>4
    <3> QED BY <3>1, <3>2
  <2>3. Cardinality(Upto(m)) = 1 BY <2>2, FS_Singleton
  <2> HIDE DEF Upto
  <2>4. m \in FirstOf(S) BY <1>5, <2>3, BoundsFact
  <2> QED BY <2>4
<1>8. FirstOf(S) \subseteq S BY <1>5
<1> QED BY <1>6, <1>7, <1>8

(* The sequences are indexed by the natural numbers up to their lengths.   *)
LEMMA LenFact ==
    ASSUME TypeOK
    PROVE  /\ DOMAIN events = 1 .. Len(events) /\ Len(events) \in Nat
           /\ DOMAIN segments = 1 .. Len(segments) /\ Len(segments) \in Nat
           /\ \A e \in DOMAIN events : events[e] \in Event
           /\ \A i \in DOMAIN segments : segments[i] \in 1 .. MaxSegments
<1>1. events \in Seq(Event) /\ segments \in Seq(1 .. MaxSegments) BY DEF TypeOK
<1> QED BY <1>1, LenProperties, ElementOfSeq

(* The events are slots, and so are the pending ones.                      *)
LEMMA SlotsFact ==
    ASSUME TypeOK, Numbered
    PROVE  DOMAIN events \in SUBSET Slots /\ Pending \in SUBSET Slots
BY LenFact, BoundsFact DEF Numbered, Slots, Pending

(* An event is recorded behind the others, for the current segment.        *)
LEMMA RecordFact ==
    ASSUME TypeOK, Numbered, task = "running", NEW from \in {"host", "report"},
           NEW k \in {"question", "result", "failed", "stopped"}, Record(k, from)
    PROVE  /\ events' \in Seq(Event) /\ Len(events') = Len(events) + 1
           /\ Len(events) + 1 <= MaxEvents /\ Len(events) + 1 \in Slots
           /\ DOMAIN events' = 1 .. Len(events) + 1
           /\ \A e \in DOMAIN events : e \in DOMAIN events' /\ events'[e] = events[e]
           /\ \A e \in DOMAIN events' : e \in DOMAIN events \/ e = Len(events) + 1
           /\ events'[Len(events) + 1] = [kind |-> k, from |-> from, segment |-> Len(segments),
                                          revision |-> revision]
           /\ Len(segments) \in DOMAIN segments
<1> DEFINE x == [kind |-> k, from |-> from, segment |-> Len(segments), revision |-> revision]
           n == Len(events)
<1>1. Len(segments) \in 1 .. MaxSegments
  <2>1. segments # <<>> /\ Len(segments) <= MaxSegments /\ segments \in Seq(1 .. MaxSegments)
    BY DEF Numbered, TypeOK
  <2>2. Len(segments) \in Nat /\ Len(segments) # 0 BY <2>1, EmptySeq
  <2> QED BY <2>1, <2>2, BoundsFact
<1>2. x \in Event BY <1>1 DEF Event, TypeOK
<1>3. events \in Seq(Event) /\ events' = Append(events, x) /\ n < MaxEvents
  BY DEF TypeOK, Record
<1> HIDE DEF x
<1>4. /\ Append(events, x) \in Seq(Event) /\ Len(Append(events, x)) = n + 1
      /\ \A i \in 1 .. n : Append(events, x)[i] = events[i]
      /\ Append(events, x)[n + 1] = x
  BY <1>2, <1>3, AppendProperties
<1>5. DOMAIN events = 1 .. n /\ n \in Nat /\ DOMAIN segments = 1 .. Len(segments) BY LenFact
<1>6. DOMAIN events' = 1 .. n + 1 BY <1>3, <1>4
<1>7. n + 1 \in Slots /\ n + 1 <= MaxEvents BY <1>3, <1>5, BoundsFact DEF Slots
<1>8. \A e \in 1 .. n + 1 : e \in 1 .. n \/ e = n + 1 BY <1>5
<1>9. Len(segments) \in DOMAIN segments BY <1>1, <1>5
<1> QED BY <1>3, <1>4, <1>5, <1>6, <1>7, <1>8, <1>9 DEF x

(* A claim appends a segment of the latest attempt or of a new one.        *)
LEMMA StartFact ==
    ASSUME TypeOK, Numbered, Start
    PROVE  /\ segments' \in Seq(1 .. MaxSegments) /\ Len(segments') = Len(segments) + 1
           /\ Len(segments) + 1 <= MaxSegments
           /\ DOMAIN segments' = 1 .. Len(segments) + 1
           /\ \A i \in DOMAIN segments : i \in DOMAIN segments' /\ segments'[i] = segments[i]
           /\ segments'[Len(segments) + 1] <= Len(segments) + 1
           /\ \A i \in DOMAIN segments : segments[i] <= segments'[Len(segments) + 1]
           /\ task = "ready" => \A i \in DOMAIN segments : segments[i] < segments'[Len(segments) + 1]
           /\ task # "ready" => segments # <<>> /\ segments'[Len(segments) + 1] = LatestAttempt
<1> DEFINE n == Len(segments)
<1>0. PICK x : x = IF segments = <<>> THEN 1
                   ELSE IF task = "ready" THEN LatestAttempt + 1 ELSE LatestAttempt
  OBVIOUS
<1>1. segments \in Seq(1 .. MaxSegments) /\ n < MaxSegments /\ segments' = Append(segments, x)
  BY <1>0 DEF TypeOK, Start
<1>2. n \in Nat /\ DOMAIN segments = 1 .. n /\ \A i \in DOMAIN segments : segments[i] \in Nat /\ segments[i] >= 1
  BY LenFact, BoundsFact
<1>3. CASE segments = <<>>
  <2>1. x = 1 /\ n = 0 /\ task = "ready" BY <1>0, <1>3 DEF Numbered
  <2>2. x \in 1 .. MaxSegments BY <1>1, <2>1, BoundsFact
  <2>3. /\ segments' \in Seq(1 .. MaxSegments) /\ Len(segments') = n + 1
        /\ segments'[n + 1] = x
    BY <1>1, <2>2, AppendProperties
  <2>4. DOMAIN segments' = 1 .. n + 1 BY <2>3
  <2>5. DOMAIN segments = {} BY <1>2, <2>1
  <2> QED BY <1>1, <2>1, <2>3, <2>4, <2>5
<1>4. CASE segments # <<>>
  <2>1. n >= 1 /\ n \in DOMAIN segments BY <1>1, <1>2, <1>4, EmptySeq
  <2>2. LatestAttempt = segments[n] BY DEF LatestAttempt, Last
  <2>3. segments[n] <= n /\ \A i \in DOMAIN segments : segments[i] <= segments[n]
    BY <1>2, <2>1 DEF Numbered
  <2>4. /\ x \in Nat /\ x >= segments[n] /\ x <= n + 1 /\ x >= 1
        /\ task = "ready" => x = segments[n] + 1
        /\ task # "ready" => x = segments[n]
    BY <1>0, <1>2, <1>4, <2>1, <2>2, <2>3
  <2>5. x \in 1 .. MaxSegments BY <1>1, <1>2, <2>4, BoundsFact
  <2>6. /\ segments' \in Seq(1 .. MaxSegments) /\ Len(segments') = n + 1
        /\ \A i \in 1 .. n : segments'[i] = segments[i]
        /\ segments'[n + 1] = x
    BY <1>1, <2>5, AppendProperties
  <2>7. DOMAIN segments' = 1 .. n + 1 BY <2>6
  <2>8. \A i \in DOMAIN segments : segments[i] <= x /\ (task = "ready" => segments[i] < x)
    <3> SUFFICES ASSUME NEW i \in DOMAIN segments
                 PROVE  segments[i] <= x /\ (task = "ready" => segments[i] < x)
      OBVIOUS
    <3>1. segments[i] <= segments[n] /\ segments[i] \in Nat /\ segments[n] \in Nat BY <1>2, <2>1, <2>3
    <3> QED BY <2>4, <3>1
  <2>9. \A i \in DOMAIN segments : i \in 1 .. n + 1 /\ segments'[i] = segments[i]
    BY <1>2, <2>6
  <2>10. n + 1 <= MaxSegments BY <1>1, <1>2, BoundsFact
  <2> HIDE DEF n
  <2> QED BY <1>4, <2>2, <2>4, <2>6, <2>7, <2>8, <2>9, <2>10 DEF n
<1> QED BY <1>3, <1>4

(* Events belong to attempts that are not later than the latest one, which *)
(* is the attempt of the events of the current segment.                    *)
LEMMA CurrentFact ==
    ASSUME TypeOK, Numbered, NEW e \in DOMAIN events
    PROVE  /\ events[e].segment \in DOMAIN segments /\ Attempt(e) \in Nat
           /\ Current(e) => Attempt(e) = LatestAttempt
           /\ LatestAttempt = segments[Len(segments)]
<1>1. events[e].segment \in DOMAIN segments BY DEF Numbered
<1>2. segments[events[e].segment] \in Nat BY <1>1, LenFact, BoundsFact
<1> QED BY <1>1, <1>2 DEF Attempt, Current, LatestAttempt, Last

(* A claim leaves every event with its attempt, and none is current.       *)
LEMMA StartedFact ==
    ASSUME TypeOK, Numbered, Start, NEW e \in DOMAIN events
    PROVE  /\ events' = events /\ ~Current(e)' /\ Attempt(e)' = Attempt(e)
           /\ Attempt(e) \in Nat
           /\ task = "ready" => Attempt(e) < LatestAttempt'
           /\ task # "ready" => LatestAttempt' = LatestAttempt
<1> DEFINE n == Len(segments)
<1>1. events' = events BY DEF Start
<1>2. events[e].segment \in DOMAIN segments /\ Attempt(e) \in Nat BY CurrentFact
<1>3. n \in Nat /\ DOMAIN segments = 1 .. n BY LenFact
<1>4. Len(segments') = n + 1 /\ segments'[events[e].segment] = segments[events[e].segment]
  BY <1>2, StartFact
<1>5. LatestAttempt' = segments'[n + 1] BY <1>4 DEF LatestAttempt, Last
<1>6. task = "ready" => segments[events[e].segment] < segments'[n + 1] BY <1>2, StartFact
<1>7. task # "ready" => segments'[n + 1] = LatestAttempt BY StartFact
<1>8. events[e].segment # n + 1 BY <1>2, <1>3
<1> HIDE DEF n
<1> QED BY <1>1, <1>2, <1>4, <1>5, <1>6, <1>7, <1>8 DEF Attempt, Current

(* A recorded event leaves the others as they are.                         *)
LEMMA RecordedFact ==
    ASSUME TypeOK, Numbered, task = "running", NEW from \in {"host", "report"},
           NEW k \in {"question", "result", "failed", "stopped"}, Record(k, from),
           UNCHANGED segments
    PROVE  /\ DOMAIN events \subseteq DOMAIN events'
           /\ \A e \in DOMAIN events :
                Current(e)' = Current(e) /\ Attempt(e)' = Attempt(e)
           /\ LatestAttempt' = LatestAttempt
           /\ Len(events) + 1 \in DOMAIN events' /\ Len(events) + 1 \notin DOMAIN events
           /\ \A e \in DOMAIN events' \ DOMAIN events : e = Len(events) + 1 /\ Current(e)'
<1>1. \A e \in DOMAIN events : e \in DOMAIN events' /\ events'[e] = events[e] BY RecordFact
<1>2. DOMAIN events = 1 .. Len(events) /\ Len(events) \in Nat BY LenFact
<1>3. Len(events) + 1 \in DOMAIN events' BY <1>2, RecordFact
<1>4. events'[Len(events) + 1].segment = Len(segments) BY RecordFact
<1>5. \A e \in DOMAIN events' : e \in DOMAIN events \/ e = Len(events) + 1 BY RecordFact
<1>6. Len(events) + 1 \notin DOMAIN events BY <1>2
<1>7. \A e \in DOMAIN events : Current(e)' = Current(e) /\ Attempt(e)' = Attempt(e)
  BY <1>1 DEF Current, Attempt
<1>8. \A e \in DOMAIN events' \ DOMAIN events : e = Len(events) + 1 /\ Current(e)'
  BY <1>4, <1>5 DEF Current
<1>9. LatestAttempt' = LatestAttempt BY DEF LatestAttempt
<1> QED BY <1>1, <1>3, <1>6, <1>7, <1>8, <1>9

-----------------------------------------------------------------------------
(* The parts of the invariant, one after the other.                        *)

(* Attempts and segments are numbered upwards by every step (ClaimReady).  *)
LEMMA NumberedStep == ASSUME TypeOK, Numbered, Step PROVE Numbered'
<1>1. CASE UNCHANGED <<segments, events>> /\ (task' # "ready" => task # "ready")
  BY <1>1 DEF Numbered
<1>2. ASSUME UNCHANGED <<segments, events>>, task # "ready" PROVE Numbered'
  BY <1>2 DEF Numbered
<1>3. CASE Start
  <2> DEFINE n == Len(segments)
  <2>1. /\ Len(segments') = n + 1 /\ n + 1 <= MaxSegments /\ DOMAIN segments' = 1 .. n + 1
        /\ \A i \in DOMAIN segments : i \in DOMAIN segments' /\ segments'[i] = segments[i]
        /\ segments'[n + 1] <= n + 1
        /\ \A i \in DOMAIN segments : segments[i] <= segments'[n + 1]
        /\ segments' \in Seq(1 .. MaxSegments)
    BY <1>3, StartFact
  <2>2. n \in Nat /\ DOMAIN segments = 1 .. n BY LenFact
  <2>3. events' = events BY <1>3 DEF Start
  <2>4. segments' # <<>> BY <2>1, <2>2
  <2>5. segments'[n + 1] \in Nat BY <2>1, <2>2, BoundsFact
  <2>6. \A i \in 1 .. n + 1 : i \in 1 .. n \/ i = n + 1 BY <2>2
  <2>7. \A i \in DOMAIN segments' : segments'[i] <= i
    <3> SUFFICES ASSUME NEW i \in DOMAIN segments' PROVE segments'[i] <= i OBVIOUS
    <3>1. CASE i = n + 1 BY <2>1, <3>1
    <3>2. CASE i \in DOMAIN segments BY <2>1, <3>2 DEF Numbered
    <3> QED BY <2>1, <2>2, <2>6, <3>1, <3>2
  <2>8. ASSUME NEW i \in DOMAIN segments', NEW j \in DOMAIN segments', i <= j
        PROVE  segments'[i] <= segments'[j]
    <3>0. i \in Nat /\ j \in Nat /\ j <= n + 1 BY <2>1, <2>2
    <3>1. CASE j = n + 1 /\ i = n + 1 BY <2>5, <3>1
    <3>2. CASE j = n + 1 /\ i \in DOMAIN segments BY <2>1, <3>2
    <3>3. CASE j \in DOMAIN segments
      <4>1. i \in DOMAIN segments BY <2>1, <2>2, <2>8, <3>0, <3>3
      <4> QED BY <2>1, <2>8, <3>3, <4>1 DEF Numbered
    <3> QED BY <2>1, <2>2, <2>6, <3>1, <3>2, <3>3
  <2>9. Len(events) <= MaxEvents /\ \A e \in DOMAIN events : events[e].segment \in DOMAIN segments'
    BY <2>1 DEF Numbered
  <2>10. Len(segments') <= MaxSegments BY <2>1
  <2> QED BY <2>3, <2>4, <2>7, <2>8, <2>9, <2>10 DEF Numbered
<1>4. ASSUME NEW k \in {"question", "result", "failed", "stopped"}, NEW from \in {"host", "report"},
             task = "running", Record(k, from), UNCHANGED segments
      PROVE  Numbered'
  <2>1. /\ Len(events') = Len(events) + 1 /\ Len(events) + 1 <= MaxEvents
        /\ \A e \in DOMAIN events : events'[e] = events[e]
        /\ \A e \in DOMAIN events' : e \in DOMAIN events \/ e = Len(events) + 1
        /\ events'[Len(events) + 1].segment = Len(segments)
        /\ Len(segments) \in DOMAIN segments
    BY <1>4, RecordFact
  <2>2. \A e \in DOMAIN events' : events'[e].segment \in DOMAIN segments BY <2>1 DEF Numbered
  <2>3. segments # <<>> BY <1>4 DEF Numbered
  <2> QED BY <1>4, <2>1, <2>2, <2>3 DEF Numbered
<1>5. ASSUME NEW k \in {"question", "result"}, Report(k) PROVE Numbered'
  BY <1>4, <1>5 DEF Report
<1>6. ASSUME NEW k \in {"question", "result", "failed", "stopped"}, End(k) PROVE Numbered'
  BY <1>4, <1>6 DEF End
<1>7. CASE Notify \/ OpenScan \/ Collect \/ Arm \/ Look \/ Wake \/ Timeout
  BY <1>1, <1>7 DEF Notify, OpenScan, Collect, Arm, Look, Wake, Timeout, work
<1>8. CASE Resume \/ Rework BY <1>2, <1>8 DEF Resume, Rework
<1>9. ASSUME NEW p \in pages, NEW f, Ack(p, f) PROVE Numbered' BY <1>1, <1>9 DEF Ack, work
<1>10. ASSUME NEW e \in DOMAIN events, Answer(e) PROVE Numbered'
  BY <1>2, <1>10 DEF Answer, Answerable
<1>11. ASSUME NEW e \in DOMAIN events, Retry(e) PROVE Numbered'
  BY <1>2, <1>11 DEF Retry, Retryable
<1>12. ASSUME NEW e \in DOMAIN events, NEW d, Review(e, d) PROVE Numbered'
  BY <1>2, <1>12 DEF Review, Reviewable
<1> QED BY <1>3, <1>5, <1>6, <1>7, <1>8, <1>9, <1>10, <1>11, <1>12 DEF Step

(* A question opens only as the outcome of a segment that has none, and is *)
(* closed by its answer (AnswerQuestion).                                  *)
LEMMA AskedStep == ASSUME TypeOK, Numbered, Asked, Step PROVE Asked'
<1>0. Slots' = Slots BY DEF Slots
<1>1. ASSUME UNCHANGED <<segments, events, outcome, task, question>> PROVE Asked'
  BY <1>0, <1>1 DEF Asked, Current
<1>2. ASSUME \A e \in Slots : question'[e] # "open" PROVE Asked' BY <1>0, <1>2 DEF Asked
<1>3. ASSUME task \notin {"running", "waiting_question"} PROVE \A e \in Slots : question[e] # "open"
  BY <1>3 DEF Asked
<1>4. CASE Start
  <2>1. \A e \in Slots : question[e] # "open" BY <1>3, <1>4 DEF Start
  <2>2. \A e \in Slots : question'[e] # "open" BY <1>4, <2>1 DEF Start
  <2> QED BY <1>2, <2>2
<1>5. ASSUME NEW k \in {"question", "result", "failed", "stopped"}, NEW from \in {"host", "report"},
             task = "running", Record(k, from), UNCHANGED segments, k = "question" => outcome = "",
             task' \in {"running", "waiting_question"} \/ outcome' # "question",
             outcome = "question" => outcome' = "question", k = "question" => outcome' = "question",
             \A e \in Slots : question'[e] = "open" =>
                question[e] = "open" \/ (k = "question" /\ e = Len(events) + 1)
      PROVE  Asked'
  <2> DEFINE n == Len(events) + 1
  <2>1. /\ DOMAIN events \subseteq DOMAIN events' /\ n \in DOMAIN events' \ DOMAIN events
        /\ \A e \in DOMAIN events : Current(e)' = Current(e)
        /\ \A e \in DOMAIN events' \ DOMAIN events : Current(e)'
    BY <1>5, RecordedFact
  <2> HIDE DEF n
  <2>2. CASE k = "question"
    <3>1. \A e \in Slots : question[e] # "open" BY <1>5, <2>2 DEF Asked
    <3>2. \A e \in Slots : question'[e] = "open" => e = n BY <1>5, <3>1 DEF n
    <3> QED BY <1>0, <1>5, <2>1, <2>2, <3>2 DEF Asked
  <2>3. CASE k # "question"
    <3>1. \A e \in Slots : question'[e] = "open" => question[e] = "open" BY <1>5, <2>3
    <3> QED BY <1>0, <1>5, <2>1, <3>1 DEF Asked
  <2> QED BY <2>2, <2>3
<1>6. ASSUME NEW k \in {"question", "result"}, Report(k) PROVE Asked'
  <2>1. \A e \in Slots : question'[e] = "open" =>
                question[e] = "open" \/ (k = "question" /\ e = Len(events) + 1)
    BY <1>6 DEF Report, TypeOK
  <2>2. /\ task = "running" /\ Record(k, "report") /\ UNCHANGED segments
        /\ k = "question" => outcome = "" /\ outcome' = "question"
        /\ task' = "running" /\ (outcome = "question" => outcome' = "question")
    BY <1>6 DEF Report
  <2> QED BY <1>5, <2>1, <2>2
<1>7. ASSUME NEW k \in {"question", "result", "failed", "stopped"}, End(k) PROVE Asked'
  <2>1. \A e \in Slots : question'[e] = "open" =>
                question[e] = "open" \/ (k = "question" /\ e = Len(events) + 1)
    BY <1>7 DEF End
  <2>2. /\ task = "running" /\ Record(k, "host") /\ UNCHANGED segments
        /\ k = "question" => outcome = "" /\ outcome' = "question"
        /\ outcome = "question" => outcome' = "question"
        /\ outcome' = "question" => task' = "waiting_question"
    BY <1>7 DEF End, TasksAfter
  <2> QED BY <1>5, <2>1, <2>2
<1>8. CASE Notify \/ OpenScan \/ Collect \/ Arm \/ Look \/ Wake \/ Timeout
  BY <1>1, <1>8 DEF Notify, OpenScan, Collect, Arm, Look, Wake, Timeout, work
<1>9. CASE Resume \/ Rework BY <1>2, <1>3, <1>9 DEF Resume, Rework
<1>10. ASSUME NEW p \in pages, NEW f, Ack(p, f) PROVE Asked' BY <1>1, <1>10 DEF Ack, work
<1>11. ASSUME NEW e \in DOMAIN events, Answer(e) PROVE Asked'
  <2>1. e \in Slots BY SlotsFact
  <2>2. question' = [question EXCEPT ![e] = "resume_queued"] /\ question[e] = "open"
    BY <1>11 DEF Answer, Answerable
  <2>3. \A d \in Slots : question'[d] # "open" BY <2>1, <2>2 DEF Asked, TypeOK
  <2> QED BY <1>2, <2>3
<1>12. ASSUME NEW e \in DOMAIN events, Retry(e) PROVE Asked'
  BY <1>2, <1>3, <1>12 DEF Retry, Retryable
<1>13. ASSUME NEW e \in DOMAIN events, NEW d, Review(e, d) PROVE Asked'
  BY <1>2, <1>3, <1>13 DEF Review, Reviewable
<1> QED BY <1>4, <1>6, <1>7, <1>8, <1>9, <1>10, <1>11, <1>12, <1>13 DEF Step

(* Only the result of the current segment is reviewed, and the review ends *)
(* the work on it (ReviewResult).                                          *)
LEMMA JudgedStep == ASSUME TypeOK, Numbered, Judged, Step PROVE Judged'
<1>0. Slots' = Slots BY DEF Slots
<1>1. ASSUME UNCHANGED <<segments, events, reviewed>>, task' = task \/ task' = "ready" PROVE Judged'
  BY <1>0, <1>1 DEF Judged, Current
<1>2. ASSUME task \notin {"completed", "failed", "ready"}, NEW e \in Slots, reviewed[e] # "none"
      PROVE  e \in DOMAIN events /\ ~Current(e)
  BY <1>2 DEF Judged
<1>3. ASSUME UNCHANGED <<segments, events, reviewed>>, task \notin {"completed", "failed", "ready"}
      PROVE  Judged'
  <2>1. \A e \in Slots : Current(e)' = Current(e) BY <1>3 DEF Current
  <2> QED BY <1>0, <1>2, <1>3, <2>1 DEF Judged
<1>4. CASE Start
  <2>1. \A e \in DOMAIN events : ~Current(e)' /\ events' = events BY <1>4, StartedFact
  <2>2. reviewed' = reviewed BY <1>4 DEF Start, commands
  <2> QED BY <1>0, <2>1, <2>2 DEF Judged
<1>5. ASSUME NEW k \in {"question", "result", "failed", "stopped"}, NEW from \in {"host", "report"},
             task = "running", Record(k, from), UNCHANGED <<segments, reviewed>>
      PROVE  Judged'
  <2>1. DOMAIN events \subseteq DOMAIN events' /\ \A e \in DOMAIN events : Current(e)' = Current(e)
    BY <1>5, RecordedFact
  <2> QED BY <1>0, <1>2, <1>5, <2>1 DEF Judged
<1>6. ASSUME NEW k \in {"question", "result"}, Report(k) PROVE Judged'
  BY <1>5, <1>6 DEF Report, commands
<1>7. ASSUME NEW k \in {"question", "result", "failed", "stopped"}, End(k) PROVE Judged'
  BY <1>5, <1>7 DEF End, commands
<1>8. CASE Notify \/ OpenScan \/ Collect \/ Arm \/ Look \/ Wake \/ Timeout
  BY <1>1, <1>8 DEF Notify, OpenScan, Collect, Arm, Look, Wake, Timeout, work, commands
<1>9. CASE Resume BY <1>3, <1>9 DEF Resume
<1>10. CASE Rework BY <1>1, <1>10 DEF Rework
<1>11. ASSUME NEW p \in pages, NEW f, Ack(p, f) PROVE Judged' BY <1>1, <1>11 DEF Ack, work, commands
<1>12. ASSUME NEW e \in DOMAIN events, Answer(e) PROVE Judged'
  BY <1>3, <1>12 DEF Answer, Answerable
<1>13. ASSUME NEW e \in DOMAIN events, Retry(e) PROVE Judged' BY <1>1, <1>13 DEF Retry
<1>14. ASSUME NEW e \in DOMAIN events, NEW d, Review(e, d) PROVE Judged'
  <2>1. /\ task = "result_ready" /\ task' \in {"completed", "failed"}
        /\ reviewed' = [reviewed EXCEPT ![e] = d] /\ UNCHANGED <<segments, events>>
    BY <1>14 DEF Review, Reviewable
  <2>2. \A x \in Slots : reviewed'[x] # "none" => x \in DOMAIN events
    BY <1>2, <2>1 DEF TypeOK
  <2> QED BY <1>0, <2>1, <2>2 DEF Judged
<1> QED BY <1>4, <1>6, <1>7, <1>8, <1>9, <1>10, <1>11, <1>12, <1>13, <1>14 DEF Step

(* Only a failure of the latest attempt is retried, and the retry is the   *)
(* last command of that attempt (queueRetry).                              *)
LEMMA RequeuedStep ==
    ASSUME TypeOK, Numbered, Requeued, OneRetryPerAttempt, Step
    PROVE  Requeued' /\ OneRetryPerAttempt'
<1>1. ASSUME UNCHANGED <<segments, events, retried>>, task' = task \/ task' = "ready"
      PROVE  Requeued' /\ OneRetryPerAttempt'
  BY <1>1 DEF Requeued, OneRetryPerAttempt, Attempt, LatestAttempt
<1>2. ASSUME task # "ready", NEW e \in retried PROVE e \in DOMAIN events /\ Attempt(e) # LatestAttempt
  BY <1>2 DEF Requeued
<1>3. ASSUME UNCHANGED <<segments, events, retried>>, task # "ready"
      PROVE  Requeued' /\ OneRetryPerAttempt'
  <2>1. LatestAttempt' = LatestAttempt /\ \A e \in retried : Attempt(e)' = Attempt(e)
    BY <1>3 DEF Attempt, LatestAttempt
  <2> QED BY <1>2, <1>3, <2>1 DEF Requeued, OneRetryPerAttempt
<1>4. CASE Start
  <2>1. events' = events /\ retried' = retried BY <1>4 DEF Start, commands
  <2>2. \A e \in retried : e \in DOMAIN events BY DEF Requeued
  <2>3. \A e \in retried : Attempt(e)' = Attempt(e) BY <1>4, <2>2, StartedFact
  <2>4. ASSUME NEW e \in retried PROVE Attempt(e) # LatestAttempt'
    <3>1. CASE task = "ready"
      <4>1. Attempt(e) < LatestAttempt' /\ Attempt(e) \in Nat BY <1>4, <2>2, <3>1, StartedFact
      <4> QED BY <4>1
    <3>2. CASE task # "ready" BY <1>2, <1>4, <2>2, <3>2, StartedFact
    <3> QED BY <3>1, <3>2
  <2> QED BY <2>1, <2>2, <2>3, <2>4 DEF Requeued, OneRetryPerAttempt
<1>5. ASSUME NEW k \in {"question", "result", "failed", "stopped"}, NEW from \in {"host", "report"},
             task = "running", Record(k, from), UNCHANGED <<segments, retried>>
      PROVE  Requeued' /\ OneRetryPerAttempt'
  <2>1. DOMAIN events \subseteq DOMAIN events' /\ LatestAttempt' = LatestAttempt
    BY <1>5, RecordedFact
  <2>2. \A e \in retried : e \in DOMAIN events BY DEF Requeued
  <2>3. \A e \in retried : Attempt(e)' = Attempt(e) BY <1>5, <2>2, RecordedFact
  <2> QED BY <1>2, <1>5, <2>1, <2>2, <2>3 DEF Requeued, OneRetryPerAttempt
<1>6. ASSUME NEW k \in {"question", "result"}, Report(k) PROVE Requeued' /\ OneRetryPerAttempt'
  BY <1>5, <1>6 DEF Report, commands
<1>7. ASSUME NEW k \in {"question", "result", "failed", "stopped"}, End(k)
      PROVE  Requeued' /\ OneRetryPerAttempt'
  BY <1>5, <1>7 DEF End, commands
<1>8. CASE Notify \/ OpenScan \/ Collect \/ Arm \/ Look \/ Wake \/ Timeout
  BY <1>1, <1>8 DEF Notify, OpenScan, Collect, Arm, Look, Wake, Timeout, work, commands
<1>9. CASE Resume \/ Rework BY <1>3, <1>9 DEF Resume, Rework
<1>10. ASSUME NEW p \in pages, NEW f, Ack(p, f) PROVE Requeued' /\ OneRetryPerAttempt'
  BY <1>1, <1>10 DEF Ack, work, commands
<1>11. ASSUME NEW e \in DOMAIN events, Answer(e) PROVE Requeued' /\ OneRetryPerAttempt'
  BY <1>3, <1>11 DEF Answer, Answerable
<1>12. ASSUME NEW e \in DOMAIN events, Retry(e) PROVE Requeued' /\ OneRetryPerAttempt'
  <2>1. /\ task = "failed" /\ task' = "ready" /\ Attempt(e) = LatestAttempt
        /\ retried' = retried \cup {e} /\ UNCHANGED <<segments, events>>
    BY <1>12 DEF Retry, Retryable
  <2>2. \A d \in retried : d \in DOMAIN events /\ Attempt(d) # Attempt(e) BY <1>2, <2>1
  <2>3. \A d \in DOMAIN events : Attempt(d)' = Attempt(d) BY <2>1 DEF Attempt
  <2>4. Requeued' BY <2>1, <2>2 DEF Requeued
  <2>5. OneRetryPerAttempt' BY <2>1, <2>2, <2>3 DEF OneRetryPerAttempt
  <2> QED BY <2>4, <2>5
<1>13. ASSUME NEW e \in DOMAIN events, NEW d, Review(e, d) PROVE Requeued' /\ OneRetryPerAttempt'
  BY <1>3, <1>13 DEF Review, Reviewable
<1> QED BY <1>4, <1>6, <1>7, <1>8, <1>9, <1>10, <1>11, <1>12, <1>13 DEF Step

(* What is pending after a step was pending before it, or is new.          *)
LEMMA PendingFact ==
    ASSUME TypeOK, Numbered, Step
    PROVE  DOMAIN events \subseteq DOMAIN events' /\ Pending' \cap DOMAIN events \subseteq Pending
<1>1. ASSUME UNCHANGED <<events, decided>>
      PROVE  DOMAIN events \subseteq DOMAIN events' /\ Pending' \cap DOMAIN events \subseteq Pending
  BY <1>1 DEF Pending
<1>2. ASSUME NEW k \in {"question", "result", "failed", "stopped"}, NEW from \in {"host", "report"},
             task = "running", Record(k, from), UNCHANGED <<segments, decided>>
      PROVE  DOMAIN events \subseteq DOMAIN events' /\ Pending' \cap DOMAIN events \subseteq Pending
  BY <1>2, RecordedFact DEF Pending
<1>3. ASSUME NEW k \in {"question", "result"}, Report(k)
      PROVE  DOMAIN events \subseteq DOMAIN events' /\ Pending' \cap DOMAIN events \subseteq Pending
  BY <1>2, <1>3 DEF Report, delivery
<1>4. ASSUME NEW k \in {"question", "result", "failed", "stopped"}, End(k)
      PROVE  DOMAIN events \subseteq DOMAIN events' /\ Pending' \cap DOMAIN events \subseteq Pending
  BY <1>2, <1>4 DEF End, delivery
<1>5. ASSUME NEW p \in pages, NEW f \in [p -> Decisions], Ack(p, f)
      PROVE  DOMAIN events \subseteq DOMAIN events' /\ Pending' \cap DOMAIN events \subseteq Pending
  <2>1. events' = events /\ DOMAIN events \subseteq Slots BY <1>5, SlotsFact DEF Ack
  <2>2. \A e \in Slots : decided'[e] = "none" => decided[e] = "none"
    BY <1>5, BoundsFact DEF Ack
  <2> QED BY <2>1, <2>2 DEF Pending
<1>6. CASE Start \/ Resume \/ Rework BY <1>1, <1>6 DEF Start, Resume, Rework, delivery
<1>7. CASE Notify \/ OpenScan \/ Collect \/ Arm \/ Look \/ Wake \/ Timeout
  BY <1>1, <1>7 DEF Notify, OpenScan, Collect, Arm, Look, Wake, Timeout, delivery
<1>8. ASSUME NEW e \in DOMAIN events, Answer(e) \/ Retry(e) \/ \E d : Review(e, d)
      PROVE  DOMAIN events \subseteq DOMAIN events' /\ Pending' \cap DOMAIN events \subseteq Pending
  BY <1>1, <1>8 DEF Answer, Retry, Review, delivery
<1> QED BY <1>3, <1>4, <1>5, <1>6, <1>7, <1>8 DEF Step

(* The page a collection returns and the cursor it continues with.         *)
LEMMA CollectFact ==
    ASSUME TypeOK, Numbered, NEW p, p = FirstOf(After(scan.at))
    PROVE  /\ p \subseteq After(scan.at) /\ After(scan.at) \in SUBSET Slots
           /\ p # After(scan.at) =>
                /\ NextCursor(p) \in p
                /\ \A e \in After(scan.at) : e \in p \/ e > NextCursor(p)
<1>1. After(scan.at) \in SUBSET Slots BY SlotsFact DEF After
<1>2. /\ p \subseteq After(scan.at)
      /\ \A e \in p, d \in After(scan.at) : d <= e => d \in p
      /\ After(scan.at) # {} => p # {}
  BY <1>1, FirstOfFact
<1>3. ASSUME p # After(scan.at)
      PROVE  NextCursor(p) \in p /\ \A e \in After(scan.at) : e \in p \/ e > NextCursor(p)
  <2>1. p # {} /\ p \in SUBSET Slots BY <1>1, <1>2, <1>3
  <2>2. LastOf(p) \in p BY <2>1, LastOfFact
  <2>3. \A e \in After(scan.at) : e \in p \/ ~(e <= LastOf(p)) BY <1>2, <2>2
  <2>4. LastOf(p) \in Nat /\ After(scan.at) \subseteq Nat BY <1>1, <2>1, <2>2, BoundsFact DEF Slots
  <2>5. ASSUME NEW e \in After(scan.at), ~(e <= LastOf(p)) PROVE e > LastOf(p) BY <2>4, <2>5
  <2> QED BY <2>2, <2>3, <2>5 DEF NextCursor
<1> QED BY <1>1, <1>2, <1>3

(* Neither events that arrive nor pages that are acknowledged move a pending *)
(* event in front of the cursor (CollectPending).                          *)
LEMMA WalkedStep == ASSUME TypeOK, Numbered, Walked, Step PROVE Walked'
<1>1. ASSUME UNCHANGED scan PROVE Walked'
  <2>1. scan.owed \subseteq DOMAIN events BY DEF Walked
  <2>2. scan.owed \cap Pending' \subseteq scan.owed \cap Pending BY <2>1, PendingFact
  <2>3. scan.owed \subseteq DOMAIN events' BY <2>1, PendingFact
  <2> QED BY <1>1, <2>2, <2>3 DEF Walked, ScanComplete
<1>2. CASE OpenScan
  <2>1. scan' = [at |-> 0, owed |-> Pending, seen |-> {}, open |-> TRUE] /\ UNCHANGED <<events, decided>>
    BY <1>2 DEF OpenScan, delivery
  <2>2. Pending' = Pending BY <2>1 DEF Pending
  <2>3. scan'.at = 0 /\ scan'.owed = Pending /\ scan'.open = TRUE BY <2>1
  <2>4. Pending \subseteq DOMAIN events BY DEF Pending
  <2>5. \A e \in Pending : e > 0 BY SlotsFact, BoundsFact DEF Slots
  <2> QED BY <2>1, <2>2, <2>3, <2>4, <2>5 DEF Walked, ScanComplete
<1>3. CASE Collect
  <2> DEFINE A == After(scan.at)
             p == FirstOf(A)
  <2>0. scan.open /\ UNCHANGED <<events, decided>> BY <1>3 DEF Collect
  <2>1. Pending' = Pending BY <2>0 DEF Pending
  <2>2. /\ scan'.owed = scan.owed /\ scan'.seen = scan.seen \cup p
        /\ scan'.at = IF p # A THEN NextCursor(p) ELSE 0
        /\ scan'.open = (p # A)
    BY <1>3 DEF Collect, TypeOK
  <2>3. p \subseteq A /\ (p # A => \A e \in A : e \in p \/ e > NextCursor(p)) BY CollectFact
  <2>4. \A e \in scan.owed \cap Pending : e \in scan.seen \/ e \in A BY <2>0 DEF Walked, After
  <2> HIDE DEF A, p
  <2>5. CASE p # A BY <2>0, <2>1, <2>2, <2>3, <2>4, <2>5 DEF Walked, ScanComplete
  <2>6. CASE p = A BY <2>0, <2>1, <2>2, <2>3, <2>4, <2>6 DEF Walked, ScanComplete
  <2> QED BY <2>5, <2>6
<1>4. CASE Start \/ Resume \/ Rework \/ Notify \/ Arm \/ Look \/ Wake \/ Timeout
  BY <1>1, <1>4 DEF Start, Resume, Rework, Notify, Arm, Look, Wake, Timeout
<1>5. ASSUME NEW k, Report(k) \/ End(k) PROVE Walked' BY <1>1, <1>5 DEF Report, End
<1>6. ASSUME NEW p, NEW f, Ack(p, f) PROVE Walked' BY <1>1, <1>6 DEF Ack
<1>7. ASSUME NEW e, Answer(e) \/ Retry(e) \/ \E d : Review(e, d) PROVE Walked'
  BY <1>1, <1>7 DEF Answer, Retry, Review
<1> QED BY <1>2, <1>3, <1>4, <1>5, <1>6, <1>7 DEF Step

(* The signal is taken before the look, and every record makes one due.    *)
LEMMA WokenStep == ASSUME TypeOK, Numbered, Woken, Step PROVE Woken'
<1>0. waiter.saw \in Nat /\ signal.count \in Nat BY DEF TypeOK
<1>1. ASSUME UNCHANGED <<waiter, signal, events>> PROVE Woken'
  <2>1. Pending' \subseteq Pending
    <3>1. Pending' \subseteq DOMAIN events BY <1>1 DEF Pending
    <3> QED BY <3>1, PendingFact
  <2> QED BY <1>1, <2>1 DEF Woken, NoLostWakeup
<1>2. ASSUME UNCHANGED waiter, signal' = [signal EXCEPT !.due = TRUE] PROVE Woken'
  <2>1. signal'.count = signal.count /\ signal'.due BY <1>2 DEF TypeOK
  <2> QED BY <1>2, <2>1 DEF Woken, NoLostWakeup
<1>3. ASSUME NEW k, Report(k) \/ End(k) PROVE Woken'
  BY <1>2, <1>3 DEF Report, End, Record
<1>4. CASE Notify
  <2>1. signal'.count = signal.count + 1 /\ waiter' = waiter BY <1>4 DEF Notify
  <2>2. waiter'.saw < signal'.count /\ waiter'.saw <= signal'.count BY <1>0, <2>1 DEF Woken
  <2> QED BY <2>2 DEF Woken, NoLostWakeup
<1>5. CASE Arm
  <2>1. waiter'.phase = "armed" /\ waiter'.saw = signal.count /\ signal' = signal BY <1>5 DEF Arm
  <2> QED BY <1>0, <2>1 DEF Woken, NoLostWakeup
<1>6. CASE Look
  <2>1. UNCHANGED <<events, decided, signal>> BY <1>6 DEF Look
  <2>2. Pending' = Pending BY <2>1 DEF Pending
  <2>3. waiter'.saw = waiter.saw /\ (waiter'.phase = "parked" => Pending = {})
    BY <1>6 DEF Look, TypeOK
  <2> QED BY <2>1, <2>2, <2>3 DEF Woken, NoLostWakeup
<1>7. CASE Wake
  <2>1. waiter'.phase = "armed" /\ waiter'.saw = signal.count /\ signal' = signal
    BY <1>7 DEF Wake, TypeOK
  <2> QED BY <1>0, <2>1 DEF Woken, NoLostWakeup
<1>8. CASE Timeout
  <2>1. waiter'.phase = "idle" /\ waiter'.saw = waiter.saw /\ signal' = signal
    BY <1>8 DEF Timeout, TypeOK
  <2> QED BY <2>1 DEF Woken, NoLostWakeup
<1>9. CASE Start \/ Resume \/ Rework \/ OpenScan \/ Collect
  BY <1>1, <1>9 DEF Start, Resume, Rework, OpenScan, Collect, waiting
<1>10. ASSUME NEW p, NEW f, Ack(p, f) PROVE Woken' BY <1>1, <1>10 DEF Ack, waiting
<1>11. ASSUME NEW e, Answer(e) \/ Retry(e) \/ \E d : Review(e, d) PROVE Woken'
  BY <1>1, <1>11 DEF Answer, Retry, Review, waiting
<1> QED BY <1>3, <1>4, <1>5, <1>6, <1>7, <1>8, <1>9, <1>10, <1>11 DEF Step

(* A later delivery of an event repeats the decision of it (AckDecisions). *)
LEMMA DecisionsStep == ASSUME TypeOK, Numbered, DecisionsAgree, Step PROVE DecisionsAgree'
<1>1. ASSUME UNCHANGED <<receipts, decided>> PROVE DecisionsAgree' BY <1>1 DEF DecisionsAgree
<1>2. ASSUME NEW p \in pages, NEW f \in [p -> Decisions], Ack(p, f) PROVE DecisionsAgree'
  <2>0. p \in SUBSET Slots BY DEF TypeOK
  <2>1. /\ receipts' = receipts \cup {[page |-> p, decisions |-> f]}
        /\ \A e \in Slots : decided'[e] = IF e \in p /\ decided[e] = "none" THEN f[e] ELSE decided[e]
        /\ \A e \in p : decided[e] = f[e] \/ decided[e] = "none"
    BY <1>2 DEF Ack, Agrees, Fresh
  <2>2. ASSUME NEW r \in receipts, NEW e \in r.page PROVE decided'[e] = r.decisions[e]
    <3>1. PICK q \in SUBSET Slots : r \in [page : {q}, decisions : [q -> Decisions]]
      <4>1. r \in Receipt BY DEF TypeOK
      <4> QED BY <4>1 DEF Receipt
    <3>2. e \in Slots /\ r.decisions[e] \in Decisions BY <2>2, <3>1
    <3>3. decided[e] = r.decisions[e] BY <2>2 DEF DecisionsAgree
    <3> QED BY <2>1, <3>2, <3>3, BoundsFact
  <2>3. \A e \in p : decided'[e] = f[e] BY <2>0, <2>1
  <2> QED BY <2>1, <2>2, <2>3 DEF DecisionsAgree
<1>3. CASE Start \/ Resume \/ Rework BY <1>1, <1>3 DEF Start, Resume, Rework, delivery
<1>4. CASE Notify \/ OpenScan \/ Collect \/ Arm \/ Look \/ Wake \/ Timeout
  BY <1>1, <1>4 DEF Notify, OpenScan, Collect, Arm, Look, Wake, Timeout, delivery
<1>5. ASSUME NEW k, Report(k) \/ End(k) PROVE DecisionsAgree'
  BY <1>1, <1>5 DEF Report, End, delivery
<1>6. ASSUME NEW e, Answer(e) \/ Retry(e) \/ \E d : Review(e, d) PROVE DecisionsAgree'
  BY <1>1, <1>6 DEF Answer, Retry, Review, delivery
<1> QED BY <1>2, <1>3, <1>4, <1>5, <1>6 DEF Step

(* Each claim uses up the retry, answer, resume or rework that queued it.  *)
LEMMA CauseStep == ASSUME TypeOK, Numbered, CauseForEverySegment, Step PROVE CauseForEverySegment'
<1> DEFINE queued == {"ready", "resume_queued"}
<1>0. Len(segments) \in Nat /\ causes \in Nat BY LenFact DEF TypeOK
<1>1. IsFiniteSet(retried)
  <2>1. IsFiniteSet(Slots) BY BoundsFact, FS_Interval DEF Slots
  <2>2. retried \subseteq Slots BY DEF TypeOK
  <2> QED BY <2>1, <2>2, FS_Subset
<1>2. Cardinality(retried) \in Nat BY <1>1, FS_CardinalityType
<1>3. ASSUME UNCHANGED <<segments, retried, causes>>, (task \in queued) = (task' \in queued)
      PROVE  CauseForEverySegment'
  BY <1>3 DEF CauseForEverySegment
<1>4. ASSUME UNCHANGED <<segments, retried>>, causes' = causes + 1, task \notin queued, task' \in queued
      PROVE  CauseForEverySegment'
  BY <1>0, <1>2, <1>4 DEF CauseForEverySegment
<1>5. CASE Start
  <2>1. Len(segments') = Len(segments) + 1 BY <1>5, StartFact
  <2>2. task \in queued /\ task' = "running" /\ UNCHANGED <<retried, causes>>
    BY <1>5 DEF Start, commands
  <2> QED BY <1>0, <1>2, <2>1, <2>2 DEF CauseForEverySegment
<1>6. ASSUME NEW k \in {"question", "result"}, Report(k) PROVE CauseForEverySegment'
  BY <1>3, <1>6 DEF Report, commands
<1>7. ASSUME NEW k \in {"question", "result", "failed", "stopped"}, End(k)
      PROVE  CauseForEverySegment'
  <2>1. outcome \in {"", "question", "result", "failed", "stopped"} BY DEF TypeOK
  <2>2. task' \notin queued BY <1>7, <2>1 DEF End, TasksAfter
  <2>3. task \notin queued /\ UNCHANGED <<segments, retried, causes>> BY <1>7 DEF End, commands
  <2> QED BY <1>3, <2>2, <2>3
<1>8. CASE Notify \/ OpenScan \/ Collect \/ Arm \/ Look \/ Wake \/ Timeout
  BY <1>3, <1>8 DEF Notify, OpenScan, Collect, Arm, Look, Wake, Timeout, work, commands
<1>9. CASE Resume \/ Rework BY <1>4, <1>9 DEF Resume, Rework
<1>10. ASSUME NEW p, NEW f, Ack(p, f) PROVE CauseForEverySegment'
  BY <1>3, <1>10 DEF Ack, work, commands
<1>11. ASSUME NEW e, Answer(e) PROVE CauseForEverySegment'
  BY <1>4, <1>11 DEF Answer, Answerable
<1>12. ASSUME NEW e, Retry(e) PROVE CauseForEverySegment'
  <2>1. /\ e \notin retried /\ retried' = retried \cup {e} /\ task = "failed" /\ task' = "ready"
        /\ UNCHANGED <<segments, causes>>
    BY <1>12 DEF Retry, Retryable
  <2>2. Cardinality(retried') = Cardinality(retried) + 1 BY <1>1, <2>1, FS_AddElement
  <2> QED BY <1>0, <1>2, <2>1, <2>2 DEF CauseForEverySegment
<1>13. ASSUME NEW e, NEW d, Review(e, d) PROVE CauseForEverySegment'
  BY <1>3, <1>13 DEF Review, Reviewable
<1> QED BY <1>5, <1>6, <1>7, <1>8, <1>9, <1>10, <1>11, <1>12, <1>13 DEF Step

(* Every step keeps the types.                                             *)
LEMMA TypeStep == ASSUME TypeOK, Numbered, Step, UNCHANGED <<policy, completion>> PROVE TypeOK'
<1>0. /\ policy' \in BOOLEAN /\ completion' \in CompletionPolicies
      /\ Slots' = Slots /\ Event' = Event /\ Receipt' = Receipt
      /\ TaskStatus' = TaskStatus /\ CompletionPolicies' = CompletionPolicies
  BY DEF TypeOK, Slots, Event, Receipt, TaskStatus, CompletionPolicies
<1>00. /\ revision \in 1 .. MaxRevision /\ causes \in Nat
       /\ waiter \in [phase : {"idle", "armed", "parked"}, saw : Nat, waits : 0 .. MaxWaits]
       /\ signal \in [count : Nat, due : BOOLEAN]
       /\ question \in [Slots -> {"none", "open", "resume_queued", "resume_started", "resolved"}]
       /\ retried \subseteq Slots /\ DOMAIN events \subseteq Slots
  BY SlotsFact DEF TypeOK
<1>1. CASE Start
  <2>1. segments' \in Seq(1 .. MaxSegments) BY <1>1, StartFact
  <2>2. question' \in [Slots -> {"none", "open", "resume_queued", "resume_started", "resolved"}]
    BY <1>1 DEF Start, TypeOK
  <2>3. task' \in TaskStatus /\ outcome' = "" BY <1>1 DEF Start, TaskStatus
  <2>4. UNCHANGED <<revision, events, decided, pages, receipts, reviewed, retried, causes, scan,
                    waiter, signal>>
    BY <1>1 DEF Start, delivery, commands, waiting
  <2> QED BY <1>0, <2>1, <2>2, <2>3, <2>4 DEF TypeOK
<1>2. ASSUME NEW k \in {"question", "result", "failed", "stopped"}, NEW from \in {"host", "report"},
             task = "running", Record(k, from), UNCHANGED <<revision, segments, delivery, commands, scan, waiter>>,
             task' \in TaskStatus, outcome' \in {"", "question", "result", "failed", "stopped"},
             question' \in [Slots -> {"none", "open", "resume_queued", "resume_started", "resolved"}]
      PROVE  TypeOK'
  <2>1. events' \in Seq(Event) BY <1>2, RecordFact
  <2>2. signal' \in [count : Nat, due : BOOLEAN] BY <1>2 DEF Record, TypeOK
  <2>3. UNCHANGED <<revision, segments, decided, pages, receipts, reviewed, retried, causes, scan,
                    waiter>>
    BY <1>2 DEF delivery, commands
  <2> QED BY <1>0, <1>2, <2>1, <2>2, <2>3 DEF TypeOK
<1>3. ASSUME NEW k \in {"question", "result"}, Report(k) PROVE TypeOK'
  <2>1. question' \in [Slots -> {"none", "open", "resume_queued", "resume_started", "resolved"}]
    BY <1>3 DEF Report, TypeOK
  <2>2. task' \in TaskStatus /\ outcome' \in {"", "question", "result", "failed", "stopped"}
    BY <1>3 DEF Report, TypeOK
  <2>3. /\ task = "running" /\ Record(k, "report")
        /\ UNCHANGED <<revision, segments, delivery, commands, scan, waiter>>
    BY <1>3 DEF Report
  <2> QED BY <1>2, <2>1, <2>2, <2>3
<1>4. ASSUME NEW k \in {"question", "result", "failed", "stopped"}, End(k) PROVE TypeOK'
  <2>1. question' \in [Slots -> {"none", "open", "resume_queued", "resume_started", "resolved"}]
    BY <1>4 DEF End, TypeOK
  <2>2. outcome' \in {"question", "result", "failed", "stopped"} BY <1>4 DEF End, TypeOK
  <2>3. task' \in TasksAfter(outcome') BY <1>4 DEF End
  <2>4. task' \in TaskStatus BY <2>2, <2>3 DEF TasksAfter, TaskStatus
  <2>5. /\ task = "running" /\ Record(k, "host")
        /\ UNCHANGED <<revision, segments, delivery, commands, scan, waiter>>
    BY <1>4 DEF End
  <2> QED BY <1>2, <2>1, <2>2, <2>4, <2>5
<1>5. CASE Notify
  <2>1. signal' \in [count : Nat, due : BOOLEAN] BY <1>00, <1>5 DEF Notify
  <2> QED BY <1>0, <1>5, <2>1 DEF TypeOK, Notify, work, delivery, commands
<1>6. CASE OpenScan
  <2>1. scan' \in [at : 0 .. MaxEvents, owed : SUBSET Slots, seen : SUBSET Slots, open : BOOLEAN]
    BY <1>6, SlotsFact, BoundsFact DEF OpenScan
  <2> QED BY <1>0, <1>6, <2>1 DEF TypeOK, OpenScan, work, delivery, commands, waiting
<1>7. CASE Collect
  <2> DEFINE A == After(scan.at)
             p == FirstOf(A)
             c == IF p # A THEN NextCursor(p) ELSE 0
  <2>1. p \in SUBSET Slots /\ (p # A => NextCursor(p) \in Slots) BY CollectFact
  <2>2. c \in 0 .. MaxEvents BY <2>1, BoundsFact DEF Slots
  <2>3. pages' = (IF p = {} THEN pages ELSE pages \cup {p})
        /\ scan' = [scan EXCEPT !.seen = @ \cup p, !.at = c, !.open = p # A]
    BY <1>7 DEF Collect
  <2> HIDE DEF p, c, A
  <2>4. scan \in [at : 0 .. MaxEvents, owed : SUBSET Slots, seen : SUBSET Slots, open : BOOLEAN]
    BY DEF TypeOK
  <2>5. scan' \in [at : 0 .. MaxEvents, owed : SUBSET Slots, seen : SUBSET Slots, open : BOOLEAN]
    BY <2>1, <2>2, <2>3, <2>4
  <2>6. pages' \subseteq SUBSET Slots BY <2>1, <2>3 DEF TypeOK
  <2> QED BY <1>0, <1>7, <2>5, <2>6 DEF TypeOK, Collect, work, commands, waiting
<1>8. CASE Arm \/ Wake \/ Timeout
  <2>1. waiter' \in [phase : {"idle", "armed", "parked"}, saw : Nat, waits : 0 .. MaxWaits]
    <3>1. waiter.saw \in Nat /\ waiter.waits \in Nat /\ signal.count \in Nat BY <1>00
    <3>2. CASE Arm
      <4>1. waiter.waits + 1 \in 0 .. MaxWaits BY <3>1, <3>2, BoundsFact DEF Arm
      <4> QED BY <3>1, <3>2, <4>1 DEF Arm
    <3>3. CASE Wake BY <1>00, <3>1, <3>3 DEF Wake
    <3>4. CASE Timeout BY <1>00, <3>4 DEF Timeout
    <3> QED BY <1>8, <3>2, <3>3, <3>4
  <2> QED BY <1>0, <1>8, <2>1 DEF TypeOK, Arm, Wake, Timeout, work, delivery, commands
<1>9. CASE Look
  <2>1. waiter' \in [phase : {"idle", "armed", "parked"}, saw : Nat, waits : 0 .. MaxWaits]
    BY <1>00, <1>9 DEF Look
  <2>2. FirstOf(Pending) \in SUBSET Slots BY SlotsFact, FirstOfFact
  <2>3. pages' \subseteq SUBSET Slots BY <1>9, <2>2 DEF Look, TypeOK
  <2> QED BY <1>0, <1>9, <2>1, <2>3 DEF TypeOK, Look, work, commands
<1>10. CASE Resume \/ Rework
  <2>1. task' \in TaskStatus /\ causes' \in Nat BY <1>00, <1>10 DEF Resume, Rework, TaskStatus
  <2>2. revision' \in 1 .. MaxRevision BY <1>00, <1>10, BoundsFact DEF Resume, Rework
  <2> QED BY <1>0, <1>10, <2>1, <2>2 DEF TypeOK, Resume, Rework, delivery, waiting
<1>11. ASSUME NEW p \in pages, NEW f \in [p -> Decisions], Ack(p, f) PROVE TypeOK'
  <2>0. p \in SUBSET Slots BY DEF TypeOK
  <2>1. [page |-> p, decisions |-> f] \in [page : {p}, decisions : [p -> Decisions]] OBVIOUS
  <2>2. [page |-> p, decisions |-> f] \in Receipt BY <2>0, <2>1 DEF Receipt
  <2>3. receipts' \subseteq Receipt BY <1>11, <2>2 DEF Ack, TypeOK
  <2>4. decided' \in [Slots -> {"none"} \cup Decisions] BY <1>11 DEF Ack, TypeOK
  <2> QED BY <1>0, <1>11, <2>3, <2>4 DEF TypeOK, Ack, work, commands, waiting
<1>12. ASSUME NEW e \in DOMAIN events, Answer(e) PROVE TypeOK'
  <2>1. /\ task' \in TaskStatus /\ causes' \in Nat
        /\ question' \in [Slots -> {"none", "open", "resume_queued", "resume_started", "resolved"}]
    BY <1>00, <1>12 DEF Answer, TaskStatus
  <2> QED BY <1>0, <1>12, <2>1 DEF TypeOK, Answer, delivery, waiting
<1>13. ASSUME NEW e \in DOMAIN events, Retry(e) PROVE TypeOK'
  <2>1. task' \in TaskStatus /\ retried' \subseteq Slots
    BY <1>00, <1>13 DEF Retry, TaskStatus
  <2> QED BY <1>0, <1>13, <2>1 DEF TypeOK, Retry, delivery, waiting
<1>14. ASSUME NEW e \in DOMAIN events, NEW d \in {"accept", "reject"}, Review(e, d) PROVE TypeOK'
  <2>1. task' \in TaskStatus /\ reviewed' \in [Slots -> {"none", "accept", "reject"}]
    BY <1>14 DEF Review, TypeOK, TaskStatus
  <2> QED BY <1>0, <1>14, <2>1 DEF TypeOK, Review, delivery, waiting
<1> QED BY <1>1, <1>3, <1>4, <1>5, <1>6, <1>7, <1>8, <1>9, <1>10, <1>11, <1>12, <1>13, <1>14 DEF Step

-----------------------------------------------------------------------------
(* The theorems.                                                           *)

(* The invariant holds of a task that has not been claimed.                *)
LEMMA OwnerInit == Init => OwnerInv
<1> SUFFICES ASSUME Init PROVE OwnerInv OBVIOUS
<1>0. Cardinality({}) = 0 BY FS_EmptySet
<1>1. /\ segments = <<>> /\ events = <<>> /\ Len(segments) = 0 /\ Len(events) = 0
      /\ DOMAIN segments = {} /\ DOMAIN events = {}
  <2>1. segments = <<>> /\ events = <<>> BY DEF Init
  <2> QED BY <2>1
<1>2. TypeOK
  <2>1. policy \in BOOLEAN /\ completion \in CompletionPolicies /\ task \in TaskStatus
    BY DEF Init, TaskStatus
  <2>0. /\ revision = 1 /\ scan = [at |-> 0, owed |-> {}, seen |-> {}, open |-> FALSE]
        /\ waiter = [phase |-> "idle", saw |-> 0, waits |-> 0]
    BY DEF Init, NoScan
  <2>2. revision \in 1 .. MaxRevision BY <2>0, BoundsFact
  <2>3. segments \in Seq(1 .. MaxSegments) /\ events \in Seq(Event) BY <1>1
  <2>4. /\ question \in [Slots -> {"none", "open", "resume_queued", "resume_started", "resolved"}]
        /\ decided \in [Slots -> {"none"} \cup Decisions]
        /\ reviewed \in [Slots -> {"none", "accept", "reject"}]
    BY DEF Init
  <2>5. /\ outcome = "" /\ pages \subseteq SUBSET Slots /\ receipts \subseteq Receipt
        /\ retried \subseteq Slots /\ causes \in Nat
    BY DEF Init
  <2>6. scan \in [at : 0 .. MaxEvents, owed : SUBSET Slots, seen : SUBSET Slots, open : BOOLEAN]
    BY <2>0, BoundsFact
  <2>7. waiter \in [phase : {"idle", "armed", "parked"}, saw : Nat, waits : 0 .. MaxWaits]
    BY <2>0, BoundsFact
  <2>8. signal \in [count : Nat, due : BOOLEAN] BY DEF Init
  <2> QED BY <2>1, <2>2, <2>3, <2>4, <2>5, <2>6, <2>7, <2>8 DEF TypeOK
<1>3. Numbered
  <2>1. Len(segments) <= MaxSegments /\ Len(events) <= MaxEvents BY <1>1, BoundsFact
  <2>2. task = "ready" BY DEF Init
  <2> QED BY <1>1, <2>1, <2>2 DEF Numbered
<1>4. Asked /\ Judged /\ Requeued BY DEF Init, Asked, Judged, Requeued
<1>5. Walked BY <1>1 DEF Init, Walked, ScanComplete, NoScan
<1>6. Woken
  <2>1. waiter.saw = 0 /\ waiter.phase = "idle" /\ signal.count = 0 BY DEF Init
  <2> QED BY <2>1 DEF Woken, NoLostWakeup
<1>7. DecisionsAgree /\ OneRetryPerAttempt BY DEF Init, DecisionsAgree, OneRetryPerAttempt
<1>8. CauseForEverySegment
  <2>1. task = "ready" /\ retried = {} /\ causes = 0 BY DEF Init
  <2> QED BY <1>0, <1>1, <2>1 DEF CauseForEverySegment
<1> QED BY <1>2, <1>3, <1>4, <1>5, <1>6, <1>7, <1>8 DEF OwnerInv

(* The invariant is inductive.                                             *)
LEMMA OwnerStep == OwnerInv /\ [Next]_vars => OwnerInv'
<1> SUFFICES ASSUME OwnerInv, [Next]_vars PROVE OwnerInv' OBVIOUS
<1>1. CASE Next
  <2>1. Step /\ UNCHANGED <<policy, completion>> BY <1>1 DEF Next
  <2> QED BY <2>1, TypeStep, NumberedStep, AskedStep, JudgedStep, RequeuedStep, WalkedStep, WokenStep,
             DecisionsStep, CauseStep DEF OwnerInv
<1>2. CASE UNCHANGED vars
  <2>1. UNCHANGED <<policy, completion, task, revision, segments, outcome, events, question, decided, pages,
                    receipts, reviewed, retried, causes, scan, waiter, signal>>
    BY <1>2 DEF vars, work, delivery, commands, waiting
  <2>2. Pending' = Pending BY <2>1 DEF Pending
  <2>0. /\ Slots' = Slots /\ Event' = Event /\ Receipt' = Receipt /\ TaskStatus' = TaskStatus
        /\ CompletionPolicies' = CompletionPolicies
    BY DEF Slots, Event, Receipt, TaskStatus, CompletionPolicies
  <2>3. TypeOK' BY <2>0, <2>1 DEF OwnerInv, TypeOK
  <2>4. (Numbered /\ Asked /\ Judged /\ Requeued)'
    BY <2>1 DEF OwnerInv, Numbered, Asked, Judged, Requeued, Current, Attempt, LatestAttempt, Slots
  <2>5. (Walked /\ Woken)' BY <2>1, <2>2 DEF OwnerInv, Walked, Woken, ScanComplete, NoLostWakeup
  <2>6. (DecisionsAgree /\ OneRetryPerAttempt /\ CauseForEverySegment)'
    BY <2>1 DEF OwnerInv, DecisionsAgree, OneRetryPerAttempt, CauseForEverySegment, Attempt
  <2> QED BY <2>3, <2>4, <2>5, <2>6 DEF OwnerInv
<1> QED BY <1>1, <1>2

(* The records of decisions agree with the task in every reachable state,  *)
(* although commands are repeated, delayed and overtaken.                  *)
THEOREM OwnerInvariant == Spec => []OwnerInv
BY OwnerInit, OwnerStep, PTL DEF Spec

(* A decision takes effect once: deliveries of an event agree on it, an    *)
(* attempt is retried once, each segment has its cause, and what was acted *)
(* on can still be acknowledged (delivery.go, decisions.go).               *)
THEOREM DecisionsStaySound == Spec => []DecisionsSound
<1>1. OwnerInv => DecisionsSound
  BY DEF OwnerInv, DecisionsSound, EffectCanBeAcked, Fresh, BoundEffect, Pending
<1> QED BY <1>1, OwnerInvariant, PTL

(* A walk over the pages misses no pending event, and every action that    *)
(* the summary of a task offers is accepted (collection.go, summary.go).   *)
THEOREM CollectionStaysComplete == Spec => []CollectionComplete
<1>1. ASSUME OwnerInv PROVE CollectionComplete
  <2>0. TypeOK /\ Numbered /\ Asked /\ Judged /\ Requeued /\ Walked BY <1>1 DEF OwnerInv
  <2>1. ScanComplete BY <2>0 DEF Walked
  <2>2. ASSUME "accept" \in Offers
        PROVE  \E e \in DOMAIN events :
                  Reviewable(e, IF completion = "artifact" THEN "reject" ELSE "accept")
    <3>1. PICK e \in DOMAIN events : /\ task = "result_ready" /\ events[e].from = "host"
                                     /\ events[e].kind = "result" /\ Current(e)
      BY <2>2 DEF Offers
    <3>2. e \in Slots BY <2>0, SlotsFact
    <3> QED BY <2>0, <3>1, <3>2 DEF Reviewable, Judged
  <2>3. ASSUME "answer" \in Offers PROVE \E e \in DOMAIN events : Answerable(e)
    <3>1. PICK e \in DOMAIN events : task = "waiting_question" /\ question[e] = "open"
      BY <2>3 DEF Offers
    <3>2. e \in Slots BY <2>0, SlotsFact
    <3> QED BY <2>0, <3>1, <3>2 DEF Answerable, Asked
  <2>4. ASSUME "retry" \in Offers PROVE \E e \in DOMAIN events : Retryable(e)
    <3>1. task = "failed" /\ Failure /\ (policy => OpenPolicyRetry) BY <2>4 DEF Offers
    <3>2. \E e \in DOMAIN events : /\ Source(e) /\ Attempt(e) = LatestAttempt
                                   /\ policy => decided[e] = "none"
      <4>1. CASE policy
        <5>1. PICK e \in Pending : Source(e) /\ Current(e) BY <3>1, <4>1 DEF OpenPolicyRetry
        <5>2. e \in DOMAIN events /\ decided[e] = "none" BY DEF Pending
        <5> QED BY <2>0, <5>1, <5>2, CurrentFact
      <4>2. CASE ~policy BY <3>1, <4>2 DEF Failure
      <4> QED BY <4>1, <4>2
    <3> QED BY <2>0, <3>1, <3>2 DEF Retryable, Requeued
  <2> QED BY <2>1, <2>2, <2>3, <2>4 DEF CollectionComplete, OffersAccepted
<1> QED BY <1>1, OwnerInvariant, PTL

(* No request that waits for events is left waiting while one is pending:  *)
(* its signal has been closed or is about to be (server.go).               *)
THEOREM WakeupsNeverLost == Spec => []NoLostWakeup
<1>1. OwnerInv => NoLostWakeup BY DEF OwnerInv, Woken
<1> QED BY <1>1, OwnerInvariant, PTL
=============================================================================
