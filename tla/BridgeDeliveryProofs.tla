------------------------ MODULE BridgeDeliveryProofs ------------------------
(***************************************************************************)
(* Proofs about BridgeDelivery, for every number of events, hooks,         *)
(* bindings and failures: the batches of a session are sound (BatchSound)  *)
(* and there is one writer at a time (OneWriter).                          *)
(*                                                                         *)
(* An attempt is live while it is unresolved or after it was received.     *)
(* Most steps only end or settle attempts.  Three make a new one: a claim  *)
(* of new events, and the claim or the redelivery that takes the place of  *)
(* an attempt it ends.  So the live attempts of a session stay disjoint    *)
(* and leave no gap, and the one unresolved attempt is in its newest one.  *)
(***************************************************************************)
EXTENDS BridgeDelivery, FiniteSetTheorems, TLAPS

Silent == {"CLAIMED", "EXPIRED", "STALE"}
Live(a) == attempts[a].state \in Unresolved \cup {"RECEIVED"}

\* Attempts belong to batches and batches to bindings.
Shape ==
    /\ \A a \in DOMAIN attempts : attempts[a].batch \in DOMAIN batches
    /\ \A k \in DOMAIN batches : batches[k].binding \in DOMAIN bindings

\* Only the newest binding of the run is not replaced.
Replaced == \A b \in DOMAIN bindings : b # Len(bindings) => bindings[b].status = "STALE"

\* Events are numbered in the order in which they become actionable.
Published == \A e, f \in Events : f < e /\ events[e] # "none" => events[f] # "none"

\* Live attempts of a session share no event.
LiveDisjoint ==
    \A a, c \in DOMAIN attempts :
        a # c /\ Live(a) /\ Live(c) /\ BindingOf(a) = BindingOf(c) => Items(a) \cap Items(c) = {}

\* What comes before an event of a live attempt is in it, received or decided.
LiveInOrder ==
    \A a \in DOMAIN attempts : Live(a) =>
        \A e \in Items(a), f \in Events :
            f < e => f \in Items(a) \/ f \in ReceivedIn(BindingOf(a)) \/ events[f] = "acked"

\* A hook is the sender of the attempt it works on.  It has not written what
\* it only claimed, and what it may write has been permitted to it.
HeldBy(p) ==
    hooks[p].phase # "none" =>
        LET a == hooks[p].attempt
        IN  /\ a \in DOMAIN attempts /\ attempts[a].sender = p
            /\ hooks[p].phase = "claimed" => attempts[a].state \in Silent /\ a \notin written
            /\ hooks[p].phase = "emitting" =>
                 attempts[a].state \in {"EMITTING", "UNCERTAIN", "RECEIVED"}

Held == \A p \in Senders : HeldBy(p)

\* What was written is not silent.
WrittenOut == \A a \in written : attempts[a].state \notin Silent

\* The inductive invariant.
BridgeInv ==
    /\ TypeOK /\ Shape /\ Replaced /\ Published /\ OpenOnlyInNewest
    /\ LiveDisjoint /\ LiveInOrder /\ Held /\ WrittenOut /\ ExpiredHasSuccessor

-----------------------------------------------------------------------------
(* The operators of the model.                                             *)

(* What the types say, without the set of records they are stated with.    *)
LEMMA TypeFact ==
    ASSUME TypeOK
    PROVE  /\ \A a \in DOMAIN attempts : attempts[a] \in Attempt
           /\ \A a \in DOMAIN attempts : attempts[a].state \in AttemptState /\ attempts[a].no \in Nat
           /\ DOMAIN attempts = 1..Len(attempts) /\ Len(attempts) \in Nat
           /\ \A k \in DOMAIN batches : batches[k] \in Batch
           /\ \A k \in DOMAIN batches : batches[k].binding \in Nat /\ batches[k].items \subseteq Events
           /\ DOMAIN batches = 1..Len(batches) /\ Len(batches) \in Nat
           /\ DOMAIN bindings = 1..Len(bindings) /\ Len(bindings) \in Nat
           /\ \A b \in DOMAIN bindings : bindings[b] \in Binding
           /\ DOMAIN hooks = Senders /\ DOMAIN events = Events
           /\ written \subseteq DOMAIN attempts
<1>1. attempts \in Seq(Attempt) /\ batches \in Seq(Batch) /\ bindings \in Seq(Binding)
  BY DEF TypeOK
<1>2. \A a \in DOMAIN attempts : attempts[a] \in Attempt BY <1>1
<1>3. \A a \in DOMAIN attempts : attempts[a].state \in AttemptState /\ attempts[a].no \in Nat
  BY <1>2 DEF Attempt
<1>4. \A k \in DOMAIN batches : batches[k] \in Batch BY <1>1
<1>5. \A k \in DOMAIN batches : batches[k].binding \in Nat /\ batches[k].items \subseteq Events
  BY <1>4 DEF Batch
<1>6. \A b \in DOMAIN bindings : bindings[b] \in Binding BY <1>1
<1>7. /\ DOMAIN attempts = 1..Len(attempts) /\ Len(attempts) \in Nat
      /\ DOMAIN batches = 1..Len(batches) /\ Len(batches) \in Nat
      /\ DOMAIN bindings = 1..Len(bindings) /\ Len(bindings) \in Nat
  BY <1>1
<1>8. DOMAIN hooks = Senders /\ DOMAIN events = Events /\ written \subseteq DOMAIN attempts
  BY DEF TypeOK
<1> QED BY <1>2, <1>3, <1>4, <1>5, <1>6, <1>7, <1>8

(* No sender is the mark of an attempt that has none.                      *)
LEMMA SendersFact == "none" \notin Senders /\ "gone" \notin Senders /\ MaxEvents \in Nat
BY BridgeAssumption DEF BridgeDeliveryParameters

(* Appending keeps what was there.                                         *)
LEMMA AppendFact ==
    ASSUME NEW S, NEW s \in Seq(S), NEW x
    PROVE  /\ Len(Append(s, x)) = Len(s) + 1
           /\ DOMAIN Append(s, x) = DOMAIN s \cup {Len(s) + 1}
           /\ Len(s) + 1 \notin DOMAIN s
           /\ \A i \in DOMAIN s : Append(s, x)[i] = s[i]
           /\ Append(s, x)[Len(s) + 1] = x
OBVIOUS

(* A function on the domain of a sequence is one, of the same length.       *)
LEMMA MapFact ==
    ASSUME NEW S, NEW T, NEW s \in Seq(S), NEW new, new = [i \in DOMAIN s |-> new[i]],
           \A i \in DOMAIN s : new[i] \in T
    PROVE  new \in Seq(T) /\ Len(new) = Len(s) /\ DOMAIN new = DOMAIN s
<1>1. Len(s) \in Nat /\ DOMAIN s = 1..Len(s) OBVIOUS
<1>2. new \in [1..Len(s) -> T] BY <1>1
<1> QED BY <1>1, <1>2

(* What MarkBridgeOffered makes of the attempt a.                           *)
LEMMA OfferedFact ==
    ASSUME TypeOK, NEW a \in DOMAIN attempts, NEW new,
           new = [attempts EXCEPT ![a].state = "OFFERED", ![a].lapsed = FALSE]
    PROVE  /\ new \in Seq(Attempt) /\ DOMAIN new = DOMAIN attempts
           /\ \A c \in DOMAIN attempts : c # a => new[c] = attempts[c]
           /\ new[a].state = "OFFERED" /\ new[a].batch = attempts[a].batch
           /\ new[a].no = attempts[a].no
<1>1. /\ DOMAIN new = DOMAIN attempts
      /\ \A c \in DOMAIN attempts : c # a => new[c] = attempts[c]
      /\ new[a] = [attempts[a] EXCEPT !.state = "OFFERED", !.lapsed = FALSE]
      /\ new = [c \in DOMAIN attempts |-> new[c]]
  OBVIOUS
<1>2. attempts \in Seq(Attempt) /\ \A c \in DOMAIN attempts : attempts[c] \in Attempt
  BY TypeFact DEF TypeOK
<1>3. /\ new[a].state = "OFFERED" /\ new[a].batch = attempts[a].batch
      /\ new[a].no = attempts[a].no /\ new[a] \in Attempt
  BY <1>1, <1>2 DEF Attempt, AttemptState
<1>4. \A c \in DOMAIN attempts : new[c] \in Attempt BY <1>1, <1>2, <1>3
<1>5. PICK s \in Seq(Attempt) : s = attempts BY <1>2
<1>6. new = [i \in DOMAIN s |-> new[i]] /\ \A i \in DOMAIN s : new[i] \in Attempt
  BY <1>1, <1>4, <1>5
<1>7. new \in Seq(Attempt) BY ONLY <1>6, MapFact
<1> QED BY <1>1, <1>3, <1>7

(* What comes before one of the first rows is one of the first rows.       *)
LEMMA FirstOfFact ==
    ASSUME NEW rows \in SUBSET Events
    PROVE  /\ FirstOf(rows) \subseteq rows
           /\ \A e \in FirstOf(rows), f \in rows : f < e => f \in FirstOf(rows)
<1> DEFINE Upto(e) == {f \in rows : f <= e}
<1>1. MaxEvents \in Nat /\ BatchEvents \in Nat BY BridgeAssumption DEF BridgeDeliveryParameters
<1>2. IsFiniteSet(Events) BY <1>1, FS_Interval DEF Events
<1>3. \A e \in rows : Upto(e) \subseteq Events BY DEF Upto
<1>4. \A e \in rows : IsFiniteSet(Upto(e)) BY <1>2, <1>3, FS_Subset
<1>5. FirstOf(rows) = {e \in rows : Cardinality(Upto(e)) <= BatchEvents} BY DEF FirstOf
<1>6. ASSUME NEW e \in FirstOf(rows), NEW f \in rows, f < e PROVE f \in FirstOf(rows)
  <2>1. e \in rows /\ Cardinality(Upto(e)) <= BatchEvents BY <1>5
  <2>2. e \in Int /\ f \in Int BY <2>1, <1>1 DEF Events
  <2>3. \A g \in rows : g \in Int BY <1>1 DEF Events
  <2>4. Upto(f) \subseteq Upto(e)
    <3>1. ASSUME NEW g \in rows, g <= f PROVE g <= e BY <2>2, <2>3, <1>6, <3>1
    <3> QED BY <3>1 DEF Upto
  <2>5. Cardinality(Upto(f)) <= Cardinality(Upto(e)) BY <2>1, <2>4, <1>4, FS_Subset
  <2>6. Cardinality(Upto(f)) \in Nat /\ Cardinality(Upto(e)) \in Nat
    BY <2>1, <1>4, FS_CardinalityType
  <2> HIDE DEF Upto
  <2>7. Cardinality(Upto(f)) <= BatchEvents BY <2>1, <2>5, <2>6, <1>1
  <2> QED BY <2>7, <1>5
<1> QED BY <1>5, <1>6

(* What a claim takes is pending, not received, and leaves no gap.         *)
LEMMA SourceFact ==
    ASSUME NEW b, NEW items, Leads(items, Source(b))
    PROVE  \A e \in items :
             /\ e \in Events /\ events[e] = "pending" /\ e \notin ReceivedIn(b)
             /\ \A f \in Events : f < e /\ events[f] = "pending" => f \in items \/ f \in ReceivedIn(b)
<1> DEFINE rows == {e \in Events : events[e] = "pending"} \ ReceivedIn(b)
<1>1. rows \in SUBSET Events OBVIOUS
<1>2. Source(b) = FirstOf(rows) BY DEF Source
<1>3. Source(b) \subseteq rows /\ \A e \in Source(b), f \in rows : f < e => f \in Source(b)
  BY <1>1, <1>2, FirstOfFact
<1>4. items \subseteq Source(b) /\ \A e \in items, f \in Source(b) : f < e => f \in items
  BY DEF Leads
<1> QED BY <1>3, <1>4

-----------------------------------------------------------------------------
(* What a step makes of the attempts.                                      *)

Step == [Next]_vars

\* A step that makes no attempt settles or ends unresolved ones, at most.
Tame ==
    /\ batches' = batches /\ DOMAIN attempts' = DOMAIN attempts
    /\ \A a \in DOMAIN attempts :
         /\ attempts'[a].batch = attempts[a].batch /\ attempts'[a].no = attempts[a].no
         /\ \/ attempts'[a].state = attempts[a].state
            \/ attempts[a].state \in Unresolved /\ attempts'[a].state \in AttemptState \ {"EXPIRED"}

\* A step that puts a new attempt in the place of an unresolved one.
Renewal(a, state, p) ==
    /\ a \in DOMAIN attempts /\ attempts[a].state \in Unresolved
    /\ state \in {"EXPIRED", "SUPERSEDED_UNCERTAIN"}
    /\ attempts' = Append(SetState(a, state),
                          NewAttempt(attempts[a].batch, attempts[a].no + 1, p))
    /\ UNCHANGED <<events, bindings, batches, written>>

\* A claim of new events.
Fresh(p, b) == b \in DOMAIN bindings /\ ClaimNew(p, b)

LEMMA WithdrawnTame ==
    ASSUME TypeOK, NEW bs, attempts' = Withdrawn(bs), batches' = batches PROVE Tame
<1>1. \A a \in DOMAIN attempts : attempts[a] \in Attempt BY TypeFact
<1>2. DOMAIN attempts' = DOMAIN attempts BY DEF Withdrawn
<1>3. ASSUME NEW a \in DOMAIN attempts, ~(BindingOf(a) \in bs /\ attempts[a].state = "CLAIMED")
      PROVE  attempts'[a] = attempts[a]
  BY <1>3 DEF Withdrawn
<1>4. ASSUME NEW a \in DOMAIN attempts, BindingOf(a) \in bs, attempts[a].state = "CLAIMED"
      PROVE  attempts'[a] = [attempts[a] EXCEPT !.state = "STALE"]
  BY <1>4 DEF Withdrawn
<1>5. ASSUME NEW a \in DOMAIN attempts, BindingOf(a) \in bs, attempts[a].state = "CLAIMED"
      PROVE  /\ attempts'[a].batch = attempts[a].batch /\ attempts'[a].no = attempts[a].no
             /\ attempts'[a].state = "STALE"
  BY <1>1, <1>4, <1>5 DEF Attempt
<1> QED BY <1>2, <1>3, <1>5 DEF Tame, Unresolved, AttemptState

LEMMA GoneFact ==
    ASSUME NEW old, old \in Seq(Attempt), NEW p
    PROVE  /\ DOMAIN Gone(p, old) = DOMAIN old
           /\ \A a \in DOMAIN old :
                /\ Gone(p, old)[a].state = old[a].state /\ Gone(p, old)[a].batch = old[a].batch
                /\ Gone(p, old)[a].no = old[a].no /\ Gone(p, old)[a].lapsed = old[a].lapsed
                /\ Gone(p, old)[a].sender = IF old[a].sender = p THEN "gone" ELSE old[a].sender
           /\ Gone(p, old) \in Seq(Attempt)
<1>0. old \in Seq(Attempt) OBVIOUS
<1>1. \A a \in DOMAIN old : old[a] \in Attempt BY <1>0
<1>2. \A a \in DOMAIN old :
        Gone(p, old)[a] = IF old[a].sender = p THEN [old[a] EXCEPT !.sender = "gone"] ELSE old[a]
  BY DEF Gone
<1>3. DOMAIN Gone(p, old) = DOMAIN old BY DEF Gone
<1>4. \A a \in DOMAIN old :
        /\ Gone(p, old)[a].state = old[a].state /\ Gone(p, old)[a].batch = old[a].batch
        /\ Gone(p, old)[a].no = old[a].no /\ Gone(p, old)[a].lapsed = old[a].lapsed
        /\ Gone(p, old)[a].sender = IF old[a].sender = p THEN "gone" ELSE old[a].sender
  BY <1>1, <1>2 DEF Attempt
<1>5. \A a \in DOMAIN old : Gone(p, old)[a] \in Attempt BY <1>1, <1>2 DEF Attempt
<1>6. Len(old) \in Nat /\ DOMAIN old = 1..Len(old) BY <1>0
<1>7. Gone(p, old) \in [1..Len(old) -> Attempt] BY <1>3, <1>5, <1>6 DEF Gone
<1>8. Gone(p, old) \in Seq(Attempt) BY <1>6, <1>7
<1> QED BY <1>3, <1>4, <1>8

(* A step whose attempts differ in one state is tame.                      *)
LEMMA SetStateTame ==
    ASSUME TypeOK, NEW a \in DOMAIN attempts, NEW state \in AttemptState \ {"EXPIRED"},
           attempts[a].state \in Unresolved, attempts' = SetState(a, state), batches' = batches
    PROVE  Tame
<1>1. \A c \in DOMAIN attempts : attempts[c] \in Attempt BY TypeFact
<1>2. attempts' = [attempts EXCEPT ![a].state = state] BY DEF SetState
<1>3. DOMAIN attempts' = DOMAIN attempts BY <1>2
<1>4. \A c \in DOMAIN attempts : c # a => attempts'[c] = attempts[c] BY <1>2
<1>5. attempts'[a] = [attempts[a] EXCEPT !.state = state] BY <1>2
<1>6. /\ attempts'[a].state = state /\ attempts'[a].batch = attempts[a].batch
      /\ attempts'[a].no = attempts[a].no
  BY <1>1, <1>5 DEF Attempt
<1> QED BY <1>3, <1>4, <1>6 DEF Tame

LEMMA SameTame == ASSUME attempts' = attempts, batches' = batches PROVE Tame
BY DEF Tame

LEMMA StepKinds ==
    ASSUME TypeOK, Held, Step
    PROVE  \/ Tame
           \/ \E p \in Senders, b \in DOMAIN bindings : Fresh(p, b)
           \/ \E a \in DOMAIN attempts, state \in {"EXPIRED", "SUPERSEDED_UNCERTAIN"},
                 p \in Senders \cup {"none"} : Renewal(a, state, p)
<1>1. \A a \in DOMAIN attempts : attempts[a] \in Attempt BY TypeFact
<1>2. attempts \in Seq(Attempt) BY DEF TypeOK
<1>3. CASE UNCHANGED vars BY <1>3, SameTame DEF vars
<1>4. ASSUME NEW e \in Events, Publish(e) \/ Ack(e) \/ Revise(e) PROVE Tame
  BY <1>4, SameTame DEF Publish, Ack, Revise
<1>5. CASE RebindOwner BY <1>5, WithdrawnTame DEF RebindOwner
<1>6. CASE BindBridge BY <1>6, SameTame DEF BindBridge
<1>7. CASE RecoverBridgeDelivery
  <2>1. batches' = batches BY <1>7 DEF RecoverBridgeDelivery
  <2>2. /\ DOMAIN attempts' = DOMAIN attempts
        /\ \A a \in DOMAIN attempts :
             attempts'[a] = IF attempts[a].state = "EMITTING"
                            THEN [attempts[a] EXCEPT !.state = "UNCERTAIN"] ELSE attempts[a]
    BY <1>7 DEF RecoverBridgeDelivery
  <2>3. \A a \in DOMAIN attempts : attempts[a].state = "EMITTING" =>
          /\ attempts'[a].state = "UNCERTAIN" /\ attempts'[a].batch = attempts[a].batch
          /\ attempts'[a].no = attempts[a].no
    BY <1>1, <2>2 DEF Attempt
  <2> QED BY <2>1, <2>2, <2>3 DEF Tame, Unresolved, AttemptState
<1>8. ASSUME NEW b \in DOMAIN bindings, NativeExit(b) \/ ObserveSession(b) \/ ActivateBridge(b)
      PROVE  Tame
  BY <1>8, SameTame DEF NativeExit, ObserveSession, ActivateBridge
<1>9. ASSUME NEW b \in DOMAIN bindings, Detach(b) PROVE Tame BY <1>9, WithdrawnTame DEF Detach
<1>10. ASSUME NEW b \in DOMAIN bindings, ClaimFindsUncertain(b) PROVE Tame
  <2>1. PICK a \in UnresolvedOf(b) : attempts' = SetState(a, "UNCERTAIN") /\ batches' = batches
    BY <1>10 DEF ClaimFindsUncertain
  <2>2. a \in DOMAIN attempts /\ attempts[a].state \in Unresolved BY DEF UnresolvedOf
  <2> QED BY <2>1, <2>2, SetStateTame DEF AttemptState
<1>11. ASSUME NEW b \in DOMAIN bindings, BridgeStatus(b) PROVE Tame
  <2>1. batches' = batches BY <1>11 DEF BridgeStatus
  <2> DEFINE aged == {a \in UnresolvedOf(b) : attempts[a].state = "OFFERED" /\ attempts[a].lapsed}
  <2>2. /\ DOMAIN attempts' = DOMAIN attempts
        /\ \A a \in DOMAIN attempts :
             attempts'[a] = IF a \in aged THEN [attempts[a] EXCEPT !.state = "UNCERTAIN"]
                            ELSE attempts[a]
    BY <1>11 DEF BridgeStatus
  <2>3. \A a \in aged : a \in DOMAIN attempts /\ attempts[a].state = "OFFERED" BY DEF UnresolvedOf
  <2> HIDE DEF aged
  <2>4. \A a \in aged :
          /\ attempts'[a].state = "UNCERTAIN" /\ attempts'[a].batch = attempts[a].batch
          /\ attempts'[a].no = attempts[a].no
    BY <1>1, <2>2, <2>3 DEF Attempt
  <2> QED BY <2>1, <2>2, <2>3, <2>4 DEF Tame, Unresolved, AttemptState
<1>12. ASSUME NEW b \in DOMAIN bindings, NEW p \in Senders, ClaimReclaim(p, b)
       PROVE  \E a \in DOMAIN attempts : Renewal(a, "EXPIRED", p)
  <2>1. PICK a \in UnresolvedOf(b) :
          /\ attempts' = Append(SetState(a, "EXPIRED"),
                                NewAttempt(attempts[a].batch, attempts[a].no + 1, p))
          /\ UNCHANGED <<events, bindings, batches, written>>
    BY <1>12 DEF ClaimReclaim
  <2>2. a \in DOMAIN attempts /\ attempts[a].state \in Unresolved BY DEF UnresolvedOf
  <2> QED BY <2>1, <2>2 DEF Renewal
<1>13. ASSUME NEW b \in DOMAIN bindings, NEW p \in Senders, ClaimAdopt(p, b) PROVE Tame
  <2>1. PICK a \in UnresolvedOf(b) : attempts' = [attempts EXCEPT ![a].sender = p]
    BY <1>13 DEF ClaimAdopt
  <2>2. batches' = batches BY <1>13 DEF ClaimAdopt
  <2>3. a \in DOMAIN attempts BY DEF UnresolvedOf
  <2>4. /\ DOMAIN attempts' = DOMAIN attempts
        /\ \A c \in DOMAIN attempts : c # a => attempts'[c] = attempts[c]
        /\ attempts'[a] = [attempts[a] EXCEPT !.sender = p]
    BY <2>1, <2>3
  <2>5. /\ attempts'[a].state = attempts[a].state /\ attempts'[a].batch = attempts[a].batch
        /\ attempts'[a].no = attempts[a].no
    BY <1>1, <2>3, <2>4 DEF Attempt
  <2> QED BY <2>2, <2>4, <2>5 DEF Tame
<1>14. ASSUME NEW p \in Senders, BeginBridgeEmit(p) PROVE Tame
  <2>1. PICK a \in DOMAIN attempts : a = hooks[p].attempt BY <1>14 DEF Held, HeldBy, BeginBridgeEmit
  <2>2. /\ attempts[a].state = "CLAIMED" /\ attempts' = SetState(a, "EMITTING")
        /\ batches' = batches
    BY <1>14, <2>1 DEF BeginBridgeEmit, MayEmit
  <2> QED BY <2>2, SetStateTame DEF Unresolved, AttemptState
<1>15. ASSUME NEW p \in Senders, Write(p) PROVE Tame BY <1>15, SameTame DEF Write
<1>16. ASSUME NEW p \in Senders, MarkBridgeOffered(p) PROVE Tame
  <2>1. PICK a \in DOMAIN attempts : a = hooks[p].attempt BY <1>16 DEF Held, HeldBy, MarkBridgeOffered
  <2>2. batches' = batches BY <1>16 DEF MarkBridgeOffered
  <2>3. attempts' = Gone(p, attempts)
        \/ /\ attempts[a].state = "EMITTING"
           /\ attempts' = Gone(p, [attempts EXCEPT ![a].state = "OFFERED", ![a].lapsed = FALSE])
    BY <1>16, <2>1 DEF MarkBridgeOffered
  <2>4. CASE attempts' = Gone(p, attempts) BY <2>4, <2>2, <1>2, GoneFact DEF Tame
  <2>5. ASSUME attempts[a].state = "EMITTING",
               attempts' = Gone(p, [attempts EXCEPT ![a].state = "OFFERED", ![a].lapsed = FALSE])
        PROVE  Tame
    <3>0. PICK new : new = [attempts EXCEPT ![a].state = "OFFERED", ![a].lapsed = FALSE] OBVIOUS
    <3>1. /\ new \in Seq(Attempt) /\ DOMAIN new = DOMAIN attempts
          /\ \A c \in DOMAIN attempts : c # a => new[c] = attempts[c]
          /\ new[a].state = "OFFERED" /\ new[a].batch = attempts[a].batch
          /\ new[a].no = attempts[a].no
      BY <3>0, OfferedFact
    <3>2. attempts' = Gone(p, new) BY <3>0, <2>5
    <3>3. /\ DOMAIN attempts' = DOMAIN new
          /\ \A c \in DOMAIN new : /\ attempts'[c].state = new[c].state
                                   /\ attempts'[c].batch = new[c].batch
                                   /\ attempts'[c].no = new[c].no
      BY <3>1, <3>2, GoneFact
    <3> QED BY <2>2, <2>5, <3>1, <3>3 DEF Tame, Unresolved, AttemptState
  <2> QED BY <2>3, <2>4, <2>5
<1>17. ASSUME NEW p \in Senders, Refused(p) \/ Die(p) PROVE Tame
  <2>1. attempts' = Gone(p, attempts) /\ batches' = batches BY <1>17 DEF Refused, Die
  <2> QED BY <2>1, <1>2, GoneFact DEF Tame
<1>18. ASSUME NEW a \in DOMAIN attempts, ReceiveBridge(a) PROVE Tame
  BY <1>18, SetStateTame DEF ReceiveBridge, Receivable, Unresolved, AttemptState
<1>19. ASSUME NEW a \in DOMAIN attempts, RedeliverBridge(a)
       PROVE  Renewal(a, "SUPERSEDED_UNCERTAIN", "none")
  BY <1>19 DEF RedeliverBridge, Renewal, Unresolved
<1>20. ASSUME NEW a \in DOMAIN attempts, Lapse(a) PROVE Tame
  <2>1. attempts' = [attempts EXCEPT ![a].lapsed = TRUE] /\ batches' = batches BY <1>20 DEF Lapse
  <2>2. /\ DOMAIN attempts' = DOMAIN attempts
        /\ \A c \in DOMAIN attempts : c # a => attempts'[c] = attempts[c]
        /\ attempts'[a] = [attempts[a] EXCEPT !.lapsed = TRUE]
    BY <2>1
  <2>3. /\ attempts'[a].state = attempts[a].state /\ attempts'[a].batch = attempts[a].batch
        /\ attempts'[a].no = attempts[a].no
    BY <1>1, <2>2 DEF Attempt
  <2> QED BY <2>1, <2>2, <2>3 DEF Tame
<1>21. ASSUME NEW b \in DOMAIN bindings, NEW p \in Senders, ClaimNew(p, b)
       PROVE  \E q \in Senders, c \in DOMAIN bindings : Fresh(q, c)
  BY <1>21 DEF Fresh
<1> QED
  BY <1>3, <1>4, <1>5, <1>6, <1>7, <1>8, <1>9, <1>10, <1>11, <1>12, <1>13, <1>14, <1>15, <1>16,
     <1>17, <1>18, <1>19, <1>20, <1>21 DEF Step, Next, Claim, HookStep

-----------------------------------------------------------------------------
(* What each kind of step keeps.                                           *)

LEMMA TameFact ==
    ASSUME TypeOK, Tame
    PROVE  /\ \A a \in DOMAIN attempts :
                /\ BindingOf(a)' = BindingOf(a) /\ Items(a)' = Items(a)
                /\ Live(a)' => Live(a)
                /\ attempts'[a].state \in Unresolved => attempts[a].state \in Unresolved
                /\ attempts'[a].state = "EXPIRED" => attempts[a].state = "EXPIRED"
                /\ attempts[a].state = "RECEIVED" => attempts'[a].state = "RECEIVED"
           /\ \A b : ReceivedIn(b) \subseteq ReceivedIn(b)'
<1>1. \A a \in DOMAIN attempts :
        /\ BindingOf(a)' = BindingOf(a) /\ Items(a)' = Items(a)
        /\ attempts[a].state = "RECEIVED" => attempts'[a].state = "RECEIVED"
  BY DEF Tame, BindingOf, Items, Unresolved
<1>2. \A a \in DOMAIN attempts :
        /\ Live(a)' => Live(a)
        /\ attempts'[a].state \in Unresolved => attempts[a].state \in Unresolved
        /\ attempts'[a].state = "EXPIRED" => attempts[a].state = "EXPIRED"
  BY DEF Tame, Live
<1>3. DOMAIN attempts' = DOMAIN attempts BY DEF Tame
<1>4. ASSUME NEW b, NEW e \in ReceivedIn(b) PROVE e \in ReceivedIn(b)'
  <2>1. PICK a \in DOMAIN attempts :
          BindingOf(a) = b /\ attempts[a].state = "RECEIVED" /\ e \in Items(a)
    BY DEF ReceivedIn
  <2>2. /\ a \in DOMAIN attempts' /\ BindingOf(a)' = b /\ attempts'[a].state = "RECEIVED"
        /\ e \in Items(a)'
    BY <2>1, <1>1, <1>3
  <2> QED BY <2>2 DEF ReceivedIn
<1> QED BY <1>1, <1>2, <1>4

LEMMA SetStateFact ==
    ASSUME TypeOK, NEW a \in DOMAIN attempts, NEW state \in AttemptState
    PROVE  /\ SetState(a, state) \in Seq(Attempt) /\ Len(SetState(a, state)) = Len(attempts)
           /\ DOMAIN SetState(a, state) = DOMAIN attempts
           /\ \A c \in DOMAIN attempts : c # a => SetState(a, state)[c] = attempts[c]
           /\ SetState(a, state)[a].state = state
           /\ SetState(a, state)[a].batch = attempts[a].batch
           /\ SetState(a, state)[a].no = attempts[a].no
           /\ SetState(a, state)[a].sender = attempts[a].sender
<1> DEFINE new == [attempts EXCEPT ![a].state = state]
<1>1. attempts \in Seq(Attempt) BY DEF TypeOK
<1>2. \A c \in DOMAIN attempts : attempts[c] \in Attempt BY <1>1
<1>3. Len(attempts) \in Nat /\ DOMAIN attempts = 1..Len(attempts) BY <1>1
<1>4. /\ DOMAIN new = DOMAIN attempts /\ new = [c \in DOMAIN attempts |-> new[c]]
      /\ \A c \in DOMAIN attempts : c # a => new[c] = attempts[c]
      /\ new[a] = [attempts[a] EXCEPT !.state = state]
  OBVIOUS
<1> HIDE DEF new
<1>5. /\ new[a].state = state /\ new[a].batch = attempts[a].batch
      /\ new[a].no = attempts[a].no /\ new[a].sender = attempts[a].sender /\ new[a] \in Attempt
  BY <1>2, <1>4 DEF Attempt
<1>6. new \in [1..Len(attempts) -> Attempt] BY <1>2, <1>3, <1>4, <1>5
<1>7. new \in Seq(Attempt) /\ Len(new) = Len(attempts) BY <1>3, <1>4, <1>6
<1>8. SetState(a, state) = new BY DEF new, SetState
<1> QED BY <1>4, <1>5, <1>7, <1>8

\* What comes of it: the new attempt has the next number n.
Renewed(a, state, p, n) ==
    /\ DOMAIN attempts' = DOMAIN attempts \cup {n} /\ n \notin DOMAIN attempts
    /\ \A c \in DOMAIN attempts :
         /\ BindingOf(c)' = BindingOf(c) /\ Items(c)' = Items(c)
         /\ attempts'[c].batch = attempts[c].batch /\ attempts'[c].no = attempts[c].no
         /\ attempts'[c].sender = attempts[c].sender
         /\ c # a => attempts'[c].state = attempts[c].state
    /\ attempts'[a].state = state
    /\ attempts'[n].state = "CLAIMED" /\ attempts'[n].batch = attempts[a].batch
    /\ attempts'[n].no = attempts[a].no + 1 /\ attempts'[n].sender = p
    /\ BindingOf(n)' = BindingOf(a) /\ Items(n)' = Items(a)
    /\ \A b : ReceivedIn(b) \subseteq ReceivedIn(b)'

LEMMA RenewalFact ==
    ASSUME TypeOK, Shape, NEW a, NEW state, NEW p, Renewal(a, state, p), NEW n, n = Len(attempts) + 1
    PROVE  Renewed(a, state, p, n)
<1> DEFINE old == SetState(a, state)
           new == NewAttempt(attempts[a].batch, attempts[a].no + 1, p)
<1>1. a \in DOMAIN attempts /\ attempts[a].state \in Unresolved /\ state \in AttemptState
  BY DEF Renewal, AttemptState
<1>2. attempts' = Append(old, new) /\ batches' = batches BY DEF Renewal
<1>3. /\ old \in Seq(Attempt) /\ Len(old) = Len(attempts) /\ DOMAIN old = DOMAIN attempts
      /\ \A c \in DOMAIN attempts : c # a => old[c] = attempts[c]
      /\ old[a].state = state /\ old[a].batch = attempts[a].batch /\ old[a].no = attempts[a].no
      /\ old[a].sender = attempts[a].sender
  BY <1>1, SetStateFact
<1>4. /\ new.batch = attempts[a].batch /\ new.no = attempts[a].no + 1
      /\ new.state = "CLAIMED" /\ new.sender = p
  BY DEF NewAttempt
<1> HIDE DEF old, new
<1>5. /\ DOMAIN attempts' = DOMAIN attempts \cup {n} /\ n \notin DOMAIN attempts
      /\ \A c \in DOMAIN attempts : attempts'[c] = old[c]
      /\ attempts'[n] = new
  BY <1>2, <1>3, AppendFact
<1>6. \A c \in DOMAIN attempts :
        /\ attempts'[c].batch = attempts[c].batch /\ attempts'[c].no = attempts[c].no
        /\ attempts'[c].sender = attempts[c].sender
        /\ c # a => attempts'[c].state = attempts[c].state
  BY <1>3, <1>5
<1>7. attempts'[a].state = state BY <1>1, <1>3, <1>5
<1>8. \A c \in DOMAIN attempts : BindingOf(c)' = BindingOf(c) /\ Items(c)' = Items(c)
  BY <1>2, <1>6 DEF BindingOf, Items
<1>9. BindingOf(n)' = BindingOf(a) /\ Items(n)' = Items(a)
  BY <1>2, <1>4, <1>5 DEF BindingOf, Items
<1>10. ASSUME NEW b, NEW e \in ReceivedIn(b) PROVE e \in ReceivedIn(b)'
  <2>1. PICK c \in DOMAIN attempts :
          BindingOf(c) = b /\ attempts[c].state = "RECEIVED" /\ e \in Items(c)
    BY DEF ReceivedIn
  <2>2. c # a BY <1>1, <2>1 DEF Unresolved
  <2>3. /\ c \in DOMAIN attempts' /\ BindingOf(c)' = b /\ attempts'[c].state = "RECEIVED"
        /\ e \in Items(c)'
    BY <2>1, <2>2, <1>5, <1>6, <1>8
  <2> QED BY <2>3 DEF ReceivedIn
<1> QED BY <1>4, <1>5, <1>6, <1>7, <1>8, <1>9, <1>10 DEF Renewed

\* What comes of a claim of new events: the new attempt has the next number n.
Claimed(p, b, n) ==
    /\ DOMAIN attempts' = DOMAIN attempts \cup {n} /\ n \notin DOMAIN attempts
    /\ DOMAIN batches' = DOMAIN batches \cup {Len(batches) + 1}
    /\ \A c \in DOMAIN attempts :
         /\ BindingOf(c)' = BindingOf(c) /\ Items(c)' = Items(c)
         /\ attempts'[c] = attempts[c]
    /\ attempts'[n] = NewAttempt(Len(batches) + 1, 1, p)
    /\ BindingOf(n)' = b /\ Items(n)' # {} /\ Leads(Items(n)', Source(b))
    /\ \A k \in DOMAIN batches : batches'[k] = batches[k]
    /\ batches'[Len(batches) + 1].binding = b
    /\ batches'[Len(batches) + 1].items = Items(n)'
    /\ UnresolvedOf(b) = {} /\ b \in DOMAIN bindings /\ bindings[b].status = "ACTIVE"
    /\ UNCHANGED <<events, bindings, written>>
    /\ \A d : ReceivedIn(d) \subseteq ReceivedIn(d)'

LEMMA FreshFact ==
    ASSUME TypeOK, Shape, NEW p, NEW b, Fresh(p, b), NEW n, n = Len(attempts) + 1
    PROVE  Claimed(p, b, n)
<1> DEFINE m == Len(batches) + 1
           new == NewAttempt(m, 1, p)
<1>1. attempts \in Seq(Attempt) /\ batches \in Seq(Batch) BY DEF TypeOK
<1>2. PICK items \in SUBSET Source(b) :
        /\ items # {} /\ Leads(items, Source(b))
        /\ batches' = Append(batches, [binding |-> b, items |-> items])
  BY DEF Fresh, ClaimNew
<1>3. attempts' = Append(attempts, new) BY DEF Fresh, ClaimNew
<1>4. new.batch = m BY DEF NewAttempt
<1>5. /\ UnresolvedOf(b) = {} /\ b \in DOMAIN bindings /\ bindings[b].status = "ACTIVE"
      /\ UNCHANGED <<events, bindings, written>>
  BY DEF Fresh, ClaimNew, MaySend
<1> HIDE DEF new
<1>6. /\ DOMAIN attempts' = DOMAIN attempts \cup {n} /\ n \notin DOMAIN attempts
      /\ \A c \in DOMAIN attempts : attempts'[c] = attempts[c]
      /\ attempts'[n] = new
  BY <1>1, <1>3, AppendFact
<1>7. /\ DOMAIN batches' = DOMAIN batches \cup {m}
      /\ \A k \in DOMAIN batches : batches'[k] = batches[k]
      /\ batches'[m] = [binding |-> b, items |-> items]
  BY <1>1, <1>2, AppendFact
<1>8. batches'[m].binding = b /\ batches'[m].items = items BY <1>7
<1> HIDE DEF m
<1>9. \A c \in DOMAIN attempts : BindingOf(c)' = BindingOf(c) /\ Items(c)' = Items(c)
  BY <1>6, <1>7 DEF BindingOf, Items, Shape
<1>10. BindingOf(n)' = b /\ Items(n)' = items BY <1>4, <1>6, <1>8 DEF BindingOf, Items
<1>11. ASSUME NEW d, NEW e \in ReceivedIn(d) PROVE e \in ReceivedIn(d)'
  <2>1. PICK c \in DOMAIN attempts :
          BindingOf(c) = d /\ attempts[c].state = "RECEIVED" /\ e \in Items(c)
    BY DEF ReceivedIn
  <2>2. /\ c \in DOMAIN attempts' /\ BindingOf(c)' = d /\ attempts'[c].state = "RECEIVED"
        /\ e \in Items(c)'
    BY <2>1, <1>6, <1>9
  <2> QED BY <2>2 DEF ReceivedIn
<1> QED BY <1>2, <1>5, <1>6, <1>7, <1>8, <1>9, <1>10, <1>11 DEF m, new, Claimed

-----------------------------------------------------------------------------
(* The bindings and the events.                                            *)

\* A new epoch replaces the newest binding, of which nothing is unresolved.
Replacing ==
    /\ DOMAIN bindings' = DOMAIN bindings \cup {Len(bindings) + 1}
    /\ Len(bindings') = Len(bindings) + 1
    /\ \A b \in DOMAIN bindings :
         bindings'[b].status = IF b = Len(bindings) THEN "STALE" ELSE bindings[b].status
    /\ Len(bindings) > 0 => UnresolvedOf(Len(bindings)) = {}
    /\ UNCHANGED <<attempts, batches>>

LEMMA BindingsFact ==
    ASSUME TypeOK, Step
    PROVE  \/ Replacing
           \/ /\ DOMAIN bindings' = DOMAIN bindings /\ Len(bindings') = Len(bindings)
              /\ \A b \in DOMAIN bindings : bindings[b].status = "STALE" => bindings'[b].status = "STALE"
<1> DEFINE Kept == /\ DOMAIN bindings' = DOMAIN bindings /\ Len(bindings') = Len(bindings)
                   /\ \A b \in DOMAIN bindings :
                        bindings[b].status = "STALE" => bindings'[b].status = "STALE"
<1>1. bindings \in Seq(Binding) BY DEF TypeOK
<1>2. \A b \in DOMAIN bindings : bindings[b] \in Binding BY <1>1
<1>3. Len(bindings) \in Nat /\ DOMAIN bindings = 1..Len(bindings) BY <1>1
<1>4. ASSUME bindings' = bindings PROVE Kept BY <1>4
<1>5. CASE RebindOwner
  <2>1. bindings' = [b \in DOMAIN bindings |-> [bindings[b] EXCEPT !.status = "STALE"]]
    BY <1>5 DEF RebindOwner
  <2>2. DOMAIN bindings' = DOMAIN bindings BY <2>1
  <2>3. \A b \in DOMAIN bindings : bindings'[b].status = "STALE" BY <2>1, <1>2 DEF Binding
  <2>4. Len(bindings') = Len(bindings) BY <2>1, <1>3
  <2> QED BY <2>2, <2>3, <2>4
<1>6. CASE BindBridge
  <2> DEFINE old == Len(bindings)
             kept == [b \in DOMAIN bindings |->
                        IF b = old THEN [bindings[b] EXCEPT !.status = "STALE"] ELSE bindings[b]]
             new == [status |-> "PENDING_SESSION", owner |-> owner]
  <2>1. /\ bindings' = Append(kept, new) /\ UNCHANGED <<attempts, batches>>
        /\ old > 0 => UnresolvedOf(old) = {}
    BY <1>6 DEF BindBridge, Rebindable
  <2>2. /\ DOMAIN kept = DOMAIN bindings /\ kept = [b \in 1..old |-> kept[b]]
        /\ \A b \in DOMAIN bindings :
             kept[b] = IF b = old THEN [bindings[b] EXCEPT !.status = "STALE"] ELSE bindings[b]
    BY <1>3
  <2> HIDE DEF kept, new
  <2>3. \A b \in DOMAIN bindings :
          kept[b].status = (IF b = old THEN "STALE" ELSE bindings[b].status) /\ kept[b] \in Binding
    BY <2>2, <1>2 DEF Binding, BindingStatus
  <2>4. kept \in [1..old -> Binding] BY <2>2, <2>3, <1>3
  <2>5. kept \in Seq(Binding) /\ Len(kept) = old BY <2>2, <2>4, <1>3
  <2>6. /\ Len(bindings') = old + 1 /\ DOMAIN bindings' = DOMAIN bindings \cup {old + 1}
        /\ \A b \in DOMAIN bindings : bindings'[b] = kept[b]
    BY <2>1, <2>2, <2>5, AppendFact
  <2> QED BY <2>1, <2>3, <2>6 DEF Replacing
<1>7. ASSUME NEW b \in DOMAIN bindings, NEW status,
             bindings[b].status # "STALE", bindings' = [bindings EXCEPT ![b].status = status]
      PROVE  Kept
  <2>1. DOMAIN bindings' = DOMAIN bindings /\ Len(bindings') = Len(bindings) BY <1>7, <1>1
  <2>2. \A c \in DOMAIN bindings : c # b => bindings'[c] = bindings[c] BY <1>7
  <2> QED BY <1>7, <2>1, <2>2
<1>8. ASSUME NEW b \in DOMAIN bindings, ObserveSession(b) \/ ActivateBridge(b) \/ Detach(b)
      PROVE  Kept
  <2>1. bindings[b].status # "STALE" BY <1>8 DEF ObserveSession, ActivateBridge, Detach
  <2>2. PICK status : bindings' = [bindings EXCEPT ![b].status = status]
    BY <1>8 DEF ObserveSession, ActivateBridge, Detach
  <2> QED BY <2>1, <2>2, <1>7
<1>9. \/ bindings' = bindings \/ RebindOwner \/ BindBridge
      \/ \E b \in DOMAIN bindings : ObserveSession(b) \/ ActivateBridge(b) \/ Detach(b)
  <2>1. CASE UNCHANGED vars BY <2>1 DEF vars
  <2>2. ASSUME NEW e \in Events, Publish(e) \/ Ack(e) \/ Revise(e) PROVE bindings' = bindings
    BY <2>2 DEF Publish, Ack, Revise
  <2>3. CASE RecoverBridgeDelivery BY <2>3 DEF RecoverBridgeDelivery
  <2>4. ASSUME NEW b \in DOMAIN bindings, NativeExit(b) \/ ClaimFindsUncertain(b) \/ BridgeStatus(b)
        PROVE  bindings' = bindings
    BY <2>4 DEF NativeExit, ClaimFindsUncertain, BridgeStatus
  <2>5. ASSUME NEW b, NEW p, Claim(p, b) PROVE bindings' = bindings
    BY <2>5 DEF Claim, ClaimNew, ClaimReclaim, ClaimAdopt
  <2>6. ASSUME NEW p, HookStep(p) \/ Die(p) PROVE bindings' = bindings
    BY <2>6 DEF HookStep, BeginBridgeEmit, Write, MarkBridgeOffered, Refused, Die
  <2>7. ASSUME NEW a, ReceiveBridge(a) \/ RedeliverBridge(a) \/ Lapse(a) PROVE bindings' = bindings
    BY <2>7 DEF ReceiveBridge, RedeliverBridge, Lapse
  <2> QED BY <2>1, <2>2, <2>3, <2>4, <2>5, <2>6, <2>7 DEF Step, Next
<1> QED BY <1>4, <1>5, <1>6, <1>8, <1>9

LEMMA EventsFact ==
    ASSUME Step
    PROVE  events' = events \/ \E e \in Events : Publish(e) \/ Ack(e)
<1>1. CASE UNCHANGED vars BY <1>1 DEF vars
<1>2. ASSUME NEW e \in Events, Revise(e) PROVE events' = events BY <1>2 DEF Revise
<1>3. CASE RebindOwner \/ BindBridge \/ RecoverBridgeDelivery
  BY <1>3 DEF RebindOwner, BindBridge, RecoverBridgeDelivery
<1>4. ASSUME NEW b, \/ NativeExit(b) \/ ObserveSession(b) \/ ActivateBridge(b) \/ Detach(b)
                    \/ ClaimFindsUncertain(b) \/ BridgeStatus(b)
      PROVE  events' = events
  BY <1>4 DEF NativeExit, ObserveSession, ActivateBridge, Detach, ClaimFindsUncertain, BridgeStatus
<1>5. ASSUME NEW b, NEW p, Claim(p, b) PROVE events' = events
  BY <1>5 DEF Claim, ClaimNew, ClaimReclaim, ClaimAdopt
<1>6. ASSUME NEW p, HookStep(p) \/ Die(p) PROVE events' = events
  BY <1>6 DEF HookStep, BeginBridgeEmit, Write, MarkBridgeOffered, Refused, Die
<1>7. ASSUME NEW a, ReceiveBridge(a) \/ RedeliverBridge(a) \/ Lapse(a) PROVE events' = events
  BY <1>7 DEF ReceiveBridge, RedeliverBridge, Lapse
<1> QED BY <1>1, <1>2, <1>3, <1>4, <1>5, <1>6, <1>7 DEF Step, Next

LEMMA PublishedStep ==
    ASSUME TypeOK, Published, Step
    PROVE  /\ Published'
           /\ \A e \in Events : events[e] = "acked" => events'[e] = "acked"
<1>1. events \in [Events -> {"none", "pending", "acked"}] BY DEF TypeOK
<1>2. CASE events' = events BY <1>2 DEF Published
<1>3. ASSUME NEW d \in Events, Ack(d) PROVE Published' /\ \A e \in Events : events[e] = "acked" => events'[e] = "acked"
  <2>1. events[d] = "pending" /\ events' = [events EXCEPT ![d] = "acked"] BY <1>3 DEF Ack
  <2>2. \A e \in Events : events'[e] = IF e = d THEN "acked" ELSE events[e] BY <2>1, <1>1
  <2> QED BY <2>1, <2>2 DEF Published
<1>4. ASSUME NEW d \in Events, Publish(d) PROVE Published' /\ \A e \in Events : events[e] = "acked" => events'[e] = "acked"
  <2>1. /\ events[d] = "none" /\ \A f \in Events : f < d => events[f] # "none"
        /\ events' = [events EXCEPT ![d] = "pending"]
    BY <1>4 DEF Publish
  <2>2. \A e \in Events : events'[e] = IF e = d THEN "pending" ELSE events[e] BY <2>1, <1>1
  <2> QED BY <2>1, <2>2 DEF Published
<1> QED BY <1>2, <1>3, <1>4, EventsFact

LEMMA ReplacedStep == ASSUME TypeOK, Replaced, Step PROVE Replaced'
<1>1. Len(bindings) \in Nat /\ DOMAIN bindings = 1..Len(bindings) BY TypeFact
<1>2. CASE Replacing BY <1>1, <1>2 DEF Replacing, Replaced
<1>3. CASE /\ DOMAIN bindings' = DOMAIN bindings /\ Len(bindings') = Len(bindings)
           /\ \A b \in DOMAIN bindings : bindings[b].status = "STALE" => bindings'[b].status = "STALE"
  BY <1>3 DEF Replaced
<1> QED BY <1>2, <1>3, BindingsFact

LEMMA ShapeStep == ASSUME TypeOK, Shape, Held, Step PROVE Shape'
<1>1. DOMAIN bindings \subseteq DOMAIN bindings' BY BindingsFact DEF Replacing
<1>2. CASE Tame BY <1>1, <1>2 DEF Tame, Shape
<1>3. ASSUME NEW p, NEW b, Fresh(p, b) PROVE Shape'
  <2>0. PICK n, m : n = Len(attempts) + 1 /\ m = Len(batches) + 1 OBVIOUS
  <2>n. Claimed(p, b, n) BY <1>3, <2>0, FreshFact
  <2>1. /\ DOMAIN attempts' = DOMAIN attempts \cup {n}
        /\ DOMAIN batches' = DOMAIN batches \cup {m}
        /\ \A c \in DOMAIN attempts : attempts'[c] = attempts[c]
        /\ attempts'[n] = NewAttempt(m, 1, p)
        /\ \A k \in DOMAIN batches : batches'[k] = batches[k]
        /\ batches'[m].binding = b /\ b \in DOMAIN bindings
    BY <2>n, <2>0 DEF Claimed
  <2>2. attempts'[n].batch = m BY <2>1 DEF NewAttempt
  <2> QED BY <2>1, <2>2, <1>1 DEF Shape
<1>4. ASSUME NEW a, NEW state, NEW p, Renewal(a, state, p) PROVE Shape'
  <2>0. PICK n : n = Len(attempts) + 1 OBVIOUS
  <2>n. Renewed(a, state, p, n) BY <1>4, <2>0, RenewalFact
  <2>1. /\ DOMAIN attempts' = DOMAIN attempts \cup {n}
        /\ \A c \in DOMAIN attempts : attempts'[c].batch = attempts[c].batch
        /\ attempts'[n].batch = attempts[a].batch
    BY <2>n DEF Renewed
  <2>3. a \in DOMAIN attempts /\ batches' = batches BY <1>4 DEF Renewal
  <2> QED BY <2>1, <2>3, <1>1 DEF Shape
<1> QED BY <1>2, <1>3, <1>4, StepKinds

-----------------------------------------------------------------------------
(* The live attempts.                                                      *)

\* The one unresolved attempt is in the newest binding.
LEMMA OpenFact ==
    ASSUME OpenOnlyInNewest, NEW a \in DOMAIN attempts, attempts[a].state \in Unresolved
    PROVE  /\ BindingOf(a) = Len(bindings) /\ a \in UnresolvedOf(Len(bindings))
           /\ \A c \in DOMAIN attempts : attempts[c].state \in Unresolved => c = a
BY DEF OpenOnlyInNewest, UnresolvedOf

LEMMA OpenStep ==
    ASSUME TypeOK, Shape, Replaced, Held, OpenOnlyInNewest, Step PROVE OpenOnlyInNewest'
<1>1. Len(bindings) \in Nat /\ DOMAIN bindings = 1..Len(bindings) BY TypeFact
<1>2. CASE Tame /\ Len(bindings') = Len(bindings)
  <2>1. \A a \in DOMAIN attempts :
          /\ BindingOf(a)' = BindingOf(a)
          /\ attempts'[a].state \in Unresolved => attempts[a].state \in Unresolved
    BY <1>2, TameFact
  <2>2. DOMAIN attempts' = DOMAIN attempts BY <1>2 DEF Tame
  <2>3. \A a, c \in DOMAIN attempts :
          attempts[a].state \in Unresolved =>
            BindingOf(a) = Len(bindings) /\ (attempts[c].state \in Unresolved => a = c)
    BY DEF OpenOnlyInNewest
  <2> QED BY <2>1, <2>2, <2>3, <1>2 DEF OpenOnlyInNewest
<1>3. CASE Replacing
  <2>1. ASSUME NEW a \in DOMAIN attempts, attempts[a].state \in Unresolved PROVE FALSE
    <3>1. BindingOf(a) \in DOMAIN bindings BY DEF Shape, BindingOf
    <3>2. Len(bindings) > 0 BY <3>1, <1>1
    <3> QED BY <2>1, <3>2, <1>3, OpenFact DEF Replacing
  <2> QED BY <2>1, <1>3 DEF Replacing, OpenOnlyInNewest
<1>4. ASSUME NEW p, NEW b, Fresh(p, b) PROVE OpenOnlyInNewest'
  <2>0. PICK n : n = Len(attempts) + 1 OBVIOUS
  <2>n. Claimed(p, b, n) BY <1>4, <2>0, FreshFact
  <2>1. /\ DOMAIN attempts' = DOMAIN attempts \cup {n} /\ BindingOf(n)' = b
        /\ \A c \in DOMAIN attempts : attempts'[c] = attempts[c]
        /\ UnresolvedOf(b) = {} /\ b \in DOMAIN bindings /\ bindings[b].status = "ACTIVE"
        /\ bindings' = bindings
    BY <2>n DEF Claimed
  <2>2. b = Len(bindings) BY <2>1 DEF Replaced
  <2>3. \A a \in DOMAIN attempts : attempts[a].state \notin Unresolved BY <2>1, <2>2, OpenFact
  <2>4. \A a \in DOMAIN attempts' : attempts'[a].state \in Unresolved => a = n BY <2>1, <2>3
  <2> QED BY <2>1, <2>2, <2>4 DEF OpenOnlyInNewest
<1>5. ASSUME NEW a, NEW state, NEW p, Renewal(a, state, p) PROVE OpenOnlyInNewest'
  <2>0. PICK n : n = Len(attempts) + 1 OBVIOUS
  <2>n. Renewed(a, state, p, n) BY <1>5, <2>0, RenewalFact
  <2>1. /\ DOMAIN attempts' = DOMAIN attempts \cup {n} /\ BindingOf(n)' = BindingOf(a)
        /\ \A c \in DOMAIN attempts : c # a => attempts'[c].state = attempts[c].state
        /\ attempts'[a].state = state
    BY <2>n DEF Renewed
  <2>2. /\ a \in DOMAIN attempts /\ attempts[a].state \in Unresolved /\ bindings' = bindings
        /\ state \notin Unresolved
    BY <1>5 DEF Renewal, Unresolved
  <2>3. \A c \in DOMAIN attempts' : attempts'[c].state \in Unresolved => c = n
    BY <2>1, <2>2, OpenFact
  <2>4. BindingOf(a) = Len(bindings) BY <2>2, OpenFact
  <2> QED BY <2>1, <2>2, <2>3, <2>4 DEF OpenOnlyInNewest
<1>6. Len(bindings') = Len(bindings) \/ Replacing BY BindingsFact
<1> QED BY <1>2, <1>3, <1>4, <1>5, <1>6, StepKinds

LEMMA DisjointStep ==
    ASSUME TypeOK, Shape, Held, OpenOnlyInNewest, LiveDisjoint, Step PROVE LiveDisjoint'
<1> DEFINE Apart(a, c) == Live(a) /\ Live(c) /\ BindingOf(a) = BindingOf(c) => Items(a) \cap Items(c) = {}
<1>0. \A a, c \in DOMAIN attempts : a # c => Apart(a, c) BY DEF LiveDisjoint
<1>1. CASE Tame
  <2>1. \A a \in DOMAIN attempts :
          BindingOf(a)' = BindingOf(a) /\ Items(a)' = Items(a) /\ (Live(a)' => Live(a))
    BY <1>1, TameFact
  <2>2. DOMAIN attempts' = DOMAIN attempts BY <1>1 DEF Tame
  <2> QED BY <1>0, <2>1, <2>2 DEF LiveDisjoint
<1>2. ASSUME NEW p, NEW b, Fresh(p, b) PROVE LiveDisjoint'
  <2>0. PICK n : n = Len(attempts) + 1 OBVIOUS
  <2>n. Claimed(p, b, n) BY <1>2, <2>0, FreshFact
  <2>1. /\ DOMAIN attempts' = DOMAIN attempts \cup {n} /\ BindingOf(n)' = b
        /\ \A c \in DOMAIN attempts :
             BindingOf(c)' = BindingOf(c) /\ Items(c)' = Items(c) /\ attempts'[c] = attempts[c]
        /\ UnresolvedOf(b) = {} /\ Leads(Items(n)', Source(b))
    BY <2>n DEF Claimed
  <2>2. \A c \in DOMAIN attempts : Live(c)' => Live(c) BY <2>1 DEF Live
  <2>3. ASSUME NEW c \in DOMAIN attempts, Live(c), BindingOf(c) = b PROVE Items(n)' \cap Items(c) = {}
    <3>1. attempts[c].state = "RECEIVED" BY <2>1, <2>3 DEF UnresolvedOf, Live
    <3>2. Items(c) \subseteq ReceivedIn(b) BY <3>1, <2>3 DEF ReceivedIn
    <3> QED BY <2>1, <3>2, SourceFact
  <2>4. ASSUME NEW a \in DOMAIN attempts', NEW c \in DOMAIN attempts', a # c,
               Live(a)', Live(c)', BindingOf(a)' = BindingOf(c)'
        PROVE  Items(a)' \cap Items(c)' = {}
    <3>1. CASE a = n
      <4>1. c \in DOMAIN attempts /\ Live(c) /\ BindingOf(c) = b /\ Items(c)' = Items(c)
        BY <3>1, <2>1, <2>2, <2>4
      <4> QED BY <4>1, <3>1, <2>3
    <3>2. CASE c = n
      <4>1. a \in DOMAIN attempts /\ Live(a) /\ BindingOf(a) = b /\ Items(a)' = Items(a)
        BY <3>2, <2>1, <2>2, <2>4
      <4> QED BY <4>1, <3>2, <2>3
    <3>3. CASE a # n /\ c # n
      <4>1. /\ a \in DOMAIN attempts /\ Live(a) /\ c \in DOMAIN attempts /\ Live(c)
            /\ BindingOf(a) = BindingOf(c) /\ Items(a)' = Items(a) /\ Items(c)' = Items(c)
        BY <3>3, <2>1, <2>2, <2>4
      <4> QED BY <4>1, <2>4, <1>0
    <3> QED BY <3>1, <3>2, <3>3
  <2> QED BY <2>4 DEF LiveDisjoint
<1>3. ASSUME NEW o, NEW state, NEW p, Renewal(o, state, p) PROVE LiveDisjoint'
  <2>0. PICK n : n = Len(attempts) + 1 OBVIOUS
  <2>n. Renewed(o, state, p, n) BY <1>3, <2>0, RenewalFact
  <2>1. /\ DOMAIN attempts' = DOMAIN attempts \cup {n}
        /\ BindingOf(n)' = BindingOf(o) /\ Items(n)' = Items(o)
        /\ \A c \in DOMAIN attempts :
             /\ BindingOf(c)' = BindingOf(c) /\ Items(c)' = Items(c)
             /\ c # o => attempts'[c].state = attempts[c].state
        /\ attempts'[o].state = state
    BY <2>n DEF Renewed
  <2>2. o \in DOMAIN attempts /\ Live(o) /\ ~Live(o)' BY <1>3, <2>1 DEF Renewal, Live, Unresolved
  <2>3. \A c \in DOMAIN attempts : Live(c)' => Live(c) /\ c # o BY <2>1, <2>2 DEF Live
  <2>4. ASSUME NEW a \in DOMAIN attempts', NEW c \in DOMAIN attempts', a # c,
               Live(a)', Live(c)', BindingOf(a)' = BindingOf(c)'
        PROVE  Items(a)' \cap Items(c)' = {}
    <3>1. CASE a = n
      <4>1. c \in DOMAIN attempts BY <3>1, <2>1, <2>4
      <4>2. Live(c) /\ c # o /\ BindingOf(c) = BindingOf(o) /\ Items(c)' = Items(c)
        BY <4>1, <3>1, <2>1, <2>3, <2>4
      <4> QED BY <4>1, <4>2, <3>1, <2>1, <2>2, <1>0
    <3>2. CASE c = n
      <4>1. a \in DOMAIN attempts BY <3>2, <2>1, <2>4
      <4>2. Live(a) /\ a # o /\ BindingOf(a) = BindingOf(o) /\ Items(a)' = Items(a)
        BY <4>1, <3>2, <2>1, <2>3, <2>4
      <4> QED BY <4>1, <4>2, <3>2, <2>1, <2>2, <1>0
    <3>3. CASE a # n /\ c # n
      <4>1. a \in DOMAIN attempts /\ c \in DOMAIN attempts BY <3>3, <2>1
      <4>2. /\ Live(a) /\ Live(c)
            /\ BindingOf(a) = BindingOf(c) /\ Items(a)' = Items(a) /\ Items(c)' = Items(c)
        BY <4>1, <2>1, <2>3, <2>4
      <4> QED BY <4>1, <4>2, <2>4, <1>0
    <3> QED BY <3>1, <3>2, <3>3
  <2> QED BY <2>4 DEF LiveDisjoint
<1> QED BY <1>1, <1>2, <1>3, StepKinds

LEMMA ReceivedFact ==
    ASSUME NEW a, NEW b, BindingOf(a)' = b PROVE ReceivedIn(BindingOf(a))' = ReceivedIn(b)'
BY DEF ReceivedIn

LEMMA InOrderStep ==
    ASSUME TypeOK, Shape, Held, Published, LiveInOrder, Step PROVE LiveInOrder'
<1> DEFINE Before(a, e, f) == f \in Items(a) \/ f \in ReceivedIn(BindingOf(a)) \/ events[f] = "acked"
<1>0. \A a \in DOMAIN attempts : Live(a) =>
        \A e \in Items(a), f \in Events : f < e => Before(a, e, f)
  BY DEF LiveInOrder
<1>1. \A e \in Events : events[e] = "acked" => events'[e] = "acked" BY PublishedStep
<1>2. CASE Tame
  <2>1. /\ \A a \in DOMAIN attempts :
             BindingOf(a)' = BindingOf(a) /\ Items(a)' = Items(a) /\ (Live(a)' => Live(a))
        /\ \A b : ReceivedIn(b) \subseteq ReceivedIn(b)'
    BY <1>2, TameFact
  <2>2. DOMAIN attempts' = DOMAIN attempts BY <1>2 DEF Tame
  <2>3. ASSUME NEW a \in DOMAIN attempts, Live(a)', NEW e \in Items(a)', NEW f \in Events, f < e
        PROVE  f \in Items(a)' \/ f \in ReceivedIn(BindingOf(a))' \/ events'[f] = "acked"
    <3>1. Live(a) /\ e \in Items(a) BY <2>1, <2>3
    <3>2. Before(a, e, f) BY <1>0, <3>1, <2>3
    <3>3. PICK b : b = BindingOf(a) OBVIOUS
    <3>4. ReceivedIn(BindingOf(a))' = ReceivedIn(b)' BY <3>3, <2>1, ReceivedFact
    <3>5. ReceivedIn(b) \subseteq ReceivedIn(b)' BY <2>1
    <3> QED BY <3>2, <3>3, <3>4, <3>5, <2>1, <1>1
  <2> QED BY <2>2, <2>3 DEF LiveInOrder
<1>3. ASSUME NEW p, NEW d, Fresh(p, d) PROVE LiveInOrder'
  <2>0. PICK n : n = Len(attempts) + 1 OBVIOUS
  <2>n. Claimed(p, d, n) BY <1>3, <2>0, FreshFact
  <2>1. /\ DOMAIN attempts' = DOMAIN attempts \cup {n} /\ BindingOf(n)' = d
        /\ \A c \in DOMAIN attempts :
             BindingOf(c)' = BindingOf(c) /\ Items(c)' = Items(c) /\ attempts'[c] = attempts[c]
        /\ Leads(Items(n)', Source(d)) /\ events' = events
        /\ \A b : ReceivedIn(b) \subseteq ReceivedIn(b)'
    BY <2>n DEF Claimed
  <2>2. \A c \in DOMAIN attempts : Live(c)' => Live(c) BY <2>1 DEF Live
  <2>3. ASSUME NEW a \in DOMAIN attempts', Live(a)', NEW e \in Items(a)', NEW f \in Events, f < e
        PROVE  f \in Items(a)' \/ f \in ReceivedIn(BindingOf(a))' \/ events'[f] = "acked"
    <3>1. CASE a = n
      <4>1. PICK items : items = Items(n)' OBVIOUS
      <4>2. /\ e \in Events /\ events[e] = "pending"
            /\ events[f] = "pending" => f \in items \/ f \in ReceivedIn(d)
        BY <4>1, <3>1, <2>1, <2>3, SourceFact
      <4>3. events[f] \in {"pending", "acked"} BY <4>2, <2>3 DEF Published, TypeOK
      <4>4. ReceivedIn(BindingOf(a))' = ReceivedIn(d)' BY <3>1, <2>1, ReceivedFact
      <4>5. ReceivedIn(d) \subseteq ReceivedIn(d)' BY <2>1
      <4> QED BY <4>1, <4>2, <4>3, <4>4, <4>5, <3>1, <2>1
    <3>2. CASE a # n
      <4>1. a \in DOMAIN attempts BY <3>2, <2>1
      <4>2. Live(a) /\ e \in Items(a) /\ Items(a)' = Items(a) BY <4>1, <2>1, <2>2, <2>3
      <4>3. Before(a, e, f) BY <4>1, <4>2, <1>0, <2>3
      <4>4. PICK b : b = BindingOf(a) OBVIOUS
      <4>5. ReceivedIn(BindingOf(a))' = ReceivedIn(b)' BY <4>1, <4>4, <2>1, ReceivedFact
      <4>6. ReceivedIn(b) \subseteq ReceivedIn(b)' BY <2>1
      <4> QED BY <4>2, <4>3, <4>4, <4>5, <4>6, <1>1
    <3> QED BY <3>1, <3>2
  <2> QED BY <2>3 DEF LiveInOrder
<1>4. ASSUME NEW o, NEW state, NEW p, Renewal(o, state, p) PROVE LiveInOrder'
  <2>0. PICK n : n = Len(attempts) + 1 OBVIOUS
  <2>n. Renewed(o, state, p, n) BY <1>4, <2>0, RenewalFact
  <2>1. /\ DOMAIN attempts' = DOMAIN attempts \cup {n}
        /\ BindingOf(n)' = BindingOf(o) /\ Items(n)' = Items(o)
        /\ \A c \in DOMAIN attempts :
             /\ BindingOf(c)' = BindingOf(c) /\ Items(c)' = Items(c)
             /\ c # o => attempts'[c].state = attempts[c].state
        /\ \A b : ReceivedIn(b) \subseteq ReceivedIn(b)'
    BY <2>n DEF Renewed
  <2>2. o \in DOMAIN attempts /\ Live(o) BY <1>4 DEF Renewal, Live, Unresolved
  <2>3. \A c \in DOMAIN attempts : Live(c)' => Live(c) BY <2>1, <2>2 DEF Live
  <2>4. ASSUME NEW a \in DOMAIN attempts', Live(a)', NEW e \in Items(a)', NEW f \in Events, f < e
        PROVE  f \in Items(a)' \/ f \in ReceivedIn(BindingOf(a))' \/ events'[f] = "acked"
    <3>1. PICK c \in DOMAIN attempts :
            Live(c) /\ Items(a)' = Items(c) /\ BindingOf(a)' = BindingOf(c)
      BY <2>1, <2>2, <2>3, <2>4
    <3>2. Before(c, e, f) BY <3>1, <1>0, <2>4
    <3>3. PICK b : b = BindingOf(c) OBVIOUS
    <3>4. ReceivedIn(BindingOf(a))' = ReceivedIn(b)' BY <3>1, <3>3, ReceivedFact
    <3>5. ReceivedIn(b) \subseteq ReceivedIn(b)' BY <2>1
    <3> QED BY <3>1, <3>2, <3>3, <3>4, <3>5, <1>1
  <2> QED BY <2>4 DEF LiveInOrder
<1> QED BY <1>2, <1>3, <1>4, StepKinds

LEMMA ExpiredStep ==
    ASSUME TypeOK, Shape, Held, ExpiredHasSuccessor, Step PROVE ExpiredHasSuccessor'
<1> DEFINE Next1(a, c) == attempts[c].batch = attempts[a].batch /\ attempts[c].no = attempts[a].no + 1
<1>0. \A a \in DOMAIN attempts : attempts[a].state = "EXPIRED" => \E c \in DOMAIN attempts : Next1(a, c)
  BY DEF ExpiredHasSuccessor
<1>1. CASE Tame
  <2>1. \A a \in DOMAIN attempts : attempts'[a].state = "EXPIRED" => attempts[a].state = "EXPIRED"
    BY <1>1, TameFact
  <2>2. /\ DOMAIN attempts' = DOMAIN attempts
        /\ \A a \in DOMAIN attempts :
             attempts'[a].batch = attempts[a].batch /\ attempts'[a].no = attempts[a].no
    BY <1>1 DEF Tame
  <2> QED BY <2>1, <2>2, <1>0 DEF ExpiredHasSuccessor
<1>2. ASSUME NEW p, NEW b, Fresh(p, b) PROVE ExpiredHasSuccessor'
  <2>0. PICK n, m : n = Len(attempts) + 1 /\ m = Len(batches) + 1 OBVIOUS
  <2>n. Claimed(p, b, n) BY <1>2, <2>0, FreshFact
  <2>1. /\ DOMAIN attempts' = DOMAIN attempts \cup {n} /\ attempts'[n] = NewAttempt(m, 1, p)
        /\ \A c \in DOMAIN attempts : attempts'[c] = attempts[c]
    BY <2>n, <2>0 DEF Claimed
  <2>2. attempts'[n].state = "CLAIMED" BY <2>1 DEF NewAttempt
  <2> QED BY <2>1, <2>2, <1>0 DEF ExpiredHasSuccessor
<1>3. ASSUME NEW o, NEW state, NEW p, Renewal(o, state, p) PROVE ExpiredHasSuccessor'
  <2>0. PICK n : n = Len(attempts) + 1 OBVIOUS
  <2>n. Renewed(o, state, p, n) BY <1>3, <2>0, RenewalFact
  <2>1. /\ DOMAIN attempts' = DOMAIN attempts \cup {n}
        /\ attempts'[n].state = "CLAIMED" /\ attempts'[n].batch = attempts[o].batch
        /\ attempts'[n].no = attempts[o].no + 1
        /\ \A c \in DOMAIN attempts :
             /\ attempts'[c].batch = attempts[c].batch /\ attempts'[c].no = attempts[c].no
             /\ c # o => attempts'[c].state = attempts[c].state
    BY <2>n DEF Renewed
  <2>3. o \in DOMAIN attempts BY <1>3 DEF Renewal
  <2>4. ASSUME NEW a \in DOMAIN attempts', attempts'[a].state = "EXPIRED"
        PROVE  \E c \in DOMAIN attempts' :
                 attempts'[c].batch = attempts'[a].batch /\ attempts'[c].no = attempts'[a].no + 1
    <3>1. CASE a = o BY <3>1, <2>1, <2>3
    <3>2. CASE a # o
      <4>1. a \in DOMAIN attempts /\ attempts[a].state = "EXPIRED" BY <3>2, <2>1, <2>4
      <4> QED BY <4>1, <2>1, <1>0
    <3> QED BY <3>1, <3>2
  <2> QED BY <2>4 DEF ExpiredHasSuccessor
<1> QED BY <1>1, <1>2, <1>3, StepKinds

-----------------------------------------------------------------------------
(* The hooks.                                                              *)

\* What others may make of an attempt while its sender holds it.
Moves(a) ==
    /\ a \in DOMAIN attempts' /\ attempts'[a].sender = attempts[a].sender
    /\ \/ attempts'[a].state = attempts[a].state
       \/ attempts[a].state = "CLAIMED" /\ attempts'[a].state \in Silent
       \/ attempts[a].state \notin Silent /\ attempts'[a].state \in {"UNCERTAIN", "RECEIVED"}

\* What was permitted stays permitted.
Loud(a) ==
    a \in DOMAIN attempts' /\ (attempts[a].state \notin Silent => attempts'[a].state \notin Silent)

LEMMA HookKept ==
    ASSUME TypeOK, NEW p \in Senders, HeldBy(p), hooks'[p] = hooks[p],
           hooks[p].phase # "none" => Moves(hooks[p].attempt),
           hooks[p].attempt \in written' => hooks[p].attempt \in written
    PROVE  HeldBy(p)'
<1>1. CASE hooks[p].phase = "none" BY <1>1 DEF HeldBy
<1>2. CASE hooks[p].phase # "none"
  <2>1. PICK a : a = hooks[p].attempt OBVIOUS
  <2>2. /\ a \in DOMAIN attempts' /\ attempts'[a].sender = p
        /\ hooks[p].phase = "claimed" => attempts[a].state \in Silent /\ a \notin written'
        /\ hooks[p].phase = "emitting" => attempts[a].state \in {"EMITTING", "UNCERTAIN", "RECEIVED"}
    BY <1>2, <2>1 DEF HeldBy, Moves
  <2>3. \/ attempts'[a].state = attempts[a].state
        \/ attempts[a].state = "CLAIMED" /\ attempts'[a].state \in Silent
        \/ attempts[a].state \notin Silent /\ attempts'[a].state \in {"UNCERTAIN", "RECEIVED"}
    BY <1>2, <2>1 DEF Moves
  <2>4. /\ hooks[p].phase = "claimed" => attempts'[a].state \in Silent
        /\ hooks[p].phase = "emitting" => attempts'[a].state \in {"EMITTING", "UNCERTAIN", "RECEIVED"}
    BY <2>2, <2>3 DEF Silent
  <2> QED BY <2>1, <2>2, <2>4 DEF HeldBy
<1> QED BY <1>1, <1>2

LEMMA WrittenKept ==
    ASSUME TypeOK, WrittenOut, written' = written, \A a \in DOMAIN attempts : Loud(a)
    PROVE  WrittenOut'
BY TypeFact DEF WrittenOut, Loud

LEMMA MovesLoud == ASSUME NEW a, Moves(a) PROVE Loud(a)
BY DEF Moves, Loud, Silent

\* A step that is not a hook's leaves every hook what it holds.
LEMMA HandsKept ==
    ASSUME TypeOK, Held, WrittenOut, hooks' = hooks, written' = written,
           \A a \in DOMAIN attempts : Moves(a)
    PROVE  Held' /\ WrittenOut'
<1>1. ASSUME NEW p \in Senders PROVE HeldBy(p)'
  <2>1. HeldBy(p) BY DEF Held
  <2>2. hooks[p].phase # "none" => Moves(hooks[p].attempt) BY <2>1 DEF HeldBy
  <2> QED BY <2>1, <2>2, HookKept
<1>2. \A a \in DOMAIN attempts : Loud(a) BY MovesLoud
<1> QED BY <1>1, <1>2, WrittenKept DEF Held

LEMMA SetStateMoves ==
    ASSUME TypeOK, NEW a \in DOMAIN attempts, NEW state \in AttemptState, attempts' = SetState(a, state),
           \/ attempts[a].state = "CLAIMED" /\ state \in Silent
           \/ attempts[a].state \notin Silent /\ state \in {"UNCERTAIN", "RECEIVED"}
    PROVE  \A c \in DOMAIN attempts : Moves(c)
<1>1. /\ DOMAIN attempts' = DOMAIN attempts
      /\ \A c \in DOMAIN attempts : c # a => attempts'[c] = attempts[c]
      /\ attempts'[a].state = state /\ attempts'[a].sender = attempts[a].sender
  BY SetStateFact
<1> QED BY <1>1 DEF Moves

LEMMA WithdrawnMoves ==
    ASSUME TypeOK, NEW bs, attempts' = Withdrawn(bs) PROVE \A a \in DOMAIN attempts : Moves(a)
<1>1. \A a \in DOMAIN attempts : attempts[a] \in Attempt BY TypeFact
<1>2. DOMAIN attempts' = DOMAIN attempts BY DEF Withdrawn
<1>3. ASSUME NEW a \in DOMAIN attempts, ~(BindingOf(a) \in bs /\ attempts[a].state = "CLAIMED")
      PROVE  attempts'[a] = attempts[a]
  BY <1>3 DEF Withdrawn
<1>4. ASSUME NEW a \in DOMAIN attempts, BindingOf(a) \in bs, attempts[a].state = "CLAIMED"
      PROVE  attempts'[a].state = "STALE" /\ attempts'[a].sender = attempts[a].sender
  <2>1. attempts'[a] = [attempts[a] EXCEPT !.state = "STALE"] BY <1>4 DEF Withdrawn
  <2> QED BY <2>1, <1>1 DEF Attempt
<1> QED BY <1>2, <1>3, <1>4 DEF Moves, Silent

LEMMA SameMoves == ASSUME attempts' = attempts PROVE \A a \in DOMAIN attempts : Moves(a)
BY DEF Moves

\* Two hooks hold two attempts.
LEMMA OtherAttempt ==
    ASSUME Held, NEW p \in Senders, NEW q \in Senders, p # q,
           hooks[p].phase # "none", hooks[q].phase # "none"
    PROVE  /\ hooks[p].attempt # hooks[q].attempt /\ hooks[q].attempt \in DOMAIN attempts
           /\ attempts[hooks[q].attempt].sender = q
BY DEF Held, HeldBy

\* A hook that ends is gone from every attempt, and holds none.
LEMMA HookEnds ==
    ASSUME TypeOK, Held, WrittenOut, NEW p \in Senders, hooks[p].phase # "none",
           NEW new, new \in Seq(Attempt), DOMAIN new = DOMAIN attempts,
           \A c \in DOMAIN attempts : c # hooks[p].attempt => new[c] = attempts[c],
           new[hooks[p].attempt].state \in {attempts[hooks[p].attempt].state, "OFFERED"},
           attempts' = Gone(p, new), hooks' = [hooks EXCEPT ![p] = NoHook], written' = written
    PROVE  Held' /\ WrittenOut'
<1>1. /\ DOMAIN attempts' = DOMAIN attempts
      /\ \A c \in DOMAIN attempts :
           /\ attempts'[c].state = new[c].state
           /\ attempts'[c].sender = IF new[c].sender = p THEN "gone" ELSE new[c].sender
  BY GoneFact
<1>2. hooks \in [Senders -> [phase : HookPhase, attempt : Nat]] BY DEF TypeOK
<1>3. hooks'[p].phase = "none" /\ \A q \in Senders : q # p => hooks'[q] = hooks[q]
  BY <1>2 DEF NoHook
<1>4. ASSUME NEW q \in Senders PROVE HeldBy(q)'
  <2>1. CASE q = p BY <2>1, <1>3 DEF HeldBy
  <2>2. CASE q # p
    <3>1. HeldBy(q) /\ hooks'[q] = hooks[q] BY <2>2, <1>3 DEF Held
    <3>2. ASSUME hooks[q].phase # "none" PROVE Moves(hooks[q].attempt)
      <4>1. PICK c \in DOMAIN attempts : c = hooks[q].attempt BY <3>1, <3>2 DEF HeldBy
      <4>2. c # hooks[p].attempt /\ attempts[c].sender = q BY <4>1, <2>2, <3>2, OtherAttempt
      <4>3. new[c] = attempts[c] BY <4>2
      <4> QED BY <4>1, <4>2, <4>3, <2>2, <1>1 DEF Moves
    <3> QED BY <3>1, <3>2, HookKept
  <2> QED BY <2>1, <2>2
<1>5. \A c \in DOMAIN attempts : Loud(c)
  <2>1. \A c \in DOMAIN attempts : attempts'[c].state \in {attempts[c].state, "OFFERED"}
    BY <1>1
  <2> QED BY <2>1, <1>1 DEF Loud, Silent
<1> QED BY <1>4, <1>5, WrittenKept DEF Held

\* A hook that makes an attempt its own, new or waiting for a sender.
LEMMA HookTakes ==
    ASSUME TypeOK, Held, WrittenOut, NEW p \in Senders, NEW n, n \in DOMAIN attempts', n \notin written,
           attempts'[n].state = "CLAIMED", attempts'[n].sender = p,
           hooks[p] = NoHook, hooks' = [hooks EXCEPT ![p] = [phase |-> "claimed", attempt |-> n]],
           written' = written,
           \A c \in DOMAIN attempts : attempts[c].sender \in Senders => Moves(c),
           \A c \in DOMAIN attempts : Loud(c)
    PROVE  Held' /\ WrittenOut'
<1>1. hooks \in [Senders -> [phase : HookPhase, attempt : Nat]] BY DEF TypeOK
<1>2. /\ hooks'[p].phase = "claimed" /\ hooks'[p].attempt = n
      /\ \A q \in Senders : q # p => hooks'[q] = hooks[q]
  BY <1>1
<1>3. ASSUME NEW q \in Senders PROVE HeldBy(q)'
  <2>1. CASE q = p BY <2>1, <1>2 DEF HeldBy, Silent
  <2>2. CASE q # p
    <3>1. HeldBy(q) /\ hooks'[q] = hooks[q] BY <2>2, <1>2 DEF Held
    <3>2. hooks[q].phase # "none" => Moves(hooks[q].attempt) BY <3>1 DEF HeldBy
    <3> QED BY <3>1, <3>2, HookKept
  <2> QED BY <2>1, <2>2
<1> QED BY <1>3, WrittenKept DEF Held

LEMMA HandsStep ==
    ASSUME TypeOK, Shape, Held, WrittenOut, Step PROVE Held' /\ WrittenOut'
<1>1. \A a \in DOMAIN attempts : attempts[a] \in Attempt BY TypeFact
<1>2. attempts \in Seq(Attempt) /\ hooks \in [Senders -> [phase : HookPhase, attempt : Nat]]
  BY DEF TypeOK
<1>3. CASE UNCHANGED vars BY <1>3, SameMoves, HandsKept DEF vars
<1>4. ASSUME NEW e \in Events, Publish(e) \/ Ack(e) \/ Revise(e) PROVE Held' /\ WrittenOut'
  BY <1>4, SameMoves, HandsKept DEF Publish, Ack, Revise
<1>5. CASE RebindOwner BY <1>5, WithdrawnMoves, HandsKept DEF RebindOwner
<1>6. CASE BindBridge BY <1>6, SameMoves, HandsKept DEF BindBridge
<1>7. CASE RecoverBridgeDelivery
  <2>1. /\ DOMAIN attempts' = DOMAIN attempts /\ hooks' = hooks /\ written' = written
        /\ \A a \in DOMAIN attempts :
             attempts'[a] = IF attempts[a].state = "EMITTING"
                            THEN [attempts[a] EXCEPT !.state = "UNCERTAIN"] ELSE attempts[a]
    BY <1>7 DEF RecoverBridgeDelivery
  <2>2. \A a \in DOMAIN attempts : attempts[a].state = "EMITTING" =>
          attempts'[a].state = "UNCERTAIN" /\ attempts'[a].sender = attempts[a].sender
    BY <1>1, <2>1 DEF Attempt
  <2>3. \A a \in DOMAIN attempts : Moves(a) BY <2>1, <2>2 DEF Moves, Silent
  <2> QED BY <2>1, <2>3, HandsKept
<1>8. ASSUME NEW b \in DOMAIN bindings, NativeExit(b) \/ ObserveSession(b) \/ ActivateBridge(b)
      PROVE  Held' /\ WrittenOut'
  BY <1>8, SameMoves, HandsKept DEF NativeExit, ObserveSession, ActivateBridge
<1>9. ASSUME NEW b \in DOMAIN bindings, Detach(b) PROVE Held' /\ WrittenOut'
  BY <1>9, WithdrawnMoves, HandsKept DEF Detach
<1>10. ASSUME NEW b \in DOMAIN bindings, ClaimFindsUncertain(b) PROVE Held' /\ WrittenOut'
  <2>1. PICK a \in UnresolvedOf(b) :
          /\ attempts' = SetState(a, "UNCERTAIN") /\ hooks' = hooks /\ written' = written
          /\ attempts[a].state \in {"EMITTING", "OFFERED"}
    BY <1>10 DEF ClaimFindsUncertain
  <2>2. a \in DOMAIN attempts BY DEF UnresolvedOf
  <2>3. \A c \in DOMAIN attempts : Moves(c)
    BY <2>1, <2>2, SetStateMoves DEF AttemptState, Silent
  <2> QED BY <2>1, <2>3, HandsKept
<1>11. ASSUME NEW b \in DOMAIN bindings, BridgeStatus(b) PROVE Held' /\ WrittenOut'
  <2> DEFINE aged == {a \in UnresolvedOf(b) : attempts[a].state = "OFFERED" /\ attempts[a].lapsed}
  <2>1. /\ DOMAIN attempts' = DOMAIN attempts /\ hooks' = hooks /\ written' = written
        /\ \A a \in DOMAIN attempts :
             attempts'[a] = IF a \in aged THEN [attempts[a] EXCEPT !.state = "UNCERTAIN"]
                            ELSE attempts[a]
    BY <1>11 DEF BridgeStatus
  <2>2. \A a \in aged : a \in DOMAIN attempts /\ attempts[a].state = "OFFERED" BY DEF UnresolvedOf
  <2> HIDE DEF aged
  <2>3. \A a \in aged : attempts'[a].state = "UNCERTAIN" /\ attempts'[a].sender = attempts[a].sender
    BY <1>1, <2>1, <2>2 DEF Attempt
  <2>4. \A a \in DOMAIN attempts : Moves(a) BY <2>1, <2>2, <2>3 DEF Moves, Silent
  <2> QED BY <2>1, <2>4, HandsKept
<1>12. ASSUME NEW b \in DOMAIN bindings, NEW p \in Senders, ClaimNew(p, b) PROVE Held' /\ WrittenOut'
  <2>0. PICK n : n = Len(attempts) + 1 OBVIOUS
  <2>n. Claimed(p, b, n) BY <1>12, <2>0, FreshFact DEF Fresh
  <2>1. /\ DOMAIN attempts' = DOMAIN attempts \cup {n} /\ n \notin DOMAIN attempts
        /\ \A c \in DOMAIN attempts : attempts'[c] = attempts[c]
        /\ attempts'[n] = NewAttempt(Len(batches) + 1, 1, p) /\ written' = written
    BY <2>n DEF Claimed
  <2>2. hooks[p] = NoHook /\ hooks' = [hooks EXCEPT ![p] = [phase |-> "claimed", attempt |-> n]]
    BY <1>12, <2>0 DEF ClaimNew
  <2>3. attempts'[n].state = "CLAIMED" /\ attempts'[n].sender = p BY <2>1 DEF NewAttempt
  <2>4. \A c \in DOMAIN attempts : Moves(c) /\ Loud(c) BY <2>1 DEF Moves, Loud
  <2>5. n \notin written BY <2>1, TypeFact
  <2> QED BY <2>1, <2>2, <2>3, <2>4, <2>5, HookTakes
<1>13. ASSUME NEW b \in DOMAIN bindings, NEW p \in Senders, ClaimReclaim(p, b)
       PROVE  Held' /\ WrittenOut'
  <2>0. PICK n : n = Len(attempts) + 1 OBVIOUS
  <2>1. PICK a \in UnresolvedOf(b) :
          /\ attempts' = Append(SetState(a, "EXPIRED"),
                                NewAttempt(attempts[a].batch, attempts[a].no + 1, p))
          /\ attempts[a].state = "CLAIMED" /\ hooks[p] = NoHook
          /\ hooks' = [hooks EXCEPT ![p] = [phase |-> "claimed", attempt |-> Len(attempts) + 1]]
          /\ UNCHANGED <<events, bindings, batches, written>>
    BY <1>13 DEF ClaimReclaim
  <2>2. a \in DOMAIN attempts BY DEF UnresolvedOf
  <2>3. Renewal(a, "EXPIRED", p) BY <2>1, <2>2 DEF Renewal, Unresolved
  <2>n. Renewed(a, "EXPIRED", p, n) BY <2>0, <2>3, RenewalFact
  <2>4. /\ DOMAIN attempts' = DOMAIN attempts \cup {n} /\ n \notin DOMAIN attempts
        /\ \A c \in DOMAIN attempts :
             /\ attempts'[c].sender = attempts[c].sender
             /\ c # a => attempts'[c].state = attempts[c].state
        /\ attempts'[a].state = "EXPIRED" /\ attempts'[n].state = "CLAIMED" /\ attempts'[n].sender = p
    BY <2>n DEF Renewed
  <2>5. \A c \in DOMAIN attempts : Moves(c) BY <2>1, <2>4 DEF Moves, Silent
  <2>6. \A c \in DOMAIN attempts : Loud(c) BY <2>5, MovesLoud
  <2>7. n \notin written BY <2>4, TypeFact
  <2> QED BY <2>0, <2>1, <2>4, <2>5, <2>6, <2>7, HookTakes
<1>14. ASSUME NEW b \in DOMAIN bindings, NEW p \in Senders, ClaimAdopt(p, b) PROVE Held' /\ WrittenOut'
  <2>1. PICK a \in UnresolvedOf(b) :
          /\ attempts' = [attempts EXCEPT ![a].sender = p]
          /\ attempts[a].state = "CLAIMED" /\ attempts[a].sender = "none" /\ hooks[p] = NoHook
          /\ hooks' = [hooks EXCEPT ![p] = [phase |-> "claimed", attempt |-> a]]
          /\ written' = written
    BY <1>14 DEF ClaimAdopt
  <2>2. a \in DOMAIN attempts BY DEF UnresolvedOf
  <2>3. /\ DOMAIN attempts' = DOMAIN attempts
        /\ \A c \in DOMAIN attempts : c # a => attempts'[c] = attempts[c]
        /\ attempts'[a] = [attempts[a] EXCEPT !.sender = p]
    BY <2>1, <2>2
  <2>4. attempts'[a].state = "CLAIMED" /\ attempts'[a].sender = p BY <2>1, <2>2, <2>3, <1>1 DEF Attempt
  <2>5. \A c \in DOMAIN attempts : attempts[c].sender \in Senders => Moves(c)
    BY <2>1, <2>3, SendersFact DEF Moves
  <2>6. \A c \in DOMAIN attempts : Loud(c) BY <2>1, <2>3, <2>4 DEF Loud, Silent
  <2>7. a \notin written BY <2>1 DEF WrittenOut, Silent
  <2> QED BY <2>1, <2>2, <2>3, <2>4, <2>5, <2>6, <2>7, HookTakes
<1>15. ASSUME NEW p \in Senders, BeginBridgeEmit(p) PROVE Held' /\ WrittenOut'
  <2>1. PICK a : a = hooks[p].attempt OBVIOUS
  <2>2. /\ hooks[p].phase = "claimed" /\ attempts[a].state = "CLAIMED"
        /\ attempts' = SetState(a, "EMITTING") /\ written' = written
        /\ hooks' = [hooks EXCEPT ![p].phase = "emitting"]
    BY <1>15, <2>1 DEF BeginBridgeEmit, MayEmit
  <2>3. a \in DOMAIN attempts /\ attempts[a].sender = p BY <2>1, <2>2 DEF Held, HeldBy
  <2>4. /\ DOMAIN attempts' = DOMAIN attempts
        /\ \A c \in DOMAIN attempts : c # a => attempts'[c] = attempts[c]
        /\ attempts'[a].state = "EMITTING" /\ attempts'[a].sender = p
    BY <2>2, <2>3, SetStateFact DEF AttemptState
  <2>5. /\ hooks'[p].phase = "emitting" /\ hooks'[p].attempt = a
        /\ \A q \in Senders : q # p => hooks'[q] = hooks[q]
    BY <2>1, <2>2, <1>2
  <2>6. ASSUME NEW q \in Senders PROVE HeldBy(q)'
    <3>1. CASE q = p BY <3>1, <2>3, <2>4, <2>5 DEF HeldBy
    <3>2. CASE q # p
      <4>1. HeldBy(q) /\ hooks'[q] = hooks[q] BY <3>2, <2>5 DEF Held
      <4>2. ASSUME hooks[q].phase # "none" PROVE Moves(hooks[q].attempt)
        <5>1. hooks[q].attempt # a /\ hooks[q].attempt \in DOMAIN attempts
          BY <4>2, <3>2, <2>1, <2>2, OtherAttempt
        <5> QED BY <5>1, <2>4 DEF Moves
      <4> QED BY <4>1, <4>2, <2>2, HookKept
    <3> QED BY <3>1, <3>2
  <2>7. \A c \in DOMAIN attempts : Loud(c) BY <2>4 DEF Loud, Silent
  <2> QED BY <2>2, <2>6, <2>7, WrittenKept DEF Held
<1>16. ASSUME NEW p \in Senders, Write(p) PROVE Held' /\ WrittenOut'
  <2>1. PICK a : a = hooks[p].attempt OBVIOUS
  <2>2. /\ hooks[p].phase = "emitting" /\ written' = written \cup {a} /\ attempts' = attempts
        /\ hooks' = [hooks EXCEPT ![p].phase = "wrote"]
    BY <1>16, <2>1 DEF Write
  <2>3. /\ a \in DOMAIN attempts /\ attempts[a].sender = p
        /\ attempts[a].state \in {"EMITTING", "UNCERTAIN", "RECEIVED"}
    BY <2>1, <2>2 DEF Held, HeldBy
  <2>4. /\ hooks'[p].phase = "wrote" /\ hooks'[p].attempt = a
        /\ \A q \in Senders : q # p => hooks'[q] = hooks[q]
    BY <2>1, <2>2, <1>2
  <2>5. ASSUME NEW q \in Senders PROVE HeldBy(q)'
    <3>1. CASE q = p BY <3>1, <2>2, <2>3, <2>4 DEF HeldBy
    <3>2. CASE q # p
      <4>1. HeldBy(q) /\ hooks'[q] = hooks[q] BY <3>2, <2>4 DEF Held
      <4>2. CASE hooks[q].phase = "none" BY <4>1, <4>2 DEF HeldBy
      <4>3. CASE hooks[q].phase # "none"
        <5>1. hooks[q].attempt # a /\ hooks[q].attempt \in DOMAIN attempts
          BY <4>3, <3>2, <2>1, <2>2, OtherAttempt
        <5> QED BY <5>1, <4>1, <2>2, SameMoves, HookKept
      <4> QED BY <4>2, <4>3
    <3> QED BY <3>1, <3>2
  <2>6. WrittenOut' BY <2>2, <2>3 DEF WrittenOut, Silent
  <2> QED BY <2>5, <2>6 DEF Held
<1>17. ASSUME NEW p \in Senders, MarkBridgeOffered(p) PROVE Held' /\ WrittenOut'
  <2>1. PICK a : a = hooks[p].attempt OBVIOUS
  <2>2. /\ hooks[p].phase = "wrote" /\ hooks' = [hooks EXCEPT ![p] = NoHook] /\ written' = written
    BY <1>17 DEF MarkBridgeOffered
  <2>3. a \in DOMAIN attempts BY <2>1, <2>2 DEF Held, HeldBy
  <2>4. PICK offered : offered = [attempts EXCEPT ![a].state = "OFFERED", ![a].lapsed = FALSE]
    OBVIOUS
  <2>5. attempts' = Gone(p, attempts) \/ attempts' = Gone(p, offered)
    BY <1>17, <2>1, <2>4 DEF MarkBridgeOffered
  <2>6. /\ offered \in Seq(Attempt) /\ DOMAIN offered = DOMAIN attempts
        /\ \A c \in DOMAIN attempts : c # a => offered[c] = attempts[c]
        /\ offered[a].state = "OFFERED"
    BY <2>3, <2>4, OfferedFact
  <2>7. /\ hooks[p].phase # "none"
        /\ \A c \in DOMAIN attempts : c # hooks[p].attempt => offered[c] = attempts[c]
        /\ offered[hooks[p].attempt].state \in {attempts[hooks[p].attempt].state, "OFFERED"}
    BY <2>1, <2>2, <2>6
  <2>8. CASE attempts' = Gone(p, attempts) BY <2>2, <2>7, <2>8, <1>2, HookEnds
  <2>9. CASE attempts' = Gone(p, offered) BY <2>2, <2>6, <2>7, <2>9, HookEnds
  <2> QED BY <2>5, <2>8, <2>9
<1>18. ASSUME NEW p \in Senders, Refused(p) \/ Die(p) PROVE Held' /\ WrittenOut'
  <2>1. /\ hooks[p].phase # "none" /\ attempts' = Gone(p, attempts)
        /\ hooks' = [hooks EXCEPT ![p] = NoHook] /\ written' = written
    BY <1>18 DEF Refused, Die
  <2> QED BY <2>1, <1>2, HookEnds
<1>19. ASSUME NEW a \in DOMAIN attempts, ReceiveBridge(a) PROVE Held' /\ WrittenOut'
  <2>1. /\ attempts[a].state \notin Silent /\ attempts' = SetState(a, "RECEIVED")
        /\ hooks' = hooks /\ written' = written
    BY <1>19 DEF ReceiveBridge, Receivable, Silent
  <2>2. \A c \in DOMAIN attempts : Moves(c) BY <2>1, SetStateMoves DEF AttemptState
  <2> QED BY <2>1, <2>2, HandsKept
<1>20. ASSUME NEW a \in DOMAIN attempts, RedeliverBridge(a) PROVE Held' /\ WrittenOut'
  <2>0. PICK n : n = Len(attempts) + 1 OBVIOUS
  <2>1. /\ attempts[a].state = "UNCERTAIN" /\ attempts[a].sender = "gone"
        /\ hooks' = hooks /\ written' = written
    BY <1>20 DEF RedeliverBridge, SenderExited
  <2>2. Renewal(a, "SUPERSEDED_UNCERTAIN", "none")
    BY <1>20 DEF RedeliverBridge, Renewal, Unresolved
  <2>n. Renewed(a, "SUPERSEDED_UNCERTAIN", "none", n) BY <2>0, <2>2, RenewalFact
  <2>3. /\ DOMAIN attempts' = DOMAIN attempts \cup {n}
        /\ \A c \in DOMAIN attempts :
             /\ attempts'[c].sender = attempts[c].sender
             /\ c # a => attempts'[c].state = attempts[c].state
        /\ attempts'[a].state = "SUPERSEDED_UNCERTAIN"
    BY <2>n DEF Renewed
  <2>4. \A c \in DOMAIN attempts : Loud(c) BY <2>1, <2>3 DEF Loud, Silent
  <2>5. ASSUME NEW q \in Senders PROVE HeldBy(q)'
    <3>1. HeldBy(q) BY DEF Held
    <3>2. ASSUME hooks[q].phase # "none" PROVE Moves(hooks[q].attempt)
      <4>1. hooks[q].attempt \in DOMAIN attempts /\ attempts[hooks[q].attempt].sender = q
        BY <3>1, <3>2 DEF HeldBy
      <4>2. hooks[q].attempt # a BY <4>1, <2>1, SendersFact
      <4> QED BY <4>1, <4>2, <2>3 DEF Moves
    <3> QED BY <3>1, <3>2, <2>1, HookKept
  <2> QED BY <2>1, <2>4, <2>5, WrittenKept DEF Held
<1>21. ASSUME NEW a \in DOMAIN attempts, Lapse(a) PROVE Held' /\ WrittenOut'
  <2>1. /\ attempts' = [attempts EXCEPT ![a].lapsed = TRUE] /\ hooks' = hooks /\ written' = written
    BY <1>21 DEF Lapse
  <2>2. /\ DOMAIN attempts' = DOMAIN attempts
        /\ \A c \in DOMAIN attempts : c # a => attempts'[c] = attempts[c]
        /\ attempts'[a] = [attempts[a] EXCEPT !.lapsed = TRUE]
    BY <2>1
  <2>3. attempts'[a].state = attempts[a].state /\ attempts'[a].sender = attempts[a].sender
    BY <2>2, <1>1 DEF Attempt
  <2>4. \A c \in DOMAIN attempts : Moves(c) BY <2>2, <2>3 DEF Moves
  <2> QED BY <2>1, <2>4, HandsKept
<1> QED
  BY <1>3, <1>4, <1>5, <1>6, <1>7, <1>8, <1>9, <1>10, <1>11, <1>12, <1>13, <1>14, <1>15, <1>16,
     <1>17, <1>18, <1>19, <1>20, <1>21 DEF Step, Next, Claim, HookStep

-----------------------------------------------------------------------------
(* Types.                                                                  *)

LEMMA AttemptsType ==
    ASSUME TypeOK, Held, Step PROVE attempts' \in Seq(Attempt)
<1> DEFINE F == [1..Len(attempts) -> Attempt]
<1>1. /\ attempts \in Seq(Attempt) /\ Len(attempts) \in Nat
      /\ DOMAIN attempts = 1..Len(attempts)
      /\ \A a \in DOMAIN attempts : attempts[a] \in Attempt
  BY TypeFact DEF TypeOK
<1>2. ASSUME attempts' \in F PROVE attempts' \in Seq(Attempt) BY <1>1, <1>2
<1>3. ASSUME NEW b \in Nat, NEW n \in Nat, NEW p \in Senders \cup {"none"},
             NEW old \in Seq(Attempt), attempts' = Append(old, NewAttempt(b, n, p))
      PROVE  attempts' \in Seq(Attempt)
  <2>1. NewAttempt(b, n, p) \in Attempt BY DEF NewAttempt, Attempt, AttemptState
  <2> QED BY <2>1, <1>3
<1>4. ASSUME NEW a \in DOMAIN attempts, NEW state \in AttemptState, attempts' = SetState(a, state)
      PROVE  attempts' \in Seq(Attempt)
  BY <1>4, SetStateFact
<1>5. ASSUME NEW p, \/ attempts' = Gone(p, attempts)
                    \/ \E a \in DOMAIN attempts :
                         attempts' = Gone(p, [attempts EXCEPT ![a].state = "OFFERED", ![a].lapsed = FALSE])
      PROVE  attempts' \in Seq(Attempt)
  <2>1. CASE attempts' = Gone(p, attempts) BY <2>1, <1>1, GoneFact
  <2>2. ASSUME NEW a \in DOMAIN attempts,
               attempts' = Gone(p, [attempts EXCEPT ![a].state = "OFFERED", ![a].lapsed = FALSE])
        PROVE  attempts' \in Seq(Attempt)
    <3>1. PICK new : new = [attempts EXCEPT ![a].state = "OFFERED", ![a].lapsed = FALSE] OBVIOUS
    <3>2. new \in Seq(Attempt) BY <3>1, OfferedFact
    <3>3. attempts' = Gone(p, new) BY <3>1, <2>2
    <3> QED BY <3>2, <3>3, GoneFact
  <2> QED BY <2>1, <2>2, <1>5
<1>6. ASSUME NEW bs, attempts' = Withdrawn(bs) PROVE attempts' \in F
  <2>1. \A a \in DOMAIN attempts :
          (IF BindingOf(a) \in bs /\ attempts[a].state = "CLAIMED"
           THEN [attempts[a] EXCEPT !.state = "STALE"] ELSE attempts[a]) \in Attempt
    BY <1>1 DEF Attempt, AttemptState
  <2> QED BY <2>1, <1>1, <1>6 DEF Withdrawn
<1>7. ASSUME NEW S, attempts' = [a \in DOMAIN attempts |->
                                   IF a \in S THEN [attempts[a] EXCEPT !.state = "UNCERTAIN"]
                                   ELSE attempts[a]]
      PROVE  attempts' \in F
  <2>1. \A a \in DOMAIN attempts : [attempts[a] EXCEPT !.state = "UNCERTAIN"] \in Attempt
    BY <1>1 DEF Attempt, AttemptState
  <2> QED BY <2>1, <1>1, <1>7
<1>8. ASSUME NEW a \in DOMAIN attempts, NEW r \in Attempt, attempts' = [attempts EXCEPT ![a] = r]
      PROVE  attempts' \in F
  <2>1. attempts \in F BY <1>1
  <2> QED BY <2>1, <1>8
<1>9. CASE UNCHANGED vars BY <1>9, <1>1 DEF vars
<1>10. ASSUME NEW e \in Events, Publish(e) \/ Ack(e) \/ Revise(e) PROVE attempts' = attempts
  BY <1>10 DEF Publish, Ack, Revise
<1>11. CASE RebindOwner BY <1>11, <1>6, <1>2 DEF RebindOwner
<1>12. CASE BindBridge BY <1>12, <1>1 DEF BindBridge
<1>13. CASE RecoverBridgeDelivery
  <2> DEFINE S == {a \in DOMAIN attempts : attempts[a].state = "EMITTING"}
  <2>1. attempts' = [a \in DOMAIN attempts |->
                       IF a \in S THEN [attempts[a] EXCEPT !.state = "UNCERTAIN"] ELSE attempts[a]]
    BY <1>13 DEF RecoverBridgeDelivery
  <2> HIDE DEF S
  <2> QED BY <2>1, <1>7, <1>2
<1>14. ASSUME NEW b \in DOMAIN bindings, NativeExit(b) \/ ObserveSession(b) \/ ActivateBridge(b)
       PROVE  attempts' = attempts
  BY <1>14 DEF NativeExit, ObserveSession, ActivateBridge
<1>15. ASSUME NEW b \in DOMAIN bindings, Detach(b) PROVE attempts' \in Seq(Attempt)
  BY <1>15, <1>6, <1>2 DEF Detach
<1>16. ASSUME NEW b \in DOMAIN bindings, ClaimFindsUncertain(b) PROVE attempts' \in Seq(Attempt)
  <2>1. PICK a \in UnresolvedOf(b) : attempts' = SetState(a, "UNCERTAIN")
    BY <1>16 DEF ClaimFindsUncertain
  <2>2. a \in DOMAIN attempts BY DEF UnresolvedOf
  <2> QED BY <2>1, <2>2, <1>4 DEF AttemptState
<1>17. ASSUME NEW b \in DOMAIN bindings, BridgeStatus(b) PROVE attempts' \in Seq(Attempt)
  BY <1>17, <1>7, <1>2 DEF BridgeStatus
<1>18. ASSUME NEW b, NEW p \in Senders, ClaimNew(p, b) PROVE attempts' \in Seq(Attempt)
  <2>1. attempts' = Append(attempts, NewAttempt(Len(batches) + 1, 1, p)) BY <1>18 DEF ClaimNew
  <2>2. Len(batches) + 1 \in Nat BY DEF TypeOK
  <2>3. NewAttempt(Len(batches) + 1, 1, p) \in Attempt
    BY <2>2 DEF NewAttempt, Attempt, AttemptState
  <2> QED BY <2>1, <2>3, <1>1
<1>19. ASSUME NEW a, NEW state, NEW p \in Senders \cup {"none"}, Renewal(a, state, p)
       PROVE  attempts' \in Seq(Attempt)
  <2>1. /\ a \in DOMAIN attempts /\ state \in AttemptState
        /\ attempts' = Append(SetState(a, state), NewAttempt(attempts[a].batch, attempts[a].no + 1, p))
    BY <1>19 DEF Renewal, AttemptState
  <2>2. attempts[a].batch \in Nat /\ attempts[a].no + 1 \in Nat BY <2>1, <1>1 DEF Attempt
  <2>3. SetState(a, state) \in Seq(Attempt) BY <2>1, SetStateFact
  <2> QED BY <2>1, <2>2, <2>3, <1>3
<1>20. ASSUME NEW b, NEW p \in Senders, ClaimReclaim(p, b) PROVE attempts' \in Seq(Attempt)
  <2>1. PICK a \in UnresolvedOf(b) :
          /\ attempts' = Append(SetState(a, "EXPIRED"),
                                NewAttempt(attempts[a].batch, attempts[a].no + 1, p))
          /\ UNCHANGED <<events, bindings, batches, written>>
    BY <1>20 DEF ClaimReclaim
  <2>2. a \in DOMAIN attempts /\ attempts[a].state \in Unresolved BY DEF UnresolvedOf
  <2>3. Renewal(a, "EXPIRED", p) BY <2>1, <2>2 DEF Renewal
  <2> QED BY <2>3, <1>19
<1>21. ASSUME NEW b, NEW p \in Senders, ClaimAdopt(p, b) PROVE attempts' \in Seq(Attempt)
  <2>1. PICK a \in UnresolvedOf(b) : attempts' = [attempts EXCEPT ![a].sender = p]
    BY <1>21 DEF ClaimAdopt
  <2>2. a \in DOMAIN attempts BY DEF UnresolvedOf
  <2>3. [attempts[a] EXCEPT !.sender = p] \in Attempt BY <2>2, <1>1 DEF Attempt
  <2> QED BY <2>1, <2>2, <2>3, <1>8, <1>2
<1>22. ASSUME NEW p \in Senders, BeginBridgeEmit(p) PROVE attempts' \in Seq(Attempt)
  <2>1. PICK a \in DOMAIN attempts : a = hooks[p].attempt BY <1>22 DEF Held, HeldBy, BeginBridgeEmit
  <2> QED BY <1>22, <2>1, <1>4 DEF BeginBridgeEmit, AttemptState
<1>23. ASSUME NEW p \in Senders, Write(p) PROVE attempts' = attempts BY <1>23 DEF Write
<1>24. ASSUME NEW p \in Senders, MarkBridgeOffered(p) PROVE attempts' \in Seq(Attempt)
  <2>1. PICK a \in DOMAIN attempts : a = hooks[p].attempt BY <1>24 DEF Held, HeldBy, MarkBridgeOffered
  <2>2. \/ attempts' = Gone(p, attempts)
        \/ attempts' = Gone(p, [attempts EXCEPT ![a].state = "OFFERED", ![a].lapsed = FALSE])
    BY <1>24, <2>1 DEF MarkBridgeOffered
  <2> QED BY <2>2, <1>5
<1>25. ASSUME NEW p \in Senders, Refused(p) \/ Die(p) PROVE attempts' \in Seq(Attempt)
  BY <1>25, <1>5 DEF Refused, Die
<1>26. ASSUME NEW a \in DOMAIN attempts, ReceiveBridge(a) PROVE attempts' \in Seq(Attempt)
  BY <1>26, <1>4 DEF ReceiveBridge, AttemptState
<1>27. ASSUME NEW a \in DOMAIN attempts, RedeliverBridge(a) PROVE attempts' \in Seq(Attempt)
  <2>1. Renewal(a, "SUPERSEDED_UNCERTAIN", "none")
    BY <1>27 DEF RedeliverBridge, Renewal, Unresolved
  <2> QED BY <2>1, <1>19
<1>28. ASSUME NEW a \in DOMAIN attempts, Lapse(a) PROVE attempts' \in Seq(Attempt)
  <2>1. attempts' = [attempts EXCEPT ![a].lapsed = TRUE] BY <1>28 DEF Lapse
  <2>2. [attempts[a] EXCEPT !.lapsed = TRUE] \in Attempt BY <1>1 DEF Attempt
  <2> QED BY <2>1, <2>2, <1>8, <1>2
<1> QED
  BY <1>1, <1>9, <1>10, <1>11, <1>12, <1>13, <1>14, <1>15, <1>16, <1>17, <1>18, <1>20, <1>21, <1>22,
     <1>23, <1>24, <1>25, <1>26, <1>27, <1>28 DEF Step, Next, Claim, HookStep

LEMMA BindingsType ==
    ASSUME TypeOK, Step PROVE bindings' \in Seq(Binding)
<1>1. /\ bindings \in Seq(Binding) /\ DOMAIN bindings = 1..Len(bindings) /\ Len(bindings) \in Nat
      /\ \A b \in DOMAIN bindings : bindings[b] \in Binding
  BY TypeFact DEF TypeOK
<1>2. ASSUME NEW S, NEW new,
             new = [b \in DOMAIN bindings |->
                      IF b \in S THEN [bindings[b] EXCEPT !.status = "STALE"] ELSE bindings[b]]
      PROVE  new \in Seq(Binding)
  <2>1. \A b \in DOMAIN bindings : [bindings[b] EXCEPT !.status = "STALE"] \in Binding
    BY <1>1 DEF Binding, BindingStatus
  <2>2. new \in [1..Len(bindings) -> Binding] BY <2>1, <1>1, <1>2
  <2> QED BY <2>2, <1>1
<1>3. CASE RebindOwner
  <2>1. bindings' = [b \in DOMAIN bindings |->
                       IF b \in DOMAIN bindings THEN [bindings[b] EXCEPT !.status = "STALE"]
                       ELSE bindings[b]]
    BY <1>3 DEF RebindOwner
  <2> QED BY <2>1, <1>2
<1>4. CASE BindBridge
  <2>1. PICK kept : kept = [b \in DOMAIN bindings |->
                              IF b \in {Len(bindings)} THEN [bindings[b] EXCEPT !.status = "STALE"]
                              ELSE bindings[b]]
    OBVIOUS
  <2>2. kept \in Seq(Binding) BY <2>1, <1>2
  <2>3. kept = [b \in DOMAIN bindings |->
                  IF b = Len(bindings) THEN [bindings[b] EXCEPT !.status = "STALE"] ELSE bindings[b]]
    BY <2>1
  <2>4. bindings' = Append(kept, [status |-> "PENDING_SESSION", owner |-> owner])
    BY <1>4, <2>3 DEF BindBridge
  <2>5. [status |-> "PENDING_SESSION", owner |-> owner] \in Binding
    BY DEF TypeOK, Binding, BindingStatus
  <2> QED BY <2>2, <2>4, <2>5
<1>5. ASSUME NEW b \in DOMAIN bindings, ObserveSession(b) \/ ActivateBridge(b) \/ Detach(b)
      PROVE  bindings' \in Seq(Binding)
  <2>1. PICK status \in BindingStatus : bindings' = [bindings EXCEPT ![b].status = status]
    BY <1>5 DEF ObserveSession, ActivateBridge, Detach, BindingStatus
  <2>2. [bindings[b] EXCEPT !.status = status] \in Binding BY <1>1 DEF Binding
  <2>3. bindings \in [1..Len(bindings) -> Binding] BY <1>1
  <2>4. bindings' \in [1..Len(bindings) -> Binding] BY <2>1, <2>2, <2>3
  <2> QED BY <2>4, <1>1
<1>6. CASE UNCHANGED vars BY <1>6, <1>1 DEF vars
<1>7. ASSUME NEW e \in Events, Publish(e) \/ Ack(e) \/ Revise(e) PROVE bindings' = bindings
  BY <1>7 DEF Publish, Ack, Revise
<1>8. CASE RecoverBridgeDelivery BY <1>8, <1>1 DEF RecoverBridgeDelivery
<1>9. ASSUME NEW b, NativeExit(b) \/ ClaimFindsUncertain(b) \/ BridgeStatus(b)
      PROVE  bindings' = bindings
  BY <1>9 DEF NativeExit, ClaimFindsUncertain, BridgeStatus
<1>10. ASSUME NEW b, NEW p, Claim(p, b) PROVE bindings' = bindings
  BY <1>10 DEF Claim, ClaimNew, ClaimReclaim, ClaimAdopt
<1>11. ASSUME NEW p, HookStep(p) \/ Die(p) PROVE bindings' = bindings
  BY <1>11 DEF HookStep, BeginBridgeEmit, Write, MarkBridgeOffered, Refused, Die
<1>12. ASSUME NEW a, ReceiveBridge(a) \/ RedeliverBridge(a) \/ Lapse(a) PROVE bindings' = bindings
  BY <1>12 DEF ReceiveBridge, RedeliverBridge, Lapse
<1> QED BY <1>1, <1>3, <1>4, <1>5, <1>6, <1>7, <1>8, <1>9, <1>10, <1>11, <1>12 DEF Step, Next

\* Attempts and bindings are never deleted.
LEMMA GrowFact ==
    ASSUME TypeOK, Shape, Held, Step
    PROVE  DOMAIN attempts \subseteq DOMAIN attempts' /\ DOMAIN bindings \subseteq DOMAIN bindings'
<1>1. DOMAIN bindings \subseteq DOMAIN bindings' BY BindingsFact DEF Replacing
<1>2. PICK n : n = Len(attempts) + 1 OBVIOUS
<1>3. ASSUME NEW p, NEW b, Fresh(p, b) PROVE DOMAIN attempts \subseteq DOMAIN attempts'
  BY <1>2, <1>3, FreshFact DEF Claimed
<1>4. ASSUME NEW a, NEW state, NEW p, Renewal(a, state, p)
      PROVE  DOMAIN attempts \subseteq DOMAIN attempts'
  BY <1>2, <1>4, RenewalFact DEF Renewed
<1> QED BY <1>1, <1>3, <1>4, StepKinds DEF Tame

HooksType == [Senders -> [phase : HookPhase, attempt : Nat]]

LEMMA HooksTypeStep ==
    ASSUME TypeOK, Held, Step PROVE hooks' \in HooksType
<1>1. hooks \in HooksType BY DEF TypeOK, HooksType
<1>2. NoHook \in [phase : HookPhase, attempt : Nat] BY DEF NoHook, HookPhase
<1>3. ASSUME NEW p \in Senders, NEW r \in [phase : HookPhase, attempt : Nat],
             hooks' = [hooks EXCEPT ![p] = r]
      PROVE  hooks' \in HooksType
  BY <1>1, <1>3 DEF HooksType
<1>4. ASSUME NEW p \in Senders, NEW phase \in HookPhase, hooks' = [hooks EXCEPT ![p].phase = phase]
      PROVE  hooks' \in HooksType
  <2>1. [hooks[p] EXCEPT !.phase = phase] \in [phase : HookPhase, attempt : Nat]
    BY <1>1 DEF HooksType
  <2>2. hooks' = [hooks EXCEPT ![p] = [hooks[p] EXCEPT !.phase = phase]] BY <1>4
  <2> QED BY <2>1, <2>2, <1>3
<1>5. ASSUME NEW p \in Senders, NEW n \in Nat,
             hooks' = [hooks EXCEPT ![p] = [phase |-> "claimed", attempt |-> n]]
      PROVE  hooks' \in HooksType
  <2>1. [phase |-> "claimed", attempt |-> n] \in [phase : HookPhase, attempt : Nat] BY DEF HookPhase
  <2> QED BY <2>1, <1>5, <1>3
<1>6. Len(attempts) + 1 \in Nat /\ DOMAIN attempts \subseteq Nat BY TypeFact
<1>7. CASE hooks' = hooks BY <1>1, <1>7
<1>8. CASE UNCHANGED vars BY <1>7, <1>8 DEF vars
<1>9. ASSUME NEW e \in Events, Publish(e) \/ Ack(e) \/ Revise(e) PROVE hooks' = hooks
  BY <1>9 DEF Publish, Ack, Revise
<1>10. CASE RebindOwner \/ BindBridge \/ RecoverBridgeDelivery
  BY <1>7, <1>10 DEF RebindOwner, BindBridge, RecoverBridgeDelivery
<1>11. ASSUME NEW b, \/ NativeExit(b) \/ ObserveSession(b) \/ ActivateBridge(b) \/ Detach(b)
                     \/ ClaimFindsUncertain(b) \/ BridgeStatus(b)
       PROVE  hooks' = hooks
  BY <1>11 DEF NativeExit, ObserveSession, ActivateBridge, Detach, ClaimFindsUncertain, BridgeStatus
<1>12. ASSUME NEW b, NEW p \in Senders, Claim(p, b) PROVE hooks' \in HooksType
  <2>1. CASE ClaimNew(p, b) BY <2>1, <1>5, <1>6 DEF ClaimNew
  <2>2. CASE ClaimReclaim(p, b) BY <2>2, <1>5, <1>6 DEF ClaimReclaim
  <2>3. CASE ClaimAdopt(p, b)
    <3>1. PICK a \in UnresolvedOf(b) :
            hooks' = [hooks EXCEPT ![p] = [phase |-> "claimed", attempt |-> a]]
      BY <2>3 DEF ClaimAdopt
    <3>2. a \in Nat BY <1>6 DEF UnresolvedOf
    <3> QED BY <3>1, <3>2, <1>5
  <2> QED BY <2>1, <2>2, <2>3, <1>12 DEF Claim
<1>13. ASSUME NEW p \in Senders, HookStep(p) \/ Die(p) PROVE hooks' \in HooksType
  <2>1. \/ hooks' = [hooks EXCEPT ![p] = NoHook]
        \/ \E phase \in HookPhase : hooks' = [hooks EXCEPT ![p].phase = phase]
    BY <1>13 DEF HookStep, BeginBridgeEmit, Write, MarkBridgeOffered, Refused, Die, HookPhase
  <2> QED BY <2>1, <1>2, <1>3, <1>4
<1>14. ASSUME NEW a, ReceiveBridge(a) \/ RedeliverBridge(a) \/ Lapse(a) PROVE hooks' = hooks
  BY <1>14 DEF ReceiveBridge, RedeliverBridge, Lapse
<1> QED BY <1>7, <1>8, <1>9, <1>10, <1>11, <1>12, <1>13, <1>14 DEF Step, Next

\* What is left of the types.
RecordsType ==
    /\ events \in [Events -> {"none", "pending", "acked"}]
    /\ revised \in SUBSET Events /\ owner \in Nat /\ batches \in Seq(Batch)
    /\ counts \in [lapses : Nat, deaths : Nat, restarts : Nat]

LEMMA RecordsTypeStep ==
    ASSUME TypeOK, Step PROVE RecordsType'
<1>1. RecordsType /\ owner + 1 \in Nat BY DEF TypeOK, RecordsType
<1>2. CASE UNCHANGED vars BY <1>1, <1>2 DEF vars, RecordsType
<1>3. ASSUME NEW e \in Events, Publish(e) \/ Ack(e) \/ Revise(e) PROVE RecordsType'
  <2>1. \/ events' = events
        \/ \E status \in {"pending", "acked"} : events' = [events EXCEPT ![e] = status]
    BY <1>3 DEF Publish, Ack, Revise
  <2>2. events' \in [Events -> {"none", "pending", "acked"}] BY <2>1, <1>1 DEF RecordsType
  <2>3. revised' \in SUBSET Events /\ UNCHANGED <<owner, batches, counts>>
    BY <1>3, <1>1 DEF Publish, Ack, Revise, RecordsType
  <2> QED BY <2>2, <2>3, <1>1 DEF RecordsType
<1>4. CASE RebindOwner BY <1>4, <1>1 DEF RebindOwner, RecordsType
<1>5. CASE BindBridge BY <1>5, <1>1 DEF BindBridge, RecordsType
<1>6. ASSUME UNCHANGED <<events, revised, owner, batches>>,
             \/ counts' = counts
             \/ counts' = [counts EXCEPT !.lapses = @ + 1]
             \/ counts' = [counts EXCEPT !.deaths = @ + 1]
             \/ counts' = [counts EXCEPT !.restarts = @ + 1]
      PROVE  RecordsType'
  <2>1. counts' \in [lapses : Nat, deaths : Nat, restarts : Nat] BY <1>6, <1>1 DEF RecordsType
  <2> QED BY <2>1, <1>6, <1>1 DEF RecordsType
<1>7. CASE RecoverBridgeDelivery BY <1>6, <1>7 DEF RecoverBridgeDelivery
<1>8. ASSUME NEW b, \/ NativeExit(b) \/ ObserveSession(b) \/ ActivateBridge(b) \/ Detach(b)
                    \/ ClaimFindsUncertain(b) \/ BridgeStatus(b)
      PROVE  RecordsType'
  BY <1>6, <1>8
     DEF NativeExit, ObserveSession, ActivateBridge, Detach, ClaimFindsUncertain, BridgeStatus
<1>9. ASSUME NEW b \in DOMAIN bindings, NEW p, Claim(p, b) PROVE RecordsType'
  <2>1. CASE ClaimNew(p, b)
    <3>1. PICK items \in SUBSET Source(b) :
            batches' = Append(batches, [binding |-> b, items |-> items])
      BY <2>1 DEF ClaimNew
    <3>2. Source(b) \subseteq Events BY DEF Source, FirstOf
    <3>3. b \in Nat BY TypeFact
    <3>4. [binding |-> b, items |-> items] \in Batch BY <3>2, <3>3 DEF Batch
    <3>5. batches' \in Seq(Batch) BY <3>1, <3>4, <1>1 DEF RecordsType
    <3> QED BY <2>1, <3>5, <1>1 DEF ClaimNew, RecordsType
  <2>2. CASE ClaimReclaim(p, b) \/ ClaimAdopt(p, b) BY <2>2, <1>6 DEF ClaimReclaim, ClaimAdopt
  <2> QED BY <2>1, <2>2, <1>9 DEF Claim
<1>10. ASSUME NEW p, HookStep(p) \/ Die(p) PROVE RecordsType'
  BY <1>6, <1>10 DEF HookStep, BeginBridgeEmit, Write, MarkBridgeOffered, Refused, Die
<1>11. ASSUME NEW a, ReceiveBridge(a) \/ RedeliverBridge(a) \/ Lapse(a) PROVE RecordsType'
  BY <1>6, <1>11 DEF ReceiveBridge, RedeliverBridge, Lapse
<1> QED BY <1>2, <1>3, <1>4, <1>5, <1>7, <1>8, <1>9, <1>10, <1>11 DEF Step, Next

LEMMA MarksTypeStep ==
    ASSUME TypeOK, Shape, Held, Step
    PROVE  natives' \in SUBSET (DOMAIN bindings') /\ written' \in SUBSET (DOMAIN attempts')
<1>1. /\ natives \subseteq DOMAIN bindings /\ written \subseteq DOMAIN attempts
      /\ DOMAIN bindings \subseteq DOMAIN bindings' /\ DOMAIN attempts \subseteq DOMAIN attempts'
  BY GrowFact DEF TypeOK
<1>2. ASSUME natives' \subseteq natives, written' = written
      PROVE  natives' \in SUBSET (DOMAIN bindings') /\ written' \in SUBSET (DOMAIN attempts')
  BY <1>1, <1>2
<1>3. CASE UNCHANGED vars BY <1>2, <1>3 DEF vars
<1>4. ASSUME NEW e \in Events, Publish(e) \/ Ack(e) \/ Revise(e)
      PROVE  natives' \subseteq natives /\ written' = written
  BY <1>4 DEF Publish, Ack, Revise
<1>5. CASE BindBridge
  <2>1. /\ natives' = natives \cup {Len(bindings) + 1} /\ written' = written
        /\ Len(bindings') # Len(bindings)
    <3>2. PICK kept : /\ bindings' = Append(kept, [status |-> "PENDING_SESSION", owner |-> owner])
                      /\ kept = [b \in DOMAIN bindings |->
                                   IF b = Len(bindings) THEN [bindings[b] EXCEPT !.status = "STALE"]
                                   ELSE bindings[b]]
      BY <1>5 DEF BindBridge
    <3>3. /\ DOMAIN bindings = 1..Len(bindings) /\ Len(bindings) \in Nat
          /\ \A b \in DOMAIN bindings : bindings[b] \in Binding
      BY TypeFact
    <3>4. \A b \in DOMAIN bindings : [bindings[b] EXCEPT !.status = "STALE"] \in Binding
      BY <3>3 DEF Binding, BindingStatus
    <3>5. kept \in [1..Len(bindings) -> Binding] BY <3>2, <3>3, <3>4
    <3>6. kept \in Seq(Binding) /\ Len(kept) = Len(bindings) BY <3>3, <3>5
    <3>7. Len(bindings') = Len(bindings) + 1 BY <3>2, <3>6, AppendFact
    <3>8. natives' = natives \cup {Len(bindings) + 1} /\ written' = written BY <1>5 DEF BindBridge
    <3>9. Len(bindings) \in Nat BY <3>3
    <3>10. Len(bindings') # Len(bindings) BY <3>7, <3>9
    <3> QED BY <3>8, <3>10
  <2>2. DOMAIN bindings' = DOMAIN bindings \cup {Len(bindings) + 1}
    BY <2>1, BindingsFact DEF Replacing
  <2> QED BY <2>1, <2>2, <1>1
<1>6. CASE RebindOwner \/ RecoverBridgeDelivery
  BY <1>2, <1>6 DEF RebindOwner, RecoverBridgeDelivery
<1>7. ASSUME NEW b, \/ NativeExit(b) \/ ObserveSession(b) \/ ActivateBridge(b) \/ Detach(b)
                    \/ ClaimFindsUncertain(b) \/ BridgeStatus(b)
      PROVE  natives' \subseteq natives /\ written' = written
  BY <1>7 DEF NativeExit, ObserveSession, ActivateBridge, Detach, ClaimFindsUncertain, BridgeStatus
<1>8. ASSUME NEW b, NEW p, Claim(p, b) PROVE natives' \subseteq natives /\ written' = written
  BY <1>8 DEF Claim, ClaimNew, ClaimReclaim, ClaimAdopt
<1>9. ASSUME NEW p \in Senders, Write(p)
      PROVE  natives' \in SUBSET (DOMAIN bindings') /\ written' \in SUBSET (DOMAIN attempts')
  <2>1. hooks[p].attempt \in DOMAIN attempts BY <1>9 DEF Write, Held, HeldBy
  <2>2. written' = written \cup {hooks[p].attempt} /\ natives' = natives BY <1>9 DEF Write
  <2> QED BY <2>1, <2>2, <1>1
<1>10. ASSUME NEW p, BeginBridgeEmit(p) \/ MarkBridgeOffered(p) \/ Refused(p) \/ Die(p)
       PROVE  natives' \subseteq natives /\ written' = written
  BY <1>10 DEF BeginBridgeEmit, MarkBridgeOffered, Refused, Die
<1>11. ASSUME NEW a, ReceiveBridge(a) \/ RedeliverBridge(a) \/ Lapse(a)
       PROVE  natives' \subseteq natives /\ written' = written
  BY <1>11 DEF ReceiveBridge, RedeliverBridge, Lapse
<1> QED
  BY <1>2, <1>3, <1>4, <1>5, <1>6, <1>7, <1>8, <1>9, <1>10, <1>11 DEF Step, Next, HookStep

LEMMA TypeStep == ASSUME TypeOK, Shape, Held, Step PROVE TypeOK'
BY AttemptsType, BindingsType, HooksTypeStep, RecordsTypeStep, MarksTypeStep
   DEF TypeOK, HooksType, RecordsType

-----------------------------------------------------------------------------
(* The theorems.                                                           *)

LEMMA BridgeInit == Init => BridgeInv
<1> SUFFICES ASSUME Init PROVE BridgeInv OBVIOUS
<1>1. /\ events = [e \in Events |-> "none"] /\ revised = {} /\ owner = 0
      /\ bindings = <<>> /\ natives = {} /\ batches = <<>> /\ attempts = <<>>
      /\ hooks = [p \in Senders |-> NoHook] /\ written = {}
      /\ counts = [lapses |-> 0, deaths |-> 0, restarts |-> 0]
  BY DEF Init
<1>2. TypeOK BY <1>1 DEF TypeOK, NoHook, HookPhase
<1>3. DOMAIN attempts = {} /\ DOMAIN batches = {} /\ DOMAIN bindings = {} BY <1>1
<1>4. Shape /\ Replaced /\ OpenOnlyInNewest /\ LiveDisjoint /\ LiveInOrder /\ ExpiredHasSuccessor
  BY <1>3 DEF Shape, Replaced, OpenOnlyInNewest, LiveDisjoint, LiveInOrder, ExpiredHasSuccessor
<1>5. Published /\ WrittenOut BY <1>1 DEF Published, WrittenOut
<1>6. Held BY <1>1 DEF Held, HeldBy, NoHook
<1> QED BY <1>2, <1>4, <1>5, <1>6 DEF BridgeInv

LEMMA BridgeStep == BridgeInv /\ [Next]_vars => BridgeInv'
<1> SUFFICES ASSUME BridgeInv, Step PROVE BridgeInv' BY DEF Step
<1>1. /\ TypeOK /\ Shape /\ Replaced /\ Published /\ OpenOnlyInNewest
      /\ LiveDisjoint /\ LiveInOrder /\ Held /\ WrittenOut /\ ExpiredHasSuccessor
  BY DEF BridgeInv
<1>2. TypeOK' /\ Shape' BY <1>1, TypeStep, ShapeStep
<1>3. Replaced' /\ Published' BY <1>1, ReplacedStep, PublishedStep
<1>4. OpenOnlyInNewest' BY <1>1, OpenStep
<1>5. LiveDisjoint' /\ LiveInOrder' BY <1>1, DisjointStep, InOrderStep
<1>6. Held' /\ WrittenOut' BY <1>1, HandsStep
<1>7. ExpiredHasSuccessor' BY <1>1, ExpiredStep
<1> QED BY <1>2, <1>3, <1>4, <1>5, <1>6, <1>7 DEF BridgeInv

(* Live attempts of a session are disjoint and in order, the open one is   *)
(* in the newest session, and a hook holds what it was permitted, through  *)
(* every claim, lapse, death, restart and replacement: the inductive       *)
(* invariant of the bridge.                                                *)
THEOREM BridgeInvariant == Spec => []BridgeInv
<1> QED BY BridgeInit, BridgeStep, PTL DEF Spec

(* However hooks die, leases lapse and coordinators restart, no event is   *)
(* written to a session twice unless the owner ordered it, none confirmed  *)
(* twice, none stepped over and none lost with an expired lease            *)
(* (bridgeSourceRows, bridgeExactReceiveTx, RedeliverBridge).              *)
THEOREM BatchesStaySound == Spec => []BatchSound
<1>1. BridgeInv => BatchSound
  <2> SUFFICES ASSUME BridgeInv PROVE BatchSound OBVIOUS
  <2>1. /\ TypeOK /\ LiveDisjoint /\ LiveInOrder /\ WrittenOut /\ ExpiredHasSuccessor
        /\ written \subseteq DOMAIN attempts
    BY DEF BridgeInv, TypeOK
  <2>2. \A a \in written :
          attempts[a].state \notin {"CLAIMED", "EXPIRED", "STALE"} /\ a \in DOMAIN attempts
    BY <2>1 DEF WrittenOut, Silent
  <2>3. ASSUME NEW a \in written, attempts[a].state # "SUPERSEDED_UNCERTAIN" PROVE Live(a)
    <3>1. attempts[a].state \in AttemptState BY <2>1, <2>2, TypeFact
    <3> QED BY <3>1, <2>2, <2>3 DEF Live, AttemptState, Unresolved
  <2>4. RepeatOnlyOnRequest BY <2>1, <2>2, <2>3 DEF RepeatOnlyOnRequest, LiveDisjoint
  <2>5. ReceivedOnce BY <2>1 DEF ReceivedOnce, LiveDisjoint, Live
  <2>6. NoSkip
    <3> SUFFICES ASSUME NEW b \in DOMAIN bindings, NEW e \in ReceivedIn(b), NEW f \in Events, f < e
                 PROVE  f \in ReceivedIn(b) \/ events[f] = "acked"
      BY DEF NoSkip
    <3>1. PICK a \in DOMAIN attempts :
            BindingOf(a) = b /\ attempts[a].state = "RECEIVED" /\ e \in Items(a)
      BY DEF ReceivedIn
    <3>2. f \in Items(a) \/ f \in ReceivedIn(b) \/ events[f] = "acked"
      BY <3>1, <2>1 DEF LiveInOrder, Live
    <3>3. Items(a) \subseteq ReceivedIn(b) BY <3>1 DEF ReceivedIn
    <3> QED BY <3>2, <3>3
  <2> QED BY <2>1, <2>4, <2>5, <2>6 DEF BatchSound
<1> QED BY <1>1, BridgeInvariant, PTL

(* Neither a lapsed lease, a restart, a redelivery nor a new session lets  *)
(* a second writer in: two hooks never hold the permission to write one    *)
(* event, and only the newest session has an open attempt, at most one     *)
(* (bridgeSenderExited, bridgeBeginEmitCAS, BindBridge).                   *)
THEOREM OneWriterAlways == Spec => []OneWriter
<1>1. BridgeInv => OneWriter
  <2> SUFFICES ASSUME BridgeInv PROVE OneWriter OBVIOUS
  <2>1. OpenOnlyInNewest /\ LiveDisjoint /\ Held BY DEF BridgeInv
  <2>2. ASSUME NEW p \in Senders, hooks[p].phase = "emitting"
        PROVE  hooks[p].attempt \in DOMAIN attempts /\ Live(hooks[p].attempt)
    BY <2>1, <2>2 DEF Held, HeldBy, Live, Unresolved
  <2>3. EmitDisjoint
    <3> SUFFICES ASSUME NEW p \in Senders, NEW q \in Senders, p # q,
                        hooks[p].phase = "emitting", hooks[q].phase = "emitting",
                        BindingOf(hooks[p].attempt) = BindingOf(hooks[q].attempt)
                 PROVE  Items(hooks[p].attempt) \cap Items(hooks[q].attempt) = {}
      BY DEF EmitDisjoint
    <3>1. hooks[p].attempt # hooks[q].attempt BY <2>1, OtherAttempt
    <3> QED BY <3>1, <2>1, <2>2 DEF LiveDisjoint
  <2> QED BY <2>1, <2>3 DEF OneWriter
<1> QED BY <1>1, BridgeInvariant, PTL
=============================================================================
