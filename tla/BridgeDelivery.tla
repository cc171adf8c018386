--------------------------- MODULE BridgeDelivery ---------------------------
(***************************************************************************)
(* The hook-pull bridge that brings an owner's pending events into the     *)
(* native session he works in (store/bridge_delivery.go,                   *)
(* store/bridge_bindings.go, store/bridge_ingress.go, store/owner.go,      *)
(* hookcli/hook.go).                                                       *)
(*                                                                         *)
(* A hook is a short process of the native session.  It claims a batch, an *)
(* immutable prefix of the pending events, asks for the permission to emit *)
(* it, writes it and reports it as offered; the owner confirms what he     *)
(* received.  A claim is a lease.  What became of a permission once given  *)
(* can be uncertain, and only the owner may then order a redelivery.       *)
(***************************************************************************)
EXTENDS Integers, Sequences, FiniteSets

CONSTANTS MaxEvents,    \* bound on actionable events, numbered by ordinal
          BatchEvents,  \* the events bridgeSourceRows looks at: 8 in the code
          Senders,      \* hook processes that may live at the same time
          MaxBindings,  \* bound on bindings (owner epochs) of the run
          MaxRebinds,   \* bound on rebindings of the run's owner
          MaxLapses,    \* bound on deadlines that pass on a living claim or an offer
          MaxDeaths,    \* bound on hooks that end before their last call
          MaxRestarts   \* bound on restarts of the coordinator

BridgeDeliveryParameters ==
    /\ {MaxEvents, MaxBindings, MaxRebinds, MaxLapses, MaxDeaths, MaxRestarts} \subseteq Nat
    /\ BatchEvents \in Nat \ {0}
    /\ {"none", "gone"} \cap Senders = {}

ASSUME BridgeAssumption == BridgeDeliveryParameters

VARIABLES
    events,    \* delivery_status of the events in delivery_order
    revised,   \* events whose task has a newer work revision
    owner,     \* how often the run's owner process was replaced
    bindings,  \* bridge_bindings, by epoch
    natives,   \* the bindings whose native session process lives
    batches,   \* bridge_batches with their items
    attempts,  \* bridge_delivery_attempts
    hooks,     \* what each hook process is doing, and for which attempt
    written,   \* attempts whose wire bytes were written
    counts     \* lapses, deaths and restarts so far

vars == <<events, revised, owner, bindings, natives, batches, attempts, hooks, written, counts>>

Events == 1..MaxEvents
BindingStatus == {"PENDING_SESSION", "SESSION_OBSERVED", "ACTIVE", "DETACHED", "STALE"}
AttemptState == {"CLAIMED", "EMITTING", "OFFERED", "UNCERTAIN", "EXPIRED", "RECEIVED",
                 "SUPERSEDED_UNCERTAIN", "STALE"}
Unresolved == {"CLAIMED", "EMITTING", "OFFERED", "UNCERTAIN"}
Binding == [status : BindingStatus, owner : Nat]
\* The items of a batch are immutable; their order is that of the ordinals.
Batch == [binding : Nat, items : SUBSET Events]
\* The sender is a hook, "gone" once that process has ended, or not assigned.
Attempt == [batch : Nat, no : Nat, state : AttemptState,
            sender : Senders \cup {"none", "gone"}, lapsed : BOOLEAN]
HookPhase == {"none", "claimed", "emitting", "wrote"}

TypeOK ==
    /\ events \in [Events -> {"none", "pending", "acked"}]
    /\ revised \in SUBSET Events /\ owner \in Nat
    /\ bindings \in Seq(Binding) /\ natives \in SUBSET (DOMAIN bindings)
    /\ batches \in Seq(Batch) /\ attempts \in Seq(Attempt)
    /\ hooks \in [Senders -> [phase : HookPhase, attempt : Nat]]
    /\ written \in SUBSET (DOMAIN attempts)
    /\ counts \in [lapses : Nat, deaths : Nat, restarts : Nat]

NoHook == [phase |-> "none", attempt |-> 0]

Init ==
    /\ events = [e \in Events |-> "none"] /\ revised = {} /\ owner = 0
    /\ bindings = <<>> /\ natives = {} /\ batches = <<>> /\ attempts = <<>>
    /\ hooks = [p \in Senders |-> NoHook] /\ written = {}
    /\ counts = [lapses |-> 0, deaths |-> 0, restarts |-> 0]

-----------------------------------------------------------------------------
BindingOf(a) == batches[attempts[a].batch].binding
Items(a) == batches[attempts[a].batch].items

\* bridgeUnresolvedTx: the attempts of a binding that are not resolved.
UnresolvedOf(b) ==
    {a \in DOMAIN attempts : BindingOf(a) = b /\ attempts[a].state \in Unresolved}

ReceivedIn(b) ==
    UNION {Items(a) : a \in {x \in DOMAIN attempts :
                               BindingOf(x) = b /\ attempts[x].state = "RECEIVED"}}

\* bridgeSourceRows: the pending events this binding has not received, oldest
\* first.  A row of an older work revision makes the whole read fail.
FirstOf(rows) == {e \in rows : Cardinality({f \in rows : f <= e}) <= BatchEvents}

Source(b) == FirstOf({e \in Events : events[e] = "pending"} \ ReceivedIn(b))

SourceValid(b) == Source(b) \cap revised = {}

\* The events of items are in rows, and none of rows comes between them.
Leads(items, rows) ==
    items \subseteq rows /\ \A e \in items, f \in rows : f < e => f \in items

\* bridgeValidateItemsTx: the batch is still the head of what is to be sent.
ItemsValid(a) == SourceValid(BindingOf(a)) /\ Leads(Items(a), Source(BindingOf(a)))

SetState(a, state) == [attempts EXCEPT ![a].state = state]

\* An owner transition or the end of a session withdraws claims, never a
\* permission that was given.
Withdrawn(bs) ==
    [a \in DOMAIN attempts |->
        IF BindingOf(a) \in bs /\ attempts[a].state = "CLAIMED"
        THEN [attempts[a] EXCEPT !.state = "STALE"] ELSE attempts[a]]

-----------------------------------------------------------------------------
(* Events, the owner and the native session *)

\* An event becomes actionable: it takes the next ordinal of delivery_order.
Publish(e) ==
    /\ events[e] = "none" /\ \A f \in Events : f < e => events[f] # "none"
    /\ events' = [events EXCEPT ![e] = "pending"]
    /\ UNCHANGED <<revised, owner, bindings, natives, batches, attempts, hooks, written, counts>>

\* The owner decides an event, however he learnt of it (AckDelivery).
Ack(e) ==
    /\ events[e] = "pending"
    /\ events' = [events EXCEPT ![e] = "acked"]
    /\ UNCHANGED <<revised, owner, bindings, natives, batches, attempts, hooks, written, counts>>

\* The task of a pending event moves to a new work revision.
Revise(e) ==
    /\ events[e] = "pending" /\ e \notin revised
    /\ revised' = revised \cup {e}
    /\ UNCHANGED <<events, owner, bindings, natives, batches, attempts, hooks, written, counts>>

\* RebindOwner revokes every binding of the run in the owner's transaction.
RebindOwner ==
    /\ owner < MaxRebinds
    /\ owner' = owner + 1
    /\ attempts' = Withdrawn(DOMAIN bindings)
    /\ bindings' = [b \in DOMAIN bindings |-> [bindings[b] EXCEPT !.status = "STALE"]]
    /\ UNCHANGED <<events, revised, natives, batches, hooks, written, counts>>

NativeExit(b) ==
    /\ b \in natives /\ natives' = natives \ {b}
    /\ UNCHANGED <<events, revised, owner, bindings, batches, attempts, hooks, written, counts>>

\* BindBridge: a new epoch needs the old session gone and nothing unresolved.
Rebindable(b) == UnresolvedOf(b) = {} /\ b \notin natives

BindBridge ==
    LET old == Len(bindings)
    IN  /\ old < MaxBindings
        /\ old > 0 => Rebindable(old)
        /\ bindings' = Append([b \in DOMAIN bindings |->
                                 IF b = old THEN [bindings[b] EXCEPT !.status = "STALE"]
                                 ELSE bindings[b]],
                              [status |-> "PENDING_SESSION", owner |-> owner])
        /\ natives' = natives \cup {old + 1}
        /\ UNCHANGED <<events, revised, owner, batches, attempts, hooks, written, counts>>

\* IngestHook of a session start or a turn boundary, then ActivateBridge.
ObserveSession(b) ==
    /\ b \in natives /\ bindings[b].status = "PENDING_SESSION" /\ bindings[b].owner = owner
    /\ bindings' = [bindings EXCEPT ![b].status = "SESSION_OBSERVED"]
    /\ UNCHANGED <<events, revised, owner, natives, batches, attempts, hooks, written, counts>>

ActivateBridge(b) ==
    /\ b \in natives /\ bindings[b].status = "SESSION_OBSERVED" /\ bindings[b].owner = owner
    /\ bindings' = [bindings EXCEPT ![b].status = "ACTIVE"]
    /\ UNCHANGED <<events, revised, owner, natives, batches, attempts, hooks, written, counts>>

\* UnbindBridge by the owner, or IngestHook of the session's end.
Detach(b) ==
    /\ bindings[b].status \notin {"DETACHED", "STALE"}
    /\ bindings' = [bindings EXCEPT ![b].status = "DETACHED"]
    /\ attempts' = Withdrawn({b})
    /\ UNCHANGED <<events, revised, owner, natives, batches, hooks, written, counts>>

-----------------------------------------------------------------------------
(* Hook processes *)

\* bridgeHookTx and bridgeSendBindingTx: an active binding of the current
\* owner, and a sender that descends from its living native process.
MaySend(b) == bindings[b].status = "ACTIVE" /\ b \in natives /\ bindings[b].owner = owner

NewAttempt(batch, no, p) ==
    [batch |-> batch, no |-> no, state |-> "CLAIMED", sender |-> p, lapsed |-> FALSE]

\* ClaimBridge with nothing unresolved: a new batch, as many events as fit.
ClaimNew(p, b) ==
    /\ hooks[p] = NoHook /\ MaySend(b) /\ UnresolvedOf(b) = {}
    /\ SourceValid(b)
    /\ \E items \in SUBSET Source(b) :
         /\ items # {} /\ Leads(items, Source(b))
         /\ batches' = Append(batches, [binding |-> b, items |-> items])
    /\ attempts' = Append(attempts, NewAttempt(Len(batches) + 1, 1, p))
    /\ hooks' = [hooks EXCEPT ![p] = [phase |-> "claimed", attempt |-> Len(attempts) + 1]]
    /\ UNCHANGED <<events, revised, owner, bindings, natives, written, counts>>

\* ClaimBridge over a lapsed claim: the lease that never reached EMITTING is
\* expired and the same batch claimed again.
ClaimReclaim(p, b) ==
    \E a \in UnresolvedOf(b) :
        /\ hooks[p] = NoHook /\ MaySend(b)
        /\ attempts[a].state = "CLAIMED" /\ ItemsValid(a) /\ attempts[a].lapsed
        /\ attempts' = Append(SetState(a, "EXPIRED"),
                              NewAttempt(attempts[a].batch, attempts[a].no + 1, p))
        /\ hooks' = [hooks EXCEPT ![p] = [phase |-> "claimed", attempt |-> Len(attempts) + 1]]
        /\ UNCHANGED <<events, revised, owner, bindings, natives, batches, written, counts>>

\* ClaimBridge over a redelivery that waits for a hook: it is adopted.
ClaimAdopt(p, b) ==
    \E a \in UnresolvedOf(b) :
        /\ hooks[p] = NoHook /\ MaySend(b)
        /\ attempts[a].state = "CLAIMED" /\ ItemsValid(a)
        /\ ~attempts[a].lapsed /\ attempts[a].sender = "none"
        /\ attempts' = [attempts EXCEPT ![a].sender = p]
        /\ hooks' = [hooks EXCEPT ![p] = [phase |-> "claimed", attempt |-> a]]
        /\ UNCHANGED <<events, revised, owner, bindings, natives, batches, written, counts>>

\* ClaimBridge over a permission whose sender has exited, or whose offer was
\* not confirmed in time: it becomes uncertain and nothing is claimed.
ClaimFindsUnconfirmed(b) ==
    \E a \in UnresolvedOf(b) :
        /\ MaySend(b)
        /\ attempts[a].state = "OFFERED" /\ attempts[a].lapsed
        /\ attempts' = SetState(a, "UNCERTAIN")
        /\ UNCHANGED <<events, revised, owner, bindings, natives, batches, hooks, written, counts>>

ClaimFindsUncertain(b) ==
    \E a \in UnresolvedOf(b) :
        /\ MaySend(b)
        /\ \/ attempts[a].state = "EMITTING" /\ attempts[a].sender = "gone"
           \/ attempts[a].state = "OFFERED" /\ attempts[a].lapsed
        /\ attempts' = SetState(a, "UNCERTAIN")
        /\ UNCHANGED <<events, revised, owner, bindings, natives, batches, hooks, written, counts>>

\* BeginBridgeEmit
MayEmitByToken(p, a) ==
    attempts[a].sender = p /\ attempts[a].state \in {"CLAIMED", "EXPIRED"}

MayEmit(p, a) ==
    attempts[a].sender = p /\ attempts[a].state = "CLAIMED" /\ ~attempts[a].lapsed

BeginBridgeEmit(p) ==
    LET a == hooks[p].attempt
    IN  /\ hooks[p].phase = "claimed" /\ MaySend(BindingOf(a)) /\ MayEmit(p, a)
        /\ attempts' = SetState(a, "EMITTING")
        /\ hooks' = [hooks EXCEPT ![p].phase = "emitting"]
        /\ UNCHANGED <<events, revised, owner, bindings, natives, batches, written, counts>>

\* The hook writes the wire bytes to its standard output.
Write(p) ==
    /\ hooks[p].phase = "emitting"
    /\ written' = written \cup {hooks[p].attempt}
    /\ hooks' = [hooks EXCEPT ![p].phase = "wrote"]
    /\ UNCHANGED <<events, revised, owner, bindings, natives, batches, attempts, counts>>

\* A process that ends is known to have exited wherever it is recorded.
Gone(p, as) ==
    [a \in DOMAIN as |-> IF as[a].sender = p THEN [as[a] EXCEPT !.sender = "gone"] ELSE as[a]]

\* MarkBridgeOffered is the last call of a hook; it changes nothing when the
\* owner was faster or the permission is no longer his.
MarkBridgeOffered(p) ==
    LET a == hooks[p].attempt
    IN  /\ hooks[p].phase = "wrote"
        /\ attempts' = Gone(p, IF MaySend(BindingOf(a)) /\ attempts[a].state = "EMITTING"
                               THEN [attempts EXCEPT ![a].state = "OFFERED", ![a].lapsed = FALSE]
                               ELSE attempts)
        /\ hooks' = [hooks EXCEPT ![p] = NoHook]
        /\ UNCHANGED <<events, revised, owner, bindings, natives, batches, written, counts>>

\* A claim whose BeginBridgeEmit is refused: the hook ends without output.
Refused(p) ==
    LET a == hooks[p].attempt
    IN  /\ hooks[p].phase = "claimed"
        /\ ~(MaySend(BindingOf(a)) /\ MayEmit(p, a))
        /\ attempts' = Gone(p, attempts) /\ hooks' = [hooks EXCEPT ![p] = NoHook]
        /\ UNCHANGED <<events, revised, owner, bindings, natives, batches, written, counts>>

\* A hook is killed or runs out of its two seconds between two of its calls,
\* or the reply to one of them is lost.
Die(p) ==
    /\ hooks[p].phase # "none" /\ counts.deaths < MaxDeaths
    /\ counts' = [counts EXCEPT !.deaths = @ + 1]
    /\ attempts' = Gone(p, attempts) /\ hooks' = [hooks EXCEPT ![p] = NoHook]
    /\ UNCHANGED <<events, revised, owner, bindings, natives, batches, written>>

-----------------------------------------------------------------------------
(* Owner and coordinator *)

\* bridgeOwnerForHistoricalTx
MayInspect(b) == bindings[b].status \in {"STALE", "DETACHED"} \/ bindings[b].owner = owner

\* ReceiveBridge
Receivable == {"EMITTING", "OFFERED", "UNCERTAIN"}

ReceiveBridge(a) ==
    /\ MayInspect(BindingOf(a)) /\ attempts[a].state \in Receivable
    /\ bindings[BindingOf(a)].status = "STALE" => attempts[a].sender = "gone"
    /\ attempts' = SetState(a, "RECEIVED")
    /\ UNCHANGED <<events, revised, owner, bindings, natives, batches, hooks, written, counts>>

\* RedeliverBridge: the old attempt is superseded and the same batch waits for
\* the next hook.
SenderKnown(a) == TRUE

SenderExited(a) == attempts[a].sender = "gone"

RedeliverBridge(a) ==
    /\ bindings[BindingOf(a)].status = "ACTIVE" /\ bindings[BindingOf(a)].owner = owner
    /\ attempts[a].state = "UNCERTAIN" /\ SenderExited(a) /\ ItemsValid(a)
    /\ attempts' = Append(SetState(a, "SUPERSEDED_UNCERTAIN"),
                          NewAttempt(attempts[a].batch, attempts[a].no + 1, "none"))
    /\ UNCHANGED <<events, revised, owner, bindings, natives, batches, hooks, written, counts>>

\* BridgeStatus ages the offers whose wait is over.
BridgeStatus(b) ==
    LET aged == {a \in UnresolvedOf(b) : attempts[a].state = "OFFERED" /\ attempts[a].lapsed}
    IN  /\ MayInspect(b) /\ aged # {}
        /\ attempts' = [a \in DOMAIN attempts |->
                          IF a \in aged THEN [attempts[a] EXCEPT !.state = "UNCERTAIN"]
                          ELSE attempts[a]]
        /\ UNCHANGED <<events, revised, owner, bindings, natives, batches, hooks, written, counts>>

\* RecoverBridgeDelivery after the coordinator's restart.
RecoverBridgeDelivery ==
    /\ counts.restarts < MaxRestarts
    /\ counts' = [counts EXCEPT !.restarts = @ + 1]
    /\ attempts' = [a \in DOMAIN attempts |->
                      IF attempts[a].state = "EMITTING"
                      THEN [attempts[a] EXCEPT !.state = "UNCERTAIN"] ELSE attempts[a]]
    /\ UNCHANGED <<events, revised, owner, bindings, natives, batches, hooks, written>>

\* The deadline of a claim or of an offer passes.
Lapse(a) ==
    /\ attempts[a].state \in {"CLAIMED", "OFFERED"} /\ ~attempts[a].lapsed
    /\ \/ /\ attempts[a].state = "CLAIMED" /\ attempts[a].sender \in {"none", "gone"}
          /\ UNCHANGED counts
       \/ /\ attempts[a].state = "OFFERED" \/ attempts[a].sender \in Senders
          /\ counts.lapses < MaxLapses
          /\ counts' = [counts EXCEPT !.lapses = @ + 1]
    /\ attempts' = [attempts EXCEPT ![a].lapsed = TRUE]
    /\ UNCHANGED <<events, revised, owner, bindings, natives, batches, hooks, written>>

-----------------------------------------------------------------------------
Claim(p, b) == ClaimNew(p, b) \/ ClaimReclaim(p, b) \/ ClaimAdopt(p, b)

HookStep(p) == BeginBridgeEmit(p) \/ Write(p) \/ MarkBridgeOffered(p) \/ Refused(p)

Next ==
    \/ \E e \in Events : Publish(e) \/ Ack(e) \/ Revise(e)
    \/ RebindOwner \/ BindBridge \/ RecoverBridgeDelivery
    \/ \E b \in DOMAIN bindings :
         \/ NativeExit(b) \/ ObserveSession(b) \/ ActivateBridge(b) \/ Detach(b)
         \/ ClaimFindsUncertain(b) \/ BridgeStatus(b)
         \/ \E p \in Senders : Claim(p, b)
    \/ \E p \in Senders : HookStep(p) \/ Die(p)
    \/ \E a \in DOMAIN attempts : ReceiveBridge(a) \/ RedeliverBridge(a) \/ Lapse(a)

Spec == Init /\ [][Next]_vars

\* The session keeps running hooks, the owner confirms what he was shown and
\* orders again what is uncertain, and clocks run.
Progress ==
    \/ \E p \in Senders : HookStep(p)
    \/ \E a \in DOMAIN attempts :
         Lapse(a) \/ RedeliverBridge(a) \/ (a \in written /\ ReceiveBridge(a))
    \/ \E b \in DOMAIN bindings :
         \/ ClaimFindsUncertain(b) \/ BridgeStatus(b)
         \/ \E p \in Senders : Claim(p, b)

Fairness == WF_vars(Progress)

-----------------------------------------------------------------------------
(* Properties *)

\* Two hooks of one binding never hold the permission to write the same event
\* at the same time: neither a lease that lapsed, nor a restart that forgot
\* the permission, nor a redelivery lets a second sender in while the first
\* can still write (bridgeSenderExited, bridgeBeginEmitCAS).
EmitDisjoint ==
    \A p, q \in Senders :
        LET a == hooks[p].attempt
            c == hooks[q].attempt
        IN  p # q /\ hooks[p].phase = "emitting" /\ hooks[q].phase = "emitting"
              /\ BindingOf(a) = BindingOf(c)
            => Items(a) \cap Items(c) = {}

\* What was written is never taken for a claim that came to nothing, and an
\* event is written a second time to a session only after the owner gave up
\* the attempt that wrote it (RedeliverBridge).
RepeatOnlyOnRequest ==
    /\ \A a \in written : attempts[a].state \notin {"CLAIMED", "EXPIRED", "STALE"}
    /\ \A a, c \in written :
         a # c /\ BindingOf(a) = BindingOf(c) /\ Items(a) \cap Items(c) # {}
         => "SUPERSEDED_UNCERTAIN" \in {attempts[a].state, attempts[c].state}

\* A session confirms an event once, whichever of its attempts he confirms and
\* however late (bridgeExactReceiveTx).
ReceivedOnce ==
    \A a, c \in DOMAIN attempts :
        a # c /\ attempts[a].state = "RECEIVED" /\ attempts[c].state = "RECEIVED"
          /\ BindingOf(a) = BindingOf(c)
        => Items(a) \cap Items(c) = {}

\* Events reach a session in the order of delivery_order: none is received
\* before an older one that still waits for the owner (bridgeSourceRows fails
\* on a row it cannot send and never steps over it).
NoSkip ==
    \A b \in DOMAIN bindings : \A e \in ReceivedIn(b) : \A f \in Events :
        f < e => f \in ReceivedIn(b) \/ events[f] = "acked"

\* A lease is expired only by the claim that takes its place, so no batch is
\* left without an attempt for a newer one to overtake.
ExpiredHasSuccessor ==
    \A a \in DOMAIN attempts : attempts[a].state = "EXPIRED" =>
        \E c \in DOMAIN attempts :
            attempts[c].batch = attempts[a].batch /\ attempts[c].no = attempts[a].no + 1

\* The batches of a session are sound: no event is written twice unasked,
\* confirmed twice, stepped over, or lost with an expired lease.
BatchSound ==
    /\ TypeOK
    /\ RepeatOnlyOnRequest /\ ReceivedOnce /\ NoSkip /\ ExpiredHasSuccessor

\* An attempt is open only in the newest session: neither a replaced owner nor
\* a new epoch leaves a claim, a permission or an uncertain offer of an older
\* session behind, so at most one attempt of the run waits for an answer.
OpenOnlyInNewest ==
    \A a, c \in DOMAIN attempts :
        attempts[a].state \in Unresolved =>
            /\ BindingOf(a) = Len(bindings)
            /\ attempts[c].state \in Unresolved => a = c

\* One writer at a time: of an event in a session, and of the sessions of a run.
OneWriter == EmitDisjoint /\ OpenOnlyInNewest

\* The source no longer matches what was claimed, which the owner resolves.
Blocked(b) ==
    \/ ~SourceValid(b)
    \/ \E a \in UnresolvedOf(b) : ~ItemsValid(a)

\* Whatever hooks die, leases lapse and coordinators restart, a pending event
\* is received by the session, unless it is decided, the session can no
\* longer be sent to, or the source of an open attempt changed.
Delivered ==
    \A e \in Events : \A b \in 1..MaxBindings :
        (b \in DOMAIN bindings /\ events[e] = "pending")
        ~> (b \in DOMAIN bindings /\
              (e \in ReceivedIn(b) \/ events[e] = "acked" \/ ~MaySend(b) \/ Blocked(b)))
=============================================================================
