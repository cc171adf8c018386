----------------------------- MODULE EventSpool -----------------------------
(***************************************************************************)
(* The events of one source host on their way to the coordinator.          *)
(*                                                                         *)
(* Every segment has a spool directory of its own (events.Spool) but the   *)
(* sequence numbers run over all of them.  Workers append under            *)
(* sequenceMu; one publisher (PublishAll, under publishMu) reads the       *)
(* spools one after the other, sends what is new in sequence order, and    *)
(* only then acknowledges and archives spool by spool and moves the        *)
(* published cursor.  Neither lock is held by the other side, so appends   *)
(* interleave with every step of a pass.  The connection may break at any  *)
(* point, a request or its reply may be lost, and the process may die      *)
(* between any two file operations; files survive that, memory does not.   *)
(* The sync of the directory may fail after the link: Append then returns  *)
(* an error for an event that readers see, the number is not taken, and    *)
(* another spool may use it again.                                         *)
(*                                                                         *)
(* A spool directory created after the publisher listed them is one it     *)
(* read while it was empty, so the set of spools is constant.              *)
(***************************************************************************)
EXTENDS Naturals, Sequences, FiniteSets

CONSTANTS
    Segment,                    \* segments, each with its spool
    MaxMade,                    \* bound: Append calls
    MaxBreaks,                  \* bound: lost connections and crashes
    MaxUnsynced                 \* bound: failed directory syncs

ASSUME BoundAssumption ==
    MaxMade \in Nat /\ MaxBreaks \in Nat /\ MaxUnsynced \in Nat

Event == [seg : Segment, seq : 1..MaxMade, id : 0..MaxMade]
NoSpool == "none"
NoEvent == [seg |-> NoSpool, seq |-> 0, id |-> 0]

VARIABLES
    active,                     \* event files in the spool directories
    archived,                   \* event files in their archive directories
    ack,                        \* ack.json of each spool
    published,                  \* the producer-wide cursor file
    stages,                     \* stage files this process left behind
    up,                         \* the host process runs
    sequence, loaded,           \* h.sequence, h.sequenceLoaded
    appending,                  \* the event under sequenceMu, or NoEvent
    made,                       \* Append calls so far; names the event
    unsynced,                   \* events that Append linked and reported
                                \* as failed; only the properties and the
                                \* bound read it
    eventReady,                 \* token in the eventReady channel
    pc,                         \* where the publisher is
    fresh,                      \* the running pass is the one of connect
    unread,                     \* spools the pass has yet to read
    pending,                    \* the events the pass found
    last,                       \* cursor of the pass
    todo,                       \* spools the pass has yet to acknowledge
    spool,                      \* the spool being archived
    conn,                       \* the connection is up
    wire,                       \* requests that may reach the coordinator
    reply,                      \* the coordinator's answer to the publisher
    breaks,                     \* lost connections and crashes so far
    committed                   \* runtime_events of this producer

diskVars == <<active, archived, ack, published>>
appendVars == <<stages, sequence, loaded, appending, made, unsynced>>
passVars == <<fresh, unread, pending, last, todo, spool>>
netVars == <<conn, wire, reply, committed>>
vars == <<diskVars, appendVars, eventReady, pc, passVars, netVars, up, breaks>>

Highest(n, S) == n \in S /\ \A m \in S : m <= n
Larger(m, n) == IF m < n THEN n ELSE m

Init ==
    /\ active = {} /\ archived = {} /\ published = 0
    /\ ack = [s \in Segment |-> 0]
    /\ stages = {} /\ sequence = 0 /\ loaded = FALSE
    /\ appending = NoEvent /\ made = 0 /\ unsynced = {}
    /\ eventReady = FALSE /\ pc = "idle" /\ fresh = FALSE
    /\ unread = {} /\ pending = {} /\ last = 0 /\ todo = {}
    /\ spool = NoSpool
    /\ conn = FALSE /\ wire = {} /\ reply = "none" /\ committed = <<>>
    /\ up = TRUE /\ breaks = 0

-----------------------------------------------------------------------------
(* Appending an event, under sequenceMu.                                   *)

(* loadEventSequenceLocked: the highest number in the whole history.       *)
Numbers == {e.seq : e \in active \cup archived} \cup {published}
LoadsActive(top) ==                                             \* a mutant
    IF loaded THEN top = sequence
    ELSE Highest(top, {0} \cup {e.seq : e \in active})
Loads(top) == IF loaded THEN top = sequence ELSE Highest(top, Numbers)

(* The link of the event being appended is made.                           *)
Linked == appending \in active \cup archived

(* A stage file left by the same process under the same name makes Append  *)
(* fail with ErrConflict and change nothing; so does an event file of the  *)
(* same number with other content.                                         *)
AppendStart(s, top) ==
    LET e == [seg |-> s, seq |-> top + 1, id |-> made]
    IN  /\ up /\ appending = NoEvent /\ made < MaxMade
        /\ Loads(top)
        /\ <<s, e.seq>> \notin stages
        /\ ~ \E f \in active \cup archived : f.seg = s /\ f.seq = e.seq
        /\ appending' = e
        /\ made' = made + 1
        /\ sequence' = top /\ loaded' = TRUE
        /\ UNCHANGED <<diskVars, stages, unsynced, eventReady, pc, passVars,
                       netVars, up, breaks>>

(* The write or the fsync of the stage file fails.                         *)
AppendWriteFails ==
    /\ appending # NoEvent /\ ~Linked
    /\ stages' = stages \cup {<<appending.seg, appending.seq>>}
    /\ appending' = NoEvent
    /\ UNCHANGED <<diskVars, sequence, loaded, made, unsynced, eventReady, pc,
                   passVars, netVars, up, breaks>>

(* The link makes the event visible to readers, the publisher included.    *)
AppendLink ==
    /\ appending # NoEvent /\ ~Linked
    /\ active' = active \cup {appending}
    /\ UNCHANGED <<archived, ack, published, appendVars, eventReady, pc,
                   passVars, netVars, up, breaks>>

(* The number is taken and the publisher woken once the link is durable.   *)
AppendDoneSilently ==                                           \* a mutant
    /\ Linked
    /\ sequence' = appending.seq
    /\ appending' = NoEvent
    /\ UNCHANGED <<diskVars, stages, loaded, made, unsynced, eventReady, pc,
                   passVars, netVars, up, breaks>>
AppendDone ==
    /\ Linked
    /\ sequence' = appending.seq
    /\ appending' = NoEvent
    /\ eventReady' = TRUE
    /\ UNCHANGED <<diskVars, stages, loaded, made, unsynced, pc, passVars,
                   netVars, up, breaks>>

(* The sync of the directory fails after the link: the event stays where   *)
(* it is, but its number is not taken and the publisher not woken.         *)
AppendSyncFails ==
    /\ Linked /\ Cardinality(unsynced) < MaxUnsynced
    /\ unsynced' = unsynced \cup {appending}
    /\ appending' = NoEvent
    /\ UNCHANGED <<diskVars, stages, sequence, loaded, made, eventReady, pc,
                   passVars, netVars, up, breaks>>

(* Such an event appended again: Append finds the same bytes under its     *)
(* name, in the spool or in the archive, and reports success.              *)
AppendRepeated(e) ==
    /\ up /\ loaded /\ appending = NoEvent
    /\ e \in active \cup archived /\ e.seq = sequence + 1
    /\ sequence' = e.seq
    /\ unsynced' = unsynced \ {e}
    /\ eventReady' = TRUE
    /\ UNCHANGED <<diskVars, stages, loaded, appending, made, pc, passVars,
                   netVars, up, breaks>>

-----------------------------------------------------------------------------
(* One pass of PublishAll.                                                 *)

(* connect publishes before it reports the host reconciled.                *)
Connect ==
    /\ up /\ ~conn /\ pc = "idle"
    /\ conn' = TRUE /\ fresh' = TRUE /\ pc' = "begin"
    /\ UNCHANGED <<diskVars, appendVars, eventReady, unread, pending, last,
                   todo, spool, wire, reply, committed, up, breaks>>

(* The publish loop waits for a token between passes.                      *)
Wake ==
    /\ up /\ conn /\ pc = "idle" /\ eventReady
    /\ eventReady' = FALSE /\ pc' = "begin"
    /\ UNCHANGED <<diskVars, appendVars, passVars, netVars, up, breaks>>

BeginPass ==
    /\ pc = "begin"
    /\ pc' = "read"
    /\ unread' = Segment /\ pending' = {} /\ last' = published
    /\ UNCHANGED <<diskVars, appendVars, eventReady, fresh, todo, spool,
                   netVars, up, breaks>>

(* Spools are read one by one; each yields its events past its own ack.    *)
ReadSpool(s) ==
    /\ pc = "read" /\ s \in unread
    /\ unread' = unread \ {s}
    /\ pending' = pending \cup {e \in active : e.seg = s /\ e.seq > ack[s]}
    /\ last' = Larger(last, ack[s])
    /\ UNCHANGED <<diskVars, appendVars, eventReady, pc, fresh, todo, spool,
                   netVars, up, breaks>>

Unsent == {e \in pending : e.seq > last}
FirstUnsent(e) == e \in Unsent /\ \A f \in Unsent : e.seq <= f.seq   \* a mutant
Sendable(e) == e \in Unsent /\ e.seq = last + 1

SendEventUnconfirmed(e) ==                                      \* a mutant
    /\ pc = "read" /\ unread = {} /\ conn
    /\ Sendable(e)
    /\ wire' = wire \cup {e} /\ last' = last + 1
    /\ UNCHANGED <<diskVars, appendVars, eventReady, pc, fresh, unread, pending,
                   todo, spool, conn, reply, committed, up, breaks>>
SendEvent(e) ==
    /\ pc = "read" /\ unread = {} /\ conn
    /\ Sendable(e)
    /\ pc' = "wait"
    /\ wire' = wire \cup {e} /\ reply' = "none"
    /\ UNCHANGED <<diskVars, appendVars, eventReady, passVars, conn, committed,
                   up, breaks>>

(* The lowest number left is not the next one: event_sequence_gap.  The    *)
(* error is not transient, the source host ends its work and exits.        *)
SequenceGap ==
    /\ pc = "read" /\ unread = {} /\ Unsent # {}
    /\ \A e \in Unsent : e.seq # last + 1
    /\ pc' = "gap"
    /\ UNCHANGED <<diskVars, appendVars, eventReady, passVars, netVars, up,
                   breaks>>

(* Sending over a lost connection ends the pass; nothing is acknowledged.  *)
SendFails ==
    /\ pc = "read" /\ unread = {} /\ ~conn /\ Unsent # {}
    /\ \E e \in Unsent : e.seq = last + 1
    /\ pc' = "idle" /\ fresh' = FALSE
    /\ UNCHANGED <<diskVars, appendVars, eventReady, unread, pending, last,
                   todo, spool, netVars, up, breaks>>

(* A durable answer moves the pass on; a refusal ends the source host.     *)
ReceiveAck ==
    /\ pc = "wait" /\ reply # "none"
    /\ pc' = IF reply = "durable" THEN "read" ELSE "refused"
    /\ last' = IF reply = "durable" THEN last + 1 ELSE last
    /\ reply' = "none"
    /\ UNCHANGED <<diskVars, appendVars, eventReady, fresh, unread, pending,
                   todo, spool, conn, wire, committed, up, breaks>>

(* All sent: acknowledge the spools the pass has taken events from.        *)
Sent == {e \in pending : e.seq <= last}
BeginAck ==
    /\ pc = "read" /\ unread = {} /\ Unsent = {} /\ last # published
    /\ pc' = "ack" /\ todo' = {e.seg : e \in Sent}
    /\ UNCHANGED <<diskVars, appendVars, eventReady, fresh, unread, pending,
                   last, spool, netVars, up, breaks>>

(* Spool.AckThrough: ack.json is renamed into place, then the files it     *)
(* covers are linked into the archive, then removed from the spool.        *)
AckThrough(s, n) ==
    /\ pc = "ack" /\ s \in todo
    /\ Highest(n, {e.seq : e \in {f \in Sent : f.seg = s}})
    /\ pc' = "link" /\ todo' = todo \ {s} /\ spool' = s
    /\ ack' = [ack EXCEPT ![s] = n]
    /\ UNCHANGED <<active, archived, published, appendVars, eventReady, fresh,
                   unread, pending, last, netVars, up, breaks>>

Covered == {e \in active : e.seg = spool /\ e.seq <= ack[spool]}
ArchiveLink ==
    /\ pc = "link"
    /\ pc' = "remove" /\ archived' = archived \cup Covered
    /\ UNCHANGED <<active, ack, published, appendVars, eventReady, passVars,
                   netVars, up, breaks>>
ArchiveRemove ==
    /\ pc = "remove"
    /\ pc' = "ack" /\ active' = active \ Covered /\ spool' = NoSpool
    /\ UNCHANGED <<archived, ack, published, appendVars, eventReady, fresh,
                   unread, pending, last, todo, netVars, up, breaks>>

(* The pass of connect is followed by the publish loop's first pass, which *)
(* does not wait for a token.                                              *)
PassDone ==
    /\ pc' = IF fresh THEN "begin" ELSE "idle"
    /\ fresh' = FALSE

WritePublished ==
    /\ pc = "ack" /\ todo = {}
    /\ published' = last
    /\ PassDone
    /\ UNCHANGED <<active, archived, ack, appendVars, eventReady, unread,
                   pending, last, todo, spool, netVars, up, breaks>>

NothingNew ==
    /\ pc = "read" /\ unread = {} /\ Unsent = {} /\ last = published
    /\ PassDone
    /\ UNCHANGED <<diskVars, appendVars, eventReady, unread, pending, last,
                   todo, spool, netVars, up, breaks>>

-----------------------------------------------------------------------------
(* The coordinator and the faults.                                         *)

(* An answer belongs to its request.                                       *)
Awaited(e) == pc = "wait" /\ Sendable(e)

(* CommitHostEvent: an event it has is acknowledged again, the next one is *)
(* stored, anything else is refused.                                       *)
Known(e) == e.seq <= Len(committed) /\ committed[e.seq] = e
CommitHostEvent(e) ==
    /\ e \in wire
    /\ wire' = wire \ {e}
    /\ LET durable == Known(e) \/ e.seq = Len(committed) + 1
       IN  /\ committed' = IF Known(e) \/ ~durable THEN committed
                           ELSE Append(committed, e)
           /\ reply' = IF ~Awaited(e) THEN reply
                       ELSE IF durable THEN "durable" ELSE "refused"
    /\ UNCHANGED <<diskVars, appendVars, eventReady, pc, passVars, conn, up,
                   breaks>>

(* A request written to a connection that broke may never arrive.          *)
LoseRequest(e) ==
    /\ e \in wire /\ ~Awaited(e)
    /\ wire' = wire \ {e}
    /\ UNCHANGED <<diskVars, appendVars, eventReady, pc, passVars, conn, reply,
                   committed, up, breaks>>

Disconnect ==
    /\ conn /\ breaks < MaxBreaks
    /\ breaks' = breaks + 1
    /\ conn' = FALSE /\ reply' = "none"
    /\ pc' = IF pc = "wait" THEN "idle" ELSE pc
    /\ fresh' = IF pc = "wait" THEN FALSE ELSE fresh
    /\ UNCHANGED <<diskVars, appendVars, eventReady, unread, pending, last,
                   todo, spool, wire, committed, up>>

(* The process ends, by a crash or after a gap or a refusal.  A stage file *)
(* carries the process id, so a later process is not hindered by it.       *)
Crash ==
    /\ up
    /\ breaks < MaxBreaks \/ pc \in {"gap", "refused"}
    /\ breaks' = IF breaks < MaxBreaks THEN breaks + 1 ELSE breaks
    /\ up' = FALSE /\ conn' = FALSE /\ reply' = "none"
    /\ stages' = {} /\ sequence' = 0 /\ loaded' = FALSE
    /\ appending' = NoEvent
    /\ eventReady' = FALSE /\ pc' = "idle" /\ fresh' = FALSE
    /\ unread' = {} /\ pending' = {} /\ last' = 0 /\ todo' = {}
    /\ spool' = NoSpool
    /\ UNCHANGED <<diskVars, made, unsynced, wire, committed>>

Restart ==
    /\ ~up
    /\ up' = TRUE
    /\ UNCHANGED <<diskVars, appendVars, eventReady, pc, passVars, netVars,
                   breaks>>

AppendNext ==
    \/ \E s \in Segment, top \in 0..MaxMade : AppendStart(s, top)
    \/ AppendWriteFails \/ AppendLink \/ AppendDone \/ AppendSyncFails
    \/ \E e \in Event : AppendRepeated(e)

PublishNext ==
    \/ Connect \/ Wake \/ BeginPass
    \/ \E s \in Segment : ReadSpool(s)
    \/ \E s \in Segment, n \in 1..MaxMade : AckThrough(s, n)
    \/ \E e \in Event : SendEvent(e)
    \/ SequenceGap \/ SendFails \/ ReceiveAck
    \/ BeginAck \/ ArchiveLink \/ ArchiveRemove
    \/ WritePublished \/ NothingNew

Commit == \E e \in Event : CommitHostEvent(e)

Next ==
    \/ AppendNext \/ PublishNext \/ Commit
    \/ \E e \in Event : LoseRequest(e)
    \/ Disconnect \/ Crash \/ Restart

(* The publisher's goroutine runs, a worker that holds sequenceMu returns, *)
(* and the coordinator answers.  Nothing restarts a host that has ended.   *)
Fairness ==
    /\ WF_vars(PublishNext)
    /\ WF_vars(AppendLink \/ AppendDone)
    /\ WF_vars(Commit)

Spec == Init /\ [][Next]_vars
FairSpec == Spec /\ Fairness

-----------------------------------------------------------------------------
Accepted == active \cup archived
Log == INSTANCE EventLog WITH accepted <- Accepted, doubtful <- unsynced,
                              delivered <- committed

(* The variables hold what the code's types and file formats allow.        *)
TypeOK ==
    /\ active \subseteq Event /\ archived \subseteq Event
    /\ ack \in [Segment -> Nat] /\ published \in Nat
    /\ stages \subseteq Segment \X Nat
    /\ up \in BOOLEAN /\ loaded \in BOOLEAN /\ eventReady \in BOOLEAN
    /\ fresh \in BOOLEAN /\ conn \in BOOLEAN
    /\ sequence \in Nat /\ made \in 0..MaxMade /\ last \in Nat
    /\ unsynced \subseteq Event
    /\ breaks \in 0..MaxBreaks
    /\ appending \in Event \cup {NoEvent}
    /\ pc \in {"idle", "begin", "read", "wait", "ack", "link", "remove",
               "gap", "refused"}
    /\ unread \subseteq Segment /\ todo \subseteq Segment
    /\ pending \subseteq Event /\ wire \subseteq Event
    /\ spool \in Segment \cup {NoSpool}
    /\ reply \in {"none", "durable", "refused"}
    /\ committed \in Seq(Event)

(* A failed directory sync left an event with this number.                 *)
InDoubt(n) == \E f \in unsynced : f.seq = n

(* And another event has taken the number again.                           *)
Reused(n) ==
    \E f \in unsynced, e \in Accepted : e # f /\ e.seq = n /\ f.seq = n

(* The detailed channel implements EventLog: whatever breaks, the events   *)
(* on disk are numbered without a hole, a number is used again only while  *)
(* a failed directory sync leaves the last one in doubt, and the           *)
(* coordinator stores one event of each number, in order (PublishAll,      *)
(* CommitHostEvent and loadEventSequenceLocked together).                  *)
ImplementsLog == Log!Spec

(* What AckThrough has archived, and all that a cursor file covers, the    *)
(* coordinator has stored: a crash between sending, acknowledging,         *)
(* archiving and moving the cursor loses no event.  The exception is a     *)
(* number used again after a failed directory sync: of the two events that *)
(* share it, one may be archived without having been sent.                 *)
ArchivedIsCommitted ==
    /\ \A e \in archived : /\ e.seq <= Len(committed)
                           /\ committed[e.seq] = e \/ Reused(e.seq)
    /\ \A s \in Segment : ack[s] <= Len(committed)
    /\ published <= Len(committed)

(* The coordinator refuses nothing the publisher sends: a replay after a   *)
(* lost acknowledgement or a restart is recognised, and no number is       *)
(* skipped.  Only a number used again after a failed directory sync may be *)
(* sent with other content, and then be refused.                           *)
NeverRefused == reply = "refused" => Reused(last + 1)

(* An appended event reaches the coordinator unless the process ends: the  *)
(* one-slot eventReady channel loses no wake-up, however an append falls   *)
(* into a running pass or a reconnection.  Nothing is promised for a       *)
(* number that a failed directory sync left in doubt: the failed event     *)
(* wakes no one, and another event with its number may be passed over.     *)
EventuallyCommitted ==
    \A n \in 0..MaxMade :
        (\E e \in active : e.id = n)
            ~> \/ \E i \in DOMAIN committed : committed[i].id = n
               \/ \E e \in Accepted : e.id = n /\ InDoubt(e.seq)
               \/ ~up
               \/ pc \in {"gap", "refused"}

(* The strengthening that makes the above inductive.  Numbers on disk are  *)
(* dense; only a failed directory sync lets two spools share one, and it   *)
(* is then the last.  The one being appended follows all that are taken.   *)
Numbering ==
    /\ \A e, f \in Accepted :
            /\ e.seq = f.seq /\ e.seg = f.seg => e = f
            /\ e.seq = f.seq /\ e # f => e \in unsynced \/ f \in unsynced
    /\ \A e \in Accepted : e.seq = 1 \/ \E f \in Accepted : f.seq + 1 = e.seq
    /\ loaded =>
          /\ \A e \in Accepted : \/ e = appending \/ e.seq <= sequence
                                 \/ e \in unsynced /\ e.seq = sequence + 1
          /\ sequence = 0 \/ \E e \in Accepted : e.seq = sequence
    /\ appending # NoEvent =>
          /\ loaded /\ appending.seq = sequence + 1 /\ appending.seq <= made
          /\ appending \notin unsynced
          /\ \A e \in Accepted :
                e.seg = appending.seg /\ e.seq = appending.seq => e = appending
    /\ unsynced \subseteq Accepted
    /\ \A e \in Accepted : e.seq <= made

(* What the coordinator has is on disk, and every cursor stays behind it.  *)
Cursors ==
    /\ \A i \in 1..Len(committed) :
            committed[i] \in Accepted /\ committed[i].seq = i
    /\ published <= Len(committed) /\ last <= Len(committed)
    /\ \A s \in Segment :
            /\ ack[s] <= Len(committed)
            /\ ack[s] = 0 \/ \E e \in Accepted : e.seg = s /\ e.seq = ack[s]
    /\ \A e \in archived : e.seq <= Len(committed)

(* Requests name events on disk, none past the next one.                   *)
Requests ==
    /\ \A e \in wire : e \in Accepted /\ e.seq <= Len(committed) + 1
    /\ reply = "refused" => pc = "wait" /\ Reused(last + 1)
    /\ reply = "durable" => pc = "wait" /\ last + 1 <= Len(committed)

(* A pass works on events that are still on disk; what it removes from a   *)
(* spool is in the archive.                                                *)
Pass ==
    /\ pending \subseteq Accepted
    /\ pc \in {"link", "remove"} => spool \in Segment
    /\ pc = "remove" => Covered \subseteq archived

SpoolInv == Numbering /\ Cursors /\ Requests /\ Pass

(* The publisher never finds a hole in the sequence (comment in            *)
(* appendStructuredEvent: the sequence cannot reserve a hole).             *)
NoHoleSeen == pc # "gap"

=============================================================================
