------------------------------ MODULE EventLog ------------------------------
(***************************************************************************)
(* What the event channel between a host and the coordinator promises: the *)
(* events a host accepts are numbered 1, 2, 3, ... without a hole, and the *)
(* coordinator receives one event of each number, once, in that order.     *)
(* Numbers differ, except that the acceptance of the latest event may be   *)
(* left in doubt; until it is confirmed, another event may take its        *)
(* number, and either of the two is received.  How the promise is kept     *)
(* over several spool directories, lost connections, crashes and failed    *)
(* writes is in EventSpool.                                                *)
(***************************************************************************)
EXTENDS Naturals, Sequences

CONSTANT Event                  \* events, records with a field seq

VARIABLES
    accepted,                   \* the events the host has accepted
    doubtful,                   \* those whose acceptance is in doubt
    delivered                   \* what the coordinator has, in order

vars == <<accepted, doubtful, delivered>>

Init == accepted = {} /\ doubtful = {} /\ delivered = <<>>

(* No event has a higher number, and only doubtful ones the same.          *)
Latest(e, S) ==
    /\ \A f \in S : f.seq <= e.seq
    /\ \A f \in S \ (doubtful \cup {e}) : f.seq < e.seq

(* There is an event of the number before.                                 *)
NoHole(e, S) == e.seq = 1 \/ \E f \in S : f.seq + 1 = e.seq

Accept(e) ==
    /\ e \notin accepted
    /\ Latest(e, accepted) /\ NoHole(e, accepted)
    /\ accepted' = accepted \cup {e}
    /\ UNCHANGED <<doubtful, delivered>>

(* Only the latest event can fall into doubt, or be confirmed after all.   *)
Doubt(e) ==
    /\ e \in accepted \ doubtful /\ Latest(e, accepted)
    /\ doubtful' = doubtful \cup {e}
    /\ UNCHANGED <<accepted, delivered>>

Confirm(e) ==
    /\ e \in doubtful /\ Latest(e, accepted)
    /\ doubtful' = doubtful \ {e}
    /\ UNCHANGED <<accepted, delivered>>

Deliver(e) ==
    /\ e \in accepted
    /\ e.seq = Len(delivered) + 1
    /\ delivered' = Append(delivered, e)
    /\ UNCHANGED <<accepted, doubtful>>

Next == \E e \in Event : Accept(e) \/ Doubt(e) \/ Confirm(e) \/ Deliver(e)

Spec == Init /\ [][Next]_vars
=============================================================================
