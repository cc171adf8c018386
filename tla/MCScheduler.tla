----------------------------- MODULE MCScheduler -----------------------------
(***************************************************************************)
(* Small plans for the scheduler: each .cfg picks the values it needs.     *)
(***************************************************************************)
EXTENDS Scheduler, TLC

CONSTANTS a, b, c, h1, h2, provider

All(v) == [t \in Task |-> v]

\* Hosts, groups and creation order.
OneHost    == All(h1)
TwoHosts   == [t \in Task |-> IF t = a THEN h1 ELSE h2]
OneGroup   == All("group")
OwnGroup   == [t \in Task |-> t]
CreatedAt  == [t \in Task |-> CASE t = a -> 1 [] t = b -> 2 [] OTHER -> 3]

\* Dependency graphs.
Independent == All({})
JoinC       == [t \in Task |-> IF t = c THEN {a, b} ELSE {}]

\* Completion policies.
AllReview  == All("review")
MixedEnds  == [t \in Task |-> CASE t = a -> "fixture" [] t = b -> "review" [] OTHER -> "artifact"]

\* Providers and workspaces.
NoKeys     == All({})
NoLimit    == <<>>
SharedKey  == All({provider})
OneAtATime == provider :> 1

One1 == All(1)
Two  == All(2)
Three == All(3)
TwoForA == [t \in Task |-> IF t = a THEN 2 ELSE 1]

\* Without policy tasks no action reads the deliveries that await the owner.
WithoutInbox == <<taskVars, workVars, retried, autoRetries, rejected, hostVars, spoolVars, faults>>
=============================================================================
