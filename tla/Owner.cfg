SPECIFICATION MCFairSpec
CONSTANTS
    q1 = q1  h1 = h1
    Decisions = {"handled", "stale"}
    PageLimit = 2
    MaxEvents = 4
    MaxSegments = 3
    MaxRevision = 2
    MaxPages = 3
    MaxWaits = 2
INVARIANTS
    DecisionsSound
    CollectionComplete
    NoLostWakeup
PROPERTIES
    ReportsReachOwner
CHECK_DEADLOCK FALSE
