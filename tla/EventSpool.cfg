SPECIFICATION FairSpec
CONSTANTS
    s1 = s1
    s2 = s2
    Segment = {s1, s2}
    MaxMade = 3
    MaxBreaks = 1
    MaxUnsynced = 1
INVARIANT ArchivedIsCommitted
INVARIANT NeverRefused
PROPERTY ImplementsLog
PROPERTY EventuallyCommitted
CHECK_DEADLOCK FALSE
