SPECIFICATION Spec
CONSTANTS
    s1 = s1
    s2 = s2
    Segment = {s1, s2}
    MaxMade = 2
    MaxBreaks = 0
    MaxUnsynced = 0
SYMMETRY SegmentSymmetry
INVARIANT NoHoleSeen
CHECK_DEADLOCK FALSE
