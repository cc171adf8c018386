SPECIFICATION MCSpec
CONSTANTS
    t1 = t1  h1 = h1  s1 = s1  s2 = s2  c1 = c1  p1 = p1  p2 = p2
    Segments = {s1, s2}  MaxBreaks = 3  MaxCrashes = 1  MaxRestarts = 2
INVARIANT
    GrantSound
PROPERTIES
    StopResolvesUnlessWedged
    StopEnds
    GrantsResolved
    Delivered
CHECK_DEADLOCK FALSE
