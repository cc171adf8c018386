SPECIFICATION Spec
CONSTANTS
    s1 = s1  c1 = c1  c2 = c2
    Segments = {s1}
    Callers = {c1, c2}
    Target <- TheSegment
    MaxFaults = 2
SYMMETRY Symmetry
INVARIANT OutcomeSound
PROPERTY NaturalFailureFinal
CHECK_DEADLOCK FALSE
