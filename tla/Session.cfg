SPECIFICATION MCSpec
CONSTANTS
    p1 = p1  p2 = p2  q1 = q1  q2 = q2  r1 = r1  n1 = n1  h1 = h1  h2 = h2
    Senders = {p1, p2}
    MaxEvents = 3
    BatchEvents = 2
    MaxBindings = 2
    MaxRebinds = 1
    MaxLapses = 1
    MaxDeaths = 1
    MaxRestarts = 1
SYMMETRY Symmetry
INVARIANTS
    BatchSound
    OneWriter
    ReplaySound
    QuestionSound
CHECK_DEADLOCK FALSE
