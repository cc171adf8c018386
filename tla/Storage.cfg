SPECIFICATION MCSpec
CONSTANTS
    v1 = v1  v2 = v2  r1 = r1  r2 = r2  t1 = t1  t2 = t2
    r3 = r3  x1 = x1
    None = None  Torn = Torn  Legacy = Legacy
    Last = 2  Results = {1}  Limit = 1  Pinnable = {1, 2}  Retriable = {2}
    Manual = TRUE  MaxBindings = 2  MaxRevision = 2  MaxFaults = 2
INVARIANTS
    ReportsKept
    InstalledIsWhole
    ConfiguredIsWhole
    GenerationsSound
PROPERTIES
    DeletedByPlan
    AnswersTrue
    EditsKept
CHECK_DEADLOCK FALSE
