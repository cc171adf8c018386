SPECIFICATION MCFairSpec
CONSTANTS
    v1 = v1  r1 = r1  r2 = r2  t1 = t1  t2 = t2  g1 = g1  i1 = i1  x1 = x1
    None = None  Torn = Torn  Legacy = Legacy
PROPERTIES
    Collected
    InstallConverges
    
CHECK_DEADLOCK FALSE
