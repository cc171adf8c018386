SPECIFICATION FairSpec
CONSTANTS
  a = a  b = b  c = c  h1 = h1  h2 = h2  provider = provider
  Task = {a, b}
  Host = {h1, h2}
  HostOf <- TwoHosts
  GroupOf <- OneGroup
  Deps <- Independent
  Order <- CreatedAt
  Policy = {a, b}
  Completion <- AllReview
  KeysOf <- SharedKey
  KeyLimit <- OneAtATime
  Slots = 2
  TaskAttempts <- TwoForA
  GroupAttempts <- Two
  SegmentMS <- One1
  AttemptMS <- One1
  TaskMS <- Two
  GroupMS <- Two
  Backoffs = 1
  MaxAttempt = 2
  MaxSegment = 1
  MaxSpool = 1
  MaxFaults = 0
INVARIANTS
  PromiseKept
  LimitsRespected
PROPERTIES
  StopNeverRestarts
  RetryServed
CHECK_DEADLOCK FALSE
