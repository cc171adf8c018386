SPECIFICATION FairSpec
CONSTANTS
  a = a  b = b  c = c  h1 = h1  h2 = h2  provider = provider
  Task = {a}
  Host = {h1}
  HostOf <- OneHost
  GroupOf <- OneGroup
  Deps <- Independent
  Order <- CreatedAt
  Policy = {}
  Completion <- AllReview
  KeysOf <- NoKeys
  KeyLimit <- NoLimit
  Slots = 1
  TaskAttempts <- One1
  GroupAttempts <- One1
  SegmentMS <- One1
  AttemptMS <- One1
  TaskMS <- One1
  GroupMS <- One1
  Backoffs = 0
  MaxAttempt = 1
  MaxSegment = 1
  MaxSpool = 2
  MaxFaults = 0
PROPERTY ExitCommits
CHECK_DEADLOCK FALSE
