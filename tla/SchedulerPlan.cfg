SPECIFICATION Spec
CONSTANTS
  a = a  b = b  c = c  h1 = h1  h2 = h2  provider = provider
  Task = {a, b, c}
  Host = {h1}
  HostOf <- OneHost
  GroupOf <- OwnGroup
  Deps <- JoinC
  Order <- CreatedAt
  Policy = {}
  Completion <- MixedEnds
  KeysOf <- SharedKey
  KeyLimit <- OneAtATime
  Slots = 2
  TaskAttempts <- One1
  GroupAttempts <- One1
  SegmentMS <- One1
  AttemptMS <- One1
  TaskMS <- One1
  GroupMS <- One1
  Backoffs = 0
  MaxAttempt = 1
  MaxSegment = 1
  MaxSpool = 1
  MaxFaults = 1
INVARIANT DependenciesDone
VIEW WithoutInbox
CHECK_DEADLOCK FALSE
