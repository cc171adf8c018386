SPECIFICATION Spec
CONSTANTS
  a = a  b = b  c = c  h1 = h1  h2 = h2  provider = provider
  Task = {a}
  Host = {h1}
  HostOf <- OneHost
  GroupOf <- OneGroup
  Deps <- Independent
  Order <- CreatedAt
  Policy = {}
  Completion <- AllReview
  KeysOf <- NoKeys
  KeyLimit <- NoLimit
  Slots = 1
  TaskAttempts <- Two
  GroupAttempts <- Two
  SegmentMS <- One1
  AttemptMS <- Two
  TaskMS <- Three
  GroupMS <- Three
  Backoffs = 0
  MaxAttempt = 2
  MaxSegment = 2
  MaxSpool = 1
  MaxFaults = 1
INVARIANTS
  TypeOK
  OneActiveSegment
  StopAuthoritative
  ReservationsSettle
  ReleasedIsFinal
PROPERTY HistoryFrozen
VIEW WithoutInbox
CHECK_DEADLOCK FALSE
