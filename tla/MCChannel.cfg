SPECIFICATION FairSpec
CONSTANTS
  Senders = {s1, s2}
  Receivers = {r1, r2}
  Threads = {}
  Scoped = {r1, s1}
  Capacity = 1
  Value = {v1}
  MaxSends = 1
  MainJoins = TRUE
  None = None
INVARIANTS ParkedInOnePlace ClosedFreesAll
PROPERTIES CancelledReturns
CHECK_DEADLOCK FALSE
