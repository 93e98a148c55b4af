SPECIFICATION FairSpec
CONSTANTS
  Senders = {s1}
  Receivers = {r1}
  Threads = {}
  Scoped = {r1}
  Capacity = 1
  Value = {v1, v2}
  MaxSends = 1
  MainJoins = FALSE
  None = None
PROPERTIES CancelledReturns
CHECK_DEADLOCK FALSE
