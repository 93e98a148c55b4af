SPECIFICATION FairSpec
CONSTANTS
  Senders = {s1, s2}
  Receivers = {r1, r2}
  Threads = {r2}
  Scoped = {}
  Capacity = 2
  Value = {v1, v2}
  MaxSends = 3
  MainJoins = FALSE
  None = None
INVARIANTS TypeOK RingHoldsPending NoStranded
PROPERTIES ImplementsFifo EveryValueDelivered EverySendReturns
CHECK_DEADLOCK FALSE
