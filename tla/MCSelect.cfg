SPECIFICATION FairSpec
CONSTANTS
  a = a
  b = b
  d = d
  t = t
  s1 = s1
  s2 = s2
  r = r
  None = None
  Chan = {1, 2}
  Capacity = 1
  Selectors = {b, d, t}
  Cases <- MCCases
  Threads = {t}
  Defaulted = {d}
  Senders = {s1}
  Receivers = {r}
  Home <- MCHome
  Scoped = {b}
  MaxOps = 1
  MaxClosed = 1
INVARIANTS NoDanglingNode OneWaker
PROPERTIES LockingEnds CancelledSelectReturns
CHECK_DEADLOCK FALSE
