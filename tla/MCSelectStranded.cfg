SPECIFICATION FairSpec
CONSTANTS
  a = a
  b = b
  d = d
  t = t
  s1 = s1
  s2 = s2
  r = r
  None = None
  Chan = {1, 2}
  Capacity = 1
  Selectors = {a}
  Cases <- MCCases
  Threads = {}
  Defaulted = {}
  Senders = {s1, s2}
  Receivers = {r}
  Home <- MCHome
  Scoped = {}
  MaxOps = 1
  MaxClosed = 0
PROPERTIES ReceiverNotStranded
CHECK_DEADLOCK FALSE
