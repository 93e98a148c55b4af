SPECIFICATION Spec
CONSTANTS
  Stores = {s1}
  Synced = {s1}
  Rows = {k1}
  Values = {0, 1}
  Zero = 0
  Faults = {"kill", "power"}
  MaxPuts = 1
  MaxFaults = 2
  MaxDepth = 0
  Savers = {}
  None = None
INVARIANTS OutcomeLegal
CHECK_DEADLOCK FALSE
