SPECIFICATION MCSpec
CONSTANTS
  Stores = {s1, s2}
  Synced = {}
  SyncedOnes = {s1}
  Rows = {k1}
  Values = {0, 1}
  Zero = 0
  Faults = {"kill", "power"}
  MaxPuts = 2
  MixedPuts = 3
  MaxFaults = 2
  MaxDepth = 2
  Savers = {}
  OtherTasks = {t}
  None = None
INVARIANTS OutcomeLegal UndoIsDurable
PROPERTIES RecoveryEnds
CHECK_DEADLOCK FALSE
