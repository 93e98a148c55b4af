CONSTANTS
  t1 = t1
  t2 = t2
  Tasks = {t1, t2}
  Keys = {1, 2}
  Vals = {1, 2}
  Hash <- MCHash
  Names <- MCNames
  BufCap = 3
  Kinds = {"plain", "unique", "versioned", "compact", "simple", "cascade"}
  Ops <- MCOps
  Filters <- MCFilters
  MaxStatements = 3
  MaxRows = 4
  Threshold = 1
  CompactAlone = TRUE
SPECIFICATION FairSpec
CHECK_DEADLOCK FALSE
INVARIANTS SidecarsAgree ReadsRight CascadeReaches
PROPERTIES WholeStatements StatementEnds
