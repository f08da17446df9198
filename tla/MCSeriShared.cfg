CONSTANTS
  t1 = t1
  t2 = t2
  t3 = t3
  Tables <- ThreeTables
  Heaps <- Graphs
  Arguments <- TwoArguments
  MAX_DEPTH = 3
  MAX_REFERENCE = 2
  MAX_COOKIE = 4
SPECIFICATION Spec
INVARIANT SharedTablesAreRead
CHECK_DEADLOCK FALSE
