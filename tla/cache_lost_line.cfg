CONSTANTS
  b1 = b1
  b2 = b2
  b3 = b3
  set1 = set1
  Blocks = {b1, b2, b3}
  LocalBlocks = {b3}
  Sets <- OneSet
  SetOf <- InOneSet
  Ways = 2
  Mfs = {m1, m2, m3}
  NoMf = nomf
  NoBlock = noblock
  NoLine = noline
  MshrEntries = 2
  MaxMerge = 2
  MissQueueSize = 3
  Policies <- OnlyL1D
SPECIFICATION Spec
CHECK_DEADLOCK FALSE
INVARIANTS ReservedPending
