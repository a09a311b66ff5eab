CONSTANTS
  Warps = {1, 2, 3, 4, 5}
  Ctas = {1, 2}
  CtaSets <- MixedSets
  BarIds = {0, 1}
  Ops <- MixedOps
  Programs <- Mixed
SPECIFICATION LiveSpec
INVARIANTS BarriersSound LeavesClean
PROPERTIES ReleaseJustified CtasFinish
