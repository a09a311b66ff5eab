CONSTANTS
  Warps = {1, 2, 3, 4, 5}
  Ctas = {1}
  CtaSets <- PairOnly
  BarIds = {0, 1}
  Ops <- HandoverOps
  Programs <- Handover
SPECIFICATION LiveSpec
PROPERTIES ReleaseJustified
