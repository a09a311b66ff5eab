CONSTANTS
  NumKernels = 2
  Grid <- TwoGrids
  Block <- TwoBlocks
  CtaLimit <- TwoLimits
  Slots = 2
  Clusters = 2
  PerCluster = 2
  WarpSize = 2
  Threads = 4
SPECIFICATION LiveSpec
INVARIANTS CountsSound RoomIsReal SlotsSound
PROPERTIES ImplementsWork KernelsFinish
