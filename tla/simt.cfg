\* Programs of the shapes compilers make and all graphs of four instructions.
CONSTANTS
  WarpSize = 4
  Programs <- Kernels
SPECIFICATION Spec
INVARIANTS
  InSyncElsewhere
  StackSound
  ReconvergeTogether
  PostDominatorsRight
