\* A kernel at PC 0 with a loop back to its first instruction.
CONSTANTS
  WarpSize = 4
  Programs <- LoadedFirst
SPECIFICATION Spec
INVARIANT
  InSync
