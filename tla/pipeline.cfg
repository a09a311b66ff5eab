SPECIFICATION Spec
CONSTANTS
  NumWarps = 2
  Setups <- MCSetups
  MaxActive = 1
  Limit = 1
  MaxTrips = 1
  NumBanks = 2
  Depth <- MCDepth
  Responses = 1
INVARIANTS PipelineSound RegistersExact ReclaimClean OnePerCycle OperandsQueued
PROPERTIES CriticalityExact AllExit
