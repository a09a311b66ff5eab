SPECIFICATION LiveSpec
CONSTANTS
  NumBanks = 2
  NumGroups = 2
  T <- MCTiming
  CL = 2
  WL = 1
  SchedSize = 2
  ReturnSize = 1
  NoReq = noreq
  NoRow = norow
  NumSubs = 2
  Blocks <- MCBlocks
  RowOfBlock <- MCRows
  BankOfBlock <- MCBanks
  InSize = 1
  TodramSize = 2
  FromdramSize = 1
  OutSize = 1
  Ways = 2
  MshrEntries = 2
  MaxMerge = 2
  MissQueueSize = 3
  LineAtoms = 2
  LineCycles = 2
  Setups <- MCSetups
  Window = 5
INVARIANTS ResourcesExact TrackerExact ServedRowHasRequests TimingRespected
PROPERTIES InOrder Drains
