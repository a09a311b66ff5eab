CONSTANTS
  h1 = h1
  h2 = h2
  s1 = s1
  s2 = s2
  Hosts <- TwoHosts
  StreamIds <- TwoStreams
  Zero = zero
  NoStream = nostream
  None = none
  Sim = sim
  Slots = 1
  LaunchBlocking = FALSE
  SimModes = {FALSE}
  Destroyable <- TwoStreams
  ExitAllowed = TRUE
  MaxOps = 2
SPECIFICATION Spec
SYMMETRY StreamSymmetry
CHECK_DEADLOCK FALSE
INVARIANT StreamsSound
PROPERTIES GpuQuiescent NullStreamSerial CallsWaitForOwnWork ImplementsOrder
