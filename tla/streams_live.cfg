CONSTANTS
  h1 = h1
  h2 = h2
  s1 = s1
  s2 = s2
  Hosts <- OneHost
  StreamIds <- TwoStreams
  Zero = zero
  NoStream = nostream
  None = none
  Sim = sim
  Slots = 2
  LaunchBlocking = FALSE
  SimModes = {FALSE, TRUE}
  Destroyable = {s2}
  ExitAllowed = TRUE
  MaxOps = 2
SPECIFICATION FairSpec
CHECK_DEADLOCK FALSE
PROPERTIES EveryOpCompletes CallsReturn
