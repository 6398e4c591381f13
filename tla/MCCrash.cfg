SPECIFICATION FairSpec
CONSTANTS
  Node <- MCNode
  NumMeters = 3
  NumGroups = 1
  Log2N = 0
  FailuresTolerated = 0
  ProxiesOf <- MCProxiesOf3
  Route <- MCRoute3
  MaySkip = {}
  MayCrash = {0, 1}
  Pinging = {}
  LastQuery = 0
  MaxTimeouts = 0
  MaxStrayTimers = 1
PROPERTIES
  OverlayTerminates
CHECK_DEADLOCK FALSE
