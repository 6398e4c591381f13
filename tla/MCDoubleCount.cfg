SPECIFICATION Spec
CONSTANTS
  Node <- MCNode
  NumMeters = 3
  NumGroups = 1
  Log2N = 0
  FailuresTolerated = 0
  ProxiesOf <- MCProxiesOf3
  Route <- MCRoute3
  MaySkip = {}
  MayCrash = {1}
  Pinging = {0}
  LastQuery = 0
  MaxTimeouts = 0
  MaxStrayTimers = 0
INVARIANTS
  NothingCountedTwice
CHECK_DEADLOCK FALSE
