SPECIFICATION Spec
CONSTANTS
  Node <- MCNode
  NumMeters = 5
  NumGroups = 3
  Log2N = 1
  FailuresTolerated = 1
  ProxiesOf <- MCProxiesOf5
  Route <- MCRelayRoute5
  MaySkip = {}
  MayCrash = {}
  Pinging = {}
  LastQuery = 0
  MaxTimeouts = 0
  MaxStrayTimers = 0
INVARIANTS
  RelaysSurvive
CHECK_DEADLOCK FALSE
