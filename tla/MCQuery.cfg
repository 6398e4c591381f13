SPECIFICATION FairSpec
CONSTANTS
  Node <- MCNode
  NumMeters = 5
  NumGroups = 3
  Log2N = 1
  FailuresTolerated = 1
  ProxiesOf <- MCProxiesOf5
  Route <- MCRoute5
  MaySkip = {}
  MayCrash = {}
  Pinging = {}
  LastQuery = 0
  MaxTimeouts = 0
  MaxStrayTimers = 0
INVARIANTS
  NoMessageIsLate
  ShuffleDelivers
  ProxiesAgree
  ResultsAreComplete
PROPERTIES
  EveryGroupReports
CHECK_DEADLOCK FALSE
