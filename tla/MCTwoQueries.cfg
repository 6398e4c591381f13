SPECIFICATION Spec
CONSTANTS
  Node <- MCNode
  NumMeters = 3
  NumGroups = 1
  Log2N = 0
  FailuresTolerated = 0
  ProxiesOf <- MCProxiesOf3
  Route <- MCRoute3
  MaySkip = {2}
  MayCrash = {}
  Pinging = {}
  LastQuery = 1
  MaxTimeouts = 0
  MaxStrayTimers = 0
CONSTRAINT
  EverybodyAlive
INVARIANTS
  OnlyGenuineContributions
PROPERTIES
  SignatureOnlyInSetup
CHECK_DEADLOCK FALSE
