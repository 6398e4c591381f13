SPECIFICATION Spec
CONSTANTS
  Systems <- MCSystems
  PathSystems <- MCPathSystems
  Selections = {"lowest", "highest", "mixed"}
  MaxRound = 110
INVARIANTS
  PowersOfTwo
  PredecessorSendsToMe
  EveryNodeIsMet
  ProxyIsSomeoneElse
  ChildrenAndParentAgree
  OneTreePerGroup
  EveryPathIsFound
  PathsAreIndependent
  PathsFitIntoAPhase
CHECK_DEADLOCK FALSE
