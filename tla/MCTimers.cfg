SPECIFICATION FairSpec
CONSTANTS
  MaxTimers = 4
  Serial = TRUE
  Nobody = Nobody
INVARIANTS
  TypeOK
  CallbackThreadSurvives
PROPERTIES
  ImplementsTimerManager
  EveryArmedTimerEnds
  ShutdownCompletes
CHECK_DEADLOCK FALSE
