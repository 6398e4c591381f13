SPECIFICATION Spec
CONSTANTS
  Node <- Nodes
  UTILITY_NODE_ID <- U
  Traffic <- Crossing
  MaxConnections = 3
  MaxBreaks = 1
  MayStop = {1}
  NoSocket = NoSocket
  Misread = Misread
INVARIANTS
  TypeOK
  OnlyHandlesWhatWasSent
  FirstSendOrNothing
PROPERTIES
  FirstFrameIsHandled
CHECK_DEADLOCK FALSE
