SPECIFICATION Spec
CONSTANTS
  class <- classes
  RSA_SIGNATURE_SIZE = 8
  Record <- MCRecord
  EncryptedKeySize = 3
  IVSize = 2
  BlockSize = 4
  N = 187
  E = 3
  D = 107
  Meter = 0
  Paths <- MCPaths
  OtherProxy = 4
  Records <- MCRecords
  Randoms <- MCRandoms
  Session = 200
  Background <- MCBackground
  Behind <- MCBehind
  LastQuery = 0
INVARIANT SignaturesVerify
CHECK_DEADLOCK FALSE
