SPECIFICATION Spec
CONSTANTS
  Bytes <- TwoBytes
  RxBufSize = 4
INVARIANTS TypeOK CountMatchesRing TakesRealByte
PROPERTY ReceivesInOrder
