SPECIFICATION FairSpec
CONSTANTS
  Bytes <- TwoBytes
  TxBufSize = 4
  MaxRetry = 2
INVARIANTS TypeOK CountMatchesRing IdleIsReset
PROPERTIES TransmitsInOrder SendReturns Flushes
