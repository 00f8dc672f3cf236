SPECIFICATION FairBackend
CONSTANTS
  c1 = c1
  Clients <- OneClient
  MaxFds = 7
  PipeCapacity = 2
  MaxInbox = 2
  SendBuffer = 1
  SleepCoversStart = TRUE
INVARIANT CallbackTargetLives
PROPERTIES StartReturns ShutdownCompletes DeathIsFinal HungUpIsClosed
