SPECIFICATION Spec
CONSTANTS
  c1 = c1
  c2 = c2

  Clients <- TwoClients
  MaxFds = 4
  PipeCapacity = 1
  MaxInbox = 1
  SendBuffer = 1
INVARIANTS TypeOK EventsFitSockets BroadcastReaches
PROPERTY LastWordsRead

