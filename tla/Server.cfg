CONSTANTS
  nobody = nobody
  Accounts <- MCAccounts
  Ansi <- MCAnsi
  Senders <- MCSenders
  MaxStarts = 3
  MaxBatch = 2
  None = nobody
SPECIFICATION FairSpec
INVARIANTS TypeOK Durable DeletedAfterExit
PROPERTIES ShutdownEnds
CHECK_DEADLOCK FALSE
