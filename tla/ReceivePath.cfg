CONSTANTS
  p1 = p1  p2 = p2  w1 = w1  w2 = w2  noOne = noOne
  Players <- MCPlayers
  Workers <- MCWorkers
  PACKET_HEADER_LENGTH = 2
  MAX_BUFFER_LENGTH = 6
  Lengths <- MCLengths
  MaxSent = 3
  Window = 5
  MayDisconnect <- MCOnePlayer
  Quiet <- MCTheOther
  None = noOne
SPECIFICATION FairSpec
INVARIANTS TypeOK OneReader LeavesLessThanOne
PROPERTIES OverrunExplained ImplementsChannel EventuallyHandled
CHECK_DEADLOCK FALSE
