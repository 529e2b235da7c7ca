CONSTANTS
  p1 = p1  p2 = p2  k1 = k1  k2 = k2  k3 = k3  k4 = k4  m1 = m1  m2 = m2
  handlers = handlers  heartbeat = heartbeat  noOne = noOne
  Players <- MCPlayers
  Packets <- MCThreePackets
  Messages <- MCOneMessage
  Producers <- MCOneProducer
  SenderCount = 2
  MAX_PACKET_COUNT = 3
  Growth = 1
  MayBeLeftOut <- MCNobody
  MayDisconnect <- MCOnePlayer
  MaxPackages = 2
  MaxPending = 2
  None = noOne
SPECIFICATION FairSpec
PROPERTIES EventuallySent EventuallyReturned
