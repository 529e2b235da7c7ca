CONSTANTS
  p1 = p1  p2 = p2  k1 = k1  k2 = k2  k3 = k3  k4 = k4  m1 = m1  m2 = m2
  handlers = handlers  heartbeat = heartbeat  noOne = noOne
  Players <- MCPlayers
  Packets <- MCPackets
  Messages <- MCMessages
  Producers <- MCProducers
  SenderCount = 1
  MAX_PACKET_COUNT = 2
  Growth = 2
  MayBeLeftOut <- MCPlayers
  MayDisconnect <- MCOnePlayer
  MaxPackages = 1
  MaxPending = 2
  None = noOne
SPECIFICATION Spec
SYMMETRY Symmetry
INVARIANTS TypeOK OnePlace
PROPERTIES LostOnlyLeftOut ImplementsChannel
