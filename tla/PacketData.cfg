CONSTANTS
  ann = ann  bob = bob  cat = cat  pk1 = pk1  noOne = noOne
  Players <- MCPlayers
  Packets <- MCPackets
  MaxRequests = 2
  MaxRows = 2
  TextLength = 5
  MAX_PACKET_DATA_LENGTH = 81
  None = noOne
SYMMETRY MCSymmetry
SPECIFICATION Spec
INVARIANTS TypeOK ReadAsMeant LobbyListed
