SPECIFICATION Spec
CONSTANTS
  Players = {p1, p2, p3}
  Names = {n1}
  RoomIds = {r1, r2}
  GameKeys = {g1, g2}
  MayDisconnect = {}
  MaxRoomUser = 3
  MaxInFlight = 1
  Protocols <- EveryKind
  Null = Null
  Absent = Absent
SYMMETRY Symmetry
PROPERTY LeaderHandover
CHECK_DEADLOCK FALSE
