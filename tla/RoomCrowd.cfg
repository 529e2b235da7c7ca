SPECIFICATION Spec
CONSTANTS
  Players = {p1, p2, p3}
  Names = {n1, n2}
  RoomIds = {r1, r2, r3}
  GameKeys = {g1}
  MayDisconnect = {p1, p2, p3}
  MaxRoomUser = 2
  MaxInFlight = 2
  Protocols <- RoomTurns
  Null = Null
  Absent = Absent
SYMMETRY Symmetry
INVARIANTS
  RoomsWellFormed LeaderIsFront UniqueNames
CHECK_DEADLOCK FALSE
