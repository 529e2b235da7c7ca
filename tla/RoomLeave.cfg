SPECIFICATION FairHistorySpec
CONSTANTS
  Players = {p1, p2}
  Names = {n1}
  RoomIds = {r1, r2}
  GameKeys = {g1, g2}
  MayDisconnect = {p1}
  MaxRoomUser = 2
  MaxInFlight = 2
  Protocols <- RoomTurns
  Null = Null
  Absent = Absent
PROPERTY LeaveServed
CHECK_DEADLOCK FALSE
