SPECIFICATION Spec
CONSTANTS
  Players = {p1, p2}
  Names = {n1}
  RoomIds = {r1}
  GameKeys = {g1}
  MayDisconnect = {}
  MaxRoomUser = 2
  MaxInFlight = 1
  Protocols <- RoomLife
  Null = Null
  Absent = Absent
PROPERTY LeaveObeyed
CHECK_DEADLOCK FALSE
