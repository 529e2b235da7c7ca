SPECIFICATION HistorySpec
CONSTANTS
  Players = {p1, p2}
  Names = {n1, n2}
  RoomIds = {r1, r2, r3}
  GameKeys = {g1, g2}
  MayDisconnect = {p1, p2}
  MaxRoomUser = 2
  MaxInFlight = 2
  Protocols <- EveryEffect
  Null = Null
  Absent = Absent
SYMMETRY Symmetry
INVARIANTS
  TypeOK OneSeat Located RegistryAgrees GamesWellFormed GameRegistryAgrees
  ClientsInStep StrandedExplained
PROPERTIES ImplementsSeating NullExplained
CHECK_DEADLOCK FALSE
