--------------------------- MODULE MCRoomProtocol ---------------------------
(* RoomProtocol for TLC: the sets of clients, rooms and games are model     *)
(* values given in the configurations; the kinds of request are chosen      *)
(* here, one set for each question.                                         *)
EXTENDS RoomProtocol

\* Clients that open, fill, start and leave rooms and end games
RoomLife == LobbyKinds \cup RoomKinds \cup {"GAME_START", "GAME_END"}

\* What members of a room come and go by, and what may strand one of them
RoomTurns == {"CREATE_ROOM", "JOIN_ROOM", "READY", "ROOM_START", "LEAVE_ROOM",
              "GAME_END"}

\* One kind for each way a handler touches the state
EveryEffect == {"CREATE_ROOM", "JOIN_ROOM", "READY", "ROOM_START", "LEAVE_ROOM",
                "GAME_START", "GAME_END", "GAME_PLAYER_MOVE", "HOST_PLAYER_MOVE",
                "ENEMY_MOVE"}

EveryKind == LobbyKinds \cup RoomKinds \cup GameKinds \cup HostKinds

\* Members, rooms, names and games are interchangeable.
Symmetry == Permutations(Players) \cup Permutations(RoomIds)
              \cup Permutations(Names) \cup Permutations(GameKeys)
=============================================================================
