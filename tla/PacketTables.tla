----------------------------- MODULE PacketTables -----------------------------
(***************************************************************************)
(* The classes of the *PacketData files.  CS_ is CLIENTtoSERVER_, SC_      *)
(* SERVERtoCLIENT_ and SH_ SERVERtoHOST_.                                  *)
(*                                                                         *)
(* Members: what a class declares, in order, each with its type.  It is    *)
(* all that the other side, a client that is not in this repository, has   *)
(* to go by; a list has as many elements as the INT before it says.        *)
(* Order: what its Deserialize reads or its Serialize writes.              *)
(***************************************************************************)
EXTENDS Sequences

\* Members of type wstring, INT, Vector3 and BOOL, and vectors of them.
Member(n, type) == [name |-> n, type |-> type, shape |-> "one"]
Text(n) == Member(n, "text")
INT(n) == Member(n, "int")
Vector3(n) == Member(n, "Vector3")
BOOL(n) == Member(n, "BOOL")
ListOf(n, type) == [name |-> n, type |-> type, shape |-> "list"]
Texts(names) == [i \in DOMAIN names |-> Text(names[i])]

-----------------------------------------------------------------------------
(* LoginPacketData.                                                        *)

LoginMembers == [
  CS_RegisterUser |-> Texts(<<"id", "password">>),
  SC_RegisterUser |-> <<>>,
  CS_Login |-> Texts(<<"id", "password">>),
  SC_Login |-> Texts(<<"playerKey", "playerID">>)]

LoginOrder == [
  CS_RegisterUser |-> <<"id", "password">>,
  SC_RegisterUser |-> <<>>,
  CS_Login |-> <<"id", "password">>,
  SC_Login |-> <<"playerKey", "playerID">>]

-----------------------------------------------------------------------------
(* LobbyPacketData.                                                        *)

\* What a client is shown of the rooms and of the lobby.
LobbyTable ==
  <<INT("roomCount"), ListOf("roomIds", "text"), ListOf("roomNames", "text"),
    ListOf("joinedRoomPlayerCount", "int"), ListOf("isStart", "BOOL"),
    INT("playerCount"), ListOf("playerNames", "text")>>

LobbyMembers == [
  CS_EnterLobby |-> Texts(<<"playerKey">>),
  SC_EnterLobby |-> LobbyTable,
  CS_LeaveLobby |-> Texts(<<"playerKey", "gameKey">>),
  SC_LeaveLobby |-> <<>>,
  SC_EnterLobbyOtherPlayer |-> Texts(<<"playerName">>),
  SC_LeaveLobbyOtherPlayer |-> Texts(<<"playerName">>),
  CS_LobbyChatting |-> Texts(<<"playerKey", "chatString">>),
  SC_LobbyChatting |-> Texts(<<"playerID", "chatString">>)]

\* The gameKey of CS_LeaveLobby is declared and not read.
LobbyOrder == [
  CS_EnterLobby |-> <<"playerKey">>,
  SC_EnterLobby |-> <<"roomCount", "roomIds", "roomNames", "joinedRoomPlayerCount",
                      "isStart", "playerCount", "playerNames">>,
  CS_LeaveLobby |-> <<"playerKey">>,
  SC_LeaveLobby |-> <<>>,
  SC_EnterLobbyOtherPlayer |-> <<"playerName">>,
  SC_LeaveLobbyOtherPlayer |-> <<"playerName">>,
  CS_LobbyChatting |-> <<"playerKey", "chatString">>,
  SC_LobbyChatting |-> <<"playerID", "chatString">>]

-----------------------------------------------------------------------------
(* RoomPacketData.                                                         *)

\* Create Room to Join Room.
RoomMembers == [
  CS_CreateRoom |-> Texts(<<"playerKey", "roomName">>),
  SC_CreateRoom |-> Texts(<<"roomName", "roomID">>),
  SC_CreateRoomOtherPlayer |-> Texts(<<"roomName", "roomID", "playerID">>),
  CS_LeaveRoom |-> Texts(<<"playerKey", "roomID">>),
  SC_LeaveRoom |-> LobbyTable,
  SC_LeaveRoomOtherPlayer |-> <<Text("playerID"), Text("roomName"), Text("roomID"),
                               INT("joinedRoomPlayerCount")>>,
  CS_JoinRoom |-> Texts(<<"playerKey", "roomID">>),
  SC_JoinRoom |-> <<Text("roomID"), Text("roomName"), INT("joinedPlayerCount"),
                    ListOf("joinedPlayers", "text"),
                    ListOf("joinedPlayerReadyState", "BOOL"),
                    ListOf("isLeaders", "BOOL")>>]

\* Join Room Other Player to Request Room Start.
MemberMembers == [
  SC_JoinRoomOtherPlayer |-> Texts(<<"playerID", "roomID">>),
  SC_ChangeRoomLeader |-> Texts(<<"playerKey", "playerID">>),
  SC_RemoveRoom |-> Texts(<<"roomID">>),
  CS_RoomChatting |-> Texts(<<"playerKey", "roomKey", "chatString">>),
  SC_RoomChatting |-> Texts(<<"playerID", "chatString">>),
  CS_Ready |-> Texts(<<"playerKey", "roomKey">>),
  SC_Ready |-> <<BOOL("ready")>>,
  SC_ReadyOtherPlayer |-> <<Text("playerID"), BOOL("ready")>>,
  CS_RoomStart |-> Texts(<<"playerKey", "roomKey">>),
  SC_RoomStart |-> Texts(<<"gameKey">>)]

RoomOrder == [
  CS_CreateRoom |-> <<"playerKey", "roomName">>,
  SC_CreateRoom |-> <<"roomName", "roomID">>,
  SC_CreateRoomOtherPlayer |-> <<"roomName", "roomID", "playerID">>,
  CS_LeaveRoom |-> <<"playerKey", "roomID">>,
  SC_LeaveRoom |-> <<"roomCount", "roomIds", "roomNames", "joinedRoomPlayerCount",
                     "isStart", "playerCount", "playerNames">>,
  SC_LeaveRoomOtherPlayer |-> <<"playerID", "roomName", "roomID", "joinedRoomPlayerCount">>,
  CS_JoinRoom |-> <<"playerKey", "roomID">>,
  SC_JoinRoom |-> <<"roomID", "roomName", "joinedPlayerCount", "joinedPlayers",
                    "joinedPlayerReadyState", "isLeaders">>]

MemberOrder == [
  SC_JoinRoomOtherPlayer |-> <<"playerID", "roomID">>,
  SC_ChangeRoomLeader |-> <<"playerKey", "playerID">>,
  SC_RemoveRoom |-> <<"roomID">>,
  CS_RoomChatting |-> <<"playerKey", "roomKey", "chatString">>,
  SC_RoomChatting |-> <<"playerID", "chatString">>,
  CS_Ready |-> <<"playerKey", "roomKey">>,
  SC_Ready |-> <<"ready">>,
  SC_ReadyOtherPlayer |-> <<"playerID", "ready">>,
  CS_RoomStart |-> <<"playerKey", "roomKey">>,
  SC_RoomStart |-> <<"gameKey">>]

-----------------------------------------------------------------------------
(* GamePacketData.                                                         *)

\* Heart Beat to Other Game End.
GameMembers == [
  CS_HeartBeat |-> <<>>,
  SC_HeartBeat |-> <<>>,
  CS_GameStart |-> Texts(<<"playerKey", "gameKey">>),
  SC_GameStart |-> <<>>,
  CS_GameEnd |-> Texts(<<"playerKey", "gameKey">>),
  SC_GameEnd |-> <<Text("roomName"), Text("roomKey"), INT("joinedPlayerCount"),
                   ListOf("joinedPlayers", "text"),
                   ListOf("joinedPlayerReadyState", "BOOL"),
                   ListOf("isLeaders", "BOOL")>>,
  SC_OtherGameStart |-> Texts(<<"roomName", "roomKey">>),
  SC_OtherGameEnd |-> Texts(<<"roomName", "roomKey">>)]

GamePlayerMembers == [
  CS_GamePlayerMove |-> <<Text("playerKey"), Text("gameKey"), Vector3("playerPosition"),
                          Vector3("playerRotation")>>,
  SH_GamePlayerMove |-> <<Text("playerKey"), Vector3("playerPosition"),
                          Vector3("playerRotation")>>,
  SC_GamePlayerMove |-> <<Text("playerID"), Vector3("playerPosition"),
                          Vector3("playterRotation")>>,
  CS_GamePlayerAttack |-> Texts(<<"playerKey", "gameKey">>),
  SH_GamePlayerAttack |-> Texts(<<"playerKey">>),
  SC_GamePlayerAttack |-> Texts(<<"playerID">>),
  CS_GamePlayerDamaged |-> <<Text("playerKey"), Text("gameKey"), Text("playerID"),
                             INT("hp")>>,
  SC_GamePlayerDamaged |-> <<Text("playerID"), INT("hp")>>,
  CS_GamePlayerDie |-> Texts(<<"playerKey", "gameKey", "playerID">>),
  SC_GamePlayerDie |-> Texts(<<"playerID">>)]

EnemyRequest == Texts(<<"playerKey", "gameKey", "enemyID">>)

EnemyMembers == [
  CS_EnemySpawn |-> Append(EnemyRequest, Vector3("position")),
  SC_EnemySpawn |-> <<Text("enemyID"), Vector3("position")>>,
  CS_EnemyMove |-> Append(Append(EnemyRequest, Vector3("position")), Vector3("rotation")),
  SC_EnemyMove |-> <<Text("enemyID"), Vector3("position"), Vector3("rotation")>>,
  CS_EnemyDamaged |-> EnemyRequest,
  SC_EnemyDamaged |-> Texts(<<"enemyID">>),
  CS_EnemyAttack |-> EnemyRequest,
  SC_EnemyAttack |-> Texts(<<"enemyID">>),
  CS_EnemyDie |-> EnemyRequest,
  SC_EnemyDie |-> Texts(<<"enemyID">>)]

PotionMembers == [
  CS_PotionSpawn |-> <<Text("playerKey"), Text("gameKey"), Text("potionID"),
                      Vector3("position")>>,
  SC_PotionSpawn |-> <<Text("potionID"), Vector3("position")>>,
  CS_PotionPickup |-> <<Text("playerKey"), Text("gameKey"), Text("playerID"),
                       Text("potionID"), INT("hp")>>,
  SC_PotionPickup |-> <<Text("playerID"), Text("potionID"), INT("hp")>>]

GameOrder == [
  CS_HeartBeat |-> <<>>,
  SC_HeartBeat |-> <<>>,
  CS_GameStart |-> <<"playerKey", "gameKey">>,
  SC_GameStart |-> <<>>,
  CS_GameEnd |-> <<"playerKey", "gameKey">>,
  SC_GameEnd |-> <<"roomName", "roomKey", "joinedPlayerCount", "joinedPlayers",
                   "joinedPlayerReadyState", "isLeaders">>,
  SC_OtherGameStart |-> <<"roomName", "roomKey">>,
  SC_OtherGameEnd |-> <<"roomName", "roomKey">>]

\* The coordinates of a Vector3 are read and written in the order x, y, z.
GamePlayerOrder == [
  CS_GamePlayerMove |-> <<"playerKey", "gameKey", "playerPosition", "playerRotation">>,
  SH_GamePlayerMove |-> <<"playerKey", "playerPosition", "playerRotation">>,
  SC_GamePlayerMove |-> <<"playerID", "playerPosition", "playterRotation">>,
  CS_GamePlayerAttack |-> <<"playerKey", "gameKey">>,
  SH_GamePlayerAttack |-> <<"playerKey">>,
  SC_GamePlayerAttack |-> <<"playerID">>,
  CS_GamePlayerDamaged |-> <<"playerKey", "gameKey", "playerID", "hp">>,
  SC_GamePlayerDamaged |-> <<"playerID", "hp">>,
  CS_GamePlayerDie |-> <<"playerKey", "gameKey", "playerID">>,
  SC_GamePlayerDie |-> <<"playerID">>]

EnemyOrder == [
  CS_EnemySpawn |-> <<"playerKey", "gameKey", "enemyID", "position">>,
  SC_EnemySpawn |-> <<"enemyID", "position">>,
  CS_EnemyMove |-> <<"playerKey", "gameKey", "enemyID", "position", "rotation">>,
  SC_EnemyMove |-> <<"enemyID", "position", "rotation">>,
  CS_EnemyDamaged |-> <<"playerKey", "gameKey", "enemyID">>,
  SC_EnemyDamaged |-> <<"enemyID">>,
  CS_EnemyAttack |-> <<"playerKey", "gameKey", "enemyID">>,
  SC_EnemyAttack |-> <<"enemyID">>,
  CS_EnemyDie |-> <<"playerKey", "gameKey", "enemyID">>,
  SC_EnemyDie |-> <<"enemyID">>]

PotionOrder == [
  CS_PotionSpawn |-> <<"playerKey", "gameKey", "potionID", "position">>,
  SC_PotionSpawn |-> <<"potionID", "position">>,
  CS_PotionPickup |-> <<"playerKey", "gameKey", "playerID", "potionID", "hp">>,
  SC_PotionPickup |-> <<"playerID", "potionID", "hp">>]

-----------------------------------------------------------------------------
(* All the classes.                                                        *)

Classes == DOMAIN LoginMembers \cup DOMAIN LobbyMembers \cup DOMAIN RoomMembers
           \cup DOMAIN MemberMembers \cup DOMAIN GameMembers \cup DOMAIN GamePlayerMembers
           \cup DOMAIN EnemyMembers \cup DOMAIN PotionMembers

Members == [m \in Classes |->
  CASE m \in DOMAIN LoginMembers -> LoginMembers[m]
    [] m \in DOMAIN LobbyMembers -> LobbyMembers[m]
    [] m \in DOMAIN RoomMembers -> RoomMembers[m]
    [] m \in DOMAIN MemberMembers -> MemberMembers[m]
    [] m \in DOMAIN GameMembers -> GameMembers[m]
    [] m \in DOMAIN GamePlayerMembers -> GamePlayerMembers[m]
    [] m \in DOMAIN EnemyMembers -> EnemyMembers[m]
    [] m \in DOMAIN PotionMembers -> PotionMembers[m]]

Order == [m \in Classes |->
  CASE m \in DOMAIN LoginOrder -> LoginOrder[m]
    [] m \in DOMAIN LobbyOrder -> LobbyOrder[m]
    [] m \in DOMAIN RoomOrder -> RoomOrder[m]
    [] m \in DOMAIN MemberOrder -> MemberOrder[m]
    [] m \in DOMAIN GameOrder -> GameOrder[m]
    [] m \in DOMAIN GamePlayerOrder -> GamePlayerOrder[m]
    [] m \in DOMAIN EnemyOrder -> EnemyOrder[m]
    [] m \in DOMAIN PotionOrder -> PotionOrder[m]]
=============================================================================
