---------------------------- MODULE RoomProtocol ----------------------------
(***************************************************************************)
(* Lobby, rooms and games of the server: the handlers of RoomProtocol.cpp  *)
(* and GameProtocol.cpp, the managers they change (PlayerManager,          *)
(* RoomManager, GameManager, Lobby), and the connection losses that the    *)
(* IOCP worker threads handle in between.                                  *)
(*                                                                         *)
(* ProcessPacketThread runs every handler, one at a time; IocpWorkerThread *)
(* removes a lost player without taking a lock.  A handler first asks      *)
(* PlayerManager::FindPlayer and then works on the Player it was given, so *)
(* Dispatch (the look-up) and the handler's body are two steps.  After the *)
(* look-up a body touches state shared with the other threads once, which  *)
(* makes it one step: the Lobby list, or the second look-up of the host's  *)
(* relays.                                                                 *)
(*                                                                         *)
(* A handler's replies and broadcasts are only queued.  A sender thread    *)
(* passes them on later (SendPath: each client gets its own once and in    *)
(* order); until then the client shows, and asks from, what it was told    *)
(* before (outdated, View).                                                *)
(*                                                                         *)
(* A player has logged in and stands in the lobby at Init.  The RoomPlayer *)
(* object of player p in room r is <<p, r>>, the GamePlayer of p in game g *)
(* is <<p, g>>; ids of rooms and games are fresh when they are created.    *)
(***************************************************************************)
EXTENDS Integers, SequencesExt

CONSTANTS
  Players,      \* logged-in Player objects, one for each connection
  RoomIds,      \* UUIDs given to rooms
  Names,        \* room names clients choose
  GameKeys,     \* UUIDs given to games
  Protocols,    \* kinds of request the clients of this instance send
  MayDisconnect,\* players whose connection may be lost
  MaxRoomUser,  \* MAX_ROOM_USER, 4 in Library.h
  MaxInFlight,  \* bound: requests sent and not yet handled
  Null,         \* a NULL pointer stored in a map, or "none"
  Absent        \* a key that a map does not hold

LobbyKinds == {"CREATE_ROOM", "JOIN_ROOM"}
RoomKinds == {"READY", "ROOM_START", "LEAVE_ROOM", "ROOM_CHATTING"}
RelayKinds == {"GAME_PLAYER_DAMAGED", "GAME_PLAYER_DIE", "ENEMY_SPAWN",
               "ENEMY_ATTACK", "ENEMY_DIE", "POTION_SPAWN", "POTION_PICKUP"}
GameKinds == RelayKinds \cup {"GAME_START", "GAME_END", "GAME_PLAYER_MOVE",
               "GAME_PLAYER_ATTACK", "ENEMY_MOVE", "ENEMY_DAMAGED"}
HostKinds == {"HOST_PLAYER_MOVE", "HOST_PLAYER_ATTACK"}

ASSUME ConstantsAssumption ==
  /\ Protocols \subseteq LobbyKinds \cup RoomKinds \cup GameKinds \cup HostKinds
  /\ MayDisconnect \subseteq Players
  /\ MaxRoomUser \in Nat \ {0}
  /\ MaxInFlight \in Nat
  /\ Null \notin Players \cup RoomIds \cup Names \cup GameKeys
  /\ Absent \notin Players \cup RoomIds \cup Names \cup GameKeys \cup {Null}

VARIABLES
  players,           \* keys of PlayerManager::players
  lobby,             \* how often Lobby::players lists each player
  rooms,             \* RoomManager::rooms
  roomName, joinedPlayer, joinedPlayerCount, roomLeader, isStartGame,
  readyState,        \* RoomPlayer::readyState, as the set of ready players
  isLeader,          \* RoomPlayer::isLeader, likewise
  joinRoomMap,       \* RoomPlayers that RoomManager::joinRoomMap maps to a room
  roomPlayerMap,     \* PlayerManager::roomPlayerMap: the room of the RoomPlayer
  games,             \* GameManager::games
  returnRoom, gamePlayers, gameLeader,
  loading,           \* GamePlayer::loading, as a set of players
  gamePlayerMap,     \* PlayerManager::gamePlayerMap: the game of the GamePlayer
  screen, gameKey,   \* what the last packet queued for each client tells it
  outdated,          \* what its client shows until then, one entry for each
                     \* packet on its way that will replace it
  request,           \* each client's request in flight
  current,           \* the request whose player was found and whose body is due
  leaving,           \* removed from PlayerManager, not yet from the Lobby
  crashed            \* the server dereferenced a NULL pointer

roomVars == <<rooms, roomName, joinedPlayer, joinedPlayerCount, roomLeader,
              isStartGame, readyState, isLeader>>
gameVars == <<games, returnRoom, gamePlayers, gameLeader, loading>>
mapVars == <<joinRoomMap, roomPlayerMap, gamePlayerMap>>
clientVars == <<screen, gameKey>>
connVars == <<players, request, leaving>>
vars == <<roomVars, gameVars, mapVars, clientVars, outdated, connVars, lobby,
          current, crashed>>

\* A packet as the handlers read it.  The packet of the host's relays carries
\* the key of the player it is about (target) in place of the sender's own.
Request ==
       [kind : {"CREATE_ROOM"}, name : Names]
  \cup [kind : {"JOIN_ROOM"}, roomID : RoomIds]
  \cup [kind : RoomKinds]
  \cup [kind : GameKinds, gameKey : GameKeys]
  \cup [kind : HostKinds, gameKey : GameKeys, target : Players]

Init ==
  /\ players = Players
  /\ lobby = [p \in Players |-> 1]
  /\ rooms = {}
  /\ roomName = [r \in RoomIds |-> Null]
  /\ joinedPlayer = [r \in RoomIds |-> <<>>]
  /\ joinedPlayerCount = [r \in RoomIds |-> 0]
  /\ roomLeader = [r \in RoomIds |-> Null]
  /\ isStartGame = [r \in RoomIds |-> FALSE]
  /\ readyState = [r \in RoomIds |-> {}]
  /\ isLeader = [r \in RoomIds |-> {}]
  /\ joinRoomMap = {}
  /\ roomPlayerMap = [p \in Players |-> Absent]
  /\ games = {}
  /\ returnRoom = [g \in GameKeys |-> Null]
  /\ gamePlayers = [g \in GameKeys |-> {}]
  /\ gameLeader = [g \in GameKeys |-> Null]
  /\ loading = [g \in GameKeys |-> {}]
  /\ gamePlayerMap = [p \in Players |-> Absent]
  /\ screen = [p \in Players |-> "LOBBY"]
  /\ gameKey = [p \in Players |-> Null]
  /\ outdated = [p \in Players |-> <<>>]
  /\ request = [p \in Players |-> Null]
  /\ current = Null
  /\ leaving = {}
  /\ crashed = FALSE

-----------------------------------------------------------------------------
(* The containers.                                                         *)

Members(r) == ToSet(joinedPlayer[r])

\* std::map::insert keeps the value a key already has.
Inserted(map, p, v) == IF map[p] = Absent THEN [map EXCEPT ![p] = v] ELSE map

\* std::map::operator[] adds a key it does not find, with a NULL value.
Touched(map, p) == Inserted(map, p, Null)

\* The erasing loop of Room::Leave, on a list that holds p once.
Erased(s, p) == RemoveAt(s, CHOOSE i \in DOMAIN s : s[i] = p)

\* Wrong variants: a lobby that forgets to erase, and one that only counts down
ForgottenRemoval(p) == {lobby}
CountedRemoval(p) == {[lobby EXCEPT ![p] = @ - 1]}

\* The erasing loop of Lobby::RemovePlayer steps over the entry after the one it
\* erases: of n entries it may leave any number up to half of them.
LobbyRemovals(p) == {[lobby EXCEPT ![p] = k] : k \in 0..(lobby[p] \div 2)}

\* GetJoinRoom(GetRoomPlayer(p)), or Null.
JoinRoomOf(p) ==
  LET r == roomPlayerMap[p]
  IN IF r \in RoomIds /\ <<p, r>> \in joinRoomMap THEN r ELSE Null

\* Wrong variant: rooms that play are not looked at
ExistOpenRoomName(n) == \E r \in rooms : ~isStartGame[r] /\ roomName[r] = n

ExistRoomName(n) == \E r \in rooms : roomName[r] = n

\* Wrong variant: off by one
HasSpaceOneMore(r) == joinedPlayerCount[r] <= MaxRoomUser

HasSpace(r) == joinedPlayerCount[r] < MaxRoomUser

IsAllPlayersReady(r) == Members(r) \ {roomLeader[r]} \subseteq readyState[r]

\* What the last packet queued for p tells, and what p's client shows now.
Told(p) == [screen |-> screen[p], gameKey |-> gameKey[p]]
View(p) == IF outdated[p] = <<>> THEN Told(p) ELSE Head(outdated[p])

\* UUIDs are never given twice: an id that a listed object, a request or a client
\* still mentions is not fresh.
Mentions(m, id) ==
  /\ m # Null
  /\ \/ "roomID" \in DOMAIN m /\ m.roomID = id
     \/ "gameKey" \in DOMAIN m /\ m.gameKey = id
Fresh(id) == \A p \in Players :
  ~Mentions(request[p], id) /\ \A v \in ToSet(outdated[p]) : ~Mentions(v, id)
FreshRoomIds == {r \in RoomIds \ rooms : Fresh(r)}
FreshGameKeys == {g \in GameKeys \ games : Fresh(g)}

-----------------------------------------------------------------------------
(* RoomProtocol.cpp                                                        *)

\* Room::Room and RoomManager::AddRoom
OpenRoom(p, r, n) ==
  /\ rooms' = rooms \cup {r}
  /\ roomName' = [roomName EXCEPT ![r] = n]
  /\ joinedPlayer' = [joinedPlayer EXCEPT ![r] = <<p>>]
  /\ joinedPlayerCount' = [joinedPlayerCount EXCEPT ![r] = 1]
  /\ roomLeader' = [roomLeader EXCEPT ![r] = p]
  /\ isLeader' = [isLeader EXCEPT ![r] = {p}]
  /\ roomPlayerMap' = Inserted(roomPlayerMap, p, r)
  /\ joinRoomMap' = joinRoomMap \cup {<<p, r>>}
  /\ UNCHANGED <<isStartGame, readyState>>

CREATE_ROOM(p, m) ==
  /\ m.kind = "CREATE_ROOM"
  /\ \/ /\ ExistRoomName(m.name)
        /\ UNCHANGED <<roomVars, roomPlayerMap, joinRoomMap, lobby, screen>>
     \/ /\ ~ExistRoomName(m.name)
        /\ \E r \in FreshRoomIds : OpenRoom(p, r, m.name)
        /\ lobby' \in LobbyRemovals(p)
        /\ screen' = [screen EXCEPT ![p] = "ROOM"]
  /\ UNCHANGED <<gameVars, gamePlayerMap, gameKey, crashed>>

\* Room::Join
Join(p, r) ==
  /\ joinedPlayer' = [joinedPlayer EXCEPT ![r] = Append(@, p)]
  /\ joinedPlayerCount' = [joinedPlayerCount EXCEPT ![r] = @ + 1]
  /\ roomPlayerMap' = Inserted(roomPlayerMap, p, r)
  /\ joinRoomMap' = joinRoomMap \cup {<<p, r>>}
  /\ UNCHANGED <<rooms, roomName, roomLeader, isStartGame, readyState, isLeader>>

\* Nothing is answered when the room is gone or full.
JOIN_ROOM(p, m) ==
  /\ m.kind = "JOIN_ROOM"
  /\ \/ /\ m.roomID \notin rooms \/ ~HasSpace(m.roomID)
        /\ UNCHANGED <<roomVars, roomPlayerMap, joinRoomMap, lobby, screen>>
     \/ /\ m.roomID \in rooms /\ HasSpace(m.roomID)
        /\ Join(p, m.roomID)
        /\ lobby' \in LobbyRemovals(p)
        /\ screen' = [screen EXCEPT ![p] = "ROOM"]
  /\ UNCHANGED <<gameVars, gamePlayerMap, gameKey, crashed>>

Flipped(S, p) == IF p \in S THEN S \ {p} ELSE S \cup {p}

ROOM_READY(p, m) ==
  /\ m.kind = "READY"
  /\ roomPlayerMap' = Touched(roomPlayerMap, p)
  /\ LET r == JoinRoomOf(p) IN
     \/ r = Null /\ UNCHANGED readyState
     \/ r # Null /\ readyState' = [readyState EXCEPT ![r] = Flipped(@, p)]
  /\ UNCHANGED <<rooms, roomName, joinedPlayer, joinedPlayerCount, roomLeader,
                 isStartGame, isLeader, gameVars, joinRoomMap, gamePlayerMap,
                 lobby, clientVars, crashed>>

ROOM_CHATTING(p, m) ==
  /\ m.kind = "ROOM_CHATTING"
  /\ roomPlayerMap' = Touched(roomPlayerMap, p)
  /\ UNCHANGED <<roomVars, gameVars, joinRoomMap, gamePlayerMap, lobby,
                 clientVars, crashed>>

\* The member whose RoomPlayer has isLeader set, the last one if there are more.
FlaggedLeader(r) ==
  LET flagged == {i \in DOMAIN joinedPlayer[r] : joinedPlayer[r][i] \in isLeader[r]}
  IN IF flagged = {} THEN Null
     ELSE joinedPlayer[r][CHOOSE i \in flagged : \A j \in flagged : j <= i]

\* Every member trades its RoomPlayer registration for a GamePlayer one.
BeginGame(r, g) ==
  /\ games' = games \cup {g}
  /\ returnRoom' = [returnRoom EXCEPT ![g] = r]
  /\ gamePlayers' = [gamePlayers EXCEPT ![g] = Members(r)]
  /\ gameLeader' = [gameLeader EXCEPT ![g] = FlaggedLeader(r)]
  /\ loading' = [loading EXCEPT ![g] = {}]
  /\ gamePlayerMap' = [q \in Players |-> IF q \in Members(r)
                         THEN Inserted(gamePlayerMap, q, g)[q] ELSE gamePlayerMap[q]]
  /\ roomPlayerMap' = [q \in Players |-> IF q \in Members(r)
                         THEN Absent ELSE roomPlayerMap[q]]
  /\ isStartGame' = [isStartGame EXCEPT ![r] = TRUE]
  /\ screen' = [q \in Players |-> IF q \in Members(r) THEN "GAME" ELSE screen[q]]
  /\ gameKey' = [q \in Players |-> IF q \in Members(r) THEN g ELSE gameKey[q]]

\* The one who asks leads the room and all the others are ready.
MayStart(p, r) == r # Null /\ roomLeader[r] = p /\ IsAllPlayersReady(r)

ROOM_START(p, m) ==
  /\ m.kind = "ROOM_START"
  /\ LET r == JoinRoomOf(p) IN
     \/ /\ ~MayStart(p, r)
        /\ roomPlayerMap' = Touched(roomPlayerMap, p)
        /\ UNCHANGED <<gameVars, gamePlayerMap, isStartGame, clientVars>>
     \/ /\ MayStart(p, r)
        /\ \E g \in FreshGameKeys : BeginGame(r, g)
  /\ UNCHANGED <<rooms, roomName, joinedPlayer, joinedPlayerCount, roomLeader,
                 readyState, isLeader, joinRoomMap, lobby, crashed>>

\* RoomManager::RemoveRoom and Room::Release, after the last member's Room::Leave
CloseRoom(p, r) ==
  /\ rooms' = rooms \ {r}
  /\ roomName' = [roomName EXCEPT ![r] = Null]
  /\ joinedPlayer' = [joinedPlayer EXCEPT ![r] = <<>>]
  /\ joinedPlayerCount' = [joinedPlayerCount EXCEPT ![r] = @ - 1]
  /\ roomLeader' = [roomLeader EXCEPT ![r] = Null]
  /\ isStartGame' = [isStartGame EXCEPT ![r] = FALSE]

\* Wrong variants: the line stays as it is, and it turns the other way
NotRotated(s) == s
RotatedBack(s) == <<Last(s)>> \o Front(s)

\* Room::ChangeLeader: the front member goes to the back and the next one leads.
Rotated(s) == Append(Tail(s), Head(s))

LeaveAsLeader(p, r) ==
  LET line == Rotated(joinedPlayer[r]) IN
  /\ roomLeader' = [roomLeader EXCEPT ![r] = line[1]]
  /\ joinedPlayer' = [joinedPlayer EXCEPT ![r] = Erased(line, p)]
  /\ isLeader' = [isLeader EXCEPT ![r] = (@ \cup {line[1]}) \ {p}]
  /\ readyState' = [readyState EXCEPT ![r] = @ \ {p, line[1]}]

LeaveAsMember(p, r) ==
  /\ joinedPlayer' = [joinedPlayer EXCEPT ![r] = Erased(@, p)]
  /\ isLeader' = [isLeader EXCEPT ![r] = @ \ {p}]
  /\ readyState' = [readyState EXCEPT ![r] = @ \ {p}]
  /\ UNCHANGED roomLeader

\* Wrong variants: EnterPlayer is forgotten, the LOBBY reply is, RemoveRoomPlayer is
UnseatNowhere(p, r) ==
  /\ roomPlayerMap' = [roomPlayerMap EXCEPT ![p] = Absent]
  /\ joinRoomMap' = joinRoomMap \ {<<p, r>>}
  /\ screen' = [screen EXCEPT ![p] = "LOBBY"]
  /\ UNCHANGED lobby
UnseatUntold(p, r) ==
  /\ roomPlayerMap' = [roomPlayerMap EXCEPT ![p] = Absent]
  /\ joinRoomMap' = joinRoomMap \ {<<p, r>>}
  /\ lobby' = [lobby EXCEPT ![p] = @ + 1]
  /\ UNCHANGED screen
UnseatStillRegistered(p, r) ==
  /\ joinRoomMap' = joinRoomMap \ {<<p, r>>}
  /\ lobby' = [lobby EXCEPT ![p] = @ + 1]
  /\ screen' = [screen EXCEPT ![p] = "LOBBY"]
  /\ UNCHANGED roomPlayerMap

\* Room::Leave drops the RoomPlayer from both maps; the player goes to the lobby.
Unseat(p, r) ==
  /\ roomPlayerMap' = [roomPlayerMap EXCEPT ![p] = Absent]
  /\ joinRoomMap' = joinRoomMap \ {<<p, r>>}
  /\ lobby' = [lobby EXCEPT ![p] = @ + 1]
  /\ screen' = [screen EXCEPT ![p] = "LOBBY"]

\* The RoomPlayer of the next leader is looked up in roomPlayerMap and made
\* not-ready; the map may hold NULL for it.
NextLeaderMissing(r) == roomPlayerMap[Rotated(joinedPlayer[r])[1]] \notin RoomIds

\* In that case the server dies when ChangeLeader has named the heir but nobody has
\* left.
DieInHandover(r) ==
  LET line == Rotated(joinedPlayer[r]) IN
  /\ crashed' = TRUE
  /\ roomLeader' = [roomLeader EXCEPT ![r] = line[1]]
  /\ joinedPlayer' = [joinedPlayer EXCEPT ![r] = line]
  /\ isLeader' = [isLeader EXCEPT ![r] = @ \cup {line[1]}]
  /\ roomPlayerMap' = Touched(roomPlayerMap, line[1])
  /\ UNCHANGED <<rooms, roomName, joinedPlayerCount, isStartGame, readyState,
                 joinRoomMap, lobby, screen>>

LEAVE_ROOM(p, m) ==
  /\ m.kind = "LEAVE_ROOM"
  /\ LET r == JoinRoomOf(p) IN
     \/ /\ r = Null
        /\ roomPlayerMap' = Touched(roomPlayerMap, p)
        /\ UNCHANGED <<roomVars, joinRoomMap, lobby, screen, crashed>>
     \/ /\ r # Null /\ joinedPlayerCount[r] = 1
        /\ CloseRoom(p, r) /\ Unseat(p, r)
        /\ isLeader' = [isLeader EXCEPT ![r] = {}]
        /\ readyState' = [readyState EXCEPT ![r] = {}]
        /\ UNCHANGED crashed
     \/ /\ r # Null /\ joinedPlayerCount[r] > 1
        /\ roomLeader[r] = p => ~NextLeaderMissing(r)
        /\ IF roomLeader[r] = p THEN LeaveAsLeader(p, r) ELSE LeaveAsMember(p, r)
        /\ joinedPlayerCount' = [joinedPlayerCount EXCEPT ![r] = @ - 1]
        /\ Unseat(p, r)
        /\ UNCHANGED <<rooms, roomName, isStartGame, crashed>>
     \/ /\ r # Null /\ joinedPlayerCount[r] > 1 /\ roomLeader[r] = p
        /\ NextLeaderMissing(r)
        /\ DieInHandover(r)
  /\ UNCHANGED <<gameVars, gamePlayerMap, gameKey>>

-----------------------------------------------------------------------------
(* GameProtocol.cpp                                                        *)

GameUnchanged == UNCHANGED <<roomVars, joinRoomMap, roomPlayerMap, games,
                   returnRoom, gamePlayers, gameLeader, lobby, clientVars>>

NoGamePlayer(p) == gamePlayerMap[p] \notin GameKeys

\* GetGamePlayer of the handlers that have found the game
GamePlayerLookedUp(p, m) ==
  gamePlayerMap' = IF m.gameKey \in games THEN Touched(gamePlayerMap, p)
                   ELSE gamePlayerMap

\* CompleteLoading is called through whatever gamePlayerMap holds.
GAME_START(p, m) ==
  /\ m.kind = "GAME_START"
  /\ \/ /\ m.gameKey \notin games
        /\ UNCHANGED <<loading, crashed>>
     \/ /\ m.gameKey \in games /\ NoGamePlayer(p)
        /\ crashed' = TRUE
        /\ UNCHANGED loading
     \/ /\ m.gameKey \in games /\ ~NoGamePlayer(p)
        /\ loading' = [loading EXCEPT ![gamePlayerMap[p]] = @ \cup {p}]
        /\ UNCHANGED crashed
  /\ GamePlayerLookedUp(p, m) /\ GameUnchanged

\* Wrong variants: the room stays marked as started; the registering loop stops
\* before the last member; nobody is registered again
EndGameStarted(r) ==
  /\ readyState' = [readyState EXCEPT ![r] = {}]
  /\ roomPlayerMap' = [q \in Players |-> IF q \in Members(r)
                         THEN Inserted(roomPlayerMap, q, r)[q] ELSE roomPlayerMap[q]]
  /\ UNCHANGED isStartGame
EndGameSkipsLast(r) ==
  /\ isStartGame' = [isStartGame EXCEPT ![r] = FALSE]
  /\ readyState' = [readyState EXCEPT ![r] = {}]
  /\ roomPlayerMap' = [q \in Players |-> IF q \in Members(r) \ {Last(joinedPlayer[r])}
                         THEN Inserted(roomPlayerMap, q, r)[q] ELSE roomPlayerMap[q]]
EndGameUnregistered(r) ==
  /\ isStartGame' = [isStartGame EXCEPT ![r] = FALSE]
  /\ readyState' = [readyState EXCEPT ![r] = {}]
  /\ UNCHANGED roomPlayerMap

\* Room::EndGame: every member is made not-ready and registered again.
EndGame(r) ==
  /\ isStartGame' = [isStartGame EXCEPT ![r] = FALSE]
  /\ readyState' = [readyState EXCEPT ![r] = {}]
  /\ roomPlayerMap' = [q \in Players |-> IF q \in Members(r)
                         THEN Inserted(roomPlayerMap, q, r)[q] ELSE roomPlayerMap[q]]

\* Wrong variant: the game stays listed
KeepGame(g) == UNCHANGED gameVars

RemoveGame(g) ==
  /\ games' = games \ {g}
  /\ returnRoom' = [returnRoom EXCEPT ![g] = Null]
  /\ gamePlayers' = [gamePlayers EXCEPT ![g] = {}]
  /\ gameLeader' = [gameLeader EXCEPT ![g] = Null]
  /\ loading' = [loading EXCEPT ![g] = {}]

\* Wrong variant: RemoveGamePlayer is forgotten
GamePlayersKept(p, team) == Touched(gamePlayerMap, p)

GamePlayersRemoved(p, team) ==
  [q \in Players |-> IF q \in team THEN Absent ELSE Touched(gamePlayerMap, p)[q]]

GAME_END(p, m) ==
  /\ m.kind = "GAME_END"
  /\ \/ /\ m.gameKey \notin games
        /\ UNCHANGED <<gameVars, gamePlayerMap, roomPlayerMap, isStartGame,
                       readyState, clientVars>>
     \/ /\ m.gameKey \in games
        /\ RemoveGame(m.gameKey)
        /\ EndGame(returnRoom[m.gameKey])
        /\ LET team == gamePlayers[m.gameKey] IN
           /\ gamePlayerMap' = GamePlayersRemoved(p, team)
           /\ screen' = [q \in Players |-> IF q \in team THEN "ROOM" ELSE screen[q]]
           /\ gameKey' = [q \in Players |-> IF q \in team THEN Null ELSE gameKey[q]]
  /\ UNCHANGED <<rooms, roomName, joinedPlayer, joinedPlayerCount, roomLeader,
                 isLeader, joinRoomMap, lobby, crashed>>

\* A packet passed on to the players of a game that is still listed.
Relay(p, m) ==
  /\ GamePlayerLookedUp(p, m)
  /\ UNCHANGED <<loading, crashed>>
  /\ GameUnchanged

\* GetGamePlayer before the game is known to exist
RelayUnguarded(p, m) ==
  /\ gamePlayerMap' = Touched(gamePlayerMap, p)
  /\ UNCHANGED <<loading, crashed>>
  /\ GameUnchanged

\* CLIENT_TO_SERVER: passed on to the game's leader
RelayToHost(p, m) ==
  /\ GamePlayerLookedUp(p, m)
  /\ crashed' = (m.gameKey \in games /\ gameLeader[m.gameKey] = Null)
  /\ UNCHANGED loading /\ GameUnchanged

\* HOST_TO_SERVER: from the leader's client, about the player m.target, who is
\* looked up a second time.
RelayFromHost(p, m) ==
  /\ crashed' = (/\ m.gameKey \in games
                 /\ \/ NoGamePlayer(p)
                    \/ gameLeader[gamePlayerMap[p]] = p /\ m.target \notin players)
  /\ GamePlayerLookedUp(p, m)
  /\ UNCHANGED loading
  /\ GameUnchanged

GAME_PLAYER_MOVE(p, m) == \/ m.kind = "GAME_PLAYER_MOVE" /\ RelayToHost(p, m)
                          \/ m.kind = "HOST_PLAYER_MOVE" /\ RelayFromHost(p, m)
GAME_PLAYER_ATTACK(p, m) == \/ m.kind = "GAME_PLAYER_ATTACK" /\ RelayToHost(p, m)
                            \/ m.kind = "HOST_PLAYER_ATTACK" /\ RelayFromHost(p, m)
GAME_PLAYER_DAMAGED(p, m) == m.kind = "GAME_PLAYER_DAMAGED" /\ Relay(p, m)
GAME_PLAYER_DIE(p, m) == m.kind = "GAME_PLAYER_DIE" /\ Relay(p, m)
ENEMY_SPAWN(p, m) == m.kind = "ENEMY_SPAWN" /\ Relay(p, m)
ENEMY_MOVE(p, m) == m.kind = "ENEMY_MOVE" /\ RelayUnguarded(p, m)
ENEMY_DAMAGED(p, m) == m.kind = "ENEMY_DAMAGED" /\ RelayUnguarded(p, m)
ENEMY_ATTACK(p, m) == m.kind = "ENEMY_ATTACK" /\ Relay(p, m)
ENEMY_DIE(p, m) == m.kind = "ENEMY_DIE" /\ Relay(p, m)
POTION_SPAWN(p, m) == m.kind = "POTION_SPAWN" /\ Relay(p, m)
POTION_PICKUP(p, m) == m.kind = "POTION_PICKUP" /\ Relay(p, m)

-----------------------------------------------------------------------------
(* Clients, the packet thread and the IOCP workers.                        *)

\* What a client that shows v can ask for.
Requests(v) ==
  CASE v.screen = "LOBBY" -> [kind : {"CREATE_ROOM"}, name : Names]
                               \cup [kind : {"JOIN_ROOM"}, roomID : rooms]
    [] v.screen = "ROOM" -> [kind : RoomKinds]
    [] v.screen = "GAME" ->
         [kind : GameKinds, gameKey : {v.gameKey}]
           \cup [kind : HostKinds, gameKey : {v.gameKey}, target : Players]

\* The reply that lets p into a room or back into the lobby is on its way.
AwaitsReply(p) == (View(p).screen = "LOBBY") # (screen[p] = "LOBBY")

InFlight == Cardinality({p \in Players : request[p] # Null})
              + (IF current = Null THEN 0 ELSE 1)

\* A client sends a request and waits until it is handled before the next, and for
\* the reply of one that lets it into a room or out of it.
Send(p) ==
  /\ ~crashed
  /\ p \in players
  /\ request[p] = Null
  /\ current # Null => current.player # p
  /\ ~AwaitsReply(p)
  /\ InFlight < MaxInFlight
  /\ \E m \in {m \in Requests(View(p)) : m.kind \in Protocols} :
       request' = [request EXCEPT ![p] = m]
  /\ UNCHANGED <<players, leaving, roomVars, gameVars, mapVars, clientVars,
                 outdated, lobby, current, crashed>>

\* The player key the packet carries
KeyOf(p, m) == IF m.kind \in HostKinds THEN m.target ELSE p

\* ProtocolManager::Execute and the handler's FindPlayer
Dispatch(p) ==
  /\ ~crashed
  /\ current = Null
  /\ request[p] # Null
  /\ request' = [request EXCEPT ![p] = Null]
  /\ current' = IF KeyOf(p, request[p]) \in players
                THEN [player |-> p, request |-> request[p]] ELSE Null
  /\ UNCHANGED <<players, leaving, roomVars, gameVars, mapVars, clientVars,
                 outdated, lobby, crashed>>

\* PushSendPacketToPacketQueue and BroadCastPacket queue the news for the clients
\* whose connection is alive.
QueueNews ==
  outdated' = [p \in Players |->
                 IF p \in players /\ Told(p)' # Told(p) THEN Append(outdated[p], Told(p))
                 ELSE outdated[p]]

\* The rest of the handler
Handle ==
  /\ ~crashed
  /\ current # Null
  /\ current' = Null
  /\ UNCHANGED connVars
  /\ LET p == current.player
         m == current.request
     IN \/ CREATE_ROOM(p, m)         \/ JOIN_ROOM(p, m)
        \/ ROOM_READY(p, m)          \/ ROOM_START(p, m)
        \/ LEAVE_ROOM(p, m)          \/ ROOM_CHATTING(p, m)
        \/ GAME_START(p, m)          \/ GAME_END(p, m)
        \/ GAME_PLAYER_MOVE(p, m)    \/ GAME_PLAYER_ATTACK(p, m)
        \/ GAME_PLAYER_DAMAGED(p, m) \/ GAME_PLAYER_DIE(p, m)
        \/ ENEMY_SPAWN(p, m)         \/ ENEMY_MOVE(p, m)
        \/ ENEMY_DAMAGED(p, m)       \/ ENEMY_ATTACK(p, m)
        \/ ENEMY_DIE(p, m)           \/ POTION_SPAWN(p, m)
        \/ POTION_PICKUP(p, m)
  /\ QueueNews

\* The sender thread passes the next news on and p's client reads it.
Deliver(p) ==
  /\ ~crashed
  /\ outdated[p] # <<>>
  /\ outdated' = [outdated EXCEPT ![p] = Tail(@)]
  /\ UNCHANGED <<connVars, roomVars, gameVars, mapVars, clientVars, lobby,
                 current, crashed>>

\* IocpWorkerThread on a lost connection: PlayerManager::RemovePlayer ...
RemovePlayer(p) ==
  /\ ~crashed
  /\ p \in MayDisconnect \cap players
  /\ players' = players \ {p}
  /\ leaving' = leaving \cup {p}
  /\ outdated' = [outdated EXCEPT ![p] = <<>>]
  /\ UNCHANGED <<request, roomVars, gameVars, mapVars, clientVars, lobby,
                 current, crashed>>

\* ... and then Lobby::RemovePlayer
RemoveFromLobby(p) ==
  /\ ~crashed
  /\ p \in leaving
  /\ leaving' = leaving \ {p}
  /\ lobby' \in LobbyRemovals(p)
  /\ UNCHANGED <<players, request, roomVars, gameVars, mapVars, clientVars,
                 outdated, current, crashed>>

Next ==
  \/ \E p \in Players : \/ Send(p) \/ Dispatch(p) \/ Deliver(p)
                        \/ RemovePlayer(p) \/ RemoveFromLobby(p)
  \/ Handle

\* ProcessPacketThread empties the FIFO queue every 10 ms, so that no request is
\* passed over for ever, the sender threads take every turn they are due, and the
\* workers finish what they began; nothing makes a client send or a connection break.
Fairness == /\ WF_vars(Handle)
            /\ \A p \in Players : /\ SF_vars(Dispatch(p))
                                  /\ WF_vars(Deliver(p)) /\ WF_vars(RemoveFromLobby(p))

Spec == Init /\ [][Next]_vars
FairSpec == Spec /\ Fairness

-----------------------------------------------------------------------------
(* Properties.                                                             *)

RoomsTyped ==
  /\ rooms \subseteq RoomIds
  /\ roomName \in [RoomIds -> Names \cup {Null}]
  /\ joinedPlayer \in [RoomIds -> Seq(Players)]
  /\ joinedPlayerCount \in [RoomIds -> Int]
  /\ roomLeader \in [RoomIds -> Players \cup {Null}]
  /\ isStartGame \in [RoomIds -> BOOLEAN]
  /\ readyState \in [RoomIds -> SUBSET Players]
  /\ isLeader \in [RoomIds -> SUBSET Players]

GamesTyped ==
  /\ games \subseteq GameKeys
  /\ returnRoom \in [GameKeys -> RoomIds \cup {Null}]
  /\ gamePlayers \in [GameKeys -> SUBSET Players]
  /\ gameLeader \in [GameKeys -> Players \cup {Null}]
  /\ loading \in [GameKeys -> SUBSET Players]

MapsTyped ==
  /\ players \subseteq Players
  /\ lobby \in [Players -> Nat]
  /\ joinRoomMap \subseteq Players \X RoomIds
  /\ roomPlayerMap \in [Players -> RoomIds \cup {Null, Absent}]
  /\ gamePlayerMap \in [Players -> GameKeys \cup {Null, Absent}]

\* What a client can be told: that it is in a game by the game's key
Views == {v \in [screen : {"LOBBY", "ROOM", "GAME"}, gameKey : GameKeys \cup {Null}] :
            v.screen = "GAME" => v.gameKey # Null}

ClientsTyped ==
  /\ screen \in [Players -> {"LOBBY", "ROOM", "GAME"}]
  /\ gameKey \in [Players -> GameKeys \cup {Null}]
  /\ request \in [Players -> Request \cup {Null}]
  /\ current \in [player : Players, request : Request] \cup {Null}
  /\ leaving \subseteq Players \ players
  /\ crashed \in BOOLEAN

NewsTyped == outdated \in [Players -> Seq(Views)]

\* Every map, list and flag holds what the code can put there: only players who are
\* in a line are erased from it, only clients who know a game send its key.
TypeOK == RoomsTyped /\ GamesTyped /\ MapsTyped /\ ClientsTyped /\ NewsTyped

\* A player sits in one room at most, once; the lobby lists a player once at
\* most, and none who sits in a room.  Lobby, Room and the clients' requests each
\* hold a part of this: RemovePlayer, Join and Leave have to stay in step.
OneSeat ==
  /\ \A r \in RoomIds : IsInjective(joinedPlayer[r])
  /\ \A r, s \in RoomIds : r # s => Members(r) \cap Members(s) = {}
  /\ \A p \in Players : lobby[p] <= 1
  /\ \A p \in Players : lobby[p] = 1 => \A r \in RoomIds : p \notin Members(r)

\* A player whose connection is alive is never lost: the lobby lists it or a room
\* seats it.
Located ==
  \A p \in players : lobby[p] = 1 \/ \E r \in rooms : p \in Members(r)

\* The counter Room keeps beside its list agrees with it (the JOIN_ROOM and
\* GAME_END replies index the list up to the counter), a listed room has a member
\* and never more than MAX_ROOM_USER, and a room that is not listed has none.
RoomsWellFormed ==
  \A r \in RoomIds :
    /\ joinedPlayerCount[r] = Len(joinedPlayer[r])
    /\ joinedPlayerCount[r] <= MaxRoomUser
    /\ r \in rooms <=> joinedPlayer[r] # <<>>

\* The three places that say who leads a room agree: roomLeader, the front of
\* joinedPlayer (which Room::ChangeLeader takes for the leader) and isLeader.
LeaderIsFront ==
  ~crashed => \A r \in rooms : /\ roomLeader[r] = joinedPlayer[r][1]
                               /\ isLeader[r] = {roomLeader[r]}

\* joinRoomMap knows exactly the members; a player whose RoomPlayer is registered
\* sits in that room; and nothing is left in roomPlayerMap for a player in the
\* lobby, where it would keep the next room's RoomPlayer from being registered.
RegistryAgrees ==
  /\ joinRoomMap = {seat \in Players \X RoomIds : seat[1] \in Members(seat[2])}
  /\ \A p \in Players : roomPlayerMap[p] \in RoomIds => p \in Members(roomPlayerMap[p])
  /\ \A p \in Players : screen[p] = "LOBBY" => roomPlayerMap[p] = Absent

\* A listed game returns to a listed room that is marked as started, which no
\* other game returns to; its players are members of that room, without a
\* registered RoomPlayer; its leader plays in it and leads the room; and no room is
\* marked as started without a game.
GamesWellFormed ==
  /\ \A g \in games :
       LET r == returnRoom[g] IN
       /\ r \in rooms /\ isStartGame[r]
       /\ gamePlayers[g] \subseteq Members(r)
       /\ gameLeader[g] = roomLeader[r] /\ gameLeader[g] \in gamePlayers[g]
       /\ \A p \in gamePlayers[g] : roomPlayerMap[p] \notin RoomIds
  /\ \A g, h \in games : returnRoom[g] = returnRoom[h] => g = h
  /\ \A r \in RoomIds : isStartGame[r] => \E g \in games : returnRoom[g] = r

\* A registered GamePlayer belongs to a listed game that counts the player, and
\* only players who are told of a game are in it.
GameRegistryAgrees ==
  /\ \A p \in Players : gamePlayerMap[p] \in GameKeys =>
       gamePlayerMap[p] \in games /\ p \in gamePlayers[gamePlayerMap[p]]
  /\ \A p \in Players : screen[p] = "GAME" <=>
       \E g \in games : g = gameKey[p] /\ p \in gamePlayers[g]

\* A client is told to stand in the lobby exactly when no room seats it, and what it
\* asked for while older news were on their way still fits that: CREATE_ROOM and
\* JOIN_ROOM, which do not look whether the player is in a room, never come from a
\* member, nor a member's request from the lobby.
ClientsInStep ==
  /\ \A p \in Players :
       /\ screen[p] = "LOBBY" <=> \A r \in RoomIds : p \notin Members(r)
       /\ request[p] # Null => (request[p].kind \in LobbyKinds <=> screen[p] = "LOBBY")
  /\ current # Null =>
       /\ request[current.player] = Null
       /\ current.request.kind \in LobbyKinds <=> screen[current.player] = "LOBBY"

\* CREATE_ROOM's check keeps the names of listed rooms apart.
UniqueNames ==
  \A r, s \in rooms : roomName[r] = roomName[s] => r = s

\* A room changes its leader only when the leader leaves it, and then to the
\* member who was next in line (LEAVE_ROOM, Room::ChangeLeader), or the server dies
\* on the way.
LeaderHandover ==
  [][\A r \in rooms \cap rooms' : roomLeader'[r] # roomLeader[r] /\ ~crashed' =>
       /\ roomLeader[r] \notin Members(r)'
       /\ roomLeader'[r] = joinedPlayer[r][2]]_vars

\* The players who are in a game, which is what Seating sees of the games
InGame == UNION {gamePlayers[g] : g \in games}
Seats == INSTANCE Seating WITH
  Rooms <- RoomIds, Capacity <- MaxRoomUser, line <- joinedPlayer, playing <- InGame,
  stopped <- crashed

\* The handlers implement Seating: the maps, counters and flags above never make a
\* step that is not one of a line of players who sit, leave, begin or finish.  A
\* NULL pointer stops the server but does not seat anybody wrongly.
ImplementsSeating == Seats!Spec

\* LEAVE_ROOM takes a member out of a room in which no game is played.
LeaveObeyed ==
  [][\A r \in rooms :
       (/\ current # Null /\ current' = Null
        /\ current.request.kind = "LEAVE_ROOM"
        /\ current.player \in Members(r) /\ ~isStartGame[r])
         => current.player \notin Members(r)']_vars

\* When a leader leaves members behind, the next one in line leads and the leader is
\* gone.
LeaderReplaced ==
  [][\A r \in rooms :
       (/\ current # Null /\ current' = Null
        /\ current.request.kind = "LEAVE_ROOM"
        /\ JoinRoomOf(current.player) = r /\ roomLeader[r] = current.player
        /\ Len(joinedPlayer[r]) > 1)
         => /\ roomLeader'[r] = joinedPlayer[r][2]
            /\ current.player \notin Members(r)']_vars
=============================================================================
