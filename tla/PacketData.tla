------------------------------ MODULE PacketData ------------------------------
(***************************************************************************)
(* What clients read: a request is deserialized, its handler passes what   *)
(* it read and what the server knows to WriteData, the reply is serialized *)
(* into a pooled packet, sent, and the packet is reset.  Whether a handler *)
(* answers, and whom, is RoomProtocol's and Sessions' matter, in which     *)
(* order packets go is SendPath's.  One handler runs at a time; workers    *)
(* and the heartbeat thread take lost players out of the lobby meanwhile.  *)
(*                                                                         *)
(* A value says what it is: <<name, message, number>> is the name of that  *)
(* message, the number being the value of a count or the place in a list.  *)
(***************************************************************************)
EXTENDS PacketTables, Integers, FiniteSets, SequencesExt

CONSTANTS
  Players,                 \* those who are in the lobby or come into it
  Packets,                 \* TcpPacket objects; bound: no more are in use at a time
  MaxRequests, MaxRows,    \* bounds: requests, and rooms or members of a room
  TextLength,              \* bound: what a text takes in UTF-8
  MAX_PACKET_DATA_LENGTH,  \* size of the buffer of a MemoryStream
  None

\* The rooms and the players are few enough for the buffer: nothing checks it.
ASSUME PacketDataAssumption ==
  /\ IsFiniteSet(Players) /\ IsFiniteSet(Packets)
  /\ {MaxRequests, MaxRows, TextLength, MAX_PACKET_DATA_LENGTH} \subseteq Nat
  /\ MAX_PACKET_DATA_LENGTH >= 3 * (4 + TextLength) + 24
  /\ MAX_PACKET_DATA_LENGTH >= 2 * (4 + TextLength) + 4 + MaxRows * (6 + TextLength)
  /\ MAX_PACKET_DATA_LENGTH >= 8 + MaxRows * (2 * (4 + TextLength) + 5)
                               + Cardinality(Players) * (4 + TextLength)

VARIABLES
  lobby, size,   \* the slots of the vector Lobby::players, and how many count
  handled,       \* requests so far
  task,          \* the request that is being handled, and what it read
  listing,       \* the list of the lobby that WriteData is making
  pool,          \* PacketPool::pool, its top last
  stream,        \* what is written to each packet: its offset is their sizes
  header,        \* the header of each packet
  queue,         \* packets in send queues
  completed,     \* packets in queues of completed sends
  frame,         \* what is on its way to a client; bound: one at a time
  about          \* history: what each packet is to tell

handlerVars == <<handled, task, listing>>
packetVars == <<pool, stream, header, queue, completed, frame, about>>
vars == <<lobby, size, handlerVars, packetVars>>

Init ==
  /\ lobby \in SetToSeqs(Players) /\ size \in 0 .. Cardinality(Players)
  /\ handled = 0 /\ task = None /\ listing = None
  /\ pool \in SetToSeqs(Packets)
  /\ stream = [k \in Packets |-> <<>>]
  /\ header = [k \in Packets |-> None]
  /\ queue = {} /\ completed = {}
  /\ frame = None
  /\ about = [k \in Packets |-> None]

Names(m) == {Members[m][j].name : j \in DOMAIN Members[m]}
PlaceOf(m, n) == CHOOSE j \in DOMAIN Members[m] : Members[m][j].name = n
Declared(m, n) == Members[m][PlaceOf(m, n)]
IsList(d) == d.shape = "list"

-----------------------------------------------------------------------------
(* MemoryStream.                                                           *)

\* WriteInt, WriteFloat three times, WriteChar and WriteString.
WriteBytes == [int |-> 4, Vector3 |-> 12, BOOL |-> 1]
Write(type, v) ==
  [type |-> type, value |-> v,
   bytes |-> IF type # "text" THEN WriteBytes[type]
             ELSE 4 + (IF v[1] = "" THEN 0 ELSE TextLength)]

\* ReadInt, ReadFloat three times, ReadBOOL and ReadString.
ReadBytes == [int |-> 4, Vector3 |-> 12, BOOL |-> 1]
Garbage == <<"garbage", 0, 0>>
Read(items, i, type) ==
  IF /\ i <= Len(items) /\ items[i].type = type
     /\ type # "text" => items[i].bytes = ReadBytes[type]
  THEN items[i].value ELSE Garbage

Offset(items) ==
  LET sum[i \in 0 .. Len(items)] == IF i = 0 THEN 0 ELSE sum[i - 1] + items[i].bytes
  IN sum[Len(items)]
Prefix(items, n) ==
  SubSeq(items, 1, Max({i \in 0 .. Len(items) : Offset(SubSeq(items, 1, i)) <= n}))

-----------------------------------------------------------------------------
(* Clients, which write and read what the classes declare.                 *)

ClientWrites(m, i) ==
  [j \in DOMAIN Members[m] |->
     Write(Members[m][j].type, <<Members[m][j].name, i, 0>>)]

\* Where a client is after the first j members: at the item it reads next, the last
\* number it read being the length of the lists that follow.
Cursor(m, items) ==
  LET cursor[j \in 0 .. Len(Members[m])] ==
        IF j = 0 THEN [at |-> 1, count |-> 0]
        ELSE LET d == Members[m][j]  c == cursor[j - 1]
             IN [at |-> c.at + (IF IsList(d) THEN c.count ELSE 1),
                 count |-> IF d.type = "int" /\ ~IsList(d) THEN Read(items, c.at, "int")[3]
                           ELSE c.count]
  IN cursor

ClientReads(m, items) ==
  [n \in Names(m) |->
     LET d == Declared(m, n)  c == Cursor(m, items)[PlaceOf(m, n) - 1]
     IN IF IsList(d) THEN [x \in 1 .. c.count |-> Read(items, c.at + x - 1, d.type)]
        ELSE Read(items, c.at, d.type)]

-----------------------------------------------------------------------------
(* Handlers.                                                               *)

\* What the handler of a request may send.
Replies == [
  CS_RegisterUser |-> {"SC_RegisterUser"},
  CS_Login |-> {"SC_Login"},
  CS_EnterLobby |-> {"SC_EnterLobby", "SC_EnterLobbyOtherPlayer"},
  CS_LeaveLobby |-> {"SC_LeaveLobby", "SC_LeaveLobbyOtherPlayer"},
  CS_LobbyChatting |-> {"SC_LobbyChatting"},
  CS_CreateRoom |-> {"SC_CreateRoom", "SC_CreateRoomOtherPlayer"},
  CS_JoinRoom |-> {"SC_JoinRoom", "SC_JoinRoomOtherPlayer"},
  CS_Ready |-> {"SC_Ready", "SC_ReadyOtherPlayer"},
  CS_RoomStart |-> {"SC_RoomStart"},
  CS_LeaveRoom |-> {"SC_LeaveRoom", "SC_LeaveRoomOtherPlayer", "SC_RemoveRoom",
                    "SC_ChangeRoomLeader"},
  CS_RoomChatting |-> {"SC_RoomChatting"},
  CS_HeartBeat |-> {},
  CS_GameStart |-> {"SC_GameStart", "SC_OtherGameStart"},
  CS_GameEnd |-> {"SC_GameEnd", "SC_OtherGameEnd"},
  CS_GamePlayerMove |-> {"SH_GamePlayerMove", "SC_GamePlayerMove"},
  CS_GamePlayerAttack |-> {"SH_GamePlayerAttack", "SC_GamePlayerAttack"},
  CS_GamePlayerDamaged |-> {"SC_GamePlayerDamaged"},
  CS_GamePlayerDie |-> {"SC_GamePlayerDie"},
  CS_EnemySpawn |-> {"SC_EnemySpawn"},
  CS_EnemyMove |-> {"SC_EnemyMove"},
  CS_EnemyDamaged |-> {"SC_EnemyDamaged"},
  CS_EnemyAttack |-> {"SC_EnemyAttack"},
  CS_EnemyDie |-> {"SC_EnemyDie"},
  CS_PotionSpawn |-> {"SC_PotionSpawn"},
  CS_PotionPickup |-> {"SC_PotionPickup"}]

Lists == {"SC_EnterLobby", "SC_LeaveRoom"}

\* How many rooms there are, or members of the room, if the reply lists them.
Rows(m) == IF \E j \in DOMAIN Members[m] : IsList(Members[m][j]) THEN 0 .. MaxRows ELSE {0}

\* Replies for which the handler makes a SERVERtoCLIENT object and calls Serialize
\* without WriteData: the texts are empty.
Refusals == {"SC_RegisterUser", "SC_Login", "SC_CreateRoom", "SC_RoomStart"}

\* What the handlers pass to WriteData where it is not the members, in their order.
LoginArguments == [SC_Login |-> <<"playerKey", "id">>]
LobbyArguments == [
  SC_EnterLobbyOtherPlayer |-> <<"playerID">>,
  SC_LeaveLobbyOtherPlayer |-> <<"playerID">>]
RoomArguments == [
  SC_CreateRoom |-> <<"roomID", "roomName">>,
  SC_ChangeRoomLeader |-> <<"newLeaderKey", "newLeaderID">>]
GameArguments == [
  SC_OtherGameStart |-> <<"roomName", "roomID">>,
  SC_GameEnd |-> <<"roomName", "roomID", "joinedPlayerCount", "joinedPlayers",
                   "joinedPlayerReadyState", "isLeaders">>,
  SC_OtherGameEnd |-> <<"roomName", "roomID">>,
  SC_GamePlayerMove |-> <<"playerID", "playerPosition", "playerRotation">>]
Arguments(m) ==
  CASE m \in DOMAIN LoginArguments -> LoginArguments[m]
    [] m \in DOMAIN LobbyArguments -> LobbyArguments[m]
    [] m \in DOMAIN RoomArguments -> RoomArguments[m]
    [] m \in DOMAIN GameArguments -> GameArguments[m]
    [] OTHER -> Order[m]

\* Wrong variant: in the order of the members, as in CreateRoomOtherPlayer.
ParametersAsDeclared(m) == Order[m]

\* The members that WriteData assigns, in the order of its parameters.
Parameters(m) == IF m = "SC_CreateRoom" THEN <<"roomID", "roomName">> ELSE Order[m]

\* What n is in the message i where there are c rooms, or c members of the room.
Thing(n, i, c) ==
  CASE n \in {"roomCount", "joinedPlayerCount"} -> <<n, i, c>>
    [] n \in {"roomIds", "roomNames", "isStart", "joinedPlayers",
              "joinedPlayerReadyState", "isLeaders"} -> [j \in 1 .. c |-> <<n, i, j>>]
    [] OTHER -> <<n, i, 0>>

\* What the request says is passed on, the rest is the server's (as is the room of
\* LEAVE_ROOM, JOIN_ROOM and CREATE_ROOM, which is the one that the client means).
WriteData(m, i, read, c) ==
  [n \in Names(m) |->
     LET a == Arguments(m)[CHOOSE j \in DOMAIN Parameters(m) : Parameters(m)[j] = n]
     IN IF a \in DOMAIN read THEN read[a] ELSE Thing(a, i, c)]

\* The columns of a list of the rooms, and of the players that were listed.
WriteLists(m, i, c) ==
  [n \in Names(m) |->
     CASE n = "joinedRoomPlayerCount" -> [j \in 1 .. c |-> <<n, i, j>>]
       [] n = "playerCount" -> <<n, i, listing.count>>
       [] n = "playerNames" -> [j \in 1 .. listing.count |-> <<n, i, listing.names[j]>>]
       [] OTHER -> Thing(n, i, c)]

Empty(m, i) == [n \in Names(m) |-> <<"", i, 0>>]

\* What is written of a member that has the value v.
Written(d, v) ==
  IF IsList(d) THEN [x \in DOMAIN v |-> Write(d.type, v[x])] ELSE <<Write(d.type, v)>>

Serialize(m, data) ==
  FlattenSeq([j \in DOMAIN Order[m] |-> Written(Declared(m, Order[m][j]), data[Order[m][j]])])

\* What PacketPool::Pop takes from: an empty pool is filled first.  A packet that is in no
\* place, and will not be in any again, stands for a new one.
Filled == IF pool # <<>> THEN {pool} ELSE SetToSeqs(Packets \ (queue \cup completed)) \ {<<>>}

\* Pop, Serialize, SetHeader and PushSendPacketToPacketQueue.
Put(m, data, what) ==
  /\ \E p \in Filled :
       LET k == Last(p)
           items == stream[k] \o Serialize(m, data)
       IN /\ pool' = Front(p)
          /\ stream' = [stream EXCEPT ![k] = items]
          /\ header' = [header EXCEPT ![k] = [message |-> m, length |-> 12 + Offset(items)]]
          /\ about' = [about EXCEPT ![k] = what]
          /\ queue' = queue \cup {k}
  /\ UNCHANGED <<completed, frame>>

\* The player is left out, and the packet made for it is forgotten: whatever is in it, it is
\* pushed to no queue and not back to the pool.
LeaveOut ==
  /\ \E p \in Filled : pool' = Front(p)
  /\ UNCHANGED <<stream, header, queue, completed, frame, about>>

\* Replies that the handler pushes to the queue of one player.  BroadCastPacket has the
\* others: it leaves out who asked or is not in the game any more.
Pushed == {"SC_RegisterUser", "SC_Login", "SC_EnterLobby", "SC_LeaveLobby", "SC_CreateRoom",
           "SC_JoinRoom", "SC_Ready", "SC_LeaveRoom", "SH_GamePlayerMove",
           "SH_GamePlayerAttack"}

\* The next request of a client, and its Deserialize.
Deserialize(m) ==
  /\ task = None /\ handled < MaxRequests
  /\ handled' = handled + 1
  /\ LET items == ClientWrites(m, handled + 1)
     IN task' = [request |-> m, due |-> Replies[m],
                 read |-> [n \in Range(Order[m]) |->
                             Read(items, CHOOSE j \in DOMAIN Order[m] : Order[m][j] = n,
                                  Declared(m, n).type)]]
  /\ UNCHANGED <<lobby, size, listing, packetVars>>

Answered(m) == task' = [task EXCEPT !.due = @ \ {m}] /\ UNCHANGED handled

\* Lobby::EnterPlayer, by LOGIN before it answers and LEAVE_ROOM before it counts.
EnterPlayer ==
  \E p \in Players \ Range(SubSeq(lobby, 1, size)) :
    /\ lobby' = [lobby EXCEPT ![size + 1] = p]
    /\ size' = size + 1

Answer ==
  /\ task # None /\ listing = None
  /\ \E m \in task.due \ Lists : \E c \in Rows(m) :
       /\ IF m = "SC_Login" THEN EnterPlayer ELSE UNCHANGED <<lobby, size>>
       /\ Answered(m)
       /\ \/ Put(m, WriteData(m, handled, task.read, c),
                 [number |-> handled, result |-> "success", rows |-> c, listing |-> None])
          \/ m \notin Pushed /\ LeaveOut
  /\ UNCHANGED listing

Refuse ==
  /\ task # None /\ listing = None
  /\ \E m \in task.due \cap Refusals :
       /\ Answered(m)
       /\ Put(m, Empty(m, handled),
              [number |-> handled, result |-> "failure", rows |-> 0, listing |-> None])
  /\ UNCHANGED <<lobby, size, listing>>

\* Wrong variant: the player who asks is not counted.
GetPlayerCountOfOthers ==
  /\ task # None /\ listing = None /\ task.due \cap Lists # {}
  /\ IF task.request = "CS_LeaveRoom" THEN EnterPlayer ELSE UNCHANGED <<lobby, size>>
  /\ listing' = [count |-> Max({0, size' - 1}), names |-> <<>>,
                 counted |-> SubSeq(lobby', 1, size'), lost |-> {}]
  /\ UNCHANGED <<handled, task, packetVars>>

\* GetPlayerCount is an argument of WriteData, GetPlayers a reference to the vector.
GetPlayerCount ==
  /\ task # None /\ listing = None /\ task.due \cap Lists # {}
  /\ IF task.request = "CS_LeaveRoom" THEN EnterPlayer ELSE UNCHANGED <<lobby, size>>
  /\ listing' = [count |-> size', names |-> <<>>,
                 counted |-> SubSeq(lobby', 1, size'), lost |-> {}]
  /\ UNCHANGED <<handled, task, packetVars>>

\* playerNames.push_back(players[i]->GetPlayerID()).  A slot past the end of the
\* vector holds what it held before: players are never deleted.
ListPlayer ==
  /\ listing # None /\ Len(listing.names) < listing.count
  /\ listing' = [listing EXCEPT !.names = Append(@, lobby[Len(@) + 1])]
  /\ UNCHANGED <<lobby, size, handled, task, packetVars>>

AnswerList ==
  /\ listing # None /\ Len(listing.names) = listing.count
  /\ \E m \in task.due \cap Lists : \E c \in Rows(m) :
       /\ Answered(m)
       /\ Put(m, WriteLists(m, handled, c),
              [number |-> handled, result |-> "success", rows |-> c, listing |-> listing])
  /\ listing' = None
  /\ UNCHANGED <<lobby, size>>

Return ==
  /\ task # None /\ listing = None
  /\ task' = None
  /\ UNCHANGED <<lobby, size, handled, listing, packetVars>>

-----------------------------------------------------------------------------
(* The other threads.                                                      *)

\* HeartBeatCheckThread asks a player, unless it has not answered: then it is removed and
\* the packet forgotten.
PushHeartBeat ==
  /\ \/ Put("SC_HeartBeat", Empty("SC_HeartBeat", 0),
            [number |-> 0, result |-> "success", rows |-> 0, listing |-> None])
     \/ LeaveOut
  /\ UNCHANGED <<lobby, size, handlerVars>>

\* Lobby::RemovePlayer and LeavePlayer, of a lost player at any time, and of one who
\* goes when the handler is not listing: vector::erase moves what follows.
RemovePlayer ==
  \E i \in 1 .. size :
    /\ lobby' = [j \in DOMAIN lobby |-> IF i <= j /\ j < size THEN lobby[j + 1] ELSE lobby[j]]
    /\ size' = size - 1
    /\ listing' = IF listing = None THEN None
                  ELSE [listing EXCEPT !.lost = @ \cup {lobby[i]}]
    /\ UNCHANGED <<handled, task, packetVars>>

\* SendPacket, SerializePacket and the move to completedSendPacketQueue.
SendPacket ==
  \E k \in queue :
    /\ frame = None
    /\ frame' = [message |-> header[k].message,
                 items |-> Prefix(stream[k], header[k].length - 12), about |-> about[k]]
    /\ queue' = queue \ {k} /\ completed' = completed \cup {k}
    /\ UNCHANGED <<lobby, size, handlerVars, pool, stream, header, about>>

\* Wrong variant: the packet stays in the queue of completed sends.
OnSentKept ==
  \E k \in completed :
    /\ stream' = [stream EXCEPT ![k] = <<>>]
    /\ pool' = Append(pool, k)
    /\ about' = [about EXCEPT ![k] = None]
    /\ UNCHANGED <<lobby, size, handlerVars, header, queue, completed, frame>>

\* TcpPacket::Reset makes a new stream; then Push.
OnSent ==
  \E k \in completed :
    /\ completed' = completed \ {k}
    /\ stream' = [stream EXCEPT ![k] = <<>>]
    /\ pool' = Append(pool, k)
    /\ about' = [about EXCEPT ![k] = None]
    /\ UNCHANGED <<lobby, size, handlerVars, header, queue, frame>>

Arrive ==
  /\ frame # None /\ frame' = None
  /\ UNCHANGED <<lobby, size, handlerVars, pool, stream, header, queue, completed, about>>

Next ==
  \/ \E m \in DOMAIN Replies : Deserialize(m)
  \/ Answer \/ Refuse \/ GetPlayerCount \/ ListPlayer \/ AnswerList \/ Return
  \/ PushHeartBeat \/ RemovePlayer \/ SendPacket \/ OnSent \/ Arrive

Spec == Init /\ [][Next]_vars

-----------------------------------------------------------------------------
(* Properties.                                                             *)

\* No packet is in two places, or in one twice: nobody takes a packet from the pool that is
\* still to be sent or reset.  Packets of players who were left out are in none.
TypeOK ==
  /\ lobby \in [1 .. Cardinality(Players) -> Players]
  /\ size \in 0 .. Cardinality(Players)
  /\ handled \in 0 .. MaxRequests
  /\ task # None => task.request \in DOMAIN Replies
  /\ listing # None => listing.count \in 0 .. Cardinality(Players)
  /\ pool \in Seq(Packets) /\ Range(pool) \cup queue \cup completed \subseteq Packets
  /\ \A i, j \in DOMAIN pool : pool[i] = pool[j] => i = j
  /\ Range(pool) \cap (queue \cup completed) = {} /\ queue \cap completed = {}

\* No packet is written past the buffer of its stream, however often it was used.
WithinBuffer == \A k \in Packets : Offset(stream[k]) <= MAX_PACKET_DATA_LENGTH

\* What a member of a reply stands for, where its name does not say it.
StandsFor(m, n) ==
  CASE m = "SC_ChangeRoomLeader" /\ n = "playerKey" -> "newLeaderKey"
    [] m = "SC_ChangeRoomLeader" /\ n = "playerID" -> "newLeaderID"
    [] m = "SC_Login" /\ n = "playerID" -> "id"
    [] n = "playerName" -> "playerID"
    [] n = "roomKey" -> "roomID"
    [] n = "playterRotation" -> "playerRotation"
    [] OTHER -> n

\* What a reply says under each name: the thing of that name, as the request or the
\* server had it for this message; in refusals nothing at all.
Meant(m, what) ==
  [n \in Names(m) |->
     IF what.result = "failure" THEN <<"", what.number, 0>>
     ELSE CASE n = "playerCount" -> <<n, what.number, what.listing.count>>
            [] n = "playerNames" ->
                 [j \in 1 .. what.listing.count |-> <<n, what.number, what.listing.names[j]>>]
            [] n = "joinedRoomPlayerCount" /\ m \in Lists ->
                 [j \in 1 .. what.rows |-> <<n, what.number, j>>]
            [] OTHER -> Thing(StandsFor(m, n), what.number, what.rows)]

\* What is written fits into the packet; and a client that reads a packet by what its
\* class declares finds under each name what was meant: nothing of what the packet
\* carried before, nothing shifted by another member or by a list that is not as long
\* as its count.
ReadAsMeant ==
  /\ WithinBuffer
  /\ frame # None => ClientReads(frame.message, frame.items) = Meant(frame.message, frame.about)

\* A list of the lobby: everybody listed was there when it was counted; the list is
\* the lobby if nobody was lost since; and for each player who was lost since at most
\* one who stays is missing.
FairList(l) ==
  /\ Range(l.names) \subseteq Range(l.counted)
  /\ l.lost = {} => l.names = l.counted
  /\ Cardinality((Range(l.counted) \ l.lost) \ Range(l.names)) <= Cardinality(l.lost)

\* So is the list that a client is sent when it enters the lobby or comes back to it
\* (that it reads the names that were listed is part of ReadAsMeant).
LobbyListed ==
  (frame # None /\ frame.about.listing # None) => FairList(frame.about.listing)
=============================================================================
