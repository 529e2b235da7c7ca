# Verification of the gun shooting game server

The server (`src/Refactoring_StudyServer`, C++ for Windows) keeps the lobby, the
rooms and the games of a multiplayer shooter.  Clients connect over TCP, log in,
open and join rooms, play, and return to their room; the game itself runs in the
clients, and the server relays what they send.  These TLA+ modules model the
server's rooms and games with everything that can happen to them between two
packets, the life of a connection, the accounts and the file they are kept in, the
start and the shutdown of the process, and the packets themselves: their way from the
bytes of a client to the handlers and back, and what is written into them.  TLC checks
the models, and TLAPS proves the main results.

## 1. The system

### Threads and what passes between them

| thread | source | does | takes a lock |
|---|---|---|---|
| AcceptThread | `AcceptThread.cpp`, `Network.cpp:102` | makes a Player for each connection, registers it in PlayerManager and at the IOCP | no |
| IocpWorkerThread (one for each processor) | `IocpWorkerThread.cpp` | takes received bytes into packets and packets into the package queue; takes sent packets back to the pool; on a failed completion removes the player from PlayerManager and from the Lobby | the queue locks only |
| ProcessPacketThread | `ProcessPacketThread.cpp` | every 10 ms runs the handler of every queued package, one after the other | the package queue's lock, during the handlers |
| SenderThread (4) | `SenderThread.cpp` | every 10 ms sends the queued packets of its share of the players | the sessions' queue locks |
| HeartBeatCheckThread | `HeartBeatCheckThread.cpp` | every 5 s removes players that did not answer and asks the others again | no |

All handlers run in ProcessPacketThread, so that two handlers never overlap.  What
does overlap with a handler is the removal of a player (workers, heartbeat), new
connections, sending and completions.  Between a client's packets and the
handlers lies an arbitrary delay, and another between what a handler queues and what its
client reads: clients act on what has reached them, and the server has often moved on
when they ask and when the request is handled.

### Components

**Player registry** (`PlayerManager.cpp`, `Player.cpp`).  State: `players` (key to
Player), `roomPlayerMap`, `gamePlayerMap` (Player to RoomPlayer and GamePlayer),
`sequentialPlayers` (the senders' shares).  Operations: AddPlayer, RemovePlayer,
FindPlayer, Register/Get/Remove of RoomPlayer and GamePlayer, overlap check.
Called by every handler and by three kinds of thread without a lock.  Hard: `Get...`
is `operator[]`, which adds a NULL entry for a missing key, and `Register...` is
`insert`, which keeps what is there.  Correct when: the maps agree with the rooms
and games, and no player whose connection lives is lost.

**Lobby** (`Lobby.cpp`, `LobbyProtocol.cpp`).  State: the list of players.
Operations: EnterPlayer, LeavePlayer, RemovePlayer, and the handlers ENTER_LOBBY,
LEAVE_LOBBY, LOBBY_CHATTING.  Changed by the handlers and by the workers.  Hard: the
erasing loop skips an entry; a player may be entered after its removal.  Correct
when: no player is listed twice or listed while it sits in a room.

**Rooms** (`RoomProtocol.cpp`, `Room.cpp`, `RoomManager.cpp`, `RoomPlayer.cpp`).
State: the room list, `joinRoomMap`, and for each room its name, id, line of
members, counter, leader, start flag, and each member's ready and leader flags.
Operations: CREATE_ROOM, JOIN_ROOM, READY, ROOM_START, LEAVE_ROOM,
ROOM_CHATTING.  Hard: the same facts are kept in several places (list and counter;
`roomLeader`, the front of the line and `isLeader`; `roomPlayerMap` and
`joinRoomMap`), and requests arrive after the room or the game has changed.
Correct when: the places agree, the limit and the names hold, and the room is
handed over in the order of the line.

**Games** (`GameProtocol.cpp`, `Game.cpp`, `GameManager.cpp`, `GamePlayer.cpp`).
State: the game list and for each game its players, leader (the host), room to return
to, and who has loaded.  Operations: GAME_START, GAME_END and the relays.  Hard:
GAME_END has to undo what ROOM_START did in four containers, while the room's members
may have changed.  Correct when: games, rooms and registrations agree.

**Accounts** (`LoginProtocol.cpp`, `UserDB.cpp`, `JsonManager.cpp`, `Utils.cpp`).
State: the user list, the JSON file it is read from at start and written to at shutdown.
Operations: REGISTER_USER, the check of LOGIN, load and save.  Hard: the file is
truncated and then written; an open that fails is not noticed; the list is saved and
deleted while the packet thread still handles requests.  Correct when: what a client was told
is registered is there after a restart, and what a fault may cost is bounded.

**Send path** (`TcpSession.cpp`, `SenderThread.cpp`, `Network.cpp`, the pool in
`PacketFactory.cpp`).  State: two queues in each session, the pool.  Operations: push, send
what is queued, completion, pop, return.  Hard: loops that look at the size
of the queue they shorten, completions before the packet is in the second queue,
packets that never return.  Correct when: packets go out in order and once, and a
packet is in one place at a time.

**Receive path** (`StreamBuffer.cpp`, `TcpSession.cpp:57`, `PacketFactory.cpp:89`).
State: the bytes of an incomplete packet.  Operations: append, is there a packet,
take it, move the packets to the package queue, post the next receive.  Hard: boundaries of
length and buffer, workers that take over from each other without a common lock.
Correct when: the packets handled are the packets sent, however the stream was cut.

**Connections** (`AcceptThread.cpp`, `IocpWorkerThread.cpp`,
`HeartBeatCheckThread.cpp`, `NetworkSession.cpp`, LOGIN and LEAVE_LOBBY).  State: the
registration of each session, its id, `isEnterGame`, the heartbeat flag.  Hard: LOGIN
does not look whether the player still exists; the overlap check reads a map that other
threads change; a player removed twice, an iterator used after its entry was erased, an
answer that waits in the queue when the time is over.  Correct when: no id is in the
game twice, the lobby lists who is in the game, a live player who answers stays, and a
dead one goes.

**Packet layouts** (the `*PacketData` files, `MemoryStream.cpp`, `TcpPacket.cpp`).
State: the stream and the header of each packet, which is used over and over.
Operations: Deserialize of 25 requests, WriteData and Serialize of their replies, reset.
Hard: the order of members, of parameters and of arguments differ from class to class;
the lobby is listed while others change it.  Correct when: a client that reads what the
classes declare gets what the server meant.

**Threads** (`SystemThread.cpp`, `IOCP.cpp`, `Network.cpp`, `Main.cpp`).  State: `isRun`,
the exit event.  Hard: the flag is set after the thread began; main waits for events, in
an order of its own.  Correct when: no thread uses an object that was deleted, and a
shutdown ends.

Sockets (`RawSocket`, `TcpSocket`, `Locker`), settings, logging, UUID generation, the
vendored JsonCpp headers and the test and UDP stubs hold no protocol state of their own
and are not modelled.

## 2. What is modelled

`Seating.tla` is the abstract specification: what rooms and games promise.  A room
is a line of at most `Capacity` players whose head leads; a player sits at the end of a
line or leaves it; a game begins for all in a line, ends for all of them at once,
and nobody leaves a line while playing.  A server that dies (`Stop`) may leave a line half
turned, but everybody in it.

`RoomProtocol.tla` is the code: the handlers of `RoomProtocol.cpp` and
`GameProtocol.cpp`, one operator each and under the code's names, and the removal of a lost
player.  `RoomHistory.tla` adds the players of whom a request came late, and the properties
that speak of them.  `RoomProtocolProofs.tla` holds the proofs, `MCRoomProtocol.tla` and
`MCRoomHistory.tla` the sets of requests for TLC.

`Channel.tla` is the abstract specification of a connection in one direction: messages
are taken out once each, in the order in which they were put in.  `SendPath.tla` (what
the server sends) and `ReceivePath.tla` (what it receives) are the code, and each
implements it.  `SendPathProofs.tla`, `ReceivePathProofs.tla` and
`ReceiveChannelProofs.tla` prove about them.

`Sessions.tla` is the life of a connection: accept, log-in and log-out, heartbeat, loss
and removal.  `Server.tla` is the life of the process: accounts, their file, threads,
shutdown, and a crash at any point.  `SessionsProofs.tla` and `ServerProofs.tla` prove
about them.

`PacketTables.tla` holds the members of the classes of the `*PacketData` files in the
order in which they are declared, read and written; `PacketData.tla` is the way of a
value from a request, or from the server's state, through WriteData and a packet to the
client that reads it.  `PacketDataProofs.tla` (packets and lists) and `PacketReadProofs.tla`
(what is read) prove about it.

An `MC` module for each gives TLC its sets.

**How they meet.**  ReceivePath ends where RoomProtocol's `Dispatch` begins, and SendPath
begins with the packets that a handler pops.  They are checked apart; what RoomProtocol
takes of the other two (a client's requests are handled in order, its answers reach it
in order) is what they show.  RoomProtocol and Sessions share PlayerManager and the
lobby: Sessions has the players who are not in a room (everybody who logs in and out),
RoomProtocol those who are logged in; each has the removal of a lost player at every
point.  Server has the accounts that Sessions' LOGIN looks for, and the threads whose
turns the other modules take apart.  PacketData says what is in the messages that the
others only name.

### State of RoomProtocol

| variables | in the code |
|---|---|
| `players`, `roomPlayerMap`, `gamePlayerMap` | PlayerManager; `Absent` is a missing key, `Null` a NULL value |
| `lobby` | `Lobby::players`, as the number of times a player is listed |
| `rooms`, `joinRoomMap` | RoomManager |
| `roomName` ... `isLeader` | the fields of Room and RoomPlayer |
| `games`, `returnRoom`, `gamePlayers`, `gameLeader`, `loading` | GameManager, Game, GamePlayer |
| `screen`, `gameKey` | what the last packet queued for a client tells it: where it stands, and its game's key |
| `outdated` | what its client shows until that packet reaches it: one entry for each packet in its send queue that will change the screen |
| `request` | each client's request on its way: network, receive path, package queue |
| `current` | the package whose player was found and whose body is due |
| `leaving` | the players that a worker has removed from PlayerManager and not yet from the Lobby |
| `crashed` | a handler went through a NULL pointer |

The RoomPlayer object of player `p` in room `r` is the pair `<<p, r>>`, its GamePlayer in
game `g` is `<<p, g>>`: a player has one of each at most while the room or the game is
listed.  Fields of objects that nothing reaches any more are put back to their initial
values.

### Steps of RoomProtocol

- `Send(p)`: a client sends a request that its screen offers (`Requests`), and waits until it
  is handled.  The screen is the client's own (`View`), which what the server has queued since
  may not have reached.  The client is not in the repository; that it asks for a room only from
  the lobby, has one request open until that is handled, and waits for the reply of one that
  lets it into a room or out of it (`AwaitsReply`), is assumed of it.  Broadcasts it does not
  wait for.
- `Dispatch(p)`: the handler's FindPlayer.  Which client's request is next is arbitrary:
  the queue is FIFO, but how long a packet takes to get into it is open.
- `Handle`: the rest of the handler.  It is a second step because the player may be removed in
  between.  It is one step because the other threads share no more with it than the
  lobby list, which it changes once, and the player's second look-up in the relays of a
  host (`RelayFromHost`), which it does once.
- `Deliver(p)`: a sender thread has sent the next of the packets queued for `p`, and its
  client reads it.  `Handle` only queues (`QueueNews`).
- `RemovePlayer(p)`, `RemoveFromLobby(p)`: the two calls of a worker (or of the
  heartbeat thread) for a lost connection, at any time, with anything between them.

`Touched` and `Inserted` are the two container operations that matter: `operator[]` adds a NULL
entry, `insert` does not replace one.  `LobbyRemovals` is the loop of
`Lobby::RemovePlayer` with the entries that it skips; that it makes no difference is a result
(`OneSeat`), not an assumption.

Left out of the handlers: the contents of packets, which are PacketData's, logging, the
log-in flag `isEnterGame` in the broadcasts, and chat.  The maps and vectors that several
threads use without a lock are changed in one step each; what a torn read of them may do
is undefined in C++ and listed as a hazard.  Allocation never fails.  A request whose protocol
number is registered nowhere makes `ProtocolManager::Execute` call a NULL function
(`ProtocolManager.cpp:51`); the modelled clients know the protocol and send none.

### SendPath

A packet is taken from the pool and filled (`PopPacket`), waits among a producer's packages for
the broadcast (`BroadCastPacket`), in the session's `sendPacketQueue`, goes to WSASend
under the session's lock (`SendPacket`), waits in the sender's `tempPackets` until the lock is
released (`UnlockSession`) and then in `completedSendPacketQueue` (`PushCompleted`), from
which a completion takes it back to the pool (`OnSent`).  A packet in a queue of a player who was
removed stays there, counted as kept, and does not come back.  Producers are the packet thread
and the heartbeat thread.  `MoreToSend` and `Returned` are the two loops that count up to the size of
the queue that they shorten: of n packets they take (n+1)/2.  A completion may come at any time
after its send, also before `PushCompleted`; of a lost connection it may be an aborted one
(`SendAborted`), and a send may fail with none.  `content` is what is serialized into a packet, so that a
packet overwritten while it waits shows as a wrong message.  `AddPlayer` and
`RemovePlayer` are what PlayerManager does to the senders' shares; a sender works on a copy
(`todo`), which may name a player just removed.  The pool is a set: that it is a stack makes no
difference to any property.

### ReceivePath

A byte is the message it belongs to and its place in it.  A receive brings any number of
the bytes that have arrived (`CompleteReceive`) or fails (`FailReceive`); any idle worker takes the
completion and appends the bytes to the stream buffer (`PutStream`), cuts packets out of it one by one
(`DeserializePacket`), reads the size of the queue (`GetRecvQueueSize`), moves as many packages
(`GetPacketFromRecvQueue`, `PutPackage`, each under its own lock) and posts the next receive
(`Receive`).  The packet thread locks the package queue, reads its size (`LockQueue`) and handles as many
packages (`Execute`).  `PutStream` does not look at the end of the buffer; what happens after it has written
past it is undefined, and the model ends there (`overrun`).  A receive asks for
`MAX_BUFFER_LENGTH` bytes whatever rest there is, and nothing restrains a client, so that this does
happen in the run; `OverrunExplained` says what it takes.  Clients send well-formed messages, of at least
a header and at most a buffer; the branch of `IsMakePacket` for other lengths is left out.

### Sessions

| variables | in the code |
|---|---|
| `players` | the keys in `PlayerManager::players` |
| `isEnterGame`, `playerID`, `isRecvHeartBeat` | fields of Player and NetworkSession |
| `lobby` | how often `Lobby::players` lists a player |
| `connection`, `failed` | the client, and failed completions that no worker has taken |
| `screen`, `request`, `asked` | what a client was told, asks, and owes the heartbeat |
| `loggingIn`, `lobbyDue` | the player in the middle of LOGIN; those between a worker's two removals |
| `beat`, `iter`, `todo` | where the heartbeat thread is in its loop, at whom, and who is to come |
| `failures`, `missed` | history: failed operations of each player, and who missed a heartbeat |
| `late`, `lateLogin`, `fault` | history, for the properties |

`LoginEnter` is the overlap check with EnterToGame, `LoginLobby` the entry into the lobby
with the reply; in between a worker may remove the player.  `WorkerRemove` and
`WorkerLobby` are a worker's two removals after a failed completion.  The heartbeat
thread visits one player at a time: it looks at the flag (`Visit`), resets it and asks
(`ResetThenPush`, `PushHeartBeat`), or removes (`RemovePlayer`, `RemoveFromLobby`); the
erased entry's iterator may go on to anybody that it had yet to visit, or end the round.
A new player may or may not be met by an iteration under way, since keys are random.
`Dies` is the access through the NULL entry that a second removal finds.  A client is lost once
(`Lose`), and up to two of its operations fail with it, each completion with a removal of its own.
`LEAVE_LOBBY` joins the look-up of the player with the handler's body, which RoomProtocol takes apart
for the rooms; `Removed` joins Release and the erase, as no other step reads what is between them.

### Server

`main` is where the main thread is: it loads the accounts (`Load`, which takes a file that it
cannot open for an empty one), starts the threads one by one, `Create` and
`SetRun` being the two halves of `SystemThread::Start`; serves until a key is pressed
(`Quit`); and releases: Winsock goes down (`CutOff`), the accounts are made into text and
the file is emptied (`OpenFile`) and written, or not (`WriteFile`), or it cannot be opened and
nothing is done (`FailOpen`), UserDB is deleted (`DeleteUserDB`), and threads are stopped and
waited for in turn (`Stop`, `WaitForExit`).  A thread looks at its flag (`Look`) before each turn,
sets its event when that is down and returns a step later (`Leave`): main may have deleted its
object by then, which it does not use any more.  REGISTER_USER is
two steps of the network thread, at any time until that has ended, also between the
steps of main.  `Kill` is the end of the process at any point.  `Ansi` is the conversion
through the code page (`UserDB.cpp:18`): an account whose id it cannot represent is
acknowledged and not found again, and `promised` leaves it out.

Three histories say what a loss is held against.  `promised` has the acknowledged accounts but
for those whose loss a fault excuses; `saved` what was promised when the file was written last;
`unread` what was promised when this start could not read the file.  What a fault excuses is said by what
was saved and when it strikes, not by what is found in the file afterwards: a crash, or a file
that cannot be opened for writing, what was acknowledged since the last save; a crash or a
failure while the file is written, everything; and a save after a start that could not read,
what was `unread`.

### PacketData

A value names itself: the member it is of, the message, the place in a list.  A handler
reads a request by `Order`, passes `Arguments` to WriteData, whose `Parameters` assign
the members, and serializes them by `Order` into a packet (`Put`); the client reads the
frame by `Members`, what the class declares (`ClientReads`; `Cursor` is where it is behind
each member, a list being as long as the last number before it said).  `Meant` is what it
should find.  The lists of the lobby are
made entry by entry while workers erase players from the vector (`ListPlayer`,
`RemovePlayer`): an entry past the end is the stale last slot.  `OnSent` resets the
packet, which is used again.  A packet made for a player whom a broadcast leaves out, or for one that the
heartbeat thread removes, is in no queue and not in the pool (`LeaveOut`); the pool is filled when it
is empty (`Filled`), and packets that are in no place stand for the new ones.

## 3. Properties and runs

`CHECK_DEADLOCK FALSE` stands in the room runs because the system may stop: after a fault, and
when every connection is lost; in the receive run because clients may have nothing more to
send; in the sessions run because the process may die; and in the server run because it
is not started again for ever.  The send runs check for deadlock (a sender thread never stops as
long as one player is there), and so does the packet run, in which the pool is filled again when it is empty.

| run | instance | checks |
|---|---|---|
| `room_races` | 2 players, either may be lost; rooms for 2; 2 requests open; one request kind for every way a handler touches the state | `TypeOK`, `OneSeat`, `Located`, `RegistryAgrees`, `GamesWellFormed`, `GameRegistryAgrees`, `ClientsInStep`, `StrandedExplained`, `NullExplained`, implements `Seating` |
| `room_crowd` | 3 players, all may be lost; rooms for 2, 2 names | `RoomsWellFormed`, `LeaderIsFront`, `UniqueNames` |
| `room_line` | 3 players, a room for 3, 1 request open, every kind of request | `LeaderHandover` |
| `room_leave` | 2 players, one may be lost; 2 requests open, fair | `LeaveServed` |
| `room_stranded` | 2 players, 1 request open | `LeaveObeyed`, violated |
| `room_no_heir` | 2 players, 1 request open | `LeaderReplaced`, violated |
| `send_races` | 2 players, one may be lost, both may be left out; 4 packets, of which 2 are added when the pool is empty; 2 messages, 2 producers, 1 sender | `TypeOK`, `OnePlace`, `LostOnlyLeftOut`, implements `Channel` |
| `send_progress` | 2 players, one may be lost; 3 packets, broadcasts of 2, 2 senders, fair | `EventuallySent`, `EventuallyReturned` |
| `receive_path` | 2 clients, one of up to 3 messages who may be lost and one that sends one message, 2 workers; messages of 2 and 3 bytes with a header of 2, a buffer of 6 that may overrun, fair | `TypeOK`, `OneReader`, `LeavesLessThanOne`, `OverrunExplained`, `EventuallyHandled`, implements `Channel` |
| `sessions` | 2 connections, 1 id that both may log in with; 2 operations of a lost client may be seen to fail, or none; fair | `TypeOK`, `OneLogin`, `LobbyAgrees`, `OnTimeStays`, `FaultExplained`, `LostRemoved` |
| `server_life` | 3 starts, 3 accounts (two passwords for one id, an id that the code page cannot represent), 1 sender, 2 registrations in a turn, fair | `TypeOK`, `Durable`, `DeletedAfterExit`, `ShutdownEnds` |
| `packet_data` | 3 players in and out of the lobby, 1 packet, pairs of requests of all 25 kinds, lists of up to 2 rows | `TypeOK`, `ReadAsMeant`, `LobbyListed` |

**Bounds.**  Two players are the least for which requests overlap; three are the least for which a
line has a second heir, a room is full for somebody, and somebody joins during a game.
`MaxInFlight = 2` lets one request overtake, or be made stale by, another; a third open
request adds only further stale requests of the same kinds.  Packets on their way to a client
have no bound but the one that the client's waiting gives.  `room_line` has one request open, since
every kind of request of three players in a game is much to combine, and requests are made stale by late
packets there; `HandoverAlways` proves its property for any number.  `RoomIds` and
`GameKeys` are UUIDs, never given twice; an id is given again in the model when nothing
mentions it.  There are enough of them that no creation waits for one: at most one room for
each name (or each player), and one more for an id in an old request.  `MAX_ROOM_USER` is 4 in
the code and 2 or 3 here, so that the limit is reached; the proofs are for any limit.

In SendPath three packets are the least for which a turn of either loop leaves some and takes some
more than one; the fourth lets the pool grow.  `MaxPending` bounds the completions under
way, `MaxPackages` the packages of one broadcast, `Packets` what is ever allocated: a
producer or sender that reaches a bound waits.  In ReceivePath a header of 2 bytes is the least that a
receive can cut, messages of 2 and 3 bytes are one without and one with data, and `Window = 5` lets a
receive bring two messages, or one and a part of the next.  `MAX_BUFFER_LENGTH = 6` is
two of the longest messages: a receive of five bytes overruns it behind a rest of two and fits behind
a rest of one, so that one byte too many left in the buffer is an overrun that `OverrunExplained` does not
allow.

In Sessions two connections are the least for which an id may be in the game twice; one of
them may fail twice, so that two workers remove one player, and the other hangs without a
failure, so that only the heartbeat finds it.  In Server two starts are the least in which a file
that was written is read, and the third reads what a start that could not read has left; the sender, the
packet thread and the heartbeat thread are each stopped at another place of the order; and two
registrations in a turn let the second ask for the first one's id.  In PacketData one packet in use
and two requests are the least in which a packet is used again, and each pair of
requests comes in both orders; three players let one be erased before, at and behind the
place that the listing has come to.  `TextLength = 5` and a buffer of 81 bytes are the
least that PacketDataAssumption allows, so that one byte written too many, or one packet not reset, is
out of bounds.

**Fairness** (`FairHistorySpec` of RoomHistory, for `LeaveServed` only).  ProcessPacketThread comes back
every 10 ms and empties a FIFO queue, so a body that is due is done (WF on `Handle`) and a request in
the queue is not passed over for ever (SF on `Dispatch`); the sender threads take their turns (WF on
`Deliver`, which SendPath's `EventuallySent` justifies); a worker that began a removal ends
it (WF on `RemoveFromLobby`).  Nothing makes a client send or a connection break.
In SendPath the sender threads come back every 10 ms, a broadcast that has begun goes on, and the
operating system completes every send, with success or with an error (WF on each).
`EventuallyReturned` takes the further sends as its premise: the server need not send anything more, and then a packet
whose completion came too early stays where it is.  In ReceivePath bytes that
have arrived complete a posted receive, and workers and the packet thread go on (WF on each); a
worker that wants the package queue's lock gets it, since the packet thread sleeps without it after each
batch, and weak fairness is enough because clients send a bounded number of messages.
In Sessions only the heartbeat thread is fair: it sleeps for five seconds and no longer, and
everything it does between is a few instructions; no failure need be reported, and no request be handled.
In Server main goes on once it is in `Run` or `Release`, threads get their turns, return when they have
set their event, and handlers end (WF on each); nobody need press a key or start the server, and `Kill` is never forced.

**What the two violations show.**  ROOM_START unregisters the members' RoomPlayers and only queues the
packets that tell them.  A room request that a member sends before its packet arrives is handled
afterwards, finds no RoomPlayer, and `operator[]` leaves a NULL entry, which the end of the game
does not replace.  One open request is enough, as both runs show.  `room_stranded`: when
the game is over READY, START and LEAVE of that member do nothing, against the steps that LEAVE_ROOM's
comment lists.  (That LEAVE is ignored while a game is played is another matter, and
`Seating` asks for it: `LeaveObeyed` speaks of rooms in which no game is played.)  `room_no_heir`: if
such a member is next in line when the leader leaves, the server goes through the NULL
pointer.  `room_races` and `room_leave` show the other side: it takes a request that came late, from
the member itself or from the heir, where a request is late if news that were queued before
it was handled, and had not reached the client before it was sent, took the client to another screen or game.
Whose requests are all in time is not stranded by what others do, by losses or by games that
end, and its wish to leave is served.

## 4. What is proved

Eight modules hold theorems.  Each is for every value of the constants that the module's
assumption allows.

**RoomProtocol** (`RoomProtocolProofs`), for every set of players, rooms,
names and games, every limit, every bound and every choice of players that may be lost,
from `ConstantsAssumption`:

- `Invariance`: `Spec => []IInv`, and from it a theorem for each invariant that the race
  runs check: `TypeCorrect`, `OneSeatAlways`, `LocatedAlways`, `RoomsAlways`, `LeaderAlways`,
  `RegistryAlways`, `GamesAlways`, `GameRegistryAlways`, `ClientsAlways`, `NamesAlways`;
- `Implementation`: `Spec => ImplementsSeating`;
- `HandoverAlways`: `Spec => LeaderHandover`;
- `StrandedAlways`: `HistorySpec => []StrandedExplained`, and
- `NullAlways`: `HistorySpec => NullExplained`, both for any number of requests and of packets on
  their way.

`IInv` is the conjunction of those ten invariants.  None is
inductive alone: that a joining player is in no other room (`OneSeat`) rests on its request having
come from the lobby (`ClientsInStep`); that a leaving player is in no game rests on
`GamesWellFormed` (its RoomPlayer would not be registered); that the games of a closing room are
over rests on both; that a counter of 1 means a line of one rests on `RoomsWellFormed`.
The runs check each conjunct, so TLC has looked for a counterexample to every part of it.

A handler changes at most a few of the twenty-five variables, and
there are nineteen handlers; but what they do to `IInv` is one of six effects
(`Quiet`, `SitsDown`, `Departs`, `StartsGame`, `FinishGame`, `Topples`).  The proofs show once
that each effect keeps `IInv` (lemmas named `...Step`), that every handler has one of the
effects (lemmas named `...Effect`, collected in `HandleEffect`), and that the steps of
clients, dispatch, senders and workers keep it (`OutsideStep`).  The facts about sequences that this
needs stand first: appending, removing the one place of a player, and the rotation followed by
the removal that `LEAVE_ROOM` does for a leader (`LeaderErased`: the result is the tail of the
line, which is why the places that name the leader agree).  `Implementation` maps the same
effects to the steps of `Seating`.

The two theorems of `RoomHistory` say how far the defects of section 3 reach: every fault takes
a request that came late.  They rest on `Registered`: for every player who is not late the maps
hold what the server has told its client (in a room its RoomPlayer, in a game its GamePlayer and
no RoomPlayer, in the lobby neither), and every player of a game was told of it.  It is kept because a
handler that only looks up (`QuietRegistered`) adds a NULL entry only where the request does
not fit, which makes the player late; and because GAME_END (`FinishedFromGame`) is of the sender's
own game when it fits.  `HeirLate` says of an heir without a RoomPlayer that it is late: it is not in
a game, as the leader is not, and so it would be registered.  Neither theorem bounds the requests or the
packets on their way.

**ReceivePath**, for every number of players and workers, all lengths and every bound, from
`ReceivePathAssumption`:

- `OneReaderAlways` and `SizeAlways` (`ReceivePathProofs`): one worker at a time serves a
  session, and `PutPackageToNetwork` never pops an empty queue.  Their inductive invariant joins the
  two with the types they speak of and with `Busy`: a worker is idle exactly when it has no
  session, and holds at most one packet, which it does only while it moves packets.
  `SizeStillRight` needs `OneReader`: only then is the queue that a worker has counted nobody else's.
- `ReceiveTypes`, `LeavesLessThanOneAlways`, `OverrunExplainedAlways` (`ReceivePathProofs`).
  The stream of a client is the buffer, what was read and what is under way, one after the
  other.  `StreamsWhole` says of each byte in it that the bytes of its whole message are around
  it, each at its distance; cutting a message off the front, or moving bytes from one part to the
  next, keeps that, and so the first byte of the buffer is always the first of a message, whose
  length the header gives.  What is left in the buffer is therefore less than a message at every
  receive, and only a receive that is longer than what fits behind that can overrun it
  (`Overfilled`).  `UnderWay` and `Counted` bound what is behind it.  Stated by
  positions, it needs no induction over the stream.
- `ReceiveImplementsChannel` (`ReceiveChannelProofs`): `Spec => ImplementsChannel`.  The line of
  a client in `Channel` is made of the messages that are on their way (`OnTheWay`), whatever
  container they are in, put in order by the numbers that they were sent with (`InOrder`).
  That mapping is a function on numbers and not a concatenation and filter of containers, so
  that no induction is needed either; it would hide a message that is twice on its way, or one out of its
  turn, and therefore the proof rests on `LineInv`, which rules both out and is proved with it
  (`LineInvariance`).  `LineInv` says at which number each stretch of a client's messages begins and ends:
  handled up to `Done`, then those in the package queue up to `PutUpTo`, one in a worker's
  hand, those cut out of the stream from `Moved`, those in the stream from `Cut` to the last
  that was sent.  A step moves the end of one stretch and the beginning of the next together.

**SendPath** (`SendPathProofs`), for every number of players, packets, producers and senders,
from `SendPathAssumption`:

- `SendTypes`, `OnePlaceAlways`: the inductive invariant says that there is a function that
  gives each packet a place, and that each queue holds packets of its own place only, each
  once (`InPlace`).  Every step that passes packets on is a move of that function (`Moved`),
  and a move out of one place leaves the queues of all others as they are (`Frame`).  Shares
  hold open connections, once each, which is why the erasing loop takes a player out wholly.
- `SendImplementsChannel`: a packet that is filled or reset is in neither a package nor a
  send queue (`ContentChanges`, from the places), so what waits for a client is what was
  pushed, and a turn of a sender takes the oldest.
- `LostOnlyLeftOutAlways`: `Spec => LostOnlyLeftOut`.  The number of places that the property
  counts is 1 for a packet that is kept somewhere and else 0 (`OwnPlaceIsOne`), and a packet
  that is kept stays so in every step (`StepKept`) but that of a broadcast that skips a player.

**Sessions** (`SessionsProofs`), for every number of connections, ids and failures, from
`SessionsAssumption`: `SessionsTypes`, `OneLoginAlways`, `LobbyAgreesAlways`,
`OnTimeStaysAlways`, `FaultExplainedAlways`.  To the five invariants `IInv` adds
what they rest on: a key not given yet is known to nobody (`NewIdle`); the heartbeat thread
is at a player that it is entitled to remove (`BeatAt`); a client's screen agrees with
`isEnterGame`, so that who asks to be logged in is not (`ScreenAgrees`); the player in the
middle of LOGIN is not listed yet (`InLogin`); nobody is listed twice before it was listed
late (`ListedOnce`); a client that did not answer was asked (`Asked`); and every removal,
made or under way, is of a failed operation or the one of a missed heartbeat (`Accounted`).  One lemma for each step
of each thread shows that it keeps each part.

**Server** (`ServerProofs`), for every number of accounts, senders, starts and
registrations in a turn, from `ServerAssumption`: `ServerTypes`, `DurableAlways`,
`DeletedAfterExitAlways`.  `Durable` is inductive with `Connected` (Winsock is up only while
what is acknowledged can still be saved): what was saved is in the file unless that is being
written, what is promised is in the list that will be saved or was not read, and main takes it through the
text into the file in this order.  `DeletedAfterExit` is inductive with `Signalled` (an event
is set only by a thread that does not use its object any more), `FirstPlace` and `NotYet`, which say how far
main has come in the list of threads that it starts and ends.

**PacketData** (`PacketDataProofs`, `PacketReadProofs`), for every number of players, packets,
requests and rows and every length of text and of buffer, from `PacketDataAssumption` (the
buffer holds the longest reply; nothing in the code compares the two, which is why it is an
assumption):

- `OnePlaceAlways`: `Spec => []TypeOK`; no packet is in two of pool, send queues and completed
  sends, or in one twice, although the pool grows and packets are forgotten.
- `LobbyListedAlways`: `Spec => []LobbyListed`.  While a list is made (`Listing`), who was
  counted and not lost is who stands in the lobby, and those who have been passed over
  (`PassedOver`: they stand before the next place to be listed and are not in the list) are no
  more than were lost: an erase moves one player at most across the place that the loop has
  come to.  Stale slots behind the end hold players who were counted.  When the last name is
  made, those passed over are all who are missing.
- `PacketsCarry`: `Spec => []RInv`, and from it `ReadAsMeantAlways`: `Spec => []ReadAsMeant`,
  with the bound on what is written into a buffer.  `RInv` is the invariant of the two
  theorems above with `Carried` (from SendData until the client has it, a packet holds what
  `Serialize` wrote of `Meant`, and its header has the length of that; a packet in the pool is
  empty, or the next message would be written behind the old one) and `Handling` (a handler
  answers with what it read of the request it handles, and with a reply of that request).

`ReadAsMeant` alone speaks of the packet that is just read, and is not inductive: the packet
comes from a queue, into which WriteData and Serialize put it.  The argument that one class
of messages is read as it was written does not depend on the class.  `RoundTrip`: if the
members are written in the order in which they are declared, no name twice, and each list
has its length in the last number before it, the client's cursor behind the first `j` members
is the length of their blocks, and it reads of each block what was written.  `BytesOfMessage`: a
message has no more bytes than `Most` allows each of its values.  What does depend on the
class is that it has this form, and that the arguments of the handler stand for the
members that WriteData's parameters assign (`Says`, `Asks`): the lemmas named `...Classes` look
at the 62 classes one by one.  `MeantFits` puts in the lengths.

`Serialize`, `Offset` and `Cursor` are two folds and a recursive function, and the messages are of any
length, so this takes induction over data.  The library's induction rules have an operator
for a parameter, which the provers cannot instantiate; but the least element of a set of
natural numbers (`WFMin`) does not.  `Induction` says that a set that has 0, and with each
number the next, has all, so that the statement to prove is the set of the numbers it holds of;
`Recursion` that a recursive definition over `0..n` has the value that it says.  From
these two, `Flattened` and `OffsetSums` say what the folds compute.

**Only model-checked.**  The liveness properties (`LeaveServed`, `EventuallySent`,
`EventuallyReturned`, `EventuallyHandled`, `LostRemoved`, `ShutdownEnds`), which are out of the
prover's reach, and the two violations.  Every other property of a run is proved.

## 5. Not modelled

- The start of the workers and the accept thread, their end (nobody waits for them), and clients
  that are accepted before `Network::Initialize` is through: undefined behaviour from there on.
- Overlapped I/O on a buffer that is freed, or an OVERLAPPED that is used again, while the
  operation is pending: it depends on the operating system.
- Containers torn by two threads at once: an operation on one is a step, except for the listing of the
  lobby and the heartbeat's iteration, which are steps for each entry.  An erase leaves the last slot of
  a vector stale.
- Clients.  They are not in the repository; they ask for what their screen offers, send
  well-formed messages and read what the classes declare.  Headers with a length that no message
  has and protocol numbers that nobody registers are left out, and so is what a client thinks of its
  room's members and their ready states.
- Lists of the lobby that are longer than a packet's buffer: nothing limits them in the code, and
  PacketData assumes that they fit.
- Accounts that the code page cannot represent are acknowledged and then not found again
  (`UserDB.cpp:18`): Server has them, and no property promises them anything.
- Bytes within a member and the encoding of texts, but for how many there are.
- JsonCpp, sockets, logging, settings, UUIDs (ids are fresh), the UDP and test parts.

## 6. Plan

What stands: `Seating`, `RoomProtocol`, `RoomHistory`, `Channel`, `SendPath`, `ReceivePath`, `Sessions`,
`Server`, `PacketTables` and `PacketData`, with the proofs above.  What is left, in this order:

1. `ClientViews`: a client's list of its room's members, leader and ready states, built from the
   snapshot and the broadcasts, against the server's; clients that join during a game.
2. Sessions with rooms: one module of both, in which a player who sits in a room hangs and the
   heartbeat removes it.
