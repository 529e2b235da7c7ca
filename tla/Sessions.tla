------------------------------ MODULE Sessions ------------------------------
(***************************************************************************)
(* The life of a connection: accepted, logged in and out, asked for        *)
(* heartbeats, and removed when it is lost, by the worker that sees an     *)
(* operation fail or by the heartbeat thread.  Which accounts there are is *)
(* Server's matter, rooms and games are RoomProtocol's: nobody leaves the  *)
(* lobby for a room here.                                                  *)
(*                                                                         *)
(* The threads take no lock over what they share.  Their steps are single  *)
(* accesses to a container or to a player's fields, in any order.  An      *)
(* access through NULL ends the process (Dies).                            *)
(***************************************************************************)
EXTENDS Integers

CONSTANTS
  Keys,        \* keys of players: one for each connection, never given twice
  Ids,         \* what clients log in with
  MaxFailed,   \* bound: how many operations of a lost client are seen to fail
  None

Login(id) == [protocol |-> "LOGIN", id |-> id]
Leave == [protocol |-> "LEAVE_LOBBY"]
Requests == {Login(id) : id \in Ids} \cup {Leave}
Unanswered == [protocol |-> "UNANSWERED"]

ASSUME SessionsAssumption ==
  /\ MaxFailed \in [Keys -> Nat]
  /\ None \notin Keys \cup Ids \cup Requests

VARIABLES
  players,          \* the keys in PlayerManager::players
  isEnterGame, playerID, isRecvHeartBeat,  \* fields of Player and NetworkSession
  lobby,            \* how often Lobby::players lists each player
  connection,       \* "NEW", "OPEN" or "LOST": the client is gone or hangs
  failed,           \* failed completions that no worker has taken yet
  screen,           \* what the client was told last: "LOGIN" or "LOBBY"
  request,          \* its request on the way to the handlers
  asked,            \* the heartbeat: "NONE", "ASKED" or "ANSWERED" until handled
  loggingIn,        \* the player in the middle of LOGIN
  lobbyDue,         \* players that a worker has yet to take out of the lobby
  beat,             \* where the heartbeat thread is
  iter, todo,       \* the player it is at, and those that it has yet to visit
  \* history
  late,             \* players whose answer was on its way when the time was over
  lateLogin,        \* players whom LOGIN has listed after their removal
  failures,         \* how many operations of each player failed, in one loss
  missed,           \* players on whom the heartbeat thread has given up
  fault             \* the player by whose NULL entry the process ended

playerVars == <<players, isEnterGame, playerID, lobby>>
clientVars == <<connection, failed, screen, request>>
beatVars == <<isRecvHeartBeat, asked, beat, iter, todo, late>>
vars == <<playerVars, clientVars, beatVars, loggingIn, lobbyDue, lateLogin, failures, missed,
          fault>>

Init ==
  /\ players = {}
  /\ isEnterGame = [k \in Keys |-> FALSE]
  /\ playerID = [k \in Keys |-> None]
  /\ isRecvHeartBeat = [k \in Keys |-> TRUE]
  /\ lobby = [k \in Keys |-> 0]
  /\ connection = [k \in Keys |-> "NEW"]
  /\ failed = [k \in Keys |-> 0]
  /\ screen = [k \in Keys |-> "LOGIN"]
  /\ request = [k \in Keys |-> None]
  /\ asked = [k \in Keys |-> "NONE"]
  /\ loggingIn = None /\ lobbyDue = {}
  /\ beat = "SLEEP" /\ iter = None /\ todo = {}
  /\ late = {} /\ lateLogin = {}
  /\ failures = [k \in Keys |-> 0] /\ missed = {}
  /\ fault = None

Running == fault = None

Dies(k) ==
  /\ fault' = k
  /\ UNCHANGED <<playerVars, clientVars, beatVars, loggingIn, lobbyDue, lateLogin, failures,
                 missed>>

-----------------------------------------------------------------------------
(* Connections and clients.                                                *)

\* AcceptThread and Network::RegisterAcceptSession.  The map is ordered by keys,
\* which are random: an iteration under way may or may not come to the new player.
Accept(k) ==
  /\ Running /\ connection[k] = "NEW"
  /\ connection' = [connection EXCEPT ![k] = "OPEN"]
  /\ players' = players \cup {k}
  /\ todo' \in {todo} \cup (IF beat = "SLEEP" THEN {} ELSE {todo \cup {k}})
  /\ UNCHANGED <<isEnterGame, playerID, lobby, failed, screen, request, isRecvHeartBeat,
                 asked, beat, iter, late, loggingIn, lobbyDue, lateLogin, failures,
                 missed, fault>>

ClientUnchanged ==
  UNCHANGED <<playerVars, isRecvHeartBeat, beat, iter, todo, late, loggingIn, lobbyDue,
              lateLogin, missed, fault>>

Send(k) ==
  /\ Running /\ connection[k] = "OPEN" /\ request[k] = None
  /\ \/ /\ screen[k] = "LOGIN"
        /\ \E id \in Ids : request' = [request EXCEPT ![k] = Login(id)]
     \/ /\ screen[k] = "LOBBY"
        /\ request' = [request EXCEPT ![k] = Leave]
  /\ UNCHANGED <<connection, failed, screen, asked, failures>>
  /\ ClientUnchanged

Answer(k) ==
  /\ Running /\ connection[k] = "OPEN" /\ asked[k] = "ASKED"
  /\ asked' = [asked EXCEPT ![k] = "ANSWERED"]
  /\ UNCHANGED <<clientVars, failures>>
  /\ ClientUnchanged

\* The client hangs, or is gone: then the receive that is always pending fails, and
\* sends may fail too (each completion is handled on its own), or nothing does while the
\* network is silent.  What it has sent before may still be handled.
Lose(k) ==
  /\ Running /\ connection[k] = "OPEN"
  /\ connection' = [connection EXCEPT ![k] = "LOST"]
  /\ \E n \in 0..MaxFailed[k] :
       /\ failed' = [failed EXCEPT ![k] = n]
       /\ failures' = [failures EXCEPT ![k] = n]
  /\ screen' = [screen EXCEPT ![k] = "LOGIN"]
  /\ request' = [request EXCEPT ![k] = IF @ = Unanswered THEN None ELSE @]
  /\ asked' = [asked EXCEPT ![k] = IF @ = "ASKED" THEN "NONE" ELSE @]
  /\ ClientUnchanged

-----------------------------------------------------------------------------
(* ProcessPacketThread: one handler at a time.                             *)

HandlerUnchanged ==
  UNCHANGED <<connection, failed, beat, iter, todo, late, lobbyDue, failures, missed, fault>>

Handled(k) == Running /\ loggingIn = None /\ request[k] # None

\* A reply is pushed to the player's queue; only of those in PlayerManager is it sent.
Delivered(k) == k \in players /\ connection[k] = "OPEN"
Waits(k) == k \notin players /\ connection[k] = "OPEN"
Reply(k) == request' = [request EXCEPT ![k] = IF Waits(k) THEN Unanswered ELSE None]

\* Wrong variant: only the asking player's own entry is looked at.
OverlapedLoginCheckSelf(id, k) ==
  \A p \in players \cap {k} : ~(playerID[p] = id /\ isEnterGame[p])

OverlapedLoginCheck(id, k) == \A p \in players : ~(playerID[p] = id /\ isEnterGame[p])

\* LOGIN of an account that UserDB has, up to Player::EnterToGame ...
LoginEnter(k, id) ==
  /\ Handled(k) /\ request[k] = Login(id)
  /\ OverlapedLoginCheck(id, k)
  /\ isEnterGame' = [isEnterGame EXCEPT ![k] = TRUE]
  /\ playerID' = [playerID EXCEPT ![k] = id]
  /\ loggingIn' = k
  /\ UNCHANGED <<players, lobby, lateLogin, screen, request, isRecvHeartBeat, asked>>
  /\ HandlerUnchanged

\* ... and from Lobby::EnterPlayer on.
LoginLobby(k) ==
  /\ Running /\ loggingIn = k
  /\ loggingIn' = None
  /\ lobby' = [lobby EXCEPT ![k] = @ + 1]
  /\ lateLogin' = lateLogin \cup ({k} \ players)
  /\ Reply(k)
  /\ screen' = [screen EXCEPT ![k] = IF Delivered(k) THEN "LOBBY" ELSE @]
  /\ UNCHANGED <<players, isEnterGame, playerID, isRecvHeartBeat, asked>>
  /\ HandlerUnchanged

\* UserDB does not have the account, or the id is in the game.
LoginRefused(k) ==
  /\ Handled(k) /\ request[k].protocol = "LOGIN"
  /\ Reply(k)
  /\ UNCHANGED <<playerVars, lateLogin, screen, isRecvHeartBeat, asked, loggingIn>>
  /\ HandlerUnchanged

\* What a loop leaves of n entries that steps over the one after each it erases.
LobbyRemovals(n) == 0..(n \div 2)

\* Wrong variant: Lobby::RemovePlayer is called, which does not release the player.
LeavePlayerUnreleased(k) ==
  /\ \E n \in LobbyRemovals(lobby[k]) : lobby' = [lobby EXCEPT ![k] = n]
  /\ UNCHANGED <<isEnterGame, players>>

\* Wrong variant: PlayerManager forgets a player who only logs out.
LeavePlayerForgotten(k) ==
  /\ \E n \in LobbyRemovals(lobby[k]) : lobby' = [lobby EXCEPT ![k] = n]
  /\ isEnterGame' = [isEnterGame EXCEPT ![k] = @ /\ lobby[k] = 0]
  /\ players' = players \ {k}

\* Lobby::LeavePlayer
LeavePlayer(k) ==
  /\ \E n \in LobbyRemovals(lobby[k]) : lobby' = [lobby EXCEPT ![k] = n]
  /\ isEnterGame' = [isEnterGame EXCEPT ![k] = @ /\ lobby[k] = 0]
  /\ UNCHANGED players

\* The player is looked up in the same step: a removal between the look-up and LeavePlayer
\* would only find the player out of the lobby already.
LEAVE_LOBBY(k) ==
  /\ Handled(k) /\ request[k] = Leave
  /\ Reply(k)
  /\ \/ /\ k \in players
        /\ LeavePlayer(k)
        /\ screen' = [screen EXCEPT ![k] = IF Delivered(k) THEN "LOGIN" ELSE @]
     \/ /\ k \notin players
        /\ UNCHANGED <<players, isEnterGame, lobby, screen>>
  /\ UNCHANGED <<playerID, lateLogin, isRecvHeartBeat, asked, loggingIn>>
  /\ HandlerUnchanged

HEART_BEAT(k) ==
  /\ Running /\ loggingIn = None /\ asked[k] = "ANSWERED"
  /\ asked' = [asked EXCEPT ![k] = "NONE"]
  /\ isRecvHeartBeat' = [isRecvHeartBeat EXCEPT ![k] = TRUE]
  /\ UNCHANGED <<playerVars, lateLogin, screen, request, loggingIn>>
  /\ HandlerUnchanged

-----------------------------------------------------------------------------
(* Workers.                                                                *)

\* PlayerManager::RemovePlayer of a key that is in the map, or still is when another
\* thread, too, is about to erase it.  Release and erase are one step here: nobody reads
\* isEnterGame between them but to let the same id log in again, as after both.
Removed(k) ==
  /\ players' = players \ {k}
  /\ isEnterGame' = [isEnterGame EXCEPT ![k] = FALSE]

\* Wrong variant: it does not look whether the completion is a failed one.
AnyCompletion(k) == connection[k] = "LOST"

SeesFailure(k) == failed[k] > 0

\* A worker takes a failed completion.  A key that is not in the map gets a NULL entry,
\* through which Release is called.
WorkerRemove(k) ==
  /\ Running /\ SeesFailure(k)
  /\ \/ /\ k \in players \cup lobbyDue
        /\ Removed(k)
        /\ failed' = [failed EXCEPT ![k] = @ - 1]
        /\ lobbyDue' = lobbyDue \cup {k}
        /\ UNCHANGED <<playerID, lobby, connection, screen, request, beatVars, loggingIn,
                       lateLogin, failures, missed, fault>>
     \/ k \notin players /\ Dies(k)

\* ... and then takes the player out of the lobby.
WorkerLobby(k) ==
  /\ Running /\ k \in lobbyDue
  /\ lobbyDue' = lobbyDue \ {k}
  /\ \E n \in LobbyRemovals(lobby[k]) : lobby' = [lobby EXCEPT ![k] = n]
  /\ UNCHANGED <<players, isEnterGame, playerID, clientVars, beatVars, loggingIn, lateLogin,
                 failures, missed, fault>>

-----------------------------------------------------------------------------
(* HeartBeatCheckThread.                                                   *)

BeatUnchanged ==
  UNCHANGED <<playerID, clientVars, loggingIn, lobbyDue, lateLogin, failures, fault>>

BeginRound ==
  /\ Running /\ beat = "SLEEP"
  /\ beat' = "SCAN" /\ todo' = players
  /\ UNCHANGED <<players, isEnterGame, lobby, isRecvHeartBeat, asked, iter, late, missed>>
  /\ BeatUnchanged

\* Where the loop goes from an entry: to the next, if it is still in the map.  Who
\* follows the link of an entry that is erased may go on or meet the end.
Advance ==
  /\ iter' = None
  /\ \/ beat' = "SCAN" /\ UNCHANGED todo
     \/ iter \notin players /\ beat' = "SLEEP" /\ todo' = {}

Reset(k, step) ==
  isRecvHeartBeat' = [isRecvHeartBeat EXCEPT ![k] = @ /\ beat # step]
Push(k, step) ==
  asked' = [asked EXCEPT ![k] = IF beat = step /\ Delivered(k) THEN "ASKED" ELSE @]

\* Wrong variants: the request is pushed before the flag is reset; it never is.
PushThenReset(k) == Push(k, "SCAN") /\ Reset(k, "PUSH")
PushOnly(k) == Push(k, "PUSH") /\ UNCHANGED isRecvHeartBeat

\* ResetHeartBeat, then PushSendPacketToPacketQueue
ResetThenPush(k) == Reset(k, "SCAN") /\ Push(k, "PUSH")

Visit(k) ==
  /\ Running /\ beat = "SCAN" /\ k \in todo \cap players
  /\ iter' = k /\ todo' = todo \ {k}
  /\ \/ /\ isRecvHeartBeat[k]
        /\ ResetThenPush(k)
        /\ beat' = "PUSH"
        /\ UNCHANGED <<late, missed>>
     \/ /\ ~isRecvHeartBeat[k]
        /\ beat' = "REMOVE"
        /\ late' = late \cup {j \in {k} : asked[j] # "NONE"}
        /\ missed' = missed \cup {k}
        /\ UNCHANGED <<isRecvHeartBeat, asked>>
  /\ UNCHANGED <<players, isEnterGame, lobby>>
  /\ BeatUnchanged

PushHeartBeat ==
  /\ Running /\ beat = "PUSH"
  /\ ResetThenPush(iter)
  /\ Advance
  /\ UNCHANGED <<players, isEnterGame, lobby, late, missed>>
  /\ BeatUnchanged

\* As WorkerRemove.
RemovePlayer ==
  /\ Running /\ beat = "REMOVE"
  /\ \/ /\ iter \in players \cup lobbyDue
        /\ Removed(iter)
        /\ beat' = "LOBBY"
        /\ UNCHANGED <<lobby, isRecvHeartBeat, asked, iter, todo, late, missed>>
        /\ BeatUnchanged
     \/ iter \notin players /\ Dies(iter)

\* The entry is erased; the loop goes on from it all the same.
RemoveFromLobby ==
  /\ Running /\ beat = "LOBBY"
  /\ \E n \in LobbyRemovals(lobby[iter]) : lobby' = [lobby EXCEPT ![iter] = n]
  /\ Advance
  /\ UNCHANGED <<players, isEnterGame, isRecvHeartBeat, asked, late, missed>>
  /\ BeatUnchanged

EndRound ==
  /\ Running /\ beat = "SCAN" /\ todo \cap players = {}
  /\ beat' = "SLEEP" /\ todo' = {}
  /\ UNCHANGED <<players, isEnterGame, lobby, isRecvHeartBeat, asked, iter, late, missed>>
  /\ BeatUnchanged

-----------------------------------------------------------------------------

HeartBeat == \/ BeginRound \/ \E k \in Keys : Visit(k)
             \/ PushHeartBeat \/ RemovePlayer \/ RemoveFromLobby \/ EndRound

Handlers(k) == \/ \E id \in Ids : LoginEnter(k, id)
               \/ LoginLobby(k) \/ LoginRefused(k) \/ LEAVE_LOBBY(k) \/ HEART_BEAT(k)

Next ==
  \/ HeartBeat
  \/ \E k \in Keys : \/ Accept(k) \/ Send(k) \/ Answer(k) \/ Lose(k)
                     \/ Handlers(k)
                     \/ WorkerRemove(k) \/ WorkerLobby(k)

Spec == Init /\ [][Next]_vars

\* The heartbeat thread runs, and sleeps for five seconds only.
FairSpec == Spec /\ WF_vars(HeartBeat)

-----------------------------------------------------------------------------
(* Properties.                                                             *)

\* Every variable keeps to its type.
TypeOK ==
  /\ players \subseteq Keys
  /\ isEnterGame \in [Keys -> BOOLEAN] /\ playerID \in [Keys -> Ids \cup {None}]
  /\ isRecvHeartBeat \in [Keys -> BOOLEAN]
  /\ lobby \in [Keys -> Nat]
  /\ connection \in [Keys -> {"NEW", "OPEN", "LOST"}]
  /\ failed \in [Keys -> Nat] /\ failures \in [Keys -> Nat] /\ missed \subseteq Keys
  /\ screen \in [Keys -> {"LOGIN", "LOBBY"}]
  /\ request \in [Keys -> Requests \cup {None, Unanswered}]
  /\ asked \in [Keys -> {"NONE", "ASKED", "ANSWERED"}]
  /\ loggingIn \in Keys \cup {None}
  /\ lobbyDue \subseteq Keys /\ late \subseteq Keys /\ lateLogin \subseteq Keys
  /\ beat \in {"SLEEP", "SCAN", "PUSH", "REMOVE", "LOBBY"}
  /\ iter \in Keys \cup {None} /\ todo \subseteq Keys
  /\ fault \in Keys \cup {None}

\* Never are two players that PlayerManager knows in the game under one id
\* (LoginProtocol.cpp:45), although log-ins, log-outs and removals interleave.
OneLogin ==
  \A p, q \in players :
    isEnterGame[p] /\ isEnterGame[q] /\ playerID[p] = playerID[q] => p = q

\* The lobby lists, once, exactly the players who are in the game.  A player whom
\* PlayerManager has forgotten is listed only while a thread is about to take it out,
\* or for ever when LOGIN came after the removal (LoginProtocol.cpp:55).
LobbyAgrees ==
  \A k \in Keys \ {loggingIn} :
    IF k \in players THEN lobby[k] = (IF isEnterGame[k] THEN 1 ELSE 0)
    ELSE lobby[k] > 0 => \/ k \in lobbyDue \cup lateLogin
                         \/ beat = "LOBBY" /\ iter = k

\* A client that is there and answers in time is not removed (HeartBeatCheckThread.cpp:38):
\* whoever is missing had an answer due or waiting when its five seconds were over.
OnTimeStays == \A k \in Keys : connection[k] = "OPEN" /\ k \notin players => k \in late

\* A NULL entry ends the process (PlayerManager.cpp:73) only when a player is removed a
\* second time: two of its operations failed, as they may in one loss (each completion
\* removes the player, IocpWorkerThread.cpp:51), or one did and it missed a heartbeat.
\* Heartbeats that are missed never do it alone, however rounds and removals overlap.
FaultExplained ==
  Running \/ failures[fault] >= 2 \/ (failures[fault] = 1 /\ fault \in missed)

\* A client that hangs or is lost does not stay with PlayerManager while the process
\* lives, although nothing may fail and erased entries are iterated over
\* (HeartBeatCheckThread.cpp:40).
LostRemoved ==
  \A k \in Keys : connection[k] = "LOST" ~> (k \notin players \/ ~Running)
=============================================================================
