-------------------------- MODULE SessionsProofs --------------------------
(***************************************************************************)
(* No id is in the game twice, the lobby agrees with the registry, clients *)
(* that answer in time stay and a removal that meets a NULL entry is a     *)
(* second one: proved for every number of connections, ids and failed      *)
(* operations.  One lemma for each step of each thread shows that it keeps *)
(* each part of the invariant.                                             *)
(***************************************************************************)
EXTENDS Sessions, TLAPS

\* A key that is not given yet is known to nobody.
NewIdle ==
  \A k \in Keys : connection[k] = "NEW" =>
    /\ ~isEnterGame[k] /\ isRecvHeartBeat[k]
    /\ lobby[k] = 0 /\ failed[k] = 0 /\ request[k] = None /\ asked[k] = "NONE"
    /\ screen[k] = "LOGIN"
    /\ k \notin players \cup lobbyDue \cup lateLogin \cup {loggingIn}

\* Where the heartbeat thread is.
BeatAt ==
  /\ beat \in {"PUSH", "REMOVE", "LOBBY"} =>
       iter \in Keys /\ connection[iter] # "NEW"
  /\ beat = "LOBBY" => iter \notin players
  /\ beat = "REMOVE" => connection[iter] = "LOST" \/ iter \in late

\* Operations fail for the lost only, and who is due has been removed.
LostOnly ==
  /\ \A k \in Keys : failed[k] > 0 => connection[k] = "LOST"
  /\ lobbyDue \cap players = {}

\* What a client was told agrees with the server, and who asks to be logged in is not.
ScreenAgrees ==
  \A k \in players \ {loggingIn} :
    /\ connection[k] = "OPEN" => (isEnterGame[k] <=> screen[k] = "LOBBY")
    /\ isEnterGame[k] => \A id \in Ids : request[k] # Login(id)

\* A player in the middle of LOGIN is not listed yet.
InLogin ==
  /\ loggingIn # None => connection[loggingIn] # "NEW"
  /\ loggingIn \in players => isEnterGame[loggingIn] /\ lobby[loggingIn] = 0

\* Nobody is listed twice before it was listed late.
ListedOnce == \A k \in Keys \ lateLogin : lobby[k] \in {0, 1}

\* A client that did not answer was asked, or is about to be.
Asked ==
  \A k \in players : connection[k] = "OPEN" /\ ~isRecvHeartBeat[k] =>
    asked[k] # "NONE" \/ (beat = "PUSH" /\ iter = k)

\* Removals of a player that are to come, or one that was made.
Due(k) ==
  failed[k] + (IF beat = "REMOVE" /\ iter = k THEN 1 ELSE 0)
            + (IF connection[k] # "NEW" /\ k \notin players THEN 1 ELSE 0)

\* Every removal that is under way or was made has its own failed operation, or else it is
\* the one that the heartbeat thread makes of a player.
Accounted ==
  \A k \in Keys :
    /\ failures[k] + (IF k \in missed THEN 1 ELSE 0) >= Due(k)
    /\ failures[k] >= failed[k]
    /\ beat = "REMOVE" /\ iter = k => k \in missed
    /\ k \in missed /\ k \in players => beat = "REMOVE" /\ iter = k
    /\ connection[k] = "NEW" => k \notin missed
    /\ connection[k] # "LOST" => failures[k] = 0

\* What the theorems rest on.
IInv ==
  /\ TypeOK /\ NewIdle /\ BeatAt /\ LostOnly /\ ScreenAgrees /\ InLogin /\ ListedOnce
  /\ Asked /\ Accounted
  /\ OneLogin /\ LobbyAgrees /\ OnTimeStays /\ FaultExplained

\* None is neither a key nor an id, and a LOGIN is no other request.
LEMMA NoneApart ==
  /\ None \notin Keys /\ None \notin Ids
  /\ \A id \in Ids : Login(id) \notin {None, Leave, Unanswered}
<1>1. None \notin Keys /\ None \notin Ids
  BY SessionsAssumption
<1>2. ASSUME NEW id \in Ids PROVE Login(id) # None
  BY SessionsAssumption DEF Requests
<1>3. ASSUME NEW id \in Ids PROVE Login(id) # Leave /\ Login(id) # Unanswered
  <2>1. Login(id).protocol = "LOGIN" /\ Leave.protocol = "LEAVE_LOBBY"
        /\ Unanswered.protocol = "UNANSWERED"
    BY DEF Login, Leave, Unanswered
  <2> QED
    BY <2>1
<1> QED
  BY <1>1, <1>2, <1>3

\* How many entries of a player the lobby's erasing loop takes out.
LEMMA Removals ==
  /\ \A n \in Nat : LobbyRemovals(n) \subseteq Nat
  /\ LobbyRemovals(0) = {0} /\ LobbyRemovals(1) = {0}
BY DEF LobbyRemovals

\* A connection is accepted.
LEMMA StepAccept ==
  ASSUME IInv, NEW k \in Keys, Accept(k)
  PROVE  IInv'
<1> USE DEF IInv
<1>1. TypeOK'
  BY DEF Accept, TypeOK
<1>2. NewIdle'
  BY DEF Accept, NewIdle, TypeOK
<1>3. BeatAt'
  BY DEF Accept, BeatAt
<1>4. LostOnly'
  BY DEF Accept, LostOnly, NewIdle
<1>5. ScreenAgrees'
  BY DEF Accept, ScreenAgrees, NewIdle
<1>6. InLogin'
  BY DEF Accept, InLogin, NewIdle
<1>7. ListedOnce'
  BY DEF Accept, ListedOnce
<1>8. Asked'
  BY DEF Accept, Asked, NewIdle
<1>9. Accounted'
  BY DEF Accept, Accounted, Due
<1>10. OneLogin'
  BY DEF Accept, OneLogin, NewIdle
<1>11. LobbyAgrees'
  BY DEF Accept, LobbyAgrees, NewIdle
<1>12. OnTimeStays'
  BY DEF Accept, OnTimeStays
<1>13. FaultExplained'
  BY DEF Accept, FaultExplained, Running
<1> QED
  BY <1>1, <1>2, <1>3, <1>4, <1>5, <1>6, <1>7, <1>8, <1>9, <1>10, <1>11, <1>12, <1>13

\* A client sends a request.
LEMMA StepSend ==
  ASSUME IInv, NEW k \in Keys, Send(k)
  PROVE  IInv'
<1> USE DEF IInv
<1>1. TypeOK'
  BY DEF Send, ClientUnchanged, playerVars, Requests, TypeOK
<1>2. NewIdle'
  BY DEF Send, ClientUnchanged, playerVars, NewIdle, TypeOK
<1>3. BeatAt'
  BY DEF Send, ClientUnchanged, playerVars, BeatAt
<1>4. LostOnly'
  BY DEF Send, ClientUnchanged, playerVars, LostOnly
<1>5. ScreenAgrees'
  BY NoneApart DEF Send, ClientUnchanged, playerVars, ScreenAgrees, TypeOK
<1>6. InLogin'
  BY DEF Send, ClientUnchanged, playerVars, InLogin
<1>7. ListedOnce'
  BY DEF Send, ClientUnchanged, playerVars, ListedOnce
<1>8. Asked'
  BY DEF Send, ClientUnchanged, playerVars, Asked
<1>9. Accounted'
  BY DEF Send, ClientUnchanged, playerVars, Accounted, Due
<1>10. OneLogin'
  BY DEF Send, ClientUnchanged, playerVars, OneLogin
<1>11. LobbyAgrees'
  BY DEF Send, ClientUnchanged, playerVars, LobbyAgrees
<1>12. OnTimeStays'
  BY DEF Send, ClientUnchanged, playerVars, OnTimeStays
<1>13. FaultExplained'
  BY DEF Send, ClientUnchanged, FaultExplained, Running
<1> QED
  BY <1>1, <1>2, <1>3, <1>4, <1>5, <1>6, <1>7, <1>8, <1>9, <1>10, <1>11, <1>12, <1>13

\* A client answers the heartbeat.
LEMMA StepAnswer ==
  ASSUME IInv, NEW k \in Keys, Answer(k)
  PROVE  IInv'
<1> USE DEF IInv
<1>1. TypeOK'
  BY DEF Answer, ClientUnchanged, playerVars, clientVars, TypeOK
<1>2. NewIdle'
  BY DEF Answer, ClientUnchanged, playerVars, clientVars, NewIdle
<1>3. BeatAt'
  BY DEF Answer, ClientUnchanged, playerVars, clientVars, BeatAt
<1>4. LostOnly'
  BY DEF Answer, ClientUnchanged, playerVars, clientVars, LostOnly
<1>5. ScreenAgrees'
  BY DEF Answer, ClientUnchanged, playerVars, clientVars, ScreenAgrees
<1>6. InLogin'
  BY DEF Answer, ClientUnchanged, playerVars, clientVars, InLogin
<1>7. ListedOnce'
  BY DEF Answer, ClientUnchanged, playerVars, ListedOnce
<1>8. Asked'
  BY DEF Answer, ClientUnchanged, playerVars, clientVars, Asked
<1>9. Accounted'
  BY DEF Answer, ClientUnchanged, playerVars, clientVars, Accounted, Due
<1>10. OneLogin'
  BY DEF Answer, ClientUnchanged, playerVars, OneLogin
<1>11. LobbyAgrees'
  BY DEF Answer, ClientUnchanged, playerVars, LobbyAgrees
<1>12. OnTimeStays'
  BY DEF Answer, ClientUnchanged, playerVars, clientVars, OnTimeStays
<1>13. FaultExplained'
  BY DEF Answer, ClientUnchanged, FaultExplained, Running
<1> QED
  BY <1>1, <1>2, <1>3, <1>4, <1>5, <1>6, <1>7, <1>8, <1>9, <1>10, <1>11, <1>12, <1>13

\* The connection of a client is lost.
LEMMA StepLose ==
  ASSUME IInv, NEW k \in Keys, Lose(k)
  PROVE  IInv'
<1> USE DEF IInv
<1>1. TypeOK'
  BY DEF Lose, ClientUnchanged, playerVars, TypeOK
<1>2. NewIdle'
  BY DEF Lose, ClientUnchanged, playerVars, NewIdle
<1>3. BeatAt'
  BY DEF Lose, ClientUnchanged, playerVars, BeatAt
<1>4. LostOnly'
  BY DEF Lose, ClientUnchanged, playerVars, LostOnly, TypeOK
<1>5. ScreenAgrees'
  BY NoneApart DEF Lose, ClientUnchanged, playerVars, ScreenAgrees, TypeOK
<1>6. InLogin'
  BY DEF Lose, ClientUnchanged, playerVars, InLogin
<1>7. ListedOnce'
  BY DEF Lose, ClientUnchanged, playerVars, ListedOnce
<1>8. Asked'
  BY DEF Lose, ClientUnchanged, playerVars, Asked, TypeOK
<1>9. Accounted'
  BY DEF Lose, ClientUnchanged, playerVars, Accounted, TypeOK, Due
<1>10. OneLogin'
  BY DEF Lose, ClientUnchanged, playerVars, OneLogin
<1>11. LobbyAgrees'
  BY DEF Lose, ClientUnchanged, playerVars, LobbyAgrees
<1>12. OnTimeStays'
  BY DEF Lose, ClientUnchanged, playerVars, OnTimeStays
<1>13. FaultExplained'
  BY DEF Lose, ClientUnchanged, FaultExplained, Running
<1> QED
  BY <1>1, <1>2, <1>3, <1>4, <1>5, <1>6, <1>7, <1>8, <1>9, <1>10, <1>11, <1>12, <1>13

\* Preserved by LoginEnter.
LEMMA StepLoginEnter ==
  ASSUME IInv, NEW k \in Keys, NEW id \in Ids, LoginEnter(k, id)
  PROVE  IInv'
<1> USE DEF IInv
<1>1. TypeOK'
  BY DEF LoginEnter, HandlerUnchanged, TypeOK
<1>2. NewIdle'
  BY DEF LoginEnter, HandlerUnchanged, Handled, NewIdle
<1>3. BeatAt'
  BY DEF LoginEnter, HandlerUnchanged, BeatAt
<1>4. LostOnly'
  BY DEF LoginEnter, HandlerUnchanged, LostOnly
<1>5. ScreenAgrees'
  BY NoneApart DEF LoginEnter, HandlerUnchanged, Handled, ScreenAgrees, TypeOK
<1>6. InLogin'
  BY DEF LoginEnter, HandlerUnchanged, Handled, InLogin, TypeOK, NewIdle, ScreenAgrees,
     LobbyAgrees
<1>7. ListedOnce'
  BY DEF LoginEnter, ListedOnce
<1>8. Asked'
  BY DEF LoginEnter, HandlerUnchanged, Asked
<1>9. Accounted'
  BY DEF LoginEnter, HandlerUnchanged, Accounted, Due
<1>10. OneLogin'
  BY DEF LoginEnter, OverlapedLoginCheck, OneLogin, TypeOK
<1>11. LobbyAgrees'
  BY NoneApart DEF LoginEnter, HandlerUnchanged, Handled, LobbyAgrees
<1>12. OnTimeStays'
  BY DEF LoginEnter, HandlerUnchanged, OnTimeStays
<1>13. FaultExplained'
  BY DEF LoginEnter, HandlerUnchanged, FaultExplained, Running
<1> QED
  BY <1>1, <1>2, <1>3, <1>4, <1>5, <1>6, <1>7, <1>8, <1>9, <1>10, <1>11, <1>12, <1>13

\* Preserved by LoginLobby.
LEMMA StepLoginLobby ==
  ASSUME IInv, NEW k \in Keys, LoginLobby(k)
  PROVE  IInv'
<1> USE DEF IInv
<1>1. TypeOK'
  BY DEF LoginLobby, HandlerUnchanged, Reply, TypeOK
<1>2. NewIdle'
  BY NoneApart DEF LoginLobby, HandlerUnchanged, Reply, NewIdle
<1>3. BeatAt'
  BY DEF LoginLobby, HandlerUnchanged, BeatAt
<1>4. LostOnly'
  BY DEF LoginLobby, HandlerUnchanged, LostOnly
<1>5. ScreenAgrees'
  <2>1. SUFFICES ASSUME NEW p \in players' \ {loggingIn'}
                 PROVE  /\ connection'[p] = "OPEN" => (isEnterGame'[p] <=> screen'[p] = "LOBBY")
                        /\ isEnterGame'[p] => \A id \in Ids : request'[p] # Login(id)
    BY DEF ScreenAgrees
  <2>2. p \in players /\ p \in Keys
        /\ UNCHANGED <<players, connection, isEnterGame>> /\ loggingIn = k
    BY DEF LoginLobby, HandlerUnchanged, TypeOK
  <2>3. CASE p = k
    <3>1. isEnterGame[k] /\ (connection[k] = "OPEN" => screen'[k] = "LOBBY")
      BY <2>2, <2>3 DEF InLogin, LoginLobby, Delivered, TypeOK
    <3>2. request'[k] = None
      BY <2>2, <2>3 DEF LoginLobby, Reply, Waits, TypeOK
    <3> QED
      BY <2>2, <2>3, <3>1, <3>2, NoneApart
  <2>4. CASE p # k
    <3>1. request'[p] = request[p] /\ screen'[p] = screen[p]
      BY <2>2, <2>4 DEF LoginLobby, Reply, TypeOK
    <3> QED
      BY <2>2, <2>4, <3>1 DEF ScreenAgrees
  <2> QED
    BY <2>3, <2>4
<1>6. InLogin'
  BY NoneApart DEF LoginLobby, InLogin, TypeOK
<1>7. ListedOnce'
  BY DEF LoginLobby, ListedOnce, InLogin
<1>8. Asked'
  BY DEF LoginLobby, HandlerUnchanged, Asked
<1>9. Accounted'
  BY DEF LoginLobby, HandlerUnchanged, Accounted, Due
<1>10. OneLogin'
  BY DEF LoginLobby, OneLogin
<1>11. LobbyAgrees'
  BY DEF LoginLobby, HandlerUnchanged, LobbyAgrees, TypeOK, InLogin
<1>12. OnTimeStays'
  BY DEF LoginLobby, HandlerUnchanged, OnTimeStays
<1>13. FaultExplained'
  BY DEF LoginLobby, HandlerUnchanged, FaultExplained, Running
<1> QED
  BY <1>1, <1>2, <1>3, <1>4, <1>5, <1>6, <1>7, <1>8, <1>9, <1>10, <1>11, <1>12, <1>13

\* Preserved by LoginRefused.
LEMMA StepLoginRefused ==
  ASSUME IInv, NEW k \in Keys, LoginRefused(k)
  PROVE  IInv'
<1> USE DEF IInv
<1>1. TypeOK'
  BY DEF LoginRefused, HandlerUnchanged, Reply, playerVars, TypeOK
<1>2. NewIdle'
  BY DEF LoginRefused, HandlerUnchanged, Handled, Reply, playerVars, NewIdle
<1>3. BeatAt'
  BY DEF LoginRefused, HandlerUnchanged, playerVars, BeatAt
<1>4. LostOnly'
  BY DEF LoginRefused, HandlerUnchanged, playerVars, LostOnly
<1>5. ScreenAgrees'
  BY NoneApart DEF LoginRefused, HandlerUnchanged, Reply, playerVars, ScreenAgrees
<1>6. InLogin'
  BY DEF LoginRefused, HandlerUnchanged, playerVars, InLogin
<1>7. ListedOnce'
  BY DEF LoginRefused, playerVars, ListedOnce
<1>8. Asked'
  BY DEF LoginRefused, HandlerUnchanged, playerVars, Asked
<1>9. Accounted'
  BY DEF LoginRefused, HandlerUnchanged, playerVars, Accounted, Due
<1>10. OneLogin'
  BY DEF LoginRefused, playerVars, OneLogin
<1>11. LobbyAgrees'
  BY DEF LoginRefused, HandlerUnchanged, playerVars, LobbyAgrees
<1>12. OnTimeStays'
  BY DEF LoginRefused, HandlerUnchanged, playerVars, OnTimeStays
<1>13. FaultExplained'
  BY DEF LoginRefused, HandlerUnchanged, FaultExplained, Running
<1> QED
  BY <1>1, <1>2, <1>3, <1>4, <1>5, <1>6, <1>7, <1>8, <1>9, <1>10, <1>11, <1>12, <1>13

\* Preserved by LEAVE_LOBBY.
LEMMA StepLEAVE_LOBBY ==
  ASSUME IInv, NEW k \in Keys, LEAVE_LOBBY(k)
  PROVE  IInv'
<1> USE DEF IInv
<1>a. UNCHANGED <<players, beat, iter, lobbyDue, lateLogin, loggingIn>> /\ loggingIn = None
  BY DEF LEAVE_LOBBY, LeavePlayer, HandlerUnchanged, Handled
<1>b. k \in players => /\ lobby' = [lobby EXCEPT ![k] = 0]
                       /\ isEnterGame' = [isEnterGame EXCEPT ![k] = FALSE]
                       /\ screen' = [screen EXCEPT ![k] = IF Delivered(k) THEN "LOGIN" ELSE @]
  <2>1. SUFFICES ASSUME k \in players
                 PROVE  /\ lobby' = [lobby EXCEPT ![k] = 0]
                        /\ isEnterGame' = [isEnterGame EXCEPT ![k] = FALSE]
                        /\ screen' = [screen EXCEPT ![k] = IF Delivered(k) THEN "LOGIN" ELSE @]
    OBVIOUS
  <2>2. isEnterGame[k] \in BOOLEAN /\ lobby[k] = IF isEnterGame[k] THEN 1 ELSE 0
    BY <1>a, <2>1, NoneApart DEF LobbyAgrees, TypeOK
  <2>3. lobby[k] \in {0, 1} /\ (isEnterGame[k] /\ lobby[k] = 0) = FALSE
    BY <2>2
  <2>4. LeavePlayer(k) /\ screen' = [screen EXCEPT ![k] = IF Delivered(k) THEN "LOGIN" ELSE @]
    BY <2>1 DEF LEAVE_LOBBY
  <2> QED
    BY <2>3, <2>4, Removals DEF LeavePlayer
<1>c. k \notin players => UNCHANGED <<lobby, isEnterGame, screen>>
  BY DEF LEAVE_LOBBY
<1>1. TypeOK'
  <2>1. request' \in [Keys -> Requests \cup {None, Unanswered}]
    BY DEF LEAVE_LOBBY, Reply, TypeOK
  <2>2. lobby' \in [Keys -> Nat]
    BY <1>b, <1>c DEF TypeOK
  <2>3. isEnterGame' \in [Keys -> BOOLEAN]
    BY <1>b, <1>c DEF TypeOK
  <2>4. screen' \in [Keys -> {"LOGIN", "LOBBY"}]
    BY <1>b, <1>c DEF TypeOK
  <2>5. UNCHANGED <<playerID, isRecvHeartBeat, asked, connection, failed, iter, todo, late,
                    failures, missed, fault>>
    BY DEF LEAVE_LOBBY, HandlerUnchanged
  <2> QED
    BY <1>a, <2>1, <2>2, <2>3, <2>4, <2>5 DEF TypeOK
<1>2. NewIdle'
  BY DEF LEAVE_LOBBY, HandlerUnchanged, Handled, Reply, LeavePlayer, NewIdle, TypeOK
<1>3. BeatAt'
  BY DEF LEAVE_LOBBY, HandlerUnchanged, LeavePlayer, BeatAt
<1>4. LostOnly'
  BY DEF LEAVE_LOBBY, HandlerUnchanged, LeavePlayer, LostOnly
<1>5. ScreenAgrees'
  <2>1. SUFFICES ASSUME NEW p \in players' \ {loggingIn'}
                 PROVE  /\ connection'[p] = "OPEN" => (isEnterGame'[p] <=> screen'[p] = "LOBBY")
                        /\ isEnterGame'[p] => \A id \in Ids : request'[p] # Login(id)
    BY DEF ScreenAgrees
  <2>2. p \in players \ {loggingIn} /\ p \in Keys /\ connection' = connection
    BY <1>a DEF TypeOK, LEAVE_LOBBY, HandlerUnchanged
  <2>3. CASE p = k
    BY <1>b, <2>2, <2>3 DEF TypeOK, Delivered
  <2>4. CASE p # k
    <3>1. isEnterGame'[p] = isEnterGame[p] /\ screen'[p] = screen[p]
      BY <1>b, <1>c, <2>2, <2>4 DEF TypeOK
    <3>2. request'[p] = request[p]
      BY <2>2, <2>4 DEF LEAVE_LOBBY, Reply, TypeOK
    <3> QED
      BY <2>2, <3>1, <3>2 DEF ScreenAgrees
  <2> QED
    BY <2>3, <2>4
<1>6. InLogin'
  BY Removals DEF LEAVE_LOBBY, HandlerUnchanged, LeavePlayer, InLogin, TypeOK
<1>7. ListedOnce'
  BY Removals DEF LEAVE_LOBBY, LeavePlayer, ListedOnce, TypeOK
<1>8. Asked'
  BY DEF LEAVE_LOBBY, HandlerUnchanged, LeavePlayer, Asked
<1>9. Accounted'
  BY DEF LEAVE_LOBBY, HandlerUnchanged, LeavePlayer, Accounted, Due
<1>10. OneLogin'
  BY DEF LEAVE_LOBBY, LeavePlayer, OneLogin, TypeOK
<1>11. LobbyAgrees'
  BY <1>a, <1>b, <1>c DEF LobbyAgrees, TypeOK
<1>12. OnTimeStays'
  BY DEF LEAVE_LOBBY, HandlerUnchanged, LeavePlayer, OnTimeStays
<1>13. FaultExplained'
  BY DEF LEAVE_LOBBY, HandlerUnchanged, FaultExplained, Running
<1> QED
  BY <1>1, <1>2, <1>3, <1>4, <1>5, <1>6, <1>7, <1>8, <1>9, <1>10, <1>11, <1>12, <1>13

\* Preserved by HEART_BEAT.
LEMMA StepHEART_BEAT ==
  ASSUME IInv, NEW k \in Keys, HEART_BEAT(k)
  PROVE  IInv'
<1> USE DEF IInv
<1>1. TypeOK'
  BY DEF HEART_BEAT, HandlerUnchanged, playerVars, TypeOK
<1>2. NewIdle'
  BY DEF HEART_BEAT, HandlerUnchanged, playerVars, NewIdle
<1>3. BeatAt'
  BY DEF HEART_BEAT, HandlerUnchanged, playerVars, BeatAt
<1>4. LostOnly'
  BY DEF HEART_BEAT, HandlerUnchanged, playerVars, LostOnly
<1>5. ScreenAgrees'
  BY DEF HEART_BEAT, HandlerUnchanged, playerVars, ScreenAgrees
<1>6. InLogin'
  BY DEF HEART_BEAT, playerVars, InLogin
<1>7. ListedOnce'
  BY DEF HEART_BEAT, playerVars, ListedOnce
<1>8. Asked'
  BY DEF HEART_BEAT, HandlerUnchanged, playerVars, Asked, TypeOK
<1>9. Accounted'
  BY DEF HEART_BEAT, HandlerUnchanged, playerVars, Accounted, Due
<1>10. OneLogin'
  BY DEF HEART_BEAT, playerVars, OneLogin
<1>11. LobbyAgrees'
  BY DEF HEART_BEAT, HandlerUnchanged, playerVars, LobbyAgrees
<1>12. OnTimeStays'
  BY DEF HEART_BEAT, HandlerUnchanged, playerVars, OnTimeStays
<1>13. FaultExplained'
  BY DEF HEART_BEAT, HandlerUnchanged, FaultExplained, Running
<1> QED
  BY <1>1, <1>2, <1>3, <1>4, <1>5, <1>6, <1>7, <1>8, <1>9, <1>10, <1>11, <1>12, <1>13

\* Preserved by WorkerRemove.
LEMMA StepWorkerRemove ==
  ASSUME IInv, NEW k \in Keys, WorkerRemove(k)
  PROVE  IInv'
<1> USE DEF IInv
<1>1. TypeOK'
  <2>1. CASE Dies(k)
    BY <2>1 DEF Dies, playerVars, clientVars, beatVars, TypeOK
  <2>2. CASE ~Dies(k)
    <3>1. /\ failed[k] > 0 /\ failed' = [failed EXCEPT ![k] = @ - 1]
          /\ players' = players \ {k} /\ lobbyDue' = lobbyDue \cup {k}
          /\ isEnterGame' = [isEnterGame EXCEPT ![k] = FALSE]
      BY <2>2 DEF WorkerRemove, SeesFailure, Removed
    <3>2. failed[k] - 1 \in Nat
      BY <3>1 DEF TypeOK
    <3>3. failed' \in [Keys -> Nat] /\ players' \subseteq Keys /\ lobbyDue' \subseteq Keys
      BY <3>1, <3>2 DEF TypeOK
    <3>4. isEnterGame' \in [Keys -> BOOLEAN]
      BY <3>1 DEF TypeOK
    <3>5. UNCHANGED <<playerID, lobby, connection, screen, request, beatVars, loggingIn,
                      lateLogin, failures, missed, fault>>
      BY <2>2 DEF WorkerRemove
    <3> QED
      BY <3>3, <3>4, <3>5 DEF beatVars, TypeOK
  <2> QED
    BY <2>1, <2>2
<1>2. NewIdle'
  BY DEF WorkerRemove, Removed, beatVars, Dies, playerVars, clientVars, NewIdle, TypeOK
<1>3. BeatAt'
  BY DEF WorkerRemove, Removed, beatVars, Dies, playerVars, clientVars, BeatAt
<1>4. LostOnly'
  BY DEF WorkerRemove, Removed, Dies, playerVars, clientVars, LostOnly, TypeOK
<1>5. ScreenAgrees'
  BY DEF WorkerRemove, Removed, Dies, playerVars, clientVars, ScreenAgrees, TypeOK
<1>6. InLogin'
  BY DEF WorkerRemove, Removed, Dies, playerVars, clientVars, InLogin, TypeOK
<1>7. ListedOnce'
  BY DEF WorkerRemove, Dies, playerVars, ListedOnce
<1>8. Asked'
  BY DEF WorkerRemove, Removed, beatVars, Dies, playerVars, clientVars, Asked
<1>9. Accounted'
  BY DEF WorkerRemove, Removed, beatVars, Dies, playerVars, clientVars, Accounted,
     TypeOK, Due
<1>10. OneLogin'
  BY DEF WorkerRemove, Removed, Dies, playerVars, OneLogin, TypeOK
<1>11. LobbyAgrees'
  BY DEF WorkerRemove, Removed, beatVars, Dies, playerVars, LobbyAgrees, TypeOK
<1>12. OnTimeStays'
  BY DEF WorkerRemove, SeesFailure, Removed, beatVars, Dies, playerVars, clientVars,
     OnTimeStays, LostOnly
<1>13. FaultExplained'
  BY DEF WorkerRemove, SeesFailure, Dies, FaultExplained, TypeOK, Accounted, Due,
     LostOnly, Running
<1> QED
  BY <1>1, <1>2, <1>3, <1>4, <1>5, <1>6, <1>7, <1>8, <1>9, <1>10, <1>11, <1>12, <1>13

\* Preserved by WorkerLobby.
LEMMA StepWorkerLobby ==
  ASSUME IInv, NEW k \in Keys, WorkerLobby(k)
  PROVE  IInv'
<1> USE DEF IInv
<1>1. TypeOK'
  BY Removals DEF WorkerLobby, clientVars, beatVars, TypeOK
<1>2. NewIdle'
  BY DEF WorkerLobby, clientVars, beatVars, NewIdle
<1>3. BeatAt'
  BY DEF WorkerLobby, clientVars, beatVars, BeatAt
<1>4. LostOnly'
  BY DEF WorkerLobby, clientVars, LostOnly
<1>5. ScreenAgrees'
  BY DEF WorkerLobby, clientVars, ScreenAgrees
<1>6. InLogin'
  BY DEF WorkerLobby, clientVars, InLogin, LostOnly
<1>7. ListedOnce'
  BY Removals DEF WorkerLobby, ListedOnce
<1>8. Asked'
  BY DEF WorkerLobby, clientVars, beatVars, Asked
<1>9. Accounted'
  BY DEF WorkerLobby, clientVars, beatVars, Accounted, Due
<1>10. OneLogin'
  BY DEF WorkerLobby, OneLogin
<1>11. LobbyAgrees'
  BY Removals DEF WorkerLobby, beatVars, LobbyAgrees, TypeOK, LostOnly, ListedOnce
<1>12. OnTimeStays'
  BY DEF WorkerLobby, clientVars, beatVars, OnTimeStays
<1>13. FaultExplained'
  BY DEF WorkerLobby, FaultExplained, Running
<1> QED
  BY <1>1, <1>2, <1>3, <1>4, <1>5, <1>6, <1>7, <1>8, <1>9, <1>10, <1>11, <1>12, <1>13

\* Preserved by Visit.
LEMMA StepVisit ==
  ASSUME IInv, NEW k \in Keys, Visit(k)
  PROVE  IInv'
<1> USE DEF IInv
<1>1. TypeOK'
  <2>1. late' \subseteq Keys /\ missed' \subseteq Keys
    BY DEF Visit, TypeOK
  <2>2. isRecvHeartBeat' \in [Keys -> BOOLEAN] /\ asked' \in [Keys -> {"NONE", "ASKED", "ANSWERED"}]
    BY DEF Visit, ResetThenPush, Reset, Push, TypeOK
  <2> QED
    BY <2>1, <2>2 DEF Visit, BeatUnchanged, clientVars, TypeOK
<1>2. NewIdle'
  BY DEF Visit, BeatUnchanged, clientVars, ResetThenPush, Reset, Push, NewIdle, TypeOK
<1>3. BeatAt'
  <2>1. iter' = k /\ k \in players /\ beat' \in {"PUSH", "REMOVE"}
        /\ beat = "SCAN" /\ connection' = connection
    BY DEF Visit, BeatUnchanged, clientVars
  <2>2. connection[k] # "NEW"
    BY <2>1 DEF NewIdle
  <2>3. ASSUME beat' = "REMOVE" PROVE connection[k] = "LOST" \/ k \in late'
    <3>1. ~isRecvHeartBeat[k] /\ (asked[k] # "NONE" => k \in late')
      BY <2>3 DEF Visit
    <3>2. connection[k] = "OPEN" => asked[k] # "NONE"
      BY <2>1, <3>1 DEF Asked
    <3> QED
      BY <2>2, <3>1, <3>2 DEF TypeOK
  <2> QED
    BY <2>1, <2>2, <2>3 DEF BeatAt
<1>4. LostOnly'
  BY DEF Visit, BeatUnchanged, clientVars, LostOnly
<1>5. ScreenAgrees'
  BY DEF Visit, BeatUnchanged, clientVars, ScreenAgrees
<1>6. InLogin'
  BY DEF Visit, BeatUnchanged, clientVars, InLogin
<1>7. ListedOnce'
  BY DEF Visit, BeatUnchanged, ListedOnce
<1>8. Asked'
  BY DEF Visit, BeatUnchanged, clientVars, ResetThenPush, Reset, Push, Asked, TypeOK
<1>9. Accounted'
  <2>1. /\ beat = "SCAN" /\ k \in players /\ iter' = k
        /\ UNCHANGED <<players, failed, failures, connection>>
    BY DEF Visit, BeatUnchanged, clientVars
  <2>2. k \notin missed /\ connection[k] # "NEW"
    BY <2>1 DEF Accounted, NewIdle
  <2>3. \/ beat' = "REMOVE" /\ missed' = missed \cup {k}
        \/ beat' = "PUSH" /\ missed' = missed
    BY DEF Visit
  <2>4. ASSUME NEW p \in Keys, p # k
        PROVE  Due(p)' = Due(p) /\ (p \in missed' <=> p \in missed)
    BY <2>1, <2>3, <2>4 DEF Due
  <2>5. failed[k] \in Nat /\ failures[k] \in Nat /\ Due(k) = failed[k]
    BY <2>1 DEF Due, TypeOK
  <2>6. Due(k)' = failed[k] + IF k \in missed' THEN 1 ELSE 0
    BY <2>1, <2>2, <2>3, <2>5 DEF Due
  <2>7. \A p \in Keys \ {k} : /\ p \in missed /\ p \in players => FALSE
                            /\ failures[p] + (IF p \in missed THEN 1 ELSE 0) >= Due(p)
    BY <2>1 DEF Accounted
  <2>8. ASSUME NEW p \in Keys
        PROVE  /\ failures'[p] + (IF p \in missed' THEN 1 ELSE 0) >= Due(p)'
               /\ failures'[p] >= failed'[p]
               /\ beat' = "REMOVE" /\ iter' = p => p \in missed'
               /\ p \in missed' /\ p \in players' => beat' = "REMOVE" /\ iter' = p
               /\ connection'[p] = "NEW" => p \notin missed'
               /\ connection'[p] # "LOST" => failures'[p] = 0
    <3>1. /\ failures[p] >= failed[p]
          /\ connection[p] = "NEW" => p \notin missed
          /\ connection[p] # "LOST" => failures[p] = 0
      BY DEF Accounted
    <3>2. CASE p = k
      BY <2>1, <2>2, <2>3, <2>5, <2>6, <3>1, <3>2
    <3>3. CASE p # k
      BY <2>1, <2>3, <2>4, <2>7, <3>1, <3>3
    <3> QED
      BY <3>2, <3>3
  <2> QED
    BY <2>8 DEF Accounted
<1>10. OneLogin'
  BY DEF Visit, BeatUnchanged, OneLogin
<1>11. LobbyAgrees'
  BY DEF Visit, BeatUnchanged, LobbyAgrees
<1>12. OnTimeStays'
  BY DEF Visit, BeatUnchanged, clientVars, OnTimeStays
<1>13. FaultExplained'
  BY DEF Visit, BeatUnchanged, FaultExplained, Running
<1> QED
  BY <1>1, <1>2, <1>3, <1>4, <1>5, <1>6, <1>7, <1>8, <1>9, <1>10, <1>11, <1>12, <1>13

\* Preserved by BeginRound.
LEMMA StepBeginRound ==
  ASSUME IInv, BeginRound
  PROVE  IInv'
<1> USE DEF IInv
<1>1. TypeOK'
  BY DEF BeginRound, BeatUnchanged, clientVars, TypeOK
<1>2. NewIdle'
  BY DEF BeginRound, BeatUnchanged, clientVars, NewIdle
<1>3. BeatAt'
  BY DEF BeginRound, BeatAt
<1>4. LostOnly'
  BY DEF BeginRound, BeatUnchanged, clientVars, LostOnly
<1>5. ScreenAgrees'
  BY DEF BeginRound, BeatUnchanged, clientVars, ScreenAgrees
<1>6. InLogin'
  BY DEF BeginRound, BeatUnchanged, clientVars, InLogin
<1>7. ListedOnce'
  BY DEF BeginRound, BeatUnchanged, ListedOnce
<1>8. Asked'
  BY DEF BeginRound, BeatUnchanged, clientVars, Asked
<1>9. Accounted'
  BY DEF BeginRound, BeatUnchanged, clientVars, Accounted, Due
<1>10. OneLogin'
  BY DEF BeginRound, BeatUnchanged, OneLogin
<1>11. LobbyAgrees'
  BY DEF BeginRound, BeatUnchanged, LobbyAgrees
<1>12. OnTimeStays'
  BY DEF BeginRound, BeatUnchanged, clientVars, OnTimeStays
<1>13. FaultExplained'
  BY DEF BeginRound, BeatUnchanged, FaultExplained, Running
<1> QED
  BY <1>1, <1>2, <1>3, <1>4, <1>5, <1>6, <1>7, <1>8, <1>9, <1>10, <1>11, <1>12, <1>13

\* Preserved by PushHeartBeat.
LEMMA StepPushHeartBeat ==
  ASSUME IInv, PushHeartBeat
  PROVE  IInv'
<1> USE DEF IInv
<1>1. TypeOK'
  BY DEF PushHeartBeat, BeatUnchanged, clientVars, ResetThenPush, Reset, Push, Advance,
     TypeOK
<1>2. NewIdle'
  BY DEF PushHeartBeat, BeatUnchanged, clientVars, ResetThenPush, Reset, Push,
     Delivered, NewIdle, TypeOK
<1>3. BeatAt'
  BY DEF PushHeartBeat, Advance, BeatAt
<1>4. LostOnly'
  BY DEF PushHeartBeat, BeatUnchanged, clientVars, LostOnly
<1>5. ScreenAgrees'
  BY DEF PushHeartBeat, BeatUnchanged, clientVars, ScreenAgrees
<1>6. InLogin'
  BY DEF PushHeartBeat, BeatUnchanged, clientVars, InLogin
<1>7. ListedOnce'
  BY DEF PushHeartBeat, BeatUnchanged, ListedOnce
<1>8. Asked'
  BY DEF PushHeartBeat, BeatUnchanged, clientVars, ResetThenPush, Reset, Push,
     Delivered, Asked, TypeOK
<1>9. Accounted'
  BY DEF PushHeartBeat, BeatUnchanged, clientVars, Advance, Accounted, Due
<1>10. OneLogin'
  BY DEF PushHeartBeat, BeatUnchanged, OneLogin
<1>11. LobbyAgrees'
  BY DEF PushHeartBeat, BeatUnchanged, LobbyAgrees
<1>12. OnTimeStays'
  BY DEF PushHeartBeat, BeatUnchanged, clientVars, OnTimeStays
<1>13. FaultExplained'
  BY DEF PushHeartBeat, BeatUnchanged, FaultExplained, Running
<1> QED
  BY <1>1, <1>2, <1>3, <1>4, <1>5, <1>6, <1>7, <1>8, <1>9, <1>10, <1>11, <1>12, <1>13

\* Preserved by RemovePlayer.
LEMMA StepRemovePlayer ==
  ASSUME IInv, RemovePlayer
  PROVE  IInv'
<1> USE DEF IInv
<1>1. TypeOK'
  <2>1. iter \in Keys
    BY DEF RemovePlayer, BeatAt
  <2>2. CASE Dies(iter)
    BY <2>1, <2>2 DEF Dies, playerVars, clientVars, beatVars, TypeOK
  <2>3. CASE ~Dies(iter)
    BY <2>1, <2>3 DEF RemovePlayer, Removed, BeatUnchanged, clientVars, TypeOK
  <2> QED
    BY <2>2, <2>3
<1>2. NewIdle'
  BY DEF RemovePlayer, BeatUnchanged, clientVars, Removed, Dies, playerVars, beatVars,
     NewIdle, TypeOK
<1>3. BeatAt'
  BY DEF RemovePlayer, BeatUnchanged, clientVars, Removed, Dies, beatVars, BeatAt
<1>4. LostOnly'
  BY DEF RemovePlayer, BeatUnchanged, clientVars, Removed, Dies, playerVars, LostOnly
<1>5. ScreenAgrees'
  BY DEF RemovePlayer, BeatUnchanged, clientVars, Removed, Dies, playerVars,
     ScreenAgrees, TypeOK
<1>6. InLogin'
  BY DEF RemovePlayer, BeatUnchanged, clientVars, Removed, Dies, playerVars, InLogin,
     TypeOK
<1>7. ListedOnce'
  BY DEF RemovePlayer, BeatUnchanged, Dies, playerVars, ListedOnce
<1>8. Asked'
  BY DEF RemovePlayer, BeatUnchanged, clientVars, Removed, Dies, playerVars, beatVars,
     Asked
<1>9. Accounted'
  BY DEF RemovePlayer, BeatUnchanged, clientVars, Removed, Dies, playerVars, beatVars,
     Accounted, TypeOK, Due
<1>10. OneLogin'
  BY DEF RemovePlayer, BeatUnchanged, Removed, Dies, playerVars, OneLogin, TypeOK
<1>11. LobbyAgrees'
  BY DEF RemovePlayer, BeatUnchanged, Removed, Dies, playerVars, LobbyAgrees, TypeOK
<1>12. OnTimeStays'
  BY DEF RemovePlayer, BeatUnchanged, clientVars, Removed, Dies, playerVars, beatVars,
     OnTimeStays, BeatAt
<1>13. FaultExplained'
  BY DEF RemovePlayer, BeatUnchanged, Dies, FaultExplained, TypeOK, Accounted, Due,
     BeatAt, Running
<1> QED
  BY <1>1, <1>2, <1>3, <1>4, <1>5, <1>6, <1>7, <1>8, <1>9, <1>10, <1>11, <1>12, <1>13

\* Preserved by RemoveFromLobby.
LEMMA StepRemoveFromLobby ==
  ASSUME IInv, RemoveFromLobby
  PROVE  IInv'
<1> USE DEF IInv
<1>1. TypeOK'
  BY Removals DEF RemoveFromLobby, BeatUnchanged, clientVars, Advance, TypeOK, BeatAt
<1>2. NewIdle'
  BY DEF RemoveFromLobby, BeatUnchanged, clientVars, NewIdle, BeatAt
<1>3. BeatAt'
  BY DEF RemoveFromLobby, Advance, BeatAt
<1>4. LostOnly'
  BY DEF RemoveFromLobby, BeatUnchanged, clientVars, LostOnly
<1>5. ScreenAgrees'
  BY DEF RemoveFromLobby, BeatUnchanged, clientVars, ScreenAgrees
<1>6. InLogin'
  BY DEF RemoveFromLobby, BeatUnchanged, clientVars, InLogin, BeatAt
<1>7. ListedOnce'
  BY Removals DEF RemoveFromLobby, BeatUnchanged, ListedOnce
<1>8. Asked'
  BY DEF RemoveFromLobby, BeatUnchanged, clientVars, Asked
<1>9. Accounted'
  BY DEF RemoveFromLobby, BeatUnchanged, clientVars, Advance, Accounted, Due
<1>10. OneLogin'
  BY DEF RemoveFromLobby, BeatUnchanged, OneLogin
<1>11. LobbyAgrees'
  BY Removals DEF RemoveFromLobby, BeatUnchanged, LobbyAgrees, TypeOK, BeatAt, ListedOnce
<1>12. OnTimeStays'
  BY DEF RemoveFromLobby, BeatUnchanged, clientVars, OnTimeStays
<1>13. FaultExplained'
  BY DEF RemoveFromLobby, BeatUnchanged, FaultExplained, Running
<1> QED
  BY <1>1, <1>2, <1>3, <1>4, <1>5, <1>6, <1>7, <1>8, <1>9, <1>10, <1>11, <1>12, <1>13

\* Preserved by EndRound.
LEMMA StepEndRound ==
  ASSUME IInv, EndRound
  PROVE  IInv'
<1> USE DEF IInv
<1>1. TypeOK'
  BY DEF EndRound, BeatUnchanged, clientVars, TypeOK
<1>2. NewIdle'
  BY DEF EndRound, BeatUnchanged, clientVars, NewIdle
<1>3. BeatAt'
  BY DEF EndRound, BeatAt
<1>4. LostOnly'
  BY DEF EndRound, BeatUnchanged, clientVars, LostOnly
<1>5. ScreenAgrees'
  BY DEF EndRound, BeatUnchanged, clientVars, ScreenAgrees
<1>6. InLogin'
  BY DEF EndRound, BeatUnchanged, clientVars, InLogin
<1>7. ListedOnce'
  BY DEF EndRound, BeatUnchanged, ListedOnce
<1>8. Asked'
  BY DEF EndRound, BeatUnchanged, clientVars, Asked
<1>9. Accounted'
  BY DEF EndRound, BeatUnchanged, clientVars, Accounted, Due
<1>10. OneLogin'
  BY DEF EndRound, BeatUnchanged, OneLogin
<1>11. LobbyAgrees'
  BY DEF EndRound, BeatUnchanged, LobbyAgrees
<1>12. OnTimeStays'
  BY DEF EndRound, BeatUnchanged, clientVars, OnTimeStays
<1>13. FaultExplained'
  BY DEF EndRound, BeatUnchanged, FaultExplained, Running
<1> QED
  BY <1>1, <1>2, <1>3, <1>4, <1>5, <1>6, <1>7, <1>8, <1>9, <1>10, <1>11, <1>12, <1>13

\* Nobody is connected at first.
LEMMA InitSessions == Init => IInv
<1> SUFFICES ASSUME Init PROVE IInv
  OBVIOUS
<1>1. TypeOK
  BY DEF Init, TypeOK
<1>2. NewIdle /\ ScreenAgrees
  BY NoneApart DEF Init, NewIdle, ScreenAgrees
<1>3. BeatAt /\ LostOnly /\ ListedOnce /\ Asked /\ OneLogin /\ OnTimeStays
  BY DEF Init, BeatAt, LostOnly, ListedOnce, Asked, OneLogin, OnTimeStays
<1>4. InLogin /\ LobbyAgrees
  BY DEF Init, InLogin, LobbyAgrees
<1>5. Accounted /\ FaultExplained
  BY DEF Init, Accounted, Due, FaultExplained, Running
<1> QED
  BY <1>1, <1>2, <1>3, <1>4, <1>5 DEF IInv

\* Every step keeps the invariant: the clients', the handlers', the workers' and the
\* heartbeat thread's.
LEMMA StepSessions == IInv /\ [Next]_vars => IInv'
<1> SUFFICES ASSUME IInv, [Next]_vars PROVE IInv'
  OBVIOUS
<1>1. CASE HeartBeat
  BY <1>1, StepBeginRound, StepVisit, StepPushHeartBeat, StepRemovePlayer,
     StepRemoveFromLobby, StepEndRound DEF HeartBeat
<1>2. ASSUME NEW k \in Keys, Accept(k) \/ Send(k) \/ Answer(k) \/ Lose(k) PROVE IInv'
  BY <1>2, StepAccept, StepSend, StepAnswer, StepLose
<1>3. ASSUME NEW k \in Keys, Handlers(k) PROVE IInv'
  BY <1>3, StepLoginEnter, StepLoginLobby, StepLoginRefused, StepLEAVE_LOBBY,
     StepHEART_BEAT DEF Handlers
<1>4. ASSUME NEW k \in Keys, WorkerRemove(k) \/ WorkerLobby(k) PROVE IInv'
  BY <1>4, StepWorkerRemove, StepWorkerLobby
<1>5. CASE UNCHANGED vars
  <2>1. UNCHANGED <<players, isEnterGame, playerID, lobby, connection, failed, screen,
                    request, isRecvHeartBeat, asked, beat, iter, todo, late, loggingIn,
                    lobbyDue, lateLogin, failures, missed, fault>>
    BY <1>5 DEF vars, playerVars, clientVars, beatVars
  <2>2. TypeOK' /\ NewIdle' /\ BeatAt' /\ LostOnly' /\ ScreenAgrees' /\ InLogin' /\ ListedOnce'
    BY <2>1 DEF IInv, TypeOK, NewIdle, BeatAt, LostOnly, ScreenAgrees, InLogin, ListedOnce
  <2>3. Asked' /\ Accounted' /\ OneLogin' /\ LobbyAgrees' /\ OnTimeStays' /\ FaultExplained'
    BY <2>1 DEF IInv, Asked, Accounted, Due, OneLogin, LobbyAgrees, OnTimeStays,
                FaultExplained, Running
  <2> QED
    BY <2>2, <2>3 DEF IInv
<1> QED
  BY <1>1, <1>2, <1>3, <1>4, <1>5 DEF Next

\* The invariant holds in every reachable state.

\* The invariant holds at any time.
THEOREM SessionsInvariance == Spec => []IInv
BY InitSessions, StepSessions, PTL DEF Spec

\* Every variable of a session keeps to its type.
THEOREM SessionsTypes == Spec => []TypeOK
<1>1. IInv => TypeOK
  BY DEF IInv
<1> QED
  BY SessionsInvariance, <1>1, PTL

\* Whatever removals come between the steps of LOGIN, no id is in the game twice
\* (PlayerManager::OverlapedLoginCheck).
THEOREM OneLoginAlways == Spec => []OneLogin
<1>1. IInv => OneLogin
  BY DEF IInv
<1> QED
  BY SessionsInvariance, <1>1, PTL

\* The lobby lists whom it should, but for a player whom LOGIN lists after its removal.
THEOREM LobbyAgreesAlways == Spec => []LobbyAgrees
<1>1. IInv => LobbyAgrees
  BY DEF IInv
<1> QED
  BY SessionsInvariance, <1>1, PTL

\* However many players the heartbeat thread visits, it removes no client that is there
\* and answers in time.
THEOREM OnTimeStaysAlways == Spec => []OnTimeStays
<1>1. IInv => OnTimeStays
  BY DEF IInv
<1> QED
  BY SessionsInvariance, <1>1, PTL

\* However many operations of however many clients fail, a removal meets a NULL entry only
\* when the player's operations failed twice, or once besides a missed heartbeat.
THEOREM FaultExplainedAlways == Spec => []FaultExplained
<1>1. IInv => FaultExplained
  BY DEF IInv
<1> QED
  BY SessionsInvariance, <1>1, PTL
=============================================================================
