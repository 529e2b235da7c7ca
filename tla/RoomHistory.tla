---------------------------- MODULE RoomHistory -----------------------------
(***************************************************************************)
(* RoomProtocol with the history of the requests that came too late.  A    *)
(* request fits when it is one that the player's client could make from    *)
(* what the server has told it last.  It comes late when news that the     *)
(* server had queued before handling it, but the client had not read       *)
(* before sending it, took the client to another screen or game.  One      *)
(* request in flight is enough for that.                                   *)
(*                                                                         *)
(* The faults of the handlers, a member who is stranded in its room or a   *)
(* NULL pointer that is used, are all explained by such requests, but for  *)
(* the host's relays about a player who is lost.                           *)
(***************************************************************************)
EXTENDS RoomProtocol

VARIABLE late   \* the players of whom a request was handled that no longer fitted

historyVars == <<vars, late>>

Fits(p, m) ==
  /\ m.kind \in LobbyKinds => screen[p] = "LOBBY"
  /\ m.kind \in RoomKinds => screen[p] = "ROOM"
  /\ m.kind \in GameKinds \cup HostKinds => screen[p] = "GAME" /\ m.gameKey = gameKey[p]

\* Handle is the step that empties current.
HistoryNext ==
  /\ Next
  /\ late' = IF current # Null /\ current' = Null /\ ~Fits(current.player, current.request)
             THEN late \cup {current.player} ELSE late

HistorySpec == Init /\ late = {} /\ [][HistoryNext]_historyVars
FairHistorySpec == HistorySpec /\ Fairness

-----------------------------------------------------------------------------
(* Properties.                                                             *)

\* A member who is not in a game has its RoomPlayer registered, so that its READY,
\* ROOM_START and LEAVE_ROOM find the room, unless a request of its own came late:
\* no request of another, no loss and no game that ends strands it.
StrandedExplained ==
  \A r \in rooms : \A p \in Members(r) \ late :
    screen[p] = "ROOM" => roomPlayerMap[p] = r

\* A handler goes through a NULL pointer only when a request of the player it serves,
\* or of the one who is to lead after that player, came late, or for a host's relay
\* about a player who was lost between the handler's look-ups.
NullExplained ==
  [][crashed' /\ ~crashed =>
       \/ current.player \in late'
       \/ \E r \in rooms : /\ roomLeader[r] = current.player
                          /\ Rotated(joinedPlayer[r])[1] \in late
       \/ current.request.kind \in HostKinds /\ current.request.target \notin players
    ]_historyVars

Leaving(p) == request[p] # Null /\ request[p].kind = "LEAVE_ROOM"

\* A client that asks to leave its room gets back to its lobby screen (the steps
\* listed in LEAVE_ROOM), whatever games were started and ended in the room before,
\* unless a request of its own came late, its connection is lost or the server dies.
LeaveServed ==
  \A p \in Players :
    Leaving(p) ~> View(p).screen = "LOBBY" \/ p \in late \/ p \notin players \/ crashed
=============================================================================
