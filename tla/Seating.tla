------------------------------ MODULE Seating ------------------------------
(***************************************************************************)
(* What rooms and games promise, without the maps, counters and flags that *)
(* keep it: a room is a line of at most Capacity players whose head leads  *)
(* it; nobody stands in two lines; nobody leaves while playing; a game is  *)
(* played by all who stand in the line when it begins, and ends for all of *)
(* them at once.                                                           *)
(***************************************************************************)
EXTENDS Integers, SequencesExt

CONSTANTS Players, Rooms, Capacity

VARIABLES
  line,     \* for each room, its members in the order in which they will lead
  playing,  \* the players who are in a game
  stopped   \* the server is dead

seatVars == <<line, playing, stopped>>

Standing(p) == \E r \in Rooms : p \in ToSet(line[r])

Init == line = [r \in Rooms |-> <<>>] /\ playing = {} /\ ~stopped

\* p opens room r or joins it at the end of the line.
Sit(p, r) ==
  /\ ~Standing(p)
  /\ Len(line[r]) < Capacity
  /\ line' = [line EXCEPT ![r] = Append(@, p)]
  /\ UNCHANGED playing

\* p goes back to the lobby; the others keep their order, so that the next one
\* leads when p was the head.
Leave(p, r) ==
  /\ p \notin playing
  /\ \E i \in DOMAIN line[r] : line[r][i] = p /\ line' = [line EXCEPT ![r] = RemoveAt(@, i)]
  /\ UNCHANGED playing

Begin(r) ==
  /\ line[r] # <<>>
  /\ ToSet(line[r]) \cap playing = {}
  /\ playing' = playing \cup ToSet(line[r])
  /\ UNCHANGED line

Finish(r) ==
  /\ ToSet(line[r]) \cap playing # {}
  /\ playing' = playing \ ToSet(line[r])
  /\ UNCHANGED line

\* A server that dies may have got half way through turning a line; it still has
\* everybody where they were.
Stop ==
  /\ stopped' = TRUE
  /\ \A r \in Rooms : ToSet(line[r])' = ToSet(line[r])
  /\ UNCHANGED playing

Next ==
  /\ ~stopped
  /\ \/ /\ UNCHANGED stopped
        /\ \E r \in Rooms : \/ \E p \in Players : Sit(p, r) \/ Leave(p, r)
                            \/ Begin(r) \/ Finish(r)
     \/ Stop

Spec == Init /\ [][Next]_seatVars
=============================================================================
