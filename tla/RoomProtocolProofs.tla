------------------------ MODULE RoomProtocolProofs -------------------------
(***************************************************************************)
(* RoomProtocol's invariants hold in every reachable state.                *)
(*                                                                         *)
(* None of them is inductive alone: that nobody is erased from a list they *)
(* are not in needs RegistryAgrees; that GAME_END finds its room needs     *)
(* GamesWellFormed, which needs that a player of a game is not registered  *)
(* as a RoomPlayer and so cannot leave; that nobody sits down twice needs  *)
(* that clients are in step.  IInv is their conjunction.  A handler has    *)
(* one of six effects on the state (Effect); each of them keeps IInv.      *)
(*                                                                         *)
(* From the same effects: every step implements Seating and hands a room's *)
(* lead over as it should, and only for players of whom a request came     *)
(* late (RoomHistory) a step loses a registration or goes through a NULL   *)
(* pointer.                                                                *)
(***************************************************************************)
EXTENDS RoomHistory, SequenceTheorems, TLAPS

-----------------------------------------------------------------------------
(* What the handlers do to joinedPlayer, the list of a room's members: Append *)
(* for Room::Join, Erased for Room::Leave, Rotated for Room::ChangeLeader.   *)

\* What the server reads off a list: its length, its entries and the set of them.
\* A list has no entries exactly when it is empty.
LEMMA Listed ==
  ASSUME NEW S, NEW s \in Seq(S)
  PROVE  /\ Len(s) \in Nat
         /\ DOMAIN s = 1..Len(s)
         /\ \A i \in 1..Len(s) : s[i] \in S /\ s[i] \in ToSet(s)
         /\ \A e : e \in ToSet(s) <=> \E i \in 1..Len(s) : s[i] = e
         /\ ToSet(s) \subseteq S
         /\ s = <<>> <=> Len(s) = 0
         /\ s = <<>> <=> ToSet(s) = {}
         /\ IsInjective(s) <=> \A i, j \in 1..Len(s) : s[i] = s[j] => i = j
<1>1. Len(s) \in Nat /\ DOMAIN s = 1..Len(s)
  BY LenProperties
<1>2. \A i \in 1..Len(s) : s[i] \in S
  BY ElementOfSeq
<1>3. s = <<>> <=> Len(s) = 0
  BY EmptySeq, <1>1
<1>4. \A e : e \in ToSet(s) <=> \E i \in 1..Len(s) : s[i] = e
  BY <1>1 DEF ToSet
<1>5. s = <<>> <=> ToSet(s) = {}
  <2>1. Len(s) # 0 => s[1] \in ToSet(s)
    BY <1>1, <1>4
  <2> QED BY <2>1, <1>1, <1>3, <1>4
<1>6. IsInjective(s) <=> \A i, j \in 1..Len(s) : s[i] = s[j] => i = j
  BY <1>1 DEF IsInjective
<1> QED BY <1>1, <1>2, <1>3, <1>4, <1>5, <1>6

\* push_back at the end of joinedPlayer (Room::Join): the new member is added, the
\* front stays, and a list without repetitions has none when the member is new.
LEMMA AppendFacts ==
  ASSUME NEW S, NEW s \in Seq(S), NEW e \in S
  PROVE  /\ Append(s, e) \in Seq(S)
         /\ Len(Append(s, e)) = Len(s) + 1
         /\ Append(s, e) # <<>>
         /\ ToSet(Append(s, e)) = ToSet(s) \cup {e}
         /\ IsInjective(s) /\ e \notin ToSet(s) => IsInjective(Append(s, e))
         /\ s # <<>> => Append(s, e)[1] = s[1]
<1> DEFINE t == Append(s, e)
<1>1. /\ t \in Seq(S) /\ t # <<>> /\ Len(t) = Len(s) + 1
      /\ \A i \in 1..Len(s) : t[i] = s[i]
      /\ t[Len(s) + 1] = e
  BY AppendProperties
<1> HIDE DEF t
<1>2. Len(s) \in Nat
  BY Listed
<1>3. ToSet(t) = ToSet(s) \cup {e}
  <2>1. ASSUME NEW x \in ToSet(t) PROVE x \in ToSet(s) \cup {e}
    <3>1. PICK i \in 1..Len(t) : t[i] = x
      BY <1>1, Listed
    <3>2. CASE i \in 1..Len(s)
      BY <3>1, <3>2, <1>1, Listed
    <3>3. CASE i \notin 1..Len(s)
      BY <3>1, <3>3, <1>1, <1>2
    <3> QED BY <3>2, <3>3
  <2>2. ASSUME NEW x \in ToSet(s) PROVE x \in ToSet(t)
    <3>1. PICK i \in 1..Len(s) : s[i] = x
      BY Listed
    <3>2. i \in 1..Len(t) /\ t[i] = x
      BY <3>1, <1>1, <1>2
    <3> QED BY <3>2, <1>1, Listed
  <2>3. e \in ToSet(t)
    <3>1. Len(s) + 1 \in 1..Len(t)
      BY <1>1, <1>2
    <3> QED BY <3>1, <1>1, Listed
  <2> QED BY <2>1, <2>2, <2>3
<1>4. ASSUME IsInjective(s), e \notin ToSet(s) PROVE IsInjective(t)
  <2>1. ASSUME NEW i \in 1..Len(t), NEW j \in 1..Len(t), t[i] = t[j] PROVE i = j
    <3>1. \A k \in 1..Len(s) : s[k] # e
      BY <1>4, Listed
    <3>2. \A k, l \in 1..Len(s) : s[k] = s[l] => k = l
      BY <1>4, Listed
    <3> QED BY <3>1, <3>2, <2>1, <1>1, <1>2
  <2> QED BY <2>1, <1>1, Listed
<1>5. s # <<>> => t[1] = s[1]
  BY <1>1, <1>2, Listed
<1> QED BY <1>1, <1>3, <1>4, <1>5 DEF t

\* The list without its k-th entry, entry by entry.
LEMMA RemoveAtFacts ==
  ASSUME NEW S, NEW s \in Seq(S), NEW k \in 1..Len(s)
  PROVE  /\ RemoveAt(s, k) \in Seq(S)
         /\ Len(RemoveAt(s, k)) = Len(s) - 1
         /\ \A i \in 1..(Len(s) - 1) : RemoveAt(s, k)[i] = IF i < k THEN s[i] ELSE s[i + 1]
<1> DEFINE a == SubSeq(s, 1, k - 1)
           b == SubSeq(s, k + 1, Len(s))
<1>1. Len(s) \in Nat
  BY Listed
<1>2. /\ a \in Seq(S) /\ Len(a) = k - 1
      /\ \A i \in 1..(k - 1) : a[i] = s[i]
  <2>1. \A i \in 1..(k - 1) : s[i] \in S
    BY <1>1, Listed
  <2>2. k - 1 \in Int /\ 1 \in Int
    OBVIOUS
  <2>3. /\ a \in Seq(S)
        /\ Len(a) = IF 1 <= k - 1 THEN k - 1 - 1 + 1 ELSE 0
        /\ \A i \in 1..(k - 1) - 1 + 1 : a[i] = s[1 + i - 1]
    BY <2>1, <2>2, SubSeqProperties
  <2> QED BY <2>3
<1>3. /\ b \in Seq(S) /\ Len(b) = Len(s) - k
      /\ \A i \in 1..(Len(s) - k) : b[i] = s[k + i]
  <2>1. \A i \in (k + 1)..Len(s) : s[i] \in S
    BY <1>1, Listed
  <2>2. k + 1 \in Int /\ Len(s) \in Int
    BY <1>1
  <2>3. /\ b \in Seq(S)
        /\ Len(b) = IF k + 1 <= Len(s) THEN Len(s) - (k + 1) + 1 ELSE 0
        /\ \A i \in 1..Len(s) - (k + 1) + 1 : b[i] = s[(k + 1) + i - 1]
    BY <2>1, <2>2, SubSeqProperties
  <2> QED BY <2>3, <1>1
<1> HIDE DEF a, b
<1>4. /\ a \o b \in Seq(S) /\ Len(a \o b) = Len(a) + Len(b)
      /\ \A i \in 1..(Len(a) + Len(b)) : (a \o b)[i] = IF i <= Len(a) THEN a[i] ELSE b[i - Len(a)]
  BY <1>2, <1>3, ConcatProperties
<1>5. RemoveAt(s, k) = a \o b
  BY DEF RemoveAt, a, b
<1>6. Len(a) + Len(b) = Len(s) - 1
  BY <1>1, <1>2, <1>3
<1>7. ASSUME NEW i \in 1..(Len(s) - 1)
      PROVE  (a \o b)[i] = IF i < k THEN s[i] ELSE s[i + 1]
  <2>1. CASE i < k
    BY <2>1, <1>1, <1>2, <1>4, <1>6
  <2>2. CASE ~(i < k)
    <3>1. i - Len(a) \in 1..(Len(s) - k) /\ k + (i - Len(a)) = i + 1
      BY <2>2, <1>1, <1>2
    <3>2. (a \o b)[i] = b[i - Len(a)]
      BY <2>2, <1>1, <1>2, <1>4, <1>6
    <3> QED BY <2>2, <3>1, <3>2, <1>3
  <2> QED BY <2>1, <2>2
<1> QED BY <1>4, <1>5, <1>6, <1>7

\* The erasing loop of Room::Leave: it takes out the leaving member and nobody
\* else, and keeps the front when another than the front leaves.
LEMMA ErasedFacts ==
  ASSUME NEW S, NEW s \in Seq(S), IsInjective(s), NEW p \in ToSet(s)
  PROVE  /\ Erased(s, p) \in Seq(S)
         /\ Len(Erased(s, p)) = Len(s) - 1
         /\ ToSet(Erased(s, p)) = ToSet(s) \ {p}
         /\ IsInjective(Erased(s, p))
         /\ \E i \in DOMAIN s : s[i] = p /\ Erased(s, p) = RemoveAt(s, i)
         /\ s[1] # p => Erased(s, p) # <<>> /\ Erased(s, p)[1] = s[1]
<1> DEFINE k == CHOOSE i \in DOMAIN s : s[i] = p
           t == Erased(s, p)
<1>1. Len(s) \in Nat
  BY Listed
<1>2. k \in 1..Len(s) /\ s[k] = p
  BY Listed
<1>3. t = RemoveAt(s, k)
  BY DEF Erased
<1> HIDE DEF k, t
<1>6. /\ t \in Seq(S) /\ Len(t) = Len(s) - 1
      /\ \A i \in 1..(Len(s) - 1) : t[i] = IF i < k THEN s[i] ELSE s[i + 1]
  BY <1>2, <1>3, RemoveAtFacts
<1>7. \A i, j \in 1..Len(s) : s[i] = s[j] => i = j
  BY Listed
<1>8. ToSet(t) = ToSet(s) \ {p}
  <2>1. ASSUME NEW x \in ToSet(t) PROVE x \in ToSet(s) \ {p}
    <3>1. PICK i \in 1..Len(t) : t[i] = x
      BY <1>6, Listed
    <3>2. PICK j \in 1..Len(s) : s[j] = x /\ j # k
      BY <3>1, <1>1, <1>2, <1>6
    <3>3. x \in ToSet(s)
      BY <3>2, Listed
    <3> QED BY <3>2, <3>3, <1>2, <1>7
  <2>2. ASSUME NEW x \in ToSet(s) \ {p} PROVE x \in ToSet(t)
    <3>1. PICK j \in 1..Len(s) : s[j] = x
      BY Listed
    <3>2. j # k
      BY <3>1, <1>2
    <3>3. PICK i \in 1..Len(t) : t[i] = x
      <4>1. CASE j < k
        BY <4>1, <3>1, <1>1, <1>2, <1>6
      <4>2. CASE k < j
        <5>1. j - 1 \in 1..Len(t) /\ t[j - 1] = x
          BY <4>2, <3>1, <1>1, <1>2, <1>6
        <5> QED BY <5>1
      <4> QED BY <4>1, <4>2, <3>2, <1>2
    <3> QED BY <3>3, <1>6, Listed
  <2> QED BY <2>1, <2>2
<1>9. IsInjective(t)
  <2>1. ASSUME NEW i \in 1..Len(t), NEW j \in 1..Len(t), t[i] = t[j] PROVE i = j
    <3> DEFINE origin(n) == IF n < k THEN n ELSE n + 1
    <3>1. \A n \in 1..Len(t) : origin(n) \in 1..Len(s) /\ t[n] = s[origin(n)]
      BY <1>1, <1>2, <1>6
    <3>2. origin(i) = origin(j)
      BY <3>1, <2>1, <1>7
    <3> QED BY <3>2, <1>2, <1>6, <1>1
  <2> QED BY <2>1, <1>6, Listed
<1>10. ASSUME s[1] # p PROVE t # <<>> /\ t[1] = s[1]
  <2>1. 1 < k /\ Len(t) \in Nat \ {0}
    BY <1>10, <1>1, <1>2, <1>6
  <2> QED BY <2>1, <1>1, <1>2, <1>6, EmptySeq
<1> QED BY <1>2, <1>3, <1>6, <1>8, <1>9, <1>10, Listed DEF t

\* Room::ChangeLeader: the same members, the front one now last, the second first.
LEMMA RotatedFacts ==
  ASSUME NEW S, NEW s \in Seq(S), s # <<>>, IsInjective(s)
  PROVE  /\ Rotated(s) \in Seq(S)
         /\ Len(Rotated(s)) = Len(s)
         /\ ToSet(Rotated(s)) = ToSet(s)
         /\ IsInjective(Rotated(s))
         /\ \A i \in 1..(Len(s) - 1) : Rotated(s)[i] = s[i + 1]
         /\ Rotated(s)[Len(s)] = s[1]
         /\ Len(s) > 1 => Rotated(s)[1] = s[2] /\ s[2] # s[1]
<1> DEFINE t == Rotated(s)
<1>1. Len(s) \in Nat \ {0} /\ Head(s) = s[1] /\ s[1] \in S
  <2>1. Len(s) \in Nat \ {0} /\ Head(s) = s[1]
    BY EmptySeq
  <2> QED BY <2>1, Listed
<1>2. /\ Tail(s) \in Seq(S) /\ Len(Tail(s)) = Len(s) - 1
      /\ \A i \in 1..(Len(s) - 1) : Tail(s)[i] = s[i + 1]
  <2>1. /\ Tail(s) \in Seq(S) /\ Len(Tail(s)) = Len(s) - 1
        /\ \A i \in 1..Len(Tail(s)) : Tail(s)[i] = s[i + 1]
    BY HeadTailProperties
  <2> QED BY <2>1
<1>3. /\ t \in Seq(S) /\ Len(t) = Len(s)
      /\ \A i \in 1..(Len(s) - 1) : t[i] = s[i + 1]
      /\ t[Len(s)] = s[1]
  <2>1. t = Append(Tail(s), s[1])
    BY <1>1 DEF Rotated
  <2>2. /\ t \in Seq(S) /\ Len(t) = Len(Tail(s)) + 1
        /\ \A i \in 1..Len(Tail(s)) : t[i] = Tail(s)[i]
        /\ t[Len(Tail(s)) + 1] = s[1]
    BY <2>1, <1>1, <1>2, AppendProperties
  <2> QED BY <2>2, <1>1, <1>2
<1> HIDE DEF t
<1>4. \A i, j \in 1..Len(s) : s[i] = s[j] => i = j
  BY Listed
<1>5. ToSet(t) = ToSet(s)
  <2>1. ASSUME NEW x \in ToSet(t) PROVE x \in ToSet(s)
    <3>1. PICK i \in 1..Len(t) : t[i] = x
      BY <1>3, Listed
    <3>2. PICK j \in 1..Len(s) : s[j] = x
      <4>1. CASE i = Len(s)
        BY <4>1, <3>1, <1>1, <1>3
      <4>2. CASE i # Len(s)
        <5>1. i + 1 \in 1..Len(s) /\ s[i + 1] = x
          BY <4>2, <3>1, <1>1, <1>3
        <5> QED BY <5>1
      <4> QED BY <4>1, <4>2
    <3> QED BY <3>2, Listed
  <2>2. ASSUME NEW x \in ToSet(s) PROVE x \in ToSet(t)
    <3>1. PICK j \in 1..Len(s) : s[j] = x
      BY Listed
    <3>2. PICK i \in 1..Len(t) : t[i] = x
      <4>1. CASE j = 1
        BY <4>1, <3>1, <1>1, <1>3
      <4>2. CASE j # 1
        <5>1. j - 1 \in 1..(Len(s) - 1) /\ t[j - 1] = x
          BY <4>2, <3>1, <1>1, <1>3
        <5> QED BY <5>1, <1>1, <1>3
      <4> QED BY <4>1, <4>2
    <3> QED BY <3>2, <1>3, Listed
  <2> QED BY <2>1, <2>2
<1>6. IsInjective(t)
  <2>1. ASSUME NEW i \in 1..Len(t), NEW j \in 1..Len(t), t[i] = t[j] PROVE i = j
    BY <2>1, <1>1, <1>3, <1>4
  <2> QED BY <2>1, <1>3, Listed
<1>7. Len(s) > 1 => t[1] = s[2] /\ s[2] # s[1]
  BY <1>1, <1>3, <1>4
<1> QED BY <1>3, <1>5, <1>6, <1>7 DEF t

\* Room::ChangeLeader followed by the erasing loop takes out the front member.
LEMMA LeaderErased ==
  ASSUME NEW S, NEW s \in Seq(S), IsInjective(s), Len(s) > 1
  PROVE  Erased(Rotated(s), s[1]) = RemoveAt(s, 1)
<1> DEFINE t == Rotated(s)
<1>1. Len(s) \in Nat /\ s # <<>> /\ 1 \in 1..Len(s)
  BY Listed
<1>2. /\ t \in Seq(S) /\ Len(t) = Len(s) /\ IsInjective(t)
      /\ \A i \in 1..(Len(s) - 1) : t[i] = s[i + 1]
      /\ t[Len(s)] = s[1]
  BY <1>1, RotatedFacts
<1> HIDE DEF t
<1>3. s[1] \in ToSet(t)
  <2>1. Len(s) \in 1..Len(t)
    BY <1>1, <1>2
  <2> QED BY <2>1, <1>2, Listed
<1>4. PICK k \in DOMAIN t : t[k] = s[1] /\ Erased(t, s[1]) = RemoveAt(t, k)
  BY <1>2, <1>3, ErasedFacts
<1>5. k = Len(s)
  <2>1. Len(s) \in 1..Len(t) /\ k \in 1..Len(t)
    BY <1>1, <1>2, <1>4, Listed
  <2> QED BY <2>1, <1>2, <1>4, Listed
<1> DEFINE e == RemoveAt(t, k)
           f == RemoveAt(s, 1)
<1>6. /\ e \in Seq(S) /\ Len(e) = Len(s) - 1
      /\ \A i \in 1..(Len(s) - 1) : e[i] = IF i < Len(s) THEN t[i] ELSE t[i + 1]
  <2>1. k \in 1..Len(t)
    BY <1>1, <1>2, <1>5
  <2> QED BY <2>1, <1>2, <1>5, RemoveAtFacts
<1>7. /\ f \in Seq(S) /\ Len(f) = Len(s) - 1
      /\ \A i \in 1..(Len(s) - 1) : f[i] = IF i < 1 THEN s[i] ELSE s[i + 1]
  BY <1>1, RemoveAtFacts
<1> HIDE DEF e, f
<1>8. \A i \in 1..Len(e) : e[i] = f[i]
  BY <1>1, <1>2, <1>6, <1>7
<1>9. e = f
  BY <1>6, <1>7, <1>8, SeqEqual
<1> QED BY <1>4, <1>9 DEF e, f, t

-----------------------------------------------------------------------------
(* The invariant, and what each effect of a handler does to it.            *)

\* The inductive invariant
IInv ==
  /\ TypeOK
  /\ OneSeat
  /\ RoomsWellFormed
  /\ LeaderIsFront
  /\ RegistryAgrees
  /\ GamesWellFormed
  /\ GameRegistryAgrees
  /\ ClientsInStep
  /\ UniqueNames
  /\ Located

\* What is left of the step of a handler that served player p
Served(p) ==
  /\ ~crashed
  /\ request[p] = Null
  /\ current' = Null
  /\ UNCHANGED connVars
  /\ NewsTyped'

\* The effect that OpenRoom and Join share ...
SitDown(p, r) ==
  /\ rooms' = rooms \cup {r}
  /\ joinedPlayer' = [joinedPlayer EXCEPT ![r] = Append(@, p)]
  /\ joinedPlayerCount' = [joinedPlayerCount EXCEPT ![r] = @ + 1]
  /\ roomPlayerMap' = Inserted(roomPlayerMap, p, r)
  /\ joinRoomMap' = joinRoomMap \cup {<<p, r>>}
  /\ lobby' \in LobbyRemovals(p)
  /\ screen' = [screen EXCEPT ![p] = "ROOM"]
  /\ UNCHANGED <<isStartGame, readyState, gameVars, gamePlayerMap, gameKey, crashed>>

\* joinedPlayer holds players only.
LEMMA Seated ==
  ASSUME TypeOK
  PROVE  \A r \in RoomIds : joinedPlayer[r] \in Seq(Players) /\ Members(r) \subseteq Players
<1>1. joinedPlayer \in [RoomIds -> Seq(Players)]
  BY DEF TypeOK, RoomsTyped
<1> QED BY <1>1, Listed DEF Members

\* The loop of Lobby::RemovePlayer, which steps over entries, is right on a list
\* that holds the player once at most.
LEMMA RemovedFromLobby ==
  ASSUME TypeOK, OneSeat, NEW p \in Players, lobby' \in LobbyRemovals(p)
  PROVE  lobby' = [lobby EXCEPT ![p] = 0]
<1>1. lobby[p] \in {0, 1}
  <2>1. lobby[p] \in Nat
    BY DEF TypeOK, MapsTyped
  <2>2. lobby[p] <= 1
    BY DEF OneSeat
  <2> QED BY <2>1, <2>2
<1>2. lobby[p] \div 2 = 0
  BY <1>1
<1>3. PICK k \in 0..(lobby[p] \div 2) : lobby' = [lobby EXCEPT ![p] = k]
  BY DEF LobbyRemovals
<1>4. k = 0
  BY <1>2
<1> QED BY <1>3, <1>4

\* Who sits down was in the lobby and in no room: the lists, the maps and the
\* counters stay in step.
LEMMA SitDownSeats ==
  ASSUME IInv, NEW p \in Players, NEW r \in RoomIds,
         screen[p] = "LOBBY", joinedPlayerCount[r] < MaxRoomUser,
         SitDown(p, r), Served(p)
  PROVE  /\ \A s \in RoomIds : Members(s)' = IF s = r THEN Members(s) \cup {p} ELSE Members(s)
         /\ joinedPlayer' \in [RoomIds -> Seq(Players)]
         /\ joinedPlayer'[r] # <<>>
         /\ Len(joinedPlayer'[r]) = Len(joinedPlayer[r]) + 1
         /\ joinedPlayer[r] # <<>> => joinedPlayer'[r][1] = joinedPlayer[r][1]
         /\ \A s \in RoomIds : p \notin Members(s)
         /\ roomPlayerMap' = [roomPlayerMap EXCEPT ![p] = r]
         /\ MapsTyped'
         /\ OneSeat'
         /\ RoomsWellFormed'
         /\ RegistryAgrees'
         /\ GameRegistryAgrees'
         /\ ClientsInStep'
         /\ Located'
<1>1. \A s \in RoomIds : joinedPlayer[s] \in Seq(Players) /\ Members(s) \subseteq Players
  BY Seated DEF IInv
<1>2. \A s \in RoomIds : p \notin Members(s)
  BY DEF IInv, ClientsInStep
<1>3. /\ Append(joinedPlayer[r], p) \in Seq(Players)
      /\ Len(Append(joinedPlayer[r], p)) = Len(joinedPlayer[r]) + 1
      /\ Append(joinedPlayer[r], p) # <<>>
      /\ ToSet(Append(joinedPlayer[r], p)) = Members(r) \cup {p}
      /\ IsInjective(Append(joinedPlayer[r], p))
      /\ joinedPlayer[r] # <<>> => Append(joinedPlayer[r], p)[1] = joinedPlayer[r][1]
  BY <1>1, <1>2, AppendFacts DEF IInv, OneSeat, Members
<1>4. /\ joinedPlayer' \in [RoomIds -> Seq(Players)]
      /\ \A s \in RoomIds : joinedPlayer'[s] = IF s = r THEN Append(joinedPlayer[r], p)
                                               ELSE joinedPlayer[s]
  BY <1>3 DEF IInv, TypeOK, RoomsTyped, SitDown
<1>5. \A s \in RoomIds : Members(s)' = IF s = r THEN Members(s) \cup {p} ELSE Members(s)
  BY <1>3, <1>4 DEF Members
<1>6. lobby' = [lobby EXCEPT ![p] = 0]
  BY RemovedFromLobby DEF IInv, SitDown
<1>7. OneSeat'
  <2>1. \A s \in RoomIds : IsInjective(joinedPlayer'[s])
    BY <1>3, <1>4 DEF IInv, OneSeat
  <2>2. \A s, t \in RoomIds : s # t => Members(s)' \cap Members(t)' = {}
    BY <1>2, <1>5 DEF IInv, OneSeat
  <2>3. \A q \in Players : lobby'[q] <= 1
    BY <1>6 DEF IInv, TypeOK, MapsTyped, OneSeat
  <2>4. \A q \in Players : lobby'[q] = 1 => \A s \in RoomIds : q \notin Members(s)'
    BY <1>5, <1>6 DEF IInv, TypeOK, MapsTyped, OneSeat
  <2> QED BY <2>1, <2>2, <2>3, <2>4 DEF OneSeat
<1>8. RoomsWellFormed'
  <2>1. \A s \in RoomIds : /\ joinedPlayerCount[s] = Len(joinedPlayer[s])
                           /\ joinedPlayerCount[s] <= MaxRoomUser
                           /\ s \in rooms <=> joinedPlayer[s] # <<>>
    BY DEF IInv, RoomsWellFormed
  <2>2. \A s \in RoomIds : joinedPlayerCount'[s] =
                             IF s = r THEN joinedPlayerCount[s] + 1 ELSE joinedPlayerCount[s]
    BY DEF IInv, TypeOK, RoomsTyped, SitDown
  <2>3. Len(joinedPlayer[r]) \in Nat /\ MaxRoomUser \in Nat
    BY <1>1, Listed, ConstantsAssumption
  <2>4. rooms' = rooms \cup {r}
    BY DEF SitDown
  <2> QED BY <2>1, <2>2, <2>3, <2>4, <1>3, <1>4 DEF RoomsWellFormed
<1>9. roomPlayerMap' = [roomPlayerMap EXCEPT ![p] = r]
  BY DEF IInv, RegistryAgrees, SitDown, Inserted
<1>10. RegistryAgrees'
  <2>1. joinRoomMap' = {seat \in Players \X RoomIds : seat[1] \in Members(seat[2])'}
    BY <1>5 DEF IInv, RegistryAgrees, SitDown
  <2>2. \A q \in Players : roomPlayerMap'[q] \in RoomIds => q \in Members(roomPlayerMap[q])'
    <3>1. \A q \in Players : roomPlayerMap[q] \in RoomIds => q \in Members(roomPlayerMap[q])
      BY DEF IInv, RegistryAgrees
    <3> QED BY <3>1, <1>5, <1>9 DEF IInv, TypeOK, MapsTyped
  <2>3. \A q \in Players : screen'[q] = "LOBBY" => roomPlayerMap'[q] = Absent
    BY <1>9 DEF IInv, TypeOK, MapsTyped, ClientsTyped, RegistryAgrees, SitDown
  <2> QED BY <2>1, <2>2, <2>3 DEF RegistryAgrees
<1>11. GameRegistryAgrees'
  BY DEF IInv, TypeOK, ClientsTyped, GameRegistryAgrees, SitDown, gameVars
<1>12. ClientsInStep'
  BY <1>5 DEF IInv, TypeOK, ClientsTyped, ClientsInStep, SitDown, Served, connVars
<1>13. Located'
  <2>1. ASSUME NEW q \in players' PROVE lobby'[q] = 1 \/ \E s \in rooms' : q \in Members(s)'
    <3>1. rooms \subseteq RoomIds /\ rooms' = rooms \cup {r}
      BY DEF IInv, TypeOK, RoomsTyped, SitDown
    <3>2. q \in Players /\ lobby \in [Players -> Nat]
      BY <2>1 DEF IInv, TypeOK, MapsTyped, Served, connVars
    <3>3. lobby[q] = 1 \/ \E s \in rooms : q \in Members(s)
      BY <2>1 DEF IInv, Located, Served, connVars
    <3>4. CASE q = p
      BY <3>1, <3>4, <1>5
    <3>5. CASE q # p
      BY <3>1, <3>2, <3>3, <3>5, <1>5, <1>6
    <3> QED BY <3>4, <3>5
  <2> QED BY <2>1 DEF Located
<1>14. MapsTyped'
  BY <1>6, <1>9 DEF IInv, TypeOK, MapsTyped, SitDown, Served, connVars
<1> QED BY <1>2, <1>3, <1>4, <1>5, <1>7, <1>8, <1>9, <1>10, <1>11, <1>12, <1>13, <1>14

\* The listed games stay well formed when no player of theirs is registered as a
\* RoomPlayer, leaves the room or loses the leader.
LEMMA GamesKept ==
  ASSUME IInv,
         UNCHANGED <<games, returnRoom, gamePlayers, gameLeader>>,
         \A g \in games : /\ returnRoom[g] \in rooms'
                          /\ isStartGame'[returnRoom[g]]
                          /\ gamePlayers[g] \subseteq Members(returnRoom[g])'
                          /\ roomLeader'[returnRoom[g]] = roomLeader[returnRoom[g]],
         \A g \in games : \A q \in gamePlayers[g] : roomPlayerMap'[q] \notin RoomIds,
         \A s \in RoomIds : isStartGame'[s] => isStartGame[s]
  PROVE  GamesWellFormed'
<1>1. ASSUME NEW g \in games
      PROVE  /\ gameLeader[g] = roomLeader[returnRoom[g]] /\ gameLeader[g] \in gamePlayers[g]
             /\ \A h \in games : returnRoom[g] = returnRoom[h] => g = h
  BY DEF IInv, GamesWellFormed
<1>2. \A s \in RoomIds : isStartGame[s] => \E g \in games : returnRoom[g] = s
  BY DEF IInv, GamesWellFormed
<1> QED BY <1>1, <1>2 DEF GamesWellFormed

\* What GamesWellFormed says of one listed game.
LEMMA Playing ==
  ASSUME IInv, NEW g \in games
  PROVE  /\ g \in GameKeys /\ returnRoom[g] \in rooms /\ returnRoom[g] \in RoomIds
         /\ isStartGame[returnRoom[g]]
         /\ gamePlayers[g] \subseteq Members(returnRoom[g])
         /\ gamePlayers[g] \subseteq Players
         /\ roomLeader[returnRoom[g]] \in gamePlayers[g]
         /\ gameLeader[g] = roomLeader[returnRoom[g]]
         /\ \A q \in gamePlayers[g] : roomPlayerMap[q] \notin RoomIds
<1>1. g \in GameKeys /\ rooms \subseteq RoomIds /\ gamePlayers[g] \subseteq Players
  BY DEF IInv, TypeOK, GamesTyped, RoomsTyped
<1> QED BY <1>1 DEF IInv, GamesWellFormed

\* ... and the rest of what each of them does
SitsDown(p, r) ==
  /\ screen[p] = "LOBBY" /\ joinedPlayerCount[r] < MaxRoomUser
  /\ SitDown(p, r)
  /\ \/ r \in rooms /\ UNCHANGED <<roomName, roomLeader, isLeader>>
     \/ /\ r \notin rooms
        /\ \E n \in Names : ~ExistRoomName(n) /\ roomName' = [roomName EXCEPT ![r] = n]
        /\ roomLeader' = [roomLeader EXCEPT ![r] = p]
        /\ isLeader' = [isLeader EXCEPT ![r] = {p}]

\* CREATE_ROOM and JOIN_ROOM keep the invariant.
LEMMA SitDownStep ==
  ASSUME IInv, NEW p \in Players, NEW r \in RoomIds, SitsDown(p, r), Served(p)
  PROVE  IInv'
<1> USE SitDownSeats DEF SitsDown
<1>1. RoomsTyped'
  <2>1. RoomsTyped
    BY DEF IInv, TypeOK
  <2>2. /\ rooms' \subseteq RoomIds
        /\ joinedPlayerCount' \in [RoomIds -> Int]
        /\ isStartGame' \in [RoomIds -> BOOLEAN]
        /\ readyState' \in [RoomIds -> SUBSET Players]
    BY <2>1 DEF RoomsTyped, SitDown
  <2>3. /\ roomName' \in [RoomIds -> Names \cup {Null}]
        /\ roomLeader' \in [RoomIds -> Players \cup {Null}]
        /\ isLeader' \in [RoomIds -> SUBSET Players]
    <3>1. CASE r \in rooms
      BY <2>1, <3>1 DEF RoomsTyped
    <3>2. CASE r \notin rooms
      <4>1. PICK n \in Names : roomName' = [roomName EXCEPT ![r] = n]
        BY <3>2
      <4>2. /\ roomLeader' = [roomLeader EXCEPT ![r] = p]
            /\ isLeader' = [isLeader EXCEPT ![r] = {p}]
        BY <3>2
      <4>3. roomName' \in [RoomIds -> Names \cup {Null}]
        BY <2>1, <4>1 DEF RoomsTyped
      <4> QED BY <2>1, <4>2, <4>3 DEF RoomsTyped
    <3> QED BY <3>1, <3>2
  <2> QED BY <2>2, <2>3 DEF RoomsTyped
<1>2. GamesTyped'
  BY DEF IInv, TypeOK, GamesTyped, SitDown, gameVars
<1>3. ClientsTyped'
  BY DEF IInv, TypeOK, ClientsTyped, SitDown, Served, connVars
<1>4. LeaderIsFront'
  <2>1. CASE r \in rooms
    <3>1. joinedPlayer[r] # <<>>
      BY <2>1 DEF IInv, RoomsWellFormed
    <3>2. rooms' = rooms /\ UNCHANGED <<roomLeader, isLeader>>
      BY <2>1 DEF SitDown
    <3>3. rooms \subseteq RoomIds
      BY DEF IInv, TypeOK, RoomsTyped
    <3>4. \A s \in rooms : joinedPlayer'[s][1] = joinedPlayer[s][1]
      BY <3>1, <3>3 DEF IInv, TypeOK, RoomsTyped, SitDown
    <3> QED BY <3>2, <3>4 DEF IInv, LeaderIsFront, Served
  <2>2. CASE r \notin rooms
    <3>1. joinedPlayer[r] = <<>>
      BY <2>2 DEF IInv, RoomsWellFormed
    <3>2. joinedPlayer' = [joinedPlayer EXCEPT ![r] = <<p>>]
      BY <3>1 DEF SitDown
    <3>3. rooms \subseteq RoomIds /\ rooms' = rooms \cup {r}
      BY DEF IInv, TypeOK, RoomsTyped, SitDown
    <3>4. \A s \in rooms : /\ joinedPlayer'[s] = joinedPlayer[s]
                           /\ roomLeader'[s] = roomLeader[s]
                           /\ isLeader'[s] = isLeader[s]
      BY <2>2, <3>2, <3>3 DEF IInv, TypeOK, RoomsTyped
    <3>5. joinedPlayer'[r][1] = p /\ roomLeader'[r] = p /\ isLeader'[r] = {p}
      BY <2>2, <3>2 DEF IInv, TypeOK, RoomsTyped
    <3> QED BY <3>3, <3>4, <3>5 DEF IInv, LeaderIsFront, Served
  <2> QED BY <2>1, <2>2
<1>5. GamesWellFormed'
  <2>1. UNCHANGED <<games, returnRoom, gamePlayers, gameLeader, isStartGame>>
    BY DEF SitDown, gameVars
  <2>2. ASSUME NEW g \in games
        PROVE  /\ returnRoom[g] \in rooms'
               /\ isStartGame'[returnRoom[g]]
               /\ gamePlayers[g] \subseteq Members(returnRoom[g])'
               /\ roomLeader'[returnRoom[g]] = roomLeader[returnRoom[g]]
               /\ \A q \in gamePlayers[g] : roomPlayerMap'[q] \notin RoomIds
    <3>1. rooms' = rooms \cup {r}
      BY DEF SitDown
    <3>2. p \notin gamePlayers[g]
      BY Playing
    <3>3. roomLeader'[returnRoom[g]] = roomLeader[returnRoom[g]]
      BY Playing DEF IInv, TypeOK, RoomsTyped
    <3>4. \A q \in gamePlayers[g] : roomPlayerMap'[q] = roomPlayerMap[q]
      BY <3>2, Playing DEF IInv, TypeOK, MapsTyped
    <3> QED BY <2>1, <3>1, <3>3, <3>4, Playing
  <2> QED BY <2>1, <2>2, GamesKept
<1>6. UniqueNames'
  <2>1. CASE r \in rooms
    BY <2>1 DEF IInv, UniqueNames, SitDown
  <2>2. CASE r \notin rooms
    <3>1. PICK n \in Names : ~ExistRoomName(n) /\ roomName' = [roomName EXCEPT ![r] = n]
      BY <2>2
    <3>2. rooms \subseteq RoomIds /\ rooms' = rooms \cup {r} /\ roomName \in [RoomIds -> Names \cup {Null}]
      BY DEF IInv, TypeOK, RoomsTyped, SitDown
    <3> QED BY <2>2, <3>1, <3>2 DEF IInv, UniqueNames, ExistRoomName
  <2> QED BY <2>1, <2>2
<1> QED BY <1>1, <1>2, <1>3, <1>4, <1>5, <1>6 DEF IInv, TypeOK, Served

\* Who is registered as a RoomPlayer sits in that room only, is not listed in the
\* lobby and plays in no game: what LEAVE_ROOM and ROOM_START rely on.
LEMMA InRoom ==
  ASSUME IInv, NEW p \in Players, NEW r, r = JoinRoomOf(p), r # Null
  PROVE  /\ r \in RoomIds /\ r \in rooms
         /\ roomPlayerMap[p] = r
         /\ p \in Members(r) /\ lobby[p] = 0
         /\ \A s \in RoomIds : p \in Members(s) => s = r
         /\ \A g \in games : p \notin gamePlayers[g]
<1>1. r \in RoomIds /\ roomPlayerMap[p] = r
  BY DEF JoinRoomOf
<1>2. p \in Members(r)
  BY <1>1 DEF IInv, RegistryAgrees
<1>3. r \in rooms
  <2>1. joinedPlayer[r] \in Seq(Players)
    BY <1>1 DEF IInv, TypeOK, RoomsTyped
  <2>2. joinedPlayer[r] # <<>>
    BY <1>2, <2>1, Listed DEF Members
  <2> QED BY <1>1, <2>2 DEF IInv, RoomsWellFormed
<1>4. lobby[p] = 0
  <2>1. lobby[p] \in Nat
    BY DEF IInv, TypeOK, MapsTyped
  <2>2. lobby[p] <= 1 /\ lobby[p] # 1
    BY <1>1, <1>2 DEF IInv, OneSeat
  <2> QED BY <2>1, <2>2
<1>5. \A s \in RoomIds : p \in Members(s) => s = r
  BY <1>1, <1>2 DEF IInv, OneSeat
<1>6. \A g \in games : p \notin gamePlayers[g]
  BY <1>1, Playing
<1> QED BY <1>1, <1>2, <1>3, <1>4, <1>5, <1>6

\* The effect of LEAVE_ROOM on the room it leaves, with line the members left
Depart(p, r, line) ==
  /\ joinedPlayer' = [joinedPlayer EXCEPT ![r] = line]
  /\ joinedPlayerCount' = [joinedPlayerCount EXCEPT ![r] = @ - 1]
  /\ rooms' = IF line = <<>> THEN rooms \ {r} ELSE rooms
  /\ Unseat(p, r)
  /\ \A s \in RoomIds : s # r \/ line # <<>> =>
       roomName'[s] = roomName[s] /\ isStartGame'[s] = isStartGame[s]
  /\ \A s \in RoomIds : s # r \/ (line # <<>> /\ roomLeader[r] # p) =>
       roomLeader'[s] = roomLeader[s]
  /\ \A s \in RoomIds \ {r} : isLeader'[s] = isLeader[s]
  /\ IF line = <<>> THEN ~isStartGame'[r]
     ELSE roomLeader'[r] = line[1] /\ isLeader'[r] = {line[1]}
  /\ UNCHANGED <<gameVars, gamePlayerMap, gameKey, crashed>>

\* ... which are the others, in their order
Departs(p, r, line) ==
  /\ r = JoinRoomOf(p) /\ r # Null
  /\ \E i \in DOMAIN joinedPlayer[r] : /\ joinedPlayer[r][i] = p
                                       /\ line = RemoveAt(joinedPlayer[r], i)
  /\ Len(line) = Len(joinedPlayer[r]) - 1
  /\ ToSet(line) = Members(r) \ {p} /\ IsInjective(line)
  /\ roomLeader[r] = p /\ line # <<>> => line[1] = joinedPlayer[r][2]
  /\ Depart(p, r, line) /\ RoomsTyped'

\* LEAVE_ROOM keeps the invariant: a room with a game on it is left by a joiner
\* only, since the players of the game are not registered.
LEMMA DepartStep ==
  ASSUME IInv, NEW p \in Players, NEW r, NEW line \in Seq(Players), Departs(p, r, line),
         Served(p)
  PROVE  IInv'
<1> USE DEF Departs
<1>0. /\ r \in RoomIds /\ r \in rooms
      /\ roomPlayerMap[p] = r
      /\ p \in Members(r) /\ lobby[p] = 0
      /\ \A s \in RoomIds : p \in Members(s) => s = r
      /\ \A g \in games : p \notin gamePlayers[g]
  BY InRoom
<1> USE <1>0
<1>1. \A s \in RoomIds : joinedPlayer[s] \in Seq(Players) /\ Members(s) \subseteq Players
  BY Seated DEF IInv
<1>2. \A s \in RoomIds : joinedPlayer'[s] = IF s = r THEN line ELSE joinedPlayer[s]
  BY DEF IInv, TypeOK, RoomsTyped, Depart
<1>3. \A s \in RoomIds : Members(s)' = IF s = r THEN Members(s) \ {p} ELSE Members(s)
  BY <1>2 DEF Members
<1>4. /\ lobby' = [lobby EXCEPT ![p] = 1]
      /\ roomPlayerMap' = [roomPlayerMap EXCEPT ![p] = Absent]
      /\ joinRoomMap' = joinRoomMap \ {<<p, r>>}
      /\ screen' = [screen EXCEPT ![p] = "LOBBY"]
  BY DEF Depart, Unseat
<1>5. TypeOK'
  <2>1. GamesTyped'
    BY DEF IInv, TypeOK, GamesTyped, Depart, gameVars
  <2>2. MapsTyped'
    BY <1>4 DEF IInv, TypeOK, MapsTyped, Depart, Served, connVars
  <2>3. ClientsTyped'
    BY <1>4 DEF IInv, TypeOK, ClientsTyped, Depart, Served, connVars
  <2> QED BY <2>1, <2>2, <2>3 DEF TypeOK, Served
<1>6. OneSeat'
  <2>1. \A s \in RoomIds : IsInjective(joinedPlayer'[s])
    BY <1>2 DEF IInv, OneSeat
  <2>2. \A s, t \in RoomIds : s # t => Members(s)' \cap Members(t)' = {}
    BY <1>3 DEF IInv, OneSeat
  <2>3. \A q \in Players : lobby'[q] <= 1
    BY <1>4 DEF IInv, TypeOK, MapsTyped, OneSeat
  <2>4. \A q \in Players : lobby'[q] = 1 => \A s \in RoomIds : q \notin Members(s)'
    <3>1. \A s \in RoomIds : p \notin Members(s)'
      BY <1>3
    <3> QED BY <3>1, <1>3, <1>4 DEF IInv, TypeOK, MapsTyped, OneSeat
  <2> QED BY <2>1, <2>2, <2>3, <2>4 DEF OneSeat
<1>7. RoomsWellFormed'
  <2>1. \A s \in RoomIds : /\ joinedPlayerCount[s] = Len(joinedPlayer[s])
                           /\ joinedPlayerCount[s] <= MaxRoomUser
                           /\ s \in rooms <=> joinedPlayer[s] # <<>>
    BY DEF IInv, RoomsWellFormed
  <2>2. \A s \in RoomIds : joinedPlayerCount'[s] =
                             IF s = r THEN joinedPlayerCount[s] - 1 ELSE joinedPlayerCount[s]
    BY DEF IInv, TypeOK, RoomsTyped, Depart
  <2>3. Len(joinedPlayer[r]) \in Nat /\ MaxRoomUser \in Nat
    BY <1>1, Listed, ConstantsAssumption
  <2>4. rooms' = IF line = <<>> THEN rooms \ {r} ELSE rooms
    BY DEF Depart
  <2> QED BY <2>1, <2>2, <2>3, <2>4, <1>2 DEF RoomsWellFormed
<1>8. LeaderIsFront'
  <2>1. rooms' = IF line = <<>> THEN rooms \ {r} ELSE rooms
    BY DEF Depart
  <2>2. rooms \subseteq RoomIds
    BY DEF IInv, TypeOK, RoomsTyped
  <2>3. ASSUME NEW s \in rooms', s # r
        PROVE  roomLeader'[s] = joinedPlayer'[s][1] /\ isLeader'[s] = {roomLeader'[s]}
    <3>1. s \in rooms /\ s \in RoomIds
      BY <2>1, <2>2, <2>3
    <3>2. roomLeader[s] = joinedPlayer[s][1] /\ isLeader[s] = {roomLeader[s]}
      BY <3>1 DEF IInv, LeaderIsFront, Served
    <3>3. roomLeader'[s] = roomLeader[s] /\ isLeader'[s] = isLeader[s]
      BY <3>1, <2>3 DEF Depart
    <3> QED BY <3>1, <3>2, <3>3, <2>3, <1>2
  <2>4. ASSUME r \in rooms'
        PROVE  roomLeader'[r] = joinedPlayer'[r][1] /\ isLeader'[r] = {roomLeader'[r]}
    <3>1. line # <<>>
      BY <2>1, <2>4
    <3> QED BY <3>1, <1>2 DEF Depart
  <2> QED BY <2>3, <2>4 DEF LeaderIsFront
<1>9. RegistryAgrees'
  <2>1. joinRoomMap' = {seat \in Players \X RoomIds : seat[1] \in Members(seat[2])'}
    BY <1>3, <1>4 DEF IInv, RegistryAgrees
  <2>2. \A q \in Players : roomPlayerMap'[q] \in RoomIds => q \in Members(roomPlayerMap[q])'
    <3>1. \A q \in Players : roomPlayerMap[q] \in RoomIds => q \in Members(roomPlayerMap[q])
      BY DEF IInv, RegistryAgrees
    <3>2. Absent \notin RoomIds
      BY ConstantsAssumption
    <3> QED BY <3>1, <3>2, <1>3, <1>4 DEF IInv, TypeOK, MapsTyped
  <2>3. \A q \in Players : screen'[q] = "LOBBY" => roomPlayerMap'[q] = Absent
    BY <1>4 DEF IInv, TypeOK, MapsTyped, ClientsTyped, RegistryAgrees
  <2> QED BY <2>1, <2>2, <2>3 DEF RegistryAgrees
<1>10. GamesWellFormed'
  <2>1. UNCHANGED <<games, returnRoom, gamePlayers, gameLeader>>
    BY DEF Depart, gameVars
  <2>2. ASSUME NEW g \in games
        PROVE  /\ returnRoom[g] \in rooms'
               /\ isStartGame'[returnRoom[g]]
               /\ gamePlayers[g] \subseteq Members(returnRoom[g])'
               /\ roomLeader'[returnRoom[g]] = roomLeader[returnRoom[g]]
               /\ \A q \in gamePlayers[g] : roomPlayerMap'[q] \notin RoomIds
    <3>1. returnRoom[g] = r => roomLeader[r] # p /\ line # <<>>
      <4>1. ASSUME returnRoom[g] = r PROVE roomLeader[r] # p /\ roomLeader[r] \in ToSet(line)
        BY <4>1, Playing
      <4> QED BY <4>1, Listed
    <3>2. returnRoom[g] \in rooms' /\ isStartGame'[returnRoom[g]]
      BY <3>1, Playing DEF Depart
    <3>3. gamePlayers[g] \subseteq Members(returnRoom[g])'
      BY <2>1, <1>3, Playing
    <3>4. roomLeader'[returnRoom[g]] = roomLeader[returnRoom[g]]
      BY <3>1, Playing DEF Depart
    <3>5. \A q \in gamePlayers[g] : roomPlayerMap'[q] \notin RoomIds
      BY <1>4, Playing DEF IInv, TypeOK, MapsTyped
    <3> QED BY <3>2, <3>3, <3>4, <3>5
  <2>3. \A s \in RoomIds : isStartGame'[s] => isStartGame[s]
    BY DEF Depart
  <2> QED BY <2>1, <2>2, <2>3, GamesKept
<1>11. GameRegistryAgrees'
  BY <1>4 DEF IInv, TypeOK, ClientsTyped, GameRegistryAgrees, Depart, gameVars
<1>12. ClientsInStep'
  BY <1>3, <1>4 DEF IInv, TypeOK, ClientsTyped, ClientsInStep, Served, connVars
<1>13. UniqueNames'
  <2>1. rooms' \subseteq rooms /\ rooms \subseteq RoomIds /\ \A s \in rooms' : roomName'[s] = roomName[s]
    BY DEF IInv, TypeOK, RoomsTyped, Depart
  <2> QED BY <2>1 DEF IInv, UniqueNames
<1>14. Located'
  <2>1. ASSUME NEW q \in players' PROVE lobby'[q] = 1 \/ \E s \in rooms' : q \in Members(s)'
    <3>1. rooms \subseteq RoomIds /\ rooms' = IF line = <<>> THEN rooms \ {r} ELSE rooms
      BY DEF IInv, TypeOK, RoomsTyped, Depart
    <3>2. q \in Players /\ lobby \in [Players -> Nat]
      BY <2>1 DEF IInv, TypeOK, MapsTyped, Served, connVars
    <3>3. lobby[q] = 1 \/ \E s \in rooms : q \in Members(s)
      BY <2>1 DEF IInv, Located, Served, connVars
    <3>4. CASE q = p
      BY <3>2, <3>4, <1>4
    <3>5. CASE q # p /\ lobby[q] = 1
      BY <3>2, <3>5, <1>4
    <3>6. CASE q # p /\ lobby[q] # 1
      <4>1. PICK s \in rooms : q \in Members(s)
        BY <3>3, <3>6
      <4>2. s = r => line # <<>>
        BY <4>1, <3>6, Listed
      <4> QED BY <4>1, <4>2, <3>1, <3>6, <1>3
    <3> QED BY <3>4, <3>5, <3>6
  <2> QED BY <2>1 DEF Located
<1> QED BY <1>5, <1>6, <1>7, <1>8, <1>9, <1>10, <1>11, <1>12, <1>13, <1>14 DEF IInv

\* ROOM_START's loop finds the room's leader by its flag.
LEMMA LeaderFlagged ==
  ASSUME IInv, ~crashed, NEW r \in rooms
  PROVE  FlaggedLeader(r) = roomLeader[r]
<1>1. joinedPlayer[r] \in Seq(Players) /\ joinedPlayer[r] # <<>> /\ IsInjective(joinedPlayer[r])
  BY DEF IInv, TypeOK, RoomsTyped, RoomsWellFormed, OneSeat
<1>2. isLeader[r] = {joinedPlayer[r][1]} /\ roomLeader[r] = joinedPlayer[r][1]
  BY DEF IInv, LeaderIsFront
<1> DEFINE flagged == {i \in DOMAIN joinedPlayer[r] : joinedPlayer[r][i] \in isLeader[r]}
<1>3. flagged = {1}
  BY <1>1, <1>2, Listed
<1>4. (CHOOSE i \in flagged : \A j \in flagged : j <= i) = 1
  BY <1>3
<1> QED BY <1>2, <1>3, <1>4 DEF FlaggedLeader

\* ROOM_START that begins game g
StartsGame(p, r, g) ==
  /\ r = JoinRoomOf(p) /\ MayStart(p, r)
  /\ g \in FreshGameKeys /\ BeginGame(r, g)
  /\ UNCHANGED <<rooms, roomName, joinedPlayer, joinedPlayerCount, roomLeader,
                 readyState, isLeader, joinRoomMap, lobby, crashed>>

\* ROOM_START keeps the invariant: no game is listed for the room, since the one
\* who asks leads it and is registered.
LEMMA BeginGameStep ==
  ASSUME IInv, NEW p \in Players, NEW r, NEW g, StartsGame(p, r, g), Served(p)
  PROVE  IInv'
<1> USE DEF StartsGame
<1>1. /\ r \in RoomIds /\ r \in rooms /\ roomPlayerMap[p] = r
      /\ p \in Members(r)
      /\ \A h \in games : p \notin gamePlayers[h]
      /\ roomLeader[r] = p
  BY InRoom DEF MayStart
<1>2. g \in GameKeys /\ g \notin games
  BY DEF FreshGameKeys
<1>3. FlaggedLeader(r) = p
  BY <1>1, LeaderFlagged DEF Served
<1>4. \A h \in games : returnRoom[h] # r
  BY <1>1, Playing
<1>5. Members(r) \subseteq Players
  BY <1>1, Seated DEF IInv
<1>6. /\ \A s \in RoomIds : Members(s)' = Members(s)
      /\ \A s, t \in RoomIds : s # t => Members(s) \cap Members(t) = {}
  BY DEF Members, IInv, OneSeat
<1>7. /\ games' = games \cup {g}
      /\ returnRoom' = [returnRoom EXCEPT ![g] = r]
      /\ gamePlayers' = [gamePlayers EXCEPT ![g] = Members(r)]
      /\ gameLeader' = [gameLeader EXCEPT ![g] = p]
      /\ loading' = [loading EXCEPT ![g] = {}]
      /\ isStartGame' = [isStartGame EXCEPT ![r] = TRUE]
  BY <1>3 DEF BeginGame
<1>8. /\ roomPlayerMap' \in [Players -> RoomIds \cup {Null, Absent}]
      /\ \A q \in Players : roomPlayerMap'[q] = IF q \in Members(r) THEN Absent ELSE roomPlayerMap[q]
  BY DEF IInv, TypeOK, MapsTyped, BeginGame
<1>9. /\ gamePlayerMap' \in [Players -> GameKeys \cup {Null, Absent}]
      /\ \A q \in Players : gamePlayerMap'[q] =
           IF q \in Members(r) /\ gamePlayerMap[q] = Absent THEN g ELSE gamePlayerMap[q]
  BY <1>2 DEF IInv, TypeOK, MapsTyped, BeginGame, Inserted
<1>10. /\ screen' \in [Players -> {"LOBBY", "ROOM", "GAME"}]
       /\ gameKey' \in [Players -> GameKeys \cup {Null}]
       /\ \A q \in Players : /\ screen'[q] = IF q \in Members(r) THEN "GAME" ELSE screen[q]
                             /\ gameKey'[q] = IF q \in Members(r) THEN g ELSE gameKey[q]
  BY <1>2 DEF IInv, TypeOK, ClientsTyped, BeginGame
<1>11. TypeOK'
  <2>1. RoomsTyped'
    BY <1>7 DEF IInv, TypeOK, RoomsTyped
  <2>2. GamesTyped'
    BY <1>1, <1>2, <1>5, <1>7 DEF IInv, TypeOK, GamesTyped
  <2>3. MapsTyped'
    BY <1>8, <1>9 DEF IInv, TypeOK, MapsTyped, Served, connVars
  <2>4. ClientsTyped'
    BY <1>10 DEF IInv, TypeOK, ClientsTyped, Served, connVars
  <2> QED BY <2>1, <2>2, <2>3, <2>4 DEF TypeOK, Served
<1>12. OneSeat'
  BY <1>6 DEF IInv, OneSeat
<1>13. RoomsWellFormed' /\ LeaderIsFront' /\ UniqueNames'
  BY DEF IInv, RoomsWellFormed, LeaderIsFront, UniqueNames
<1>14. RegistryAgrees'
  <2>1. joinRoomMap' = {seat \in Players \X RoomIds : seat[1] \in Members(seat[2])'}
    BY <1>6 DEF IInv, RegistryAgrees
  <2>2. \A q \in Players : roomPlayerMap'[q] \in RoomIds => q \in Members(roomPlayerMap[q])'
    <3>1. \A q \in Players : roomPlayerMap[q] \in RoomIds => q \in Members(roomPlayerMap[q])
      BY DEF IInv, RegistryAgrees
    <3>2. Absent \notin RoomIds
      BY ConstantsAssumption
    <3> QED BY <3>1, <3>2, <1>6, <1>8
  <2>3. \A q \in Players : screen'[q] = "LOBBY" => roomPlayerMap'[q] = Absent
    BY <1>8, <1>10 DEF IInv, RegistryAgrees
  <2> QED BY <2>1, <2>2, <2>3 DEF RegistryAgrees
<1>15. GamesWellFormed'
  <2>1. ASSUME NEW h \in games'
        PROVE  /\ returnRoom'[h] \in rooms /\ isStartGame'[returnRoom'[h]]
               /\ gamePlayers'[h] \subseteq ToSet(joinedPlayer[returnRoom'[h]])
               /\ gameLeader'[h] = roomLeader[returnRoom'[h]] /\ gameLeader'[h] \in gamePlayers'[h]
               /\ \A q \in gamePlayers'[h] : roomPlayerMap'[q] \notin RoomIds
    <3>1. CASE h = g
      <4>1. /\ returnRoom'[h] = r /\ gamePlayers'[h] = Members(r) /\ gameLeader'[h] = p
            /\ isStartGame'[r]
        BY <3>1, <1>1, <1>2, <1>7 DEF IInv, TypeOK, GamesTyped, RoomsTyped
      <4>2. \A q \in Members(r) : roomPlayerMap'[q] \notin RoomIds
        BY <1>5, <1>8, ConstantsAssumption
      <4> QED BY <4>1, <4>2, <1>1 DEF Members
    <3>2. CASE h # g
      <4>1. h \in games /\ h \in GameKeys
        BY <3>2, <1>7 DEF IInv, TypeOK, GamesTyped
      <4>2. /\ returnRoom'[h] = returnRoom[h] /\ gamePlayers'[h] = gamePlayers[h]
            /\ gameLeader'[h] = gameLeader[h]
        BY <3>2, <4>1, <1>7 DEF IInv, TypeOK, GamesTyped
      <4>3. /\ returnRoom[h] \in rooms /\ returnRoom[h] \in RoomIds /\ isStartGame[returnRoom[h]]
            /\ gamePlayers[h] \subseteq Members(returnRoom[h])
            /\ gamePlayers[h] \subseteq Players
            /\ roomLeader[returnRoom[h]] \in gamePlayers[h]
            /\ gameLeader[h] = roomLeader[returnRoom[h]]
            /\ \A q \in gamePlayers[h] : roomPlayerMap[q] \notin RoomIds
        BY <4>1, Playing
      <4>4. isStartGame'[returnRoom[h]]
        BY <4>3, <1>7 DEF IInv, TypeOK, RoomsTyped
      <4>5. \A q \in gamePlayers[h] : roomPlayerMap'[q] \notin RoomIds
        BY <4>3, <1>8, ConstantsAssumption
      <4> QED BY <4>2, <4>3, <4>4, <4>5 DEF Members
    <3> QED BY <3>1, <3>2
  <2>2. \A h, k \in games' : returnRoom'[h] = returnRoom'[k] => h = k
    <3>1. \A h \in games : h \in GameKeys /\ returnRoom'[h] = returnRoom[h]
      BY <1>2, <1>7 DEF IInv, TypeOK, GamesTyped
    <3>2. returnRoom'[g] = r
      BY <1>2, <1>7 DEF IInv, TypeOK, GamesTyped
    <3>3. \A h, k \in games : returnRoom[h] = returnRoom[k] => h = k
      BY DEF IInv, GamesWellFormed
    <3> QED BY <3>1, <3>2, <3>3, <1>4, <1>7
  <2>3. ASSUME NEW s \in RoomIds, isStartGame'[s] PROVE \E h \in games' : returnRoom'[h] = s
    <3>1. CASE s = r
      BY <3>1, <1>2, <1>7 DEF IInv, TypeOK, GamesTyped
    <3>2. CASE s # r
      <4>1. isStartGame[s]
        BY <2>3, <3>2, <1>7 DEF IInv, TypeOK, RoomsTyped
      <4>2. PICK h \in games : returnRoom[h] = s
        BY <4>1 DEF IInv, GamesWellFormed
      <4> QED BY <4>2, <1>2, <1>7 DEF IInv, TypeOK, GamesTyped
    <3> QED BY <3>1, <3>2
  <2> QED BY <2>1, <2>2, <2>3 DEF GamesWellFormed, Members
<1>16. GameRegistryAgrees'
  <2>1. ASSUME NEW h \in games PROVE h # g /\ gamePlayers'[h] = gamePlayers[h]
    BY <1>2, <1>7 DEF IInv, TypeOK, GamesTyped
  <2>2. gamePlayers'[g] = Members(r)
    BY <1>2, <1>7 DEF IInv, TypeOK, GamesTyped
  <2>3. ASSUME NEW h \in games PROVE Members(r) \cap gamePlayers[h] = {}
    BY Playing, <1>1, <1>4, <1>6
  <2>4. ASSUME NEW q \in Players, gamePlayerMap'[q] \in GameKeys
        PROVE  gamePlayerMap'[q] \in games' /\ q \in gamePlayers'[gamePlayerMap'[q]]
    BY <2>1, <2>2, <2>4, <1>7, <1>9 DEF IInv, GameRegistryAgrees
  <2>5. ASSUME NEW q \in Players
        PROVE  screen'[q] = "GAME" <=> \E h \in games' : h = gameKey'[q] /\ q \in gamePlayers'[h]
    <3>1. CASE q \in Members(r)
      BY <3>1, <2>2, <1>7, <1>10
    <3>2. CASE q \notin Members(r)
      BY <3>2, <2>1, <2>2, <1>7, <1>10 DEF IInv, GameRegistryAgrees
    <3> QED BY <3>1, <3>2
  <2> QED BY <2>4, <2>5 DEF GameRegistryAgrees
<1>17. ClientsInStep'
  <2>1. \A q \in Members(r) : screen[q] # "LOBBY"
    BY <1>1, <1>5 DEF IInv, ClientsInStep
  <2> QED BY <2>1, <1>6, <1>10 DEF IInv, TypeOK, ClientsTyped, ClientsInStep, Served, connVars
<1>18. Located'
  BY <1>6 DEF IInv, TypeOK, RoomsTyped, Located, Served, connVars
<1> QED BY <1>11, <1>12, <1>13, <1>14, <1>15, <1>16, <1>17, <1>18 DEF IInv

\* GAME_END of a listed game g by p, who need not play in it any more
FinishGame(p, g) ==
  /\ RemoveGame(g)
  /\ EndGame(returnRoom[g])
  /\ gamePlayerMap' = GamePlayersRemoved(p, gamePlayers[g])
  /\ screen' = [q \in Players |-> IF q \in gamePlayers[g] THEN "ROOM" ELSE screen[q]]
  /\ gameKey' = [q \in Players |-> IF q \in gamePlayers[g] THEN Null ELSE gameKey[q]]
  /\ UNCHANGED <<rooms, roomName, joinedPlayer, joinedPlayerCount, roomLeader,
                 isLeader, joinRoomMap, lobby, crashed>>

\* GAME_END keeps the invariant: it registers members of its own room only, none of
\* whom plays in another game.
LEMMA FinishGameStep ==
  ASSUME IInv, NEW p \in Players, NEW g \in games, FinishGame(p, g), Served(p)
  PROVE  IInv'
<1> DEFINE r == returnRoom[g]
           team == gamePlayers[g]
<1>1. /\ r \in RoomIds /\ r \in rooms /\ g \in GameKeys
      /\ team \subseteq Members(r)
      /\ team \subseteq Players
  BY Playing
<1>2. \A h \in games : returnRoom[h] = r => h = g
  BY DEF IInv, GamesWellFormed
<1>3. Members(r) \subseteq Players
  BY <1>1, Seated DEF IInv
<1> HIDE DEF r, team
<1>4. /\ \A s \in RoomIds : Members(s)' = Members(s)
      /\ \A s, t \in RoomIds : s # t => Members(s) \cap Members(t) = {}
  BY DEF Members, IInv, OneSeat, FinishGame
<1>5. /\ games' = games \ {g}
      /\ returnRoom' = [returnRoom EXCEPT ![g] = Null]
      /\ gamePlayers' = [gamePlayers EXCEPT ![g] = {}]
      /\ gameLeader' = [gameLeader EXCEPT ![g] = Null]
      /\ loading' = [loading EXCEPT ![g] = {}]
      /\ isStartGame' = [isStartGame EXCEPT ![r] = FALSE]
      /\ readyState' = [readyState EXCEPT ![r] = {}]
  BY DEF FinishGame, RemoveGame, EndGame, r
<1>6. /\ roomPlayerMap' \in [Players -> RoomIds \cup {Null, Absent}]
      /\ \A q \in Players : roomPlayerMap'[q] =
           IF q \in Members(r) /\ roomPlayerMap[q] = Absent THEN r ELSE roomPlayerMap[q]
  <2>1. roomPlayerMap' = [q \in Players |-> IF q \in Members(r)
                           THEN Inserted(roomPlayerMap, q, r)[q] ELSE roomPlayerMap[q]]
    BY DEF FinishGame, EndGame, r
  <2> QED BY <2>1, <1>1 DEF IInv, TypeOK, MapsTyped, Inserted
<1>7. /\ gamePlayerMap' \in [Players -> GameKeys \cup {Null, Absent}]
      /\ \A q \in Players : \/ gamePlayerMap'[q] \in {Absent, Null}
                            \/ gamePlayerMap'[q] = gamePlayerMap[q] /\ q \notin team
  <2>1. gamePlayerMap' = [q \in Players |-> IF q \in team THEN Absent
                           ELSE Touched(gamePlayerMap, p)[q]]
    BY DEF FinishGame, GamePlayersRemoved, team
  <2>2. \A q \in Players : Touched(gamePlayerMap, p)[q] \in {gamePlayerMap[q], Null}
    BY DEF IInv, TypeOK, MapsTyped, Touched, Inserted
  <2>3. \A q \in Players : gamePlayerMap[q] \in GameKeys \cup {Null, Absent}
    BY DEF IInv, TypeOK, MapsTyped
  <2> QED BY <2>1, <2>2, <2>3
<1>8. /\ screen' \in [Players -> {"LOBBY", "ROOM", "GAME"}]
      /\ gameKey' \in [Players -> GameKeys \cup {Null}]
      /\ \A q \in Players : /\ screen'[q] = IF q \in team THEN "ROOM" ELSE screen[q]
                            /\ gameKey'[q] = IF q \in team THEN Null ELSE gameKey[q]
  BY DEF IInv, TypeOK, ClientsTyped, FinishGame, team
<1>9. TypeOK'
  <2>1. RoomsTyped'
    BY <1>5 DEF IInv, TypeOK, RoomsTyped, FinishGame
  <2>2. GamesTyped'
    BY <1>5 DEF IInv, TypeOK, GamesTyped
  <2>3. MapsTyped'
    BY <1>6, <1>7 DEF IInv, TypeOK, MapsTyped, Served, connVars, FinishGame
  <2>4. ClientsTyped'
    BY <1>8 DEF IInv, TypeOK, ClientsTyped, Served, connVars, FinishGame
  <2> QED BY <2>1, <2>2, <2>3, <2>4 DEF TypeOK, Served
<1>10. OneSeat'
  BY <1>4 DEF IInv, OneSeat, FinishGame
<1>11. RoomsWellFormed' /\ LeaderIsFront' /\ UniqueNames'
  BY DEF IInv, RoomsWellFormed, LeaderIsFront, UniqueNames, FinishGame
<1>12. RegistryAgrees'
  <2>1. joinRoomMap' = {seat \in Players \X RoomIds : seat[1] \in Members(seat[2])'}
    BY <1>4 DEF IInv, RegistryAgrees, FinishGame
  <2>2. \A q \in Players : roomPlayerMap'[q] \in RoomIds => q \in Members(roomPlayerMap[q])'
    <3>1. \A q \in Players : roomPlayerMap[q] \in RoomIds => q \in Members(roomPlayerMap[q])
      BY DEF IInv, RegistryAgrees
    <3> QED BY <3>1, <1>1, <1>4, <1>6
  <2>3. \A q \in Players : screen'[q] = "LOBBY" => roomPlayerMap'[q] = Absent
    <3>1. \A q \in Players : screen[q] = "LOBBY" => q \notin Members(r) /\ roomPlayerMap[q] = Absent
      BY <1>1 DEF IInv, ClientsInStep, RegistryAgrees
    <3> QED BY <3>1, <1>6, <1>8
  <2> QED BY <2>1, <2>2, <2>3 DEF RegistryAgrees
<1>13. ASSUME NEW h \in games'
       PROVE  /\ h \in games /\ h # g /\ h \in GameKeys
              /\ returnRoom'[h] = returnRoom[h] /\ gamePlayers'[h] = gamePlayers[h]
              /\ gameLeader'[h] = gameLeader[h]
              /\ returnRoom[h] # r
  BY <1>2, <1>5 DEF IInv, TypeOK, GamesTyped
<1>14. GamesWellFormed'
  <2>1. ASSUME NEW h \in games'
        PROVE  /\ returnRoom'[h] \in rooms /\ isStartGame'[returnRoom'[h]]
               /\ gamePlayers'[h] \subseteq ToSet(joinedPlayer[returnRoom'[h]])
               /\ gameLeader'[h] = roomLeader[returnRoom'[h]] /\ gameLeader'[h] \in gamePlayers'[h]
               /\ \A q \in gamePlayers'[h] : roomPlayerMap'[q] \notin RoomIds
    <3>1. /\ h \in games /\ returnRoom[h] # r
          /\ returnRoom'[h] = returnRoom[h] /\ gamePlayers'[h] = gamePlayers[h]
          /\ gameLeader'[h] = gameLeader[h]
      BY <1>13
    <3>2. /\ returnRoom[h] \in rooms /\ returnRoom[h] \in RoomIds /\ isStartGame[returnRoom[h]]
          /\ gamePlayers[h] \subseteq Members(returnRoom[h])
          /\ gamePlayers[h] \subseteq Players
          /\ roomLeader[returnRoom[h]] \in gamePlayers[h]
          /\ gameLeader[h] = roomLeader[returnRoom[h]]
          /\ \A q \in gamePlayers[h] : roomPlayerMap[q] \notin RoomIds
      BY <3>1, Playing
    <3>3. isStartGame'[returnRoom[h]]
      BY <3>1, <3>2, <1>5 DEF IInv, TypeOK, RoomsTyped
    <3>4. \A q \in gamePlayers[h] : q \notin Members(r)
      BY <3>1, <3>2, <1>1, <1>4
    <3>5. \A q \in gamePlayers[h] : roomPlayerMap'[q] \notin RoomIds
      BY <3>2, <3>4, <1>6
    <3> QED BY <3>1, <3>2, <3>3, <3>5 DEF Members
  <2>2. \A h, k \in games' : returnRoom'[h] = returnRoom'[k] => h = k
    BY <1>13 DEF IInv, GamesWellFormed
  <2>3. ASSUME NEW s \in RoomIds, isStartGame'[s] PROVE \E h \in games' : returnRoom'[h] = s
    <3>1. s # r /\ isStartGame[s]
      BY <2>3, <1>5 DEF IInv, TypeOK, RoomsTyped
    <3>2. PICK h \in games : returnRoom[h] = s
      BY <3>1 DEF IInv, GamesWellFormed
    <3>3. h # g
      BY <3>1, <3>2 DEF r
    <3> QED BY <3>2, <3>3, <1>5, <1>13
  <2>4. rooms' = rooms /\ joinedPlayer' = joinedPlayer /\ roomLeader' = roomLeader
    BY DEF FinishGame
  <2> QED BY <2>1, <2>2, <2>3, <2>4 DEF GamesWellFormed, Members
<1>15. GameRegistryAgrees'
  <2>1. ASSUME NEW q \in Players, gamePlayerMap'[q] \in GameKeys
        PROVE  gamePlayerMap'[q] \in games' /\ q \in gamePlayers'[gamePlayerMap'[q]]
    <3>1. gamePlayerMap'[q] = gamePlayerMap[q] /\ q \notin team
      BY <2>1, <1>7, ConstantsAssumption
    <3>2. gamePlayerMap[q] \in games /\ q \in gamePlayers[gamePlayerMap[q]]
      BY <2>1, <3>1 DEF IInv, GameRegistryAgrees
    <3>3. gamePlayerMap[q] # g
      BY <3>1, <3>2 DEF team
    <3> QED BY <3>1, <3>2, <3>3, <1>5, <1>13
  <2>2. ASSUME NEW q \in Players
        PROVE  screen'[q] = "GAME" <=> \E h \in games' : h = gameKey'[q] /\ q \in gamePlayers'[h]
    <3>1. CASE q \in team
      <4>1. screen'[q] = "ROOM" /\ gameKey'[q] = Null
        BY <3>1, <1>8
      <4>2. \A h \in games' : h # Null
        BY <1>13, ConstantsAssumption
      <4> QED BY <4>1, <4>2
    <3>2. CASE q \notin team
      <4>1. screen'[q] = screen[q] /\ gameKey'[q] = gameKey[q]
        BY <3>2, <1>8
      <4>2. screen[q] = "GAME" <=> \E h \in games : h = gameKey[q] /\ q \in gamePlayers[h]
        BY DEF IInv, GameRegistryAgrees
      <4>3. q \notin gamePlayers[g]
        BY <3>2 DEF team
      <4> QED BY <4>1, <4>2, <4>3, <1>5, <1>13
    <3> QED BY <3>1, <3>2
  <2> QED BY <2>1, <2>2 DEF GameRegistryAgrees
<1>16. ClientsInStep'
  <2>1. \A q \in team : screen[q] # "LOBBY"
    BY <1>1 DEF IInv, ClientsInStep
  <2> QED BY <2>1, <1>4, <1>8 DEF IInv, TypeOK, ClientsTyped, ClientsInStep, Served, connVars
<1>17. Located'
  BY <1>4 DEF IInv, TypeOK, RoomsTyped, Located, Served, connVars, FinishGame
<1> QED BY <1>9, <1>10, <1>11, <1>12, <1>14, <1>15, <1>16, <1>17 DEF IInv

\* Handlers that seat nobody: they may leave NULL entries behind in the maps.
Quiet(p) ==
  /\ UNCHANGED <<rooms, roomName, joinedPlayer, joinedPlayerCount, roomLeader,
                 isStartGame, isLeader, games, returnRoom, gamePlayers, gameLeader,
                 joinRoomMap, lobby, clientVars>>
  /\ readyState' \in [RoomIds -> SUBSET Players]
  /\ loading' \in [GameKeys -> SUBSET Players]
  /\ crashed' \in BOOLEAN
  /\ \/ UNCHANGED roomPlayerMap
     \/ screen[p] # "LOBBY" /\ roomPlayerMap' = Touched(roomPlayerMap, p)
  /\ gamePlayerMap' \in {gamePlayerMap, Touched(gamePlayerMap, p)}

\* The handlers that seat nobody keep the invariant: a NULL entry hides a member
\* from the handlers but moves nobody.
LEMMA QuietStep ==
  ASSUME IInv, NEW p \in Players, Quiet(p), Served(p)
  PROVE  IInv'
<1>1. \A s \in RoomIds : Members(s)' = Members(s)
  BY DEF Members, Quiet
<1>2. /\ roomPlayerMap' \in [Players -> RoomIds \cup {Null, Absent}]
      /\ \A q \in Players : \/ roomPlayerMap'[q] = roomPlayerMap[q]
                            \/ roomPlayerMap'[q] = Null /\ screen[q] # "LOBBY"
  BY DEF IInv, TypeOK, MapsTyped, Quiet, Touched, Inserted
<1>3. /\ gamePlayerMap' \in [Players -> GameKeys \cup {Null, Absent}]
      /\ \A q \in Players : gamePlayerMap'[q] \in {gamePlayerMap[q], Null}
  BY DEF IInv, TypeOK, MapsTyped, Quiet, Touched, Inserted
<1>4. TypeOK'
  <2>1. RoomsTyped' /\ GamesTyped'
    BY DEF IInv, TypeOK, RoomsTyped, GamesTyped, Quiet
  <2>2. MapsTyped'
    BY <1>2, <1>3 DEF IInv, TypeOK, MapsTyped, Quiet, Served, connVars
  <2>3. ClientsTyped'
    BY DEF IInv, TypeOK, ClientsTyped, Quiet, clientVars, Served, connVars
  <2> QED BY <2>1, <2>2, <2>3 DEF TypeOK, Served
<1>5. OneSeat'
  BY <1>1 DEF IInv, OneSeat, Quiet
<1>6. RoomsWellFormed' /\ LeaderIsFront' /\ UniqueNames'
  BY DEF IInv, RoomsWellFormed, LeaderIsFront, UniqueNames, Quiet, Served
<1>7. RegistryAgrees'
  <2>1. joinRoomMap' = {seat \in Players \X RoomIds : seat[1] \in Members(seat[2])'}
    BY <1>1 DEF IInv, RegistryAgrees, Quiet
  <2>2. \A q \in Players : roomPlayerMap'[q] \in RoomIds => q \in Members(roomPlayerMap[q])'
    <3>1. \A q \in Players : roomPlayerMap[q] \in RoomIds => q \in Members(roomPlayerMap[q])
      BY DEF IInv, RegistryAgrees
    <3> QED BY <3>1, <1>1, <1>2, ConstantsAssumption
  <2>3. \A q \in Players : screen'[q] = "LOBBY" => roomPlayerMap'[q] = Absent
    BY <1>2 DEF IInv, RegistryAgrees, Quiet, clientVars
  <2> QED BY <2>1, <2>2, <2>3 DEF RegistryAgrees
<1>8. GamesWellFormed'
  <2>1. UNCHANGED <<games, returnRoom, gamePlayers, gameLeader, isStartGame, rooms, roomLeader>>
    BY DEF Quiet
  <2>2. ASSUME NEW g \in games
        PROVE  /\ returnRoom[g] \in rooms'
               /\ isStartGame'[returnRoom[g]]
               /\ gamePlayers[g] \subseteq Members(returnRoom[g])'
               /\ roomLeader'[returnRoom[g]] = roomLeader[returnRoom[g]]
               /\ \A q \in gamePlayers[g] : roomPlayerMap'[q] \notin RoomIds
    BY <2>1, <1>1, <1>2, Playing, ConstantsAssumption
  <2> QED BY <2>1, <2>2, GamesKept
<1>9. GameRegistryAgrees'
  BY <1>3, ConstantsAssumption DEF IInv, GameRegistryAgrees, Quiet, clientVars
<1>10. ClientsInStep'
  BY <1>1 DEF IInv, ClientsInStep, Quiet, clientVars, Served, connVars
<1>11. Located'
  BY <1>1 DEF IInv, TypeOK, RoomsTyped, Located, Served, connVars, Quiet
<1> QED BY <1>4, <1>5, <1>6, <1>7, <1>8, <1>9, <1>10, <1>11 DEF IInv

\* LEAVE_ROOM of a leader whose heir has no registration: the line has turned when
\* the server dies.
Topples(p, r) ==
  /\ r = JoinRoomOf(p) /\ r # Null
  /\ joinedPlayerCount[r] > 1 /\ roomLeader[r] = p
  /\ NextLeaderMissing(r)
  /\ DieInHandover(r)
  /\ UNCHANGED <<gameVars, gamePlayerMap, gameKey>>

\* What has turned is still a line of the same members.
LEMMA ToppledLine ==
  ASSUME IInv, NEW p \in Players, NEW r, Topples(p, r)
  PROVE  /\ r \in rooms /\ r \in RoomIds /\ Len(joinedPlayer[r]) > 1
         /\ Rotated(joinedPlayer[r]) \in Seq(Players)
         /\ Len(Rotated(joinedPlayer[r])) = Len(joinedPlayer[r])
         /\ IsInjective(Rotated(joinedPlayer[r]))
         /\ Rotated(joinedPlayer[r])[1] \in Members(r)
         /\ Rotated(joinedPlayer[r])[1] \in Players
         /\ \A s \in RoomIds : joinedPlayer'[s] = IF s = r THEN Rotated(joinedPlayer[r])
                                                  ELSE joinedPlayer[s]
         /\ \A s \in RoomIds : Members(s)' = Members(s)
         /\ \A g \in games : returnRoom[g] # r
         /\ \A s \in RoomIds \ {r} : roomLeader'[s] = roomLeader[s]
<1>1. r \in RoomIds /\ r \in rooms /\ \A g \in games : p \notin gamePlayers[g]
  BY InRoom DEF Topples
<1> DEFINE s == joinedPlayer[r]
<1>2. s \in Seq(Players) /\ IsInjective(s) /\ Len(s) > 1
  BY <1>1 DEF IInv, TypeOK, RoomsTyped, OneSeat, RoomsWellFormed, Topples
<1>3. Len(s) \in Nat /\ s # <<>> /\ s[2] \in ToSet(s) /\ s[2] \in Players
  BY <1>2, Listed
<1>4. /\ Rotated(s) \in Seq(Players) /\ Len(Rotated(s)) = Len(s)
      /\ ToSet(Rotated(s)) = ToSet(s) /\ IsInjective(Rotated(s))
      /\ Rotated(s)[1] = s[2]
  BY <1>2, <1>3, RotatedFacts
<1>5. \A t \in RoomIds : joinedPlayer'[t] = IF t = r THEN Rotated(s) ELSE joinedPlayer[t]
  BY <1>1 DEF Topples, DieInHandover, IInv, TypeOK, RoomsTyped
<1>6. \A t \in RoomIds : Members(t)' = Members(t)
  BY <1>4, <1>5 DEF Members
<1>7. \A g \in games : returnRoom[g] # r
  BY <1>1, Playing DEF Topples
<1>8. \A t \in RoomIds \ {r} : roomLeader'[t] = roomLeader[t]
  BY DEF Topples, DieInHandover, IInv, TypeOK, RoomsTyped
<1> QED BY <1>1, <1>2, <1>3, <1>4, <1>5, <1>6, <1>7, <1>8 DEF Members

\* The death in ChangeLeader leaves everything but the lead in order.
LEMMA ToppleStep ==
  ASSUME IInv, NEW p \in Players, NEW r, Topples(p, r), Served(p)
  PROVE  IInv'
<1> DEFINE line == Rotated(joinedPlayer[r])
<1>0. /\ r \in rooms /\ r \in RoomIds /\ Len(joinedPlayer[r]) > 1
      /\ line \in Seq(Players) /\ Len(line) = Len(joinedPlayer[r]) /\ IsInjective(line)
      /\ line[1] \in Members(r) /\ line[1] \in Players
      /\ \A s \in RoomIds : joinedPlayer'[s] = IF s = r THEN line ELSE joinedPlayer[s]
      /\ \A s \in RoomIds : Members(s)' = Members(s)
      /\ \A g \in games : returnRoom[g] # r
      /\ \A s \in RoomIds \ {r} : roomLeader'[s] = roomLeader[s]
  BY ToppledLine
<1>1. /\ crashed' = TRUE
      /\ roomLeader' = [roomLeader EXCEPT ![r] = line[1]]
      /\ joinedPlayer' = [joinedPlayer EXCEPT ![r] = line]
      /\ isLeader' = [isLeader EXCEPT ![r] = @ \cup {line[1]}]
      /\ roomPlayerMap' = Touched(roomPlayerMap, line[1])
      /\ UNCHANGED <<rooms, roomName, joinedPlayerCount, isStartGame, readyState,
                     joinRoomMap, lobby, screen>>
      /\ UNCHANGED <<gameVars, gamePlayerMap, gameKey>>
  BY DEF Topples, DieInHandover
<1> HIDE DEF line
<1>2. screen[line[1]] # "LOBBY"
  BY <1>0 DEF IInv, ClientsInStep
<1>3. /\ roomPlayerMap' \in [Players -> RoomIds \cup {Null, Absent}]
      /\ \A q \in Players : \/ roomPlayerMap'[q] = roomPlayerMap[q]
                            \/ roomPlayerMap'[q] = Null /\ screen[q] # "LOBBY"
  BY <1>1, <1>2 DEF IInv, TypeOK, MapsTyped, Touched, Inserted
<1>4. TypeOK'
  <2>1. RoomsTyped'
    BY <1>0, <1>1 DEF IInv, TypeOK, RoomsTyped
  <2>2. GamesTyped' /\ MapsTyped'
    BY <1>1, <1>3 DEF IInv, TypeOK, GamesTyped, MapsTyped, gameVars, Served, connVars
  <2>3. ClientsTyped'
    BY <1>1 DEF IInv, TypeOK, ClientsTyped, Served, connVars
  <2> QED BY <2>1, <2>2, <2>3 DEF TypeOK, Served
<1>5. OneSeat'
  BY <1>0, <1>1 DEF IInv, OneSeat
<1>6. RoomsWellFormed'
  <2>1. line # <<>> /\ joinedPlayer[r] # <<>>
    <3>1. joinedPlayer[r] \in Seq(Players)
      BY <1>0 DEF IInv, TypeOK, RoomsTyped
    <3> QED BY <3>1, <1>0, Listed
  <2> QED BY <2>1, <1>0, <1>1 DEF IInv, RoomsWellFormed
<1>7. LeaderIsFront'
  BY <1>1 DEF LeaderIsFront
<1>8. RegistryAgrees'
  <2>1. joinRoomMap' = {seat \in Players \X RoomIds : seat[1] \in Members(seat[2])'}
    BY <1>0, <1>1 DEF IInv, RegistryAgrees
  <2>2. \A q \in Players : roomPlayerMap'[q] \in RoomIds => q \in Members(roomPlayerMap[q])'
    <3>1. \A q \in Players : roomPlayerMap[q] \in RoomIds => q \in Members(roomPlayerMap[q])
      BY DEF IInv, RegistryAgrees
    <3> QED BY <3>1, <1>0, <1>3, ConstantsAssumption
  <2>3. \A q \in Players : screen'[q] = "LOBBY" => roomPlayerMap'[q] = Absent
    BY <1>1, <1>3 DEF IInv, RegistryAgrees
  <2> QED BY <2>1, <2>2, <2>3 DEF RegistryAgrees
<1>9. GamesWellFormed'
  <2>1. UNCHANGED <<games, returnRoom, gamePlayers, gameLeader, isStartGame, rooms>>
    BY <1>1 DEF gameVars
  <2>2. ASSUME NEW g \in games
        PROVE  /\ returnRoom[g] \in rooms'
               /\ isStartGame'[returnRoom[g]]
               /\ gamePlayers[g] \subseteq Members(returnRoom[g])'
               /\ roomLeader'[returnRoom[g]] = roomLeader[returnRoom[g]]
               /\ \A q \in gamePlayers[g] : roomPlayerMap'[q] \notin RoomIds
    BY <2>1, <1>0, <1>3, Playing, ConstantsAssumption
  <2> QED BY <2>1, <2>2, GamesKept
<1>10. GameRegistryAgrees'
  BY <1>1 DEF IInv, GameRegistryAgrees, gameVars
<1>11. ClientsInStep'
  BY <1>0, <1>1 DEF IInv, ClientsInStep, Served, connVars
<1>12. UniqueNames'
  BY <1>1 DEF IInv, UniqueNames
<1>13. Located'
  BY <1>0, <1>1 DEF IInv, TypeOK, RoomsTyped, Located, Served, connVars
<1> QED BY <1>4, <1>5, <1>6, <1>7, <1>8, <1>9, <1>10, <1>11, <1>12, <1>13 DEF IInv

-----------------------------------------------------------------------------
\* Every handler has one of six effects.
Effect(p) ==
  \/ Quiet(p)
  \/ \E r \in RoomIds : SitsDown(p, r)
  \/ \E r \in rooms, line \in Seq(Players) : Departs(p, r, line)
  \/ \E r \in rooms, g \in GameKeys : StartsGame(p, r, g)
  \/ \E g \in games : FinishGame(p, g)
  \/ \E r \in rooms : Topples(p, r)

\* Whatever the effect, the invariant is kept.
LEMMA EffectStep ==
  ASSUME IInv, NEW p \in Players, Effect(p), Served(p)
  PROVE  IInv'
BY QuietStep, SitDownStep, DepartStep, BeginGameStep, FinishGameStep, ToppleStep DEF Effect

\* What Dispatch leaves for the handler's body: request m of player p
Serving(p, m) ==
  /\ p \in Players /\ m \in Request
  /\ m.kind \in LobbyKinds <=> screen[p] = "LOBBY"

\* CREATE_ROOM seats its sender in a new room, or does nothing.
LEMMA CreateRoomEffect ==
  ASSUME IInv, NEW p, NEW m, Serving(p, m), CREATE_ROOM(p, m)
  PROVE  Effect(p)
<1>1. p \in Players /\ m \in Request /\ m.kind = "CREATE_ROOM"
  BY DEF Serving, CREATE_ROOM
<1>2. screen[p] = "LOBBY"
  BY <1>1 DEF Serving, LobbyKinds
<1>3. m.name \in Names
  BY <1>1 DEF Request, RoomKinds, GameKinds, RelayKinds, HostKinds
<1>4. CASE ExistRoomName(m.name)
  <2>1. UNCHANGED <<roomVars, roomPlayerMap, joinRoomMap, lobby, screen>>
    BY <1>4 DEF CREATE_ROOM
  <2>2. UNCHANGED <<gameVars, gamePlayerMap, gameKey, crashed>>
    BY DEF CREATE_ROOM
  <2>3. Quiet(p)
    BY <2>1, <2>2 DEF Quiet, roomVars, gameVars, clientVars, IInv, TypeOK, RoomsTyped,
                      GamesTyped, ClientsTyped
  <2> QED BY <2>3 DEF Effect
<1>5. CASE ~ExistRoomName(m.name)
  <2>1. PICK r \in FreshRoomIds : OpenRoom(p, r, m.name)
    BY <1>5 DEF CREATE_ROOM
  <2>2. r \in RoomIds /\ r \notin rooms
    BY <2>1 DEF FreshRoomIds
  <2>3. joinedPlayer[r] = <<>> /\ joinedPlayerCount[r] = 0
    BY <2>2, EmptySeq DEF IInv, RoomsWellFormed
  <2>4. joinedPlayer' = [joinedPlayer EXCEPT ![r] = Append(@, p)]
    BY <2>1, <2>3 DEF OpenRoom
  <2>5. joinedPlayerCount' = [joinedPlayerCount EXCEPT ![r] = @ + 1]
    BY <2>1, <2>3 DEF OpenRoom
  <2>6. SitDown(p, r)
    BY <2>1, <2>4, <2>5, <1>5 DEF SitDown, OpenRoom, CREATE_ROOM
  <2>7. /\ ~ExistRoomName(m.name) /\ roomName' = [roomName EXCEPT ![r] = m.name]
        /\ roomLeader' = [roomLeader EXCEPT ![r] = p]
        /\ isLeader' = [isLeader EXCEPT ![r] = {p}]
    BY <2>1, <1>5 DEF OpenRoom
  <2>8. joinedPlayerCount[r] < MaxRoomUser
    BY <2>3, ConstantsAssumption
  <2> QED BY <2>2, <2>6, <2>7, <2>8, <1>2, <1>3 DEF SitsDown, Effect
<1> QED BY <1>4, <1>5

\* JOIN_ROOM seats its sender in a listed room, or does nothing.
LEMMA JoinRoomEffect ==
  ASSUME IInv, NEW p, NEW m, Serving(p, m), JOIN_ROOM(p, m)
  PROVE  Effect(p)
<1>1. p \in Players /\ m \in Request /\ m.kind = "JOIN_ROOM"
  BY DEF Serving, JOIN_ROOM
<1>2. screen[p] = "LOBBY"
  BY <1>1 DEF Serving, LobbyKinds
<1>3. CASE m.roomID \notin rooms \/ ~HasSpace(m.roomID)
  <2>1. UNCHANGED <<roomVars, roomPlayerMap, joinRoomMap, lobby, screen>>
    BY <1>3 DEF JOIN_ROOM
  <2>2. UNCHANGED <<gameVars, gamePlayerMap, gameKey, crashed>>
    BY DEF JOIN_ROOM
  <2>3. Quiet(p)
    BY <2>1, <2>2 DEF Quiet, roomVars, gameVars, clientVars, IInv, TypeOK, RoomsTyped,
                      GamesTyped, ClientsTyped
  <2> QED BY <2>3 DEF Effect
<1>4. CASE m.roomID \in rooms /\ HasSpace(m.roomID)
  <2>1. m.roomID \in RoomIds
    BY <1>4 DEF IInv, TypeOK, RoomsTyped
  <2>2. rooms' = rooms \cup {m.roomID}
    BY <1>4 DEF JOIN_ROOM, Join
  <2>3. SitDown(p, m.roomID)
    BY <2>2, <1>4 DEF SitDown, JOIN_ROOM, Join
  <2>4. UNCHANGED <<roomName, roomLeader, isLeader>>
    BY <1>4 DEF JOIN_ROOM, Join
  <2>5. joinedPlayerCount[m.roomID] < MaxRoomUser
    BY <1>4 DEF HasSpace
  <2> QED BY <2>1, <2>3, <2>4, <2>5, <1>2, <1>4 DEF SitsDown, Effect
<1> QED BY <1>3, <1>4

\* ROOM_READY seats nobody.
LEMMA RoomReadyEffect ==
  ASSUME IInv, NEW p, NEW m, Serving(p, m), ROOM_READY(p, m)
  PROVE  Effect(p)
<1>1. p \in Players /\ screen[p] # "LOBBY"
  BY DEF Serving, ROOM_READY, LobbyKinds
<1>2. readyState' \in [RoomIds -> SUBSET Players]
  <2>1. readyState \in [RoomIds -> SUBSET Players]
    BY DEF IInv, TypeOK, RoomsTyped
  <2>2. \/ UNCHANGED readyState
        \/ readyState' = [readyState EXCEPT ![JoinRoomOf(p)] = Flipped(@, p)]
    BY DEF ROOM_READY
  <2>3. \A S \in SUBSET Players : Flipped(S, p) \in SUBSET Players
    BY <1>1 DEF Flipped
  <2> QED BY <2>1, <2>2, <2>3
<1>3. Quiet(p)
  BY <1>1, <1>2 DEF Quiet, ROOM_READY, clientVars, gameVars, IInv, TypeOK, GamesTyped, ClientsTyped
<1> QED BY <1>3 DEF Effect

\* ROOM_CHATTING seats nobody, but may leave a NULL entry.
LEMMA RoomChattingEffect ==
  ASSUME IInv, NEW p, NEW m, Serving(p, m), ROOM_CHATTING(p, m)
  PROVE  Effect(p)
<1>1. p \in Players /\ screen[p] # "LOBBY"
  BY DEF Serving, ROOM_CHATTING, LobbyKinds
<1>2. Quiet(p)
  BY <1>1 DEF Quiet, ROOM_CHATTING, clientVars, roomVars, gameVars, IInv, TypeOK, RoomsTyped,
              GamesTyped, ClientsTyped
<1> QED BY <1>2 DEF Effect

\* ROOM_START begins a game for the room its sender leads, or does nothing.
LEMMA RoomStartEffect ==
  ASSUME IInv, NEW p, NEW m, Serving(p, m), ROOM_START(p, m)
  PROVE  Effect(p)
<1>1. p \in Players /\ screen[p] # "LOBBY"
  BY DEF Serving, ROOM_START, LobbyKinds
<1> DEFINE r == JoinRoomOf(p)
<1>2. CASE ~MayStart(p, r)
  <2>1. Quiet(p)
    BY <1>1, <1>2 DEF Quiet, ROOM_START, clientVars, gameVars, IInv, TypeOK, RoomsTyped,
                      GamesTyped, ClientsTyped
  <2> QED BY <2>1 DEF Effect
<1>3. CASE MayStart(p, r)
  <2>1. PICK g \in FreshGameKeys : BeginGame(r, g)
    BY <1>3 DEF ROOM_START
  <2>2. UNCHANGED <<rooms, roomName, joinedPlayer, joinedPlayerCount, roomLeader,
                    readyState, isLeader, joinRoomMap, lobby, crashed>>
    BY DEF ROOM_START
  <2>3. r \in rooms /\ g \in GameKeys
    BY <2>1, <1>1, <1>3, InRoom DEF MayStart, FreshGameKeys
  <2> QED BY <2>1, <2>2, <2>3, <1>3 DEF StartsGame, Effect
<1> QED BY <1>2, <1>3

\* LEAVE_ROOM takes its sender out of its room, by one of three ways, or seats
\* nobody; the front member is followed by the second.
LEMMA LeaveRoomEffect ==
  ASSUME IInv, ~crashed, NEW p, NEW m, Serving(p, m), LEAVE_ROOM(p, m)
  PROVE  Effect(p)
<1>1. p \in Players /\ screen[p] # "LOBBY"
  BY DEF Serving, LEAVE_ROOM, LobbyKinds
<1>2. UNCHANGED <<gameVars, gamePlayerMap, gameKey>>
  BY DEF LEAVE_ROOM
<1> DEFINE r == JoinRoomOf(p)
<1>3. CASE r = Null
  <2>1. /\ roomPlayerMap' = Touched(roomPlayerMap, p)
        /\ UNCHANGED <<roomVars, joinRoomMap, lobby, screen, crashed>>
    BY <1>3 DEF LEAVE_ROOM
  <2>2. Quiet(p)
    BY <1>1, <1>2, <2>1 DEF Quiet, clientVars, roomVars, gameVars, IInv, TypeOK, RoomsTyped,
                            GamesTyped, ClientsTyped
  <2> QED BY <2>2 DEF Effect
<1>4. CASE /\ r # Null /\ joinedPlayerCount[r] > 1 /\ roomLeader[r] = p
           /\ NextLeaderMissing(r) /\ DieInHandover(r)
  <2>1. r \in rooms
    BY <1>1, <1>4, InRoom
  <2>2. Topples(p, r)
    BY <1>2, <1>4 DEF Topples
  <2> QED BY <2>1, <2>2 DEF Effect
<1>5. ASSUME r # Null
      PROVE  /\ r \in RoomIds /\ r \in rooms /\ p \in Members(r)
             /\ joinedPlayer[r] \in Seq(Players) /\ IsInjective(joinedPlayer[r])
             /\ joinedPlayerCount[r] = Len(joinedPlayer[r])
             /\ joinedPlayer[r] # <<>>
             /\ roomLeader[r] = joinedPlayer[r][1] /\ isLeader[r] = {roomLeader[r]}
  <2>1. r \in RoomIds /\ r \in rooms /\ p \in Members(r)
    BY <1>1, <1>5, InRoom
  <2> HIDE DEF r
  <2> QED BY <2>1 DEF IInv, TypeOK, RoomsTyped, OneSeat, RoomsWellFormed, LeaderIsFront
<1>6. CASE r # Null /\ joinedPlayerCount[r] = 1 /\ CloseRoom(p, r)
  <2>1. /\ Unseat(p, r) /\ UNCHANGED crashed
        /\ isLeader' = [isLeader EXCEPT ![r] = {}]
        /\ readyState' = [readyState EXCEPT ![r] = {}]
    BY <1>6 DEF LEAVE_ROOM
  <2> HIDE DEF r
  <2> DEFINE line == <<>>
  <2>2. line \in Seq(Players) /\ Len(line) = 0 /\ ToSet(line) = {} /\ IsInjective(line)
    <3>1. line \in Seq(Players) /\ Len(line) = 0
      BY EmptySeq
    <3> QED BY <3>1, Listed
  <2>3. ToSet(line) = Members(r) \ {p}
    BY <2>2, <1>5, <1>6, Listed DEF Members
  <2>4. Depart(p, r, line)
    BY <2>1, <1>2, <1>5, <1>6 DEF Depart, CloseRoom, IInv, TypeOK, RoomsTyped
  <2>5. /\ rooms' = rooms \ {r}
        /\ roomName' = [roomName EXCEPT ![r] = Null]
        /\ joinedPlayer' = [joinedPlayer EXCEPT ![r] = line]
        /\ joinedPlayerCount' = [joinedPlayerCount EXCEPT ![r] = @ - 1]
        /\ roomLeader' = [roomLeader EXCEPT ![r] = Null]
        /\ isStartGame' = [isStartGame EXCEPT ![r] = FALSE]
    BY <1>6 DEF CloseRoom
  <2>6. Len(line) = Len(joinedPlayer[r]) - 1
    BY <2>2, <1>5, <1>6
  <2> HIDE DEF line
  <2>7. RoomsTyped'
    <3>1. RoomsTyped
      BY DEF IInv, TypeOK
    <3>2. /\ rooms' \subseteq RoomIds
          /\ roomName' \in [RoomIds -> Names \cup {Null}]
          /\ joinedPlayer' \in [RoomIds -> Seq(Players)]
          /\ joinedPlayerCount' \in [RoomIds -> Int]
      BY <3>1, <2>2, <2>5, <1>5, <1>6 DEF RoomsTyped
    <3>3. /\ roomLeader' \in [RoomIds -> Players \cup {Null}]
          /\ isStartGame' \in [RoomIds -> BOOLEAN]
          /\ readyState' \in [RoomIds -> SUBSET Players]
          /\ isLeader' \in [RoomIds -> SUBSET Players]
      BY <3>1, <2>1, <2>5 DEF RoomsTyped
    <3> QED BY <3>2, <3>3 DEF RoomsTyped
  <2>8. \E i \in DOMAIN joinedPlayer[r] : joinedPlayer[r][i] = p /\ line = RemoveAt(joinedPlayer[r], i)
    <3>1. PICK i \in 1..Len(joinedPlayer[r]) : joinedPlayer[r][i] = p
      BY <1>5, <1>6, Listed DEF Members
    <3>2. RemoveAt(joinedPlayer[r], i) \in Seq(Players) /\ Len(RemoveAt(joinedPlayer[r], i)) = 0
      BY <2>2, <2>6, <1>5, <1>6, RemoveAtFacts
    <3>3. RemoveAt(joinedPlayer[r], i) = line
      BY <3>2, Listed DEF line
    <3> QED BY <3>1, <3>3, <1>5, <1>6, Listed
  <2>9. line = <<>>
    BY DEF line
  <2>10. Departs(p, r, line)
    BY <2>2, <2>3, <2>4, <2>6, <2>7, <2>8, <2>9, <1>6 DEF Departs, r
  <2> QED BY <2>2, <2>10, <1>5, <1>6 DEF Effect
<1>7. CASE /\ r # Null /\ joinedPlayerCount[r] > 1 /\ Unseat(p, r)
           /\ joinedPlayerCount' = [joinedPlayerCount EXCEPT ![r] = @ - 1]
           /\ UNCHANGED <<rooms, roomName, isStartGame, crashed>>
           /\ roomLeader[r] = p /\ LeaveAsLeader(p, r)
  <2> HIDE DEF r
  <2> DEFINE s == joinedPlayer[r]
             line == Erased(Rotated(s), p)
  <2>1. s[1] = p /\ Len(s) \in Nat /\ Len(s) > 1
    BY <1>5, <1>7, Listed
  <2>2. /\ Rotated(s) \in Seq(Players) /\ Len(Rotated(s)) = Len(s)
        /\ ToSet(Rotated(s)) = Members(r) /\ IsInjective(Rotated(s))
        /\ Rotated(s)[1] # p
    BY <2>1, <1>5, <1>7, RotatedFacts DEF Members
  <2>3. p \in ToSet(Rotated(s))
    BY <2>2, <1>5, <1>7
  <2>4. /\ line \in Seq(Players) /\ Len(line) = Len(s) - 1
        /\ ToSet(line) = Members(r) \ {p} /\ IsInjective(line)
        /\ line # <<>> /\ line[1] = Rotated(s)[1]
    BY <2>2, <2>3, ErasedFacts
  <2>5. Rotated(s)[1] \in Players
    BY <2>1, <2>2, Listed
  <2>6. /\ joinedPlayer' = [joinedPlayer EXCEPT ![r] = line]
        /\ roomLeader' = [roomLeader EXCEPT ![r] = line[1]]
        /\ isLeader' = [isLeader EXCEPT ![r] = {line[1]}]
        /\ readyState' = [readyState EXCEPT ![r] = @ \ {p, line[1]}]
    BY <2>2, <2>4, <1>5, <1>7 DEF LeaveAsLeader
  <2> HIDE DEF line
  <2>7. Depart(p, r, line)
    BY <2>4, <2>6, <1>2, <1>5, <1>7 DEF Depart, IInv, TypeOK, RoomsTyped
  <2>8. RoomsTyped'
    BY <2>4, <2>5, <2>6, <1>5, <1>7 DEF IInv, TypeOK, RoomsTyped
  <2>9. line = RemoveAt(s, 1) /\ line[1] = s[2] /\ 1 \in DOMAIN s
    <3>1. Erased(Rotated(s), s[1]) = RemoveAt(s, 1) /\ Rotated(s)[1] = s[2]
      BY <2>1, <1>5, <1>7, LeaderErased, RotatedFacts
    <3>2. 1 \in DOMAIN s
      BY <2>1, <1>5, <1>7, Listed
    <3> QED BY <3>1, <3>2, <2>1, <2>4 DEF line
  <2>10. Departs(p, r, line)
    BY <2>1, <2>4, <2>7, <2>8, <2>9, <1>7 DEF Departs, r
  <2> QED BY <2>4, <2>10, <1>5, <1>7 DEF Effect
<1>8. CASE /\ r # Null /\ joinedPlayerCount[r] > 1 /\ Unseat(p, r)
           /\ joinedPlayerCount' = [joinedPlayerCount EXCEPT ![r] = @ - 1]
           /\ UNCHANGED <<rooms, roomName, isStartGame, crashed>>
           /\ roomLeader[r] # p /\ LeaveAsMember(p, r)
  <2> HIDE DEF r
  <2> DEFINE s == joinedPlayer[r]
             line == Erased(s, p)
  <2>1. s[1] # p /\ s[1] = roomLeader[r]
    BY <1>5, <1>8
  <2>2. /\ line \in Seq(Players) /\ Len(line) = Len(s) - 1
        /\ ToSet(line) = Members(r) \ {p} /\ IsInjective(line)
        /\ line # <<>> /\ line[1] = roomLeader[r]
    BY <2>1, <1>5, <1>8, ErasedFacts DEF Members
  <2>3. /\ joinedPlayer' = [joinedPlayer EXCEPT ![r] = line]
        /\ isLeader' = [isLeader EXCEPT ![r] = {line[1]}]
        /\ readyState' = [readyState EXCEPT ![r] = @ \ {p}]
        /\ UNCHANGED roomLeader
    BY <2>1, <2>2, <1>5, <1>8 DEF LeaveAsMember
  <2> HIDE DEF line
  <2>4. Depart(p, r, line)
    BY <2>2, <2>3, <1>2, <1>5, <1>8 DEF Depart, IInv, TypeOK, RoomsTyped
  <2>5. RoomsTyped'
    BY <2>2, <2>3, <1>5, <1>8 DEF IInv, TypeOK, RoomsTyped
  <2>6. \E i \in DOMAIN s : s[i] = p /\ line = RemoveAt(s, i)
    BY <1>5, <1>8, ErasedFacts DEF Members, line
  <2>7. Departs(p, r, line)
    BY <2>2, <2>4, <2>5, <2>6, <1>8 DEF Departs, r
  <2> QED BY <2>2, <2>7, <1>5, <1>8 DEF Effect
<1> QED BY <1>3, <1>4, <1>6, <1>7, <1>8 DEF LEAVE_ROOM

\* GAME_START records that a client has loaded, or faults.
LEMMA GameStartEffect ==
  ASSUME IInv, NEW p, NEW m, Serving(p, m), GAME_START(p, m)
  PROVE  Effect(p)
<1>1. p \in Players
  BY DEF Serving
<1>2. loading' \in [GameKeys -> SUBSET Players] /\ crashed' \in BOOLEAN
  <2>1. loading \in [GameKeys -> SUBSET Players] /\ crashed \in BOOLEAN
    BY DEF IInv, TypeOK, GamesTyped, ClientsTyped
  <2> QED BY <2>1, <1>1 DEF GAME_START
<1>3. Quiet(p)
  BY <1>2 DEF Quiet, GAME_START, GamePlayerLookedUp, GameUnchanged, roomVars, clientVars, IInv,
              TypeOK, RoomsTyped
<1> QED BY <1>3 DEF Effect

\* GAME_END finishes a listed game.
LEMMA GameEndEffect ==
  ASSUME IInv, NEW p, NEW m, Serving(p, m), GAME_END(p, m)
  PROVE  Effect(p)
<1>1. p \in Players
  BY DEF Serving
<1>2. CASE m.gameKey \notin games
  <2>1. Quiet(p)
    BY <1>2 DEF Quiet, GAME_END, gameVars, clientVars, IInv, TypeOK, RoomsTyped, GamesTyped,
                ClientsTyped
  <2> QED BY <2>1 DEF Effect
<1>3. CASE m.gameKey \in games
  <2>1. FinishGame(p, m.gameKey)
    BY <1>3 DEF GAME_END, FinishGame
  <2> QED BY <2>1, <1>3 DEF Effect
<1> QED BY <1>2, <1>3

\* The packets that are only passed on seat nobody.
LEMMA RelayEffect ==
  ASSUME IInv, NEW p, NEW m, Serving(p, m), Served(p),
         Relay(p, m) \/ RelayUnguarded(p, m) \/ RelayToHost(p, m) \/ RelayFromHost(p, m)
  PROVE  Effect(p)
<1>1. p \in Players
  BY DEF Serving
<1>2. GameUnchanged /\ UNCHANGED loading
  BY DEF Relay, RelayUnguarded, RelayToHost, RelayFromHost
<1>3. gamePlayerMap' \in {gamePlayerMap, Touched(gamePlayerMap, p)}
  BY DEF Relay, RelayUnguarded, RelayToHost, RelayFromHost, GamePlayerLookedUp
<1>4. crashed' \in BOOLEAN
  <2>1. crashed \in BOOLEAN
    BY DEF IInv, TypeOK, ClientsTyped
  <2>2. CASE Relay(p, m) \/ RelayUnguarded(p, m)
    BY <2>1, <2>2 DEF Relay, RelayUnguarded
  <2>3. CASE RelayToHost(p, m)
    BY <2>3 DEF RelayToHost
  <2>4. CASE RelayFromHost(p, m)
    BY <2>4 DEF RelayFromHost
  <2> QED BY <2>2, <2>3, <2>4
<1>5. Quiet(p)
  BY <1>2, <1>3, <1>4 DEF Quiet, GameUnchanged, roomVars, clientVars, IInv, TypeOK, RoomsTyped,
                          GamesTyped
<1> QED BY <1>5 DEF Effect

\* What a client shows now and what it is told next name their game.
LEMMA ToldView ==
  ASSUME IInv, NEW p \in Players
  PROVE  Told(p) \in Views
<1>1. screen[p] \in {"LOBBY", "ROOM", "GAME"} /\ gameKey[p] \in GameKeys \cup {Null}
  BY DEF IInv, TypeOK, ClientsTyped
<1>2. screen[p] = "GAME" => gameKey[p] # Null
  BY ConstantsAssumption DEF IInv, GameRegistryAgrees, TypeOK, GamesTyped
<1> QED BY <1>1, <1>2 DEF Told, Views

\* What is queued for the clients is news.
LEMMA NewsQueued ==
  ASSUME IInv, QueueNews
  PROVE  NewsTyped'
<1>1. outdated \in [Players -> Seq(Views)]
  BY DEF IInv, TypeOK, NewsTyped
<1>2. ASSUME NEW p \in Players
      PROVE  (IF p \in players /\ Told(p)' # Told(p) THEN Append(outdated[p], Told(p))
              ELSE outdated[p]) \in Seq(Views)
  <2>1. outdated[p] \in Seq(Views) /\ Told(p) \in Views
    BY <1>1, ToldView
  <2>2. Append(outdated[p], Told(p)) \in Seq(Views)
    BY <2>1, AppendProperties
  <2> QED BY <2>1, <2>2
<1> QED BY <1>2 DEF QueueNews, NewsTyped

\* Every body that ProcessPacketThread runs has one of the effects.
LEMMA HandleEffect ==
  ASSUME IInv, Handle
  PROVE  current.player \in Players /\ Effect(current.player) /\ Served(current.player)
<1> DEFINE p == current.player
           m == current.request
<1>1. Serving(p, m) /\ Served(p)
  BY NewsQueued DEF Handle, Serving, Served, IInv, TypeOK, ClientsTyped, ClientsInStep
<1>2. \/ CREATE_ROOM(p, m)         \/ JOIN_ROOM(p, m)
      \/ ROOM_READY(p, m)          \/ ROOM_START(p, m)
      \/ LEAVE_ROOM(p, m)          \/ ROOM_CHATTING(p, m)
      \/ GAME_START(p, m)          \/ GAME_END(p, m)
      \/ Relay(p, m) \/ RelayUnguarded(p, m) \/ RelayToHost(p, m) \/ RelayFromHost(p, m)
  BY DEF Handle, GAME_PLAYER_MOVE, GAME_PLAYER_ATTACK, GAME_PLAYER_DAMAGED, GAME_PLAYER_DIE,
         ENEMY_SPAWN, ENEMY_MOVE, ENEMY_DAMAGED, ENEMY_ATTACK, ENEMY_DIE, POTION_SPAWN,
         POTION_PICKUP
<1> HIDE DEF p, m
<1>3. p \in Players /\ Effect(p)
  BY <1>1, <1>2, CreateRoomEffect, JoinRoomEffect, RoomReadyEffect, RoomStartEffect,
     LeaveRoomEffect, RoomChattingEffect, GameStartEffect, GameEndEffect, RelayEffect
     DEF Serving, Served
<1> QED BY <1>1, <1>3 DEF p

\* Steps outside the handlers leave rooms and games alone.
LEMMA OutsideStep ==
  ASSUME IInv, UNCHANGED <<roomVars, gameVars, mapVars, clientVars, crashed>>,
         MapsTyped', ClientsTyped', NewsTyped', ClientsInStep', Located',
         \A q \in Players : lobby'[q] \in {0, lobby[q]}
  PROVE  IInv'
<1>1. \A s \in RoomIds : Members(s)' = Members(s)
  BY DEF Members, roomVars
<1>2. RoomsTyped' /\ GamesTyped'
  BY DEF IInv, TypeOK, RoomsTyped, GamesTyped, roomVars, gameVars
<1>3. OneSeat'
  <2>1. \A s \in RoomIds : IsInjective(joinedPlayer'[s])
    BY DEF IInv, OneSeat, roomVars
  <2>2. \A q \in Players : lobby'[q] <= 1
    BY DEF IInv, OneSeat
  <2>3. \A q \in Players : lobby'[q] = 1 => \A s \in RoomIds : q \notin Members(s)'
    BY <1>1 DEF IInv, OneSeat
  <2> QED BY <2>1, <2>2, <2>3, <1>1 DEF IInv, OneSeat
<1>4. RoomsWellFormed' /\ LeaderIsFront' /\ UniqueNames'
  BY DEF IInv, RoomsWellFormed, LeaderIsFront, UniqueNames, roomVars
<1>5. RegistryAgrees'
  BY <1>1 DEF IInv, RegistryAgrees, mapVars, clientVars
<1>6. GamesWellFormed' /\ GameRegistryAgrees'
  BY DEF IInv, GamesWellFormed, GameRegistryAgrees, Members, roomVars, gameVars, mapVars,
         clientVars
<1> QED BY <1>2, <1>3, <1>4, <1>5, <1>6 DEF IInv, TypeOK

\* What a client shows is something it was told.
LEMMA ViewTyped ==
  ASSUME IInv, NEW p \in Players
  PROVE  View(p) \in Views
<1>1. outdated[p] \in Seq(Views)
  BY DEF IInv, TypeOK, NewsTyped
<1>2. outdated[p] # <<>> => Head(outdated[p]) \in Views
  BY <1>1, HeadTailProperties
<1> QED BY <1>2, ToldView DEF View

\* A client sends what its screen allows and waits for the reply that lets it into a
\* room or out of it: the request fits where the player sits.
LEMMA SendStep ==
  ASSUME IInv, NEW p \in Players, Send(p)
  PROVE  IInv'
<1>1. PICK m \in Requests(View(p)) : request' = [request EXCEPT ![p] = m]
  BY DEF Send
<1>2. m \in Request /\ (m.kind \in LobbyKinds <=> screen[p] = "LOBBY")
  <2> DEFINE v == View(p)
  <2>1. rooms \subseteq RoomIds /\ v \in Views
    BY ViewTyped DEF IInv, TypeOK, RoomsTyped
  <2>2. v.screen = "LOBBY" <=> screen[p] = "LOBBY"
    BY DEF Send, AwaitsReply
  <2> HIDE DEF v
  <2>3. m \in Requests(v)
    BY DEF v
  <2>4. CASE v.screen = "LOBBY"
    BY <2>1, <2>2, <2>3, <2>4 DEF Requests, Request, LobbyKinds
  <2>5. CASE v.screen = "ROOM"
    BY <2>1, <2>2, <2>3, <2>5 DEF Requests, Request, LobbyKinds, RoomKinds
  <2>6. CASE v.screen = "GAME"
    <3>1. v.gameKey \in GameKeys
      BY <2>1, <2>6 DEF Views
    <3>2. m \in [kind : GameKinds, gameKey : {v.gameKey}]
                  \cup [kind : HostKinds, gameKey : {v.gameKey}, target : Players]
      BY <2>3, <2>6 DEF Requests
    <3>3. m.kind \notin LobbyKinds
      BY <3>2 DEF GameKinds, RelayKinds, HostKinds, LobbyKinds
    <3>4. m \in Request
      BY <3>1, <3>2 DEF Request
    <3> QED BY <2>2, <2>6, <3>3, <3>4
  <2> QED BY <2>1, <2>4, <2>5, <2>6 DEF Views
<1>3. UNCHANGED <<players, leaving, roomVars, gameVars, mapVars, clientVars, outdated, lobby,
                  current, crashed>>
  BY DEF Send
<1>4. MapsTyped' /\ ClientsTyped' /\ NewsTyped'
  BY <1>1, <1>2, <1>3 DEF IInv, TypeOK, MapsTyped, ClientsTyped, NewsTyped, mapVars, clientVars
<1>5. ClientsInStep'
  <2>1. \A s \in RoomIds : Members(s)' = Members(s)
    BY <1>3 DEF Members, roomVars
  <2>2. current # Null => current.player # p
    BY DEF Send
  <2> QED BY <2>1, <2>2, <1>1, <1>2, <1>3 DEF IInv, TypeOK, ClientsTyped, ClientsInStep, clientVars
<1>6. Located'
  BY <1>3 DEF IInv, Located, Members, roomVars
<1> QED BY <1>3, <1>4, <1>5, <1>6, OutsideStep

\* Finding the player changes nothing but whose request is due.
LEMMA DispatchStep ==
  ASSUME IInv, NEW p \in Players, Dispatch(p)
  PROVE  IInv'
<1>1. /\ request[p] # Null /\ request' = [request EXCEPT ![p] = Null]
      /\ current' \in {Null, [player |-> p, request |-> request[p]]}
      /\ UNCHANGED <<players, leaving, roomVars, gameVars, mapVars, clientVars, outdated, lobby,
                     crashed>>
  BY DEF Dispatch
<1>2. request[p] \in Request
  BY <1>1 DEF IInv, TypeOK, ClientsTyped
<1>3. MapsTyped' /\ ClientsTyped' /\ NewsTyped'
  BY <1>1, <1>2 DEF IInv, TypeOK, MapsTyped, ClientsTyped, NewsTyped, mapVars, clientVars
<1>4. ClientsInStep'
  <2>1. \A s \in RoomIds : Members(s)' = Members(s)
    BY <1>1 DEF Members, roomVars
  <2> QED BY <2>1, <1>1 DEF IInv, TypeOK, ClientsTyped, ClientsInStep, clientVars
<1>5. Located'
  BY <1>1 DEF IInv, Located, Members, roomVars
<1> QED BY <1>1, <1>3, <1>4, <1>5, OutsideStep

\* Reading the news changes nothing but the view.
LEMMA DeliverStep ==
  ASSUME IInv, NEW p \in Players, Deliver(p)
  PROVE  IInv'
<1>1. /\ outdated[p] # <<>> /\ outdated' = [outdated EXCEPT ![p] = Tail(@)]
      /\ UNCHANGED <<connVars, roomVars, gameVars, mapVars, clientVars, lobby, current, crashed>>
  BY DEF Deliver
<1>2. MapsTyped' /\ ClientsTyped'
  BY <1>1 DEF IInv, TypeOK, MapsTyped, ClientsTyped, connVars, mapVars, clientVars
<1>3. NewsTyped'
  <2>1. outdated \in [Players -> Seq(Views)]
    BY DEF IInv, TypeOK, NewsTyped
  <2>2. Tail(outdated[p]) \in Seq(Views)
    BY <2>1, <1>1, HeadTailProperties
  <2> QED BY <2>1, <2>2, <1>1 DEF NewsTyped
<1>4. ClientsInStep' /\ Located'
  BY <1>1 DEF IInv, ClientsInStep, Located, Members, connVars, roomVars, clientVars
<1> QED BY <1>1, <1>2, <1>3, <1>4, OutsideStep

\* PlayerManager::RemovePlayer by an IOCP worker, between any two steps.
LEMMA RemovePlayerStep ==
  ASSUME IInv, NEW p \in Players, RemovePlayer(p)
  PROVE  IInv'
<1>1. /\ players' = players \ {p} /\ leaving' = leaving \cup {p}
      /\ outdated' = [outdated EXCEPT ![p] = <<>>]
      /\ UNCHANGED <<request, roomVars, gameVars, mapVars, clientVars, lobby, current, crashed>>
  BY DEF RemovePlayer
<1>2. MapsTyped' /\ ClientsTyped' /\ NewsTyped'
  BY <1>1 DEF IInv, TypeOK, MapsTyped, ClientsTyped, NewsTyped, mapVars, clientVars
<1>3. ClientsInStep'
  BY <1>1 DEF IInv, ClientsInStep, clientVars, Members, roomVars
<1>4. Located'
  BY <1>1 DEF IInv, Located, Members, roomVars
<1> QED BY <1>1, <1>2, <1>3, <1>4, OutsideStep

\* Lobby::RemovePlayer by an IOCP worker: the player is found no more, so that
\* nobody who can be found is lost.
LEMMA RemoveFromLobbyStep ==
  ASSUME IInv, NEW p \in Players, RemoveFromLobby(p)
  PROVE  IInv'
<1>1. /\ p \in leaving /\ leaving' = leaving \ {p} /\ lobby' \in LobbyRemovals(p)
      /\ UNCHANGED <<players, request, roomVars, gameVars, mapVars, clientVars, outdated,
                     current, crashed>>
  BY DEF RemoveFromLobby
<1>2. lobby' = [lobby EXCEPT ![p] = 0]
  BY <1>1, RemovedFromLobby DEF IInv
<1>3. MapsTyped' /\ ClientsTyped' /\ NewsTyped'
  BY <1>1, <1>2 DEF IInv, TypeOK, MapsTyped, ClientsTyped, NewsTyped, mapVars, clientVars
<1>4. ClientsInStep'
  BY <1>1 DEF IInv, ClientsInStep, clientVars, Members, roomVars
<1>5. p \notin players
  BY <1>1 DEF IInv, TypeOK, ClientsTyped
<1>6. Located'
  BY <1>1, <1>2, <1>5 DEF IInv, TypeOK, MapsTyped, Located, Members, roomVars
<1>7. \A q \in Players : lobby'[q] \in {0, lobby[q]}
  BY <1>2 DEF IInv, TypeOK, MapsTyped
<1> QED BY <1>1, <1>3, <1>4, <1>6, <1>7, OutsideStep

\* At the start everybody stands in the lobby.
LEMMA InitHolds == Init => IInv
<1> SUFFICES ASSUME Init PROVE IInv
  OBVIOUS
<1> DEFINE none == <<>>
<1>1. none \in Seq(Players) /\ Len(none) = 0 /\ ToSet(none) = {} /\ IsInjective(none)
  <2>1. none \in Seq(Players) /\ Len(none) = 0
    BY EmptySeq
  <2> QED BY <2>1, Listed
<1>2. joinedPlayer = [r \in RoomIds |-> none]
  BY DEF Init
<1> HIDE DEF none
<1>3. \A r \in RoomIds : joinedPlayer[r] = none /\ Members(r) = {}
  BY <1>1, <1>2 DEF Members
<1>4. RoomsTyped
  BY <1>1, <1>2 DEF Init, RoomsTyped
<1>5. GamesTyped /\ MapsTyped /\ ClientsTyped
  BY DEF Init, GamesTyped, MapsTyped, ClientsTyped
<1>12. NewsTyped
  BY EmptySeq DEF Init, NewsTyped
<1>6. OneSeat
  BY <1>1, <1>3 DEF Init, OneSeat
<1>7. RoomsWellFormed
  BY <1>1, <1>3, ConstantsAssumption DEF Init, RoomsWellFormed, none
<1>8. LeaderIsFront /\ UniqueNames /\ Located
  BY DEF Init, LeaderIsFront, UniqueNames, Located
<1>9. RegistryAgrees
  BY <1>3, ConstantsAssumption DEF Init, RegistryAgrees
<1>10. GamesWellFormed /\ GameRegistryAgrees
  BY ConstantsAssumption DEF Init, GamesWellFormed, GameRegistryAgrees
<1>11. ClientsInStep
  BY <1>3 DEF Init, ClientsInStep
<1> QED BY <1>4, <1>5, <1>6, <1>7, <1>8, <1>9, <1>10, <1>11, <1>12 DEF IInv, TypeOK

\* Every step keeps the invariant.
LEMMA NextKeeps == IInv /\ [Next]_vars => IInv'
<1> SUFFICES ASSUME IInv, [Next]_vars PROVE IInv'
  OBVIOUS
<1>1. ASSUME NEW p \in Players, Send(p) PROVE IInv'
  BY <1>1, SendStep
<1>2. ASSUME NEW p \in Players, Dispatch(p) PROVE IInv'
  BY <1>2, DispatchStep
<1>3. ASSUME NEW p \in Players, RemovePlayer(p) PROVE IInv'
  BY <1>3, RemovePlayerStep
<1>4. ASSUME NEW p \in Players, RemoveFromLobby(p) PROVE IInv'
  BY <1>4, RemoveFromLobbyStep
<1>7. ASSUME NEW p \in Players, Deliver(p) PROVE IInv'
  BY <1>7, DeliverStep
<1>5. ASSUME Handle PROVE IInv'
  BY <1>5, HandleEffect, EffectStep
<1>6. ASSUME UNCHANGED vars PROVE IInv'
  <2>1. /\ UNCHANGED <<roomVars, gameVars, mapVars, clientVars, crashed>>
        /\ UNCHANGED <<players, request, leaving, lobby, current, outdated>>
    BY <1>6 DEF vars, connVars
  <2>2. MapsTyped' /\ ClientsTyped' /\ NewsTyped'
    BY <2>1 DEF IInv, TypeOK, MapsTyped, ClientsTyped, NewsTyped, mapVars, clientVars
  <2>3. ClientsInStep' /\ Located'
    BY <2>1 DEF IInv, ClientsInStep, Located, Members, roomVars, clientVars
  <2> QED BY <2>1, <2>2, <2>3, OutsideStep
<1> QED BY <1>1, <1>2, <1>3, <1>4, <1>5, <1>6, <1>7 DEF Next

\* The invariant holds in every reachable state, for any number of players, rooms
\* and requests in flight.
THEOREM Invariance == Spec => []IInv
<1> QED BY InitHolds, NextKeeps, PTL DEF Spec

\* Lists, maps and flags of the handlers always hold what their types allow: no
\* handler erases from a list a player who is not in it, and no client sends a game
\* key it was not given.
THEOREM TypeCorrect == Spec => []TypeOK
<1>1. IInv => TypeOK
  BY DEF IInv
<1> QED BY <1>1, Invariance, PTL

\* No order of requests and lost connections seats a player twice, lists one twice in
\* the lobby, or lists in the lobby one who sits in a room.
THEOREM OneSeatAlways == Spec => []OneSeat
<1>1. IInv => OneSeat
  BY DEF IInv
<1> QED BY <1>1, Invariance, PTL

\* No player who can be found is ever lost between the lobby and the rooms.
THEOREM LocatedAlways == Spec => []Located
<1>1. IInv => Located
  BY DEF IInv
<1> QED BY <1>1, Invariance, PTL

\* The counter Room keeps agrees with its list, a listed room has between one and
\* MAX_ROOM_USER members, and one that was removed has none.
THEOREM RoomsAlways == Spec => []RoomsWellFormed
<1>1. IInv => RoomsWellFormed
  BY DEF IInv
<1> QED BY <1>1, Invariance, PTL

\* roomLeader, the front of joinedPlayer and the isLeader flags name the same leader.
THEOREM LeaderAlways == Spec => []LeaderIsFront
<1>1. IInv => LeaderIsFront
  BY DEF IInv
<1> QED BY <1>1, Invariance, PTL

\* joinRoomMap and roomPlayerMap never contradict the lists of the rooms.
THEOREM RegistryAlways == Spec => []RegistryAgrees
<1>1. IInv => RegistryAgrees
  BY DEF IInv
<1> QED BY <1>1, Invariance, PTL

\* Listed games and rooms marked as started correspond one to one, and the room of a
\* game stays, with all players of the game and the leader it began with.
THEOREM GamesAlways == Spec => []GamesWellFormed
<1>1. IInv => GamesWellFormed
  BY DEF IInv
<1> QED BY <1>1, Invariance, PTL

\* gamePlayerMap leads to listed games that count the player, and the clients that
\* are told of a game are those the game counts.
THEOREM GameRegistryAlways == Spec => []GameRegistryAgrees
<1>1. IInv => GameRegistryAgrees
  BY DEF IInv
<1> QED BY <1>1, Invariance, PTL

\* A client believes to stand in the lobby exactly when no room seats it, and what
\* it has asked for fits where it sits when it is served.
THEOREM ClientsAlways == Spec => []ClientsInStep
<1>1. IInv => ClientsInStep
  BY DEF IInv
<1> QED BY <1>1, Invariance, PTL

\* No two listed rooms have the same name.
THEOREM NamesAlways == Spec => []UniqueNames
<1>1. IInv => UniqueNames
  BY DEF IInv
<1> QED BY <1>1, Invariance, PTL

-----------------------------------------------------------------------------
(* Seating, and the hand-over of the lead.                                 *)

\* Seating's sequence operators are those of RoomProtocol.
LEMMA SameOperators ==
  /\ \A s : Seats!ToSet(s) = ToSet(s)
  /\ \A s, i : Seats!RemoveAt(s, i) = RemoveAt(s, i)
BY DEF ToSet, Seats!ToSet, RemoveAt, Seats!RemoveAt

\* Steps that leave the lines and the games as they are.
LEMMA SeatingStutters ==
  ASSUME UNCHANGED <<joinedPlayer, games, gamePlayers, crashed>>
  PROVE  UNCHANGED Seats!seatVars
BY DEF InGame, Seats!seatVars

\* A handler that goes through a NULL pointer is Stop.
LEMMA CrashSeating ==
  ASSUME ~crashed, crashed' = TRUE, UNCHANGED <<games, gamePlayers>>,
         \A r \in RoomIds : Members(r)' = Members(r)
  PROVE  Seats!Next
<1>1. Seats!Stop
  BY SameOperators DEF Seats!Stop, InGame, Members
<1> QED BY <1>1 DEF Seats!Next

\* CREATE_ROOM and JOIN_ROOM are Sit.
LEMMA SitsDownSeating ==
  ASSUME IInv, NEW p \in Players, NEW r \in RoomIds, SitsDown(p, r), Served(p)
  PROVE  Seats!Next
<1>1. \A s \in RoomIds : p \notin Members(s)
  BY SitDownSeats DEF SitsDown
<1>2. Len(joinedPlayer[r]) < MaxRoomUser
  BY DEF SitsDown, IInv, RoomsWellFormed
<1>3. joinedPlayer' = [joinedPlayer EXCEPT ![r] = Append(@, p)]
  BY DEF SitsDown, SitDown
<1>4. UNCHANGED InGame
  BY DEF SitsDown, SitDown, gameVars, InGame
<1>5. Seats!Sit(p, r)
  BY <1>1, <1>2, <1>3, <1>4, SameOperators DEF Seats!Sit, Seats!Standing, Members
<1>6. ~crashed /\ UNCHANGED crashed
  BY DEF Served, SitsDown, SitDown
<1> QED BY <1>5, <1>6 DEF Seats!Next

\* LEAVE_ROOM is Leave: nobody who plays can leave.
LEMMA DepartsSeating ==
  ASSUME IInv, NEW p \in Players, NEW r \in rooms, NEW line, Departs(p, r, line),
         Served(p)
  PROVE  Seats!Next
<1>1. r \in RoomIds /\ p \notin InGame
  BY InRoom DEF Departs, InGame
<1>2. PICK i \in DOMAIN joinedPlayer[r] : joinedPlayer[r][i] = p /\ line = RemoveAt(joinedPlayer[r], i)
  BY DEF Departs
<1>3. joinedPlayer' = [joinedPlayer EXCEPT ![r] = RemoveAt(@, i)]
  BY <1>2 DEF Departs, Depart
<1>4. UNCHANGED InGame
  BY DEF Departs, Depart, gameVars, InGame
<1>5. Seats!Leave(p, r)
  BY <1>1, <1>2, <1>3, <1>4, SameOperators DEF Seats!Leave
<1>6. ~crashed /\ UNCHANGED crashed
  BY DEF Served, Departs, Depart
<1> QED BY <1>1, <1>5, <1>6 DEF Seats!Next

\* ROOM_START is Begin: nobody of the line plays already.
LEMMA StartsGameSeating ==
  ASSUME IInv, NEW p \in Players, NEW r \in rooms, NEW g \in GameKeys, StartsGame(p, r, g),
         Served(p)
  PROVE  Seats!Next
<1>1. /\ r \in RoomIds /\ roomLeader[r] = p /\ g \notin games
      /\ \A h \in games : p \notin gamePlayers[h]
  BY InRoom DEF StartsGame, MayStart, FreshGameKeys
<1>2. \A h \in games : returnRoom[h] # r
  BY <1>1, Playing
<1>3. \A s, t \in RoomIds : s # t => Members(s) \cap Members(t) = {}
  BY DEF IInv, OneSeat
<1>4. Members(r) \cap InGame = {}
  BY <1>1, <1>2, <1>3, Playing DEF InGame
<1>5. InGame' = InGame \cup Members(r)
  <2>1. games' = games \cup {g} /\ gamePlayers' = [gamePlayers EXCEPT ![g] = Members(r)]
    BY DEF StartsGame, BeginGame
  <2>2. gamePlayers'[g] = Members(r) /\ \A h \in games : gamePlayers'[h] = gamePlayers[h]
    BY <2>1, <1>1 DEF IInv, TypeOK, GamesTyped
  <2> QED BY <2>1, <2>2 DEF InGame
<1>6. joinedPlayer[r] # <<>>
  BY <1>1 DEF IInv, RoomsWellFormed
<1>7. Seats!Begin(r)
  BY <1>4, <1>5, <1>6, SameOperators DEF Seats!Begin, Members, StartsGame
<1>8. ~crashed /\ UNCHANGED crashed
  BY DEF Served, StartsGame
<1> QED BY <1>1, <1>7, <1>8 DEF Seats!Next

\* GAME_END is Finish: all players of the line stop playing, and nobody else.
LEMMA FinishGameSeating ==
  ASSUME IInv, NEW p \in Players, NEW g \in games, FinishGame(p, g), Served(p)
  PROVE  Seats!Next
<1> DEFINE r == returnRoom[g]
<1>1. /\ r \in RoomIds /\ g \in GameKeys
      /\ gamePlayers[g] \subseteq Members(r)
      /\ roomLeader[r] \in gamePlayers[g]
  BY Playing
<1>2. \A h \in games : returnRoom[h] = r => h = g
  BY DEF IInv, GamesWellFormed
<1>3. \A s, t \in RoomIds : s # t => Members(s) \cap Members(t) = {}
  BY DEF IInv, OneSeat
<1> HIDE DEF r
<1>4. Members(r) \cap InGame = gamePlayers[g]
  <2>1. ASSUME NEW h \in games, h # g PROVE Members(r) \cap gamePlayers[h] = {}
    BY <2>1, <1>1, <1>2, <1>3, Playing
  <2> QED BY <2>1, <1>1 DEF InGame
<1>5. Members(r) \cap InGame # {}
  BY <1>1, <1>4
<1>6. InGame' = InGame \ Members(r)
  <2>1. games' = games \ {g} /\ gamePlayers' = [gamePlayers EXCEPT ![g] = {}]
    BY DEF FinishGame, RemoveGame
  <2>2. \A h \in games' : h \in games /\ gamePlayers'[h] = gamePlayers[h]
    BY <2>1 DEF IInv, TypeOK, GamesTyped
  <2>3. \A h \in games' : Members(r) \cap gamePlayers[h] = {}
    BY <2>1, <1>1, <1>2, <1>3, Playing
  <2>4. InGame' = UNION {gamePlayers[h] : h \in games'}
    BY <2>2 DEF InGame
  <2>5. ASSUME NEW q \in InGame, q \notin Members(r) PROVE q \in InGame'
    <3>1. PICK h \in games : q \in gamePlayers[h]
      BY DEF InGame
    <3>2. h # g
      BY <3>1, <2>5, <1>1
    <3> QED BY <3>1, <3>2, <2>1, <2>4
  <2>6. InGame' \subseteq InGame \ Members(r)
    BY <2>1, <2>3, <2>4 DEF InGame
  <2> QED BY <2>5, <2>6
<1>7. Seats!Finish(r)
  BY <1>5, <1>6, SameOperators DEF Seats!Finish, Members, FinishGame
<1>8. ~crashed /\ UNCHANGED crashed
  BY DEF Served, FinishGame
<1> QED BY <1>1, <1>7, <1>8 DEF Seats!Next

\* Every step is a step of Seating, or a stutter.
LEMMA NextSeating == IInv /\ [Next]_vars => [Seats!Next]_(Seats!seatVars)
<1> SUFFICES ASSUME IInv, [Next]_vars PROVE [Seats!Next]_(Seats!seatVars)
  OBVIOUS
<1>1. ASSUME NEW p \in Players, \/ Send(p) \/ Dispatch(p) \/ Deliver(p)
                                \/ RemovePlayer(p) \/ RemoveFromLobby(p)
      PROVE  UNCHANGED Seats!seatVars
  <2>1. UNCHANGED <<roomVars, gameVars, crashed>>
    BY <1>1 DEF Send, Dispatch, Deliver, RemovePlayer, RemoveFromLobby
  <2> QED BY <2>1, SeatingStutters DEF roomVars, gameVars
<1>2. ASSUME UNCHANGED vars PROVE UNCHANGED Seats!seatVars
  BY <1>2, SeatingStutters DEF vars, roomVars, gameVars
<1>3. ASSUME Handle PROVE [Seats!Next]_(Seats!seatVars)
  <2>1. PICK p \in Players : Effect(p) /\ Served(p)
    BY <1>3, HandleEffect
  <2>2. ASSUME Quiet(p) PROVE [Seats!Next]_(Seats!seatVars)
    <3>1. UNCHANGED <<joinedPlayer, games, gamePlayers>> /\ crashed' \in BOOLEAN /\ crashed = FALSE
      BY <2>1, <2>2 DEF Quiet, Served, IInv, TypeOK, ClientsTyped
    <3>2. \A r \in RoomIds : Members(r)' = Members(r)
      BY <3>1 DEF Members
    <3>3. CASE crashed' = TRUE
      BY <2>1, <3>1, <3>2, <3>3, CrashSeating DEF Served
    <3>4. CASE crashed' = crashed
      BY <3>1, <3>4, SeatingStutters
    <3> QED BY <3>1, <3>3, <3>4
  <2>3. ASSUME NEW r \in rooms, Topples(p, r) PROVE Seats!Next
    <3>1. crashed' = TRUE /\ UNCHANGED <<games, gamePlayers>>
      BY <2>3 DEF Topples, DieInHandover, gameVars
    <3>2. \A s \in RoomIds : Members(s)' = Members(s)
      BY <2>3, ToppledLine
    <3> QED BY <2>1, <3>1, <3>2, CrashSeating DEF Served
  <2> QED BY <2>1, <2>2, <2>3, SitsDownSeating, DepartsSeating, StartsGameSeating,
             FinishGameSeating DEF Effect
<1> QED BY <1>1, <1>2, <1>3 DEF Next

\* The initial state maps to the initial state.
LEMMA InitSeating == Init => Seats!Init
<1> SUFFICES ASSUME Init PROVE Seats!Init
  OBVIOUS
<1>1. joinedPlayer = [r \in RoomIds |-> <<>>]
  BY DEF Init
<1>2. InGame = {}
  BY DEF Init, InGame
<1>3. ~crashed
  BY DEF Init
<1> QED BY <1>1, <1>2, <1>3 DEF Seats!Init

\* The handlers implement Seating: whatever the maps, counters and flags go through,
\* players sit in lines whose head leads, in one line each; nobody leaves while
\* playing; a game begins and ends for all its players at once.
THEOREM Implementation == Spec => ImplementsSeating
<1> QED BY InitSeating, NextSeating, Invariance, PTL DEF Spec, ImplementsSeating, Seats!Spec

\* LeaderHandover, as an action
Handover ==
  \A r \in rooms \cap rooms' : roomLeader'[r] # roomLeader[r] /\ ~crashed' =>
    /\ roomLeader[r] \notin Members(r)'
    /\ roomLeader'[r] = joinedPlayer[r][2]

\* A step changes the leader of a room only as LEAVE_ROOM does.
LEMMA NextHandover == IInv /\ [Next]_vars => Handover
<1> SUFFICES ASSUME IInv, [Next]_vars PROVE Handover
  OBVIOUS
<1>1. ASSUME UNCHANGED roomLeader PROVE Handover
  BY <1>1 DEF Handover
<1>2. ASSUME NEW p \in Players, NEW r \in RoomIds, SitsDown(p, r) PROVE Handover
  <2>1. \A s \in rooms : roomLeader'[s] = roomLeader[s]
    BY <1>2 DEF SitsDown, IInv, TypeOK, RoomsTyped
  <2> QED BY <2>1 DEF Handover
<1>3. ASSUME NEW p \in Players, NEW r \in rooms, NEW line \in Seq(Players), Departs(p, r, line)
      PROVE  Handover
  <2>1. ASSUME NEW s \in rooms \cap rooms', roomLeader'[s] # roomLeader[s]
        PROVE  roomLeader[s] \notin Members(s)' /\ roomLeader'[s] = joinedPlayer[s][2]
    <3>1. rooms \subseteq RoomIds /\ joinedPlayer \in [RoomIds -> Seq(Players)]
      BY DEF IInv, TypeOK, RoomsTyped
    <3>2. s = r /\ line # <<>> /\ roomLeader[r] = p
      BY <2>1, <3>1, <1>3 DEF Departs, Depart
    <3>3. joinedPlayer'[r] = line /\ p \notin ToSet(line)
      BY <3>1, <1>3 DEF Departs, Depart
    <3>4. roomLeader'[r] = line[1] /\ line[1] = joinedPlayer[r][2]
      BY <3>2, <1>3 DEF Departs, Depart
    <3> QED BY <3>2, <3>3, <3>4 DEF Members
  <2> QED BY <2>1 DEF Handover
<1>4. ASSUME Handle PROVE Handover
  <2>1. PICK p \in Players : Effect(p) /\ Served(p)
    BY <1>4, HandleEffect
  <2>2. Quiet(p) => UNCHANGED roomLeader
    BY DEF Quiet
  <2>3. \A r, g : StartsGame(p, r, g) => UNCHANGED roomLeader
    BY DEF StartsGame
  <2>4. \A g : FinishGame(p, g) => UNCHANGED roomLeader
    BY DEF FinishGame
  <2>5. ASSUME NEW r, Topples(p, r) PROVE Handover
    BY <2>5 DEF Topples, DieInHandover, Handover
  <2> QED BY <2>1, <2>2, <2>3, <2>4, <2>5, <1>1, <1>2, <1>3 DEF Effect
<1>5. ASSUME NEW p \in Players, \/ Send(p) \/ Dispatch(p) \/ Deliver(p)
                                \/ RemovePlayer(p) \/ RemoveFromLobby(p)
      PROVE  Handover
  BY <1>1, <1>5 DEF Send, Dispatch, Deliver, RemovePlayer, RemoveFromLobby, roomVars
<1>6. ASSUME UNCHANGED vars PROVE Handover
  BY <1>1, <1>6 DEF vars, roomVars
<1> QED BY <1>4, <1>5, <1>6 DEF Next

\* A room that stays open changes its leader only when the leader leaves it, and then
\* to the second in line (LEAVE_ROOM with Room::ChangeLeader).
THEOREM HandoverAlways == Spec => LeaderHandover
<1>1. [Next]_vars /\ IInv => [Handover]_vars
  BY NextHandover
<1> QED BY <1>1, Invariance, PTL DEF Spec, LeaderHandover, Handover

-----------------------------------------------------------------------------
(* The requests that came late, and what the maps hold for all others.     *)

\* The maps hold what the clients are told, for every player of whom no request came
\* late, and every client is told of the game it plays in.
Registered ==
  /\ \A p \in Players \ late :
       /\ screen[p] = "ROOM" => roomPlayerMap[p] \in RoomIds
       /\ screen[p] = "GAME" => roomPlayerMap[p] = Absent /\ gamePlayerMap[p] = gameKey[p]
       /\ screen[p] # "GAME" => gamePlayerMap[p] = Absent
  /\ \A g \in games : \A p \in gamePlayers[g] : gameKey[p] = g

\* How late grows: with the player a handler served, when its request fits no more.
LEMMA LateGrows ==
  ASSUME IInv, HistoryNext
  PROVE  /\ late \subseteq late'
         /\ Handle => \/ current.player \in late'
                      \/ Fits(current.player, current.request)
<1>1. late \subseteq late'
  BY DEF HistoryNext
<1>2. ASSUME Handle, ~Fits(current.player, current.request) PROVE current.player \in late'
  BY <1>2 DEF HistoryNext, Handle
<1> QED BY <1>1, <1>2

\* Who is registered as a RoomPlayer is not told of a game.
LEMMA NotPlaying ==
  ASSUME IInv, NEW p \in Players, roomPlayerMap[p] \in RoomIds
  PROVE  screen[p] # "GAME"
<1> SUFFICES ASSUME screen[p] = "GAME" PROVE FALSE
  OBVIOUS
<1>1. PICK g \in games : p \in gamePlayers[g]
  BY DEF IInv, GameRegistryAgrees
<1> QED BY <1>1, Playing

-----------------------------------------------------------------------------
\* The bodies by the kinds of request they serve
Lobbying(p, m) == m.kind \in LobbyKinds /\ (CREATE_ROOM(p, m) \/ JOIN_ROOM(p, m))

InTheRoom(p, m) ==
  /\ m.kind \in RoomKinds
  /\ ROOM_READY(p, m) \/ ROOM_START(p, m) \/ LEAVE_ROOM(p, m) \/ ROOM_CHATTING(p, m)

InTheGame(p, m) ==
  /\ m.kind \in GameKinds \cup HostKinds
  /\ \/ GAME_START(p, m) \/ GAME_END(p, m) \/ Relay(p, m) \/ RelayUnguarded(p, m)
     \/ m.kind \notin HostKinds /\ RelayToHost(p, m)
     \/ m.kind \in HostKinds /\ RelayFromHost(p, m)

LEMMA HandleByKind ==
  ASSUME Handle, NEW p, p = current.player, NEW m, m = current.request
  PROVE  Lobbying(p, m) \/ InTheRoom(p, m) \/ InTheGame(p, m)
<1>1. ASSUME CREATE_ROOM(p, m) \/ JOIN_ROOM(p, m) PROVE Lobbying(p, m)
  BY <1>1 DEF Lobbying, LobbyKinds, CREATE_ROOM, JOIN_ROOM
<1>2. ASSUME ROOM_READY(p, m) \/ ROOM_START(p, m) \/ LEAVE_ROOM(p, m) \/ ROOM_CHATTING(p, m)
      PROVE  InTheRoom(p, m)
  BY <1>2 DEF InTheRoom, RoomKinds, ROOM_READY, ROOM_START, LEAVE_ROOM, ROOM_CHATTING
<1>3. ASSUME GAME_START(p, m) \/ GAME_END(p, m) PROVE InTheGame(p, m)
  BY <1>3 DEF InTheGame, GameKinds, GAME_START, GAME_END
<1>4. ASSUME GAME_PLAYER_MOVE(p, m) \/ GAME_PLAYER_ATTACK(p, m) PROVE InTheGame(p, m)
  BY <1>4 DEF InTheGame, GameKinds, HostKinds, GAME_PLAYER_MOVE, GAME_PLAYER_ATTACK
<1>5. ASSUME \/ GAME_PLAYER_DAMAGED(p, m) \/ GAME_PLAYER_DIE(p, m) \/ ENEMY_SPAWN(p, m)
             \/ ENEMY_ATTACK(p, m) \/ ENEMY_DIE(p, m) \/ POTION_SPAWN(p, m)
             \/ POTION_PICKUP(p, m) \/ ENEMY_MOVE(p, m) \/ ENEMY_DAMAGED(p, m)
      PROVE  InTheGame(p, m)
  BY <1>5 DEF InTheGame, GameKinds, RelayKinds, GAME_PLAYER_DAMAGED, GAME_PLAYER_DIE,
              ENEMY_SPAWN, ENEMY_ATTACK, ENEMY_DIE, POTION_SPAWN, POTION_PICKUP, ENEMY_MOVE,
              ENEMY_DAMAGED
<1> QED BY <1>1, <1>2, <1>3, <1>4, <1>5 DEF Handle

\* A handler that seats nobody finds its player in the maps, where it looks, if the
\* request fits.
LEMMA NothingTouched ==
  ASSUME IInv, Registered, Handle, Quiet(current.player), current.player \notin late,
         Fits(current.player, current.request)
  PROVE  UNCHANGED <<roomPlayerMap, gamePlayerMap>>
<1>1. PICK p \in Players, m \in Request : p = current.player /\ m = current.request
  BY DEF Handle, IInv, TypeOK, ClientsTyped
<1>2. Fits(p, m) /\ p \notin late
  BY <1>1
<1>3. roomPlayerMap \in [Players -> RoomIds \cup {Null, Absent}]
  BY DEF IInv, TypeOK, MapsTyped
<1>4. gamePlayerMap \in [Players -> GameKeys \cup {Null, Absent}]
  BY DEF IInv, TypeOK, MapsTyped
<1>5. Quiet(p) /\ UNCHANGED games
  BY <1>1 DEF Quiet
<1>6. CASE Lobbying(p, m)
  <2>1. screen[p] = "LOBBY"
    BY <1>2, <1>6 DEF Fits, Lobbying
  <2>2. UNCHANGED roomPlayerMap
    BY <1>5, <2>1 DEF Quiet
  <2>3. UNCHANGED gamePlayerMap
    BY <1>6 DEF Lobbying, CREATE_ROOM, JOIN_ROOM
  <2> QED BY <2>2, <2>3
<1>7. CASE InTheRoom(p, m)
  <2>1. screen[p] = "ROOM"
    BY <1>2, <1>7 DEF Fits, InTheRoom
  <2>2. roomPlayerMap[p] # Absent
    BY <2>1, <1>2, ConstantsAssumption DEF Registered
  <2>3. UNCHANGED roomPlayerMap
    BY <1>3, <1>5, <2>2 DEF Quiet, Touched, Inserted
  <2>4. \A r, g : g \in FreshGameKeys => ~BeginGame(r, g)
    BY <1>5 DEF BeginGame, FreshGameKeys
  <2>5. UNCHANGED gamePlayerMap
    BY <1>7, <2>4 DEF InTheRoom, ROOM_READY, ROOM_START, LEAVE_ROOM, ROOM_CHATTING
  <2> QED BY <2>3, <2>5
<1>8. CASE InTheGame(p, m)
  <2>1. screen[p] = "GAME"
    BY <1>2, <1>8 DEF Fits, InTheGame
  <2>2. gamePlayerMap[p] # Absent
    <3>1. gameKey[p] \in GameKeys
      BY <2>1 DEF IInv, GameRegistryAgrees, TypeOK, GamesTyped
    <3> QED BY <2>1, <3>1, <1>2, ConstantsAssumption DEF Registered
  <2>3. UNCHANGED gamePlayerMap
    BY <1>4, <1>5, <2>2 DEF Quiet, Touched, Inserted
  <2>4. \A g \in games : ~RemoveGame(g)
    BY <1>5 DEF RemoveGame
  <2>5. UNCHANGED roomPlayerMap
    BY <1>8, <2>4 DEF InTheGame, GAME_START, GAME_END, Relay, RelayUnguarded, RelayToHost,
                      RelayFromHost, GameUnchanged
  <2> QED BY <2>3, <2>5
<1> QED BY <1>1, <1>6, <1>7, <1>8, HandleByKind

\* While their leader stands in the room, all members do.
LEMMA NobodyPlays ==
  ASSUME IInv, Registered, NEW r \in rooms, screen[roomLeader[r]] # "GAME",
         NEW q \in Members(r)
  PROVE  screen[q] = "ROOM"
<1>1. r \in RoomIds /\ q \in Players
  BY Seated DEF IInv, TypeOK, RoomsTyped
<1>2. ASSUME NEW g \in games, returnRoom[g] = r PROVE FALSE
  <2>1. roomLeader[r] \in gamePlayers[g] /\ roomLeader[r] \in Players
    BY <1>2, Playing
  <2>2. gameKey[roomLeader[r]] = g
    BY <2>1 DEF Registered
  <2> QED BY <2>1, <2>2 DEF IInv, GameRegistryAgrees
<1>3. screen[q] # "LOBBY"
  BY <1>1 DEF IInv, ClientsInStep
<1>4. screen[q] # "GAME"
  <2>1. ASSUME NEW g \in games, q \in gamePlayers[g] PROVE returnRoom[g] = r
    BY <2>1, <1>1, Playing DEF IInv, OneSeat
  <2> QED BY <2>1, <1>1, <1>2 DEF IInv, GameRegistryAgrees
<1> QED BY <1>1, <1>3, <1>4 DEF IInv, TypeOK, ClientsTyped

\* CREATE_ROOM and JOIN_ROOM register their player.
LEMMA SitsDownRegistered ==
  ASSUME IInv, Registered, NEW p \in Players, NEW r \in RoomIds, SitsDown(p, r), Served(p),
         late \subseteq late'
  PROVE  Registered'
<1>1. roomPlayerMap' = [roomPlayerMap EXCEPT ![p] = r]
  BY SitDownSeats DEF SitsDown
<1>2. /\ screen[p] = "LOBBY" /\ screen' = [screen EXCEPT ![p] = "ROOM"]
      /\ UNCHANGED <<games, gamePlayers, gamePlayerMap, gameKey>>
  BY DEF SitsDown, SitDown, gameVars
<1> QED BY <1>1, <1>2 DEF IInv, TypeOK, MapsTyped, ClientsTyped, Registered

\* LEAVE_ROOM takes the registration back.
LEMMA DepartsRegistered ==
  ASSUME IInv, Registered, NEW p \in Players, NEW r \in rooms, NEW line, Departs(p, r, line),
         late \subseteq late'
  PROVE  Registered'
<1>1. roomPlayerMap[p] \in RoomIds
  BY InRoom DEF Departs
<1>2. screen[p] # "GAME"
  BY <1>1, NotPlaying
<1>3. /\ roomPlayerMap' = [roomPlayerMap EXCEPT ![p] = Absent]
      /\ screen' = [screen EXCEPT ![p] = "LOBBY"]
      /\ UNCHANGED <<games, gamePlayers, gamePlayerMap, gameKey>>
  BY DEF Departs, Depart, Unseat, gameVars
<1> QED BY <1>2, <1>3 DEF IInv, TypeOK, MapsTyped, ClientsTyped, Registered

\* ROOM_START finds all members in the room and leaves none of them there.
LEMMA StartsGameRegistered ==
  ASSUME IInv, Registered, NEW p \in Players, NEW r \in rooms, NEW g \in GameKeys,
         StartsGame(p, r, g), late \subseteq late'
  PROVE  Registered'
<1>1. /\ r \in RoomIds /\ roomLeader[r] = p /\ g \notin games
      /\ roomPlayerMap[p] \in RoomIds
  BY InRoom DEF StartsGame, MayStart, FreshGameKeys
<1>2. screen[p] # "GAME"
  BY <1>1, NotPlaying
<1>3. \A q \in Members(r) : /\ q \in Players /\ screen[q] = "ROOM"
                            /\ q \notin late => gamePlayerMap[q] = Absent
  BY <1>1, <1>2, NobodyPlays, Seated DEF IInv, Registered
<1>4. /\ games' = games \cup {g}
      /\ gamePlayers' = [gamePlayers EXCEPT ![g] = Members(r)]
      /\ screen' = [q \in Players |-> IF q \in Members(r) THEN "GAME" ELSE screen[q]]
      /\ gameKey' = [q \in Players |-> IF q \in Members(r) THEN g ELSE gameKey[q]]
      /\ roomPlayerMap' = [q \in Players |-> IF q \in Members(r) THEN Absent ELSE roomPlayerMap[q]]
  BY DEF StartsGame, BeginGame
<1>5. \A q \in Players \ late : gamePlayerMap'[q] = IF q \in Members(r) THEN g ELSE gamePlayerMap[q]
  <2>1. gamePlayerMap \in [Players -> GameKeys \cup {Null, Absent}]
    BY DEF IInv, TypeOK, MapsTyped
  <2> QED BY <2>1, <1>3 DEF StartsGame, BeginGame, Inserted
<1>6. \A q \in Players \ late : /\ screen'[q] = "ROOM" => roomPlayerMap'[q] \in RoomIds
                                /\ screen'[q] = "GAME" => /\ roomPlayerMap'[q] = Absent
                                                          /\ gamePlayerMap'[q] = gameKey'[q]
                                /\ screen'[q] # "GAME" => gamePlayerMap'[q] = Absent
  BY <1>4, <1>5 DEF Registered
<1>7. ASSUME NEW h \in games', NEW q \in gamePlayers'[h] PROVE gameKey'[q] = h
  <2>1. gamePlayers \in [GameKeys -> SUBSET Players] /\ games \subseteq GameKeys
    BY DEF IInv, TypeOK, GamesTyped
  <2>2. CASE h = g
    BY <2>1, <2>2, <1>3, <1>4
  <2>3. CASE h # g
    <3>1. h \in games /\ q \in gamePlayers[h] /\ q \in Players
      BY <2>1, <2>3, <1>4
    <3>2. gameKey[q] = h /\ screen[q] = "GAME"
      BY <3>1 DEF Registered, IInv, GameRegistryAgrees
    <3> QED BY <3>1, <3>2, <1>3, <1>4
  <2> QED BY <2>2, <2>3
<1> QED BY <1>6, <1>7 DEF Registered

\* GAME_END registers all players of the game again.
LEMMA FinishGameRegistered ==
  ASSUME IInv, Registered, NEW p \in Players, NEW g \in games, FinishGame(p, g),
         late \subseteq late', p \notin late' => screen[p] = "GAME"
  PROVE  Registered'
<1> DEFINE r == returnRoom[g]
           team == gamePlayers[g]
<1>1. /\ r \in RoomIds /\ g \in GameKeys
      /\ team \subseteq Members(r) /\ team \subseteq Players
  BY Playing
<1>2. \A h \in games : returnRoom[h] = r => h = g
  BY DEF IInv, GamesWellFormed
<1>3. gamePlayers \in [GameKeys -> SUBSET Players] /\ games \subseteq GameKeys
  BY DEF IInv, TypeOK, GamesTyped
<1>4. /\ games' = games \ {g} /\ gamePlayers' = [gamePlayers EXCEPT ![g] = {}]
      /\ screen' = [q \in Players |-> IF q \in team THEN "ROOM" ELSE screen[q]]
      /\ gameKey' = [q \in Players |-> IF q \in team THEN Null ELSE gameKey[q]]
  BY DEF FinishGame, RemoveGame
<1>5. ASSUME p \notin late' PROVE gamePlayerMap[p] # Absent
  <2>1. screen[p] = "GAME" /\ p \notin late
    BY <1>5
  <2>2. gameKey[p] \in GameKeys
    BY <2>1, <1>3 DEF IInv, GameRegistryAgrees
  <2> QED BY <2>1, <2>2, ConstantsAssumption DEF Registered
<1>6. \A q \in Players \ late' : gamePlayerMap'[q] = IF q \in team THEN Absent ELSE gamePlayerMap[q]
  BY <1>5 DEF FinishGame, GamePlayersRemoved, Touched, Inserted
<1>7. \A q \in Players : roomPlayerMap'[q] = IF q \in Members(r) /\ roomPlayerMap[q] = Absent
                                             THEN r ELSE roomPlayerMap[q]
  <2>1. roomPlayerMap \in [Players -> RoomIds \cup {Null, Absent}]
    BY DEF IInv, TypeOK, MapsTyped
  <2> QED BY <2>1 DEF FinishGame, EndGame, Inserted
<1>8. ASSUME NEW q \in Players, screen[q] = "GAME"
      PROVE  gameKey[q] \in games /\ q \in gamePlayers[gameKey[q]]
  BY <1>8 DEF IInv, GameRegistryAgrees
<1> HIDE DEF r, team
<1>9. ASSUME NEW q \in Players \ team, screen[q] = "GAME"
      PROVE  q \notin Members(r)
  <2>1. gameKey[q] \in games /\ gameKey[q] # g /\ q \in gamePlayers[gameKey[q]]
    BY <1>8, <1>9 DEF team
  <2>2. /\ returnRoom[gameKey[q]] # r /\ returnRoom[gameKey[q]] \in RoomIds
        /\ q \in Members(returnRoom[gameKey[q]])
    BY <2>1, <1>2, Playing
  <2> QED BY <2>2, <1>1 DEF IInv, OneSeat
<1>10. ASSUME NEW q \in team PROVE screen[q] = "GAME" /\ (q \notin late => roomPlayerMap[q] = Absent)
  <2>1. gameKey[q] = g
    BY DEF Registered, team
  <2>2. screen[q] = "GAME"
    BY <2>1, <1>1 DEF IInv, GameRegistryAgrees, team
  <2> QED BY <2>2, <1>1 DEF Registered
<1>11. ASSUME NEW q \in Players \ late'
       PROVE  /\ screen'[q] = "ROOM" => roomPlayerMap'[q] \in RoomIds
              /\ screen'[q] = "GAME" => /\ roomPlayerMap'[q] = Absent
                                        /\ gamePlayerMap'[q] = gameKey'[q]
              /\ screen'[q] # "GAME" => gamePlayerMap'[q] = Absent
  <2>1. CASE q \in team
    BY <2>1, <1>1, <1>4, <1>6, <1>7, <1>10
  <2>2. CASE q \notin team
    BY <2>2, <1>1, <1>4, <1>6, <1>7, <1>9 DEF Registered
  <2> QED BY <2>1, <2>2
<1>12. ASSUME NEW h \in games', NEW q \in gamePlayers'[h] PROVE gameKey'[q] = h
  <2>1. h \in games /\ h # g /\ q \in gamePlayers[h] /\ q \in Players
    BY <1>3, <1>4
  <2>2. gameKey[q] = h
    BY <2>1 DEF Registered
  <2>3. q \notin team
    BY <2>1, <2>2 DEF Registered, team
  <2> QED BY <2>1, <2>2, <2>3, <1>4
<1> QED BY <1>11, <1>12 DEF Registered

\* A leader's heir is not in a game, since the leader is not; so the registration it
\* lacks was lost by a late request of its own.
LEMMA HeirLate ==
  ASSUME IInv, Registered, NEW p \in Players, NEW r, Topples(p, r)
  PROVE  Rotated(joinedPlayer[r])[1] \in late
<1>1. /\ r \in rooms /\ Rotated(joinedPlayer[r])[1] \in Members(r)
      /\ Rotated(joinedPlayer[r])[1] \in Players
  BY ToppledLine
<1>2. roomPlayerMap[p] \in RoomIds /\ roomLeader[r] = p
  BY InRoom DEF Topples
<1>3. screen[Rotated(joinedPlayer[r])[1]] = "ROOM"
  BY <1>1, <1>2, NotPlaying, NobodyPlays
<1> QED BY <1>1, <1>3 DEF Topples, NextLeaderMissing, Registered

\* The death in ChangeLeader takes no registration, and nobody from a game.
LEMMA ToppleRegistered ==
  ASSUME IInv, Registered, NEW p \in Players, NEW r, Topples(p, r), late \subseteq late'
  PROVE  Registered'
<1>1. Rotated(joinedPlayer[r])[1] \in late
  BY HeirLate
<1>2. /\ roomPlayerMap' = Touched(roomPlayerMap, Rotated(joinedPlayer[r])[1])
      /\ UNCHANGED <<screen, games, gamePlayers, gamePlayerMap, gameKey>>
  BY DEF Topples, DieInHandover, gameVars
<1>3. \A q \in Players \ late : roomPlayerMap'[q] = roomPlayerMap[q]
  BY <1>1, <1>2 DEF Touched, Inserted
<1> QED BY <1>2, <1>3 DEF Registered

\* A handler that seats nobody leaves a NULL entry only for a player whose request
\* came late.
LEMMA QuietRegistered ==
  ASSUME IInv, Registered, HistoryNext, Handle, Quiet(current.player)
  PROVE  Registered'
<1>1. PICK p \in Players : p = current.player
  BY HandleEffect
<1>2. UNCHANGED <<games, gamePlayers, screen, gameKey>>
  BY DEF Quiet, clientVars
<1>3. /\ \A q \in Players \ {p} : roomPlayerMap'[q] = roomPlayerMap[q]
      /\ \A q \in Players \ {p} : gamePlayerMap'[q] = gamePlayerMap[q]
  <2>1. /\ roomPlayerMap' \in {roomPlayerMap, Touched(roomPlayerMap, p)}
        /\ gamePlayerMap' \in {gamePlayerMap, Touched(gamePlayerMap, p)}
    BY <1>1 DEF Quiet
  <2>2. /\ roomPlayerMap \in [Players -> RoomIds \cup {Null, Absent}]
        /\ gamePlayerMap \in [Players -> GameKeys \cup {Null, Absent}]
    BY DEF IInv, TypeOK, MapsTyped
  <2> QED BY <2>1, <2>2 DEF Touched, Inserted
<1>4. late \subseteq late' /\ (p \in late' \/ Fits(p, current.request))
  BY <1>1, LateGrows
<1>5. CASE p \in late'
  BY <1>2, <1>3, <1>4, <1>5 DEF Registered
<1>6. CASE p \notin late'
  <2>1. UNCHANGED <<roomPlayerMap, gamePlayerMap>>
    BY <1>1, <1>4, <1>6, NothingTouched
  <2> QED BY <1>2, <1>4, <2>1 DEF Registered
<1> QED BY <1>5, <1>6

\* Only GAME_END ends a game, which its player is in when the request fits.
LEMMA FinishedFromGame ==
  ASSUME IInv, Handle, NEW g \in games, FinishGame(current.player, g),
         Fits(current.player, current.request)
  PROVE  screen[current.player] = "GAME"
<1> DEFINE p == current.player
           m == current.request
<1>1. g \notin games'
  BY DEF FinishGame, RemoveGame
<1>2. Fits(p, m)
  OBVIOUS
<1>3. games \subseteq games' \/ InTheGame(p, m)
  <2>1. ASSUME Lobbying(p, m) PROVE games \subseteq games'
    BY <2>1 DEF Lobbying, CREATE_ROOM, JOIN_ROOM, gameVars
  <2>2. ASSUME InTheRoom(p, m) PROVE games \subseteq games'
    BY <2>2 DEF InTheRoom, ROOM_READY, ROOM_START, LEAVE_ROOM, ROOM_CHATTING, BeginGame, gameVars
  <2> QED BY <2>1, <2>2, HandleByKind
<1>4. InTheGame(p, m)
  BY <1>1, <1>3
<1> QED BY <1>2, <1>4 DEF Fits, InTheGame

\* Every step keeps the maps in step with the clients, but for the late ones.
LEMMA RegisteredNext ==
  ASSUME IInv, Registered, [HistoryNext]_historyVars
  PROVE  Registered'
<1>1. ASSUME UNCHANGED <<games, gamePlayers, mapVars, clientVars>>, late \subseteq late'
      PROVE  Registered'
  BY <1>1 DEF Registered, mapVars, clientVars
<1>2. CASE UNCHANGED historyVars
  BY <1>1, <1>2 DEF historyVars, vars, gameVars
<1>3. ASSUME HistoryNext, NEW p \in Players,
             Send(p) \/ Dispatch(p) \/ Deliver(p) \/ RemovePlayer(p) \/ RemoveFromLobby(p)
      PROVE  Registered'
  <2>1. late \subseteq late'
    BY <1>3, LateGrows
  <2> QED BY <1>1, <1>3, <2>1 DEF Send, Dispatch, Deliver, RemovePlayer, RemoveFromLobby, gameVars
<1>4. ASSUME HistoryNext, Handle PROVE Registered'
  <2>1. PICK p \in Players : p = current.player /\ Effect(p) /\ Served(p)
    BY <1>4, HandleEffect
  <2>2. late \subseteq late' /\ (p \in late' \/ Fits(p, current.request))
    BY <1>4, <2>1, LateGrows
  <2>3. ASSUME Quiet(p) PROVE Registered'
    BY <1>4, <2>1, <2>3, QuietRegistered
  <2>4. ASSUME NEW r \in RoomIds, SitsDown(p, r) PROVE Registered'
    BY <2>1, <2>2, <2>4, SitsDownRegistered
  <2>5. ASSUME NEW r \in rooms, NEW line \in Seq(Players), Departs(p, r, line) PROVE Registered'
    BY <2>2, <2>5, DepartsRegistered
  <2>6. ASSUME NEW r \in rooms, NEW g \in GameKeys, StartsGame(p, r, g) PROVE Registered'
    BY <2>2, <2>6, StartsGameRegistered
  <2>7. ASSUME NEW g \in games, FinishGame(p, g) PROVE Registered'
    <3>1. p \notin late' => screen[p] = "GAME"
      BY <1>4, <2>1, <2>2, <2>7, FinishedFromGame
    <3> QED BY <2>2, <2>7, <3>1, FinishGameRegistered
  <2>8. ASSUME NEW r \in rooms, Topples(p, r) PROVE Registered'
    BY <2>2, <2>8, ToppleRegistered
  <2> QED BY <2>1, <2>3, <2>4, <2>5, <2>6, <2>7, <2>8 DEF Effect
<1> QED BY <1>2, <1>3, <1>4 DEF HistoryNext, Next

\* The history only watches: its steps are steps of the server.
LEMMA HistoryInvariance == HistorySpec => [](IInv /\ Registered)
<1>1. Init => IInv /\ Registered
  <2>1. Init => Registered
    BY ConstantsAssumption DEF Init, Registered
  <2> QED BY <2>1, InitHolds
<1>2. [HistoryNext]_historyVars => [Next]_vars
  BY DEF HistoryNext, historyVars
<1>3. IInv /\ Registered /\ [HistoryNext]_historyVars => (IInv /\ Registered)'
  BY <1>2, NextKeeps, RegisteredNext
<1> QED BY <1>1, <1>3, PTL DEF HistorySpec

\* A member of a room who is not in a game is left without a registration only by a
\* late request of its own: no request of another player, no lost connection and no
\* game that ends strands it.
THEOREM StrandedAlways == HistorySpec => []StrandedExplained
<1>1. IInv /\ Registered => StrandedExplained
  <2> SUFFICES ASSUME IInv, Registered, NEW r \in rooms, NEW p \in Members(r) \ late,
                      screen[p] = "ROOM"
               PROVE  roomPlayerMap[p] = r
    BY DEF StrandedExplained
  <2>1. r \in RoomIds /\ p \in Players
    BY Seated DEF IInv, TypeOK, RoomsTyped
  <2>2. roomPlayerMap[p] \in RoomIds
    BY <2>1 DEF Registered
  <2>3. p \in Members(roomPlayerMap[p])
    BY <2>1, <2>2 DEF IInv, RegistryAgrees
  <2> QED BY <2>1, <2>2, <2>3 DEF IInv, OneSeat
<1> QED BY <1>1, HistoryInvariance, PTL

\* A body that serves a fitting request of a player who is not late goes through a
\* NULL pointer only for a late heir, or in a relay of the host about a player who is
\* lost between its two look-ups.
LEMMA HandlerFaults ==
  ASSUME IInv, Registered, Handle, ~crashed, crashed', current.player \notin late,
         Fits(current.player, current.request)
  PROVE  \/ \E r \in rooms : /\ roomLeader[r] = current.player
                            /\ Rotated(joinedPlayer[r])[1] \in late
         \/ current.request.kind \in HostKinds /\ current.request.target \notin players
<1>1. PICK p \in Players, m \in Request : p = current.player /\ m = current.request
  BY DEF Handle, IInv, TypeOK, ClientsTyped
<1>2. Fits(p, m) /\ p \notin late
  BY <1>1
<1>3. ~Lobbying(p, m)
  BY DEF Lobbying, CREATE_ROOM, JOIN_ROOM
<1>4. ASSUME InTheRoom(p, m)
      PROVE  \E r \in rooms : roomLeader[r] = p /\ Rotated(joinedPlayer[r])[1] \in late
  <2>1. ~ROOM_READY(p, m) /\ ~ROOM_START(p, m) /\ ~ROOM_CHATTING(p, m)
    BY DEF ROOM_READY, ROOM_START, ROOM_CHATTING
  <2>2. LEAVE_ROOM(p, m)
    BY <1>4, <2>1 DEF InTheRoom
  <2>3. Topples(p, JoinRoomOf(p))
    BY <2>2 DEF LEAVE_ROOM, Topples
  <2>4. JoinRoomOf(p) \in rooms /\ roomLeader[JoinRoomOf(p)] = p
    BY <2>3, InRoom DEF Topples
  <2> QED BY <2>3, <2>4, HeirLate
<1> SUFFICES ASSUME ~InTheRoom(p, m)
             PROVE  m.kind \in HostKinds /\ m.target \notin players
  BY <1>1, <1>4
<1>5. InTheGame(p, m)
  BY <1>1, <1>3, HandleByKind
<1>6. screen[p] = "GAME" /\ m.gameKey = gameKey[p]
  BY <1>2, <1>5 DEF Fits, InTheGame
<1>7. m.gameKey \in games /\ m.gameKey \in GameKeys
  BY <1>6 DEF IInv, GameRegistryAgrees, TypeOK, GamesTyped
<1>8. ~NoGamePlayer(p)
  BY <1>2, <1>6, <1>7 DEF Registered, NoGamePlayer
<1>9. gameLeader[m.gameKey] # Null
  BY <1>7, Playing, ConstantsAssumption
<1>10. m.kind \in HostKinds /\ RelayFromHost(p, m)
  BY <1>5, <1>7, <1>8, <1>9 DEF InTheGame, GAME_START, GAME_END, Relay, RelayUnguarded, RelayToHost
<1> QED BY <1>1, <1>8, <1>10 DEF RelayFromHost

\* No handler goes through a NULL pointer unless a request of the player it serves or
\* of that player's heir came late, or a relay of the host is about a player whose
\* connection is lost meanwhile.
THEOREM NullAlways == HistorySpec => NullExplained
<1> DEFINE Explained ==
      crashed' /\ ~crashed =>
        \/ current.player \in late'
        \/ \E r \in rooms : /\ roomLeader[r] = current.player
                           /\ Rotated(joinedPlayer[r])[1] \in late
        \/ current.request.kind \in HostKinds /\ current.request.target \notin players
<1>1. IInv /\ Registered /\ [HistoryNext]_historyVars => [Explained]_historyVars
  <2> SUFFICES ASSUME IInv, Registered, HistoryNext, crashed', ~crashed,
                      current.player \notin late'
               PROVE  \/ \E r \in rooms : /\ roomLeader[r] = current.player
                                         /\ Rotated(joinedPlayer[r])[1] \in late
                      \/ /\ current.request.kind \in HostKinds
                         /\ current.request.target \notin players
    OBVIOUS
  <2>1. Handle
    BY DEF HistoryNext, Next, Send, Dispatch, Deliver, RemovePlayer, RemoveFromLobby
  <2>2. current.player \notin late /\ Fits(current.player, current.request)
    BY <2>1, LateGrows
  <2> QED BY <2>1, <2>2, HandlerFaults
<1> QED BY <1>1, HistoryInvariance, PTL DEF HistorySpec, NullExplained
=============================================================================
