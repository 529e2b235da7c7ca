--------------------------- MODULE PacketDataProofs ---------------------------
(***************************************************************************)
(* No packet is in two places, and the list of the lobby that a client     *)
(* is sent is fair although players are erased from the lobby while it is  *)
(* made: proved for every number of players, packets and requests.         *)
(***************************************************************************)
EXTENDS PacketData, SequenceTheorems, FiniteSetTheorems, TLAPS

N == Cardinality(Players)

\* A player is in the lobby once.
OnceInLobby == \A i, j \in 1..size : lobby[i] = lobby[j] => i = j

\* Who is in the lobby at one of the first n places
Standing(n) == {lobby[j] : j \in {i \in 1..size : i <= n}}

\* Who stands before the next one to be listed and was not listed
PassedOver == Standing(Len(listing.names)) \ Range(listing.names)

ListingType == [count : Nat, names : Seq(Players), counted : Seq(Players),
                lost : SUBSET Players]

\* Those who were counted and not lost are those in the lobby; whoever of them has been
\* passed over was moved down a place by the loss of another.
Listing ==
  listing # None =>
    /\ listing \in ListingType
    /\ Len(listing.counted) = listing.count /\ size <= listing.count
    /\ Len(listing.names) <= listing.count
    /\ \A j \in 1..listing.count : lobby[j] \in Range(listing.counted)
    /\ Range(listing.names) \subseteq Range(listing.counted)
    /\ listing.lost = {} =>
         /\ \A j \in 1..listing.count : lobby[j] = listing.counted[j]
         /\ \A j \in 1..Len(listing.names) : listing.names[j] = listing.counted[j]
    /\ Range(listing.counted) \ listing.lost = Standing(size)
    /\ Cardinality(PassedOver) <= Cardinality(listing.lost)

\* What the packets on their way are to tell of a list is fair.
Told ==
  /\ DOMAIN about = Packets
  /\ \A k \in queue \cup completed : about[k].listing # None => FairList(about[k].listing)

\* A list is made for a request.
TaskType ==
  /\ task # None => "request" \in DOMAIN task
  /\ listing # None => task # None

IInv == TypeOK /\ TaskType /\ OnceInLobby /\ Listing /\ Told /\ LobbyListed

\* The parts of TypeOK
LobbyType == lobby \in [1..N -> Players] /\ size \in 0..N
OnePlace ==
  /\ pool \in Seq(Packets) /\ Range(pool) \cup queue \cup completed \subseteq Packets
  /\ \A i, j \in DOMAIN pool : pool[i] = pool[j] => i = j
  /\ Range(pool) \cap (queue \cup completed) = {} /\ queue \cap completed = {}
Requests ==
  /\ handled \in 0..MaxRequests
  /\ task # None => task.request \in DOMAIN Replies

-----------------------------------------------------------------------------
(* Sequences and sets.                                                     *)

\* What the assumption says of the sets.
LEMMA Numbers ==
  /\ N \in Nat /\ IsFiniteSet(Players) /\ IsFiniteSet(Packets) /\ MaxRequests \in Nat
BY PacketDataAssumption, FS_CardinalityType DEF N

\* The range of a sequence, by its places.
LEMMA RangeOf ==
  ASSUME NEW S, NEW q \in Seq(S)
  PROVE  /\ Len(q) \in Nat /\ DOMAIN q = 1..Len(q) /\ Range(q) \subseteq S
         /\ \A e : e \in Range(q) <=> \E i \in 1..Len(q) : q[i] = e
<1>1. Len(q) \in Nat /\ DOMAIN q = 1..Len(q)
  BY LenProperties
<1>2. \A i \in 1..Len(q) : q[i] \in S
  BY ElementOfSeq
<1> QED
  BY <1>1, <1>2 DEF Range

\* An order of a finite set holds each of its elements, and once.
LEMMA OrderOfSet ==
  ASSUME NEW S, IsFiniteSet(S), NEW q \in SetToSeqs(S)
  PROVE  /\ q \in [1..Cardinality(S) -> S] /\ q \in Seq(S) /\ Range(q) = S
         /\ \A i, j \in DOMAIN q : q[i] = q[j] => i = j
<1> DEFINE n == Cardinality(S)
<1>1. n \in Nat /\ IsFiniteSet(1..n) /\ Cardinality(1..n) = n
  BY FS_CardinalityType, FS_Interval
<1>2. q \in [1..n -> S] /\ \A i, j \in 1..n : i # j => q[i] # q[j]
  BY DEF SetToSeqs
<1>3. q \in Injection(1..n, S)
  BY <1>2 DEF Injection, IsInjective
<1>4. q \in Surjection(1..n, S)
  BY <1>1, <1>3, FS_Injection
<1> HIDE DEF n
<1>5. q \in Seq(S)
  BY <1>1, <1>2, IsASeq
<1>6. \A e \in S : \E i \in 1..n : q[i] = e
  BY <1>4 DEF Surjection
<1>7. Range(q) = S
  BY <1>2, <1>6 DEF Range
<1> QED
  BY <1>2, <1>5, <1>7 DEF n

\* The last element of a sequence without repetitions is not among the others.
LEMMA FrontAndLast ==
  ASSUME NEW S, NEW q \in Seq(S), q # <<>>, \A i, j \in DOMAIN q : q[i] = q[j] => i = j
  PROVE  /\ Front(q) \in Seq(S) /\ Last(q) \in S
         /\ Range(q) = Range(Front(q)) \cup {Last(q)} /\ Last(q) \notin Range(Front(q))
         /\ \A i, j \in DOMAIN Front(q) : Front(q)[i] = Front(q)[j] => i = j
<1> DEFINE n == Len(q)
           f == Front(q)
<1>1. n \in Nat /\ n # 0 /\ DOMAIN q = 1..n /\ \A i \in 1..n : q[i] \in S
  BY EmptySeq, LenProperties, ElementOfSeq
<1>2. /\ f \in Seq(S) /\ Len(f) = n - 1
      /\ \A i \in 1..(n - 1) : f[i] = q[i]
  <2>1. \A i \in 1..(n - 1) : q[i] \in S
    BY <1>1
  <2>2. 1 \in Int /\ n - 1 \in Int
    BY <1>1
  <2> DEFINE m == n - 1
  <2> HIDE DEF n
  <2>3. m \in Int /\ \A i \in 1..m : q[i] \in S
    BY <2>1, <2>2
  <2> HIDE DEF m
  <2>4. /\ SubSeq(q, 1, m) \in Seq(S) /\ Len(SubSeq(q, 1, m)) = IF 1 <= m THEN m - 1 + 1 ELSE 0
        /\ \A i \in 1..(m - 1 + 1) : SubSeq(q, 1, m)[i] = q[1 + i - 1]
    BY <2>3, SubSeqProperties
  <2>5. f = SubSeq(q, 1, m)
    BY DEF Front, m, n
  <2>6. Len(f) = m
    BY <2>4, <2>5, <1>1 DEF m
  <2>7. \A i \in 1..m : f[i] = q[i]
    BY <2>3, <2>4, <2>5
  <2> QED
    BY <2>4, <2>5, <2>6, <2>7 DEF m
<1>3. Last(q) = q[n]
  BY DEF Last
<1> HIDE DEF n, f
<1>4. DOMAIN f = 1..(n - 1)
  BY <1>1, <1>2, LenProperties
<1>5. 1..n = 1..(n - 1) \cup {n}
  BY <1>1
<1>6. n \notin 1..(n - 1)
  BY <1>1
<1> QED
  BY <1>1, <1>2, <1>3, <1>4, <1>5, <1>6 DEF Range, f

\* The players who are counted: the first of the lobby.
LEMMA FirstOfLobby ==
  ASSUME NEW l \in [1..N -> Players], NEW n \in 0..N
  PROVE  /\ SubSeq(l, 1, n) \in Seq(Players) /\ Len(SubSeq(l, 1, n)) = n
         /\ \A i \in 1..n : SubSeq(l, 1, n)[i] = l[i]
         /\ Range(SubSeq(l, 1, n)) = {l[i] : i \in 1..n}
<1>1. N \in Nat /\ n \in Nat /\ n <= N
  BY Numbers
<1>2. \A i \in 1..n : l[i] \in Players
  BY <1>1
<1>3. /\ SubSeq(l, 1, n) \in Seq(Players)
      /\ Len(SubSeq(l, 1, n)) = IF 1 <= n THEN n - 1 + 1 ELSE 0
      /\ \A i \in 1..(n - 1 + 1) : SubSeq(l, 1, n)[i] = l[1 + i - 1]
  BY <1>1, <1>2, SubSeqProperties
<1> DEFINE s == SubSeq(l, 1, n)
<1>4. s \in Seq(Players) /\ Len(s) = n
  BY <1>1, <1>3
<1>5. \A i \in 1..n : s[i] = l[i]
  BY <1>1, <1>3
<1> HIDE DEF s
<1>6. DOMAIN s = 1..n
  BY <1>4, LenProperties
<1>7. Range(s) = {l[i] : i \in 1..n}
  BY <1>5, <1>6 DEF Range
<1> QED
  BY <1>4, <1>5, <1>7 DEF s

\* A sequence with an element more.
LEMMA RangeOfMore ==
  ASSUME NEW S, NEW q \in Seq(S), NEW e \in S
  PROVE  /\ Append(q, e) \in Seq(S) /\ Len(Append(q, e)) = Len(q) + 1
         /\ \A i \in 1..Len(q) : Append(q, e)[i] = q[i]
         /\ Append(q, e)[Len(q) + 1] = e
         /\ Range(Append(q, e)) = Range(q) \cup {e}
<1> DEFINE n == Len(q)
           r == Append(q, e)
<1>1. /\ r \in Seq(S) /\ Len(r) = n + 1 /\ n \in Nat
      /\ \A i \in 1..n : r[i] = q[i]
      /\ r[n + 1] = e
  BY AppendProperties, LenProperties
<1>2. DOMAIN q = 1..n /\ DOMAIN r = 1..(n + 1)
  BY <1>1, LenProperties
<1> HIDE DEF n, r
<1>3. DOMAIN q = 1..n /\ DOMAIN r = 1..n \cup {n + 1}
  BY <1>1, <1>2
<1>4. Range(r) = Range(q) \cup {e}
  BY <1>1, <1>3, Zenon DEF Range
<1> QED
  BY <1>1, <1>4 DEF n, r

-----------------------------------------------------------------------------
(* The packets.                                                            *)

\* TypeOK is its parts.
LEMMA PartsOfType ==
  /\ TypeOK => LobbyType /\ OnePlace /\ Requests
  /\ (LobbyType /\ OnePlace /\ Requests /\ (listing # None => listing.count \in 0..N)) => TypeOK
BY DEF TypeOK, LobbyType, OnePlace, Requests, N

\* Pop from p and push to a queue.
Pop(p) ==
  /\ p \in Filled /\ pool' = Front(p)
  /\ queue' = queue \cup {Last(p)} /\ completed' = completed

\* What Pop takes from: packets that are in no queue, each of them once.
LEMMA PoolFilled ==
  ASSUME OnePlace, NEW p \in Filled
  PROVE  /\ p \in Seq(Packets) /\ p # <<>> /\ \A i, j \in DOMAIN p : p[i] = p[j] => i = j
         /\ Range(p) \cap (queue \cup completed) = {}
         /\ Range(p) \subseteq Packets
         /\ Front(p) \in Seq(Packets) /\ Last(p) \in Packets
         /\ Range(p) = Range(Front(p)) \cup {Last(p)} /\ Last(p) \notin Range(Front(p))
         /\ \A i, j \in DOMAIN Front(p) : Front(p)[i] = Front(p)[j] => i = j
<1>1. /\ p \in Seq(Packets) /\ p # <<>> /\ \A i, j \in DOMAIN p : p[i] = p[j] => i = j
      /\ Range(p) \cap (queue \cup completed) = {} /\ Range(p) \subseteq Packets
  <2>1. CASE pool # <<>>
    BY <2>1 DEF Filled, OnePlace
  <2>2. CASE pool = <<>>
    <3> DEFINE S == Packets \ (queue \cup completed)
    <3>1. p \in SetToSeqs(S) /\ p # <<>>
      BY <2>2 DEF Filled
    <3>2. S \subseteq Packets /\ S \cap (queue \cup completed) = {} /\ IsFiniteSet(S)
      BY Numbers, FS_Subset
    <3> HIDE DEF S
    <3>3. p \in Seq(S) /\ Range(p) = S /\ \A i, j \in DOMAIN p : p[i] = p[j] => i = j
      BY <3>1, <3>2, OrderOfSet
    <3>4. p \in Seq(Packets)
      BY <3>2, <3>3
    <3> QED
      BY <3>1, <3>2, <3>3, <3>4
  <2> QED
    BY <2>1, <2>2
<1> QED
  BY <1>1, FrontAndLast

\* A packet that is popped moves to a send queue.
LEMMA PopKeepsPlaces == ASSUME OnePlace, NEW p, Pop(p) PROVE OnePlace'
<1> DEFINE k == Last(p)
<1>1. Range(pool) \cup queue \cup completed \subseteq Packets /\ queue \cap completed = {}
  BY DEF OnePlace
<1>2. /\ pool' \in Seq(Packets) /\ Range(p) = Range(pool') \cup {k} /\ k \notin Range(pool')
      /\ \A i, j \in DOMAIN pool' : pool'[i] = pool'[j] => i = j
      /\ Range(p) \cap (queue \cup completed) = {} /\ Range(p) \subseteq Packets
  BY PoolFilled DEF Pop
<1>3. queue' = queue \cup {k} /\ completed' = completed
  BY DEF Pop
<1> HIDE DEF k
<1>4. Range(pool') \cup queue' \cup completed' \subseteq Packets
  BY <1>1, <1>2, <1>3
<1>5. Range(pool') \cap (queue' \cup completed') = {} /\ queue' \cap completed' = {}
  BY <1>1, <1>2, <1>3
<1> QED
  BY <1>2, <1>4, <1>5 DEF OnePlace

\* One that is forgotten leaves the others where they are.
LEMMA ForgottenKeepsPlaces ==
  ASSUME OnePlace, Told, LobbyListed, LeaveOut
  PROVE  OnePlace' /\ Told' /\ LobbyListed'
<1>1. PICK p \in Filled : pool' = Front(p)
  BY DEF LeaveOut
<1>2. UNCHANGED <<queue, completed, frame, about>>
  BY DEF LeaveOut
<1>3. OnePlace'
  BY <1>1, <1>2, PoolFilled DEF OnePlace
<1> QED
  BY <1>2, <1>3 DEF Told, LobbyListed, FairList

\* What the packet that is popped is to tell is the sender's to say.
LEMMA PopTold ==
  ASSUME OnePlace, Told, NEW p, Pop(p), NEW what, about' = [about EXCEPT ![Last(p)] = what],
         what.listing # None => FairList(what.listing)
  PROVE  Told'
<1>1. Last(p) \in Packets
  BY PoolFilled DEF Pop
<1>2. DOMAIN about' = Packets
  BY DEF Told
<1>3. about'[Last(p)] = what
  BY <1>1 DEF Told
<1>4. ASSUME NEW k \in queue' \cup completed', about'[k].listing # None
      PROVE  FairList(about'[k].listing)
  <2>1. CASE k = Last(p)
    BY <1>3, <1>4, <2>1
  <2>2. CASE k # Last(p)
    <3>1. k \in queue \cup completed
      BY <1>4, <2>2 DEF Pop
    <3>2. about'[k] = about[k]
      BY <2>2, <3>1 DEF Told, OnePlace
    <3> QED
      BY <1>4, <3>1, <3>2 DEF Told
  <2> QED
    BY <2>1, <2>2
<1> QED
  BY <1>2, <1>4 DEF Told, FairList

\* Steps that only take the next request or finish one.
LEMMA StepRequest ==
  ASSUME IInv, NEW m \in DOMAIN Replies, Deserialize(m) \/ Return
  PROVE  IInv'
<1>1. UNCHANGED <<lobby, size, listing, packetVars>>
  BY DEF Deserialize, Return
<1>2. Requests' /\ TaskType'
  <2>1. CASE Deserialize(m)
    <3>1. handled \in 0..MaxRequests /\ handled < MaxRequests /\ handled' = handled + 1
      BY <2>1 DEF Deserialize, IInv, TypeOK
    <3>2. handled' \in 0..MaxRequests
      BY <3>1, Numbers
    <3>3. task'.request = m /\ "request" \in DOMAIN task'
      BY <2>1 DEF Deserialize
    <3>4. listing' = None
      BY <2>1 DEF Deserialize, IInv, TaskType
    <3> QED
      BY <3>2, <3>3, <3>4 DEF Requests, TaskType
  <2>2. CASE Return
    BY <2>2 DEF Return, Requests, TaskType, IInv, TypeOK
  <2> QED
    BY <2>1, <2>2
<1>3. TypeOK'
  BY <1>1, <1>2, PartsOfType DEF IInv, TypeOK, packetVars, Requests
<1> QED
  BY <1>1, <1>2, <1>3
  DEF IInv, OnceInLobby, Listing, Standing, PassedOver, ListingType, Told, LobbyListed, packetVars

\* SendPacket puts what a queued packet tells on its way; OnSent resets packets that are
\* in no queue any more.
LEMMA StepSend ==
  ASSUME IInv, SendPacket \/ OnSent \/ Arrive
  PROVE  IInv'
<1>1. UNCHANGED <<lobby, size, handlerVars>>
  BY DEF SendPacket, OnSent, Arrive
<1>2. OnceInLobby' /\ Listing' /\ TaskType' /\ LobbyType' /\ Requests'
  <2>1. OnceInLobby /\ Listing /\ TaskType /\ LobbyType /\ Requests
    BY PartsOfType DEF IInv
  <2>2. OnceInLobby' /\ TaskType' /\ LobbyType' /\ Requests'
    BY <1>1, <2>1 DEF handlerVars, OnceInLobby, TaskType, LobbyType, Requests, N
  <2>3. Listing'
    BY <1>1, <2>1 DEF handlerVars, Listing, Standing, PassedOver, ListingType
  <2> QED
    BY <2>2, <2>3
<1>3. listing' # None => listing'.count \in 0..N
  BY <1>1 DEF handlerVars, IInv, TypeOK, N
<1>4. OnePlace /\ Told /\ LobbyListed
  BY PartsOfType DEF IInv
<1>5. OnePlace' /\ Told' /\ LobbyListed'
  <2>1. ASSUME NEW k \in queue, frame = None,
               queue' = queue \ {k}, completed' = completed \cup {k}, UNCHANGED <<pool, about>>,
               frame' = [message |-> header[k].message,
                         items |-> Prefix(stream[k], header[k].length - 12),
                         about |-> about[k]]
        PROVE  OnePlace' /\ Told' /\ LobbyListed'
    <3>1. OnePlace'
      BY <2>1, <1>4 DEF OnePlace
    <3>2. Told'
      BY <2>1, <1>4 DEF Told, FairList
    <3>3. frame'.about = about[k]
      BY <2>1
    <3>4. LobbyListed'
      BY <2>1, <3>3, <1>4 DEF Told, LobbyListed, FairList
    <3> QED
      BY <3>1, <3>2, <3>4
  <2>2. ASSUME NEW k \in completed, completed' = completed \ {k}, pool' = Append(pool, k),
               about' = [about EXCEPT ![k] = None], UNCHANGED <<queue, frame>>
        PROVE  OnePlace' /\ Told' /\ LobbyListed'
    <3>1. pool \in Seq(Packets) /\ k \in Packets /\ k \notin Range(pool) /\ k \notin queue
      BY <2>2, <1>4 DEF OnePlace
    <3>2. /\ pool' \in Seq(Packets) /\ Len(pool') = Len(pool) + 1
          /\ \A i \in 1..Len(pool) : pool'[i] = pool[i]
          /\ pool'[Len(pool) + 1] = k /\ Range(pool') = Range(pool) \cup {k}
      BY <2>2, <3>1, RangeOfMore
    <3>3. /\ Len(pool) \in Nat /\ DOMAIN pool = 1..Len(pool) /\ DOMAIN pool' = 1..Len(pool')
          /\ \A i \in 1..Len(pool) : pool[i] # k
      BY <3>1, <3>2, RangeOf
    <3>4. \A i, j \in DOMAIN pool' : pool'[i] = pool'[j] => i = j
      <4> SUFFICES ASSUME NEW i \in DOMAIN pool', NEW j \in DOMAIN pool', pool'[i] = pool'[j]
                   PROVE  i = j
        OBVIOUS
      <4>1. /\ i \in 1..Len(pool) \/ i = Len(pool) + 1
            /\ j \in 1..Len(pool) \/ j = Len(pool) + 1
        BY <3>2, <3>3
      <4> QED
        BY <4>1, <3>2, <3>3, <1>4 DEF OnePlace
    <3>5. OnePlace'
      BY <2>2, <1>4, <3>1, <3>2, <3>4 DEF OnePlace
    <3>6. Told'
      <4>1. DOMAIN about' = Packets
        BY <2>2, <1>4 DEF Told
      <4>2. \A h \in queue' \cup completed' : h \in queue \cup completed /\ about'[h] = about[h]
        BY <2>2, <3>1, <1>4 DEF Told, OnePlace
      <4> QED
        BY <4>1, <4>2, <1>4 DEF Told, FairList
    <3> QED
      BY <2>2, <1>4, <3>5, <3>6 DEF LobbyListed, FairList
  <2>3. CASE Arrive
    BY <2>3, <1>4 DEF Arrive, OnePlace, Told, LobbyListed, FairList
  <2> QED
    BY <2>1, <2>2, <2>3 DEF SendPacket, OnSent
<1>6. TypeOK'
  BY <1>2, <1>3, <1>5 DEF TypeOK, LobbyType, OnePlace, Requests, N
<1> QED
  BY <1>2, <1>5, <1>6 DEF IInv

-----------------------------------------------------------------------------
(* Replies.                                                                *)

\* What the packet that is popped is to tell.
Tells(what) == \E p : Pop(p) /\ about' = [about EXCEPT ![Last(p)] = what]

\* A reply with a fair list, or none, may be sent.
LEMMA TellsFair ==
  ASSUME IInv, NEW what, Tells(what), frame' = frame,
         what.listing # None => FairList(what.listing)
  PROVE  OnePlace' /\ Told' /\ LobbyListed'
<1>1. OnePlace /\ Told /\ LobbyListed
  BY PartsOfType DEF IInv
<1>2. OnePlace' /\ Told'
  BY <1>1, PopKeepsPlaces, PopTold DEF Tells
<1>3. LobbyListed'
  BY <1>1 DEF LobbyListed, FairList
<1> QED
  BY <1>2, <1>3

\* There is a place left for who is not in the lobby.
LEMMA EnterLobby ==
  ASSUME LobbyType, OnceInLobby, EnterPlayer
  PROVE  LobbyType' /\ OnceInLobby'
<1>1. PICK p \in Players : /\ p \notin Range(SubSeq(lobby, 1, size))
                           /\ lobby' = [lobby EXCEPT ![size + 1] = p] /\ size' = size + 1
  BY DEF EnterPlayer
<1>2. lobby \in [1..N -> Players] /\ size \in 0..N /\ N \in Nat
  BY Numbers DEF LobbyType
<1>3. \A i \in 1..size : lobby[i] # p
  <2>1. Range(SubSeq(lobby, 1, size)) = {lobby[i] : i \in 1..size}
    BY <1>2, FirstOfLobby
  <2> QED
    BY <1>1, <2>1
<1>4. size # N
  <2> SUFFICES ASSUME size = N PROVE FALSE
    OBVIOUS
  <2>1. lobby \in Injection(1..N, Players)
    BY <1>2 DEF OnceInLobby, Injection, IsInjective
  <2>2. IsFiniteSet(1..N) /\ Cardinality(1..N) = Cardinality(Players)
    BY <1>2, FS_Interval DEF N
  <2>3. lobby \in Surjection(1..N, Players)
    BY <2>1, <2>2, Numbers, FS_Injection
  <2>4. \E i \in 1..N : lobby[i] = p
    BY <2>3 DEF Surjection
  <2> QED
    BY <2>4, <1>3
<1>5. size + 1 \in 1..N
  BY <1>2, <1>4
<1>6. LobbyType'
  <2>1. lobby' \in [1..N -> Players]
    BY <1>1, <1>2
  <2>2. size' \in 0..N
    BY <1>1, <1>5
  <2>3. N' = N
    BY DEF N
  <2> QED
    BY <2>1, <2>2, <2>3 DEF LobbyType
<1>7. ASSUME NEW i \in 1..size', NEW j \in 1..size', lobby'[i] = lobby'[j]
      PROVE  i = j
  <2>1. \A h \in 1..size : lobby'[h] = lobby[h] /\ lobby'[h] # p
    BY <1>1, <1>2, <1>3, <1>5
  <2>2. lobby'[size + 1] = p
    BY <1>1, <1>2, <1>5
  <2>3. /\ i \in 1..size \/ i = size + 1
        /\ j \in 1..size \/ j = size + 1
    BY <1>1, <1>2
  <2>4. CASE i \in 1..size /\ j \in 1..size
    BY <2>1, <2>4, <1>7 DEF OnceInLobby
  <2> QED
    BY <2>1, <2>2, <2>3, <2>4, <1>7
<1> QED
  BY <1>6, <1>7 DEF OnceInLobby

\* A request that is being answered.
LEMMA AnsweredRequest ==
  ASSUME Requests, TaskType, task # None, listing' = None, NEW m, Answered(m)
  PROVE  Requests' /\ TaskType'
<1>1. task' = [task EXCEPT !.due = @ \ {m}] /\ handled' = handled
  BY DEF Answered
<1>2. "request" \in DOMAIN task /\ DOMAIN task' = DOMAIN task
  BY <1>1 DEF TaskType
<1>3. task'.request = task.request
  BY <1>1, <1>2
<1> QED
  BY <1>1, <1>2, <1>3 DEF Requests, TaskType

\* A reply that is not the end of a list tells of none.
LEMMA StepReply ==
  ASSUME IInv, Answer \/ Refuse \/ PushHeartBeat
  PROVE  IInv'
<1> DEFINE S == LobbyType' /\ OnceInLobby'
           R == Requests' /\ TaskType'
           P == OnePlace' /\ Told' /\ LobbyListed'
<1>1. LobbyType /\ OnceInLobby /\ Requests /\ TaskType /\ Listing
  BY PartsOfType DEF IInv
<1>2. UNCHANGED <<lobby, size>> => S
  BY <1>1 DEF LobbyType, OnceInLobby, N
<1>3. ASSUME NEW what, Tells(what), frame' = frame, what.listing = None PROVE P
  BY <1>3, TellsFair
<1>b. LeaveOut => P
  BY ForgottenKeepsPlaces, PartsOfType DEF IInv
<1> HIDE DEF P
<1>4. CASE Answer
  <2>1. PICK m \in task.due \ Lists : \E c \in Rows(m) :
          /\ task # None /\ listing = None /\ listing' = listing
          /\ IF m = "SC_Login" THEN EnterPlayer ELSE UNCHANGED <<lobby, size>>
          /\ Answered(m)
          /\ \/ Put(m, WriteData(m, handled, task.read, c),
                    [number |-> handled, result |-> "success", rows |-> c, listing |-> None])
             \/ LeaveOut
    BY <1>4 DEF Answer
  <2>2. PICK c \in Rows(m) :
          \/ Put(m, WriteData(m, handled, task.read, c),
                 [number |-> handled, result |-> "success", rows |-> c, listing |-> None])
          \/ LeaveOut
    BY <2>1
  <2>3. PICK what : what = [number |-> handled, result |-> "success", rows |-> c, listing |-> None]
    OBVIOUS
  <2>4. (Tells(what) /\ frame' = frame /\ what.listing = None) \/ LeaveOut
    BY <2>2, <2>3 DEF Put, Tells, Pop
  <2>5. S
    BY <2>1, <1>1, <1>2, EnterLobby
  <2>6. R
    BY <2>1, <1>1, AnsweredRequest
  <2> QED
    BY <2>1, <2>4, <2>5, <2>6, <1>3, <1>b
  DEF P, IInv, TypeOK, LobbyType, OnePlace, Requests, Listing, N
<1>5. CASE Refuse
  <2>1. PICK m \in task.due \cap Refusals :
          /\ task # None /\ listing = None /\ listing' = listing
          /\ UNCHANGED <<lobby, size>> /\ Answered(m)
          /\ Put(m, Empty(m, handled),
                 [number |-> handled, result |-> "failure", rows |-> 0, listing |-> None])
    BY <1>5 DEF Refuse
  <2>2. PICK what : what = [number |-> handled, result |-> "failure", rows |-> 0, listing |-> None]
    OBVIOUS
  <2>3. Tells(what) /\ frame' = frame /\ what.listing = None
    BY <2>1, <2>2 DEF Put, Tells, Pop
  <2>4. R
    BY <2>1, <1>1, AnsweredRequest
  <2> QED
    BY <2>1, <2>3, <2>4, <1>2, <1>3
  DEF P, IInv, TypeOK, LobbyType, OnePlace, Requests, Listing, N
<1>6. CASE PushHeartBeat
  <2>1. /\ UNCHANGED <<lobby, size, handled, task, listing>>
        /\ \/ Put("SC_HeartBeat", Empty("SC_HeartBeat", 0),
                  [number |-> 0, result |-> "success", rows |-> 0, listing |-> None])
           \/ LeaveOut
    BY <1>6 DEF PushHeartBeat, handlerVars
  <2>2. PICK what : what = [number |-> 0, result |-> "success", rows |-> 0, listing |-> None]
    OBVIOUS
  <2>3. (Tells(what) /\ frame' = frame /\ what.listing = None) \/ LeaveOut
    BY <2>1, <2>2 DEF Put, Tells, Pop
  <2>4. R /\ Listing' /\ (listing' # None => listing'.count \in 0..N)
    BY <2>1, <1>1 DEF Requests, TaskType, Listing, ListingType, Standing, PassedOver, IInv, TypeOK, N
  <2> QED
    BY <2>1, <2>3, <2>4, <1>2, <1>3, <1>b DEF P, IInv, TypeOK, LobbyType, OnePlace, Requests, N
<1> QED
  BY <1>4, <1>5, <1>6
-----------------------------------------------------------------------------
(* Lists of the lobby.                                                     *)

\* Sets of players are finite.
LEMMA CardinalityOfPlayers ==
  ASSUME NEW S \in SUBSET Players
  PROVE  /\ IsFiniteSet(S) /\ Cardinality(S) \in Nat
         /\ \A T \in SUBSET S : Cardinality(T) <= Cardinality(S)
         /\ \A p : Cardinality(S \cup {p}) = IF p \in S THEN Cardinality(S) ELSE Cardinality(S) + 1
BY Numbers, FS_Subset, FS_CardinalityType, FS_AddElement

\* A list that is begun.
LEMMA StepCount == IInv /\ GetPlayerCount => IInv'
<1> SUFFICES ASSUME IInv, GetPlayerCount PROVE IInv'
  OBVIOUS
<1>1. LobbyType /\ OnceInLobby /\ OnePlace /\ Requests /\ TaskType /\ Told /\ LobbyListed
  BY PartsOfType DEF IInv
<1>2. /\ IF task.request = "CS_LeaveRoom" THEN EnterPlayer ELSE UNCHANGED <<lobby, size>>
      /\ listing' = [count |-> size', names |-> <<>>,
                     counted |-> SubSeq(lobby', 1, size'), lost |-> {}]
      /\ UNCHANGED <<handled, task, packetVars>>
  BY DEF GetPlayerCount
<1>3. LobbyType' /\ OnceInLobby'
  <2>1. CASE EnterPlayer
    BY <1>1, <2>1, EnterLobby
  <2>2. CASE UNCHANGED <<lobby, size>>
    BY <1>1, <2>2 DEF LobbyType, OnceInLobby, N
  <2> QED
    BY <1>2, <2>1, <2>2
<1>4. OnePlace' /\ Told' /\ LobbyListed' /\ Requests' /\ TaskType'
  BY <1>1, <1>2 DEF GetPlayerCount, packetVars, OnePlace, Told, LobbyListed, FairList,
                    Requests, TaskType
<1>5. PICK l, n : l = lobby' /\ n = size'
  OBVIOUS
<1>6. l \in [1..N -> Players] /\ n \in 0..N /\ N \in Nat /\ n \in Nat
  BY <1>3, <1>5, Numbers DEF LobbyType, N
<1>7. /\ SubSeq(l, 1, n) \in Seq(Players) /\ Len(SubSeq(l, 1, n)) = n
      /\ \A i \in 1..n : SubSeq(l, 1, n)[i] = l[i]
      /\ Range(SubSeq(l, 1, n)) = {l[i] : i \in 1..n}
  BY <1>6, FirstOfLobby
<1>8. PICK c : c = SubSeq(l, 1, n)
  OBVIOUS
<1>9. listing' = [count |-> n, names |-> <<>>, counted |-> c, lost |-> {}]
  BY <1>2, <1>5, <1>8
<1>10. /\ c \in Seq(Players) /\ Len(c) = n /\ \A i \in 1..n : c[i] = l[i]
       /\ Range(c) = {l[i] : i \in 1..n}
  BY <1>7, <1>8
<1>11. <<>> \in Seq(Players) /\ Len(<<>>) = 0 /\ Range(<<>>) = {}
  BY DEF Range
<1>12. /\ listing' \in ListingType
       /\ listing'.count = n /\ listing'.names = <<>> /\ listing'.counted = c /\ listing'.lost = {}
  BY <1>6, <1>9, <1>10, <1>11 DEF ListingType
<1>13. Standing(0)' = {} /\ Standing(size)' = {l[i] : i \in 1..n}
  BY <1>5, <1>6 DEF Standing
<1>14. PassedOver' = {}
  BY <1>11, <1>12, <1>13 DEF PassedOver, Standing
<1>15. Cardinality({}) = 0
  BY FS_EmptySet
<1>16. Listing'
  <2>1. \A j \in 1..n : l[j] \in Range(c)
    BY <1>10
  <2> QED
    BY <1>5, <1>6, <1>10, <1>11, <1>12, <1>13, <1>14, <1>15, <2>1 DEF Listing
<1> QED
  BY <1>3, <1>4, <1>6, <1>12, <1>16 DEF IInv, TypeOK, LobbyType, OnePlace, Requests, N

\* The next name is that of one who was counted.
LEMMA StepList == IInv /\ ListPlayer => IInv'
<1> SUFFICES ASSUME IInv, ListPlayer PROVE IInv'
  OBVIOUS
<1>1. /\ listing # None /\ Len(listing.names) < listing.count
      /\ listing' = [listing EXCEPT !.names = Append(@, lobby[Len(@) + 1])]
      /\ UNCHANGED <<lobby, size, handled, task, packetVars>>
  BY DEF ListPlayer
<1>2. PICK q, c, d, n : q = listing.names /\ c = listing.counted /\ d = listing.lost /\ n = listing.count
  OBVIOUS
<1>3. /\ listing \in ListingType /\ q \in Seq(Players) /\ c \in Seq(Players) /\ d \in SUBSET Players
      /\ n \in 0..N /\ N \in Nat /\ Len(c) = n /\ size <= n
      /\ \A j \in 1..n : lobby[j] \in Range(c)
      /\ Range(q) \subseteq Range(c)
      /\ d = {} => /\ \A j \in 1..n : lobby[j] = c[j]
                   /\ \A j \in 1..Len(q) : q[j] = c[j]
      /\ Range(c) \ d = Standing(size)
      /\ Cardinality(PassedOver) <= Cardinality(d)
  BY <1>1, <1>2, Numbers DEF IInv, TypeOK, Listing, ListingType, N
<1>4. PICK m \in Nat : m = Len(q)
  BY <1>3, LenProperties
<1>5. m < n /\ m + 1 \in 1..n /\ m + 1 \in 1..N
  BY <1>1, <1>2, <1>3, <1>4
<1>6. PICK e \in Players : e = lobby[m + 1]
  BY <1>5 DEF IInv, TypeOK, N
<1>7. PICK r : r = Append(q, e)
  OBVIOUS
<1>8. /\ r \in Seq(Players) /\ Len(r) = m + 1 /\ \A i \in 1..m : r[i] = q[i]
      /\ r[m + 1] = e /\ Range(r) = Range(q) \cup {e}
  BY <1>3, <1>4, <1>7, RangeOfMore
<1>9. listing' = [listing EXCEPT !.names = r]
  BY <1>1, <1>2, <1>4, <1>6, <1>7
<1>10. /\ listing' \in ListingType
       /\ listing'.count = n /\ listing'.names = r /\ listing'.counted = c /\ listing'.lost = d
  BY <1>2, <1>3, <1>8, <1>9 DEF ListingType
<1>11. PassedOver' \subseteq PassedOver
  <2>1. \A x \in PassedOver' : x \in PassedOver
    <3> SUFFICES ASSUME NEW x \in PassedOver' PROVE x \in PassedOver
      OBVIOUS
    <3>1. x \notin Range(r) /\ \E j \in 1..size : j <= m + 1 /\ x = lobby[j]
      BY <1>1, <1>8, <1>10 DEF PassedOver, Standing
    <3>2. PICK j \in 1..size : j <= m + 1 /\ x = lobby[j]
      BY <3>1
    <3>3. x \notin Range(q) /\ x # e
      BY <3>1, <1>8
    <3>4. j # m + 1
      BY <3>2, <3>3, <1>6
    <3>5. j <= m
      BY <3>2, <3>4, <1>4, <1>3 DEF IInv, TypeOK
    <3> QED
      BY <3>2, <3>3, <3>5, <1>2, <1>4 DEF PassedOver, Standing
  <2> QED
    BY <2>1
<1>12. Cardinality(PassedOver') <= Cardinality(d)
  <2>1. PassedOver \in SUBSET Players
    BY <1>3 DEF PassedOver, Standing, IInv, TypeOK, N
  <2>2. PICK a, b : a = PassedOver /\ b = PassedOver'
    OBVIOUS
  <2>3. /\ a \in SUBSET Players /\ b \in SUBSET a /\ b \in SUBSET Players
    BY <2>1, <2>2, <1>11
  <2>4. /\ Cardinality(b) <= Cardinality(a)
        /\ Cardinality(a) \in Nat /\ Cardinality(b) \in Nat /\ Cardinality(d) \in Nat
    BY <2>3, <1>3, CardinalityOfPlayers
  <2> QED
    BY <2>2, <2>4, <1>3
<1>13. Standing(size)' = Standing(size)
  BY <1>1 DEF Standing
<1>14. Listing'
  <2>1. /\ Range(r) \subseteq Range(c)
        /\ \A j \in 1..n : lobby'[j] \in Range(c)
    BY <1>1, <1>3, <1>5, <1>6, <1>8
  <2>2. d = {} => /\ \A j \in 1..n : lobby'[j] = c[j]
                  /\ \A j \in 1..Len(r) : r[j] = c[j]
    <3>1. \A j \in 1..(m + 1) : j \in 1..m \/ j = m + 1
      BY <1>4
    <3> QED
      BY <1>1, <1>3, <1>4, <1>5, <1>6, <1>8, <3>1
  <2>3. Len(r) <= n /\ size' <= n
    BY <1>1, <1>3, <1>5, <1>8
  <2>4. Range(c) \ d = Standing(size)'
    BY <1>3, <1>13
  <2> QED
    BY <1>3, <1>10, <1>12, <2>1, <2>2, <2>3, <2>4 DEF Listing
<1> QED
  BY <1>1, <1>3, <1>10, <1>14
  DEF IInv, TypeOK, TaskType, OnceInLobby, Told, LobbyListed, FairList, packetVars, N
\* A list of which the last name is made is fair.
LEMMA ListMade ==
  IInv /\ listing # None /\ Len(listing.names) = listing.count => FairList(listing)
<1> SUFFICES ASSUME IInv, listing # None, Len(listing.names) = listing.count
             PROVE  FairList(listing)
  OBVIOUS
<1>1. /\ listing.names \in Seq(Players) /\ listing.counted \in Seq(Players)
      /\ Len(listing.counted) = listing.count /\ size <= listing.count
      /\ listing.count \in Nat /\ size \in Nat
      /\ Range(listing.names) \subseteq Range(listing.counted)
      /\ listing.lost = {} =>
           \A j \in 1..Len(listing.names) : listing.names[j] = listing.counted[j]
      /\ Range(listing.counted) \ listing.lost = Standing(size)
      /\ Cardinality(PassedOver) <= Cardinality(listing.lost)
  BY DEF IInv, Listing, ListingType, TypeOK
<1>2. listing.lost = {} => listing.names = listing.counted
  BY <1>1, SeqEqual
<1>3. Standing(Len(listing.names)) = Standing(size)
  BY <1>1 DEF Standing
<1> QED
  BY <1>1, <1>2, <1>3 DEF FairList, PassedOver

\* The list that is sent is made.
LEMMA StepAnswerList == IInv /\ AnswerList => IInv'
<1> SUFFICES ASSUME IInv, AnswerList PROVE IInv'
  OBVIOUS
<1>1. PICK m \in task.due \cap Lists : \E c \in Rows(m) :
        /\ listing # None /\ Len(listing.names) = listing.count
        /\ Answered(m) /\ listing' = None /\ UNCHANGED <<lobby, size>>
        /\ Put(m, WriteLists(m, handled, c),
               [number |-> handled, result |-> "success", rows |-> c, listing |-> listing])
  BY DEF AnswerList
<1>2. PICK c \in Rows(m) :
        Put(m, WriteLists(m, handled, c),
            [number |-> handled, result |-> "success", rows |-> c, listing |-> listing])
  BY <1>1
<1>3. PICK what : what = [number |-> handled, result |-> "success", rows |-> c, listing |-> listing]
  OBVIOUS
<1>4. Tells(what) /\ frame' = frame /\ what.listing = listing
  BY <1>2, <1>3 DEF Put, Tells, Pop
<1>5. FairList(what.listing)
  BY <1>1, <1>4, ListMade DEF FairList
<1>6. OnePlace' /\ Told' /\ LobbyListed'
  BY <1>4, <1>5, TellsFair
<1>7. task # None /\ listing' = None /\ LobbyType /\ OnceInLobby /\ Requests /\ TaskType
  BY <1>1, PartsOfType DEF IInv, TaskType
<1>8. Requests' /\ TaskType'
  BY <1>1, <1>7, AnsweredRequest
<1>9. LobbyType' /\ OnceInLobby'
  BY <1>1, <1>7 DEF LobbyType, OnceInLobby, N
<1> QED
  BY <1>6, <1>7, <1>8, <1>9 DEF IInv, TypeOK, LobbyType, OnePlace, Requests, Listing, N

\* A player is lost: those behind move down a place.
LEMMA StepRemove == IInv /\ RemovePlayer => IInv'
<1> SUFFICES ASSUME IInv, RemovePlayer PROVE IInv'
  OBVIOUS
<1>1. PICK i \in 1..size :
        /\ lobby' = [j \in DOMAIN lobby |->
                       IF i <= j /\ j < size THEN lobby[j + 1] ELSE lobby[j]]
        /\ size' = size - 1
        /\ listing' = IF listing = None THEN None
                      ELSE [listing EXCEPT !.lost = @ \cup {lobby[i]}]
        /\ UNCHANGED <<handled, task, packetVars>>
  BY DEF RemovePlayer
<1>2. /\ lobby \in [1..N -> Players] /\ size \in 1..N /\ N \in Nat /\ size \in Nat /\ i \in Nat
      /\ \A j, k \in 1..size : lobby[j] = lobby[k] => j = k
  BY <1>1, Numbers DEF IInv, TypeOK, OnceInLobby, N
<1>3. LobbyType'
  <2>1. \A j \in 1..N : i <= j /\ j < size => j + 1 \in 1..N
    BY <1>2
  <2>2. lobby' \in [1..N -> Players]
    BY <1>1, <1>2, <2>1
  <2>3. size' \in 0..N /\ N' = N
    BY <1>1, <1>2 DEF N
  <2> QED
    BY <2>2, <2>3 DEF LobbyType
\* Where it stood who stands at j now.
<1> DEFINE was(j) == IF i <= j THEN j + 1 ELSE j
<1>4. \A j \in 1..size' :
        /\ was(j) \in 1..size /\ was(j) # i /\ was(j) <= j + 1
        /\ lobby'[j] = lobby[was(j)]
  BY <1>1, <1>2
<1>5. \A k \in 1..size : k # i => \E j \in 1..size' : was(j) = k
  <2> SUFFICES ASSUME NEW k \in 1..size, k # i PROVE \E j \in 1..size' : was(j) = k
    OBVIOUS
  <2>1. CASE k < i
    <3>1. k \in 1..size' /\ was(k) = k
      BY <1>1, <1>2, <2>1
    <3> QED
      BY <3>1
  <2>2. CASE k > i
    <3>1. k - 1 \in 1..size' /\ was(k - 1) = k
      BY <1>1, <1>2, <2>2
    <3> QED
      BY <3>1
  <2> QED
    BY <1>2, <2>1, <2>2
<1>6. OnceInLobby'
  <2> SUFFICES ASSUME NEW j \in 1..size', NEW k \in 1..size', lobby'[j] = lobby'[k]
               PROVE  j = k
    BY DEF OnceInLobby
  <2>1. was(j) = was(k)
    BY <1>2, <1>4
  <2> QED
    BY <2>1, <1>1, <1>2
<1>7. OnePlace' /\ Told' /\ LobbyListed' /\ Requests' /\ TaskType'
  <2>1. OnePlace /\ Told /\ LobbyListed /\ Requests /\ TaskType
    BY PartsOfType DEF IInv
  <2> QED
    BY <1>1, <2>1 DEF packetVars, OnePlace, Told, LobbyListed, FairList, Requests, TaskType
<1>8. CASE listing = None
  BY <1>1, <1>3, <1>6, <1>7, <1>8 DEF IInv, TypeOK, LobbyType, OnePlace, Requests, Listing, N
<1>9. CASE listing # None
  <2>1. PICK x \in Players : x = lobby[i]
    BY <1>1, <1>2
  <2>2. PICK q, c, d, n : q = listing.names /\ c = listing.counted /\ d = listing.lost /\ n = listing.count
    OBVIOUS
  <2>3. /\ listing \in ListingType /\ q \in Seq(Players) /\ c \in Seq(Players) /\ d \in SUBSET Players
        /\ n \in 0..N /\ n \in Nat /\ Len(c) = n /\ size <= n /\ Len(q) <= n
        /\ \A j \in 1..n : lobby[j] \in Range(c)
        /\ Range(q) \subseteq Range(c)
        /\ Range(c) \ d = Standing(size)
        /\ Cardinality(PassedOver) <= Cardinality(d)
    BY <1>9, <2>2, Numbers DEF IInv, TypeOK, Listing, ListingType, N
  <2>4. PICK m \in Nat : m = Len(q)
    BY <2>3, LenProperties
  <2>5. PICK e : e = d \cup {x}
    OBVIOUS
  <2>6. listing' = [listing EXCEPT !.lost = e]
    BY <1>1, <1>9, <2>1, <2>2, <2>5
  <2>7. /\ listing' \in ListingType
        /\ listing'.count = n /\ listing'.names = q /\ listing'.counted = c /\ listing'.lost = e
    BY <2>2, <2>3, <2>5, <2>6 DEF ListingType
  <2>8. x \in Standing(size) /\ x \notin d /\ x \in Range(c)
    <3>1. x \in Standing(size)
      BY <1>1, <1>2, <2>1 DEF Standing
    <3> QED
      BY <3>1, <2>3
  <2>9. Standing(size)' = Standing(size) \ {x}
    <3>1. Standing(size) = {lobby[k] : k \in 1..size} /\ Standing(size)' = {lobby'[j] : j \in 1..size'}
      BY <1>1, <1>2 DEF Standing
    <3>2. ASSUME NEW p \in Standing(size)' PROVE p \in Standing(size) \ {x}
      BY <3>1, <3>2, <1>1, <1>2, <1>4, <2>1
    <3>3. ASSUME NEW p \in Standing(size), p # x PROVE p \in Standing(size)'
      <4>1. PICK k \in 1..size : p = lobby[k]
        BY <3>1, <3>3
      <4>2. PICK j \in 1..size' : was(j) = k
        BY <3>3, <4>1, <2>1, <1>5
      <4>3. p = lobby'[j]
        BY <4>1, <4>2, <1>4
      <4> QED
        BY <4>3, <3>1
    <3> QED
      BY <3>2, <3>3
  <2>10. Range(c) \ e = Standing(size)'
    BY <2>3, <2>5, <2>9
  \* The one who stood next may be moved to a place that has been listed.
  <2>11. PICK y : y = lobby[m + 1]
    OBVIOUS
  <2>12. PassedOver' \subseteq PassedOver \cup {y}
    <3>1. ASSUME NEW p \in PassedOver' PROVE p \in PassedOver \cup {y}
      <4>1. p \notin Range(q) /\ \E j \in 1..size' : j <= m /\ p = lobby'[j]
        BY <3>1, <2>4, <2>7 DEF PassedOver, Standing
      <4>2. PICK j \in 1..size' : j <= m /\ p = lobby'[j]
        BY <4>1
      <4>3. PICK k \in 1..size : k <= j + 1 /\ p = lobby[k]
        BY <4>2, <1>4
      <4>4. k <= m \/ k = m + 1
        BY <4>2, <4>3, <1>1, <1>2, <2>4
      <4>5. CASE k = m + 1
        BY <4>3, <4>5, <2>11
      <4>6. CASE k <= m
        BY <4>1, <4>3, <4>6, <2>2, <2>4 DEF PassedOver, Standing
      <4> QED
        BY <4>4, <4>5, <4>6
    <3> QED
      BY <3>1
  <2>13. Cardinality(PassedOver') <= Cardinality(e)
    <3>1. PassedOver \in SUBSET Players /\ PassedOver' \in SUBSET Players
      <4>1. Standing(Len(listing.names)) \subseteq Players
        BY <1>2 DEF Standing
      <4>2. Standing(size)' \subseteq Standing(size) /\ PassedOver' \subseteq Standing(size)'
        BY <1>1, <1>2, <2>9 DEF PassedOver, Standing
      <4>3. Standing(size) \subseteq Players
        BY <1>2 DEF Standing
      <4> QED
        BY <4>1, <4>2, <4>3 DEF PassedOver
    <3>2. PICK a, b : a = PassedOver /\ b = PassedOver'
      OBVIOUS
    <3>3. a \in SUBSET Players /\ b \in SUBSET Players /\ b \subseteq a \cup {y}
      BY <3>1, <3>2, <2>12
    <3>4. Cardinality(b) <= Cardinality(a) + 1
      <4>1. CASE y \in Players
        <5>1. a \cup {y} \in SUBSET Players /\ b \in SUBSET (a \cup {y})
          BY <3>3, <4>1
        <5>2. PICK ay : ay = a \cup {y}
          OBVIOUS
        <5>3. Cardinality(b) <= Cardinality(ay) /\ Cardinality(b) \in Nat /\ Cardinality(ay) \in Nat
          BY <3>3, <5>1, <5>2, CardinalityOfPlayers
        <5>4. Cardinality(ay) <= Cardinality(a) + 1 /\ Cardinality(a) \in Nat
          BY <3>3, <5>2, CardinalityOfPlayers
        <5> QED
          BY <5>3, <5>4
      <4>2. CASE y \notin Players
        <5>1. b \in SUBSET a
          BY <3>3, <4>2
        <5>2. Cardinality(b) <= Cardinality(a) /\ Cardinality(b) \in Nat /\ Cardinality(a) \in Nat
          BY <3>3, <5>1, CardinalityOfPlayers
        <5> QED
          BY <5>2
      <4> QED
        BY <4>1, <4>2
    <3>5. Cardinality(e) = Cardinality(d) + 1 /\ Cardinality(d) \in Nat
      BY <2>3, <2>5, <2>8, CardinalityOfPlayers
    <3>6. Cardinality(a) \in Nat /\ Cardinality(b) \in Nat
      BY <3>3, CardinalityOfPlayers
    <3> QED
      BY <3>2, <3>4, <3>5, <3>6, <2>3
  <2>14. \A j \in 1..n : lobby'[j] \in Range(c)
    <3>1. \A j \in 1..n : j \in 1..N /\ (j < size => j + 1 \in 1..n)
      BY <1>2, <2>3
    <3> QED
      BY <3>1, <1>1, <1>2, <2>3
  <2>15. Listing'
    <3>1. e # {} /\ size' <= n
      BY <1>1, <1>2, <2>3, <2>5
    <3> QED
      BY <3>1, <2>3, <2>7, <2>10, <2>13, <2>14 DEF Listing
  <2> QED
    BY <1>3, <1>6, <1>7, <2>3, <2>7, <2>15 DEF IInv, TypeOK, LobbyType, OnePlace, Requests, N
<1> QED
  BY <1>8, <1>9
-----------------------------------------------------------------------------
(* The theorems.                                                           *)

\* At first no list is made and no packet is on its way.
LEMMA InitData == Init => IInv
<1> SUFFICES ASSUME Init PROVE IInv
  OBVIOUS
<1>1. /\ lobby \in SetToSeqs(Players) /\ size \in 0..N /\ pool \in SetToSeqs(Packets)
      /\ handled = 0 /\ task = None /\ listing = None /\ queue = {} /\ completed = {}
      /\ frame = None /\ about = [k \in Packets |-> None]
  BY DEF Init, N
<1>2. /\ lobby \in [1..N -> Players]
      /\ \A i, j \in 1..N : lobby[i] = lobby[j] => i = j
  <2>1. PICK l : l = lobby
    OBVIOUS
  <2>2. l \in [1..N -> Players] /\ \A i, j \in DOMAIN l : l[i] = l[j] => i = j
    BY <1>1, <2>1, Numbers, OrderOfSet DEF N
  <2> QED
    BY <2>1, <2>2
<1>3. /\ pool \in Seq(Packets) /\ Range(pool) = Packets
      /\ \A i, j \in DOMAIN pool : pool[i] = pool[j] => i = j
  BY <1>1, Numbers, OrderOfSet
<1>4. OnceInLobby
  BY <1>1, <1>2, Numbers DEF OnceInLobby
<1>5. 0 \in 0..MaxRequests
  BY Numbers
<1> QED
  BY <1>1, <1>2, <1>3, <1>4, <1>5
  DEF IInv, TypeOK, TaskType, Listing, Told, LobbyListed, N

\* Every step keeps the invariant.
LEMMA StepData == IInv /\ [Next]_vars => IInv'
<1> SUFFICES ASSUME IInv, [Next]_vars PROVE IInv'
  OBVIOUS
<1>1. CASE UNCHANGED vars
  <2>1. UNCHANGED <<lobby, size, handled, task, listing, pool, queue, completed, frame, about>>
    BY <1>1 DEF vars, handlerVars, packetVars
  <2>2. TypeOK' /\ TaskType' /\ OnceInLobby'
    BY <2>1 DEF IInv, TypeOK, TaskType, OnceInLobby
  <2>3. Listing'
    BY <2>1 DEF IInv, Listing, Standing, PassedOver, ListingType
  <2>4. Told' /\ LobbyListed'
    BY <2>1 DEF IInv, Told, LobbyListed, FairList
  <2> QED
    BY <2>2, <2>3, <2>4 DEF IInv
<1>2. ASSUME NEW m \in DOMAIN Replies, Deserialize(m) PROVE IInv'
  BY <1>2, StepRequest
<1>3. CASE Return
  <2>1. \E m : m \in DOMAIN Replies
    BY DEF Replies
  <2> QED
    BY <1>3, <2>1, StepRequest
<1>4. CASE Answer \/ Refuse \/ PushHeartBeat
  BY <1>4, StepReply
<1>5. CASE GetPlayerCount
  BY <1>5, StepCount
<1>6. CASE ListPlayer
  BY <1>6, StepList
<1>7. CASE AnswerList
  BY <1>7, StepAnswerList
<1>8. CASE RemovePlayer
  BY <1>8, StepRemove
<1>9. CASE SendPacket \/ OnSent \/ Arrive
  BY <1>9, StepSend
<1> QED
  BY <1>1, <1>2, <1>3, <1>4, <1>5, <1>6, <1>7, <1>8, <1>9 DEF Next

\* The invariant holds in every reachable state.
THEOREM DataInvariance == Spec => []IInv
BY InitData, StepData, PTL DEF Spec

\* A packet is in the pool, in a send queue or among the completed sends in one place at
\* most, and there once: nobody writes to a packet that is still to be sent or reset.
\* Packets of players who were left out are in none of them (Network.cpp:124).
THEOREM OnePlaceAlways == Spec => []TypeOK
<1>1. IInv => TypeOK
  BY DEF IInv
<1> QED
  BY DataInvariance, <1>1, PTL

\* However many players are erased from the lobby while its list is made, nobody is listed
\* who was not there, a list that nobody disturbed is the lobby, and at most one player is
\* missing for each who was lost.
THEOREM LobbyListedAlways == Spec => []LobbyListed
<1>1. IInv => LobbyListed
  BY DEF IInv
<1> QED
  BY DataInvariance, <1>1, PTL
===============================================================================
