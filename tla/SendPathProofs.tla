--------------------------- MODULE SendPathProofs ---------------------------
(***************************************************************************)
(* A packet is in one place at a time, none is lost but those of players   *)
(* who are left out, and clients are sent what was pushed for them: proved *)
(* for every number of players, packets, producers and senders and every   *)
(* bound.  The places are told apart by a function that gives each packet  *)
(* its place; a step that moves packets is shown to be a move of it.       *)
(***************************************************************************)
EXTENDS SendPath, SequenceTheorems, FiniteSetTheorems, TLAPS

\* The kinds of place and whose they are.
Kinds == {"NEW", "POOL", "PACKAGE", "SEND", "TEMP", "COMPLETED"}
Owners == Producers \cup Players \cup Senders \cup {None}

New == <<"NEW", None>>
Pool == <<"POOL", None>>
Package(t) == <<"PACKAGE", t>>
Send(p) == <<"SEND", p>>
Temp(s) == <<"TEMP", s>>
Completed(p) == <<"COMPLETED", p>>

\* A queue of the place l holds packets of that place, each of them once.
Holds(place, q, l) ==
  /\ \A i \in 1..Len(q) : place[q[i]] = l
  /\ \A i, j \in 1..Len(q) : q[i] = q[j] => i = j

\* As Holds, of packages.
Carries(place, q, l) ==
  /\ \A i \in 1..Len(q) : place[q[i].packet] = l
  /\ \A i, j \in 1..Len(q) : q[i].packet = q[j].packet => i = j

\* Each queue holds the packets of its own place only.
InPlace(place) ==
  /\ place \in [Packets -> Kinds \X Owners]
  /\ \A k \in Packets \ allocated : place[k] = New
  /\ \A k \in pool : place[k] = Pool
  /\ \A t \in Producers : Carries(place, packages[t], Package(t))
  /\ \A p \in Players : Holds(place, sendPacketQueue[p], Send(p))
  /\ \A s \in Senders : Holds(place, tempPackets[s], Temp(s))
  /\ \A p \in Players : Holds(place, completedSendPacketQueue[p], Completed(p))

OwnPlaces == \E place \in [Packets -> Kinds \X Owners] : InPlace(place)

PackageSet == [packet : Packets, player : Players]

\* The queues are sequences.
QueueTypes ==
  /\ packages \in [Producers -> Seq(PackageSet)]
  /\ sendPacketQueue \in [Players -> Seq(Packets)]
  /\ completedSendPacketQueue \in [Players -> Seq(Packets)]
  /\ tempPackets \in [Senders -> Seq(Packets)]
  /\ todo \in [Senders -> Seq(Players)]
  /\ session \in [Senders -> Players \cup {None}]
  /\ sequentialPlayers \in [Senders -> Seq(Players)]

\* A share has players whose connection is open.
Shares ==
  \A s \in Senders : \A i \in 1..Len(sequentialPlayers[s]) :
    connection[sequentialPlayers[s][i]] = "OPEN"

\* A sender holds sent packets for the player whom it is at.
AtWork == \A s \in Senders : tempPackets[s] # <<>> => todo[s] # <<>>

\* What the theorems rest on.
IInv == TypeOK /\ QueueTypes /\ Shares /\ AtWork /\ OwnPlaces

-----------------------------------------------------------------------------
(* Moves.                                                                  *)

\* The packets of M move to the place l.
Moved(place, M, l) == [k \in Packets |-> IF k \in M THEN l ELSE place[k]]

\* A move gives each packet a place.
LEMMA MovedType ==
  ASSUME NEW place \in [Packets -> Kinds \X Owners], NEW M, NEW l \in Kinds \X Owners
  PROVE  Moved(place, M, l) \in [Packets -> Kinds \X Owners]
BY DEF Moved

\* The entries and the length of a list.
LEMMA Entries ==
  ASSUME NEW S, NEW q \in Seq(S)
  PROVE  /\ Len(q) \in Nat /\ DOMAIN q = 1..Len(q)
         /\ \A i \in 1..Len(q) : q[i] \in S
         /\ q = <<>> <=> Len(q) = 0
BY LenProperties, ElementOfSeq, EmptySeq

\* A queue whose packets do not move.
LEMMA MoveElsewhere ==
  ASSUME NEW place \in [Packets -> Kinds \X Owners], NEW q \in Seq(Packets), NEW l,
         NEW M, NEW d, Holds(place, q, l), \A k \in M : place[k] # l
  PROVE  Holds(Moved(place, M, d), q, l)
BY Entries DEF Holds, Moved

\* The same for packages.
LEMMA MoveElsewherePackages ==
  ASSUME NEW place \in [Packets -> Kinds \X Owners], NEW q \in Seq(PackageSet), NEW l,
         NEW M, NEW d, Carries(place, q, l), \A k \in M : place[k] # l
  PROVE  Carries(Moved(place, M, d), q, l)
<1>1. \A i \in 1..Len(q) : q[i] \in PackageSet
  BY Entries
<1>2. \A i \in 1..Len(q) : q[i].packet \in Packets
  BY <1>1 DEF PackageSet
<1> QED
  BY <1>2 DEF Carries, Moved

\* A packet that is pushed at the end.
LEMMA MoveToEnd ==
  ASSUME NEW place \in [Packets -> Kinds \X Owners], NEW q \in Seq(Packets), NEW l,
         NEW k \in Packets, Holds(place, q, l), place[k] # l
  PROVE  Holds(Moved(place, {k}, l), Append(q, k), l)
<1> DEFINE r == Append(q, k)
           n == Len(q)
<1>1. /\ n \in Nat /\ Len(r) = n + 1 /\ r[n + 1] = k
      /\ \A i \in 1..n : r[i] = q[i] /\ q[i] \in Packets
  BY Entries, AppendProperties
<1>2. \A i \in 1..n : place[q[i]] = l /\ q[i] # k
  BY DEF Holds
<1>3. \A i, j \in 1..n : q[i] = q[j] => i = j
  BY DEF Holds
<1> HIDE DEF r, n
<1>4. \A i \in 1..Len(r) : i = n + 1 \/ i \in 1..n
  BY <1>1
<1>5. \A i \in 1..Len(r) : Moved(place, {k}, l)[r[i]] = l
  BY <1>1, <1>2, <1>4 DEF Moved
<1>6. \A i, j \in 1..Len(r) : r[i] = r[j] => i = j
  BY <1>1, <1>2, <1>3, <1>4
<1> QED
  BY <1>5, <1>6 DEF Holds, r

\* The same for packages.
LEMMA MoveToEndPackages ==
  ASSUME NEW place \in [Packets -> Kinds \X Owners], NEW q \in Seq(PackageSet), NEW l,
         NEW g \in PackageSet, Carries(place, q, l), place[g.packet] # l
  PROVE  Carries(Moved(place, {g.packet}, l), Append(q, g), l)
<1> DEFINE r == Append(q, g)
           n == Len(q)
           k == g.packet
<1>1. /\ n \in Nat /\ Len(r) = n + 1 /\ r[n + 1] = g
      /\ \A i \in 1..n : r[i] = q[i] /\ q[i].packet \in Packets
  <2>1. /\ n \in Nat /\ Len(r) = n + 1 /\ r[n + 1] = g
        /\ \A i \in 1..n : r[i] = q[i] /\ q[i] \in PackageSet
    BY Entries, AppendProperties
  <2> QED
    BY <2>1 DEF PackageSet
<1>2. \A i \in 1..n : place[q[i].packet] = l /\ q[i].packet # k
  BY DEF Carries
<1>3. \A i, j \in 1..n : q[i].packet = q[j].packet => i = j
  BY DEF Carries
<1>4. k \in Packets
  BY DEF PackageSet
<1> HIDE DEF r, n
<1>5. \A i \in 1..Len(r) : i = n + 1 \/ i \in 1..n
  BY <1>1
<1>6. \A i \in 1..Len(r) : Moved(place, {k}, l)[r[i].packet] = l
  BY <1>1, <1>2, <1>4, <1>5 DEF Moved
<1>7. \A i, j \in 1..Len(r) : r[i].packet = r[j].packet => i = j
  BY <1>1, <1>2, <1>3, <1>5
<1> QED
  BY <1>6, <1>7 DEF Carries, r

\* Some first packets are taken out, and move or not.
LEMMA MoveFirst ==
  ASSUME NEW place \in [Packets -> Kinds \X Owners], NEW q \in Seq(Packets), NEW l,
         NEW n \in 0..Len(q), NEW d, Holds(place, q, l)
  PROVE  /\ Holds(Moved(place, {q[i] : i \in 1..n}, d), SubSeq(q, n + 1, Len(q)), l)
         /\ SubSeq(q, n + 1, Len(q)) \in Seq(Packets)
<1> DEFINE r == SubSeq(q, n + 1, Len(q))
           m == Len(q)
           M == {q[i] : i \in 1..n}
<1>1. m \in Nat /\ n \in Nat /\ n <= m /\ \A i \in 1..m : q[i] \in Packets
  BY Entries
<1>2. /\ r \in Seq(Packets) /\ Len(r) = m - n
      /\ \A i \in 1..(m - n) : r[i] = q[n + i]
  <2>1. n + 1 \in Int /\ m \in Int /\ \A i \in (n + 1)..m : q[i] \in Packets
    BY <1>1
  <2>2. /\ r \in Seq(Packets) /\ Len(r) = IF n + 1 <= m THEN m - (n + 1) + 1 ELSE 0
        /\ \A i \in 1..(m - (n + 1) + 1) : r[i] = q[(n + 1) + i - 1]
    BY <2>1, SubSeqProperties
  <2> HIDE DEF m, r
  <2> QED
    BY <2>2, <1>1
<1>3. \A i, j \in 1..m : q[i] = q[j] => i = j
  BY DEF Holds
<1>4. \A i \in 1..m : place[q[i]] = l
  BY DEF Holds
<1> HIDE DEF r, m
<1>5. ASSUME NEW i \in 1..Len(r) PROVE r[i] = q[n + i] /\ n + i \in 1..m /\ r[i] \notin M
  <2>1. n + i \in 1..m /\ n + i \notin 1..n /\ i \in 1..(m - n)
    BY <1>1, <1>2
  <2>2. 1..n \subseteq 1..m
    BY <1>1
  <2> QED
    BY <2>1, <2>2, <1>2, <1>3
<1> HIDE DEF M
<1>6. \A i \in 1..Len(r) : Moved(place, M, d)[r[i]] = l
  BY <1>1, <1>4, <1>5 DEF Moved
<1>7. ASSUME NEW i \in 1..Len(r), NEW j \in 1..Len(r), r[i] = r[j] PROVE i = j
  <2>1. n + i = n + j
    BY <1>3, <1>5, <1>7
  <2> QED
    BY <2>1, <1>1, <1>2
<1> QED
  BY <1>2, <1>6, <1>7 DEF Holds, r, m, M

\* All packets of a queue go behind those of another.
LEMMA MoveBehind ==
  ASSUME NEW place \in [Packets -> Kinds \X Owners], NEW q \in Seq(Packets), NEW l,
         NEW r \in Seq(Packets), NEW d, Holds(place, q, l), Holds(place, r, d), l # d
  PROVE  Holds(Moved(place, Range(r), l), q \o r, l)
<1> DEFINE t == q \o r
           n == Len(q)
           m == Len(r)
<1>1. /\ n \in Nat /\ m \in Nat /\ Len(t) = n + m
      /\ \A i \in 1..n + m : t[i] = IF i <= n THEN q[i] ELSE r[i - n]
      /\ \A i \in 1..n : q[i] \in Packets
      /\ \A i \in 1..m : r[i] \in Packets /\ r[i] \in Range(r)
  BY Entries, ConcatProperties DEF Range
<1>2. /\ \A i \in 1..n : place[q[i]] = l
      /\ \A i \in 1..m : place[r[i]] = d
      /\ \A i, j \in 1..n : q[i] = q[j] => i = j
      /\ \A i, j \in 1..m : r[i] = r[j] => i = j
  BY DEF Holds
<1>3. \A i \in 1..n : q[i] \notin Range(r)
  BY <1>2, Entries DEF Range
<1> HIDE DEF t, n, m
<1>4. \A i \in 1..Len(t) : \/ i \in 1..n /\ t[i] = q[i]
                           \/ i - n \in 1..m /\ ~(i <= n) /\ t[i] = r[i - n]
  BY <1>1
<1>5. \A i \in 1..Len(t) : Moved(place, Range(r), l)[t[i]] = l
  BY <1>1, <1>2, <1>4 DEF Moved
<1>6. ASSUME NEW i \in 1..Len(t), NEW j \in 1..Len(t), t[i] = t[j] PROVE i = j
  <2>1. i \in Int /\ j \in Int
    OBVIOUS
  <2>2. CASE i \in 1..n /\ j \in 1..n
    BY <2>2, <1>2, <1>4, <1>6, <1>1
  <2>3. CASE ~(i <= n) /\ ~(j <= n)
    <3>1. i - n \in 1..m /\ j - n \in 1..m /\ r[i - n] = r[j - n]
      BY <2>3, <1>1, <1>4, <1>6
    <3>2. i - n = j - n
      BY <3>1, <1>2
    <3> QED
      BY <3>2, <2>1, <1>1
  <2>4. CASE i \in 1..n /\ ~(j <= n)
    BY <2>4, <1>1, <1>2, <1>4, <1>6
  <2>5. CASE ~(i <= n) /\ j \in 1..n
    BY <2>5, <1>1, <1>2, <1>4, <1>6
  <2> QED
    BY <2>1, <2>2, <2>3, <2>4, <2>5, <1>1
<1> QED
  BY <1>5, <1>6 DEF Holds, t

\* The first packet is taken out, and moves or not.
LEMMA MoveHead ==
  ASSUME NEW place \in [Packets -> Kinds \X Owners], NEW q \in Seq(Packets), NEW l,
         NEW d, Holds(place, q, l), q # <<>>
  PROVE  /\ Head(q) \in Packets /\ place[Head(q)] = l
         /\ Holds(Moved(place, {Head(q)}, d), Tail(q), l)
<1>1. /\ Head(q) = q[1] /\ 1 \in 0..Len(q) /\ 1 \in 1..Len(q)
      /\ q[1] \in Packets
  BY Entries
<1>2. Tail(q) = SubSeq(q, 1 + 1, Len(q))
  BY TailIsSubSeq
<1>3. {q[i] : i \in 1..1} = {Head(q)}
  BY <1>1
<1>4. place[q[1]] = l
  BY <1>1 DEF Holds
<1>5. Holds(Moved(place, {q[i] : i \in 1..1}, d), SubSeq(q, 1 + 1, Len(q)), l)
  BY <1>1, MoveFirst
<1> QED
  BY <1>1, <1>2, <1>3, <1>4, <1>5

\* The same for packages.
LEMMA MoveHeadPackages ==
  ASSUME NEW place \in [Packets -> Kinds \X Owners], NEW q \in Seq(PackageSet), NEW l,
         NEW d, Carries(place, q, l), q # <<>>
  PROVE  /\ Head(q) \in PackageSet /\ place[Head(q).packet] = l
         /\ Carries(place, Tail(q), l)
         /\ Carries(Moved(place, {Head(q).packet}, d), Tail(q), l)
<1> DEFINE r == Tail(q)
           n == Len(q)
           g == Head(q)
<1>1. /\ n \in Nat /\ n # 0 /\ Len(r) = n - 1 /\ g = q[1]
      /\ \A i \in 1..Len(r) : r[i] = q[i + 1]
      /\ \A i \in 1..n : q[i] \in PackageSet
  BY Entries, HeadTailProperties
<1>2. /\ \A i \in 1..n : place[q[i].packet] = l
      /\ \A i, j \in 1..n : q[i].packet = q[j].packet => i = j
  BY DEF Carries
<1> HIDE DEF r, n, g
<1>3. 1 \in 1..n /\ \A i \in 1..Len(r) : i + 1 \in 1..n /\ i + 1 # 1
  BY <1>1
<1>4. \A i \in 1..n : q[i].packet \in Packets
  BY <1>1 DEF PackageSet
<1>5. Carries(place, r, l)
  <2>1. \A i \in 1..Len(r) : place[r[i].packet] = l
    BY <1>1, <1>2, <1>3
  <2>2. ASSUME NEW i \in 1..Len(r), NEW j \in 1..Len(r), r[i].packet = r[j].packet
        PROVE  i = j
    <3>1. i + 1 = j + 1
      BY <1>1, <1>2, <1>3, <2>2
    <3> QED
      BY <3>1, <1>1
  <2> QED
    BY <2>1, <2>2 DEF Carries
<1>6. \A i \in 1..Len(r) : r[i].packet \in Packets /\ r[i].packet # g.packet
  BY <1>1, <1>2, <1>3, <1>4
<1>7. Carries(Moved(place, {g.packet}, d), r, l)
  BY <1>5, <1>6 DEF Carries, Moved
<1> QED
  BY <1>1, <1>2, <1>3, <1>5, <1>7 DEF g, r

-----------------------------------------------------------------------------
(* What a move from the place l to the place d leaves alone.               *)

\* Places of different kinds, or of different owners, are different.
LEMMA Labels ==
  /\ New \in Kinds \X Owners /\ Pool \in Kinds \X Owners
  /\ \A t \in Producers : Package(t) \in Kinds \X Owners
  /\ \A p \in Players : Send(p) \in Kinds \X Owners /\ Completed(p) \in Kinds \X Owners
  /\ \A s \in Senders : Temp(s) \in Kinds \X Owners
  /\ New # Pool
  /\ \A x : /\ New # Package(x) /\ New # Send(x) /\ New # Temp(x) /\ New # Completed(x)
            /\ Pool # Package(x) /\ Pool # Send(x) /\ Pool # Temp(x) /\ Pool # Completed(x)
  /\ \A x, y :
       /\ Package(x) # Send(y) /\ Package(x) # Temp(y) /\ Package(x) # Completed(y)
       /\ Send(x) # Temp(y) /\ Send(x) # Completed(y) /\ Temp(x) # Completed(y)
       /\ x # y => /\ Package(x) # Package(y) /\ Send(x) # Send(y)
                   /\ Temp(x) # Temp(y) /\ Completed(x) # Completed(y)
BY DEF New, Pool, Package, Send, Temp, Completed, Kinds, Owners

\* The queues of all places but l, and the pool, still agree with the places.
Untouched(next, l) ==
  /\ l # New => \A k \in Packets \ allocated : next[k] = New
  /\ l # Pool => \A k \in pool : next[k] = Pool
  /\ \A t \in Producers : l # Package(t) => Carries(next, packages[t], Package(t))
  /\ \A p \in Players : l # Send(p) => Holds(next, sendPacketQueue[p], Send(p))
  /\ \A s \in Senders : l # Temp(s) => Holds(next, tempPackets[s], Temp(s))
  /\ \A p \in Players :
       l # Completed(p) => Holds(next, completedSendPacketQueue[p], Completed(p))

\* A move out of the place l leaves the queues of all other places as they are.
LEMMA Frame ==
  ASSUME QueueTypes, pool \subseteq allocated, allocated \subseteq Packets,
         NEW place, InPlace(place), NEW M, NEW l, NEW d, \A k \in M : place[k] = l
  PROVE  Untouched(Moved(place, M, d), l)
<1> USE DEF InPlace, QueueTypes
<1>1. place \in [Packets -> Kinds \X Owners]
  OBVIOUS
<1>2. l # New => \A k \in Packets \ allocated : Moved(place, M, d)[k] = New
  BY DEF Moved
<1>3. l # Pool => \A k \in pool : Moved(place, M, d)[k] = Pool
  BY DEF Moved
<1>4. ASSUME NEW t \in Producers, l # Package(t)
      PROVE  Carries(Moved(place, M, d), packages[t], Package(t))
  <2>1. packages[t] \in Seq(PackageSet) /\ Carries(place, packages[t], Package(t))
    OBVIOUS
  <2> QED
    BY <1>1, <1>4, <2>1, MoveElsewherePackages
<1>5. ASSUME NEW p \in Players, l # Send(p)
      PROVE  Holds(Moved(place, M, d), sendPacketQueue[p], Send(p))
  <2>1. sendPacketQueue[p] \in Seq(Packets) /\ Holds(place, sendPacketQueue[p], Send(p))
    OBVIOUS
  <2> QED
    BY <1>1, <1>5, <2>1, MoveElsewhere
<1>6. ASSUME NEW s \in Senders, l # Temp(s)
      PROVE  Holds(Moved(place, M, d), tempPackets[s], Temp(s))
  <2>1. tempPackets[s] \in Seq(Packets) /\ Holds(place, tempPackets[s], Temp(s))
    OBVIOUS
  <2> QED
    BY <1>1, <1>6, <2>1, MoveElsewhere
<1>7. ASSUME NEW p \in Players, l # Completed(p)
      PROVE  Holds(Moved(place, M, d), completedSendPacketQueue[p], Completed(p))
  <2>1. /\ completedSendPacketQueue[p] \in Seq(Packets)
        /\ Holds(place, completedSendPacketQueue[p], Completed(p))
    OBVIOUS
  <2> QED
    BY <1>1, <1>7, <2>1, MoveElsewhere
<1> QED
  BY <1>2, <1>3, <1>4, <1>5, <1>6, <1>7 DEF Untouched

-----------------------------------------------------------------------------
(* Each step is a move.                                                    *)

\* At first each packet is in the pool or not allocated.
LEMMA PlacesInit ==
  ASSUME Init
  PROVE  OwnPlaces
<1> DEFINE place == [k \in Packets |-> IF k \in pool THEN Pool ELSE New]
<1>1. place \in [Packets -> Kinds \X Owners]
  BY Labels
<1>2. pool \subseteq Packets /\ allocated = pool
  BY DEF Init, kSubset
<1>3. /\ \A t \in Producers : packages[t] = <<>>
      /\ \A p \in Players : sendPacketQueue[p] = <<>> /\ completedSendPacketQueue[p] = <<>>
      /\ \A s \in Senders : tempPackets[s] = <<>>
  BY DEF Init
<1>4. /\ \A k \in Packets \ allocated : place[k] = New
      /\ \A k \in pool : place[k] = Pool
  BY <1>2
<1> HIDE DEF place
<1>5. \A l : Carries(place, <<>>, l) /\ Holds(place, <<>>, l)
  BY DEF Carries, Holds
<1>6. InPlace(place)
  BY <1>1, <1>3, <1>4, <1>5 DEF InPlace
<1> QED
  BY <1>1, <1>6 DEF OwnPlaces

\* Steps that pass no packet on.
LEMMA PlacesSame ==
  ASSUME OwnPlaces, UNCHANGED <<pool, allocated, packages, sendPacketQueue, tempPackets,
                                completedSendPacketQueue>>
  PROVE  OwnPlaces'
BY DEF OwnPlaces, InPlace, Carries, Holds

\* A package's packet goes to the queue of its player's session, or nowhere.
LEMMA PlacesBroadCastPacket ==
  ASSUME QueueTypes, pool \subseteq allocated, allocated \subseteq Packets, OwnPlaces,
         NEW t \in Producers, BroadCastPacket(t)
  PROVE  OwnPlaces'
<1>1. PICK place \in [Packets -> Kinds \X Owners] : InPlace(place)
  BY DEF OwnPlaces
<1>2. PICK g : g = Head(packages[t])
  OBVIOUS
<1>3. /\ packages[t] \in Seq(PackageSet) /\ packages[t] # <<>>
      /\ Carries(place, packages[t], Package(t))
  BY <1>1 DEF QueueTypes, InPlace, BroadCastPacket
<1>4. /\ g \in PackageSet /\ place[g.packet] = Package(t)
      /\ Carries(place, Tail(packages[t]), Package(t))
      /\ \A d : Carries(Moved(place, {g.packet}, d), Tail(packages[t]), Package(t))
  BY <1>2, <1>3, MoveHeadPackages
<1>5. g.packet \in Packets /\ g.player \in Players
  BY <1>4 DEF PackageSet
<1>6. /\ UNCHANGED <<pool, allocated, tempPackets, completedSendPacketQueue>>
      /\ packages' = [packages EXCEPT ![t] = Tail(@)]
      /\ \/ UNCHANGED sendPacketQueue
         \/ sendPacketQueue' =
              [sendPacketQueue EXCEPT ![g.player] = Append(@, g.packet)]
  BY <1>2 DEF BroadCastPacket, senderVars
<1>7. \A u \in Producers : packages'[u] = IF u = t THEN Tail(packages[t]) ELSE packages[u]
  BY <1>6 DEF QueueTypes
<1>8. CASE UNCHANGED sendPacketQueue
  <2>1. \A u \in Producers : Carries(place, packages'[u], Package(u))
    BY <1>1, <1>4, <1>7 DEF InPlace
  <2>2. InPlace(place)'
    BY <1>1, <1>6, <1>8, <2>1 DEF InPlace
  <2> QED
    BY <2>2 DEF OwnPlaces
<1>9. CASE sendPacketQueue' = [sendPacketQueue EXCEPT ![g.player] = Append(@, g.packet)]
  <2> DEFINE next == Moved(place, {g.packet}, Send(g.player))
  <2>1. next \in [Packets -> Kinds \X Owners]
    BY <1>5, MovedType, Labels
  <2>2. \A k \in {g.packet} : place[k] = Package(t)
    BY <1>4
  <2>3. /\ \A k \in Packets \ allocated : next[k] = New
        /\ \A k \in pool : next[k] = Pool
        /\ \A u \in Producers : u # t => Carries(next, packages[u], Package(u))
        /\ \A p \in Players : Holds(next, sendPacketQueue[p], Send(p))
        /\ \A s \in Senders : Holds(next, tempPackets[s], Temp(s))
        /\ \A p \in Players : Holds(next, completedSendPacketQueue[p], Completed(p))
    <3>1. Untouched(next, Package(t))
      BY <1>1, <2>2, Frame
    <3> HIDE DEF next
    <3> QED
      BY <3>1, Labels DEF Untouched
  <2>4. Holds(next, Append(sendPacketQueue[g.player], g.packet), Send(g.player))
    <3>1. /\ sendPacketQueue[g.player] \in Seq(Packets)
          /\ Holds(place, sendPacketQueue[g.player], Send(g.player))
      BY <1>1, <1>5 DEF QueueTypes, InPlace
    <3>2. place[g.packet] # Send(g.player)
      BY <1>4, Labels
    <3> QED
      BY <3>1, <3>2, <1>5, MoveToEnd
  <2>5. Carries(next, Tail(packages[t]), Package(t))
    BY <1>4
  <2> HIDE DEF next
  <2>6. \A u \in Producers : Carries(next, packages'[u], Package(u))
    BY <1>7, <2>3, <2>5
  <2>7. \A p \in Players : Holds(next, sendPacketQueue'[p], Send(p))
    <3>1. \A p \in Players : sendPacketQueue'[p] =
            IF p = g.player THEN Append(sendPacketQueue[g.player], g.packet)
            ELSE sendPacketQueue[p]
      BY <1>9 DEF QueueTypes
    <3> QED
      BY <3>1, <2>3, <2>4
  <2>8. next \in [Packets -> Kinds \X Owners] /\ InPlace(next)'
    BY <1>6, <2>1, <2>3, <2>6, <2>7 DEF InPlace
  <2> QED
    BY <2>8 DEF OwnPlaces
<1> QED
  BY <1>6, <1>8, <1>9

\* The first packet of the queue goes to the sender's list.
LEMMA PlacesSendPacket ==
  ASSUME QueueTypes, pool \subseteq allocated, allocated \subseteq Packets, OwnPlaces,
         NEW s \in Senders, SendPacket(s)
  PROVE  OwnPlaces'
<1>1. PICK place \in [Packets -> Kinds \X Owners] : InPlace(place)
  BY DEF OwnPlaces
<1>2. PICK p \in Players : p = session[s]
  BY DEF SendPacket, QueueTypes
<1>3. sendPacketQueue[p] \in Seq(Packets) /\ tempPackets[s] \in Seq(Packets)
  BY DEF QueueTypes
<1>4. sendPacketQueue[p] # <<>>
  <2>1. Len(tempPackets[s]) < Len(sendPacketQueue[p])
    BY <1>2 DEF SendPacket, MoreToSend
  <2> QED
    BY <2>1, <1>3, Entries
<1>5. PICK k : k = Head(sendPacketQueue[p])
  OBVIOUS
<1>6. Holds(place, sendPacketQueue[p], Send(p)) /\ Holds(place, tempPackets[s], Temp(s))
  BY <1>1 DEF InPlace
<1> DEFINE next == Moved(place, {k}, Temp(s))
<1>7. /\ k \in Packets /\ place[k] = Send(p)
      /\ Holds(next, Tail(sendPacketQueue[p]), Send(p))
  BY <1>3, <1>4, <1>5, <1>6, MoveHead
<1>8. Holds(next, Append(tempPackets[s], k), Temp(s))
  <2>1. place[k] # Temp(s)
    BY <1>7, Labels
  <2> QED
    BY <2>1, <1>3, <1>6, <1>7, MoveToEnd
<1>9. next \in [Packets -> Kinds \X Owners]
  BY MovedType, Labels
<1>10. Untouched(next, Send(p))
  BY <1>1, <1>7, Frame
<1> HIDE DEF next
<1>11. /\ UNCHANGED <<pool, allocated, packages, completedSendPacketQueue>>
       /\ \A q \in Players : sendPacketQueue'[q] =
            IF q = p THEN Tail(sendPacketQueue[p]) ELSE sendPacketQueue[q]
       /\ \A u \in Senders : tempPackets'[u] =
            IF u = s THEN Append(tempPackets[s], k) ELSE tempPackets[u]
  BY <1>2, <1>5 DEF SendPacket, poolVars, QueueTypes
<1>12. \A q \in Players : Holds(next, sendPacketQueue'[q], Send(q))
  BY <1>7, <1>10, <1>11, Labels DEF Untouched
<1>13. \A u \in Senders : Holds(next, tempPackets'[u], Temp(u))
  BY <1>8, <1>10, <1>11, Labels DEF Untouched
<1>14. InPlace(next)'
  BY <1>9, <1>10, <1>11, <1>12, <1>13, Labels DEF InPlace, Untouched
<1> QED
  BY <1>9, <1>14 DEF OwnPlaces

\* The sender's list goes behind the second queue.
LEMMA PlacesPushCompleted ==
  ASSUME QueueTypes, pool \subseteq allocated, allocated \subseteq Packets, OwnPlaces,
         AtWork, NEW s \in Senders, PushCompleted(s)
  PROVE  OwnPlaces'
<1>1. PICK place \in [Packets -> Kinds \X Owners] : InPlace(place)
  BY DEF OwnPlaces
<1>2. todo[s] \in Seq(Players) /\ todo[s] # <<>>
  BY DEF PushCompleted, QueueTypes, AtWork
<1>3. PICK p \in Players : p = Head(todo[s])
  BY <1>2, HeadTailProperties
<1>4. PICK r \in Seq(Packets) : r = tempPackets[s]
  BY DEF QueueTypes
<1>5. completedSendPacketQueue[p] \in Seq(Packets)
  BY DEF QueueTypes
<1>6. /\ Holds(place, completedSendPacketQueue[p], Completed(p))
      /\ Holds(place, r, Temp(s))
  BY <1>1, <1>4 DEF InPlace
<1> DEFINE next == Moved(place, Range(r), Completed(p))
<1>7. Holds(next, completedSendPacketQueue[p] \o r, Completed(p))
  BY <1>5, <1>6, Labels, MoveBehind
<1>8. next \in [Packets -> Kinds \X Owners]
  BY MovedType, Labels
<1>9. Untouched(next, Temp(s))
  <2>1. \A k \in Range(r) : place[k] = Temp(s)
    BY <1>6, Entries DEF Holds, Range
  <2> QED
    BY <1>1, <2>1, Frame
<1> HIDE DEF next
<1>10. Holds(next, <<>>, Temp(s))
  BY DEF Holds
<1>11. /\ UNCHANGED <<pool, allocated, packages, sendPacketQueue>>
       /\ \A q \in Players : completedSendPacketQueue'[q] =
            IF q = p THEN completedSendPacketQueue[p] \o r ELSE completedSendPacketQueue[q]
       /\ \A u \in Senders : tempPackets'[u] = IF u = s THEN <<>> ELSE tempPackets[u]
  BY <1>3, <1>4 DEF PushCompleted, poolVars, QueueTypes
<1>12. \A q \in Players : Holds(next, completedSendPacketQueue'[q], Completed(q))
  BY <1>7, <1>9, <1>11, Labels DEF Untouched
<1>13. \A u \in Senders : Holds(next, tempPackets'[u], Temp(u))
  BY <1>9, <1>10, <1>11, Labels DEF Untouched
<1>14. InPlace(next)'
  BY <1>8, <1>9, <1>11, <1>12, <1>13, Labels DEF InPlace, Untouched
<1> QED
  BY <1>8, <1>14 DEF OwnPlaces

\* How many packets OnSent returns.
LEMMA ReturnedBounds ==
  ASSUME NEW n \in Nat
  PROVE  Returned(n) \in 0..n
BY DEF Returned

\* The first packets of the second queue go to the pool.
LEMMA PlacesOnSent ==
  ASSUME QueueTypes, pool \subseteq allocated, allocated \subseteq Packets, OwnPlaces,
         NEW p \in Players, OnSent(p)
  PROVE  OwnPlaces' /\ pool' \subseteq allocated'
<1>1. PICK place \in [Packets -> Kinds \X Owners] : InPlace(place)
  BY DEF OwnPlaces
<1>2. PICK q \in Seq(Packets) : q = completedSendPacketQueue[p]
  BY DEF QueueTypes
<1>3. PICK n \in 0..Len(q) : n = Returned(Len(q))
  BY Entries, ReturnedBounds
<1>4. PICK M : M = {q[i] : i \in 1..n}
  OBVIOUS
<1>5. Holds(place, q, Completed(p))
  BY <1>1, <1>2 DEF InPlace
<1> DEFINE next == Moved(place, M, Pool)
<1>6. Holds(next, SubSeq(q, n + 1, Len(q)), Completed(p))
  BY <1>4, <1>5, MoveFirst
<1>7. next \in [Packets -> Kinds \X Owners]
  BY MovedType, Labels
<1>8. M \subseteq Packets /\ \A k \in M : place[k] = Completed(p)
  <2>1. 1..n \subseteq 1..Len(q)
    BY Entries
  <2> QED
    BY <2>1, <1>4, <1>5, Entries DEF Holds
<1>9. Untouched(next, Completed(p))
  BY <1>1, <1>8, Frame
<1>10. M \subseteq allocated
  BY <1>1, <1>8, Labels DEF InPlace
<1>11. \A k \in M : next[k] = Pool
  BY <1>8 DEF Moved
<1> HIDE DEF next
<1>12. /\ UNCHANGED <<allocated, packages, sendPacketQueue, tempPackets>>
       /\ pool' = pool \cup M
       /\ \A r \in Players : completedSendPacketQueue'[r] =
            IF r = p THEN SubSeq(q, n + 1, Len(q)) ELSE completedSendPacketQueue[r]
  BY <1>2, <1>3, <1>4 DEF OnSent, senderVars, QueueTypes
<1>13. \A r \in Players : Holds(next, completedSendPacketQueue'[r], Completed(r))
  BY <1>6, <1>9, <1>12, Labels DEF Untouched
<1>14. InPlace(next)'
  BY <1>7, <1>9, <1>11, <1>12, <1>13, Labels DEF InPlace, Untouched
<1> QED
  BY <1>7, <1>10, <1>12, <1>14 DEF OwnPlaces

\* What Pop adds to the pool was not allocated before.
LEMMA AddedNew ==
  ASSUME NEW new \in Added
  PROVE  new \subseteq Packets \ allocated
BY DEF Added, kSubset

\* A packet goes from the pool, which may have grown, to a package.
LEMMA PlacesPopPacket ==
  ASSUME QueueTypes, pool \subseteq allocated, allocated \subseteq Packets, OwnPlaces,
         NEW t \in Producers, NEW p \in Players, NEW m \in Messages, PopPacket(t, p, m)
  PROVE  /\ OwnPlaces' /\ pool' \subseteq allocated' /\ allocated' \subseteq Packets
         /\ \E k \in Packets : content' = [content EXCEPT ![k] = m]
<1>1. PICK place \in [Packets -> Kinds \X Owners] : InPlace(place)
  BY DEF OwnPlaces
<1> DEFINE Taken(new, k) ==
             /\ pool' = (pool \cup new) \ {k}
             /\ allocated' = allocated \cup new
             /\ content' = [content EXCEPT ![k] = m]
             /\ packages' = [packages EXCEPT ![t] = Append(@, [packet |-> k, player |-> p])]
<1>0. PICK new \in Added : \E k \in pool \cup new : Taken(new, k)
  BY DEF PopPacket, Popped
<1>2. PICK k \in pool \cup new : Taken(new, k)
  BY <1>0
<1>3. new \subseteq Packets \ allocated /\ k \in Packets
  BY <1>2, AddedNew
<1>4. PICK g \in PackageSet : g = [packet |-> k, player |-> p] /\ g.packet = k
  <2>1. [packet |-> k, player |-> p] \in PackageSet
    BY <1>3 DEF PackageSet
  <2> QED
    BY <2>1
<1> DEFINE filled == Moved(place, new, Pool)
           next == Moved(filled, {k}, Package(t))
<1>5. filled \in [Packets -> Kinds \X Owners] /\ next \in [Packets -> Kinds \X Owners]
  BY MovedType, Labels
<1>6. Untouched(filled, New)
  <2>1. \A j \in new : place[j] = New
    BY <1>1, <1>3 DEF InPlace
  <2> QED
    BY <1>1, <2>1, Frame
<1>7. /\ \A j \in Packets \ allocated' : filled[j] = New
      /\ \A j \in pool \cup new : filled[j] = Pool
  BY <1>1, <1>2, <1>3 DEF InPlace, Moved
<1> HIDE DEF filled
<1>8. filled[k] = Pool
  BY <1>7
<1>9. ASSUME NEW u \in Producers
      PROVE  /\ Carries(next, packages[u], Package(u))
             /\ u = t => Carries(next, Append(packages[t], g), Package(t))
  <2>1. packages[u] \in Seq(PackageSet) /\ Carries(filled, packages[u], Package(u))
    BY <1>6, Labels DEF Untouched, QueueTypes
  <2>2. \A j \in {k} : filled[j] # Package(u)
    BY <1>8, Labels
  <2>3. Carries(next, packages[u], Package(u))
    BY <1>5, <2>1, <2>2, MoveElsewherePackages
  <2>4. u = t => Carries(Moved(filled, {g.packet}, Package(t)), Append(packages[t], g),
                         Package(t))
    BY <1>4, <1>5, <2>1, <2>2, MoveToEndPackages
  <2> QED
    BY <1>4, <2>3, <2>4
<1>10. ASSUME NEW q \in Seq(Packets), NEW l, Holds(filled, q, l), l # Pool
       PROVE  Holds(next, q, l)
  BY <1>5, <1>8, <1>10, MoveElsewhere
<1>11. /\ \A j \in Packets \ allocated' : next[j] = New
       /\ \A j \in pool' : next[j] = Pool
  <2>1. k \in allocated' /\ pool' \subseteq Packets
    BY <1>2, <1>3
  <2> QED
    BY <1>2, <1>7, <2>1 DEF Moved
<1> HIDE DEF next
<1>12. /\ UNCHANGED <<sendPacketQueue, tempPackets, completedSendPacketQueue>>
       /\ \A u \in Producers :
            packages'[u] = IF u = t THEN Append(packages[t], g) ELSE packages[u]
  BY <1>2, <1>4 DEF PopPacket, senderVars, QueueTypes
<1>13. /\ \A r \in Players : Holds(next, sendPacketQueue'[r], Send(r))
       /\ \A s \in Senders : Holds(next, tempPackets'[s], Temp(s))
       /\ \A r \in Players : Holds(next, completedSendPacketQueue'[r], Completed(r))
  BY <1>6, <1>10, <1>12, Labels DEF Untouched, QueueTypes
<1>14. \A u \in Producers : Carries(next, packages'[u], Package(u))
  BY <1>9, <1>12
<1>15. InPlace(next)'
  BY <1>5, <1>11, <1>13, <1>14 DEF InPlace
<1> QED
  BY <1>2, <1>3, <1>5, <1>15 DEF OwnPlaces

-----------------------------------------------------------------------------
(* Queues and their lengths.                                               *)

\* The bounded sequences of the type invariant are the short ones among all.
LEMMA Bounded ==
  ASSUME NEW S, NEW n \in Nat, NEW q
  PROVE  q \in BoundedSeq(S, n) <=> q \in Seq(S) /\ Len(q) <= n
<1>1. ASSUME q \in BoundedSeq(S, n) PROVE q \in Seq(S) /\ Len(q) <= n
  <2>1. PICK m \in 0..n : q \in [1..m -> S]
    BY <1>1 DEF BoundedSeq, SeqOf
  <2>2. q \in Seq(S) /\ Len(q) = m
    BY <2>1
  <2> QED
    BY <2>2
<1>2. ASSUME q \in Seq(S), Len(q) <= n PROVE q \in BoundedSeq(S, n)
  <2>1. q \in [1..Len(q) -> S] /\ Len(q) \in 0..n
    BY <1>2, LenProperties
  <2> QED
    BY <2>1 DEF BoundedSeq, SeqOf
<1> QED
  BY <1>1, <1>2

\* The erasing loop takes p out of a share and changes no order.
LEMMA ErasedShare ==
  ASSUME NEW share \in Seq(Players), IsInjective(share), NEW p \in Players
  PROVE  /\ Erased(share, p) \in Seq(Players) /\ IsInjective(Erased(share, p))
         /\ \A i \in 1..Len(Erased(share, p)) :
              /\ Erased(share, p)[i] # p
              /\ \E j \in 1..Len(share) : Erased(share, p)[i] = share[j]
<1>1. CASE p \notin Range(share)
  <2>1. Erased(share, p) = share
    BY <1>1 DEF Erased
  <2>2. \A i \in 1..Len(share) : share[i] # p
    BY <1>1, Entries DEF Range
  <2> QED
    BY <2>1, <2>2
<1>2. CASE p \in Range(share)
  <2> DEFINE x == CHOOSE i \in DOMAIN share : share[i] = p
             n == Len(share)
             before == SubSeq(share, 1, x - 1)
             after == SubSeq(share, x + 1, n)
             r == before \o after
  <2>1. x \in 1..n /\ share[x] = p /\ n \in Nat
    BY <1>2, Entries DEF Range
  <2>2. \A i, j \in 1..n : share[i] = share[j] => i = j
    BY Entries DEF IsInjective
  <2>3. \A i \in 1..n : share[i] \in Players
    BY Entries
  <2> HIDE DEF x, n
  <2>4. /\ before \in Seq(Players) /\ Len(before) = x - 1
        /\ \A i \in 1..(x - 1) : before[i] = share[i]
    <3>1. /\ 1 \in Int /\ x - 1 \in Int
          /\ \A i \in 1..(x - 1) : share[i] \in Players
      BY <2>1, <2>3
    <3>2. /\ before \in Seq(Players)
          /\ Len(before) = IF 1 <= x - 1 THEN (x - 1) - 1 + 1 ELSE 0
          /\ \A i \in 1..((x - 1) - 1 + 1) : before[i] = share[1 + i - 1]
      BY <3>1, SubSeqProperties
    <3> HIDE DEF before
    <3> QED
      BY <2>1, <3>2
  <2>5. /\ after \in Seq(Players) /\ Len(after) = n - x
        /\ \A i \in 1..(n - x) : after[i] = share[x + i]
    <3>1. /\ x + 1 \in Int /\ n \in Int
          /\ \A i \in (x + 1)..n : share[i] \in Players
      BY <2>1, <2>3
    <3>2. /\ after \in Seq(Players)
          /\ Len(after) = IF x + 1 <= n THEN n - (x + 1) + 1 ELSE 0
          /\ \A i \in 1..(n - (x + 1) + 1) : after[i] = share[(x + 1) + i - 1]
      BY <3>1, SubSeqProperties
    <3> HIDE DEF after
    <3> QED
      BY <2>1, <3>2
  <2>6. /\ r \in Seq(Players) /\ Len(r) = (x - 1) + (n - x)
        /\ \A i \in 1..((x - 1) + (n - x)) :
             r[i] = IF i <= x - 1 THEN before[i] ELSE after[i - (x - 1)]
    <3>1. /\ r \in Seq(Players) /\ Len(r) = Len(before) + Len(after)
          /\ \A i \in 1..(Len(before) + Len(after)) :
               r[i] = IF i <= Len(before) THEN before[i] ELSE after[i - Len(before)]
      BY <2>4, <2>5, ConcatProperties
    <3> HIDE DEF before, after, r
    <3> QED
      BY <2>4, <2>5, <3>1
  <2>7. Erased(share, p) = r
    BY <1>2 DEF Erased, RemoveAt, x, n
  <2> HIDE DEF before, after, r
  <2>8. Len(r) = n - 1 /\ DOMAIN r = 1..(n - 1)
    BY <2>1, <2>6, Entries
  <2> DEFINE old(i) == IF i < x THEN i ELSE i + 1
  <2>9. \A i \in 1..(n - 1) : r[i] = share[old(i)] /\ old(i) \in 1..n /\ old(i) # x
    <3>1. ASSUME NEW i \in 1..(n - 1), i < x PROVE r[i] = share[i] /\ i \in 1..n
      BY <2>1, <2>4, <2>6, <3>1
    <3>2. ASSUME NEW i \in 1..(n - 1), ~(i < x)
          PROVE  r[i] = share[i + 1] /\ i + 1 \in 1..n /\ i + 1 # x
      <4>1. i - (x - 1) \in 1..(n - x) /\ x + (i - (x - 1)) = i + 1 /\ ~(i <= x - 1)
        BY <2>1, <3>2
      <4>2. r[i] = after[i - (x - 1)]
        BY <2>1, <2>6, <4>1
      <4> QED
        BY <2>1, <2>5, <3>2, <4>1, <4>2
    <3> QED
      BY <2>1, <3>1, <3>2
  <2>10. \A i, j \in 1..(n - 1) : old(i) = old(j) => i = j
    BY <2>1
  <2> HIDE DEF old
  <2>11. IsInjective(r)
    BY <2>2, <2>8, <2>9, <2>10 DEF IsInjective
  <2>12. \A i \in 1..(n - 1) : r[i] # p
    BY <2>1, <2>2, <2>9
  <2> QED
    BY <2>6, <2>7, <2>8, <2>9, <2>11, <2>12 DEF n
<1> QED
  BY <1>1, <1>2

-----------------------------------------------------------------------------
(* The invariant holds at first and is kept by each step.                  *)

\* The invariant holds at first.
LEMMA InitInv ==
  ASSUME Init
  PROVE  IInv
<1> USE DEF Init
<1>1. OwnPlaces
  BY PlacesInit
<1>2. \A S : <<>> \in Seq(S) /\ Len(<<>>) = 0
  BY EmptySeq
<1>3. QueueTypes
  BY <1>2 DEF QueueTypes
<1>4. \A s \in Senders : sequentialPlayers[s] = <<>>
  OBVIOUS
<1>5. Shares /\ AtWork
  BY <1>2 DEF Shares, AtWork
<1>6. pool \subseteq allocated /\ allocated \subseteq Packets
  BY DEF kSubset
<1>7. \A t \in Producers : packages[t] \in BoundedSeq(PackageSet, MaxPackages)
  <2>1. 0 <= MaxPackages /\ MaxPackages \in Nat
    BY SendPathAssumption
  <2>2. <<>> \in BoundedSeq(PackageSet, MaxPackages)
    BY <1>2, <2>1, Bounded
  <2> QED
    BY <2>2
<1>8. packages \in [Producers -> BoundedSeq(PackageSet, MaxPackages)]
  BY <1>7
<1>9. \A s \in Senders : IsInjective(sequentialPlayers[s])
  BY <1>4 DEF IsInjective
<1>10. /\ content \in [Packets -> Messages \cup {None}]
       /\ broadcasting \in [Producers -> BOOLEAN]
       /\ connection \in [Players -> {"NONE", "OPEN", "LOST"}]
       /\ senderThreadIndex \in 0..SenderCount
       /\ completions \in [Players -> 0..MaxPending]
       /\ wire \in [Players -> Messages \cup {None}]
       /\ \A s \in Senders : session[s] = None
  BY SendPathAssumption
<1>11. TypeOK
  BY <1>6, <1>8, <1>9, <1>10 DEF TypeOK, PackageSet
<1> QED
  BY <1>1, <1>3, <1>5, <1>11 DEF IInv

\* AddPlayer puts a player into a share that it was not in.
LEMMA StepAddPlayer ==
  ASSUME IInv, NEW p \in Players, AddPlayer(p)
  PROVE  IInv'
<1> USE DEF IInv
<1>1. NextSender \in Senders /\ NextSender + 1 \in 0..SenderCount
  BY SendPathAssumption DEF NextSender, Senders, TypeOK
<1>2. PICK s \in Senders : s = NextSender
  BY <1>1
<1>3. PICK share \in Seq(Players) : share = sequentialPlayers[s]
  BY DEF QueueTypes
<1>4. /\ connection[p] = "NONE"
      /\ connection' = [connection EXCEPT ![p] = "OPEN"]
      /\ sequentialPlayers' = [sequentialPlayers EXCEPT ![s] = Append(share, p)]
      /\ senderThreadIndex' = NextSender + 1
      /\ UNCHANGED <<pool, allocated, content, packages, broadcasting, todo, session,
           tempPackets, completions, wire, sendPacketQueue, completedSendPacketQueue>>
  BY <1>2, <1>3 DEF AddPlayer, poolVars, senderVars, wireVars
<1>5. OwnPlaces'
  BY <1>4, PlacesSame
<1>6. /\ Append(share, p) \in Seq(Players) /\ Len(Append(share, p)) = Len(share) + 1
      /\ \A i \in 1..Len(share) : Append(share, p)[i] = share[i]
      /\ Append(share, p)[Len(share) + 1] = p
      /\ DOMAIN Append(share, p) = 1..(Len(share) + 1)
      /\ Len(share) \in Nat
  BY AppendProperties, Entries
<1>7. QueueTypes'
  BY <1>4, <1>6 DEF QueueTypes
<1>8. AtWork'
  BY <1>4 DEF AtWork
<1>9. \A u \in Senders : sequentialPlayers'[u] =
        IF u = s THEN Append(share, p) ELSE sequentialPlayers[u]
  BY <1>4 DEF QueueTypes
<1>10. \A q \in Players : connection'[q] = IF q = p THEN "OPEN" ELSE connection[q]
  BY <1>4 DEF TypeOK
<1>11. \A i \in 1..Len(share) : share[i] # p /\ share[i] \in Players
  BY <1>3, <1>4, Entries DEF Shares
<1>12. Shares'
  <2>1. ASSUME NEW u \in Senders, u # s, NEW i \in 1..Len(sequentialPlayers[u])
        PROVE  connection'[sequentialPlayers[u][i]] = "OPEN"
    <3>1. sequentialPlayers[u][i] \in Players
      BY Entries DEF QueueTypes
    <3> QED
      BY <3>1, <1>10 DEF Shares
  <2>2. ASSUME NEW i \in 1..Len(Append(share, p))
        PROVE  connection'[Append(share, p)[i]] = "OPEN"
    <3>1. i \in 1..Len(share) \/ i = Len(share) + 1
      BY <1>6
    <3>2. CASE i = Len(share) + 1
      BY <3>2, <1>6, <1>10
    <3>3. CASE i \in 1..Len(share)
      BY <3>3, <1>3, <1>6, <1>10, <1>11 DEF Shares
    <3> QED
      BY <3>1, <3>2, <3>3
  <2>3. ASSUME NEW u \in Senders, NEW i \in 1..Len(sequentialPlayers'[u])
        PROVE  connection'[sequentialPlayers'[u][i]] = "OPEN"
    <3>1. CASE u = s
      BY <3>1, <1>9, <2>2
    <3>2. CASE u # s
      <4>1. sequentialPlayers'[u] = sequentialPlayers[u]
        BY <3>2, <1>9
      <4> QED
        BY <3>2, <4>1, <2>1
    <3> QED
      BY <3>1, <3>2
  <2> QED
    BY <2>3 DEF Shares
<1>13. IsInjective(Append(share, p))
  <2>1. \A i, j \in 1..Len(share) : share[i] = share[j] => i = j
    BY <1>3, Entries DEF TypeOK, IsInjective
  <2> DEFINE n == Len(share)
             r == Append(share, p)
  <2> HIDE DEF n, r
  <2>2. \A i, j \in 1..(n + 1) : r[i] = r[j] => i = j
    <3>1. /\ n \in Nat /\ \A i \in 1..n : r[i] = share[i] /\ share[i] # p
          /\ r[n + 1] = p /\ \A i, j \in 1..n : share[i] = share[j] => i = j
      BY <1>6, <1>11, <2>1 DEF n, r
    <3>2. \A i \in 1..(n + 1) : i \in 1..n \/ i = n + 1
      BY <3>1
    <3> QED
      BY <3>1, <3>2
  <2> QED
    BY <1>6, <2>2 DEF IsInjective, n, r
<1>14. \A u \in Senders : IsInjective(sequentialPlayers'[u])
  BY <1>9, <1>13 DEF TypeOK
<1>15. /\ connection' \in [Players -> {"NONE", "OPEN", "LOST"}]
       /\ senderThreadIndex' \in 0..SenderCount
  BY <1>1, <1>4 DEF TypeOK
<1>16. TypeOK'
  BY <1>4, <1>14, <1>15 DEF TypeOK
<1> QED
  BY <1>5, <1>7, <1>8, <1>12, <1>16

\* RemovePlayer takes a player out of each share.
LEMMA StepRemovePlayer ==
  ASSUME IInv, NEW p \in Players, RemovePlayer(p)
  PROVE  IInv'
<1> USE DEF IInv
<1>1. /\ connection' = [connection EXCEPT ![p] = "LOST"]
      /\ sequentialPlayers' = [s \in Senders |-> Erased(sequentialPlayers[s], p)]
      /\ UNCHANGED <<pool, allocated, content, packages, broadcasting, todo, session,
           tempPackets, completions, wire, sendPacketQueue, completedSendPacketQueue,
           senderThreadIndex>>
  BY DEF RemovePlayer, poolVars, senderVars, wireVars
<1>2. OwnPlaces'
  BY <1>1, PlacesSame
<1>3. \A s \in Senders :
        sequentialPlayers[s] \in Seq(Players) /\ IsInjective(sequentialPlayers[s])
  BY DEF QueueTypes, TypeOK
<1>4. \A s \in Senders :
        /\ sequentialPlayers'[s] \in Seq(Players) /\ IsInjective(sequentialPlayers'[s])
        /\ \A i \in 1..Len(sequentialPlayers'[s]) :
             /\ sequentialPlayers'[s][i] # p
             /\ \E j \in 1..Len(sequentialPlayers[s]) :
                  sequentialPlayers'[s][i] = sequentialPlayers[s][j]
  <2> SUFFICES ASSUME NEW s \in Senders, NEW r, r = Erased(sequentialPlayers[s], p)
               PROVE  /\ r \in Seq(Players) /\ IsInjective(r)
                      /\ \A i \in 1..Len(r) :
                           /\ r[i] # p
                           /\ \E j \in 1..Len(sequentialPlayers[s]) :
                                r[i] = sequentialPlayers[s][j]
    BY <1>1
  <2>1. PICK share \in Seq(Players) : share = sequentialPlayers[s] /\ IsInjective(share)
    BY <1>3
  <2>2. /\ Erased(share, p) \in Seq(Players) /\ IsInjective(Erased(share, p))
        /\ \A i \in 1..Len(Erased(share, p)) :
             /\ Erased(share, p)[i] # p
             /\ \E j \in 1..Len(share) : Erased(share, p)[i] = share[j]
    BY <2>1, ErasedShare
  <2>3. r = Erased(share, p)
    BY <2>1
  <2> QED
    BY <2>1, <2>2, <2>3
<1>5. QueueTypes'
  BY <1>1, <1>4 DEF QueueTypes
<1>6. AtWork'
  BY <1>1 DEF AtWork
<1>7. Shares'
  <2> SUFFICES ASSUME NEW s \in Senders, NEW i \in 1..Len(sequentialPlayers'[s])
               PROVE  connection'[sequentialPlayers'[s][i]] = "OPEN"
    BY DEF Shares
  <2>1. PICK j \in 1..Len(sequentialPlayers[s]) :
          sequentialPlayers'[s][i] = sequentialPlayers[s][j]
    BY <1>4
  <2>2. connection[sequentialPlayers[s][j]] = "OPEN" /\ sequentialPlayers[s][j] # p
    BY <1>4, <2>1 DEF Shares
  <2>3. sequentialPlayers[s][j] \in Players
    BY <1>3, Entries
  <2> QED
    BY <1>1, <2>1, <2>2, <2>3 DEF TypeOK
<1>8. connection' \in [Players -> {"NONE", "OPEN", "LOST"}]
  BY <1>1 DEF TypeOK
<1>9. TypeOK'
  BY <1>1, <1>4, <1>8 DEF TypeOK
<1> QED
  BY <1>2, <1>5, <1>6, <1>7, <1>9

\* Preserved by PopPacket.
LEMMA StepPopPacket ==
  ASSUME IInv, NEW t \in Producers, NEW p \in Players, NEW m \in Messages,
         PopPacket(t, p, m)
  PROVE  IInv'
<1> USE DEF IInv
<1>1. pool \subseteq allocated /\ allocated \subseteq Packets
  BY DEF TypeOK
<1>2. /\ OwnPlaces' /\ pool' \subseteq allocated' /\ allocated' \subseteq Packets
      /\ \E k \in Packets : content' = [content EXCEPT ![k] = m]
  BY <1>1, PlacesPopPacket
<1>3. PICK g \in PackageSet : packages' = [packages EXCEPT ![t] = Append(@, g)]
  <2>1. PICK k \in Packets :
          packages' = [packages EXCEPT ![t] = Append(@, [packet |-> k, player |-> p])]
    BY <1>1, AddedNew DEF PopPacket
  <2>2. [packet |-> k, player |-> p] \in PackageSet
    BY DEF PackageSet
  <2> QED
    BY <2>1, <2>2
<1>4. UNCHANGED <<broadcasting, connection, sequentialPlayers, senderThreadIndex, todo,
        session, tempPackets, completions, wire, sendPacketQueue, completedSendPacketQueue>>
  BY DEF PopPacket, shareVars, senderVars, wireVars
<1>5. PICK q \in Seq(PackageSet) : q = packages[t] /\ Len(q) < MaxPackages
  BY DEF QueueTypes, PopPacket
<1>6. /\ Append(q, g) \in Seq(PackageSet)
      /\ Append(q, g) \in BoundedSeq(PackageSet, MaxPackages)
  <2>1. /\ Append(q, g) \in Seq(PackageSet) /\ Len(Append(q, g)) = Len(q) + 1
        /\ Len(q) \in Nat /\ MaxPackages \in Nat
    BY AppendProperties, Entries, SendPathAssumption
  <2>2. Len(q) + 1 <= MaxPackages
    BY <1>5, <2>1
  <2> QED
    BY <2>1, <2>2, Bounded
<1>7. QueueTypes'
  BY <1>3, <1>4, <1>5, <1>6 DEF QueueTypes
<1>8. Shares' /\ AtWork'
  BY <1>4 DEF Shares, AtWork
<1>9. packages' \in [Producers -> BoundedSeq(PackageSet, MaxPackages)]
  BY <1>3, <1>5, <1>6 DEF TypeOK, PackageSet
<1>10. content' \in [Packets -> Messages \cup {None}]
  BY <1>2 DEF TypeOK
<1>11. TypeOK'
  BY <1>2, <1>4, <1>9, <1>10 DEF TypeOK, PackageSet
<1> QED
  BY <1>2, <1>7, <1>8, <1>11

\* Preserved by BroadCastPacket.
LEMMA StepBroadCastPacket ==
  ASSUME IInv, NEW t \in Producers, BroadCastPacket(t)
  PROVE  IInv'
<1> USE DEF IInv
<1>1. pool \subseteq allocated /\ allocated \subseteq Packets
  BY DEF TypeOK
<1>2. OwnPlaces'
  BY <1>1, PlacesBroadCastPacket
<1>3. PICK q \in Seq(PackageSet) :
        /\ q = packages[t] /\ q # <<>>
        /\ packages' = [packages EXCEPT ![t] = Tail(q)]
        /\ broadcasting' = [broadcasting EXCEPT ![t] = Tail(q) # <<>>]
  BY DEF QueueTypes, BroadCastPacket
<1>4. UNCHANGED <<pool, allocated, content, connection, sequentialPlayers,
        senderThreadIndex, todo, session, tempPackets, completions, wire,
        completedSendPacketQueue>>
  BY DEF BroadCastPacket, shareVars, senderVars, wireVars
<1>5. /\ Head(q) \in PackageSet /\ Tail(q) \in Seq(PackageSet) /\ Len(Tail(q)) = Len(q) - 1
      /\ Len(q) \in Nat
  BY <1>3, HeadTailProperties, Entries
<1>6. Tail(q) \in BoundedSeq(PackageSet, MaxPackages)
  <2>1. q \in BoundedSeq(PackageSet, MaxPackages) /\ MaxPackages \in Nat
    BY <1>3, SendPathAssumption DEF TypeOK, PackageSet
  <2>2. Len(q) <= MaxPackages
    BY <2>1, Bounded
  <2>3. Len(Tail(q)) <= MaxPackages
    BY <1>5, <2>1, <2>2
  <2> QED
    BY <1>5, <2>1, <2>3, Bounded
<1>7. sendPacketQueue' \in [Players -> Seq(Packets)]
  <2>1. Head(q).packet \in Packets /\ Head(q).player \in Players
    BY <1>5 DEF PackageSet
  <2>2. PICK k \in Packets, p \in Players : k = Head(q).packet /\ p = Head(q).player
    BY <2>1
  <2>3. \/ UNCHANGED sendPacketQueue
        \/ sendPacketQueue' = [sendPacketQueue EXCEPT ![p] = Append(@, k)]
    BY <1>3, <2>2 DEF BroadCastPacket
  <2>4. Append(sendPacketQueue[p], k) \in Seq(Packets)
    BY AppendProperties DEF QueueTypes
  <2> QED
    BY <2>3, <2>4 DEF QueueTypes
<1>8. QueueTypes'
  BY <1>3, <1>4, <1>5, <1>7 DEF QueueTypes
<1>9. Shares' /\ AtWork'
  BY <1>4 DEF Shares, AtWork
<1>10. /\ packages' \in [Producers -> BoundedSeq(PackageSet, MaxPackages)]
       /\ broadcasting' \in [Producers -> BOOLEAN]
  BY <1>3, <1>6 DEF TypeOK, PackageSet
<1>11. TypeOK'
  BY <1>4, <1>10 DEF TypeOK, PackageSet
<1> QED
  BY <1>2, <1>8, <1>9, <1>11

\* The steps of a sender that move no packet.
LEMMA StepSession ==
  ASSUME IInv, NEW s \in Senders, BeginTurn(s) \/ LockSession(s) \/ UnlockSession(s)
  PROVE  IInv'
<1> USE DEF IInv
<1>1. UNCHANGED <<pool, allocated, content, packages, broadcasting, connection,
        sequentialPlayers, senderThreadIndex, tempPackets, completions, wire,
        sendPacketQueue, completedSendPacketQueue>>
  BY DEF BeginTurn, LockSession, UnlockSession, poolVars, shareVars, wireVars
<1>2. OwnPlaces' /\ Shares'
  <2>1. Shares'
    BY <1>1 DEF Shares
  <2> QED
    BY <1>1, <2>1, PlacesSame
<1>3. \A q \in Seq(Players) : q # <<>> => Head(q) \in Players /\ Tail(q) \in Seq(Players)
  BY HeadTailProperties
<1>4. /\ todo' \in [Senders -> Seq(Players)]
      /\ session' \in [Senders -> Players \cup {None}]
      /\ \A u \in Senders :
           session'[u] # None => todo'[u] # <<>> /\ session'[u] = Head(todo'[u])
      /\ \A u \in Senders : tempPackets[u] # <<>> => todo'[u] # <<>>
  <2>1. CASE BeginTurn(s)
    BY <2>1 DEF BeginTurn, TypeOK, QueueTypes, AtWork
  <2>2. CASE LockSession(s)
    BY <2>2, <1>3 DEF LockSession, TypeOK, QueueTypes, AtWork
  <2>3. CASE UnlockSession(s)
    BY <2>3, <1>3 DEF UnlockSession, TypeOK, QueueTypes, AtWork
  <2> QED
    BY <2>1, <2>2, <2>3
<1>5. QueueTypes' /\ AtWork'
  BY <1>1, <1>4 DEF QueueTypes, AtWork
<1>6. TypeOK'
  BY <1>1, <1>4 DEF TypeOK
<1> QED
  BY <1>2, <1>5, <1>6

\* Preserved by SendPacket.
LEMMA StepSendPacket ==
  ASSUME IInv, NEW s \in Senders, SendPacket(s)
  PROVE  IInv'
<1> USE DEF IInv
<1>1. pool \subseteq allocated /\ allocated \subseteq Packets
  BY DEF TypeOK
<1>2. OwnPlaces'
  BY <1>1, PlacesSendPacket
<1>3. PICK p \in Players, q \in Seq(Packets), r \in Seq(Packets) :
        p = session[s] /\ q = sendPacketQueue[p] /\ r = tempPackets[s]
  BY DEF SendPacket, QueueTypes
<1>4. /\ Len(r) < Len(q)
      /\ completions[p] < MaxPending
      /\ wire' = [wire EXCEPT ![p] = content[Head(q)]]
      /\ tempPackets' = [tempPackets EXCEPT ![s] = Append(r, Head(q))]
      /\ sendPacketQueue' = [sendPacketQueue EXCEPT ![p] = Tail(q)]
      /\ \/ completions' = [completions EXCEPT ![p] = @ + 1]
         \/ UNCHANGED completions
      /\ UNCHANGED <<pool, allocated, content, packages, broadcasting, connection,
           sequentialPlayers, senderThreadIndex, todo, session, completedSendPacketQueue>>
  BY <1>3 DEF SendPacket, MoreToSend, poolVars, shareVars
<1>5. q # <<>>
  BY <1>4, Entries
<1>6. Head(q) \in Packets /\ Tail(q) \in Seq(Packets)
  BY <1>5, HeadTailProperties
<1>7. Append(r, Head(q)) \in Seq(Packets)
  BY <1>6, AppendProperties
<1>8. QueueTypes'
  BY <1>4, <1>6, <1>7 DEF QueueTypes
<1>9. Shares'
  BY <1>4 DEF Shares
<1>10. AtWork'
  <2>1. todo[s] # <<>>
    BY <1>3, SendPathAssumption DEF TypeOK
  <2> QED
    BY <1>4, <2>1 DEF AtWork, QueueTypes
<1>11. completions' \in [Players -> 0..MaxPending]
  BY <1>4, SendPathAssumption DEF TypeOK
<1>12. wire' \in [Players -> Messages \cup {None}]
  BY <1>4, <1>6 DEF TypeOK
<1>13. TypeOK'
  BY <1>4, <1>11, <1>12 DEF TypeOK
<1> QED
  BY <1>2, <1>8, <1>9, <1>10, <1>13

\* Preserved by PushCompleted.
LEMMA StepPushCompleted ==
  ASSUME IInv, NEW s \in Senders, PushCompleted(s)
  PROVE  IInv'
<1> USE DEF IInv
<1>1. pool \subseteq allocated /\ allocated \subseteq Packets
  BY DEF TypeOK
<1>2. OwnPlaces'
  BY <1>1, PlacesPushCompleted
<1>3. PICK d \in Seq(Players) : d = todo[s] /\ d # <<>>
  BY DEF PushCompleted, QueueTypes, AtWork
<1>4. Head(d) \in Players /\ Tail(d) \in Seq(Players)
  BY <1>3, HeadTailProperties
<1>5. /\ session[s] = None
      /\ completedSendPacketQueue' =
           [completedSendPacketQueue EXCEPT ![Head(d)] = @ \o tempPackets[s]]
      /\ tempPackets' = [tempPackets EXCEPT ![s] = <<>>]
      /\ todo' = [todo EXCEPT ![s] = Tail(d)]
      /\ UNCHANGED <<pool, allocated, content, packages, broadcasting, connection,
           sequentialPlayers, senderThreadIndex, session, completions, wire,
           sendPacketQueue>>
  BY <1>3 DEF PushCompleted, poolVars, shareVars, wireVars
<1>6. /\ completedSendPacketQueue[Head(d)] \o tempPackets[s] \in Seq(Packets)
      /\ <<>> \in Seq(Packets)
  BY <1>4, ConcatProperties, EmptySeq DEF QueueTypes
<1>7. QueueTypes'
  BY <1>4, <1>5, <1>6 DEF QueueTypes
<1>8. Shares'
  BY <1>5 DEF Shares
<1>9. AtWork'
  BY <1>5 DEF AtWork, QueueTypes
<1>10. \A u \in Senders :
         session'[u] # None => todo'[u] # <<>> /\ session'[u] = Head(todo'[u])
  BY <1>5 DEF TypeOK, QueueTypes
<1>11. TypeOK'
  BY <1>5, <1>10 DEF TypeOK
<1> QED
  BY <1>2, <1>7, <1>8, <1>9, <1>11

\* Preserved by OnSent.
LEMMA StepOnSent ==
  ASSUME IInv, NEW p \in Players, OnSent(p)
  PROVE  IInv'
<1> USE DEF IInv
<1>1. pool \subseteq allocated /\ allocated \subseteq Packets
  BY DEF TypeOK
<1>2. OwnPlaces' /\ pool' \subseteq allocated'
  BY <1>1, PlacesOnSent
<1>3. PICK q \in Seq(Packets) : q = completedSendPacketQueue[p]
  BY DEF QueueTypes
<1>4. PICK n \in 0..Len(q) : n = Returned(Len(q))
  BY Entries, ReturnedBounds
<1>5. /\ completions[p] > 0
      /\ completions' = [completions EXCEPT ![p] = @ - 1]
      /\ completedSendPacketQueue' =
           [completedSendPacketQueue EXCEPT ![p] = SubSeq(q, n + 1, Len(q))]
      /\ \A k \in Packets : content'[k] \in {content[k], None}
      /\ content' \in [Packets -> Messages \cup {None}]
      /\ UNCHANGED <<allocated, packages, broadcasting, connection, sequentialPlayers,
           senderThreadIndex, todo, session, tempPackets, wire, sendPacketQueue>>
  BY <1>3, <1>4 DEF OnSent, shareVars, senderVars, TypeOK
<1>6. SubSeq(q, n + 1, Len(q)) \in Seq(Packets)
  <2>1. n + 1 \in Int /\ Len(q) \in Int /\ \A i \in (n + 1)..Len(q) : q[i] \in Packets
    BY Entries
  <2> QED
    BY <2>1, SubSeqProperties
<1>7. QueueTypes'
  BY <1>5, <1>6 DEF QueueTypes
<1>8. Shares' /\ AtWork'
  BY <1>5 DEF Shares, AtWork
<1>9. completions' \in [Players -> 0..MaxPending]
  BY <1>5, SendPathAssumption DEF TypeOK
<1>10. TypeOK'
  BY <1>1, <1>2, <1>5, <1>9 DEF TypeOK
<1> QED
  BY <1>2, <1>7, <1>8, <1>10

\* Preserved by SendAborted.
LEMMA StepSendAborted ==
  ASSUME IInv, NEW p \in Players, SendAborted(p)
  PROVE  IInv'
<1> USE DEF IInv
<1>1. /\ completions[p] > 0
      /\ completions' = [completions EXCEPT ![p] = @ - 1]
      /\ UNCHANGED <<pool, allocated, content, packages, broadcasting, connection,
           sequentialPlayers, senderThreadIndex, todo, session, tempPackets, wire,
           sendPacketQueue, completedSendPacketQueue>>
  BY DEF SendAborted, poolVars, shareVars, senderVars
<1>2. OwnPlaces'
  BY <1>1, PlacesSame
<1>3. QueueTypes' /\ Shares' /\ AtWork'
  BY <1>1 DEF QueueTypes, Shares, AtWork
<1>4. completions' \in [Players -> 0..MaxPending]
  BY <1>1, SendPathAssumption DEF TypeOK
<1>5. TypeOK'
  BY <1>1, <1>4 DEF TypeOK
<1> QED
  BY <1>2, <1>3, <1>5

\* Each action keeps the invariant, and so does a step that stutters.
LEMMA StepInv ==
  ASSUME IInv, [Next]_vars
  PROVE  IInv'
<1>1. CASE UNCHANGED vars
  <2>1. UNCHANGED <<pool, allocated, content, packages, broadcasting, connection,
          sequentialPlayers, senderThreadIndex, todo, session, tempPackets, completions,
          wire, sendPacketQueue, completedSendPacketQueue>>
    BY <1>1 DEF vars, poolVars, shareVars, senderVars, wireVars
  <2>2. OwnPlaces'
    BY <2>1, PlacesSame DEF IInv
  <2>3. QueueTypes' /\ Shares' /\ AtWork'
    BY <2>1 DEF IInv, QueueTypes, Shares, AtWork
  <2>4. TypeOK'
    BY <2>1 DEF IInv, TypeOK
  <2> QED
    BY <2>2, <2>3, <2>4 DEF IInv
<1>2. ASSUME NEW p \in Players,
             AddPlayer(p) \/ RemovePlayer(p) \/ OnSent(p) \/ SendAborted(p)
      PROVE  IInv'
  BY <1>2, StepAddPlayer, StepRemovePlayer, StepOnSent, StepSendAborted
<1>3. ASSUME NEW t \in Producers,
             BroadCastPacket(t) \/ \E p \in Players, m \in Messages : PopPacket(t, p, m)
      PROVE  IInv'
  BY <1>3, StepBroadCastPacket, StepPopPacket
<1>4. ASSUME NEW s \in Senders, SenderStep(s)
      PROVE  IInv'
  BY <1>4, StepSession, StepSendPacket, StepPushCompleted DEF SenderStep
<1> QED
  BY <1>1, <1>2, <1>3, <1>4 DEF Next

\* Types, queues, shares and the place of each packet, at any time.
THEOREM SendPathInvariance == Spec => []IInv
<1> QED
  BY InitInv, StepInv, PTL DEF Spec

\* Every variable has its type, and a sender locks the session at the head of its turn.
THEOREM SendTypes == Spec => []TypeOK
<1>1. IInv => TypeOK
  BY DEF IInv
<1> QED
  BY <1>1, SendPathInvariance, PTL

-----------------------------------------------------------------------------
(* Own places are single places.                                           *)

\* Whether one of the queues of q holds k
Queued(q, k) == \E x \in DOMAIN q : k \in Range(q[x])

\* Whether the server still has k where it can find it
Kept(k) ==
  \/ k \in pool \/ Queued(PackagesOf, k) \/ Queued(sendPacketQueue, k)
  \/ Queued(tempPackets, k) \/ Queued(completedSendPacketQueue, k)

\* The entries of queues of which only that of x may hold k, and only once.
LEMMA AtOnce ==
  ASSUME NEW q, NEW k, NEW x,
         \A y \in DOMAIN q : \A i \in DOMAIN q[y] : q[y][i] = k => y = x,
         x \in DOMAIN q => \A i, j \in DOMAIN q[x] : q[x][i] = k /\ q[x][j] = k => i = j
  PROVE  Cardinality(At(q, k)) = IF Queued(q, k) THEN 1 ELSE 0
<1>0. Queued(q, k) <=> At(q, k) # {}
  <2>1. ASSUME Queued(q, k) PROVE At(q, k) # {}
    <3>1. PICK y \in DOMAIN q : \E i \in DOMAIN q[y] : q[y][i] = k
      BY <2>1 DEF Queued, Range
    <3>2. PICK i \in DOMAIN q[y] : q[y][i] = k
      BY <3>1
    <3>3. <<y, i>> \in At(q, k)
      BY <3>2 DEF At
    <3> QED
      BY <3>3
  <2>2. ASSUME NEW w \in At(q, k) PROVE Queued(q, k)
    <3>1. \E y \in DOMAIN q : \E i \in DOMAIN q[y] : q[y][i] = k
      BY DEF At
    <3> QED
      BY <3>1 DEF Queued, Range
  <2> QED
    BY <2>1, <2>2
<1>1. CASE At(q, k) = {}
  BY <1>0, <1>1, FS_EmptySet
<1>2. CASE At(q, k) # {}
  <2>1. PICK w : w \in At(q, k)
    BY <1>2
  <2>2. \A v : v \in At(q, k) <=>
          \E y \in DOMAIN q : v \in {y} \X {i \in DOMAIN q[y] : q[y][i] = k}
    BY DEF At
  <2>3. \A v \in At(q, k) : \E i \in DOMAIN q[x] :
          x \in DOMAIN q /\ q[x][i] = k /\ v = <<x, i>>
    BY <2>2
  <2>4. \A v \in At(q, k) : v = w
    BY <2>1, <2>3
  <2>5. At(q, k) = {w}
    BY <2>1, <2>4
  <2> QED
    BY <2>5, <1>0, <1>2, FS_Singleton
<1> QED
  BY <1>1, <1>2

\* Queues none of which holds k.
LEMMA AtNowhere ==
  ASSUME NEW q, NEW k, \A y \in DOMAIN q : \A i \in DOMAIN q[y] : q[y][i] # k
  PROVE  Cardinality(At(q, k)) = 0 /\ ~Queued(q, k)
<1>1. At(q, k) = {}
  BY DEF At
<1> QED
  BY <1>1, FS_EmptySet DEF Queued, Range

\* A queue whose packets have a place holds k there alone, and once.
LEMMA HoldsOnce ==
  ASSUME NEW place, NEW q \in Seq(Packets), NEW l, Holds(place, q, l), NEW k
  PROVE  /\ \A i \in DOMAIN q : q[i] = k => place[k] = l
         /\ \A i, j \in DOMAIN q : q[i] = k /\ q[j] = k => i = j
BY Entries DEF Holds

\* A packet with a place of its own is nowhere else; one that is nowhere has been lost.
LEMMA OwnPlaceIsOne ==
  ASSUME IInv, NEW k \in Packets
  PROVE  Places(k) = IF Kept(k) THEN 1 ELSE 0
<1>1. PICK place \in [Packets -> Kinds \X Owners] : InPlace(place)
  BY DEF IInv, OwnPlaces
<1> DEFINE l == place[k]
<1>2. \A t \in Producers : /\ DOMAIN packages[t] = 1..Len(packages[t])
                           /\ Carries(place, packages[t], Package(t))
  BY <1>1, Entries DEF IInv, QueueTypes, InPlace
<1>3. /\ DOMAIN PackagesOf = Producers
      /\ \A t \in Producers : /\ DOMAIN PackagesOf[t] = DOMAIN packages[t]
                              /\ \A i \in DOMAIN packages[t] :
                                   PackagesOf[t][i] = packages[t][i].packet
  BY DEF PackagesOf
<1>4. \A t \in Producers :
        /\ \A i \in DOMAIN PackagesOf[t] : PackagesOf[t][i] = k => l = Package(t)
        /\ \A i, j \in DOMAIN PackagesOf[t] :
             PackagesOf[t][i] = k /\ PackagesOf[t][j] = k => i = j
  BY <1>2, <1>3 DEF Carries
<1>5. /\ DOMAIN sendPacketQueue = Players /\ DOMAIN completedSendPacketQueue = Players
      /\ DOMAIN tempPackets = Senders
  BY DEF IInv, QueueTypes
<1>6. \A p \in Players :
        /\ \A i \in DOMAIN sendPacketQueue[p] : sendPacketQueue[p][i] = k => l = Send(p)
        /\ \A i, j \in DOMAIN sendPacketQueue[p] :
             sendPacketQueue[p][i] = k /\ sendPacketQueue[p][j] = k => i = j
  <2> TAKE p \in Players
  <2>1. sendPacketQueue[p] \in Seq(Packets) /\ Holds(place, sendPacketQueue[p], Send(p))
    BY <1>1 DEF IInv, QueueTypes, InPlace
  <2> QED
    BY <2>1, HoldsOnce
<1>7. \A s \in Senders :
        /\ \A i \in DOMAIN tempPackets[s] : tempPackets[s][i] = k => l = Temp(s)
        /\ \A i, j \in DOMAIN tempPackets[s] :
             tempPackets[s][i] = k /\ tempPackets[s][j] = k => i = j
  <2> TAKE s \in Senders
  <2>1. tempPackets[s] \in Seq(Packets) /\ Holds(place, tempPackets[s], Temp(s))
    BY <1>1 DEF IInv, QueueTypes, InPlace
  <2> QED
    BY <2>1, HoldsOnce
<1>8. \A p \in Players :
        /\ \A i \in DOMAIN completedSendPacketQueue[p] :
             completedSendPacketQueue[p][i] = k => l = Completed(p)
        /\ \A i, j \in DOMAIN completedSendPacketQueue[p] :
             completedSendPacketQueue[p][i] = k /\ completedSendPacketQueue[p][j] = k
               => i = j
  <2> TAKE p \in Players
  <2>1. /\ completedSendPacketQueue[p] \in Seq(Packets)
        /\ Holds(place, completedSendPacketQueue[p], Completed(p))
    BY <1>1 DEF IInv, QueueTypes, InPlace
  <2> QED
    BY <2>1, HoldsOnce
<1>9. k \in pool => l = Pool
  BY <1>1 DEF InPlace
<1> HIDE DEF l
<1> DEFINE a == Cardinality(At(PackagesOf, k))
           b == Cardinality(At(sendPacketQueue, k))
           c == Cardinality(At(tempPackets, k))
           d == Cardinality(At(completedSendPacketQueue, k))
<1>10. a = (IF Queued(PackagesOf, k) THEN 1 ELSE 0) /\ (a = 1 => \E t : l = Package(t))
  <2>1. CASE \E t \in Producers : l = Package(t)
    <3>1. PICK t \in Producers : l = Package(t)
      BY <2>1
    <3>2. \A u \in Producers : \A i \in DOMAIN PackagesOf[u] : PackagesOf[u][i] = k => u = t
      BY <1>4, <3>1, Labels
    <3> QED
      BY <1>3, <1>4, <3>1, <3>2, AtOnce
  <2>2. CASE ~\E t \in Producers : l = Package(t)
    <3>1. \A y \in DOMAIN PackagesOf : \A i \in DOMAIN PackagesOf[y] :
            PackagesOf[y][i] # k
      BY <1>3, <1>4, <2>2
    <3> QED
      BY <3>1, AtNowhere
  <2> QED
    BY <2>1, <2>2
<1>11. b = (IF Queued(sendPacketQueue, k) THEN 1 ELSE 0) /\ (b = 1 => \E p : l = Send(p))
  <2>1. CASE \E p \in Players : l = Send(p)
    <3>1. PICK p \in Players : l = Send(p)
      BY <2>1
    <3>2. \A u \in Players : \A i \in DOMAIN sendPacketQueue[u] :
            sendPacketQueue[u][i] = k => u = p
      BY <1>6, <3>1, Labels
    <3> QED
      BY <1>5, <1>6, <3>1, <3>2, AtOnce
  <2>2. CASE ~\E p \in Players : l = Send(p)
    <3>1. \A y \in DOMAIN sendPacketQueue : \A i \in DOMAIN sendPacketQueue[y] :
            sendPacketQueue[y][i] # k
      BY <1>5, <1>6, <2>2
    <3> QED
      BY <3>1, AtNowhere
  <2> QED
    BY <2>1, <2>2
<1>12. c = (IF Queued(tempPackets, k) THEN 1 ELSE 0) /\ (c = 1 => \E s : l = Temp(s))
  <2>1. CASE \E s \in Senders : l = Temp(s)
    <3>1. PICK s \in Senders : l = Temp(s)
      BY <2>1
    <3>2. \A u \in Senders : \A i \in DOMAIN tempPackets[u] : tempPackets[u][i] = k => u = s
      BY <1>7, <3>1, Labels
    <3> QED
      BY <1>5, <1>7, <3>1, <3>2, AtOnce
  <2>2. CASE ~\E s \in Senders : l = Temp(s)
    <3>1. \A y \in DOMAIN tempPackets : \A i \in DOMAIN tempPackets[y] :
            tempPackets[y][i] # k
      BY <1>5, <1>7, <2>2
    <3> QED
      BY <3>1, AtNowhere
  <2> QED
    BY <2>1, <2>2
<1>13. d = (IF Queued(completedSendPacketQueue, k) THEN 1 ELSE 0) /\ (d = 1 => \E p : l = Completed(p))
  <2>1. CASE \E p \in Players : l = Completed(p)
    <3>1. PICK p \in Players : l = Completed(p)
      BY <2>1
    <3>2. \A u \in Players : \A i \in DOMAIN completedSendPacketQueue[u] :
            completedSendPacketQueue[u][i] = k => u = p
      BY <1>8, <3>1, Labels
    <3> QED
      BY <1>5, <1>8, <3>1, <3>2, AtOnce
  <2>2. CASE ~\E p \in Players : l = Completed(p)
    <3>1. \A y \in DOMAIN completedSendPacketQueue : \A i \in DOMAIN completedSendPacketQueue[y] :
            completedSendPacketQueue[y][i] # k
      BY <1>5, <1>8, <2>2
    <3> QED
      BY <3>1, AtNowhere
  <2> QED
    BY <2>1, <2>2
<1> DEFINE n == IF k \in pool THEN 1 ELSE 0
<1>14. Places(k) = n + a + b + c + d
  BY DEF Places
<1>15. n = (IF k \in pool THEN 1 ELSE 0) /\ (n = 1 => l = Pool)
  <2>1. CASE k \in pool
    BY <2>1, <1>9
  <2>2. CASE k \notin pool
    BY <2>2
  <2> QED
    BY <2>1, <2>2
<1> HIDE DEF a, b, c, d, n
<1>16. \/ a = 0 /\ b = 0 /\ c = 0 /\ d = 0 /\ n \in {0, 1}
       \/ n = 0 /\ a \in {0, 1} /\ b = 0 /\ c = 0 /\ d = 0
       \/ n = 0 /\ a = 0 /\ b \in {0, 1} /\ c = 0 /\ d = 0
       \/ n = 0 /\ a = 0 /\ b = 0 /\ c \in {0, 1} /\ d = 0
       \/ n = 0 /\ a = 0 /\ b = 0 /\ c = 0 /\ d \in {0, 1}
  BY <1>10, <1>11, <1>12, <1>13, <1>15, Labels
<1>17. Kept(k) <=> (n = 1 \/ a = 1 \/ b = 1 \/ c = 1 \/ d = 1)
  BY <1>10, <1>11, <1>12, <1>13, <1>15 DEF Kept
<1> QED
  BY <1>14, <1>16, <1>17

\* No packet is in the pool, in a package, in the queue of a session or in a
\* sender's list, and in another of these places or twice there: for every number of
\* packets, players, producers and senders.
THEOREM OnePlaceAlways == Spec => []OnePlace
<1>1. IInv => OnePlace
  BY OwnPlaceIsOne DEF OnePlace
<1> QED
  BY <1>1, SendPathInvariance, PTL

-----------------------------------------------------------------------------
(* What is lost.                                                           *)

\* What the operations on a queue leave in it, and what they take out.
LEMMA QueueRanges ==
  ASSUME NEW S, NEW q \in Seq(S)
  PROVE  /\ \A e \in S : Range(Append(q, e)) = Range(q) \cup {e}
         /\ q # <<>> => Range(q) \subseteq {Head(q)} \cup Range(Tail(q))
         /\ \A r \in Seq(S) : Range(q \o r) = Range(q) \cup Range(r)
         /\ \A n \in 0..Len(q) :
              Range(q) \subseteq {q[i] : i \in 1..n} \cup Range(SubSeq(q, n + 1, Len(q)))
<1>1. /\ Len(q) \in Nat /\ DOMAIN q = 1..Len(q)
      /\ \A i \in 1..Len(q) : q[i] \in S
  BY Entries
<1>2. ASSUME NEW e \in S PROVE Range(Append(q, e)) = Range(q) \cup {e}
  <2>1. /\ Append(q, e) \in Seq(S) /\ Len(Append(q, e)) = Len(q) + 1
        /\ \A i \in 1..Len(q) : Append(q, e)[i] = q[i]
        /\ Append(q, e)[Len(q) + 1] = e
    BY AppendProperties
  <2>2. DOMAIN Append(q, e) = 1..(Len(q) + 1)
    BY <2>1, Entries
  <2> QED
    BY <1>1, <2>1, <2>2 DEF Range
<1>3. ASSUME NEW n \in 0..Len(q)
      PROVE  Range(q) \subseteq {q[i] : i \in 1..n} \cup Range(SubSeq(q, n + 1, Len(q)))
  <2> DEFINE r == SubSeq(q, n + 1, Len(q))
             m == Len(q)
  <2>1. /\ r \in Seq(S) /\ Len(r) = IF n + 1 <= m THEN m - (n + 1) + 1 ELSE 0
        /\ \A i \in 1..(m - (n + 1) + 1) : r[i] = q[(n + 1) + i - 1]
    <3>1. n + 1 \in Int /\ m \in Int /\ \A i \in (n + 1)..m : q[i] \in S
      BY <1>1
    <3> QED
      BY <3>1, SubSeqProperties
  <2>2. DOMAIN r = 1..Len(r)
    BY <2>1, Entries
  <2> HIDE DEF r
  <2>3. ASSUME NEW i \in 1..m, i \notin 1..n PROVE q[i] \in Range(r)
    <3>1. m \in Nat /\ n \in Nat /\ i \in Nat /\ n < i /\ i <= m
      BY <1>1, <2>3
    <3> HIDE DEF m
    <3>2. Len(r) = m - n /\ i - n \in 1..(m - n) /\ (n + 1) + (i - n) - 1 = i
      BY <2>1, <3>1
    <3>3. i - n \in DOMAIN r /\ r[i - n] = q[i]
      BY <2>1, <2>2, <3>1, <3>2
    <3> QED
      BY <3>3 DEF Range
  <2> QED
    BY <1>1, <2>3 DEF Range, r
<1>4. ASSUME q # <<>> PROVE Range(q) \subseteq {Head(q)} \cup Range(Tail(q))
  <2>1. Head(q) = q[1] /\ 1 \in 0..Len(q) /\ Tail(q) = SubSeq(q, 1 + 1, Len(q))
    BY <1>4, Entries, TailIsSubSeq
  <2>2. {q[i] : i \in 1..1} = {Head(q)}
    BY <2>1
  <2> QED
    BY <1>3, <2>1, <2>2
<1> QED
  BY <1>2, <1>3, <1>4, RangeConcatenation

\* A queue that changes at x keeps k unless it was in that of x and is no more.
LEMMA QueuedStill ==
  ASSUME NEW q, NEW x, NEW r, NEW k, Queued(q, k),
         x \in DOMAIN q /\ k \in Range(q[x]) => k \in Range(r)
  PROVE  Queued([q EXCEPT ![x] = r], k)
<1>1. PICK y \in DOMAIN q : k \in Range(q[y])
  BY DEF Queued
<1>2. CASE y = x
  BY <1>1, <1>2 DEF Queued
<1>3. CASE y # x
  BY <1>1, <1>3 DEF Queued
<1> QED
  BY <1>2, <1>3

\* A packet is packaged when the package of a producer is of it.
LEMMA Packaged ==
  ASSUME NEW f, NEW k
  PROVE  Queued([t \in Producers |-> [i \in DOMAIN f[t] |-> f[t][i].packet]], k) <=>
           \E t \in Producers : \E g \in Range(f[t]) : g.packet = k
BY DEF Queued, Range

\* The server still has the packets that a step of a handler passes on, but for one
\* that is left out.
LEMMA KeptByProducers ==
  ASSUME IInv, NEW k \in Packets, Kept(k), NEW t \in Producers,
         \/ \E p \in Players, m \in Messages : PopPacket(t, p, m)
         \/ /\ BroadCastPacket(t)
            /\ ~(Head(packages[t]).packet = k /\ LeftOut(Head(packages[t]).player))
  PROVE  Kept(k)'
<1> USE DEF IInv
<1>1. /\ packages[t] \in Seq(PackageSet) /\ packages \in [Producers -> Seq(PackageSet)]
      /\ \A q \in Players : sendPacketQueue[q] \in Seq(Packets)
      /\ DOMAIN sendPacketQueue = Players
  BY DEF QueueTypes
<1>2. ASSUME NEW p \in Players, NEW m \in Messages, PopPacket(t, p, m) PROVE Kept(k)'
  <2>0. PICK new \in Added : \E j \in pool \cup new :
          /\ pool' = Popped(j, new)
          /\ packages' = [packages EXCEPT ![t] = Append(@, [packet |-> j, player |-> p])]
    BY <1>2 DEF PopPacket
  <2>1. PICK j \in pool \cup new :
          /\ pool' = Popped(j, new)
          /\ packages' = [packages EXCEPT ![t] = Append(@, [packet |-> j, player |-> p])]
    BY <2>0
  <2>2. UNCHANGED <<sendPacketQueue, tempPackets, completedSendPacketQueue>>
    BY <1>2 DEF PopPacket, senderVars
  <2>3. [packet |-> j, player |-> p] \in PackageSet
    BY <2>1, AddedNew DEF TypeOK, PackageSet
  <2>4. Range(packages'[t]) = Range(packages[t]) \cup {[packet |-> j, player |-> p]}
    BY <1>1, <2>1, <2>3, QueueRanges
  <2>5. \A u \in Producers : Range(packages[u]) \subseteq Range(packages'[u])
    BY <1>1, <2>1, <2>4
  <2>6. (\E u \in Producers : \E g \in Range(packages'[u]) : g.packet = k)
          => Queued(PackagesOf, k)'
    BY Packaged DEF PackagesOf
  <2>7. CASE j = k
    <3>1. [packet |-> j, player |-> p] \in Range(packages'[t])
      BY <2>4
    <3>2. [packet |-> j, player |-> p].packet = k
      BY <2>7
    <3> QED
      BY <2>6, <3>1, <3>2 DEF Kept
  <2>8. CASE j # k /\ k \in pool
    BY <2>1, <2>8 DEF Kept, Popped
  <2>9. CASE k \notin pool
    <3>1. Queued(PackagesOf, k) =>
            \E u \in Producers : \E g \in Range(packages[u]) : g.packet = k
      BY Packaged DEF PackagesOf
    <3>2. Queued(PackagesOf, k) => Queued(PackagesOf, k)'
      BY <2>5, <2>6, <3>1
    <3> QED
      BY <2>2, <2>9, <3>2 DEF Kept
  <2> QED
    BY <2>7, <2>8, <2>9
<1>3. CASE /\ BroadCastPacket(t)
           /\ ~(Head(packages[t]).packet = k /\ LeftOut(Head(packages[t]).player))
  <2>1. /\ packages[t] # <<>> /\ packages' = [packages EXCEPT ![t] = Tail(@)]
        /\ UNCHANGED <<pool, tempPackets, completedSendPacketQueue>>
    BY <1>3 DEF BroadCastPacket, senderVars
  <2> DEFINE g == Head(packages[t])
  <2>2. g \in PackageSet /\ Range(packages[t]) \subseteq {g} \cup Range(Tail(packages[t]))
    BY <1>1, <2>1, QueueRanges, Entries
  <2>3. g.packet \in Packets /\ g.player \in Players
    BY <2>2 DEF PackageSet
  <2>4. \/ UNCHANGED sendPacketQueue
        \/ sendPacketQueue' = [sendPacketQueue EXCEPT ![g.player] =
                                 Append(sendPacketQueue[g.player], g.packet)]
    BY <1>3 DEF BroadCastPacket
  <2>5. g.packet = k => sendPacketQueue' = [sendPacketQueue EXCEPT ![g.player] =
                                              Append(sendPacketQueue[g.player], k)]
    BY <1>3 DEF BroadCastPacket
  <2> HIDE DEF g
  <2>6. Range(Append(sendPacketQueue[g.player], g.packet)) =
          Range(sendPacketQueue[g.player]) \cup {g.packet}
    BY <1>1, <2>3, QueueRanges
  <2>7. Queued(sendPacketQueue, k) => Queued(sendPacketQueue, k)'
    <3>1. CASE UNCHANGED sendPacketQueue
      BY <3>1
    <3>2. CASE sendPacketQueue' = [sendPacketQueue EXCEPT ![g.player] =
                                     Append(sendPacketQueue[g.player], g.packet)]
      BY <2>6, <3>2, QueuedStill
    <3> QED
      BY <2>4, <3>1, <3>2
  <2>8. g.packet = k => Queued(sendPacketQueue, k)'
    BY <1>1, <2>3, <2>5, <2>6 DEF Queued
  <2>9. g.packet # k /\ Queued(PackagesOf, k) => Queued(PackagesOf, k)'
    <3>1. (\E u \in Producers : \E h \in Range(packages'[u]) : h.packet = k)
            => Queued(PackagesOf, k)'
      BY Packaged DEF PackagesOf
    <3>2. ASSUME NEW u \in Producers, NEW h \in Range(packages[u]), h.packet = k, g.packet # k
          PROVE  h \in Range(packages'[u])
      BY <1>1, <2>1, <2>2, <3>2
    <3> QED
      BY <3>1, <3>2, Packaged DEF PackagesOf
  <2> QED
    BY <2>1, <2>7, <2>8, <2>9 DEF Kept
<1> QED
  BY <1>2, <1>3

\* ... and those that a sender passes on, or a completion.
LEMMA KeptBySenders ==
  ASSUME IInv, NEW k \in Packets, Kept(k),
         \/ \E s \in Senders : SendPacket(s) \/ PushCompleted(s)
         \/ \E p \in Players : OnSent(p)
  PROVE  Kept(k)'
<1> USE DEF IInv
<1>1. /\ \A p \in Players : /\ sendPacketQueue[p] \in Seq(Packets)
                            /\ completedSendPacketQueue[p] \in Seq(Packets)
      /\ \A s \in Senders : tempPackets[s] \in Seq(Packets)
      /\ DOMAIN sendPacketQueue = Players /\ DOMAIN completedSendPacketQueue = Players
      /\ DOMAIN tempPackets = Senders
  BY DEF QueueTypes
<1>2. ASSUME NEW s \in Senders, SendPacket(s) PROVE Kept(k)'
  <2>1. PICK p \in Players : p = session[s]
    BY <1>2 DEF SendPacket, QueueTypes
  <2> DEFINE q == sendPacketQueue[p]
             j == Head(q)
  <2>2. /\ tempPackets' = [tempPackets EXCEPT ![s] = Append(tempPackets[s], j)]
        /\ sendPacketQueue' = [sendPacketQueue EXCEPT ![p] = Tail(q)]
        /\ UNCHANGED <<pool, packages, completedSendPacketQueue>>
    BY <1>2, <2>1 DEF SendPacket, poolVars
  <2>3. q # <<>> /\ j \in Packets
    <3>1. Len(q) # 0
      BY <1>1, <1>2, <2>1, Entries DEF SendPacket, MoreToSend
    <3> QED
      BY <1>1, <3>1, Entries, HeadTailProperties
  <2>4. /\ Range(q) \subseteq {j} \cup Range(Tail(q))
        /\ Range(Append(tempPackets[s], j)) = Range(tempPackets[s]) \cup {j}
    BY <1>1, <2>3, QueueRanges
  <2> HIDE DEF q, j
  <2>5. Queued(tempPackets, k) => Queued(tempPackets, k)'
    BY <2>2, <2>4, QueuedStill
  <2>6. k = j => Queued(tempPackets, k)'
    BY <1>1, <2>2, <2>4 DEF Queued
  <2>7. k # j /\ Queued(sendPacketQueue, k) => Queued(sendPacketQueue, k)'
    BY <2>2, <2>4, QueuedStill DEF q
  <2> QED
    BY <2>2, <2>5, <2>6, <2>7 DEF Kept, PackagesOf
<1>3. ASSUME NEW s \in Senders, PushCompleted(s) PROVE Kept(k)'
  <2> DEFINE p == Head(todo[s])
  <2>1. p \in Players
    BY <1>3, Entries, HeadTailProperties DEF PushCompleted, AtWork, QueueTypes
  <2>2. /\ completedSendPacketQueue' =
             [completedSendPacketQueue EXCEPT ![p] = completedSendPacketQueue[p] \o tempPackets[s]]
        /\ tempPackets' = [tempPackets EXCEPT ![s] = <<>>]
        /\ UNCHANGED <<pool, packages, sendPacketQueue>>
    BY <1>3 DEF PushCompleted, poolVars
  <2> HIDE DEF p
  <2>3. Range(completedSendPacketQueue[p] \o tempPackets[s]) =
          Range(completedSendPacketQueue[p]) \cup Range(tempPackets[s])
    BY <1>1, <2>1, QueueRanges
  <2>4. Queued(completedSendPacketQueue, k) => Queued(completedSendPacketQueue, k)'
    BY <2>2, <2>3, QueuedStill
  <2>5. k \in Range(tempPackets[s]) => Queued(completedSendPacketQueue, k)'
    BY <1>1, <2>1, <2>2, <2>3 DEF Queued
  <2>6. k \notin Range(tempPackets[s]) /\ Queued(tempPackets, k) => Queued(tempPackets, k)'
    BY <2>2, QueuedStill
  <2> QED
    BY <2>2, <2>4, <2>5, <2>6 DEF Kept, PackagesOf
<1>4. ASSUME NEW p \in Players, OnSent(p) PROVE Kept(k)'
  <2> DEFINE q == completedSendPacketQueue[p]
             n == Returned(Len(q))
             r == SubSeq(q, n + 1, Len(q))
  <2>1. /\ completedSendPacketQueue' = [completedSendPacketQueue EXCEPT ![p] = r]
        /\ pool' = pool \cup {q[i] : i \in 1..n}
        /\ UNCHANGED <<packages, sendPacketQueue, tempPackets>>
    BY <1>4 DEF OnSent, senderVars
  <2>2. Range(q) \subseteq {q[i] : i \in 1..n} \cup Range(r)
    BY <1>1, Entries, ReturnedBounds, QueueRanges
  <2> HIDE DEF q, n, r
  <2>3. k \notin pool' /\ Queued(completedSendPacketQueue, k) => Queued(completedSendPacketQueue, k)'
    BY <2>1, <2>2, QueuedStill DEF q
  <2> QED
    BY <2>1, <2>3 DEF Kept, PackagesOf
<1> QED
  BY <1>2, <1>3, <1>4

\* Every other step keeps what it finds.
LEMMA StepKept ==
  ASSUME IInv, [Next]_vars, NEW k \in Packets, Kept(k), ~Kept(k)'
  PROVE  \E t \in Producers : /\ packages[t] # <<>>
                              /\ Head(packages[t]).packet = k
                              /\ LeftOut(Head(packages[t]).player)
<1>1. ASSUME UNCHANGED <<pool, packages, sendPacketQueue, tempPackets, completedSendPacketQueue>>
      PROVE  FALSE
  BY <1>1 DEF Kept, PackagesOf
<1>2. PICK t \in Producers : BroadCastPacket(t)
  <2>1. ~UNCHANGED vars
    BY <1>1 DEF vars, poolVars, senderVars
  <2>2. ASSUME NEW p \in Players PROVE ~AddPlayer(p) /\ ~RemovePlayer(p) /\ ~SendAborted(p)
    BY <1>1 DEF AddPlayer, RemovePlayer, SendAborted, poolVars, senderVars
  <2>3. ASSUME NEW s \in Senders PROVE ~BeginTurn(s) /\ ~LockSession(s) /\ ~UnlockSession(s)
    BY <1>1 DEF BeginTurn, LockSession, UnlockSession, poolVars
  <2>4. \/ \E t \in Producers, p \in Players, m \in Messages : PopPacket(t, p, m)
        \/ \E t \in Producers : BroadCastPacket(t)
        \/ \E s \in Senders : SendPacket(s) \/ PushCompleted(s)
        \/ \E p \in Players : OnSent(p)
    BY <2>1, <2>2, <2>3 DEF Next, SenderStep
  <2> QED
    BY <2>4, KeptByProducers, KeptBySenders
<1>3. Head(packages[t]).packet = k /\ LeftOut(Head(packages[t]).player)
  BY <1>2, KeptByProducers
<1> QED
  BY <1>2, <1>3 DEF BroadCastPacket

\* LostOnlyLeftOut, as an action
Lost ==
  \A k \in Packets : Places(k) = 1 /\ Places(k)' = 0 =>
    \E t \in Producers : /\ packages[t] # <<>>
                         /\ Head(packages[t]).packet = k
                         /\ LeftOut(Head(packages[t]).player)

\* In every reachable state what the server can find is in one place.
KeptInOne == \A k \in Packets : Places(k) = IF Kept(k) THEN 1 ELSE 0

\* A packet that the server has in some place stays in one, from step to step, unless
\* a broadcast leaves out the player for whom it was popped: nothing else leaks.
THEOREM LostOnlyLeftOutAlways == Spec => LostOnlyLeftOut
<1>1. IInv => KeptInOne
  BY OwnPlaceIsOne DEF KeptInOne
<1>2. IInv /\ [Next]_vars /\ KeptInOne /\ KeptInOne' => [Lost]_vars
  BY StepKept DEF KeptInOne, Lost
<1> QED
  BY <1>1, <1>2, SendPathInvariance, PTL DEF Spec, LostOnlyLeftOut, Lost

-----------------------------------------------------------------------------
(* What is pushed is sent.                                                 *)

\* A packet that is filled or reset waits neither in a package nor for a client.
LEMMA ContentChanges ==
  ASSUME IInv, [Next]_vars, NEW k \in Packets, content'[k] # content[k]
  PROVE  /\ \A p \in Players : \A i \in 1..Len(sendPacketQueue[p]) :
              sendPacketQueue[p][i] # k
         /\ \A t \in Producers : \A i \in 1..Len(packages[t]) : packages[t][i].packet # k
<1> USE DEF IInv
<1>1. PICK place \in [Packets -> Kinds \X Owners] : InPlace(place)
  BY DEF OwnPlaces
<1>2. \/ \E t \in Producers, p \in Players, m \in Messages : PopPacket(t, p, m)
      \/ \E p \in Players : OnSent(p)
  BY DEF Next, vars, poolVars, senderVars, SenderStep, AddPlayer, RemovePlayer, SendAborted,
         BroadCastPacket, BeginTurn, LockSession, SendPacket, UnlockSession, PushCompleted
<1>3. place[k] \in {New, Pool} \cup {Completed(p) : p \in Players}
  <2>1. ASSUME NEW t \in Producers, NEW p \in Players, NEW m \in Messages,
               PopPacket(t, p, m)
        PROVE  place[k] \in {New, Pool}
    <3>1. PICK new \in Added : \E j \in pool \cup new : content' = [content EXCEPT ![j] = m]
      BY <2>1 DEF PopPacket
    <3>2. k \in pool \cup new
      BY <3>1 DEF TypeOK
    <3>3. k \in pool => place[k] = Pool
      BY <1>1 DEF InPlace
    <3>4. k \in new => place[k] = New
      BY <1>1, AddedNew DEF InPlace
    <3> QED
      BY <3>2, <3>3, <3>4
  <2>2. ASSUME NEW p \in Players, OnSent(p)
        PROVE  place[k] = Completed(p)
    <3>1. PICK q \in Seq(Packets) : q = completedSendPacketQueue[p]
      BY DEF QueueTypes
    <3>2. PICK n \in 0..Len(q) : n = Returned(Len(q))
      BY Entries, ReturnedBounds
    <3>3. \E i \in 1..n : k = q[i]
      BY <2>2, <3>1, <3>2 DEF OnSent
    <3>4. \E i \in 1..Len(q) : k = q[i]
      BY <3>3, Entries
    <3>5. Holds(place, q, Completed(p))
      BY <1>1, <3>1 DEF InPlace
    <3> QED
      BY <3>4, <3>5 DEF Holds
  <2> QED
    BY <1>2, <2>1, <2>2
<1>4. \A p \in Players : Holds(place, sendPacketQueue[p], Send(p))
  BY <1>1 DEF InPlace
<1>5. \A t \in Producers : Carries(place, packages[t], Package(t))
  BY <1>1 DEF InPlace
<1>6. /\ \A p \in Players : place[k] # Send(p)
      /\ \A t \in Producers : place[k] # Package(t)
  BY <1>3, Labels
<1>7. \A p \in Players : \A i \in 1..Len(sendPacketQueue[p]) : sendPacketQueue[p][i] # k
  BY <1>4, <1>6 DEF Holds
<1>8. \A t \in Producers : \A i \in 1..Len(packages[t]) : packages[t][i].packet # k
  BY <1>5, <1>6 DEF Carries
<1> QED
  BY <1>7, <1>8

\* What a package says is a message.
Filled == \A t \in Producers : \A i \in 1..Len(packages[t]) :
            content[packages[t][i].packet] \in Messages

\* Only PopPacket adds a package, and it has filled it.
LEMMA StepFilled ==
  ASSUME IInv, Filled, [Next]_vars
  PROVE  Filled'
<1> USE DEF IInv
<1>1. SUFFICES ASSUME NEW t \in Producers, NEW i \in 1..Len(packages'[t])
               PROVE  content'[packages'[t][i].packet] \in Messages
  BY DEF Filled
<1>2. packages[t] \in Seq(PackageSet)
  BY DEF QueueTypes
<1>3. ASSUME NEW j \in 1..Len(packages[t])
      PROVE  content'[packages[t][j].packet] \in Messages
  <2>0. packages[t][j] \in PackageSet
    BY <1>2, Entries
  <2>1. packages[t][j].packet \in Packets
    BY <2>0 DEF PackageSet
  <2>2. content'[packages[t][j].packet] = content[packages[t][j].packet]
    BY <2>1, ContentChanges
  <2> QED
    BY <2>2 DEF Filled
<1>4. CASE packages'[t] = packages[t]
  BY <1>3, <1>4
<1>5. CASE packages[t] # <<>> /\ packages'[t] = Tail(packages[t])
  <2> DEFINE q == packages[t]
  <2>1. Len(q) \in Nat /\ Len(Tail(q)) = Len(q) - 1 /\ Tail(q)[i] = q[i + 1]
    BY <1>2, <1>5, Entries, HeadTailProperties
  <2>2. i + 1 \in 1..Len(q)
    BY <1>5, <2>1
  <2> QED
    BY <1>3, <1>5, <2>1, <2>2
<1>6. CASE \E p \in Players, m \in Messages : PopPacket(t, p, m)
  <2>1. PICK p \in Players, m \in Messages : PopPacket(t, p, m)
    BY <1>6
  <2>2. PICK new \in Added : \E k \in pool \cup new :
          /\ content' = [content EXCEPT ![k] = m]
          /\ packages' = [packages EXCEPT ![t] = Append(@, [packet |-> k, player |-> p])]
    BY <2>1 DEF PopPacket
  <2>3. PICK k \in Packets :
          /\ content' = [content EXCEPT ![k] = m]
          /\ packages' = [packages EXCEPT ![t] = Append(@, [packet |-> k, player |-> p])]
    BY <2>2, AddedNew DEF TypeOK
  <2>4. PICK g \in PackageSet : g = [packet |-> k, player |-> p]
    BY DEF PackageSet
  <2>5. packages'[t] = Append(packages[t], g) /\ content'[g.packet] = m
    BY <2>3, <2>4 DEF QueueTypes, TypeOK
  <2> DEFINE q == packages[t]
             r == Append(q, g)
  <2>6. /\ Len(q) \in Nat /\ Len(r) = Len(q) + 1 /\ r[Len(q) + 1] = g
        /\ \A j \in 1..Len(q) : r[j] = q[j]
    BY <1>2, Entries, AppendProperties
  <2>7. i \in 1..Len(q) \/ i = Len(q) + 1
    <3>1. i \in 1..Len(r)
      BY <2>5
    <3> HIDE DEF r, q
    <3> QED
      BY <3>1, <2>6
  <2> QED
    BY <1>3, <2>5, <2>6, <2>7
<1>7. \/ packages'[t] = packages[t]
      \/ packages[t] # <<>> /\ packages'[t] = Tail(packages[t])
      \/ \E p \in Players, m \in Messages : PopPacket(t, p, m)
  <2>1. CASE UNCHANGED packages
    BY <2>1
  <2>2. ASSUME NEW u \in Producers, BroadCastPacket(u)
        PROVE  \/ packages'[t] = packages[t]
               \/ packages[t] # <<>> /\ packages'[t] = Tail(packages[t])
    BY <2>2 DEF BroadCastPacket, QueueTypes
  <2>3. ASSUME NEW u \in Producers, NEW p \in Players, NEW m \in Messages,
               PopPacket(u, p, m)
        PROVE  u = t \/ packages'[t] = packages[t]
    BY <2>3 DEF PopPacket, QueueTypes
  <2>4. \/ UNCHANGED packages
        \/ \E u \in Producers : BroadCastPacket(u)
        \/ \E u \in Producers, p \in Players, m \in Messages : PopPacket(u, p, m)
    BY DEF Next, vars, poolVars, SenderStep, AddPlayer, RemovePlayer, SendAborted, OnSent,
           BeginTurn, LockSession, SendPacket, UnlockSession, PushCompleted
  <2> QED
    BY <2>1, <2>2, <2>3, <2>4
<1> QED
  BY <1>4, <1>5, <1>6, <1>7

\* What the packets of a queue say.
Said(f, q) == [i \in DOMAIN q |-> f[q[i]]]

\* As many messages as packets.
LEMMA SaidQueue ==
  ASSUME NEW S, NEW f \in [Packets -> S], NEW q \in Seq(Packets)
  PROVE  /\ Said(f, q) \in Seq(S) /\ Len(Said(f, q)) = Len(q)
         /\ \A i \in 1..Len(q) : Said(f, q)[i] = f[q[i]]
<1>1. Len(q) \in Nat /\ DOMAIN q = 1..Len(q) /\ \A i \in 1..Len(q) : q[i] \in Packets
  BY Entries
<1>2. Said(f, q) \in [1..Len(q) -> S]
  BY <1>1 DEF Said
<1> QED
  BY <1>1, <1>2 DEF Said

\* What is said grows with the queue at its end.
LEMMA SaidAtEnd ==
  ASSUME NEW S, NEW f \in [Packets -> S], NEW q \in Seq(Packets), NEW k \in Packets
  PROVE  Said(f, Append(q, k)) = Append(Said(f, q), f[k])
<1> DEFINE r == Append(q, k)
           u == Said(f, r)
           v == Append(Said(f, q), f[k])
           n == Len(q)
<1>1. /\ n \in Nat /\ r \in Seq(Packets) /\ Len(r) = n + 1 /\ r[n + 1] = k
      /\ \A i \in 1..n : r[i] = q[i]
  BY Entries, AppendProperties
<1>2. /\ u \in Seq(S) /\ Len(u) = Len(r) /\ \A i \in 1..Len(r) : u[i] = f[r[i]]
  BY <1>1, SaidQueue
<1>3. /\ Said(f, q) \in Seq(S) /\ Len(Said(f, q)) = n
      /\ \A i \in 1..n : Said(f, q)[i] = f[q[i]]
  BY SaidQueue
<1>4. /\ v \in Seq(S) /\ Len(v) = n + 1 /\ v[n + 1] = f[k]
      /\ \A i \in 1..n : v[i] = Said(f, q)[i]
  <2>1. f[k] \in S
    OBVIOUS
  <2>2. /\ v \in Seq(S) /\ Len(v) = Len(Said(f, q)) + 1 /\ v[Len(Said(f, q)) + 1] = f[k]
        /\ \A i \in 1..Len(Said(f, q)) : v[i] = Said(f, q)[i]
    BY <1>3, <2>1, AppendProperties
  <2> HIDE DEF v, n
  <2> QED
    BY <1>3, <2>2
<1> HIDE DEF u, v, r, n
<1>5. \A i \in 1..Len(u) : i \in 1..n \/ i = n + 1
  BY <1>1, <1>2
<1>6. \A i \in 1..Len(u) : u[i] = v[i]
  BY <1>1, <1>2, <1>3, <1>4, <1>5
<1>7. u = v
  BY <1>1, <1>2, <1>4, <1>6, SeqEqual
<1> QED
  BY <1>7 DEF u, v, r

\* What is said shrinks with the queue at its front.
LEMMA SaidAtFront ==
  ASSUME NEW S, NEW f \in [Packets -> S], NEW q \in Seq(Packets), q # <<>>
  PROVE  /\ Said(f, q) # <<>> /\ Head(Said(f, q)) = f[Head(q)]
         /\ Said(f, Tail(q)) = Tail(Said(f, q))
<1> DEFINE r == Tail(q)
           u == Said(f, r)
           s == Said(f, q)
           v == Tail(s)
           n == Len(q)
<1>1. /\ n \in Nat /\ n # 0 /\ r \in Seq(Packets) /\ Len(r) = n - 1
      /\ \A i \in 1..Len(r) : r[i] = q[i + 1]
  BY Entries, HeadTailProperties
<1>2. /\ u \in Seq(S) /\ Len(u) = Len(r) /\ \A i \in 1..Len(r) : u[i] = f[r[i]]
  BY <1>1, SaidQueue
<1>3. /\ s \in Seq(S) /\ Len(s) = n /\ \A i \in 1..n : s[i] = f[q[i]]
  BY SaidQueue
<1>4. s # <<>>
  BY <1>1, <1>3, EmptySeq
<1>5. /\ v \in Seq(S) /\ Len(v) = Len(s) - 1 /\ \A i \in 1..Len(v) : v[i] = s[i + 1]
  BY <1>3, <1>4, HeadTailProperties
<1>6. Head(s) = s[1] /\ Head(q) = q[1]
  BY <1>3, <1>4
<1> HIDE DEF u, v, s, r, n
<1>7. \A i \in 1..Len(u) : i + 1 \in 1..n
  BY <1>1, <1>2
<1>8. Len(u) = Len(v) /\ \A i \in 1..Len(u) : u[i] = v[i]
  BY <1>1, <1>2, <1>3, <1>5, <1>7
<1>9. u = v
  BY <1>2, <1>5, <1>8, SeqEqual
<1>10. Head(s) = f[Head(q)]
  BY <1>1, <1>3, <1>6
<1> QED
  BY <1>4, <1>9, <1>10 DEF u, v, s, r

\* Nothing else is said while no packet of the queue changes.
LEMMA SaidAlike ==
  ASSUME NEW f, NEW g, NEW q, \A i \in DOMAIN q : f[q[i]] = g[q[i]]
  PROVE  Said(f, q) = Said(g, q)
BY DEF Said

\* What waits for the clients.
Waiting == [p \in Players |-> Said(content, sendPacketQueue[p])]

\* The queues of packets are queues of messages from which nothing is lost, doubled
\* or overtaken.
LEMMA StepChannel ==
  ASSUME IInv, Filled, [Next]_vars
  PROVE  Connection!Next \/ UNCHANGED <<Waiting, wire>>
<1> USE DEF IInv
<1> DEFINE Values == Messages \cup {None}
<1>1. content \in [Packets -> Values] /\ content' \in [Packets -> Values]
  <2>1. TypeOK'
    <3>1. IInv'
      BY StepInv
    <3> QED
      BY <3>1
  <2> QED
    BY <2>1 DEF TypeOK
<1>2. \A p \in Players : sendPacketQueue[p] \in Seq(Packets)
  BY DEF QueueTypes
<1>3. \A p \in Players :
        Said(content', sendPacketQueue[p]) = Said(content, sendPacketQueue[p])
  <2> TAKE p \in Players
  <2>1. \A i \in DOMAIN sendPacketQueue[p] :
          content'[sendPacketQueue[p][i]] = content[sendPacketQueue[p][i]]
    BY <1>2, Entries, ContentChanges
  <2> QED
    BY <2>1, SaidAlike
<1>4. CASE UNCHANGED <<sendPacketQueue, wire>>
  BY <1>3, <1>4 DEF Waiting
<1>5. ASSUME NEW t \in Producers, BroadCastPacket(t), sendPacketQueue' # sendPacketQueue
      PROVE  Connection!Next
  <2>1. PICK g \in PackageSet : g = Head(packages[t])
    BY <1>5, HeadTailProperties DEF BroadCastPacket, QueueTypes
  <2>2. PICK k \in Packets, p \in Players : k = g.packet /\ p = g.player
    BY <2>1 DEF PackageSet
  <2>3. /\ sendPacketQueue' = [sendPacketQueue EXCEPT ![p] = Append(@, k)]
        /\ UNCHANGED <<content, wire>>
    BY <1>5, <2>1, <2>2 DEF BroadCastPacket, wireVars
  <2>4. content[k] \in Messages
    <3>1. packages[t] \in Seq(PackageSet) /\ packages[t] # <<>>
      BY <1>5 DEF BroadCastPacket, QueueTypes
    <3>2. 1 \in 1..Len(packages[t]) /\ g = packages[t][1]
      BY <2>1, <3>1, Entries
    <3> QED
      BY <2>2, <3>2 DEF Filled
  <2>5. Said(content, Append(sendPacketQueue[p], k))
          = Append(Said(content, sendPacketQueue[p]), content[k])
    BY <1>1, <1>2, SaidAtEnd
  <2>6. Waiting' = [Waiting EXCEPT ![p] = Append(@, content[k])]
    BY <2>3, <2>5 DEF Waiting, QueueTypes
  <2>7. Connection!Put(p, content[k])
    BY <2>3, <2>6 DEF Connection!Put, Waiting, Contents, Said
  <2> QED
    BY <2>4, <2>7 DEF Connection!Next
<1>6. ASSUME NEW s \in Senders, SendPacket(s) PROVE Connection!Next
  <2>1. PICK p \in Players : p = session[s]
    BY <1>6 DEF SendPacket, QueueTypes
  <2>2. PICK q \in Seq(Packets) : q = sendPacketQueue[p]
    BY <1>2
  <2>3. /\ Len(tempPackets[s]) < Len(q)
        /\ wire' = [wire EXCEPT ![p] = content[Head(q)]]
        /\ sendPacketQueue' = [sendPacketQueue EXCEPT ![p] = Tail(q)]
        /\ UNCHANGED content
    BY <1>6, <2>1, <2>2 DEF SendPacket, MoreToSend, poolVars
  <2>4. q # <<>>
    BY <2>3, Entries DEF QueueTypes
  <2>5. /\ Said(content, q) # <<>> /\ Head(Said(content, q)) = content[Head(q)]
        /\ Said(content, Tail(q)) = Tail(Said(content, q))
    BY <1>1, <2>4, SaidAtFront
  <2>6. Waiting' = [Waiting EXCEPT ![p] = Tail(@)] /\ Waiting[p] = Said(content, q)
    BY <2>2, <2>3, <2>5 DEF Waiting, QueueTypes
  <2>7. Connection!Take(p)
    BY <2>3, <2>5, <2>6 DEF Connection!Take, Waiting, Contents, Said
  <2> QED
    BY <2>7 DEF Connection!Next
<1>7. \/ UNCHANGED <<sendPacketQueue, wire>>
      \/ \E t \in Producers : BroadCastPacket(t)
      \/ \E s \in Senders : SendPacket(s)
  BY DEF Next, vars, wireVars, SenderStep, AddPlayer, RemovePlayer, SendAborted, OnSent,
         PopPacket, BeginTurn, LockSession, UnlockSession, PushCompleted
<1>8. ASSUME NEW t \in Producers, BroadCastPacket(t) PROVE UNCHANGED wire
  BY <1>8 DEF BroadCastPacket, wireVars
<1> QED
  BY <1>4, <1>5, <1>6, <1>7, <1>8

\* The server sends to each client what was pushed for it, once and in the order of the
\* calls: SendPath implements Channel.
THEOREM SendImplementsChannel == Spec => ImplementsChannel
<1>1. Init => Connection!Init
  BY DEF Init, Connection!Init, Contents
<1>2. Init => Filled
  BY DEF Init, Filled
<1>3. IInv /\ Filled /\ [Next]_vars => Filled'
  BY StepFilled
<1>4. IInv /\ Filled /\ [Next]_vars =>
        [Connection!Next]_<<[p \in Players |-> Contents(sendPacketQueue[p])], wire>>
  BY StepChannel DEF Waiting, Said, Contents
<1> QED
  BY <1>1, <1>2, <1>3, <1>4, SendPathInvariance, PTL
     DEF Spec, ImplementsChannel, Connection!Spec
=============================================================================
