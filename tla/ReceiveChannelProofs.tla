------------------------ MODULE ReceiveChannelProofs ------------------------
(***************************************************************************)
(* The receive path implements Channel: proved for every number of players *)
(* and workers, all lengths of messages and every way in which receives    *)
(* cut the stream.  The messages of a client stand in one line, by their   *)
(* numbers: handled, in the package queue, in a worker's hand, cut out of  *)
(* the stream, in the stream.  The invariant says where each stretch of    *)
(* the line begins and ends; no induction over a sequence is needed.       *)
(***************************************************************************)
EXTENDS ReceivePathProofs

\* Of two bytes of a stream the second, d bytes behind, belongs to the same message and
\* is d bytes behind in it, or to a later one.
Before(b, c, d) ==
  \/ b.message = c.message /\ c.at = b.at + d
  \/ b.message.number < c.message.number

Ordered(s) == \A i, j \in 1..Len(s) : i < j => Before(s[i], s[j], j - i)

\* From each message of the stream to the last that was sent none is left out.
UpTo(s, n) ==
  \A i \in 1..Len(s) :
    /\ s[i].message.number <= n
    /\ \A k \in s[i].message.number..n : \E j \in 1..Len(s) : s[j].message.number = k

\* The number of the first message of a stream that ends with the last that was sent
First(s, n) == IF s = <<>> THEN n + 1 ELSE s[1].message.number

\* The packages of a player are those after the one numbered a up to b, in order.
PackagesInOrder(gs, p, a, b) ==
  /\ \A i \in 1..Len(gs) : gs[i].player = p =>
       /\ gs[i].packet.number \in (a + 1)..b
       /\ \A j \in 1..Len(gs) :
            i < j /\ gs[j].player = p => gs[i].packet.number < gs[j].packet.number
  /\ \A n \in (a + 1)..b :
       \E i \in 1..Len(gs) : gs[i].player = p /\ gs[i].packet.number = n

Consecutive(ms, a) == \A i \in 1..Len(ms) : ms[i].number = a + i

\* The last message of a client that was handled, put into the package queue, taken from
\* recvPacketQueue, and cut out of the stream
Done(p) == IF handled[p] = None THEN 0 ELSE handled[p].number
Cut(p) == First(Stream(p), sent[p]) - 1
Moved(p) == Cut(p) - Len(recvPacketQueue[p])
Holds(w, p) == serving[w] = p /\ inHand[w] # <<>>
PutUpTo(p) == IF \E w \in Workers : Holds(w, p) THEN Moved(p) - 1 ELSE Moved(p)

LineOf(p) ==
  /\ Ordered(Stream(p)) /\ UpTo(Stream(p), sent[p])
  /\ Consecutive(recvPacketQueue[p], Moved(p))
  /\ \A w \in Workers : Holds(w, p) => inHand[w][1].number = Moved(p)
  /\ Done(p) <= PutUpTo(p)
  /\ PackagesInOrder(packageQueue, p, Done(p), PutUpTo(p))

LineInv == \A p \in Players : LineOf(p)

-----------------------------------------------------------------------------
(* Messages, streams and packages.                                         *)

\* A message has one of the numbers from 1.
LEMMA NumberOfMessage ==
  ASSUME NEW m \in Messages
  PROVE  m.number \in Nat /\ m.number >= 1 /\ m.number <= MaxSent
<1>1. m.number \in 1..MaxSent
  BY DEF Messages
<1> QED
  BY <1>1, ReceivePathAssumption

\* A byte carries its message and its place there.
LEMMA NumberOfByte ==
  ASSUME NEW b \in Byte
  PROVE  /\ b.message \in Messages /\ b.at \in Nat
         /\ b.message.number \in Nat /\ b.message.number >= 1
BY NumberOfMessage DEF Byte

\* A stream and the next message.
LEMMA OrderedWithMessage ==
  ASSUME NEW s \in Bytestreams, NEW n \in Nat, Ordered(s), UpTo(s, n),
         NEW m \in Messages, m.number = n + 1
  PROVE  /\ Ordered(s \o Bytes(m)) /\ UpTo(s \o Bytes(m), n + 1)
         /\ First(s \o Bytes(m), n + 1) = First(s, n)
<1> DEFINE r == Bytes(m)
           t == s \o r
           l == Len(s)
<1>1. m.length \in Nat /\ m.length >= 1
  BY LengthOfMessage
<1>2. r \in Bytestreams
  BY BytesType
<1>3. Len(r) = m.length /\ \A j \in 1..m.length : r[j] = [message |-> m, at |-> j]
  BY <1>1 DEF Bytes
<1> HIDE DEF r
<1>4. /\ l \in Nat /\ Len(t) = l + m.length /\ t \in Bytestreams
      /\ \A i \in 1..l : t[i] = s[i] /\ s[i] \in Byte
      /\ \A i \in 1..m.length : t[l + i] = [message |-> m, at |-> i]
  <2>1. /\ l \in Nat /\ Len(t) = l + Len(r) /\ t \in Bytestreams
        /\ \A i \in 1..l : t[i] = s[i] /\ s[i] \in Byte
        /\ \A i \in 1..Len(r) : t[l + i] = r[i]
    BY <1>2, Streams
  <2> HIDE DEF t, l
  <2> QED
    BY <2>1, <1>3
<1>5. \A i \in 1..l : s[i].message.number \in Nat /\ s[i].message.number <= n
  BY <1>4, NumberOfByte DEF UpTo
<1>6. \A i \in (l + 1)..Len(t) : t[i].message = m /\ t[i].at = i - l
  <2> SUFFICES ASSUME NEW i \in (l + 1)..Len(t) PROVE t[i].message = m /\ t[i].at = i - l
    OBVIOUS
  <2> HIDE DEF t, l
  <2>1. i - l \in 1..m.length /\ l + (i - l) = i
    BY <1>1, <1>4
  <2>2. t[l + (i - l)] = [message |-> m, at |-> i - l]
    BY <2>1, <1>4
  <2> QED
    BY <2>1, <2>2
<1>7. s = <<>> <=> l = 0
  BY Nothing
<1>8. \A i, j \in 1..l : i < j => Before(s[i], s[j], j - i)
  BY DEF Ordered
<1>9. \A i \in 1..l : \A k \in s[i].message.number..n : \E j \in 1..l : s[j].message.number = k
  BY DEF UpTo
<1> HIDE DEF t, l
<1>10. ASSUME NEW i \in 1..Len(t), NEW j \in 1..Len(t), i < j
       PROVE  Before(t[i], t[j], j - i)
  <2>1. CASE j <= l
    <3>1. i \in 1..l /\ j \in 1..l
      BY <2>1, <1>4, <1>10
    <3> QED
      BY <3>1, <1>4, <1>8, <1>10
  <2>2. CASE i <= l /\ j > l
    <3>1. i \in 1..l /\ j \in (l + 1)..Len(t)
      BY <2>2, <1>1, <1>4
    <3>2. t[i].message.number < n + 1
      BY <3>1, <1>4, <1>5
    <3> QED
      BY <3>1, <3>2, <1>6 DEF Before
  <2>3. CASE i > l
    <3>1. i \in (l + 1)..Len(t) /\ j \in (l + 1)..Len(t) /\ j - l = (i - l) + (j - i)
      BY <2>3, <1>1, <1>4, <1>10
    <3> QED
      BY <3>1, <1>6 DEF Before
  <2> QED
    BY <2>1, <2>2, <2>3, <1>1, <1>4
<1>11. Ordered(t)
  BY <1>10 DEF Ordered
<1>12. l + 1 \in 1..Len(t) /\ t[l + 1].message.number = n + 1
  <2>1. l + 1 \in (l + 1)..Len(t) /\ l + 1 \in 1..Len(t)
    BY <1>1, <1>4
  <2> QED
    BY <2>1, <1>6
<1>13. ASSUME NEW i \in 1..Len(t)
       PROVE  /\ t[i].message.number <= n + 1
              /\ \A k \in t[i].message.number..(n + 1) :
                   \E j \in 1..Len(t) : t[j].message.number = k
  <2>1. CASE i <= l
    <3>1. i \in 1..l /\ t[i] = s[i] /\ s[i].message.number \in Nat
      BY <2>1, <1>4, <1>5
    <3>2. ASSUME NEW k \in s[i].message.number..(n + 1)
          PROVE  \E j \in 1..Len(t) : t[j].message.number = k
      <4>1. CASE k = n + 1
        BY <4>1, <1>12
      <4>2. CASE k # n + 1
        <5>1. k \in s[i].message.number..n
          BY <3>1, <4>2
        <5>2. PICK j \in 1..l : s[j].message.number = k
          BY <3>1, <5>1, <1>9
        <5>3. j \in 1..Len(t) /\ t[j] = s[j]
          BY <1>1, <1>4
        <5> QED
          BY <5>2, <5>3
      <4> QED
        BY <4>1, <4>2
    <3> QED
      BY <3>1, <3>2, <1>5
  <2>2. CASE i > l
    <3>1. i \in (l + 1)..Len(t)
      BY <2>2, <1>1, <1>4
    <3>2. t[i].message.number = n + 1
      BY <3>1, <1>6
    <3>3. \A k \in (n + 1)..(n + 1) : k = n + 1
      OBVIOUS
    <3> QED
      BY <3>2, <3>3, <1>12
  <2> QED
    BY <2>1, <2>2, <1>1, <1>4
<1>14. UpTo(t, n + 1)
  BY <1>13 DEF UpTo
<1>15. First(t, n + 1) = First(s, n)
  <2>1. t # <<>>
    <3>1. Len(t) # 0
      BY <1>1, <1>4
    <3> QED
      BY <3>1, <1>4, Nothing
  <2>2. CASE l = 0
    BY <2>1, <2>2, <1>7, <1>12 DEF First
  <2>3. CASE l # 0
    <3>1. 1 \in 1..l
      BY <2>3, <1>4
    <3> QED
      BY <2>1, <2>3, <3>1, <1>4, <1>7 DEF First
  <2> QED
    BY <2>2, <2>3
<1> QED
  BY <1>11, <1>14, <1>15 DEF t, r

\* A stream without its first message.
LEMMA OrderedWithoutFirst ==
  ASSUME NEW s \in Bytestreams, NEW n \in Nat, Whole(s), Ordered(s), UpTo(s, n), Len(s) >= 1
  PROVE  LET t == SubSeq(s, s[1].message.length + 1, Len(s))
         IN Ordered(t) /\ UpTo(t, n) /\ First(t, n) = First(s, n) + 1
<1> DEFINE c == Len(s)
           l == s[1].message.length
           t == SubSeq(s, l + 1, c)
           f == s[1].message.number
<1>1. c \in Nat /\ \A i \in 1..c : s[i] \in Byte
  BY Streams
<1>2. /\ s[1].at = 1 /\ l \in 1..c
  BY WholeWithoutFirst
<1>3. /\ t \in Bytestreams /\ Len(t) = c - l
      /\ \A i \in 1..(c - l) : t[i] = s[l + i]
  <2>1. l \in 0..c
    BY <1>1, <1>2
  <2> QED
    BY <2>1, Parts
<1>4. /\ \A i, j \in 1..c : i < j => Before(s[i], s[j], j - i)
      /\ \A i \in 1..c : /\ s[i].message.number \in Nat /\ s[i].message.number <= n
                         /\ s[i].at \in Nat /\ s[i].at <= s[i].message.length
                         /\ s[i].message.length \in Nat
      /\ \A i \in 1..c : \A k \in s[i].message.number..n :
           \E j \in 1..c : s[j].message.number = k
  <2>1. \A i, j \in 1..c : i < j => Before(s[i], s[j], j - i)
    BY DEF Ordered
  <2>2. \A i \in 1..c : \A k \in s[i].message.number..n : \E j \in 1..c : s[j].message.number = k
    BY DEF UpTo
  <2>3. ASSUME NEW i \in 1..c
        PROVE  /\ s[i].message.number \in Nat /\ s[i].message.number <= n
               /\ s[i].at \in Nat /\ s[i].at <= s[i].message.length
               /\ s[i].message.length \in Nat
    <3>1. s[i] \in Byte /\ s[i].message.number <= n /\ s[i].at \in 1..s[i].message.length
      BY <1>1 DEF UpTo, Whole
    <3>2. s[i].message \in Messages /\ s[i].message.number \in Nat /\ s[i].at \in Nat
      BY <3>1, NumberOfByte
    <3>3. s[i].message.length \in Nat
      BY <3>2, LengthOfMessage
    <3> QED
      BY <3>1, <3>2, <3>3
  <2> QED
    BY <2>1, <2>2, <2>3
<1>5. \A j \in 1..l : s[j].message.number = f
  <2>1. /\ 1 - s[1].at = 0
        /\ \A j \in 1..l : s[1 - s[1].at + j] = [message |-> s[1].message, at |-> j]
    <3>1. 1 \in 1..c
      BY <1>1, <1>2
    <3> QED
      BY <1>2, <3>1 DEF Whole
  <2>2. ASSUME NEW j \in 1..l PROVE s[j].message = s[1].message
    <3>1. 1 - s[1].at + j = j
      BY <1>2
    <3>2. s[1 - s[1].at + j] = [message |-> s[1].message, at |-> j]
      BY <2>1
    <3> QED
      BY <3>1, <3>2
  <2> QED
    BY <2>2
<1>6. 1 \in 1..c /\ f \in Nat /\ f <= n
  BY <1>1, <1>2, <1>4
<1>7. l = s[1].message.length
  OBVIOUS
<1> HIDE DEF c, l, t, f
\* What follows the first message belongs to later ones.
<1>8. \A i \in (l + 1)..c : f < s[i].message.number
  <2> SUFFICES ASSUME NEW i \in (l + 1)..c PROVE f < s[i].message.number
    OBVIOUS
  <2>1. i \in 1..c /\ 1 < i
    BY <1>1, <1>2
  <2>2. Before(s[1], s[i], i - 1)
    BY <2>1, <1>4, <1>6
  <2>3. ~(s[1].message = s[i].message /\ s[i].at = s[1].at + (i - 1))
    <3>1. SUFFICES ASSUME s[1].message = s[i].message, s[i].at = s[1].at + (i - 1) PROVE FALSE
      OBVIOUS
    <3>2. s[i].at <= l
      BY <2>1, <3>1, <1>4, <1>7
    <3>3. s[i].at = i
      BY <2>1, <3>1, <1>1, <1>2
    <3> QED
      BY <3>2, <3>3, <2>1, <1>1, <1>2
  <2> QED
    BY <2>2, <2>3 DEF Before, f
<1>9. \A i \in 1..Len(t) : l + i \in (l + 1)..c /\ l + i \in 1..c /\ t[i] = s[l + i]
  BY <1>1, <1>2, <1>3
<1>10. \A i \in (l + 1)..c : i - l \in 1..Len(t) /\ t[i - l] = s[i]
  <2> SUFFICES ASSUME NEW i \in (l + 1)..c PROVE i - l \in 1..Len(t) /\ t[i - l] = s[i]
    OBVIOUS
  <2>1. i - l \in 1..Len(t) /\ l + (i - l) = i
    BY <1>1, <1>2, <1>3
  <2> QED
    BY <2>1, <1>9
<1>11. Ordered(t)
  <2> SUFFICES ASSUME NEW i \in 1..Len(t), NEW j \in 1..Len(t), i < j
               PROVE  Before(t[i], t[j], j - i)
    BY DEF Ordered
  <2>1. l + i < l + j /\ (l + j) - (l + i) = j - i
    BY <1>1, <1>2, <1>3
  <2>2. Before(s[l + i], s[l + j], (l + j) - (l + i))
    BY <2>1, <1>4, <1>9
  <2> QED
    BY <2>1, <2>2, <1>9
<1>12. ASSUME NEW k \in (f + 1)..n
       PROVE  \E j \in 1..Len(t) : t[j].message.number = k
  <2>1. k \in f..n
    BY <1>6
  <2>2. PICK j \in 1..c : s[j].message.number = k
    BY <2>1, <1>4, <1>6 DEF f
  <2>3. ~(j \in 1..l)
    BY <2>2, <1>5, <1>6
  <2>4. j \in (l + 1)..c
    BY <2>3, <1>1, <1>2
  <2> QED
    BY <2>2, <2>4, <1>10
<1>13. UpTo(t, n)
  <2> SUFFICES ASSUME NEW i \in 1..Len(t)
               PROVE  /\ t[i].message.number <= n
                      /\ \A k \in t[i].message.number..n :
                           \E j \in 1..Len(t) : t[j].message.number = k
    BY DEF UpTo
  <2>1. t[i].message.number \in Nat /\ t[i].message.number <= n /\ f < t[i].message.number
    BY <1>4, <1>8, <1>9
  <2>2. \A k \in t[i].message.number..n : k \in (f + 1)..n
    BY <2>1, <1>6
  <2> QED
    BY <2>1, <2>2, <1>12
<1>14. First(t, n) = f + 1
  <2>1. CASE t = <<>>
    <3>1. Len(t) = 0
      BY <2>1, Nothing
    <3>2. ~(f + 1 \in (f + 1)..n)
      BY <3>1, <1>12
    <3>3. f = n
      BY <3>2, <1>6
    <3> QED
      BY <2>1, <3>3 DEF First
  <2>2. CASE t # <<>>
    <3>1. 1 \in 1..Len(t) /\ Len(t) \in Nat
      <4>1. Len(t) \in Nat
        BY <1>1, <1>2, <1>3
      <4>2. Len(t) # 0
        BY <2>2, <1>3, Nothing
      <4> QED
        BY <4>1, <4>2
    <3>2. /\ t[1].message.number \in Nat /\ t[1].message.number <= n
          /\ f < t[1].message.number
      BY <3>1, <1>4, <1>8, <1>9
    <3>3. PICK j \in 1..Len(t) : t[j].message.number = f + 1
      <4>1. f + 1 \in (f + 1)..n
        BY <3>2, <1>6
      <4> QED
        BY <4>1, <1>12
    <3>4. t[1].message.number <= t[j].message.number
      <4>1. CASE j = 1
        BY <3>2, <4>1
      <4>2. CASE j # 1
        <5>1. Before(t[1], t[j], j - 1)
          BY <3>1, <4>2, <1>11 DEF Ordered
        <5>2. t[j].message.number \in Nat
          BY <1>4, <1>9
        <5>3. \/ t[1].message.number = t[j].message.number
              \/ t[1].message.number < t[j].message.number
          BY <5>1 DEF Before
        <5> QED
          BY <3>2, <5>2, <5>3
      <4> QED
        BY <4>1, <4>2
    <3>5. t[1].message.number = f + 1
      BY <3>2, <3>3, <3>4, <1>6
    <3> QED
      BY <2>2, <3>5 DEF First
  <2> QED
    BY <2>1, <2>2
<1>15. First(s, n) = f
  <2>1. s # <<>>
    BY <1>1, <1>2, Nothing DEF c
  <2> QED
    BY <2>1 DEF First, f
<1> QED
  BY <1>11, <1>13, <1>14, <1>15 DEF t, c, l

Package == [player : Players, packet : Messages]

\* A package is put behind the others.
LEMMA PackagesAppended ==
  ASSUME NEW gs \in Seq(Package), NEW g \in Package, NEW p \in Players,
         NEW a \in Nat, NEW b \in Int, a <= b, PackagesInOrder(gs, p, a, b)
  PROVE  /\ g.player # p => PackagesInOrder(Append(gs, g), p, a, b)
         /\ g.player = p /\ g.packet.number = b + 1 =>
              PackagesInOrder(Append(gs, g), p, a, b + 1)
<1> DEFINE n == Len(gs)
           hs == Append(gs, g)
<1>1. /\ n \in Nat /\ Len(hs) = n + 1
      /\ \A i \in 1..n : hs[i] = gs[i] /\ gs[i] \in Package
      /\ hs[n + 1] = g
  BY AppendProperties, LenProperties, ElementOfSeq
<1>2. \A i \in 1..n : gs[i].packet.number \in Nat
  BY <1>1, NumberOfMessage DEF Package
<1>3. /\ \A i \in 1..n : gs[i].player = p => gs[i].packet.number \in (a + 1)..b
      /\ \A i, j \in 1..n : gs[i].player = p /\ gs[j].player = p /\ i < j =>
           gs[i].packet.number < gs[j].packet.number
      /\ \A k \in (a + 1)..b : \E i \in 1..n : gs[i].player = p /\ gs[i].packet.number = k
  BY DEF PackagesInOrder
<1> HIDE DEF n, hs
<1>4. \A i \in 1..Len(hs) : i \in 1..n \/ i = n + 1
  BY <1>1
<1>5. 1..n \subseteq 1..Len(hs) /\ n + 1 \in 1..Len(hs)
  BY <1>1
<1>6. ASSUME g.player # p
      PROVE  PackagesInOrder(hs, p, a, b)
  <2>1. \A i \in 1..Len(hs) : hs[i].player = p => i \in 1..n /\ hs[i] = gs[i]
    BY <1>1, <1>4, <1>6
  <2>2. \A k \in (a + 1)..b :
          \E i \in 1..Len(hs) : hs[i].player = p /\ hs[i].packet.number = k
    <3> SUFFICES ASSUME NEW k \in (a + 1)..b
                 PROVE  \E i \in 1..Len(hs) : hs[i].player = p /\ hs[i].packet.number = k
      OBVIOUS
    <3>1. PICK i \in 1..n : gs[i].player = p /\ gs[i].packet.number = k
      BY <1>3
    <3> QED
      BY <3>1, <1>1, <1>5
  <2> QED
    BY <2>1, <2>2, <1>3 DEF PackagesInOrder
<1>7. ASSUME g.player = p, g.packet.number = b + 1
      PROVE  PackagesInOrder(hs, p, a, b + 1)
  <2>1. ASSUME NEW i \in 1..Len(hs), hs[i].player = p
        PROVE  /\ hs[i].packet.number \in (a + 1)..(b + 1)
               /\ \A j \in 1..Len(hs) : i < j /\ hs[j].player = p =>
                    hs[i].packet.number < hs[j].packet.number
    <3>1. CASE i = n + 1
      <4>1. hs[i].packet.number = b + 1 /\ \A j \in 1..Len(hs) : ~(i < j)
        BY <3>1, <1>1, <1>4, <1>7
      <4> QED
        BY <4>1
    <3>2. CASE i \in 1..n
      <4>1. hs[i] = gs[i] /\ gs[i].packet.number \in (a + 1)..b
        BY <3>2, <2>1, <1>1, <1>3
      <4>2. ASSUME NEW j \in 1..Len(hs), i < j, hs[j].player = p
            PROVE  hs[i].packet.number < hs[j].packet.number
        <5>1. CASE j = n + 1
          <6>1. hs[j].packet.number = b + 1
            BY <5>1, <1>1, <1>7
          <6> QED
            BY <6>1, <4>1
        <5>2. CASE j \in 1..n
          <6>1. hs[j] = gs[j] /\ gs[j].player = p /\ gs[i].player = p
            BY <5>2, <3>2, <4>1, <4>2, <2>1, <1>1
          <6> QED
            BY <6>1, <5>2, <3>2, <4>1, <4>2, <1>3
        <5> QED
          BY <5>1, <5>2, <1>4
      <4>3. hs[i].packet.number \in (a + 1)..(b + 1)
        BY <4>1
      <4> QED
        BY <4>2, <4>3
    <3> QED
      BY <3>1, <3>2, <1>4
  <2>2. ASSUME NEW k \in (a + 1)..(b + 1)
        PROVE  \E i \in 1..Len(hs) : hs[i].player = p /\ hs[i].packet.number = k
    <3>1. CASE k = b + 1
      BY <3>1, <1>1, <1>5, <1>7
    <3>2. CASE k # b + 1
      <4>1. k \in (a + 1)..b
        BY <3>2
      <4>2. PICK i \in 1..n : gs[i].player = p /\ gs[i].packet.number = k
        BY <4>1, <1>3
      <4> QED
        BY <4>2, <1>1, <1>5
    <3> QED
      BY <3>1, <3>2
  <2> QED
    BY <2>1, <2>2 DEF PackagesInOrder
<1> QED
  BY <1>6, <1>7 DEF hs

\* The first package is taken out.
LEMMA PackagesTaken ==
  ASSUME NEW gs \in Seq(Package), gs # <<>>, NEW p \in Players,
         NEW a \in Nat, NEW b \in Int, PackagesInOrder(gs, p, a, b)
  PROVE  /\ Head(gs).player # p => PackagesInOrder(Tail(gs), p, a, b)
         /\ Head(gs).player = p =>
              /\ Head(gs).packet.number = a + 1 /\ a + 1 <= b
              /\ PackagesInOrder(Tail(gs), p, a + 1, b)
<1> DEFINE n == Len(gs)
           ts == Tail(gs)
<1>1. /\ n \in Nat \ {0} /\ Len(ts) = n - 1 /\ Head(gs) = gs[1]
      /\ \A i \in 1..(n - 1) : ts[i] = gs[i + 1]
      /\ \A i \in 1..n : gs[i] \in Package
  <2>1. n \in Nat /\ \A i \in 1..n : gs[i] \in Package
    BY LenProperties, ElementOfSeq
  <2>2. n # 0 /\ Head(gs) = gs[1]
    BY EmptySeq
  <2>3. Len(ts) = n - 1 /\ \A i \in 1..Len(ts) : ts[i] = gs[i + 1]
    BY HeadTailProperties
  <2> HIDE DEF n, ts
  <2> QED
    BY <2>1, <2>2, <2>3
<1>2. \A i \in 1..n : gs[i].packet.number \in Nat
  BY <1>1, NumberOfMessage DEF Package
<1>3. /\ \A i \in 1..n : gs[i].player = p => gs[i].packet.number \in (a + 1)..b
      /\ \A i, j \in 1..n : gs[i].player = p /\ gs[j].player = p /\ i < j =>
           gs[i].packet.number < gs[j].packet.number
      /\ \A k \in (a + 1)..b : \E i \in 1..n : gs[i].player = p /\ gs[i].packet.number = k
  BY DEF PackagesInOrder
<1> HIDE DEF n, ts
<1>4. \A i \in 1..Len(ts) : i + 1 \in 1..n /\ i + 1 > 1 /\ ts[i] = gs[i + 1]
  BY <1>1
<1>5. \A i \in 1..n : i # 1 => i - 1 \in 1..Len(ts) /\ ts[i - 1] = gs[i]
  <2> SUFFICES ASSUME NEW i \in 1..n, i # 1 PROVE i - 1 \in 1..Len(ts) /\ ts[i - 1] = gs[i]
    OBVIOUS
  <2>1. i - 1 \in 1..Len(ts) /\ (i - 1) + 1 = i
    BY <1>1
  <2> QED
    BY <2>1, <1>4
<1>6. 1 \in 1..n
  BY <1>1
\* What is left but for the first number.
<1>7. ASSUME NEW c \in {a, a + 1}, gs[1].player = p => c = a + 1 /\ gs[1].packet.number = a + 1,
             gs[1].player # p => c = a
      PROVE  PackagesInOrder(ts, p, c, b)
  <2>1. ASSUME NEW i \in 1..Len(ts), ts[i].player = p
        PROVE  /\ ts[i].packet.number \in (c + 1)..b
               /\ \A j \in 1..Len(ts) : i < j /\ ts[j].player = p =>
                    ts[i].packet.number < ts[j].packet.number
    <3>1. gs[i + 1].player = p /\ i + 1 \in 1..n /\ ts[i] = gs[i + 1]
      BY <2>1, <1>4
    <3>2. gs[i + 1].packet.number \in (a + 1)..b
      BY <3>1, <1>3
    <3>3. gs[1].player = p => gs[1].packet.number < gs[i + 1].packet.number
      BY <3>1, <1>3, <1>4, <1>6
    <3>4. gs[i + 1].packet.number \in (c + 1)..b
      <4>1. CASE gs[1].player = p
        BY <3>2, <3>3, <4>1, <1>7
      <4>2. CASE gs[1].player # p
        BY <3>2, <4>2, <1>7
      <4> QED
        BY <4>1, <4>2
    <3>5. ASSUME NEW j \in 1..Len(ts), i < j, ts[j].player = p
          PROVE  ts[i].packet.number < ts[j].packet.number
      <4>1. i + 1 < j + 1 /\ j + 1 \in 1..n /\ ts[j] = gs[j + 1]
        BY <3>5, <1>1, <1>4
      <4> QED
        BY <4>1, <3>1, <3>5, <1>3
    <3> QED
      BY <3>1, <3>4, <3>5
  <2>2. ASSUME NEW k \in (c + 1)..b
        PROVE  \E i \in 1..Len(ts) : ts[i].player = p /\ ts[i].packet.number = k
    <3>1. k \in (a + 1)..b /\ k > c
      BY <1>7
    <3>2. PICK i \in 1..n : gs[i].player = p /\ gs[i].packet.number = k
      BY <3>1, <1>3
    <3>3. i # 1
      BY <3>1, <3>2, <1>7
    <3> QED
      BY <3>2, <3>3, <1>5
  <2> QED
    BY <2>1, <2>2 DEF PackagesInOrder
<1>8. ASSUME gs[1].player = p
      PROVE  gs[1].packet.number = a + 1 /\ a + 1 <= b
  <2>1. gs[1].packet.number \in (a + 1)..b
    BY <1>3, <1>6, <1>8
  <2>2. a + 1 \in (a + 1)..b
    BY <2>1
  <2>3. PICK i \in 1..n : gs[i].player = p /\ gs[i].packet.number = a + 1
    BY <2>2, <1>3
  <2>4. i # 1 => gs[1].packet.number < a + 1
    <3>1. i # 1 => 1 < i
      OBVIOUS
    <3> QED
      BY <2>3, <3>1, <1>3, <1>6, <1>8
  <2> QED
    BY <2>1, <2>2, <2>3, <2>4
<1>9. gs[1].player # p => PackagesInOrder(ts, p, a, b)
  <2>1. a \in {a, a + 1}
    OBVIOUS
  <2> QED
    BY <2>1, <1>7
<1>10. gs[1].player = p => PackagesInOrder(ts, p, a + 1, b)
  <2>1. a + 1 \in {a, a + 1}
    OBVIOUS
  <2> QED
    BY <2>1, <1>7, <1>8
<1> QED
  BY <1>1, <1>8, <1>9, <1>10 DEF ts

-----------------------------------------------------------------------------
(* Sets of messages with consecutive numbers.                              *)

Covers(ms, a, b) ==
  /\ ms \subseteq Messages
  /\ \A m \in ms : m.number \in (a + 1)..b
  /\ \A n \in (a + 1)..b : \E m \in ms : m.number = n
  /\ \A m, k \in ms : m.number = k.number => m = k

\* Two stretches of the line, one after the other
LEMMA CoversJoined ==
  ASSUME NEW ms, NEW ks, NEW a \in Int, NEW b \in Int, NEW c \in Int, a <= b, b <= c,
         Covers(ms, a, b), Covers(ks, b, c)
  PROVE  Covers(ms \cup ks, a, c)
<1>1. ASSUME NEW m \in ms \cup ks PROVE m.number \in (a + 1)..c
  BY DEF Covers
<1>2. ASSUME NEW n \in (a + 1)..c PROVE \E m \in ms \cup ks : m.number = n
  <2>1. n \in (a + 1)..b \/ n \in (b + 1)..c
    OBVIOUS
  <2> QED
    BY <2>1 DEF Covers
<1>3. ASSUME NEW m \in ms, NEW k \in ks PROVE m.number # k.number
  <2>1. m.number \in (a + 1)..b /\ k.number \in (b + 1)..c
    BY DEF Covers
  <2> QED
    BY <2>1
<1>4. ms \cup ks \subseteq Messages /\ \A m, k \in ms \cup ks : m.number = k.number => m = k
  BY <1>3 DEF Covers
<1> QED
  BY <1>1, <1>2, <1>4 DEF Covers

\* What InOrder makes of a stretch that ends with the last message.
LEMMA OrderOfCovered ==
  ASSUME NEW ms, NEW a \in Nat, NEW b \in Nat, a <= b, Covers(ms, a, b)
  PROVE  /\ InOrder(ms, b) \in Seq(Messages) /\ Len(InOrder(ms, b)) = b - a
         /\ \A i \in 1..(b - a) : InOrder(ms, b)[i] \in ms /\ InOrder(ms, b)[i].number = a + i
<1> DEFINE P(n) == n \in {b} \cup {m.number - 1 : m \in ms} /\ \A m \in ms : n < m.number
           over == CHOOSE n \in {b} \cup {m.number - 1 : m \in ms} : \A m \in ms : n < m.number
<1>1. \A m \in ms : m.number \in (a + 1)..b
  BY DEF Covers
<1>2. P(a)
  <2>1. CASE a = b
    <3>1. ms = {}
      BY <1>1, <2>1
    <3> QED
      BY <2>1, <3>1
  <2>2. CASE a < b
    <3>1. a + 1 \in (a + 1)..b
      BY <2>2
    <3>2. PICK m \in ms : m.number = a + 1
      BY <3>1 DEF Covers
    <3>3. m.number - 1 = a
      BY <3>2
    <3> QED
      BY <3>3, <1>1
  <2> QED
    BY <2>1, <2>2
<1>3. ASSUME NEW n, P(n) PROVE n = a
  <2>1. n \in Int /\ n >= a /\ n <= b
    BY <1>1, <1>3
  <2>2. CASE n > a
    <3>1. a + 1 \in (a + 1)..b
      BY <2>1, <2>2
    <3>2. PICK m \in ms : m.number = a + 1
      BY <3>1 DEF Covers
    <3> QED
      BY <3>2, <2>1, <2>2, <1>3
  <2> QED
    BY <2>1, <2>2
<1>4. over = a
  <2>1. P(over)
    BY <1>2
  <2> QED
    BY <2>1, <1>3
<1>5. InOrder(ms, b) = [i \in 1..(b - a) |-> Numbered(ms, a + i)]
  <2>1. InOrder(ms, b) = [i \in 1..(b - over) |-> Numbered(ms, over + i)]
    BY DEF InOrder
  <2> HIDE DEF over
  <2> QED
    BY <2>1, <1>4
<1>6. ASSUME NEW i \in 1..(b - a)
      PROVE  Numbered(ms, a + i) \in ms /\ Numbered(ms, a + i).number = a + i
  <2>1. a + i \in (a + 1)..b
    OBVIOUS
  <2>2. \E m \in ms : m.number = a + i
    BY <2>1 DEF Covers
  <2> QED
    BY <2>2 DEF Numbered
<1>7. \A i \in 1..(b - a) : Numbered(ms, a + i) \in Messages
  BY <1>6 DEF Covers
<1>8. b - a \in Nat
  OBVIOUS
<1>9. InOrder(ms, b) \in Seq(Messages) /\ Len(InOrder(ms, b)) = b - a
  <2> DEFINE l == b - a
             f == [i \in 1..l |-> Numbered(ms, a + i)]
  <2>1. f \in [1..l -> Messages] /\ l \in Nat
    BY <1>7, <1>8
  <2> HIDE DEF l
  <2>2. f \in Seq(Messages) /\ Len(f) = l
    BY <2>1
  <2> QED
    BY <2>2, <1>5 DEF l
<1> QED
  BY <1>5, <1>6, <1>9

\* Of two sets, one in the other, each with one message for a number, both have the same.
LEMMA SameMessage ==
  ASSUME NEW ms, NEW ks, NEW a, NEW b, NEW c, NEW d, Covers(ms, a, b), Covers(ks, c, d),
         ms \subseteq ks \/ ks \subseteq ms, NEW m \in ms, NEW k \in ks,
         m.number = k.number
  PROVE  m = k
BY DEF Covers

\* The line stays, is extended by a message, and loses the first.
LEMMA LineStays ==
  ASSUME NEW ms, NEW ks, NEW a \in Nat, NEW b \in Nat, a <= b,
         Covers(ms, a, b), Covers(ks, a, b), ks \subseteq ms
  PROVE  InOrder(ks, b) = InOrder(ms, b)
<1> DEFINE s == InOrder(ms, b)
           t == InOrder(ks, b)
<1>1. /\ s \in Seq(Messages) /\ Len(s) = b - a
      /\ \A i \in 1..(b - a) : s[i] \in ms /\ s[i].number = a + i
  BY OrderOfCovered
<1>2. /\ t \in Seq(Messages) /\ Len(t) = b - a
      /\ \A i \in 1..(b - a) : t[i] \in ks /\ t[i].number = a + i
  BY OrderOfCovered
<1> HIDE DEF s, t
<1>3. ASSUME NEW i \in 1..Len(t) PROVE s[i] = t[i]
  <2>1. s[i] \in ms /\ t[i] \in ks /\ s[i].number = t[i].number
    BY <1>1, <1>2
  <2> QED
    BY <2>1, SameMessage
<1> QED
  BY <1>1, <1>2, <1>3, SeqEqual DEF s, t

\* t is s with the message k behind it.
Extended(t, s, k) == t = Append(s, k)

\* The line of messages when one more is on its way.
LEMMA LineExtended ==
  ASSUME NEW ms, NEW ks, NEW a \in Nat, NEW b \in Nat, NEW c \in Nat, a <= b, c = b + 1,
         Covers(ms, a, b), Covers(ks, a, c), ms \subseteq ks,
         NEW k \in ks, k.number = c
  PROVE  Extended(InOrder(ks, c), InOrder(ms, b), k)
<1> DEFINE s == InOrder(ms, b)
           t == InOrder(ks, c)
           u == Append(s, k)
<1>1. /\ s \in Seq(Messages) /\ Len(s) = b - a
      /\ \A i \in 1..(b - a) : s[i] \in ms /\ s[i].number = a + i
  BY OrderOfCovered
<1>2. /\ t \in Seq(Messages) /\ Len(t) = b + 1 - a
      /\ \A i \in 1..(b + 1 - a) : t[i] \in ks /\ t[i].number = a + i
  <2>1. a <= c
    OBVIOUS
  <2>2. /\ InOrder(ks, c) \in Seq(Messages) /\ Len(InOrder(ks, c)) = c - a
        /\ \A i \in 1..(c - a) : InOrder(ks, c)[i] \in ks /\ InOrder(ks, c)[i].number = a + i
    BY <2>1, OrderOfCovered
  <2> QED
    BY <2>2
<1> HIDE DEF s, t
<1>3. k \in Messages
  BY DEF Covers
<1>4. /\ u \in Seq(Messages) /\ Len(u) = (b - a) + 1
      /\ \A i \in 1..(b - a) : u[i] = s[i]
      /\ u[(b - a) + 1] = k
  BY <1>1, <1>3, AppendProperties
<1> HIDE DEF u
<1>5. ASSUME NEW i \in 1..Len(t) PROVE t[i] = u[i]
  <2>1. CASE i \in 1..(b - a)
    <3>1. s[i] \in ms /\ u[i] = s[i] /\ s[i].number = a + i
      BY <2>1, <1>1, <1>4
    <3>2. t[i] \in ks /\ t[i].number = a + i
      BY <1>2
    <3>3. s[i] = t[i]
      BY <3>1, <3>2, SameMessage
    <3> QED
      BY <3>1, <3>3
  <2>2. CASE ~(i \in 1..(b - a))
    <3>1. i = (b - a) + 1 /\ i \in 1..(b + 1 - a) /\ a + i = b + 1
      BY <2>2, <1>2
    <3>2. t[i] \in ks /\ t[i].number = b + 1
      BY <3>1, <1>2
    <3>3. t[i] = k
      BY <3>2 DEF Covers
    <3> QED
      BY <3>1, <3>3, <1>4
  <2> QED
    BY <2>1, <2>2
<1>6. Len(t) = Len(u)
  BY <1>2, <1>4
<1> QED
  BY <1>2, <1>4, <1>5, <1>6, SeqEqual DEF s, t, u, Extended

\* The line when its first message has been handled.
LEMMA LineShortened ==
  ASSUME NEW ms, NEW ks, NEW a \in Nat, NEW b \in Nat, a + 1 <= b,
         Covers(ms, a, b), Covers(ks, a + 1, b), ks \subseteq ms,
         NEW m \in ms, m.number = a + 1
  PROVE  /\ InOrder(ms, b) # <<>> /\ Head(InOrder(ms, b)) = m
         /\ InOrder(ks, b) = Tail(InOrder(ms, b))
<1> DEFINE s == InOrder(ms, b)
           t == InOrder(ks, b)
           u == Tail(s)
<1>1. /\ s \in Seq(Messages) /\ Len(s) = b - a
      /\ \A i \in 1..(b - a) : s[i] \in ms /\ s[i].number = a + i
  BY OrderOfCovered
<1>2. /\ t \in Seq(Messages) /\ Len(t) = b - (a + 1)
      /\ \A i \in 1..(b - (a + 1)) : t[i] \in ks /\ t[i].number = (a + 1) + i
  <2> DEFINE c == a + 1
  <2>1. c \in Nat /\ c <= b /\ Covers(ks, c, b)
    OBVIOUS
  <2> HIDE DEF c
  <2>2. /\ InOrder(ks, b) \in Seq(Messages) /\ Len(InOrder(ks, b)) = b - c
        /\ \A i \in 1..(b - c) : InOrder(ks, b)[i] \in ks /\ InOrder(ks, b)[i].number = c + i
    BY <2>1, OrderOfCovered
  <2> QED
    BY <2>2 DEF c
<1> HIDE DEF s, t
<1>3. s # <<>>
  <2>1. Len(s) # 0
    BY <1>1
  <2> QED
    BY <2>1, <1>1, EmptySeq
<1>4. Head(s) = m
  <2>1. 1 \in 1..(b - a)
    OBVIOUS
  <2>2. s[1] \in ms /\ s[1].number = a + 1
    BY <2>1, <1>1
  <2>3. Head(s) = s[1]
    BY <1>1, <1>3
  <2> QED
    BY <2>2, <2>3 DEF Covers
<1>5. /\ u \in Seq(Messages) /\ Len(u) = (b - a) - 1
      /\ \A i \in 1..((b - a) - 1) : u[i] = s[i + 1]
  BY <1>1, <1>3, HeadTailProperties
<1> HIDE DEF u
<1>6. ASSUME NEW i \in 1..Len(t) PROVE t[i] = u[i]
  <2>1. i + 1 \in 1..(b - a) /\ i \in 1..((b - a) - 1) /\ a + (i + 1) = (a + 1) + i
    BY <1>2
  <2>2. u[i] \in ms /\ u[i].number = (a + 1) + i
    BY <2>1, <1>1, <1>5
  <2>3. t[i] \in ks /\ t[i].number = (a + 1) + i
    BY <1>2
  <2> QED
    BY <2>2, <2>3 DEF Covers
<1>7. Len(t) = Len(u)
  BY <1>2, <1>5
<1> QED
  BY <1>2, <1>3, <1>4, <1>5, <1>6, <1>7, SeqEqual DEF s, t, u

-----------------------------------------------------------------------------
(* The stretches of a line.                                                *)

\* The messages of a stream cover the numbers from its first one on.
LEMMA CoverOfStream ==
  ASSUME NEW s \in Bytestreams, NEW n \in Nat, Ordered(s), UpTo(s, n)
  PROVE  /\ First(s, n) - 1 \in 0..n
         /\ Covers({b.message : b \in Range(s)}, First(s, n) - 1, n)
<1> DEFINE c == Len(s)
           f == First(s, n)
           ms == {b.message : b \in Range(s)}
<1>1. c \in Nat /\ DOMAIN s = 1..c /\ \A i \in 1..c : s[i] \in Byte
  <2>1. DOMAIN s = 1..c
    BY LenProperties DEF Bytestreams
  <2> QED
    BY <2>1, Streams
<1>2. \A i \in 1..c : s[i].message \in Messages /\ s[i].message.number \in Nat
                      /\ s[i].message.number >= 1
  BY <1>1, NumberOfByte
<1>3. ms = {s[i].message : i \in 1..c}
  BY <1>1 DEF Range
<1>4. s = <<>> <=> c = 0
  BY Nothing
<1>5. /\ \A i \in 1..c : s[i].message.number <= n
      /\ \A i \in 1..c : \A k \in s[i].message.number..n : \E j \in 1..c : s[j].message.number = k
  BY DEF UpTo
<1>6. \A i, j \in 1..c : i < j =>
        \/ s[i].message = s[j].message
        \/ s[i].message.number < s[j].message.number
  BY DEF Ordered, Before
<1>7. c # 0 => f = s[1].message.number /\ 1 \in 1..c
  BY <1>1, <1>4 DEF First
<1>8. c = 0 => f = n + 1
  BY <1>4 DEF First
<1> HIDE DEF c, f, ms
<1>9. f \in Int /\ f - 1 \in 0..n
  BY <1>2, <1>5, <1>7, <1>8
<1>10. ASSUME NEW m \in ms PROVE m \in Messages /\ m.number \in (f - 1 + 1)..n
  <2>1. PICK i \in 1..c : m = s[i].message
    BY <1>3
  <2>2. c # 0
    BY <2>1, <1>1
  <2>3. f <= m.number
    <3>1. CASE i = 1
      BY <3>1, <2>1, <2>2, <1>2, <1>7
    <3>2. CASE i # 1
      <4>1. 1 < i
        BY <3>2, <1>1
      <4>2. \/ s[1].message = s[i].message
            \/ s[1].message.number < s[i].message.number
        BY <4>1, <2>2, <1>6, <1>7
      <4> QED
        BY <4>2, <2>1, <2>2, <1>2, <1>7
    <3> QED
      BY <3>1, <3>2
  <2>4. m.number \in Nat /\ m.number <= n
    BY <2>1, <1>2, <1>5
  <2> QED
    BY <2>1, <2>3, <2>4, <1>2, <1>9
<1>11. ASSUME NEW k \in (f - 1 + 1)..n PROVE \E m \in ms : m.number = k
  <2>1. c # 0
    BY <1>8, <1>9
  <2>2. k \in s[1].message.number..n
    BY <2>1, <1>7, <1>9
  <2>3. PICK j \in 1..c : s[j].message.number = k
    BY <2>1, <2>2, <1>5, <1>7
  <2> QED
    BY <2>3, <1>3
<1>12. ASSUME NEW m \in ms, NEW k \in ms, m.number = k.number PROVE m = k
  <2>1. PICK i \in 1..c : m = s[i].message
    BY <1>3
  <2>2. PICK j \in 1..c : k = s[j].message
    BY <1>3
  <2>3. i < j \/ j < i \/ i = j
    BY <1>1
  <2> QED
    BY <2>1, <2>2, <2>3, <1>2, <1>6, <1>12
<1> QED
  BY <1>9, <1>10, <1>11, <1>12 DEF Covers, f, ms

\* Those cut out of the stream cover the numbers up to it.
LEMMA CoverOfQueue ==
  ASSUME NEW q \in Seq(Messages), NEW a \in Int, Consecutive(q, a)
  PROVE  Covers(Range(q), a, a + Len(q))
<1> DEFINE n == Len(q)
<1>1. n \in Nat /\ DOMAIN q = 1..n /\ \A i \in 1..n : q[i] \in Messages
  BY LenProperties, ElementOfSeq
<1>2. \A i \in 1..n : q[i].number = a + i
  BY DEF Consecutive
<1>3. Range(q) = {q[i] : i \in 1..n}
  BY <1>1 DEF Range
<1> HIDE DEF n
<1>4. ASSUME NEW m \in Range(q) PROVE m \in Messages /\ m.number \in (a + 1)..(a + n)
  <2>1. PICK i \in 1..n : m = q[i]
    BY <1>3
  <2> QED
    BY <2>1, <1>1, <1>2
<1>5. ASSUME NEW k \in (a + 1)..(a + n) PROVE \E m \in Range(q) : m.number = k
  <2>1. k - a \in 1..n /\ a + (k - a) = k
    BY <1>1
  <2> QED
    BY <2>1, <1>2, <1>3
<1>6. ASSUME NEW m \in Range(q), NEW k \in Range(q), m.number = k.number PROVE m = k
  <2>1. PICK i \in 1..n : m = q[i]
    BY <1>3
  <2>2. PICK j \in 1..n : k = q[j]
    BY <1>3
  <2>3. i = j
    BY <2>1, <2>2, <1>2, <1>6
  <2> QED
    BY <2>1, <2>2, <2>3
<1> QED
  BY <1>4, <1>5, <1>6 DEF Covers, n

\* Those in the package queue cover the numbers up to what has been put there.
LEMMA CoverOfPackages ==
  ASSUME NEW gs \in Seq(Package), NEW p \in Players, NEW a \in Int, NEW b \in Int,
         PackagesInOrder(gs, p, a, b)
  PROVE  Covers({g.packet : g \in {h \in Range(gs) : h.player = p}}, a, b)
<1> DEFINE n == Len(gs)
           ms == {g.packet : g \in {h \in Range(gs) : h.player = p}}
<1>1. n \in Nat /\ DOMAIN gs = 1..n /\ \A i \in 1..n : gs[i] \in Package
  BY LenProperties, ElementOfSeq
<1>2. \A i \in 1..n : gs[i].packet \in Messages /\ gs[i].packet.number \in Nat
  BY <1>1, NumberOfMessage DEF Package
<1>3. /\ \A i \in 1..n : gs[i].player = p => gs[i].packet.number \in (a + 1)..b
      /\ \A i, j \in 1..n : gs[i].player = p /\ gs[j].player = p /\ i < j =>
           gs[i].packet.number < gs[j].packet.number
      /\ \A k \in (a + 1)..b : \E i \in 1..n : gs[i].player = p /\ gs[i].packet.number = k
  BY DEF PackagesInOrder
<1>4. Range(gs) = {gs[i] : i \in 1..n}
  BY <1>1 DEF Range
<1>5. /\ \A m \in ms : \E i \in 1..n : gs[i].player = p /\ m = gs[i].packet
      /\ \A i \in 1..n : gs[i].player = p => gs[i].packet \in ms
  BY <1>4
<1> HIDE DEF n, ms
<1>6. ASSUME NEW m \in ms PROVE m \in Messages /\ m.number \in (a + 1)..b
  BY <1>2, <1>3, <1>5
<1>7. ASSUME NEW k \in (a + 1)..b PROVE \E m \in ms : m.number = k
  BY <1>3, <1>5
<1>8. ASSUME NEW m \in ms, NEW k \in ms, m.number = k.number PROVE m = k
  <2>1. PICK i \in 1..n : gs[i].player = p /\ m = gs[i].packet
    BY <1>5
  <2>2. PICK j \in 1..n : gs[j].player = p /\ k = gs[j].packet
    BY <1>5
  <2>3. i < j \/ j < i \/ i = j
    BY <1>1
  <2> QED
    BY <2>1, <2>2, <2>3, <1>2, <1>3, <1>8
<1> QED
  BY <1>6, <1>7, <1>8 DEF Covers, ms

\* Where the stretches of a client's line end.
LEMMA Bounds ==
  ASSUME IInv, StreamInv, NEW p \in Players, LineOf(p)
  PROVE  /\ sent[p] \in Nat /\ Cut(p) \in Nat /\ Cut(p) <= sent[p]
         /\ Len(recvPacketQueue[p]) \in Nat
         /\ Moved(p) \in Int /\ Moved(p) <= Cut(p)
         /\ Moved(p) + Len(recvPacketQueue[p]) = Cut(p)
         /\ PutUpTo(p) \in Int /\ PutUpTo(p) <= Moved(p)
         /\ Done(p) \in Nat /\ Done(p) <= PutUpTo(p)
<1>1. sent[p] \in Nat
  <2>1. sent[p] \in 0..MaxSent
    BY DEF IInv, ReaderTypes
  <2> QED
    BY <2>1, ReceivePathAssumption
<1>2. Cut(p) \in 0..sent[p]
  <2>1. Stream(p) \in Bytestreams
    BY Streaming
  <2> QED
    BY <1>1, <2>1, CoverOfStream DEF LineOf, Cut
<1> DEFINE l == Len(recvPacketQueue[p])
<1>3. l \in Nat
  BY Streaming, LenProperties
<1>4. Moved(p) = Cut(p) - l
  BY DEF Moved
<1> HIDE DEF l
<1>5. Moved(p) \in Int /\ Moved(p) <= Cut(p) /\ Moved(p) + l = Cut(p)
  BY <1>1, <1>2, <1>3, <1>4
<1>6. PutUpTo(p) \in Int /\ PutUpTo(p) <= Moved(p)
  BY <1>5 DEF PutUpTo
<1>7. Done(p) \in Nat
  <2>1. handled[p] \in Messages \cup {None}
    BY DEF StreamInv, Packages
  <2> QED
    BY <2>1, NumberOfMessage DEF Done
<1>8. Done(p) <= PutUpTo(p)
  BY DEF LineOf
<1> QED
  BY <1>1, <1>2, <1>3, <1>5, <1>6, <1>7, <1>8 DEF l

\* What is on the way of a client, and up to which number it is over.
Covered ==
  \A p \in Players :
    /\ sent[p] \in Nat /\ Done(p) \in Nat /\ Done(p) <= sent[p]
    /\ Covers(OnTheWay(p), Done(p), sent[p])

\* The messages on the way are those after the last that was handled.
LEMMA LineCovered == IInv /\ StreamInv /\ LineInv => Covered
<1> SUFFICES ASSUME IInv, StreamInv, LineInv, NEW p \in Players
             PROVE  /\ sent[p] \in Nat /\ Done(p) \in Nat /\ Done(p) <= sent[p]
                    /\ Covers(OnTheWay(p), Done(p), sent[p])
  BY DEF Covered
<1> DEFINE ps == {g.packet : g \in {h \in Range(packageQueue) : h.player = p}}
           hs == {inHand[w][1] : w \in {v \in Workers : serving[v] = p /\ inHand[v] # <<>>}}
           rs == Range(recvPacketQueue[p])
           ss == {b.message : b \in Range(Stream(p))}
<1>1. LineOf(p)
  BY DEF LineInv
<1>2. /\ sent[p] \in Nat /\ Cut(p) \in Nat /\ Cut(p) <= sent[p]
      /\ Moved(p) \in Int /\ Moved(p) <= Cut(p)
      /\ Moved(p) + Len(recvPacketQueue[p]) = Cut(p)
      /\ PutUpTo(p) \in Int /\ PutUpTo(p) <= Moved(p)
      /\ Done(p) \in Nat /\ Done(p) <= PutUpTo(p)
  BY <1>1, Bounds
<1>3. Covers(ps, Done(p), PutUpTo(p))
  <2>1. packageQueue \in Seq(Package)
    BY DEF StreamInv, Packages, Package
  <2>2. PackagesInOrder(packageQueue, p, Done(p), PutUpTo(p))
    BY <1>1 DEF LineOf
  <2> QED
    BY <1>2, <2>1, <2>2, CoverOfPackages
<1>4. Covers(hs, PutUpTo(p), Moved(p))
  <2>1. \A w \in Workers : Holds(w, p) => inHand[w][1] \in Messages
    <3> SUFFICES ASSUME NEW w \in Workers, Holds(w, p) PROVE inHand[w][1] \in Messages
      OBVIOUS
    <3>1. inHand[w] \in Seq(Messages) /\ inHand[w] # <<>>
      BY DEF IInv, ReaderTypes, Holds
    <3> QED
      BY <3>1
  <2>2. \A w \in Workers : Holds(w, p) => inHand[w][1].number = Moved(p)
    BY <1>1 DEF LineOf
  <2>3. \A v, w \in Workers : Holds(v, p) /\ Holds(w, p) => v = w
    BY DEF IInv, OneReader, Holds
  <2>4. /\ \A m \in hs : \E w \in Workers : Holds(w, p) /\ m = inHand[w][1]
        /\ \A w \in Workers : Holds(w, p) => inHand[w][1] \in hs
    BY DEF Holds
  <2> HIDE DEF hs
  <2>5. CASE \E w \in Workers : Holds(w, p)
    <3>1. PutUpTo(p) = Moved(p) - 1
      BY <2>5 DEF PutUpTo
    <3>2. \A n \in (PutUpTo(p) + 1)..Moved(p) : n = Moved(p)
      BY <1>2, <3>1
    <3>3. Moved(p) \in (PutUpTo(p) + 1)..Moved(p)
      BY <1>2, <3>1
    <3>4. \A n \in (PutUpTo(p) + 1)..Moved(p) : \E m \in hs : m.number = n
      BY <2>2, <2>4, <2>5, <3>2
    <3> QED
      BY <2>1, <2>2, <2>3, <2>4, <3>3, <3>4 DEF Covers
  <2>6. CASE ~\E w \in Workers : Holds(w, p)
    <3>1. PutUpTo(p) = Moved(p)
      BY <2>6 DEF PutUpTo
    <3>2. (PutUpTo(p) + 1)..Moved(p) = {}
      BY <1>2, <3>1
    <3> QED
      BY <2>4, <2>6, <3>2 DEF Covers
  <2> QED
    BY <2>5, <2>6
<1>5. Covers(rs, Moved(p), Cut(p))
  <2>1. recvPacketQueue[p] \in Seq(Messages)
    BY Streaming
  <2>2. Covers(rs, Moved(p), Moved(p) + Len(recvPacketQueue[p]))
    BY <1>1, <1>2, <2>1, CoverOfQueue DEF LineOf
  <2> QED
    BY <1>2, <2>2
<1>6. Covers(ss, Cut(p), sent[p])
  <2>1. Stream(p) \in Bytestreams
    BY Streaming
  <2> QED
    BY <1>1, <1>2, <2>1, CoverOfStream DEF LineOf, Cut
<1>7. OnTheWay(p) = ((ps \cup hs) \cup rs) \cup ss
  BY DEF OnTheWay
<1> HIDE DEF ps, hs, rs, ss
<1>8. Covers(ps \cup hs, Done(p), Moved(p))
  BY <1>2, <1>3, <1>4, CoversJoined
<1>9. Done(p) <= Moved(p) /\ Done(p) <= Cut(p) /\ Done(p) <= sent[p]
  BY <1>2
<1>10. Covers((ps \cup hs) \cup rs, Done(p), Cut(p))
  BY <1>2, <1>5, <1>8, <1>9, CoversJoined
<1>11. Covers(((ps \cup hs) \cup rs) \cup ss, Done(p), sent[p])
  BY <1>2, <1>6, <1>9, <1>10, CoversJoined
<1> QED
  BY <1>2, <1>7, <1>9, <1>11

-----------------------------------------------------------------------------
(* Every step keeps the lines.                                             *)

\* No session is served, nothing was sent and nothing is in a queue.
LEMMA InitLine == Init => LineInv
<1> SUFFICES ASSUME Init, NEW p \in Players PROVE LineOf(p)
  BY DEF LineInv
<1>1. Stream(p) = <<>>
  BY Nothing DEF Init, Stream, Arriving
<1>2. /\ sent[p] = 0 /\ recvPacketQueue[p] = <<>> /\ packageQueue = <<>>
      /\ handled[p] = None /\ \A w \in Workers : ~Holds(w, p)
  BY DEF Init, Holds
<1>3. Len(<<>>) = 0 /\ \A i : ~(i \in 1..0)
  BY Nothing
<1>4. Ordered(Stream(p)) /\ UpTo(Stream(p), sent[p])
  BY <1>1, <1>3 DEF Ordered, UpTo
<1>5. Cut(p) = 0
  BY <1>1, <1>2 DEF Cut, First
<1>6. Moved(p) = 0
  <2>1. Len(recvPacketQueue[p]) = 0
    BY <1>2, <1>3
  <2> HIDE DEF Cut
  <2> QED
    BY <2>1, <1>5 DEF Moved
<1>7. PutUpTo(p) = 0 /\ Done(p) = 0
  BY <1>2, <1>6 DEF PutUpTo, Done
<1>8. Consecutive(recvPacketQueue[p], Moved(p))
  BY <1>2, <1>3 DEF Consecutive
<1>9. PackagesInOrder(packageQueue, p, Done(p), PutUpTo(p))
  <2>1. (0 + 1)..0 = {}
    OBVIOUS
  <2> QED
    BY <2>1, <1>2, <1>3, <1>7 DEF PackagesInOrder
<1> QED
  BY <1>2, <1>4, <1>7, <1>8, <1>9 DEF LineOf

\* A client that nothing is done to but that packages of others are put and handled.
LEMMA SameLine ==
  ASSUME NEW q \in Players, LineOf(q),
         Stream(q)' = Stream(q), sent'[q] = sent[q],
         recvPacketQueue'[q] = recvPacketQueue[q], handled'[q] = handled[q],
         \A w \in Workers : /\ Holds(w, q)' <=> Holds(w, q)
                            /\ Holds(w, q) => inHand'[w] = inHand[w],
         PackagesInOrder(packageQueue, q, Done(q), PutUpTo(q)) =>
           PackagesInOrder(packageQueue', q, Done(q), PutUpTo(q))
  PROVE  LineOf(q)'
<1>1. Cut(q)' = Cut(q)
  BY DEF Cut, First
<1>2. Moved(q)' = Moved(q)
  BY <1>1 DEF Moved
<1>3. PutUpTo(q)' = PutUpTo(q)
  BY <1>2 DEF PutUpTo
<1>4. Done(q)' = Done(q)
  BY DEF Done
<1>5. Ordered(Stream(q))' /\ UpTo(Stream(q), sent[q])'
  BY DEF LineOf, Ordered, UpTo
<1>6. Consecutive(recvPacketQueue[q], Moved(q))'
  BY <1>2 DEF LineOf, Consecutive
<1>7. \A w \in Workers : Holds(w, q)' => inHand'[w][1].number = Moved(q)'
  BY <1>2 DEF LineOf
<1>8. Done(q)' <= PutUpTo(q)'
  BY <1>3, <1>4 DEF LineOf
<1>9. PackagesInOrder(packageQueue, q, Done(q), PutUpTo(q))'
  <2>1. PackagesInOrder(packageQueue', q, Done(q), PutUpTo(q))
    BY DEF LineOf
  <2>2. PackagesInOrder(packageQueue', q, Done(q)', PutUpTo(q)')
    BY <2>1, <1>3, <1>4
  <2> QED
    BY <2>2 DEF PackagesInOrder
<1> QED
  BY <1>5, <1>6, <1>7, <1>8, <1>9 DEF LineOf

\* The queue of packages and who holds a packet are as they were.
LEMMA SameHands ==
  ASSUME NEW q \in Players, UNCHANGED <<serving, inHand, packageQueue>>
  PROVE  /\ \A w \in Workers : /\ Holds(w, q)' <=> Holds(w, q)
                               /\ Holds(w, q) => inHand'[w] = inHand[w]
         /\ PackagesInOrder(packageQueue, q, Done(q), PutUpTo(q)) =>
              PackagesInOrder(packageQueue', q, Done(q), PutUpTo(q))
BY DEF Holds

\* The client's message is numbered and appended.
LEMMA LineSend ==
  ASSUME IInv, StreamInv, LineInv, NEW p \in Players, ClientSend(p)
  PROVE  LineInv'
<1>1. PICK l \in Lengths :
        network' = [network EXCEPT ![p] = @ \o Bytes([number |-> sent[p] + 1, length |-> l])]
  BY DEF ClientSend
<1> DEFINE m == [number |-> sent[p] + 1, length |-> l]
<1>2. /\ sent[p] < MaxSent /\ sent' = [sent EXCEPT ![p] = sent[p] + 1]
      /\ UNCHANGED <<readDataBuffer, streamBuffer, recvPacketQueue, serving, inHand,
                     packageQueue, handled>>
  BY DEF ClientSend, workerVars, queueVars
<1>3. sent[p] \in Nat /\ sent'[p] = sent[p] + 1 /\ \A q \in Players \ {p} : sent'[q] = sent[q]
  BY <1>2, ReceivePathAssumption DEF IInv, ReaderTypes
<1>4. m \in Messages /\ m.number = sent[p] + 1
  <2>1. sent[p] + 1 \in 1..MaxSent
    BY <1>2, <1>3, ReceivePathAssumption
  <2> QED
    BY <2>1 DEF Messages
<1> HIDE DEF m
<1>5. network' = [network EXCEPT ![p] = network[p] \o Bytes(m)]
  BY <1>1 DEF m
<1>6. /\ Stream(p)' = Stream(p) \o Bytes(m)
      /\ \A q \in Players \ {p} : Stream(q)' = Stream(q)
  BY <1>2, <1>4, <1>5, StreamSent
<1>7. ASSUME NEW q \in Players \ {p} PROVE LineOf(q)'
  BY <1>2, <1>3, <1>6, SameHands, SameLine DEF LineInv
<1>8. LineOf(p)'
  <2>1. LineOf(p) /\ Stream(p) \in Bytestreams
    BY Streaming DEF LineInv
  <2>2. /\ Ordered(Stream(p) \o Bytes(m)) /\ UpTo(Stream(p) \o Bytes(m), sent[p] + 1)
        /\ First(Stream(p) \o Bytes(m), sent[p] + 1) = First(Stream(p), sent[p])
    BY <2>1, <1>3, <1>4, OrderedWithMessage DEF LineOf
  <2>3. Ordered(Stream(p))' /\ UpTo(Stream(p), sent[p])'
    BY <2>2, <1>3, <1>6 DEF Ordered, UpTo
  <2>4. Cut(p)' = Cut(p)
    BY <2>2, <1>3, <1>6 DEF Cut, First
  <2>5. Moved(p)' = Moved(p) /\ Done(p)' = Done(p)
    BY <2>4, <1>2 DEF Moved, Done
  <2>6. PutUpTo(p)' = PutUpTo(p) /\ \A w \in Workers : Holds(w, p)' <=> Holds(w, p)
    BY <2>5, <1>2 DEF PutUpTo, Holds
  <2>7. PackagesInOrder(packageQueue, p, Done(p), PutUpTo(p))'
    BY <2>1, <2>5, <2>6, <1>2 DEF LineOf, PackagesInOrder
  <2>8. Consecutive(recvPacketQueue[p], Moved(p))'
    BY <2>1, <2>5, <1>2 DEF LineOf, Consecutive
  <2>9. \A w \in Workers : Holds(w, p)' => inHand'[w][1].number = Moved(p)'
    BY <2>1, <2>5, <2>6, <1>2 DEF LineOf
  <2>10. Done(p)' <= PutUpTo(p)'
    BY <2>1, <2>5, <2>6 DEF LineOf
  <2> QED
    BY <2>3, <2>7, <2>8, <2>9, <2>10 DEF LineOf
<1> QED
  BY <1>7, <1>8 DEF LineInv

\* Receives and the ends of PutPackageToNetwork change no place of a message.
LEMMA LineReceive ==
  ASSUME IInv, StreamInv, LineInv,
         \/ \E p \in Players : CompleteReceive(p) \/ FailReceive(p)
         \/ \E w \in Workers : (\E p \in Players : PutStream(w, p))
                               \/ GetRecvQueueSize(w) \/ Receive(w)
         \/ LockQueue \/ UNCHANGED vars
  PROVE  LineInv'
<1> SUFFICES ASSUME NEW q \in Players PROVE LineOf(q)'
  BY DEF LineInv
<1>1. LineOf(q)
  BY DEF LineInv
<1>2. ASSUME NEW p \in Players, CompleteReceive(p)
      PROVE  LineOf(q)'
  <2>1. UNCHANGED <<sent, recvPacketQueue, serving, inHand, packageQueue, handled>>
    BY <1>2 DEF CompleteReceive, workerVars, queueVars
  <2>2. Stream(q)' = Stream(q)
    BY <1>2, StreamReceived
  <2> QED
    BY <2>1, <2>2, <1>1, SameHands, SameLine
<1>3. ASSUME NEW p \in Players, FailReceive(p)
      PROVE  LineOf(q)'
  <2>1. UNCHANGED <<sent, network, readDataBuffer, streamBuffer, recvPacketQueue, serving,
                    inHand, packageQueue, handled>>
    BY <1>3 DEF FailReceive, workerVars, queueVars
  <2>2. Stream(q)' = Stream(q)
    BY <2>1 DEF Stream, Arriving
  <2> QED
    BY <2>1, <2>2, <1>1, SameHands, SameLine
<1>4. ASSUME NEW w \in Workers, NEW p \in Players, PutStream(w, p)
      PROVE  LineOf(q)'
  <2>1. /\ step[w] = "IDLE" /\ serving' = [serving EXCEPT ![w] = p]
        /\ UNCHANGED <<sent, recvPacketQueue, inHand, packageQueue, handled>>
    BY <1>4 DEF PutStream, queueVars
  <2>2. Stream(q)' = Stream(q)
    BY <1>4, StreamAppended
  <2>3. inHand[w] = <<>>
    BY <2>1 DEF IInv, Busy
  <2>4. \A v \in Workers : /\ Holds(v, q)' <=> Holds(v, q)
                           /\ Holds(v, q) => inHand'[v] = inHand[v]
    BY <2>1, <2>3 DEF Holds, IInv, ReaderTypes
  <2> QED
    BY <2>1, <2>2, <2>4, <1>1, SameLine
<1>5. ASSUME NEW w \in Workers, GetRecvQueueSize(w)
      PROVE  LineOf(q)'
  <2>1. UNCHANGED <<sent, network, readDataBuffer, streamBuffer, recvPacketQueue, serving,
                    inHand, packageQueue, handled>>
    BY <1>5 DEF GetRecvQueueSize, socketVars, queueVars
  <2>2. Stream(q)' = Stream(q)
    BY <2>1 DEF Stream, Arriving
  <2> QED
    BY <2>1, <2>2, <1>1, SameHands, SameLine
<1>6. ASSUME NEW w \in Workers, Receive(w)
      PROVE  LineOf(q)'
  <2>1. /\ step[w] = "PUT" /\ left[w] = 0 /\ serving' = [serving EXCEPT ![w] = None]
        /\ UNCHANGED <<sent, network, readDataBuffer, streamBuffer, recvPacketQueue,
                       inHand, packageQueue, handled>>
    BY <1>6 DEF Receive, queueVars
  <2>2. Stream(q)' = Stream(q)
    BY <2>1 DEF Stream, Arriving
  <2>3. inHand[w] = <<>>
    <3>1. serving[w] \in Players
      BY <2>1 DEF IInv, ReaderTypes, Busy
    <3> QED
      BY <2>1, <3>1 DEF IInv, ReaderTypes, Busy, SizeStillRight
  <2>4. \A v \in Workers : /\ Holds(v, q)' <=> Holds(v, q)
                           /\ Holds(v, q) => inHand'[v] = inHand[v]
    BY <2>1, <2>3 DEF Holds, IInv, ReaderTypes
  <2> QED
    BY <2>1, <2>2, <2>4, <1>1, SameLine
<1>7. CASE LockQueue \/ UNCHANGED vars
  <2>1. UNCHANGED <<sent, network, readDataBuffer, streamBuffer, recvPacketQueue, serving,
                    inHand, packageQueue, handled>>
    BY <1>7 DEF LockQueue, vars, socketVars, workerVars, queueVars
  <2>2. Stream(q)' = Stream(q)
    BY <2>1 DEF Stream, Arriving
  <2> QED
    BY <2>1, <2>2, <1>1, SameHands, SameLine
<1> QED
  BY <1>2, <1>3, <1>4, <1>5, <1>6, <1>7

\* The first message of the stream becomes the last of recvPacketQueue.
LEMMA LineDeserialize ==
  ASSUME IInv, StreamInv, LineInv, NEW w \in Workers, DeserializePacket(w)
  PROVE  LineInv'
<1>1. PICK p \in Players : p = serving[w]
  BY DEF DeserializePacket, IInv, ReaderTypes, Busy
<1> DEFINE s == Stream(p)
           m == s[1].message
           q == recvPacketQueue[p]
<1>2. /\ step[w] = "MAKE"
      /\ recvPacketQueue' = [recvPacketQueue EXCEPT ![p] = Append(q, streamBuffer[p][1].message)]
      /\ UNCHANGED <<sent, serving, inHand, packageQueue, handled>>
  BY <1>1 DEF DeserializePacket, workerVars, queueVars
<1>3. /\ s[1] = streamBuffer[p][1] /\ Len(s) >= 1
      /\ Stream(p)' = SubSeq(s, m.length + 1, Len(s))
      /\ \A r \in Players \ {p} : Stream(r)' = Stream(r)
  BY <1>1, StreamCut
<1>4. /\ recvPacketQueue'[p] = Append(q, m)
      /\ \A r \in Players \ {p} : recvPacketQueue'[r] = recvPacketQueue[r]
  BY <1>2, <1>3 DEF IInv, ReaderTypes
<1>5. ASSUME NEW r \in Players \ {p} PROVE LineOf(r)'
  BY <1>2, <1>3, <1>4, SameHands, SameLine DEF LineInv
<1>6. LineOf(p)'
  <2>1. LineOf(p) /\ s \in Bytestreams /\ q \in Seq(Messages)
    BY Streaming DEF LineInv
  <2>2. /\ sent[p] \in Nat /\ Cut(p) \in Nat /\ Len(q) \in Nat
        /\ Moved(p) \in Int /\ Moved(p) + Len(q) = Cut(p)
    BY <2>1, Bounds
  <2>3. /\ Ordered(Stream(p)') /\ UpTo(Stream(p)', sent[p])
        /\ First(Stream(p)', sent[p]) = First(s, sent[p]) + 1
    <3>1. Whole(s)
      BY DEF StreamInv, StreamsWhole
    <3>2. Ordered(s) /\ UpTo(s, sent[p])
      BY <2>1 DEF LineOf
    <3> QED
      BY <2>1, <2>2, <3>1, <3>2, <1>3, OrderedWithoutFirst
  <2>4. m \in Messages /\ m.number = Cut(p) + 1
    <3>1. s # <<>> /\ s[1] \in Byte
      <4>1. s # <<>>
        BY <1>3, Nothing
      <4>2. 1 \in 1..Len(s)
        BY <2>1, <1>3, Streams
      <4>3. s[1] \in Byte
        BY <2>1, <4>2, Streams
      <4> QED
        BY <4>1, <4>3
    <3>2. m \in Messages /\ m.number \in Nat
      BY <3>1, NumberOfByte
    <3> QED
      BY <3>1, <3>2 DEF Cut, First
  <2> HIDE DEF s, m, q
  <2>5. /\ Append(q, m) \in Seq(Messages) /\ Len(Append(q, m)) = Len(q) + 1
        /\ \A i \in 1..Len(q) : Append(q, m)[i] = q[i]
        /\ Append(q, m)[Len(q) + 1] = m
    BY <2>1, <2>4, AppendProperties
  <2>6. Cut(p)' = Cut(p) + 1
    <3>1. Cut(p) = First(s, sent[p]) - 1
      BY DEF Cut, s
    <3>2. Cut(p)' = First(Stream(p)', sent'[p]) - 1
      BY DEF Cut, First
    <3>3. Cut(p)' = (First(s, sent[p]) + 1) - 1
      BY <2>3, <3>2, <1>2
    <3>4. First(s, sent[p]) \in Int
      <4>1. First(s, sent[p]) - 1 \in 0..sent[p] /\ (s = <<>> \/ s # <<>>)
        BY <2>1, <2>2, CoverOfStream DEF LineOf, s
      <4>2. s # <<>> => s[1].message.number \in Nat
        BY <2>4, NumberOfMessage DEF m
      <4> QED
        BY <4>1, <4>2, <2>2 DEF First
    <3> QED
      BY <3>1, <3>3, <3>4
  <2>7. Moved(p)' = Moved(p)
    <3> DEFINE l == Len(q)
    <3>1. Moved(p)' = (Cut(p) + 1) - (l + 1)
      BY <2>5, <2>6, <1>4 DEF Moved
    <3>2. l \in Nat /\ Moved(p) + l = Cut(p)
      BY <2>2
    <3> HIDE DEF l
    <3> QED
      BY <3>1, <3>2, <2>2
  <2>8. /\ PutUpTo(p)' = PutUpTo(p) /\ Done(p)' = Done(p)
        /\ \A v \in Workers : Holds(v, p)' <=> Holds(v, p)
    BY <2>7, <1>2 DEF PutUpTo, Holds, Done
  <2>9. Consecutive(recvPacketQueue[p], Moved(p))'
    <3> DEFINE l == Len(q)
    <3>1. l \in Nat /\ Moved(p) \in Int /\ m.number = Moved(p) + (l + 1)
      BY <2>2, <2>4
    <3>2. \A i \in 1..l : q[i].number = Moved(p) + i
      BY <2>1 DEF LineOf, Consecutive, q
    <3>3. \A i \in 1..l : Append(q, m)[i] = q[i]
      BY <2>5
    <3>4. Append(q, m)[l + 1] = m /\ Len(Append(q, m)) = l + 1
      BY <2>5
    <3> HIDE DEF l
    <3>5. \A i \in 1..(l + 1) : Append(q, m)[i].number = Moved(p) + i
      <4> SUFFICES ASSUME NEW i \in 1..(l + 1) PROVE Append(q, m)[i].number = Moved(p) + i
        OBVIOUS
      <4>1. i \in 1..l \/ i = l + 1
        BY <3>1
      <4> QED
        BY <4>1, <3>1, <3>2, <3>3, <3>4
    <3> QED
      BY <3>4, <3>5, <2>7, <1>4 DEF Consecutive
  <2>10. Ordered(Stream(p))' /\ UpTo(Stream(p), sent[p])'
    BY <2>3, <1>2 DEF Ordered, UpTo
  <2>11. \A v \in Workers : Holds(v, p)' => inHand'[v][1].number = Moved(p)'
    BY <2>1, <2>7, <2>8, <1>2 DEF LineOf
  <2>12. PackagesInOrder(packageQueue, p, Done(p), PutUpTo(p))' /\ Done(p)' <= PutUpTo(p)'
    BY <2>1, <2>8, <1>2 DEF LineOf, PackagesInOrder
  <2> QED
    BY <2>9, <2>10, <2>11, <2>12 DEF LineOf
<1> QED
  BY <1>5, <1>6 DEF LineInv

\* A worker takes the first packet of recvPacketQueue.
LEMMA LineTake ==
  ASSUME IInv, StreamInv, LineInv, NEW w \in Workers, GetPacketFromRecvQueue(w)
  PROVE  LineInv'
<1>1. PICK p \in Players : p = serving[w]
  BY DEF GetPacketFromRecvQueue, IInv, ReaderTypes, Busy
<1> DEFINE q == recvPacketQueue[p]
<1>2. /\ step[w] = "PUT" /\ left[w] > 0 /\ inHand[w] = <<>>
      /\ inHand' = [inHand EXCEPT ![w] = <<Head(q)>>]
      /\ recvPacketQueue' = [recvPacketQueue EXCEPT ![p] = Tail(q)]
      /\ UNCHANGED <<sent, network, readDataBuffer, streamBuffer, serving, packageQueue,
                     handled>>
  BY <1>1 DEF GetPacketFromRecvQueue, socketVars, queueVars
<1>3. \A r \in Players : Stream(r)' = Stream(r)
  BY <1>2 DEF Stream, Arriving
<1>4. /\ recvPacketQueue'[p] = Tail(q)
      /\ \A r \in Players \ {p} : recvPacketQueue'[r] = recvPacketQueue[r]
      /\ inHand'[w] = <<Head(q)>>
      /\ \A v \in Workers \ {w} : inHand'[v] = inHand[v]
  BY <1>2 DEF IInv, ReaderTypes
<1>5. \A v \in Workers : serving[v] = p => v = w
  BY <1>1 DEF IInv, OneReader
<1>6. ASSUME NEW r \in Players \ {p} PROVE LineOf(r)'
  <2>1. \A v \in Workers : /\ Holds(v, r)' <=> Holds(v, r)
                           /\ Holds(v, r) => inHand'[v] = inHand[v]
    BY <1>1, <1>2, <1>4 DEF Holds
  <2> QED
    BY <2>1, <1>2, <1>3, <1>4, SameLine DEF LineInv
<1>7. LineOf(p)'
  <2>1. LineOf(p) /\ q \in Seq(Messages)
    BY Streaming DEF LineInv
  <2>2. /\ Cut(p) \in Nat /\ Len(q) \in Nat
        /\ Moved(p) \in Int /\ Moved(p) = Cut(p) - Len(q)
        /\ PutUpTo(p) \in Int /\ Done(p) \in Nat
    BY <2>1, Bounds DEF Moved
  <2>3. q # <<>>
    <3>1. left[w] = Len(q) + Len(inHand[w])
      BY <1>1, <1>2 DEF IInv, SizeStillRight
    <3>2. Len(inHand[w]) = 0
      BY <1>2
    <3> QED
      BY <1>2, <2>1, <2>2, <3>1, <3>2, EmptySeq
  <2>4. /\ Head(q) = q[1] /\ Len(Tail(q)) = Len(q) - 1 /\ Len(q) # 0
        /\ \A i \in 1..(Len(q) - 1) : Tail(q)[i] = q[i + 1]
    BY <2>1, <2>3, HeadTailProperties, EmptySeq
  <2>5. Cut(p)' = Cut(p)
    BY <1>2, <1>3 DEF Cut, First
  <2>6. \A i \in 1..Len(q) : q[i].number = Moved(p) + i
    BY <2>1 DEF LineOf, Consecutive
  <2> DEFINE l == Len(q)
  <2> HIDE DEF q, l
  <2>7. Moved(p)' = Moved(p) + 1
    <3>1. Moved(p)' = Cut(p) - (Len(q) - 1)
      BY <2>4, <2>5, <1>4 DEF Moved
    <3> QED
      BY <3>1, <2>2
  <2>8. \A v \in Workers : Holds(v, p)' <=> v = w
    <3>1. <<Head(q)>> # <<>>
      OBVIOUS
    <3> QED
      BY <3>1, <1>1, <1>2, <1>4, <1>5 DEF Holds
  <2>9. ~\E v \in Workers : Holds(v, p)
    BY <1>2, <1>5 DEF Holds
  <2>10. PutUpTo(p) = Moved(p)
    BY <2>9 DEF PutUpTo
  <2>11. PutUpTo(p)' = PutUpTo(p)
    <3>1. PutUpTo(p)' = Moved(p)' - 1
      BY <2>8 DEF PutUpTo
    <3> QED
      BY <3>1, <2>2, <2>7, <2>10
  <2>12. Done(p)' = Done(p)
    BY <1>2 DEF Done
  <2>13. Consecutive(recvPacketQueue[p], Moved(p))'
    <3>1. ASSUME NEW i \in 1..Len(Tail(q)) PROVE Tail(q)[i].number = (Moved(p) + 1) + i
      <4>1. i + 1 \in 1..Len(q) /\ i \in 1..(Len(q) - 1)
        BY <2>2, <2>4
      <4>2. q[i + 1].number = Moved(p) + (i + 1)
        BY <2>6, <4>1
      <4> QED
        BY <4>1, <4>2, <2>2, <2>4
    <3> QED
      BY <3>1, <2>7, <1>4 DEF Consecutive
  <2>14. \A v \in Workers : Holds(v, p)' => inHand'[v][1].number = Moved(p)'
    <3>1. 1 \in 1..Len(q)
      BY <2>2, <2>4
    <3>2. inHand'[w][1] = q[1]
      BY <1>4, <2>4
    <3> QED
      BY <2>6, <2>7, <2>8, <3>1, <3>2
  <2>15. Ordered(Stream(p))' /\ UpTo(Stream(p), sent[p])'
    BY <2>1, <1>2, <1>3 DEF LineOf, Ordered, UpTo
  <2>16. PackagesInOrder(packageQueue, p, Done(p), PutUpTo(p))' /\ Done(p)' <= PutUpTo(p)'
    BY <2>1, <2>11, <2>12, <1>2 DEF LineOf, PackagesInOrder
  <2> QED
    BY <2>13, <2>14, <2>15, <2>16 DEF LineOf
<1> QED
  BY <1>6, <1>7 DEF LineInv

\* A packet in hand.
LEMMA InHand ==
  ASSUME IInv, NEW w \in Workers, inHand[w] # <<>>
  PROVE  serving[w] \in Players /\ inHand[w][1] \in Messages
<1>1. inHand[w] \in Seq(Messages) /\ serving[w] \in Players
  BY DEF IInv, ReaderTypes, Busy
<1> QED
  BY <1>1

\* The packet in hand becomes the last package of its player.
LEMMA LinePut ==
  ASSUME IInv, StreamInv, LineInv, NEW w \in Workers, PutPackage(w)
  PROVE  LineInv'
<1>1. inHand[w] # <<>>
  BY DEF PutPackage
<1>2. PICK p \in Players : p = serving[w]
  BY <1>1, InHand
<1> DEFINE g == [player |-> p, packet |-> inHand[w][1]]
<1>3. /\ packageQueue' = Append(packageQueue, g)
      /\ inHand' = [inHand EXCEPT ![w] = <<>>]
      /\ UNCHANGED <<sent, network, readDataBuffer, streamBuffer, recvPacketQueue, serving,
                     handled>>
  BY <1>2 DEF PutPackage, socketVars
<1>4. /\ packageQueue \in Seq(Package) /\ g \in Package /\ g.player = p
      /\ g.packet = inHand[w][1]
  BY <1>1, InHand DEF StreamInv, Packages, Package
<1> HIDE DEF g
<1>5. \A r \in Players : Stream(r)' = Stream(r)
  BY <1>3 DEF Stream, Arriving
<1>6. inHand'[w] = <<>> /\ \A v \in Workers \ {w} : inHand'[v] = inHand[v]
  BY <1>3 DEF IInv, ReaderTypes
<1>7. \A v \in Workers : serving[v] = p => v = w
  BY <1>2 DEF IInv, OneReader
<1>8. ASSUME NEW r \in Players
      PROVE  LineOf(r) /\ Done(r) \in Nat /\ PutUpTo(r) \in Int /\ Done(r) <= PutUpTo(r)
             /\ PackagesInOrder(packageQueue, r, Done(r), PutUpTo(r)) /\ Moved(r) \in Int
  <2>1. LineOf(r)
    BY DEF LineInv
  <2> QED
    BY <2>1, Bounds DEF LineOf
<1>9. ASSUME NEW r \in Players \ {p} PROVE LineOf(r)'
  <2>1. \A v \in Workers : /\ Holds(v, r)' <=> Holds(v, r)
                           /\ Holds(v, r) => inHand'[v] = inHand[v]
    BY <1>2, <1>3, <1>6 DEF Holds
  <2>2. PackagesInOrder(packageQueue', r, Done(r), PutUpTo(r))
    BY <1>3, <1>4, <1>8, PackagesAppended
  <2> QED
    BY <2>1, <2>2, <1>3, <1>5, <1>8, SameLine
<1>10. LineOf(p)'
  <2>1. LineOf(p)
    BY <1>8
  <2>2. Cut(p)' = Cut(p)
    BY <1>3, <1>5 DEF Cut, First
  <2>3. Moved(p)' = Moved(p) /\ Done(p)' = Done(p)
    BY <2>2, <1>3 DEF Moved, Done
  <2>4. Holds(w, p) /\ \A v \in Workers : ~Holds(v, p)'
    BY <1>1, <1>2, <1>3, <1>6, <1>7 DEF Holds
  <2>5. PutUpTo(p) = Moved(p) - 1
    BY <2>4 DEF PutUpTo
  <2>6. PutUpTo(p)' = PutUpTo(p) + 1
    <3>1. PutUpTo(p)' = Moved(p)'
      BY <2>4 DEF PutUpTo
    <3> QED
      BY <3>1, <2>3, <2>5, <1>8
  <2>7. g.packet.number = PutUpTo(p) + 1
    <3>1. inHand[w][1].number = Moved(p)
      BY <2>1, <2>4 DEF LineOf
    <3> QED
      BY <3>1, <2>5, <1>4, <1>8
  <2>8. PackagesInOrder(packageQueue', p, Done(p), PutUpTo(p) + 1)
    BY <2>7, <1>3, <1>4, <1>8, PackagesAppended
  <2>9. PackagesInOrder(packageQueue, p, Done(p), PutUpTo(p))'
    <3>1. PackagesInOrder(packageQueue', p, Done(p)', PutUpTo(p)')
      BY <2>3, <2>6, <2>8
    <3> QED
      BY <3>1 DEF PackagesInOrder
  <2>10. Done(p)' <= PutUpTo(p)'
    BY <2>3, <2>6, <1>8
  <2>11. Ordered(Stream(p))' /\ UpTo(Stream(p), sent[p])'
    BY <2>1, <1>3, <1>5 DEF LineOf, Ordered, UpTo
  <2>12. Consecutive(recvPacketQueue[p], Moved(p))'
    BY <2>1, <2>3, <1>3 DEF LineOf, Consecutive
  <2> QED
    BY <2>4, <2>9, <2>10, <2>11, <2>12 DEF LineOf
<1> QED
  BY <1>9, <1>10 DEF LineInv

\* The first package is handled; it is the next of its player.
LEMMA LineExecute ==
  ASSUME IInv, StreamInv, LineInv, Execute
  PROVE  /\ packageQueue # <<>> /\ Head(packageQueue) \in Package
         /\ Head(packageQueue).packet.number = Done(Head(packageQueue).player) + 1
         /\ Done(Head(packageQueue).player) + 1 <= sent[Head(packageQueue).player]
         /\ LineInv'
<1> DEFINE g == Head(packageQueue)
           ts == Tail(packageQueue)
<1>1. packageQueue \in Seq(Package) /\ batch \in 0..Len(packageQueue) /\ batch > 0
  BY DEF StreamInv, Packages, Package, Execute
<1>2. packageQueue # <<>>
  BY <1>1, EmptySeq
<1>3. g \in Package
  BY <1>1, <1>2
<1>4. PICK p \in Players : p = g.player
  BY <1>3 DEF Package
<1>5. /\ handled' = [handled EXCEPT ![p] = g.packet] /\ packageQueue' = ts
      /\ UNCHANGED <<sent, network, readDataBuffer, streamBuffer, recvPacketQueue, serving,
                     inHand>>
  BY <1>4 DEF Execute, socketVars, workerVars
<1>6. ASSUME NEW r \in Players
      PROVE  LineOf(r) /\ Done(r) \in Nat /\ PutUpTo(r) \in Int /\ Done(r) <= PutUpTo(r)
             /\ PackagesInOrder(packageQueue, r, Done(r), PutUpTo(r))
             /\ PutUpTo(r) <= sent[r]
  <2>1. LineOf(r)
    BY DEF LineInv
  <2>2. /\ Done(r) \in Nat /\ PutUpTo(r) \in Int /\ Done(r) <= PutUpTo(r)
        /\ PutUpTo(r) <= Moved(r) /\ Moved(r) <= Cut(r) /\ Cut(r) <= sent[r]
        /\ Moved(r) \in Int /\ Cut(r) \in Nat /\ sent[r] \in Nat
    BY <2>1, Bounds
  <2>3. PackagesInOrder(packageQueue, r, Done(r), PutUpTo(r))
    BY <2>1 DEF LineOf
  <2> QED
    BY <2>1, <2>2, <2>3
<1>7. \A r \in Players : Stream(r)' = Stream(r)
  BY <1>5 DEF Stream, Arriving
<1> HIDE DEF g, ts
<1>8. ASSUME NEW r \in Players \ {p} PROVE LineOf(r)'
  <2>1. PackagesInOrder(ts, r, Done(r), PutUpTo(r))
    BY <1>1, <1>2, <1>4, <1>6, PackagesTaken DEF g, ts
  <2>2. handled'[r] = handled[r]
    BY <1>5 DEF StreamInv, Packages
  <2>3. \A v \in Workers : /\ Holds(v, r)' <=> Holds(v, r)
                           /\ Holds(v, r) => inHand'[v] = inHand[v]
    BY <1>5 DEF Holds
  <2> QED
    BY <2>1, <2>2, <2>3, <1>5, <1>6, <1>7, SameLine
<1>9. /\ g.packet.number = Done(p) + 1 /\ Done(p) + 1 <= PutUpTo(p)
      /\ PackagesInOrder(ts, p, Done(p) + 1, PutUpTo(p))
  BY <1>1, <1>2, <1>4, <1>6, PackagesTaken DEF g, ts
<1>10. Done(p)' = Done(p) + 1
  <2>1. handled'[p] = g.packet
    BY <1>5 DEF StreamInv, Packages
  <2>2. g.packet # None
    BY <1>3, ReceivePathAssumption DEF Package
  <2> QED
    BY <2>1, <2>2, <1>9 DEF Done
<1>11. LineOf(p)'
  <2>1. LineOf(p)
    BY <1>6
  <2>2. Cut(p)' = Cut(p)
    BY <1>5, <1>7 DEF Cut, First
  <2>3. Moved(p)' = Moved(p)
    BY <2>2, <1>5 DEF Moved
  <2>4. PutUpTo(p)' = PutUpTo(p) /\ \A v \in Workers : Holds(v, p)' <=> Holds(v, p)
    BY <2>3, <1>5 DEF PutUpTo, Holds
  <2>5. PackagesInOrder(packageQueue, p, Done(p), PutUpTo(p))'
    <3>1. PackagesInOrder(packageQueue', p, Done(p)', PutUpTo(p)')
      BY <2>4, <1>5, <1>9, <1>10
    <3> QED
      BY <3>1 DEF PackagesInOrder
  <2>6. Done(p)' <= PutUpTo(p)'
    BY <2>4, <1>9, <1>10
  <2>7. Ordered(Stream(p))' /\ UpTo(Stream(p), sent[p])'
    BY <2>1, <1>5, <1>7 DEF LineOf, Ordered, UpTo
  <2>8. Consecutive(recvPacketQueue[p], Moved(p))'
    BY <2>1, <2>3, <1>5 DEF LineOf, Consecutive
  <2>9. \A v \in Workers : Holds(v, p)' => inHand'[v][1].number = Moved(p)'
    BY <2>1, <2>3, <2>4, <1>5 DEF LineOf
  <2> QED
    BY <2>5, <2>6, <2>7, <2>8, <2>9 DEF LineOf
<1>12. LineInv'
  BY <1>8, <1>11 DEF LineInv
<1>13. Done(p) + 1 <= sent[p]
  <2>1. sent[p] \in Nat
    <3>1. sent[p] \in 0..MaxSent
      BY DEF IInv, ReaderTypes
    <3> QED
      BY <3>1, ReceivePathAssumption
  <2> QED
    BY <2>1, <1>6, <1>9
<1> QED
  BY <1>2, <1>3, <1>4, <1>9, <1>12, <1>13 DEF g

\* Every step keeps the line in order.
LEMMA StepLine == IInv /\ StreamInv /\ LineInv /\ [Next]_vars => LineInv'
<1> SUFFICES ASSUME IInv, StreamInv, LineInv, [Next]_vars PROVE LineInv'
  OBVIOUS
<1>1. ASSUME NEW p \in Players, ClientSend(p) PROVE LineInv'
  BY <1>1, LineSend
<1>2. ASSUME NEW p \in Players, CompleteReceive(p) \/ FailReceive(p) PROVE LineInv'
  BY <1>2, LineReceive
<1>3. ASSUME NEW w \in Workers, WorkerStep(w) PROVE LineInv'
  BY <1>3, LineReceive, LineDeserialize, LineTake, LinePut DEF WorkerStep
<1>4. CASE LockQueue \/ UNCHANGED vars
  BY <1>4, LineReceive
<1>5. CASE Execute
  BY <1>5, LineExecute
<1> QED
  BY <1>1, <1>2, <1>3, <1>4, <1>5 DEF Next

\* The messages of every client stand in one line, in every reachable state.
THEOREM LineInvariance == Spec => [](IInv /\ StreamInv /\ Counted /\ LineInv)
<1>1. Init => LineInv
  BY InitLine
<1>2. (IInv /\ StreamInv) /\ LineInv /\ [Next]_vars => LineInv'
  BY StepLine
<1> QED
  BY StreamInvariance, <1>1, <1>2, PTL DEF Spec

-----------------------------------------------------------------------------
(* What is on the way before and after a step.                             *)

\* Elements of a sequence that is extended or shortened.
LEMMA RangeOfAppended ==
  ASSUME NEW S, NEW q \in Seq(S), NEW e \in S
  PROVE  Range(Append(q, e)) = Range(q) \cup {e}
<1>1. /\ Append(q, e) \in Seq(S) /\ Len(Append(q, e)) = Len(q) + 1 /\ Len(q) \in Nat
      /\ \A i \in 1..Len(q) : Append(q, e)[i] = q[i]
      /\ Append(q, e)[Len(q) + 1] = e
  BY AppendProperties, LenProperties
<1>2. DOMAIN q = 1..Len(q) /\ DOMAIN Append(q, e) = 1..(Len(q) + 1)
  BY <1>1, LenProperties
<1>3. 1..(Len(q) + 1) = 1..Len(q) \cup {Len(q) + 1}
  BY <1>1
<1> DEFINE n == Len(q)
           r == Append(q, e)
<1> HIDE DEF n, r
<1>4. /\ DOMAIN q = 1..n /\ DOMAIN r = 1..n \cup {n + 1} /\ r[n + 1] = e
      /\ \A i \in 1..n : r[i] = q[i]
  BY <1>1, <1>2, <1>3 DEF n, r
<1>5. Range(r) = Range(q) \cup {e}
  BY <1>4, Zenon DEF Range
<1> QED
  BY <1>5 DEF r

\* What is left of a queue was in it.
LEMMA RangeOfShortened ==
  ASSUME NEW S, NEW q \in Seq(S), q # <<>>
  PROVE  Head(q) \in Range(q) /\ Range(Tail(q)) \subseteq Range(q)
<1>1. /\ Tail(q) \in Seq(S) /\ Len(Tail(q)) = Len(q) - 1 /\ Len(q) \in Nat /\ Len(q) # 0
      /\ \A i \in 1..Len(Tail(q)) : Tail(q)[i] = q[i + 1]
      /\ Head(q) = q[1]
  BY HeadTailProperties, LenProperties, EmptySeq
<1>2. DOMAIN q = 1..Len(q) /\ DOMAIN Tail(q) = 1..Len(Tail(q))
  BY <1>1, LenProperties
<1>3. 1 \in 1..Len(q) /\ \A i \in 1..Len(Tail(q)) : i + 1 \in 1..Len(q)
  BY <1>1
<1>4. Head(q) \in Range(q)
  BY <1>1, <1>2, <1>3 DEF Range
<1>5. ASSUME NEW e \in Range(Tail(q)) PROVE e \in Range(q)
  <2>1. PICK i \in 1..Len(Tail(q)) : e = Tail(q)[i]
    BY <1>2 DEF Range
  <2> QED
    BY <2>1, <1>1, <1>2, <1>3 DEF Range
<1> QED
  BY <1>4, <1>5

\* A message in the stream of a client.
LEMMA RangeOfRest ==
  ASSUME NEW s \in Bytestreams, NEW k \in 0..Len(s)
  PROVE  Range(SubSeq(s, k + 1, Len(s))) \subseteq Range(s)
<1> DEFINE t == SubSeq(s, k + 1, Len(s))
           n == Len(s)
<1>1. /\ t \in Bytestreams /\ Len(t) = n - k /\ n \in Nat
      /\ \A i \in 1..(n - k) : t[i] = s[k + i]
  BY Parts, Streams
<1>2. DOMAIN s = 1..n /\ DOMAIN t = 1..(n - k)
  BY <1>1, LenProperties DEF Bytestreams
<1>3. k \in 0..n
  OBVIOUS
<1> HIDE DEF t, n
<1>4. \A i \in 1..(n - k) : k + i \in 1..n
  BY <1>1, <1>3
<1>5. ASSUME NEW e \in Range(t) PROVE e \in Range(s)
  <2>1. PICK i \in 1..(n - k) : e = t[i]
    BY <1>2 DEF Range
  <2> QED
    BY <2>1, <1>1, <1>2, <1>4 DEF Range
<1> QED
  BY <1>5 DEF t, n

\* The four parts of what is on the way.
InQueue(p) == {g.packet : g \in {h \in Range(packageQueue) : h.player = p}}
InHands(p) == {inHand[w][1] : w \in {v \in Workers : Holds(v, p)}}
InStream(p) == {b.message : b \in Range(Stream(p))}

\* The four parts are all there is.
LEMMA FourParts ==
  \A p \in Players :
    OnTheWay(p) = InQueue(p) \cup InHands(p) \cup Range(recvPacketQueue[p]) \cup InStream(p)
BY DEF OnTheWay, InQueue, InHands, InStream, Holds

\* Nobody but a client puts a message on the way.
WayShrinks == \A p \in Players : OnTheWay(p)' \subseteq OnTheWay(p)

\* The steps of a receive bring nothing new onto the way.
LEMMA WayOfReceive ==
  ASSUME IInv, StreamInv,
         \/ \E p \in Players : CompleteReceive(p) \/ FailReceive(p)
         \/ \E w \in Workers : (\E p \in Players : PutStream(w, p))
                               \/ GetRecvQueueSize(w) \/ Receive(w)
         \/ LockQueue \/ UNCHANGED vars
  PROVE  WayShrinks /\ UNCHANGED <<sent, handled>>
<1>1. UNCHANGED <<sent, handled, recvPacketQueue, inHand, packageQueue>>
  BY DEF CompleteReceive, FailReceive, PutStream, GetRecvQueueSize, Receive, LockQueue,
         vars, workerVars, queueVars
<1>2. ASSUME NEW q \in Players PROVE Stream(q)' = Stream(q)
  <2>1. ASSUME NEW p \in Players, CompleteReceive(p) PROVE Stream(q)' = Stream(q)
    BY <2>1, StreamReceived
  <2>2. ASSUME NEW w \in Workers, NEW p \in Players, PutStream(w, p)
        PROVE  Stream(q)' = Stream(q)
    BY <2>2, StreamAppended
  <2>3. CASE UNCHANGED <<streamBuffer, readDataBuffer, network>>
    BY <2>3 DEF Stream, Arriving
  <2> QED
    BY <2>1, <2>2, <2>3 DEF FailReceive, GetRecvQueueSize, Receive, LockQueue, vars,
                            socketVars
<1>3. ASSUME NEW q \in Players, NEW v \in Workers, Holds(v, q)' PROVE Holds(v, q)
  <2>1. serving'[v] = q /\ inHand[v] # <<>>
    BY <1>1, <1>3 DEF Holds
  <2>2. q # None
    BY ReceivePathAssumption
  <2>3. ASSUME NEW w \in Workers, NEW p \in Players, PutStream(w, p) PROVE serving[v] = q
    <3>1. inHand[w] = <<>> /\ serving' = [serving EXCEPT ![w] = p]
      BY <2>3 DEF PutStream, IInv, Busy
    <3> QED
      BY <2>1, <3>1 DEF IInv, ReaderTypes
  <2>4. ASSUME NEW w \in Workers, Receive(w) PROVE serving[v] = q
    <3>1. serving' = [serving EXCEPT ![w] = None] /\ serving \in [Workers -> Players \cup {None}]
      BY <2>4 DEF Receive, IInv, ReaderTypes
    <3>2. v # w
      BY <2>1, <2>2, <3>1
    <3> QED
      BY <2>1, <3>1, <3>2
  <2>5. CASE UNCHANGED serving
    BY <2>1, <2>5 DEF Holds
  <2> QED
    BY <2>1, <2>3, <2>4, <2>5
    DEF Holds, CompleteReceive, FailReceive, GetRecvQueueSize, LockQueue, vars, workerVars
<1>4. ASSUME NEW q \in Players PROVE OnTheWay(q)' \subseteq OnTheWay(q)
  <2>1. InHands(q)' \subseteq InHands(q)
    BY <1>1, <1>3 DEF InHands
  <2>2. InQueue(q)' = InQueue(q) /\ InStream(q)' = InStream(q)
    BY <1>1, <1>2 DEF InQueue, InStream
  <2>3. OnTheWay(q)' = InQueue(q)' \cup InHands(q)' \cup Range(recvPacketQueue'[q]) \cup InStream(q)'
    BY DEF OnTheWay, InQueue, InHands, InStream, Holds
  <2> QED
    BY <1>1, <2>1, <2>2, <2>3, FourParts
<1> QED
  BY <1>1, <1>4 DEF WayShrinks

\* A packet that is cut out, taken and put stays on the way.
LEMMA WayOfPackets ==
  ASSUME IInv, StreamInv, NEW w \in Workers,
         DeserializePacket(w) \/ GetPacketFromRecvQueue(w) \/ PutPackage(w)
  PROVE  WayShrinks /\ UNCHANGED <<sent, handled>>
<1>1. UNCHANGED <<sent, handled, serving>>
  BY DEF DeserializePacket, GetPacketFromRecvQueue, PutPackage, workerVars, queueVars
<1> SUFFICES ASSUME NEW q \in Players PROVE OnTheWay(q)' \subseteq OnTheWay(q)
  BY <1>1 DEF WayShrinks
<1>2. OnTheWay(q)' = InQueue(q)' \cup InHands(q)' \cup Range(recvPacketQueue'[q]) \cup InStream(q)'
  BY DEF OnTheWay, InQueue, InHands, InStream, Holds
<1>3. recvPacketQueue[q] \in Seq(Messages)
  BY Streaming
<1>4. CASE DeserializePacket(w)
  <2>1. PICK p \in Players : p = serving[w]
    BY <1>4 DEF DeserializePacket, IInv, ReaderTypes, Busy
  <2>2. UNCHANGED <<inHand, packageQueue>>
    BY <1>4 DEF DeserializePacket, workerVars, queueVars
  <2>3. InQueue(q)' = InQueue(q) /\ InHands(q)' = InHands(q)
    BY <1>1, <2>2 DEF InQueue, InHands, Holds
  <2>4. CASE q # p
    <3>1. recvPacketQueue'[q] = recvPacketQueue[q]
      BY <1>4, <2>1, <2>4 DEF DeserializePacket, IInv, ReaderTypes
    <3>2. Stream(q)' = Stream(q)
      BY <1>4, <2>1, <2>4, StreamCut
    <3> QED
      BY <1>2, <2>3, <3>1, <3>2, FourParts DEF InStream
  <2>5. CASE q = p
    <3> DEFINE s == Stream(q)
               l == s[1].message.length
    <3>1. /\ s[1] = streamBuffer[q][1] /\ Len(s) >= 1
          /\ Stream(q)' = SubSeq(s, l + 1, Len(s))
      BY <1>4, <2>1, <2>5, StreamCut
    <3>2. s \in Bytestreams /\ Whole(s) /\ Len(s) \in Nat
      BY Streaming, Streams DEF StreamInv, StreamsWhole
    <3>3. s[1] \in Byte /\ l \in 1..Len(s)
      BY <3>1, <3>2, WholeWithoutFirst
    <3>4. Range(Stream(q)') \subseteq Range(s)
      <4>1. l \in 0..Len(s)
        BY <3>2, <3>3
      <4> QED
        BY <4>1, <3>1, <3>2, RangeOfRest
    <3>5. s[1] \in Range(s)
      <4>1. 1 \in DOMAIN s
        BY <3>1, <3>2, LenProperties DEF Bytestreams
      <4> QED
        BY <4>1 DEF Range
    <3>6. recvPacketQueue'[q] = Append(recvPacketQueue[q], s[1].message)
      BY <1>4, <2>1, <2>5, <3>1 DEF DeserializePacket, IInv, ReaderTypes
    <3>7. s[1].message \in Messages
      BY <3>3 DEF Byte
    <3> HIDE DEF s
    <3>8. Range(recvPacketQueue'[q]) = Range(recvPacketQueue[q]) \cup {s[1].message}
      BY <1>3, <3>6, <3>7, RangeOfAppended
    <3>9. InStream(q)' \subseteq InStream(q) /\ s[1].message \in InStream(q)
      BY <3>4, <3>5 DEF InStream, s
    <3> QED
      BY <1>2, <2>3, <3>8, <3>9, FourParts
  <2> QED
    BY <2>4, <2>5
<1>5. CASE GetPacketFromRecvQueue(w)
  <2>1. PICK p \in Players : p = serving[w]
    BY <1>5 DEF GetPacketFromRecvQueue, IInv, ReaderTypes, Busy
  <2>2. /\ step[w] = "PUT" /\ left[w] > 0 /\ inHand[w] = <<>>
        /\ inHand' = [inHand EXCEPT ![w] = <<Head(recvPacketQueue[p])>>]
        /\ recvPacketQueue' = [recvPacketQueue EXCEPT ![p] = Tail(@)]
        /\ UNCHANGED <<packageQueue, streamBuffer, readDataBuffer, network>>
    BY <1>5, <2>1 DEF GetPacketFromRecvQueue, socketVars, queueVars
  <2>3. InQueue(q)' = InQueue(q) /\ InStream(q)' = InStream(q)
    BY <2>2 DEF InQueue, InStream, Stream, Arriving
  <2>4. /\ inHand'[w] = <<Head(recvPacketQueue[p])>>
        /\ \A v \in Workers \ {w} : inHand'[v] = inHand[v]
    BY <2>2 DEF IInv, ReaderTypes
  <2>5. CASE q # p
    <3>1. recvPacketQueue'[q] = recvPacketQueue[q]
      BY <2>2, <2>5 DEF IInv, ReaderTypes
    <3>2. \A v \in Workers : Holds(v, q)' => v # w /\ Holds(v, q) /\ inHand'[v] = inHand[v]
      BY <1>1, <2>1, <2>4, <2>5 DEF Holds
    <3>3. InHands(q)' \subseteq InHands(q)
      BY <3>2 DEF InHands
    <3> QED
      BY <1>2, <2>3, <3>1, <3>3, FourParts
  <2>6. CASE q = p
    <3> DEFINE r == recvPacketQueue[q]
    <3>1. r # <<>>
      <4>1. left[w] = Len(r) + Len(inHand[w])
        BY <2>1, <2>2, <2>6 DEF IInv, SizeStillRight
      <4>2. Len(inHand[w]) = 0 /\ Len(r) \in Nat
        BY <1>3, <2>2, LenProperties
      <4> QED
        BY <1>3, <2>2, <4>1, <4>2, EmptySeq
    <3>2. recvPacketQueue'[q] = Tail(r)
      BY <2>2, <2>6 DEF IInv, ReaderTypes
    <3>3. Head(r) \in Range(r) /\ Range(Tail(r)) \subseteq Range(r)
      BY <1>3, <3>1, RangeOfShortened
    <3>4. \A v \in Workers : Holds(v, q)' => inHand'[v][1] = Head(r) \/ (Holds(v, q) /\ inHand'[v] = inHand[v])
      <4> SUFFICES ASSUME NEW v \in Workers, Holds(v, q)'
                   PROVE  inHand'[v][1] = Head(r) \/ (Holds(v, q) /\ inHand'[v] = inHand[v])
        OBVIOUS
      <4>1. CASE v = w
        <5>1. inHand'[v] = <<Head(r)>>
          BY <2>4, <2>6, <4>1
        <5>2. PICK h : h = Head(r)
          OBVIOUS
        <5>3. inHand'[v] = <<h>>
          BY <5>1, <5>2
        <5>4. inHand'[v][1] = h
          BY <5>3
        <5> QED
          BY <5>2, <5>4
      <4>2. CASE v # w
        BY <1>1, <2>4, <4>2 DEF Holds
      <4> QED
        BY <4>1, <4>2
    <3> HIDE DEF r
    <3>5. InHands(q)' \subseteq InHands(q) \cup {Head(r)}
      BY <3>4 DEF InHands
    <3> QED
      BY <1>2, <2>3, <3>2, <3>3, <3>5, FourParts DEF r
  <2> QED
    BY <2>5, <2>6
<1>6. CASE PutPackage(w)
  <2>1. /\ inHand[w] # <<>> /\ inHand' = [inHand EXCEPT ![w] = <<>>]
        /\ packageQueue' = Append(packageQueue, [player |-> serving[w], packet |-> inHand[w][1]])
        /\ UNCHANGED <<recvPacketQueue, streamBuffer, readDataBuffer, network>>
    BY <1>6 DEF PutPackage, socketVars
  <2>2. serving[w] \in Players /\ inHand[w][1] \in Messages
    BY <2>1, InHand
  <2> DEFINE g == [player |-> serving[w], packet |-> inHand[w][1]]
  <2>3. /\ packageQueue' = Append(packageQueue, g) /\ g \in Package
        /\ g.player = serving[w] /\ g.packet = inHand[w][1]
    BY <2>1, <2>2 DEF Package
  <2> HIDE DEF g
  <2>4. packageQueue \in Seq(Package)
    BY DEF StreamInv, Packages, Package
  <2>5. Range(packageQueue') = Range(packageQueue) \cup {g}
    BY <2>3, <2>4, RangeOfAppended
  <2>6. \A v \in Workers : Holds(v, q)' => Holds(v, q) /\ inHand'[v] = inHand[v]
    BY <1>1, <2>1 DEF Holds, IInv, ReaderTypes
  <2>7. InHands(q)' \subseteq InHands(q)
    BY <2>6 DEF InHands
  <2>8. InQueue(q)' \subseteq InQueue(q) \cup InHands(q)
    <3>1. \A h \in Range(packageQueue') : h.player = q =>
            h \in Range(packageQueue) \/ (h = g /\ Holds(w, q))
      <4>1. g.player = q => Holds(w, q)
        BY <2>1, <2>3 DEF Holds
      <4>2. ASSUME NEW h \in Range(packageQueue'), h.player = q
            PROVE  h \in Range(packageQueue) \/ (h = g /\ Holds(w, q))
        <5>1. CASE h \in Range(packageQueue)
          BY <5>1
        <5>2. CASE h = g
          BY <4>1, <4>2, <5>2
        <5> QED
          BY <2>5, <5>1, <5>2
      <4> QED
        BY <4>2
    <3>2. Holds(w, q) => g.packet \in InHands(q)
      BY <2>3 DEF InHands
    <3> QED
      BY <3>1, <3>2 DEF InQueue
  <2>9. InStream(q)' = InStream(q)
    BY <2>1 DEF InStream, Stream, Arriving
  <2> QED
    BY <1>2, <2>1, <2>7, <2>8, <2>9, FourParts
<1> QED
  BY <1>4, <1>5, <1>6

\* A package that is handled leaves the way.
LEMMA WayOfExecute ==
  ASSUME IInv, StreamInv, Execute
  PROVE  /\ WayShrinks /\ UNCHANGED sent
         /\ Head(packageQueue).packet \in OnTheWay(Head(packageQueue).player)
<1>1. /\ batch > 0 /\ packageQueue' = Tail(packageQueue)
      /\ UNCHANGED <<sent, streamBuffer, readDataBuffer, network, recvPacketQueue, serving,
                     inHand>>
  BY DEF Execute, socketVars, workerVars
<1>2. packageQueue \in Seq(Package) /\ packageQueue # <<>>
  BY <1>1, EmptySeq DEF StreamInv, Packages, Package
<1>3. Head(packageQueue) \in Range(packageQueue) /\ Range(packageQueue') \subseteq Range(packageQueue)
  BY <1>1, <1>2, RangeOfShortened
<1>4. ASSUME NEW q \in Players PROVE OnTheWay(q)' \subseteq OnTheWay(q)
  <2>1. OnTheWay(q)' = InQueue(q)' \cup InHands(q)' \cup Range(recvPacketQueue'[q]) \cup InStream(q)'
    BY DEF OnTheWay, InQueue, InHands, InStream, Holds
  <2>2. InHands(q)' = InHands(q) /\ InStream(q)' = InStream(q)
    BY <1>1 DEF InHands, Holds, InStream, Stream, Arriving
  <2>3. InQueue(q)' \subseteq InQueue(q)
    BY <1>3 DEF InQueue
  <2> QED
    BY <1>1, <2>1, <2>2, <2>3, FourParts
<1>5. Head(packageQueue).packet \in OnTheWay(Head(packageQueue).player)
  BY <1>3 DEF OnTheWay
<1> QED
  BY <1>1, <1>4, <1>5 DEF WayShrinks

\* A client's message comes on the way.
LEMMA WayOfSend ==
  ASSUME IInv, NEW p \in Players, ClientSend(p)
  PROVE  /\ UNCHANGED handled /\ sent' = [sent EXCEPT ![p] = @ + 1]
         /\ \A q \in Players : OnTheWay(q) \subseteq OnTheWay(q)'
         /\ \A q \in Players \ {p} : OnTheWay(q)' \subseteq OnTheWay(q)
<1>1. PICK l \in Lengths :
        network' = [network EXCEPT ![p] = @ \o Bytes([number |-> sent[p] + 1, length |-> l])]
  BY DEF ClientSend
<1> DEFINE m == [number |-> sent[p] + 1, length |-> l]
<1>2. /\ sent[p] < MaxSent /\ sent' = [sent EXCEPT ![p] = @ + 1]
      /\ UNCHANGED <<readDataBuffer, streamBuffer, recvPacketQueue, serving, inHand,
                     packageQueue, handled>>
  BY DEF ClientSend, workerVars, queueVars
<1>3. m \in Messages
  <2>1. sent[p] + 1 \in 1..MaxSent
    BY <1>2, ReceivePathAssumption DEF IInv, ReaderTypes
  <2> QED
    BY <2>1 DEF Messages
<1> HIDE DEF m
<1>4. network' = [network EXCEPT ![p] = network[p] \o Bytes(m)]
  BY <1>1 DEF m
<1>5. /\ Stream(p)' = Stream(p) \o Bytes(m)
      /\ \A q \in Players \ {p} : Stream(q)' = Stream(q)
  BY <1>2, <1>3, <1>4, StreamSent
<1>6. Range(Stream(p)) \subseteq Range(Stream(p)')
  <2> DEFINE s == Stream(p)
             t == s \o Bytes(m)
  <2>1. s \in Bytestreams /\ Bytes(m) \in Bytestreams
    BY <1>3, Streaming, BytesType
  <2>2. /\ t \in Bytestreams /\ Len(t) = Len(s) + Len(Bytes(m)) /\ Len(s) \in Nat
        /\ Len(Bytes(m)) \in Nat
        /\ \A i \in 1..Len(s) : t[i] = s[i]
    BY <2>1, Streams
  <2>3. DOMAIN s = 1..Len(s) /\ DOMAIN t = 1..Len(t)
    BY <2>1, <2>2, LenProperties DEF Bytestreams
  <2>4. \A i \in 1..Len(s) : i \in 1..Len(t)
    <3> DEFINE a == Len(s)
               b == Len(Bytes(m))
    <3>1. a \in Nat /\ b \in Nat /\ Len(t) = a + b
      BY <2>2
    <3> HIDE DEF a, b, s, t
    <3>2. \A i \in 1..a : i \in 1..(a + b)
      BY <3>1
    <3> QED
      BY <3>1, <3>2 DEF a
  <2> HIDE DEF s, t
  <2>5. Range(s) \subseteq Range(t)
    BY <2>2, <2>3, <2>4 DEF Range
  <2> QED
    BY <2>5, <1>5 DEF s, t
<1>7. ASSUME NEW q \in Players
      PROVE  /\ OnTheWay(q) \subseteq OnTheWay(q)'
             /\ q # p => OnTheWay(q)' \subseteq OnTheWay(q)
  <2>1. OnTheWay(q)' = InQueue(q)' \cup InHands(q)' \cup Range(recvPacketQueue'[q]) \cup InStream(q)'
    BY DEF OnTheWay, InQueue, InHands, InStream, Holds
  <2>2. InQueue(q)' = InQueue(q) /\ InHands(q)' = InHands(q)
    BY <1>2 DEF InQueue, InHands, Holds
  <2>3. InStream(q) \subseteq InStream(q)'
    BY <1>5, <1>6 DEF InStream
  <2>4. q # p => InStream(q)' = InStream(q)
    BY <1>5 DEF InStream
  <2> QED
    BY <1>2, <2>1, <2>2, <2>3, <2>4, FourParts
<1> QED
  BY <1>2, <1>7

-----------------------------------------------------------------------------
(* The refinement.                                                         *)

\* The mapping without its CHOOSE.
LEMMA OutstandingInOrder ==
  \A p \in Players : Outstanding(p) = InOrder(OnTheWay(p), sent[p])
BY DEF Outstanding

Line == [p \in Players |-> Outstanding(p)]

\* A step of the receive path puts one message into the line of a client, takes the first
\* out or does neither.
LEMMA StepChannel ==
  ASSUME IInv, StreamInv, LineInv, Covered, Covered', [Next]_vars
  PROVE  Connection!Next \/ UNCHANGED <<Line, handled>>
<1> DEFINE O(q) == InOrder(OnTheWay(q), sent[q])
<1>1. /\ Line = [q \in Players |-> O(q)]
      /\ Line' = [q \in Players |-> O(q)']
  <2>1. \A q \in Players : Outstanding(q) = O(q) /\ Outstanding(q)' = O(q)'
    BY DEF Outstanding
  <2> QED
    BY <2>1 DEF Line
<1>2. \A q \in Players : /\ sent[q] \in Nat /\ Done(q) \in Nat /\ Done(q) <= sent[q]
                         /\ Covers(OnTheWay(q), Done(q), sent[q])
  BY DEF Covered
<1>3. \A q \in Players :
        /\ sent'[q] \in Nat /\ Done(q)' \in Nat /\ Done(q)' <= sent'[q]
        /\ Covers(OnTheWay(q)', Done(q)', sent'[q])
  BY DEF Covered, Covers
\* A client whose line is as long as before and loses nothing.
<1>4. ASSUME NEW q \in Players, sent'[q] = sent[q], handled'[q] = handled[q],
             OnTheWay(q)' \subseteq OnTheWay(q)
      PROVE  O(q)' = O(q)
  <2>1. Done(q)' = Done(q)
    BY <1>4 DEF Done
  <2>2. Covers(OnTheWay(q)', Done(q), sent[q])
    BY <2>1, <1>3, <1>4
  <2>3. InOrder(OnTheWay(q)', sent[q]) = InOrder(OnTheWay(q), sent[q])
    BY <2>2, <1>2, <1>4, LineStays
  <2>4. O(q)' = InOrder(OnTheWay(q)', sent'[q])
    BY DEF InOrder, Numbered
  <2> QED
    BY <2>3, <2>4, <1>4
<1>5. ASSUME WayShrinks, UNCHANGED <<sent, handled>>
      PROVE  UNCHANGED <<Line, handled>>
  BY <1>1, <1>4, <1>5 DEF WayShrinks
<1>6. ASSUME NEW p \in Players, ClientSend(p) PROVE Connection!Next
  <2>1. /\ UNCHANGED handled /\ sent' = [sent EXCEPT ![p] = @ + 1]
        /\ \A q \in Players : OnTheWay(q) \subseteq OnTheWay(q)'
        /\ \A q \in Players \ {p} : OnTheWay(q)' \subseteq OnTheWay(q)
    BY <1>6, WayOfSend
  <2>2. sent'[p] = sent[p] + 1 /\ \A q \in Players \ {p} : sent'[q] = sent[q]
    BY <2>1 DEF IInv, ReaderTypes
  <2>3. \A q \in Players \ {p} : O(q)' = O(q)
    BY <2>1, <2>2, <1>4
  <2>4. Covers(OnTheWay(p)', Done(p), sent[p] + 1)
    <3>1. Done(p)' = Done(p)
      BY <2>1 DEF Done
    <3> QED
      BY <3>1, <2>2, <1>3
  <2>5. PICK m \in OnTheWay(p)' : m.number = sent[p] + 1
    <3>1. sent[p] + 1 \in (Done(p) + 1)..(sent[p] + 1)
      BY <1>2
    <3> QED
      BY <3>1, <2>4 DEF Covers
  <2>6. InOrder(OnTheWay(p)', sent[p] + 1) = Append(InOrder(OnTheWay(p), sent[p]), m)
    <3>1. PICK ms : ms = OnTheWay(p)
      OBVIOUS
    <3>2. PICK ks : ks = OnTheWay(p)'
      OBVIOUS
    <3>3. PICK a, b \in Nat : a = Done(p) /\ b = sent[p]
      BY <1>2
    <3>4. a <= b /\ Covers(ms, a, b)
      BY <1>2, <3>1, <3>3
    <3>5. PICK c \in Nat : c = b + 1
      BY <3>3
    <3>6. Covers(ks, a, c) /\ m \in ks /\ m.number = c
      BY <2>4, <2>5, <3>2, <3>3, <3>5
    <3>7. ms \subseteq ks
      BY <2>1, <3>1, <3>2
    <3>8. Extended(InOrder(ks, c), InOrder(ms, b), m)
      BY <3>3, <3>4, <3>5, <3>6, <3>7, LineExtended
    <3> QED
      BY <3>1, <3>2, <3>3, <3>5, <3>8 DEF Extended
  <2>7. O(p)' = Append(O(p), m)
    <3>1. O(p)' = InOrder(OnTheWay(p)', sent'[p])
      BY DEF InOrder, Numbered
    <3> QED
      BY <3>1, <2>2, <2>6
  <2>8. m \in Messages
    BY <2>4, <2>5 DEF Covers
  <2> HIDE DEF O
  <2>9. Line' = [Line EXCEPT ![p] = Append(@, m)]
    BY <1>1, <2>3, <2>7
  <2>10. Connection!Put(p, m)
    BY <2>1, <2>9 DEF Connection!Put, Line
  <2> QED
    BY <2>8, <2>10 DEF Connection!Next
<1>7. CASE Execute
  <2> DEFINE g == Head(packageQueue)
  <2>1. /\ g \in Package /\ g.packet.number = Done(g.player) + 1
        /\ Done(g.player) + 1 <= sent[g.player]
    BY <1>7, LineExecute
  <2>2. WayShrinks /\ UNCHANGED sent /\ g.packet \in OnTheWay(g.player)
    BY <1>7, WayOfExecute
  <2>3. handled' = [handled EXCEPT ![g.player] = g.packet]
    BY <1>7 DEF Execute
  <2> HIDE DEF g
  <2>4. PICK p \in Players : p = g.player
    BY <2>1 DEF Package
  <2>5. handled'[p] = g.packet /\ \A q \in Players \ {p} : handled'[q] = handled[q]
    BY <2>3, <2>4 DEF StreamInv, Packages
  <2>6. \A q \in Players \ {p} : O(q)' = O(q)
    BY <2>2, <2>5, <1>4 DEF WayShrinks
  <2>7. Done(p)' = Done(p) + 1
    <3>1. g.packet # None
      BY <2>1, ReceivePathAssumption DEF Package
    <3> QED
      BY <3>1, <2>1, <2>4, <2>5 DEF Done
  <2>8. Covers(OnTheWay(p)', Done(p) + 1, sent[p])
    BY <2>2, <2>7, <1>3
  <2>9. /\ InOrder(OnTheWay(p), sent[p]) # <<>>
        /\ Head(InOrder(OnTheWay(p), sent[p])) = g.packet
        /\ InOrder(OnTheWay(p)', sent[p]) = Tail(InOrder(OnTheWay(p), sent[p]))
    <3>1. PICK ms : ms = OnTheWay(p)
      OBVIOUS
    <3>2. PICK ks : ks = OnTheWay(p)'
      OBVIOUS
    <3>3. PICK a, b \in Nat : a = Done(p) /\ b = sent[p]
      BY <1>2
    <3>4. PICK m : m = g.packet
      OBVIOUS
    <3>5. a + 1 <= b /\ m.number = a + 1
      BY <2>1, <2>4, <3>3, <3>4
    <3>6. Covers(ms, a, b) /\ Covers(ks, a + 1, b)
      BY <1>2, <2>8, <3>1, <3>2, <3>3
    <3>7. ks \subseteq ms /\ m \in ms
      BY <2>2, <2>4, <3>1, <3>2, <3>4 DEF WayShrinks
    <3>8. /\ InOrder(ms, b) # <<>> /\ Head(InOrder(ms, b)) = m
          /\ InOrder(ks, b) = Tail(InOrder(ms, b))
      BY <3>5, <3>6, <3>7, LineShortened
    <3> QED
      BY <3>1, <3>2, <3>3, <3>4, <3>8
  <2>10. O(p)' = Tail(O(p)) /\ O(p) # <<>> /\ Head(O(p)) = g.packet
    <3>1. O(p)' = InOrder(OnTheWay(p)', sent'[p])
      BY DEF InOrder, Numbered
    <3> QED
      BY <3>1, <2>2, <2>9
  <2> HIDE DEF O
  <2>11. Line' = [Line EXCEPT ![p] = Tail(@)] /\ Line[p] # <<>> /\ Head(Line[p]) = g.packet
    BY <1>1, <2>6, <2>10
  <2>12. Connection!Take(p)
    BY <2>3, <2>4, <2>11 DEF Connection!Take, Line
  <2> QED
    BY <2>12 DEF Connection!Next
<1>8. ASSUME NEW p \in Players, CompleteReceive(p) \/ FailReceive(p)
      PROVE  UNCHANGED <<Line, handled>>
  BY <1>5, <1>8, WayOfReceive
<1>9. ASSUME NEW w \in Workers, WorkerStep(w)
      PROVE  UNCHANGED <<Line, handled>>
  BY <1>5, <1>9, WayOfReceive, WayOfPackets DEF WorkerStep
<1>10. CASE LockQueue \/ UNCHANGED vars
  BY <1>5, <1>10, WayOfReceive
<1> QED
  BY <1>6, <1>7, <1>8, <1>9, <1>10 DEF Next

\* At first every line is empty.
LEMMA InitChannel == Init /\ Covered => Connection!Init
<1> SUFFICES ASSUME Init, Covered PROVE Connection!Init
  OBVIOUS
<1>1. ASSUME NEW p \in Players PROVE Outstanding(p) = <<>>
  <2>1. sent[p] = 0 /\ Done(p) = 0 /\ Covers(OnTheWay(p), Done(p), sent[p])
    BY DEF Init, Done, Covered
  <2>2. InOrder(OnTheWay(p), 0) \in Seq(Messages) /\ Len(InOrder(OnTheWay(p), 0)) = 0
    <3>1. PICK ms : ms = OnTheWay(p)
      OBVIOUS
    <3>2. PICK a \in Nat : a = 0
      OBVIOUS
    <3>3. Covers(ms, a, a) /\ a <= a
      BY <2>1, <3>1, <3>2
    <3>4. InOrder(ms, a) \in Seq(Messages) /\ Len(InOrder(ms, a)) = a - a
      BY <3>3, OrderOfCovered
    <3> QED
      BY <3>1, <3>2, <3>4
  <2>3. InOrder(OnTheWay(p), 0) = <<>>
    BY <2>2, EmptySeq
  <2> QED
    BY <2>1, <2>3, OutstandingInOrder
<1>2. handled = [p \in Players |-> None]
  BY DEF Init
<1> QED
  BY <1>1, <1>2 DEF Connection!Init

\* What a client sends is handled once, in the order in which it was sent, whichever
\* workers take the completions and wherever receives cut the stream: every behaviour of
\* the receive path is one of Channel (OnReceive, PutPackageToNetwork and
\* ProcessPacketThread).
THEOREM ReceiveImplementsChannel == Spec => ImplementsChannel
<1>1. Init /\ Covered => Connection!Init
  BY InitChannel
<1>2. IInv /\ StreamInv /\ LineInv /\ Covered /\ Covered' /\ [Next]_vars =>
        [Connection!Next]_<<[p \in Players |-> Outstanding(p)], handled>>
  BY StepChannel DEF Line
<1>3. IInv /\ StreamInv /\ LineInv => Covered
  BY LineCovered
<1> QED
  BY <1>1, <1>2, <1>3, LineInvariance, PTL DEF Spec, ImplementsChannel, Connection!Spec
=============================================================================
