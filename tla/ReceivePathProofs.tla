------------------------- MODULE ReceivePathProofs -------------------------
(***************************************************************************)
(* One worker at a time serves a session, and what it read of the queue's  *)
(* size still holds; what it leaves in the session's buffer is less than   *)
(* one packet, and only a receive that cannot fit overruns it: proved for  *)
(* every number of players and workers, all lengths of messages, windows   *)
(* and buffers.                                                            *)
(***************************************************************************)
EXTENDS ReceivePath, SequenceTheorems, TLAPS

Bytestreams == Seq([message : Messages, at : Nat])

\* Only what the two properties speak of has to be typed.
ReaderTypes ==
  /\ receive \in [Players -> {"POSTED", "COMPLETED", "TAKEN", "FAILED"}]
  /\ serving \in [Workers -> Players \cup {None}]
  /\ step \in [Workers -> {"IDLE", "MAKE", "PUT"}]
  /\ left \in [Workers -> Int]
  /\ inHand \in [Workers -> Seq(Messages)]
  /\ streamBuffer \in [Players -> Bytestreams]
  /\ readDataBuffer \in [Players -> Bytestreams]
  /\ network \in [Players -> Bytestreams]
  /\ recvPacketQueue \in [Players -> Seq(Messages)]
  /\ sent \in [Players -> 0..MaxSent]

\* A worker has a session exactly while it is not idle, and a packet in hand only
\* while it moves packets.
Busy ==
  \A w \in Workers :
    /\ step[w] = "IDLE" <=> serving[w] = None
    /\ step[w] # "PUT" => inHand[w] = <<>>
    /\ Len(inHand[w]) <= 1

IInv == ReaderTypes /\ Busy /\ OneReader /\ SizeStillRight

\* No session is served, no packet is in hand.
LEMMA InitReader == Init => IInv
<1> SUFFICES ASSUME Init PROVE IInv
  OBVIOUS
<1>1. None \notin Players /\ 0 \in 0..MaxSent
  BY ReceivePathAssumption
<1>2. <<>> \in Bytestreams /\ <<>> \in Seq(Messages) /\ Len(<<>>) = 0
  BY DEF Bytestreams
<1>3. ReaderTypes
  BY <1>1, <1>2 DEF Init, ReaderTypes
<1>4. Busy /\ SizeStillRight
  BY <1>2 DEF Init, Busy, SizeStillRight
<1>5. OneReader
  BY <1>1 DEF Init, OneReader
<1> QED
  BY <1>3, <1>4, <1>5 DEF IInv

LEMMA LengthOfMessage ==
  ASSUME NEW m \in Messages
  PROVE  m.length \in Nat /\ m.length >= 1
<1>1. m.length \in Lengths
  BY DEF Messages
<1>2. m.length \in PACKET_HEADER_LENGTH..MAX_BUFFER_LENGTH
  BY <1>1, ReceivePathAssumption
<1>3. PACKET_HEADER_LENGTH \in Nat \ {0} /\ MAX_BUFFER_LENGTH \in Nat
  BY ReceivePathAssumption
<1> QED
  BY <1>2, <1>3

\* The bytes of a message, a part of a stream and two streams after each other are
\* streams.
LEMMA BytesType ==
  ASSUME NEW m \in Messages
  PROVE  Bytes(m) \in Bytestreams
<1> DEFINE B == [message : Messages, at : Nat]
           n == m.length
<1>1. n \in Nat
  BY LengthOfMessage
<1>2. \A i \in 1..n : [message |-> m, at |-> i] \in B
  OBVIOUS
<1>3. Bytes(m) = [i \in 1..n |-> [message |-> m, at |-> i]]
  BY DEF Bytes
<1> HIDE DEF n, B
<1>4. Bytes(m) \in [1..n -> B]
  BY <1>2, <1>3
<1>5. Bytes(m) \in Seq(B)
  BY <1>1, <1>4
<1> QED
  BY <1>5 DEF Bytestreams, B

LEMMA PartType ==
  ASSUME NEW s \in Bytestreams, NEW i \in Nat \ {0}, NEW j \in 0..Len(s)
  PROVE  SubSeq(s, i, j) \in Bytestreams
<1> DEFINE B == [message : Messages, at : Nat]
<1> HIDE DEF B
<1>1. s \in Seq(B)
  BY DEF Bytestreams, B
<1>2. SubSeq(s, i, j) \in Seq(B)
  BY <1>1
<1> QED
  BY <1>2 DEF Bytestreams, B

LEMMA ConcatenationType ==
  ASSUME NEW s \in Bytestreams, NEW r \in Bytestreams
  PROVE  s \o r \in Bytestreams
BY DEF Bytestreams

LEMMA FirstByte ==
  ASSUME NEW s \in Bytestreams, IsMakePacket(s)
  PROVE  /\ s[1].message \in Messages
         /\ Rest(s) \in Bytestreams
<1> DEFINE B == [message : Messages, at : Nat]
<1> HIDE DEF B
<1>1. s \in Seq(B) /\ Len(s) \in Nat
  BY DEF Bytestreams, B
<1>2. Len(s) >= 1
  BY <1>1, ReceivePathAssumption DEF IsMakePacket
<1>3. s[1] \in B
  BY <1>1, <1>2
<1>4. s[1].message \in Messages
  BY <1>3 DEF B
<1>5. s[1].message.length + 1 \in Nat \ {0}
  BY <1>4, LengthOfMessage
<1> QED
  BY <1>1, <1>4, <1>5, PartType DEF Rest

\* No step lets a second worker serve a session or changes the queue of a session
\* that another worker has counted.
LEMMA StepReader == IInv /\ [Next]_vars => IInv'
<1> SUFFICES ASSUME IInv, [Next]_vars
             PROVE  IInv'
  OBVIOUS
<1>0. None \notin Players
  BY ReceivePathAssumption
<1>1. ASSUME NEW p \in Players, ClientSend(p)
      PROVE  IInv'
  <2>1. PICK l \in Lengths :
          network' = [network EXCEPT ![p] = @ \o Bytes([number |-> sent[p] + 1, length |-> l])]
    BY <1>1 DEF ClientSend
  <2> DEFINE m == [number |-> sent[p] + 1, length |-> l]
  <2>2. sent[p] \in 0..MaxSent /\ sent[p] < MaxSent
    BY <1>1 DEF ClientSend, IInv, ReaderTypes
  <2>3. sent[p] + 1 \in 1..MaxSent
    BY <2>2, ReceivePathAssumption
  <2>4. m \in Messages
    BY <2>3 DEF Messages
  <2>5. network[p] \o Bytes(m) \in Bytestreams
    <3>1. network[p] \in Bytestreams /\ Bytes(m) \in Bytestreams
      BY <2>4, BytesType DEF IInv, ReaderTypes
    <3> QED
      BY <3>1, ConcatenationType
  <2> HIDE DEF m
  <2>6. network' = [network EXCEPT ![p] = network[p] \o Bytes(m)]
    BY <2>1 DEF m
  <2>7. network' \in [Players -> Bytestreams]
    BY <2>5, <2>6 DEF IInv, ReaderTypes
  <2>8. sent' \in [Players -> 0..MaxSent]
    <3>1. sent[p] + 1 \in 0..MaxSent
      BY <2>3
    <3> QED
      BY <1>1, <3>1 DEF ClientSend, IInv, ReaderTypes
  <2> QED
    BY <1>1, <2>7, <2>8 DEF ClientSend, workerVars, IInv, ReaderTypes, Busy, OneReader,
                            SizeStillRight
<1>2. ASSUME NEW p \in Players, CompleteReceive(p)
      PROVE  IInv'
  <2>1. PICK n \in 1..Len(network[p]) :
          /\ readDataBuffer' = [readDataBuffer EXCEPT ![p] = SubSeq(network[p], 1, n)]
          /\ network' = [network EXCEPT ![p] = SubSeq(@, n + 1, Len(@))]
    BY <1>2 DEF CompleteReceive
  <2>2. network[p] \in Bytestreams /\ Len(network[p]) \in Nat
    <3>1. network[p] \in Bytestreams
      BY DEF IInv, ReaderTypes
    <3> QED
      BY <3>1 DEF Bytestreams
  <2>3. /\ SubSeq(network[p], 1, n) \in Bytestreams
        /\ SubSeq(network[p], n + 1, Len(network[p])) \in Bytestreams
    <3>1. 1 \in Nat \ {0} /\ n + 1 \in Nat \ {0}
      BY <2>2
    <3>2. n \in 0..Len(network[p]) /\ Len(network[p]) \in 0..Len(network[p])
      BY <2>2
    <3> QED
      BY <2>2, <3>1, <3>2, PartType
  <2>4. ReaderTypes'
    BY <1>2, <2>1, <2>3 DEF CompleteReceive, workerVars, IInv, ReaderTypes
  <2>5. OneReader'
    BY <1>2 DEF CompleteReceive, workerVars, IInv, ReaderTypes, OneReader
  <2> QED
    BY <1>2, <2>4, <2>5 DEF CompleteReceive, workerVars, IInv, Busy, SizeStillRight
<1>3. ASSUME NEW p \in Players, FailReceive(p)
      PROVE  IInv'
  BY <1>3 DEF FailReceive, workerVars, queueVars, IInv, ReaderTypes, Busy, OneReader,
              SizeStillRight
<1>4. ASSUME NEW w \in Workers, NEW p \in Players, PutStream(w, p)
      PROVE  IInv'
  <2>1. ReaderTypes'
    <3>1. streamBuffer[p] \o readDataBuffer[p] \in Bytestreams
      BY ConcatenationType DEF IInv, ReaderTypes
    <3>2. <<>> \in Bytestreams
      BY DEF Bytestreams
    <3> QED
      BY <1>4, <3>1, <3>2 DEF PutStream, IInv, ReaderTypes
  <2>2. Busy'
    BY <1>0, <1>4 DEF PutStream, IInv, ReaderTypes, Busy
  <2>3. OneReader'
    <3>1. \A v \in Workers : serving[v] # p
      BY <1>4 DEF PutStream, IInv, OneReader
    <3>2. /\ serving' = [serving EXCEPT ![w] = p]
          /\ receive' = [receive EXCEPT ![p] = "TAKEN"]
          /\ serving[w] = None
      BY <1>4 DEF PutStream, IInv, Busy
    <3>3. ASSUME NEW q \in Players \ {p}
          PROVE  /\ receive'[q] = receive[q]
                 /\ \A v \in Workers : serving'[v] = q <=> serving[v] = q
      BY <1>0, <3>2 DEF IInv, ReaderTypes
    <3>4. \A v \in Workers : serving'[v] = p <=> v = w
      BY <3>1, <3>2 DEF IInv, ReaderTypes
    <3>5. receive'[p] = "TAKEN"
      BY <3>2 DEF IInv, ReaderTypes
    <3>6. OneReader
      BY DEF IInv
    <3> QED
      BY <3>3, <3>4, <3>5, <3>6 DEF OneReader
  <2>4. SizeStillRight'
    BY <1>4 DEF PutStream, IInv, ReaderTypes, SizeStillRight
  <2> QED
    BY <2>1, <2>2, <2>3, <2>4 DEF IInv
<1>5. ASSUME NEW w \in Workers, DeserializePacket(w)
      PROVE  IInv'
  <2> DEFINE p == serving[w]
  <2>1. p \in Players
    BY <1>5 DEF DeserializePacket, IInv, ReaderTypes, Busy
  <2>2. streamBuffer[p] \in Bytestreams /\ IsMakePacket(streamBuffer[p])
    BY <1>5, <2>1 DEF DeserializePacket, IInv, ReaderTypes
  <2>3. /\ streamBuffer[p][1].message \in Messages
        /\ Rest(streamBuffer[p]) \in Bytestreams
    BY <2>2, FirstByte
  <2>4. recvPacketQueue[p] \in Seq(Messages)
    BY <2>1 DEF IInv, ReaderTypes
  <2>5. Append(recvPacketQueue[p], streamBuffer[p][1].message) \in Seq(Messages)
    BY <2>3, <2>4
  <2>6. ReaderTypes'
    BY <1>5, <2>1, <2>3, <2>5 DEF DeserializePacket, socketVars, workerVars, IInv,
                                  ReaderTypes
  <2>7. SizeStillRight'
    <3>1. \A v \in Workers : step[v] = "PUT" => serving[v] # p
      BY <1>5, <2>1 DEF DeserializePacket, IInv, OneReader, ReaderTypes, Busy
    <3> QED
      BY <1>5, <2>1, <3>1 DEF DeserializePacket, workerVars, IInv, ReaderTypes,
                              SizeStillRight
  <2> QED
    BY <1>5, <2>6, <2>7 DEF DeserializePacket, socketVars, workerVars, IInv, Busy,
                            OneReader
<1>6. ASSUME NEW w \in Workers, GetRecvQueueSize(w)
      PROVE  IInv'
  <2>1. serving[w] \in Players
    BY <1>6 DEF GetRecvQueueSize, IInv, ReaderTypes, Busy
  <2>2. recvPacketQueue[serving[w]] \in Seq(Messages)
    BY <2>1 DEF IInv, ReaderTypes
  <2>3. ReaderTypes'
    BY <1>6, <2>2 DEF GetRecvQueueSize, socketVars, IInv, ReaderTypes
  <2>4. SizeStillRight'
    BY <1>6, <2>2 DEF GetRecvQueueSize, IInv, ReaderTypes, Busy, SizeStillRight
  <2> QED
    BY <1>6, <2>3, <2>4 DEF GetRecvQueueSize, socketVars, IInv, ReaderTypes, Busy,
                            OneReader
<1>7. ASSUME NEW w \in Workers, GetPacketFromRecvQueue(w)
      PROVE  IInv'
  <2> DEFINE p == serving[w]
  <2>1. p \in Players
    BY <1>7 DEF GetPacketFromRecvQueue, IInv, ReaderTypes, Busy
  <2>2. /\ recvPacketQueue[p] \in Seq(Messages)
        /\ Len(recvPacketQueue[p]) = left[w]
        /\ left[w] > 0 /\ left[w] \in Int
    BY <1>7, <2>1 DEF GetPacketFromRecvQueue, IInv, ReaderTypes, SizeStillRight
  <2>3. /\ Head(recvPacketQueue[p]) \in Messages
        /\ Tail(recvPacketQueue[p]) \in Seq(Messages)
        /\ Len(Tail(recvPacketQueue[p])) = left[w] - 1
    BY <2>2
  <2>4. ReaderTypes'
    BY <1>7, <2>1, <2>3 DEF GetPacketFromRecvQueue, socketVars, IInv, ReaderTypes
  <2>5. Busy'
    BY <1>7, <2>3 DEF GetPacketFromRecvQueue, IInv, ReaderTypes, Busy
  <2>6. SizeStillRight'
    <3>1. \A v \in Workers \ {w} : serving[v] # p
      BY <2>1 DEF IInv, OneReader
    <3>2. ASSUME NEW v \in Workers \ {w}, step'[v] = "PUT"
          PROVE  left'[v] = Len(recvPacketQueue'[serving'[v]]) + Len(inHand'[v])
      BY <1>7, <2>1, <3>1, <3>2 DEF GetPacketFromRecvQueue, IInv, ReaderTypes, Busy,
                                    SizeStillRight
    <3>3. left'[w] = Len(recvPacketQueue'[serving'[w]]) + Len(inHand'[w])
      BY <1>7, <2>1, <2>2, <2>3 DEF GetPacketFromRecvQueue, IInv, ReaderTypes
    <3> QED
      BY <3>2, <3>3 DEF SizeStillRight
  <2> QED
    BY <1>7, <2>4, <2>5, <2>6 DEF GetPacketFromRecvQueue, socketVars, IInv, OneReader
<1>8. ASSUME NEW w \in Workers, PutPackage(w)
      PROVE  IInv'
  <2>1. step[w] = "PUT" /\ Len(inHand[w]) = 1
    <3>1. inHand[w] \in Seq(Messages) /\ inHand[w] # <<>> /\ Len(inHand[w]) <= 1
      BY <1>8 DEF PutPackage, IInv, ReaderTypes, Busy
    <3>2. Len(inHand[w]) = 1
      <4> DEFINE n == Len(inHand[w])
      <4>1. n \in Nat \ {0} /\ n <= 1
        BY <3>1, EmptySeq
      <4> HIDE DEF n
      <4>2. n = 1
        BY <4>1
      <4> QED
        BY <4>2 DEF n
    <3> QED
      BY <1>8, <3>2 DEF PutPackage, IInv, ReaderTypes, Busy
  <2>2. ReaderTypes' /\ Busy' /\ OneReader'
    BY <1>8, <2>1 DEF PutPackage, socketVars, IInv, ReaderTypes, Busy, OneReader
  <2>3. SizeStillRight'
    <3>1. serving[w] \in Players /\ Len(recvPacketQueue[serving[w]]) \in Nat
      BY <2>1 DEF IInv, ReaderTypes, Busy
    <3>2. left[w] = Len(recvPacketQueue[serving[w]]) + 1
      BY <2>1 DEF IInv, SizeStillRight
    <3>3. /\ left' = [left EXCEPT ![w] = left[w] - 1]
          /\ inHand' = [inHand EXCEPT ![w] = <<>>]
          /\ UNCHANGED <<recvPacketQueue, serving, step>>
      BY <1>8 DEF PutPackage
    <3>4. left'[w] = Len(recvPacketQueue'[serving'[w]]) + Len(inHand'[w])
      BY <3>1, <3>2, <3>3 DEF IInv, ReaderTypes
    <3>5. \A v \in Workers \ {w} : left'[v] = left[v] /\ inHand'[v] = inHand[v]
      BY <3>3 DEF IInv, ReaderTypes
    <3> QED
      BY <3>3, <3>4, <3>5 DEF IInv, SizeStillRight
  <2> QED
    BY <2>2, <2>3 DEF IInv
<1>9. ASSUME NEW w \in Workers, Receive(w)
      PROVE  IInv'
  <2>1. serving[w] \in Players
    BY <1>9 DEF Receive, IInv, ReaderTypes, Busy
  <2>2. inHand[w] = <<>>
    BY <1>9, <2>1 DEF Receive, IInv, ReaderTypes, Busy, SizeStillRight
  <2>3. ReaderTypes' /\ Busy'
    BY <1>9, <2>1, <2>2 DEF Receive, IInv, ReaderTypes, Busy
  <2>4. OneReader'
    <3> DEFINE p == serving[w]
    <3>1. \A v \in Workers \ {w} : serving[v] # p
      BY <2>1 DEF IInv, OneReader
    <3>2. /\ serving' = [serving EXCEPT ![w] = None]
          /\ receive' = [receive EXCEPT ![p] = "POSTED"]
      BY <1>9 DEF Receive
    <3>3. ASSUME NEW q \in Players \ {p}
          PROVE  /\ receive'[q] = receive[q]
                 /\ \A v \in Workers : serving'[v] = q <=> serving[v] = q
      BY <1>0, <3>2 DEF IInv, ReaderTypes
    <3>4. \A v \in Workers : serving'[v] # p
      BY <1>0, <2>1, <3>1, <3>2 DEF IInv, ReaderTypes
    <3>5. receive'[p] = "POSTED"
      BY <2>1, <3>2 DEF IInv, ReaderTypes
    <3>6. OneReader
      BY DEF IInv
    <3> QED
      BY <2>1, <3>3, <3>4, <3>5, <3>6 DEF OneReader
  <2>5. SizeStillRight'
    BY <1>9 DEF Receive, IInv, ReaderTypes, SizeStillRight
  <2> QED
    BY <2>3, <2>4, <2>5 DEF IInv
<1>10. ASSUME LockQueue \/ Execute
       PROVE  IInv'
  <2>1. UNCHANGED <<sent, socketVars, streamBuffer, recvPacketQueue, workerVars>>
    BY <1>10 DEF LockQueue, Execute
  <2> QED
    BY <2>1 DEF socketVars, workerVars, IInv, ReaderTypes, Busy, OneReader,
                SizeStillRight
<1>11. ASSUME UNCHANGED vars
       PROVE  IInv'
  BY <1>11 DEF vars, socketVars, workerVars, IInv, ReaderTypes, Busy, OneReader,
               SizeStillRight
<1> QED
  BY <1>1, <1>2, <1>3, <1>4, <1>5, <1>6, <1>7, <1>8, <1>9, <1>10, <1>11
  DEF Next, WorkerStep

\* The invariant holds in every reachable state.
THEOREM ReaderInvariance == Spec => []IInv
BY InitReader, StepReader, PTL DEF Spec

\* From the completion of its receive until the next is posted, exactly one worker
\* serves a session, whatever the workers' order (Player::PutPackageToNetwork posts
\* the receive last).
THEOREM OneReaderAlways == Spec => []OneReader
<1>1. IInv => OneReader
  BY DEF IInv
<1> QED
  BY ReaderInvariance, <1>1, PTL

\* PutPackageToNetwork never pops recvPacketQueue when it is empty.
THEOREM SizeAlways == Spec => []SizeStillRight
<1>1. IInv => SizeStillRight
  BY DEF IInv
<1> QED
  BY ReaderInvariance, <1>1, PTL

-----------------------------------------------------------------------------
(* The bytes of a client that are in the buffer, in the receive and under  *)
(* way are whole messages, one after the other; this is said of each byte  *)
(* by its place, so that no induction is needed.                           *)

\* Around each byte stand all the bytes of its message.
Whole(s) ==
  \A i \in 1..Len(s) :
    /\ s[i].at \in 1..s[i].message.length
    /\ i - s[i].at >= 0
    /\ i - s[i].at + s[i].message.length <= Len(s)
    /\ \A j \in 1..s[i].message.length :
         s[i - s[i].at + j] = [message |-> s[i].message, at |-> j]

StreamsWhole == \A p \in Players : Whole(Stream(p))

\* Clients keep to their window, a receive to its buffer, and what it has brought is
\* appended once.
UnderWay ==
  \A p \in Players :
    /\ Len(readDataBuffer[p]) + Len(network[p]) <= Window
    /\ Len(readDataBuffer[p]) <= MAX_BUFFER_LENGTH
    /\ receive[p] # "COMPLETED" => readDataBuffer[p] = <<>>

\* Who is done with cutting has left no packet, and who posts a receive none in the queue.
CutUp ==
  /\ \A w \in Workers : step[w] = "PUT" => ~IsMakePacket(streamBuffer[serving[w]])
  /\ \A p \in Players :
       receive[p] # "TAKEN" => recvPacketQueue[p] = <<>> /\ ~IsMakePacket(streamBuffer[p])

\* Before an overrun the buffer holds what has been written to it.
InBuffer == \A p \in Players : overrun \/ Len(streamBuffer[p]) <= MAX_BUFFER_LENGTH

\* The packages in the queue, of which the batch is the first.
Packages ==
  /\ packageQueue \in Seq([player : Players, packet : Messages])
  /\ batch \in 0..Len(packageQueue)
  /\ handled \in [Players -> Messages \cup {None}]
  /\ overrun \in BOOLEAN

\* A worker never moves more packets than it counted.
Counted == left \in [Workers -> Nat]

\* What the theorems rest on besides IInv.
StreamInv ==
  StreamsWhole /\ UnderWay /\ CutUp /\ InBuffer /\ Packages

\* One byte of a stream.
Byte == [message : Messages, at : Nat]

\* The lengths and entries of streams after each other.
LEMMA Streams ==
  ASSUME NEW s \in Bytestreams, NEW r \in Bytestreams
  PROVE  /\ s \o r \in Bytestreams
         /\ Len(s) \in Nat /\ Len(r) \in Nat /\ Len(s \o r) = Len(s) + Len(r)
         /\ \A i \in 1..Len(s) : (s \o r)[i] = s[i] /\ s[i] \in Byte
         /\ \A i \in 1..Len(r) : (s \o r)[Len(s) + i] = r[i] /\ r[i] \in Byte
<1> DEFINE B == [message : Messages, at : Nat]
<1>1. s \in Seq(B) /\ r \in Seq(B)
  BY DEF Bytestreams
<1> HIDE DEF B
<1>2. /\ s \o r \in Seq(B) /\ Len(s) \in Nat /\ Len(r) \in Nat
      /\ Len(s \o r) = Len(s) + Len(r)
      /\ \A i \in 1..Len(s) + Len(r) :
           (s \o r)[i] = IF i <= Len(s) THEN s[i] ELSE r[i - Len(s)]
  BY <1>1, ConcatProperties, LenProperties
<1>3. \A i \in 1..Len(s) : s[i] \in B
  BY <1>1, ElementOfSeq
<1>4. \A i \in 1..Len(r) : r[i] \in B
  BY <1>1, ElementOfSeq
<1>5. \A i \in 1..Len(s) : (s \o r)[i] = s[i]
  BY <1>2
<1>6. ASSUME NEW i \in 1..Len(r) PROVE (s \o r)[Len(s) + i] = r[i]
  <2>1. Len(s) + i \in 1..Len(s) + Len(r) /\ ~(Len(s) + i <= Len(s)) /\ Len(s) + i - Len(s) = i
    BY <1>2
  <2> QED
    BY <2>1, <1>2
<1> QED
  BY <1>2, <1>3, <1>4, <1>5, <1>6 DEF B, Bytestreams, Byte

\* A part of a stream.
LEMMA Parts ==
  ASSUME NEW s \in Bytestreams, NEW k \in 0..Len(s)
  PROVE  /\ SubSeq(s, 1, k) \in Bytestreams /\ Len(SubSeq(s, 1, k)) = k
         /\ SubSeq(s, k + 1, Len(s)) \in Bytestreams
         /\ Len(SubSeq(s, k + 1, Len(s))) = Len(s) - k
         /\ \A i \in 1..(Len(s) - k) : SubSeq(s, k + 1, Len(s))[i] = s[k + i]
         /\ SubSeq(s, 1, k) \o SubSeq(s, k + 1, Len(s)) = s
<1> DEFINE B == [message : Messages, at : Nat]
<1>1. s \in Seq(B)
  BY DEF Bytestreams
<1> HIDE DEF B
<1>2. Len(s) \in Nat /\ \A i \in 1..Len(s) : s[i] \in B
  BY <1>1, LenProperties, ElementOfSeq
<1>3. k \in Int /\ k + 1 \in Int /\ Len(s) \in Int /\ 1 \in Int
  BY <1>2
<1>4. /\ SubSeq(s, 1, k) \in Seq(B) /\ Len(SubSeq(s, 1, k)) = IF 1 <= k THEN k - 1 + 1 ELSE 0
  <2>1. \A i \in 1..k : s[i] \in B
    BY <1>2
  <2> QED
    BY <2>1, <1>3, SubSeqProperties
<1>5. /\ SubSeq(s, k + 1, Len(s)) \in Seq(B)
      /\ Len(SubSeq(s, k + 1, Len(s))) =
           IF k + 1 <= Len(s) THEN Len(s) - (k + 1) + 1 ELSE 0
      /\ \A i \in 1..(Len(s) - (k + 1) + 1) :
           SubSeq(s, k + 1, Len(s))[i] = s[(k + 1) + i - 1]
  <2>1. \A i \in (k + 1)..Len(s) : s[i] \in B
    BY <1>2
  <2> QED
    BY <2>1, <1>3, SubSeqProperties
<1>6. SubSeq(s, 1, k) \o SubSeq(s, k + 1, Len(s)) = s
  <2>1. 1 \in 1..Len(s) + 1 /\ k \in (1 - 1)..Len(s) /\ Len(s) \in k..Len(s)
    BY <1>2
  <2>2. SubSeq(s, 1, k) \o SubSeq(s, k + 1, Len(s)) = SubSeq(s, 1, Len(s))
    BY <2>1, <1>1, ConcatAdjacentSubSeq
  <2> QED
    BY <2>2, <1>1, SubSeqFull
<1>7. \A i \in 1..(Len(s) - k) : SubSeq(s, k + 1, Len(s))[i] = s[k + i]
  BY <1>2, <1>5
<1>8. Len(SubSeq(s, 1, k)) = k /\ Len(SubSeq(s, k + 1, Len(s))) = Len(s) - k
  BY <1>2, <1>4, <1>5
<1> QED
  BY <1>4, <1>5, <1>6, <1>7, <1>8 DEF B, Bytestreams

\* A client appends a whole message to what it has sent.
LEMMA WholeWithMessage ==
  ASSUME NEW s \in Bytestreams, Whole(s), NEW m \in Messages
  PROVE  Whole(s \o Bytes(m))
<1> DEFINE r == Bytes(m)
           t == s \o r
           n == Len(s)
<1>1. m.length \in Nat /\ m.length >= 1
  BY LengthOfMessage
<1>2. r \in Bytestreams
  BY BytesType
<1>3. Len(r) = m.length /\ \A j \in 1..m.length : r[j] = [message |-> m, at |-> j]
  BY <1>1 DEF Bytes
<1> HIDE DEF r
<1>4. /\ n \in Nat /\ Len(t) = n + m.length
      /\ \A i \in 1..n : t[i] = s[i] /\ s[i] \in Byte
      /\ \A i \in 1..m.length : t[n + i] = [message |-> m, at |-> i]
  <2>1. /\ n \in Nat /\ Len(t) = n + Len(r)
        /\ \A i \in 1..n : t[i] = s[i] /\ s[i] \in Byte
        /\ \A i \in 1..Len(r) : t[n + i] = r[i]
    BY <1>2, Streams
  <2> HIDE DEF t, n
  <2> QED
    BY <2>1, <1>3
<1> HIDE DEF t, n
<1>5. ASSUME NEW i \in 1..Len(t)
      PROVE  /\ t[i].at \in 1..t[i].message.length
             /\ i - t[i].at >= 0
             /\ i - t[i].at + t[i].message.length <= Len(t)
             /\ \A j \in 1..t[i].message.length :
                  t[i - t[i].at + j] = [message |-> t[i].message, at |-> j]
  <2>1. CASE i <= n
    <3>1. i \in 1..n /\ t[i] = s[i] /\ s[i] \in Byte
      BY <2>1, <1>4
    <3> DEFINE l == s[i].message.length
               b == i - s[i].at
    <3>2. l \in Nat /\ s[i].at \in Nat
      BY <3>1, LengthOfMessage DEF Byte
    <3>3. /\ s[i].at \in 1..l /\ b >= 0 /\ b + l <= n
          /\ \A j \in 1..l : s[b + j] = [message |-> s[i].message, at |-> j]
      BY <3>1 DEF Whole, n
    <3>4. b \in Int
      BY <3>2
    <3> HIDE DEF b, l
    <3>5. \A j \in 1..l : b + j \in 1..n
      BY <3>2, <3>3, <3>4, <1>4
    <3>6. \A j \in 1..l : t[b + j] = [message |-> s[i].message, at |-> j]
      BY <3>3, <3>5, <1>4
    <3>7. b + l <= Len(t)
      BY <1>1, <1>4, <3>2, <3>3, <3>4
    <3> QED
      BY <3>1, <3>3, <3>6, <3>7 DEF b, l
  <2>2. CASE i > n
    <3>1. PICK a \in 1..m.length : i = n + a
      <4>1. i - n \in 1..m.length /\ i = n + (i - n)
        BY <2>2, <1>1, <1>4
      <4> QED
        BY <4>1
    <3>2. t[i] = [message |-> m, at |-> a]
      BY <3>1, <1>4
    <3>3. t[i].at = a /\ t[i].message = m
      BY <3>2
    <3>4. i - a = n
      BY <3>1, <1>1, <1>4
    <3> QED
      BY <3>3, <3>4, <1>1, <1>4
  <2> QED
    BY <2>1, <2>2, <1>4
<1> QED
  BY <1>5 DEF Whole, t, r

\* A stream of whole messages begins with the first byte of one, and is whole without it.
LEMMA WholeWithoutFirst ==
  ASSUME NEW s \in Bytestreams, Whole(s), Len(s) >= 1
  PROVE  /\ s[1] \in Byte /\ s[1].at = 1
         /\ s[1].message.length \in 1..Len(s)
         /\ Whole(SubSeq(s, s[1].message.length + 1, Len(s)))
<1> DEFINE n == Len(s)
           l == s[1].message.length
           t == SubSeq(s, l + 1, n)
<1>1. n \in Nat /\ \A i \in 1..n : s[i] \in Byte
  BY Streams
<1>2. 1 \in 1..n
  BY <1>1
<1>3. l \in Nat /\ l >= 1 /\ s[1].at \in Nat /\ s[1] \in Byte
  BY <1>1, <1>2, LengthOfMessage DEF Byte
<1>4. /\ s[1].at \in 1..l /\ 1 - s[1].at >= 0 /\ 1 - s[1].at + l <= n
      /\ \A j \in 1..l : s[1 - s[1].at + j] = [message |-> s[1].message, at |-> j]
  BY <1>2 DEF Whole
<1>5. s[1].at = 1 /\ 1 - s[1].at = 0
  BY <1>3, <1>4
<1>6. l \in 1..n
  BY <1>1, <1>3, <1>4, <1>5
<1>7. s[l].at = l /\ s[l].message = s[1].message
  <2>1. 0 + l = l /\ l \in 1..l
    BY <1>3
  <2>2. s[0 + l] = [message |-> s[1].message, at |-> l]
    BY <2>1, <1>4, <1>5
  <2> QED
    BY <2>1, <2>2
<1>8. /\ t \in Bytestreams /\ Len(t) = n - l
      /\ \A i \in 1..(n - l) : t[i] = s[l + i]
  <2>1. l \in 0..n
    BY <1>6
  <2> QED
    BY <2>1, Parts
<1>9. ASSUME NEW i \in 1..Len(t)
      PROVE  /\ t[i].at \in 1..t[i].message.length
             /\ i - t[i].at >= 0
             /\ i - t[i].at + t[i].message.length <= Len(t)
             /\ \A j \in 1..t[i].message.length :
                  t[i - t[i].at + j] = [message |-> t[i].message, at |-> j]
  <2> DEFINE c == s[l + i]
             k == c.message.length
             a == c.at
             b == (l + i) - a
  <2>1. l + i \in 1..n /\ i \in 1..(n - l) /\ t[i] = c
    <3> HIDE DEF n, l, t
    <3> QED
      BY <1>1, <1>3, <1>6, <1>8
  <2>2. c \in Byte
    BY <2>1, <1>1
  <2>3. a \in Nat /\ k \in Nat
    BY <2>2, LengthOfMessage DEF Byte
  <2>4. /\ a \in 1..k /\ b >= 0 /\ b + k <= n
        /\ \A j \in 1..k : s[b + j] = [message |-> c.message, at |-> j]
    BY <2>1 DEF Whole
  <2>5. b \in Int /\ b = l + i - a
    <3>1. l \in Nat /\ i \in Int
      BY <1>3
    <3> HIDE DEF l, a
    <3> QED
      BY <3>1, <2>3
  <2> HIDE DEF b, k, c, a, n, l, t
  \* The message cannot begin in the one before it: the last byte of that ends it.
  <2>6. b >= l
    <3>1. SUFFICES ASSUME b < l PROVE FALSE
      BY <2>5, <1>3
    <3>2. l - b \in 1..k /\ b + (l - b) = l
      BY <3>1, <2>1, <2>3, <2>4, <2>5, <1>3
    <3>3. s[l] = [message |-> c.message, at |-> l - b]
      BY <3>2, <2>4
    <3>4. c.message = s[1].message /\ l - b = l
      BY <3>3, <1>7 DEF l
    <3>5. k = l /\ b = 0
      BY <3>4, <2>3, <2>5, <1>3 DEF k, l
    <3> QED
      BY <3>5, <2>1, <2>3, <2>4, <2>5, <1>3
  <2> DEFINE d == i - a
  <2>7. d \in Int /\ d >= 0 /\ d + k <= n - l /\ b = l + d
    BY <2>1, <2>3, <2>4, <2>5, <2>6, <1>1, <1>3
  <2> HIDE DEF d
  <2>8. ASSUME NEW j \in 1..k PROVE t[d + j] = [message |-> c.message, at |-> j]
    <3>1. d + j \in 1..(n - l) /\ l + (d + j) = b + j
      BY <2>3, <2>7, <1>1, <1>3
    <3> QED
      BY <3>1, <2>4, <1>8
  <2> QED
    BY <2>1, <2>4, <2>7, <2>8, <1>8 DEF d, k, a
<1> QED
  BY <1>3, <1>5, <1>6, <1>9 DEF Whole

\* The streams of a session.
LEMMA Streaming ==
  ASSUME IInv, NEW p \in Players
  PROVE  /\ streamBuffer[p] \in Bytestreams /\ readDataBuffer[p] \in Bytestreams
         /\ network[p] \in Bytestreams
         /\ Arriving(p) \in Bytestreams /\ Stream(p) \in Bytestreams
         /\ Len(streamBuffer[p]) \in Nat /\ Len(readDataBuffer[p]) \in Nat
         /\ Len(network[p]) \in Nat /\ recvPacketQueue[p] \in Seq(Messages)
<1>1. /\ streamBuffer[p] \in Bytestreams /\ readDataBuffer[p] \in Bytestreams
      /\ network[p] \in Bytestreams /\ recvPacketQueue[p] \in Seq(Messages)
  BY DEF IInv, ReaderTypes
<1>2. Arriving(p) \in Bytestreams
  BY <1>1, ConcatenationType DEF Arriving
<1>3. Stream(p) \in Bytestreams
  BY <1>1, <1>2, ConcatenationType DEF Stream
<1> QED
  BY <1>1, <1>2, <1>3, Streams

\* Three streams after each other.
LEMMA Associative ==
  ASSUME NEW s \in Bytestreams, NEW r \in Bytestreams, NEW t \in Bytestreams
  PROVE  (s \o r) \o t = s \o (r \o t)
BY ConcatAssociative DEF Bytestreams

\* Nothing before or after a stream.
LEMMA Nothing ==
  /\ <<>> \in Bytestreams /\ Len(<<>>) = 0
  /\ \A s \in Bytestreams : s \o <<>> = s /\ <<>> \o s = s /\ (Len(s) = 0 <=> s = <<>>)
BY ConcatEmptySeq, EmptySeq DEF Bytestreams

\* A session that nothing is done to.
LEMMA OtherStream ==
  ASSUME NEW q \in Players, streamBuffer'[q] = streamBuffer[q],
         Arriving(q)' = Arriving(q), Whole(Stream(q))
  PROVE  Whole(Stream(q))'
<1>1. Stream(q)' = Stream(q)
  BY DEF Stream
<1> QED
  BY <1>1 DEF Whole

\* What becomes of the streams: a client appends a message, a receive and a worker pass
\* bytes on and a worker cuts a packet off.
LEMMA StreamSent ==
  ASSUME IInv, NEW p \in Players, NEW m \in Messages,
         network' = [network EXCEPT ![p] = network[p] \o Bytes(m)],
         UNCHANGED <<readDataBuffer, streamBuffer>>
  PROVE  /\ Stream(p)' = Stream(p) \o Bytes(m)
         /\ \A q \in Players \ {p} : Stream(q)' = Stream(q)
<1> DEFINE b == Bytes(m)
<1>1. /\ network'[p] = network[p] \o b
      /\ \A q \in Players \ {p} : network'[q] = network[q]
  BY DEF IInv, ReaderTypes
<1>2. /\ streamBuffer[p] \in Bytestreams /\ readDataBuffer[p] \in Bytestreams
      /\ network[p] \in Bytestreams /\ b \in Bytestreams
      /\ readDataBuffer[p] \o network[p] \in Bytestreams
  BY BytesType, Streaming DEF Arriving
<1> HIDE DEF b
<1>3. readDataBuffer[p] \o (network[p] \o b) = (readDataBuffer[p] \o network[p]) \o b
  BY <1>2, Associative
<1>4. streamBuffer[p] \o ((readDataBuffer[p] \o network[p]) \o b)
        = (streamBuffer[p] \o (readDataBuffer[p] \o network[p])) \o b
  BY <1>2, Associative
<1>5. Stream(p)' = Stream(p) \o b
  BY <1>1, <1>3, <1>4 DEF Stream, Arriving
<1>6. \A q \in Players \ {p} : Stream(q)' = Stream(q)
  BY <1>1 DEF Stream, Arriving
<1> QED
  BY <1>5, <1>6 DEF b

LEMMA StreamReceived ==
  ASSUME IInv, StreamInv, NEW p \in Players, CompleteReceive(p), NEW q \in Players
  PROVE  Stream(q)' = Stream(q)
<1>1. PICK n \in 1..Len(network[p]) :
        /\ readDataBuffer' = [readDataBuffer EXCEPT ![p] = SubSeq(network[p], 1, n)]
        /\ network' = [network EXCEPT ![p] = SubSeq(@, n + 1, Len(@))]
  BY DEF CompleteReceive
<1>2. receive[p] = "POSTED" /\ UNCHANGED streamBuffer
  BY DEF CompleteReceive
<1>3. n \in 0..Len(network[p]) /\ network[p] \in Bytestreams /\ Len(network[p]) \in Nat
  BY Streaming
<1>4. /\ readDataBuffer'[p] = SubSeq(network[p], 1, n)
      /\ network'[p] = SubSeq(network[p], n + 1, Len(network[p]))
      /\ \A r \in Players \ {p} : network'[r] = network[r] /\ readDataBuffer'[r] = readDataBuffer[r]
  BY <1>1 DEF IInv, ReaderTypes
<1>5. readDataBuffer[p] = <<>>
  BY <1>2 DEF StreamInv, UnderWay
<1>6. readDataBuffer'[p] \o network'[p] = network[p]
  BY <1>3, <1>4, Parts
<1>7. readDataBuffer'[q] \o network'[q] = readDataBuffer[q] \o network[q]
  BY <1>3, <1>4, <1>5, <1>6, Nothing
<1> QED
  BY <1>2, <1>7 DEF Stream, Arriving

LEMMA StreamAppended ==
  ASSUME IInv, NEW w \in Workers, NEW p \in Players, PutStream(w, p), NEW q \in Players
  PROVE  Stream(q)' = Stream(q)
<1>1. /\ streamBuffer' = [streamBuffer EXCEPT ![p] = streamBuffer[p] \o readDataBuffer[p]]
      /\ readDataBuffer' = [readDataBuffer EXCEPT ![p] = <<>>]
      /\ UNCHANGED network
  BY DEF PutStream
<1>2. /\ streamBuffer'[p] = streamBuffer[p] \o readDataBuffer[p] /\ readDataBuffer'[p] = <<>>
      /\ q # p => streamBuffer'[q] = streamBuffer[q] /\ readDataBuffer'[q] = readDataBuffer[q]
  BY <1>1 DEF IInv, ReaderTypes
<1>3. /\ streamBuffer[p] \in Bytestreams /\ readDataBuffer[p] \in Bytestreams
      /\ network[p] \in Bytestreams
  BY Streaming
<1>4. (streamBuffer[p] \o readDataBuffer[p]) \o network[p]
        = streamBuffer[p] \o (readDataBuffer[p] \o network[p])
  BY <1>3, Associative
<1>5. <<>> \o network[p] = network[p]
  BY <1>3, Nothing
<1> QED
  BY <1>1, <1>2, <1>4, <1>5 DEF Stream, Arriving

LEMMA StreamCut ==
  ASSUME IInv, NEW w \in Workers, DeserializePacket(w), NEW p \in Players, p = serving[w]
  PROVE  /\ Stream(p)[1] = streamBuffer[p][1] /\ Len(Stream(p)) >= 1
         /\ Stream(p)' =
              SubSeq(Stream(p), streamBuffer[p][1].message.length + 1, Len(Stream(p)))
         /\ \A q \in Players \ {p} : Stream(q)' = Stream(q)
<1> DEFINE s == streamBuffer[p]
           l == s[1].message.length
           a == Arriving(p)
           t == Stream(p)
<1>1. p \in Players
  OBVIOUS
<1>2. /\ IsMakePacket(s)
      /\ streamBuffer' = [streamBuffer EXCEPT ![p] = Rest(s)]
      /\ UNCHANGED <<network, readDataBuffer>>
  BY DEF DeserializePacket, socketVars
<1>3. s \in Bytestreams /\ a \in Bytestreams /\ t \in Bytestreams /\ Len(s) \in Nat
  BY <1>1, Streaming
<1>4. Len(s) >= 1 /\ Len(s) >= l
  BY <1>2, <1>3, ReceivePathAssumption DEF IsMakePacket
<1>5. l \in Nat
  BY <1>2, <1>3, FirstByte, LengthOfMessage DEF l
<1>6. /\ streamBuffer'[p] = Rest(s)
      /\ \A q \in Players \ {p} : streamBuffer'[q] = streamBuffer[q]
  BY <1>1, <1>2 DEF IInv, ReaderTypes
<1> HIDE DEF s, l, t
<1>7. /\ Rest(s) = SubSeq(s, l + 1, Len(s)) /\ Rest(s) \in Bytestreams
      /\ Len(Rest(s)) = Len(s) - l
      /\ SubSeq(s, 1, l) \in Bytestreams /\ Len(SubSeq(s, 1, l)) = l
      /\ SubSeq(s, 1, l) \o Rest(s) = s
  <2>1. l \in 0..Len(s)
    BY <1>3, <1>4, <1>5
  <2> QED
    BY <2>1, <1>3, Parts DEF Rest, l
<1>8. Stream(p)' = Rest(s) \o a
  BY <1>2, <1>6 DEF Stream, Arriving, s
<1>9. t = s \o a /\ t[1] = s[1] /\ Len(t) = Len(s) + Len(a) /\ Len(a) \in Nat
  <2>1. 1 \in 1..Len(s)
    BY <1>3, <1>4
  <2>2. t = s \o a
    BY DEF Stream, s, t
  <2> QED
    BY <2>1, <2>2, <1>3, Streams
<1>10. t = SubSeq(s, 1, l) \o (Rest(s) \o a)
  <2>1. (SubSeq(s, 1, l) \o Rest(s)) \o a = SubSeq(s, 1, l) \o (Rest(s) \o a)
    BY <1>3, <1>7, Associative
  <2> QED
    BY <1>9, <2>1, <1>7
<1>11. SubSeq(t, l + 1, Len(t)) = Rest(s) \o a
  <2>1. l \in 0..Len(t) /\ t \in Bytestreams
    BY <1>3, <1>4, <1>5, <1>9
  <2>2. /\ SubSeq(t, l + 1, Len(t)) \in Bytestreams
        /\ Len(SubSeq(t, l + 1, Len(t))) = Len(t) - l
        /\ \A i \in 1..(Len(t) - l) : SubSeq(t, l + 1, Len(t))[i] = t[l + i]
    BY <2>1, Parts
  <2> DEFINE r == Rest(s) \o a
  <2>3. /\ r \in Bytestreams /\ Len(r) = Len(t) - l
        /\ \A i \in 1..Len(r) : t[l + i] = r[i]
    <3>1. r \in Bytestreams /\ Len(r) = Len(Rest(s)) + Len(a)
      BY <1>3, <1>7, Streams
    <3>2. Len(r) = Len(t) - l
      <4> DEFINE n == Len(s)
                 k == Len(a)
      <4>1. n \in Nat /\ k \in Nat /\ Len(t) = n + k /\ Len(r) = (n - l) + k
        BY <3>1, <1>3, <1>7, <1>9
      <4> HIDE DEF n, k, r
      <4> QED
        BY <4>1, <1>5
    <3>3. \A i \in 1..Len(r) : (SubSeq(s, 1, l) \o r)[Len(SubSeq(s, 1, l)) + i] = r[i]
      BY <3>1, <1>7, Streams
    <3> QED
      BY <3>1, <3>2, <3>3, <1>7, <1>10
  <2> HIDE DEF r
  <2> DEFINE u == SubSeq(t, l + 1, Len(t))
  <2>4. u \in Bytestreams /\ Len(u) = Len(r) /\ \A i \in 1..Len(u) : u[i] = r[i]
    BY <2>2, <2>3
  <2> HIDE DEF u
  <2>5. u = r
    BY <2>3, <2>4, SeqEqual DEF Bytestreams
  <2> QED
    BY <2>5 DEF u, r
<1>12. \A q \in Players \ {p} : Stream(q)' = Stream(q)
  BY <1>2, <1>6 DEF Stream, Arriving
<1>13. Len(t) >= 1
  BY <1>3, <1>4, <1>9
<1> QED
  BY <1>8, <1>9, <1>11, <1>12, <1>13 DEF s, l, t

\* A stream that stays as it is stays whole.
LEMMA SameStream ==
  ASSUME NEW q \in Players, Stream(q)' = Stream(q), Whole(Stream(q))
  PROVE  Whole(Stream(q))'
BY DEF Whole

\* All buffers are empty at first.
LEMMA InitStream == Init => StreamInv
<1> SUFFICES ASSUME Init PROVE StreamInv
  OBVIOUS
<1>1. Window \in Nat /\ MAX_BUFFER_LENGTH \in Nat /\ PACKET_HEADER_LENGTH \in Nat \ {0}
  BY ReceivePathAssumption
<1>2. ASSUME NEW p \in Players PROVE Stream(p) = <<>>
  BY Nothing DEF Init, Stream, Arriving
<1>3. StreamsWhole
  BY <1>2, Nothing DEF StreamsWhole, Whole
<1>4. UnderWay /\ InBuffer
  BY <1>1, Nothing DEF Init, UnderWay, InBuffer
<1>5. CutUp
  BY <1>1, Nothing DEF Init, CutUp, IsMakePacket
<1>6. Packages
  <2>1. packageQueue = <<>> /\ batch = 0 /\ overrun = FALSE
        /\ handled = [p \in Players |-> None]
    BY DEF Init
  <2>2. Len(<<>>) = 0 /\ 0 \in 0..0
    BY Nothing
  <2>3. packageQueue \in Seq([player : Players, packet : Messages])
    BY <2>1
  <2>4. batch \in 0..Len(packageQueue)
    BY <2>1, <2>2
  <2>5. handled \in [Players -> Messages \cup {None}] /\ overrun \in BOOLEAN
    BY <2>1
  <2> QED
    BY <2>3, <2>4, <2>5 DEF Packages
<1> QED
  BY <1>3, <1>4, <1>5, <1>6 DEF StreamInv

\* Clients and the network.
LEMMA StepNetwork ==
  ASSUME IInv, StreamInv, NEW p \in Players,
         ClientSend(p) \/ CompleteReceive(p) \/ FailReceive(p)
  PROVE  StreamInv'
<1>1. CASE ClientSend(p)
  <2>1. PICK l \in Lengths :
          /\ Len(network[p]) + Len(readDataBuffer[p]) + l <= Window
          /\ network' = [network EXCEPT ![p] = @ \o Bytes([number |-> sent[p] + 1, length |-> l])]
    BY <1>1 DEF ClientSend
  <2> DEFINE m == [number |-> sent[p] + 1, length |-> l]
  <2>2. m \in Messages /\ m.length = l
    <3>1. sent[p] \in 0..MaxSent /\ sent[p] < MaxSent
      BY <1>1 DEF ClientSend, IInv, ReaderTypes
    <3>2. sent[p] + 1 \in 1..MaxSent
      BY <3>1, ReceivePathAssumption
    <3> QED
      BY <3>2 DEF Messages
  <2> HIDE DEF m
  <2>3. network' = [network EXCEPT ![p] = network[p] \o Bytes(m)]
    BY <2>1 DEF m
  <2>4. UNCHANGED <<receive, readDataBuffer, streamBuffer, recvPacketQueue, serving, step,
                    packageQueue, batch, handled, overrun>>
    BY <1>1 DEF ClientSend, workerVars, queueVars
  <2>5. l \in Nat /\ Bytes(m) \in Bytestreams /\ Len(Bytes(m)) = l
    BY <2>2, LengthOfMessage, BytesType DEF Bytes
  <2>6. network'[p] = network[p] \o Bytes(m) /\ \A q \in Players \ {p} : network'[q] = network[q]
    BY <2>3 DEF IInv, ReaderTypes
  <2>7. StreamsWhole'
    <3>1. /\ Stream(p)' = Stream(p) \o Bytes(m)
          /\ \A q \in Players \ {p} : Stream(q)' = Stream(q)
      BY <2>2, <2>3, <2>4, StreamSent
    <3>2. Whole(Stream(p)) /\ Stream(p) \in Bytestreams
      BY Streaming DEF StreamInv, StreamsWhole
    <3>3. Whole(Stream(p) \o Bytes(m))
      BY <3>2, <2>2, WholeWithMessage
    <3>4. Whole(Stream(p))'
      BY <3>1, <3>3 DEF Whole
    <3>5. ASSUME NEW q \in Players \ {p} PROVE Whole(Stream(q))'
      BY <3>1, SameStream DEF StreamInv, StreamsWhole
    <3> QED
      BY <3>4, <3>5 DEF StreamsWhole
  <2>8. UnderWay'
    <3>1. Len(network'[p]) = Len(network[p]) + l
      BY <2>5, <2>6, Streaming, Streams
    <3>2. Len(readDataBuffer[p]) + Len(network'[p]) <= Window
      <4>1. Len(network[p]) \in Nat /\ Len(readDataBuffer[p]) \in Nat /\ Window \in Nat
        BY Streaming, ReceivePathAssumption
      <4> DEFINE a == Len(network[p])
                 b == Len(readDataBuffer[p])
      <4>2. a \in Nat /\ b \in Nat /\ Window \in Nat /\ l \in Nat /\ a + b + l <= Window
        BY <4>1, <2>1, <2>5
      <4>3. Len(network'[p]) = a + l
        BY <3>1
      <4> HIDE DEF a, b
      <4>4. b + (a + l) <= Window
        BY <4>2
      <4> QED
        BY <4>3, <4>4 DEF b
    <3> QED
      BY <2>4, <2>6, <3>2 DEF StreamInv, UnderWay
  <2> QED
    BY <2>4, <2>7, <2>8 DEF StreamInv, CutUp, IsMakePacket, InBuffer, Packages
<1>2. CASE CompleteReceive(p)
  <2>1. PICK n \in 1..Len(network[p]) :
          /\ n <= MAX_BUFFER_LENGTH
          /\ readDataBuffer' = [readDataBuffer EXCEPT ![p] = SubSeq(network[p], 1, n)]
          /\ network' = [network EXCEPT ![p] = SubSeq(@, n + 1, Len(@))]
    BY <1>2 DEF CompleteReceive
  <2>2. /\ receive[p] = "POSTED" /\ receive' = [receive EXCEPT ![p] = "COMPLETED"]
        /\ UNCHANGED <<streamBuffer, recvPacketQueue, serving, step, packageQueue, batch,
                       handled, overrun>>
    BY <1>2 DEF CompleteReceive, workerVars, queueVars
  <2>3. n \in 0..Len(network[p]) /\ network[p] \in Bytestreams /\ Len(network[p]) \in Nat
    BY Streaming
  <2>4. /\ readDataBuffer'[p] = SubSeq(network[p], 1, n)
        /\ network'[p] = SubSeq(network[p], n + 1, Len(network[p]))
        /\ \A q \in Players \ {p} : network'[q] = network[q] /\ readDataBuffer'[q] = readDataBuffer[q]
    BY <2>1 DEF IInv, ReaderTypes
  <2>5. readDataBuffer[p] = <<>>
    BY <2>2 DEF StreamInv, UnderWay
  <2>6. /\ Len(readDataBuffer'[p]) = n /\ Len(network'[p]) = Len(network[p]) - n
    BY <2>3, <2>4, Parts
  <2>7. StreamsWhole'
    BY <1>2, StreamReceived, SameStream DEF StreamInv, StreamsWhole
  <2>8. UnderWay'
    <3>1. Len(readDataBuffer'[p]) + Len(network'[p]) = Len(readDataBuffer[p]) + Len(network[p])
      BY <2>3, <2>5, <2>6, Nothing
    <3>2. \A q \in Players : receive'[q] # "COMPLETED" => q # p /\ receive[q] # "COMPLETED"
      BY <2>2 DEF IInv, ReaderTypes
    <3> QED
      BY <2>1, <2>4, <2>6, <3>1, <3>2 DEF StreamInv, UnderWay
  <2>9. CutUp'
    BY <2>2 DEF StreamInv, CutUp, IsMakePacket, IInv, ReaderTypes
  <2> QED
    BY <2>2, <2>7, <2>8, <2>9 DEF StreamInv, InBuffer, Packages
<1>3. CASE FailReceive(p)
  <2>1. /\ receive[p] = "POSTED" /\ receive' = [receive EXCEPT ![p] = "FAILED"]
        /\ UNCHANGED <<network, readDataBuffer, streamBuffer, recvPacketQueue, serving, step,
                       packageQueue, batch, handled, overrun>>
    BY <1>3 DEF FailReceive, workerVars, queueVars
  <2>2. StreamsWhole'
    BY <2>1, OtherStream DEF Arriving, StreamInv, StreamsWhole
  <2>3. UnderWay' /\ CutUp'
    BY <2>1 DEF StreamInv, UnderWay, CutUp, IsMakePacket, IInv, ReaderTypes
  <2> QED
    BY <2>1, <2>2, <2>3 DEF StreamInv, InBuffer, Packages
<1> QED
  BY <1>1, <1>2, <1>3

\* Before an overrun everything is in the buffers.
LEMMA Buffered ==
  ASSUME StreamInv, ~overrun, NEW p \in Players
  PROVE  Len(streamBuffer[p]) <= MAX_BUFFER_LENGTH
BY DEF StreamInv, InBuffer

\* What is in the buffer of a session that no worker serves is less than one packet,
\* and begins with the first byte of it.
LEMMA LessThanOne ==
  ASSUME IInv, StreamInv, NEW p \in Players, ~IsMakePacket(streamBuffer[p]),
         streamBuffer[p] # <<>>
  PROVE  /\ streamBuffer[p][1].at = 1
         /\ streamBuffer[p][1].message.length \in Lengths
         /\ Len(streamBuffer[p]) < streamBuffer[p][1].message.length
<1> DEFINE s == streamBuffer[p]
           n == Len(s)
<1>1. s \in Bytestreams /\ Arriving(p) \in Bytestreams /\ Stream(p) \in Bytestreams
  BY Streaming
<1>2. n \in Nat /\ n # 0
  BY <1>1, Nothing, Streams
<1>3. Len(Stream(p)) \in Nat /\ Len(Stream(p)) = n + Len(Arriving(p)) /\ Len(Arriving(p)) \in Nat
  BY <1>1, Streams DEF Stream
<1>4. 1 \in 1..n
  BY <1>2
<1>5. Stream(p)[1] = s[1]
  BY <1>1, <1>4, Streams DEF Stream
<1> HIDE DEF n, s
<1>6. Len(Stream(p)) >= 1 /\ Whole(Stream(p))
  BY <1>2, <1>3 DEF StreamInv, StreamsWhole
<1>7. s[1] \in Byte /\ s[1].at = 1
  BY <1>1, <1>5, <1>6, WholeWithoutFirst
<1>8. s[1].message \in Messages /\ s[1].message.length \in Lengths
  BY <1>7 DEF Byte, Messages
<1>9. /\ s[1].message.length \in Nat /\ PACKET_HEADER_LENGTH \in Nat
      /\ PACKET_HEADER_LENGTH <= s[1].message.length
  BY <1>8, LengthOfMessage, ReceivePathAssumption
<1>10. ~(n >= PACKET_HEADER_LENGTH /\ n >= s[1].message.length)
  BY DEF IsMakePacket, n, s
<1>11. n < s[1].message.length
  BY <1>2, <1>9, <1>10
<1> QED
  BY <1>7, <1>8, <1>11 DEF n, s

\* What does not fit behind the rest of a message would not fit behind the longest.
LEMMA Overfilled ==
  ASSUME IInv, StreamInv, NEW p \in Players, ~IsMakePacket(streamBuffer[p]), ~Fits(p)
  PROVE  \E l \in Lengths : Len(readDataBuffer[p]) + l - 1 > MAX_BUFFER_LENGTH
<1> DEFINE n == Len(streamBuffer[p])
           r == Len(readDataBuffer[p])
<1>1. n \in Nat /\ r \in Nat /\ streamBuffer[p] \in Bytestreams
  BY Streaming
<1>2. r <= MAX_BUFFER_LENGTH /\ MAX_BUFFER_LENGTH \in Nat
  BY ReceivePathAssumption DEF StreamInv, UnderWay
<1>3. n + r > MAX_BUFFER_LENGTH
  <2>1. ~(n + r <= MAX_BUFFER_LENGTH)
    BY DEF Fits
  <2> HIDE DEF n, r
  <2> QED
    BY <2>1, <1>1, <1>2
<1>4. n > 0
  <2> HIDE DEF n, r
  <2> QED
    BY <1>1, <1>2, <1>3
<1>5. streamBuffer[p] # <<>>
  BY <1>4, Nothing
<1>6. PICK l \in Lengths : n < l
  BY <1>5, LessThanOne
<1>7. l \in Nat
  BY <1>2, ReceivePathAssumption
<1> HIDE DEF n, r
<1>8. r + l - 1 > MAX_BUFFER_LENGTH
  BY <1>1, <1>2, <1>3, <1>6, <1>7
<1> QED
  BY <1>8 DEF r

\* A worker appends what a receive has brought.
LEMMA StepPutStream ==
  ASSUME IInv, StreamInv, ~overrun, NEW w \in Workers, NEW p \in Players, PutStream(w, p)
  PROVE  StreamInv'
<1>1. /\ receive[p] = "COMPLETED" /\ overrun' = ~Fits(p)
      /\ streamBuffer' = [streamBuffer EXCEPT ![p] = streamBuffer[p] \o readDataBuffer[p]]
      /\ readDataBuffer' = [readDataBuffer EXCEPT ![p] = <<>>]
      /\ receive' = [receive EXCEPT ![p] = "TAKEN"]
      /\ serving' = [serving EXCEPT ![w] = p] /\ step' = [step EXCEPT ![w] = "MAKE"]
      /\ UNCHANGED <<network, recvPacketQueue, packageQueue, batch, handled>>
  BY DEF PutStream, queueVars
<1>2. /\ streamBuffer'[p] = streamBuffer[p] \o readDataBuffer[p] /\ readDataBuffer'[p] = <<>>
      /\ \A q \in Players \ {p} : /\ streamBuffer'[q] = streamBuffer[q]
                                  /\ readDataBuffer'[q] = readDataBuffer[q]
                                  /\ receive'[q] = receive[q]
      /\ receive'[p] = "TAKEN"
  BY <1>1 DEF IInv, ReaderTypes
<1>3. /\ streamBuffer[p] \in Bytestreams /\ readDataBuffer[p] \in Bytestreams
      /\ network[p] \in Bytestreams
  BY Streaming
<1>4. ~IsMakePacket(streamBuffer[p])
  BY <1>1 DEF StreamInv, CutUp
<1>5. StreamsWhole'
  BY StreamAppended, SameStream DEF StreamInv, StreamsWhole
<1>6. UnderWay'
  <2> DEFINE r == Len(readDataBuffer[p])
             n == Len(network[p])
  <2>1. r + n <= Window /\ r \in Nat /\ n \in Nat /\ Window \in Nat /\ MAX_BUFFER_LENGTH \in Nat
    BY Streaming, ReceivePathAssumption DEF StreamInv, UnderWay
  <2> HIDE DEF r, n
  <2>2. 0 + n <= Window /\ 0 <= MAX_BUFFER_LENGTH
    BY <2>1
  <2>3. Len(readDataBuffer'[p]) = 0
    BY <1>2, Nothing
  <2> QED
    BY <1>1, <1>2, <2>2, <2>3 DEF StreamInv, UnderWay, n
<1>7. CutUp'
  <2>1. \A v \in Workers : serving[v] # p
    BY <1>1 DEF IInv, OneReader
  <2>2. ASSUME NEW v \in Workers, step'[v] = "PUT"
        PROVE  ~IsMakePacket(streamBuffer'[serving'[v]])
    <3>1. v # w /\ step[v] = "PUT" /\ serving'[v] = serving[v]
      BY <1>1, <2>2 DEF IInv, ReaderTypes
    <3>2. serving[v] \in Players \ {p}
      BY <2>1, <3>1 DEF IInv, ReaderTypes, Busy
    <3> QED
      BY <1>2, <3>1, <3>2 DEF StreamInv, CutUp
  <2> QED
    BY <1>1, <1>2, <2>2 DEF StreamInv, CutUp, IsMakePacket
<1>8. InBuffer'
  <2>1. Len(streamBuffer'[p]) = Len(streamBuffer[p]) + Len(readDataBuffer[p])
    BY <1>2, <1>3, Streams
  <2> QED
    BY <1>1, <1>2, <2>1, Buffered DEF InBuffer, Fits
<1>9. Packages'
  BY <1>1 DEF StreamInv, Packages
<1> QED
  BY <1>5, <1>6, <1>7, <1>8, <1>9 DEF StreamInv

\* A worker cuts a packet out of the buffer.
LEMMA StepDeserialize ==
  ASSUME IInv, StreamInv, ~overrun, NEW w \in Workers, DeserializePacket(w)
  PROVE  StreamInv'
<1>1. PICK p \in Players : p = serving[w]
  BY DEF DeserializePacket, IInv, ReaderTypes, Busy
<1> DEFINE s == streamBuffer[p]
           l == s[1].message.length
<1>2. /\ step[w] = "MAKE" /\ IsMakePacket(s)
      /\ recvPacketQueue' = [recvPacketQueue EXCEPT ![p] = Append(@, s[1].message)]
      /\ streamBuffer' = [streamBuffer EXCEPT ![p] = Rest(s)]
      /\ UNCHANGED <<network, receive, readDataBuffer, serving, step, packageQueue, batch,
                     handled, overrun>>
  BY <1>1 DEF DeserializePacket, socketVars, workerVars, queueVars
<1>3. receive[p] = "TAKEN" /\ \A v \in Workers : serving[v] = p => v = w
  BY <1>1 DEF IInv, OneReader
<1>4. s \in Bytestreams /\ Arriving(p) \in Bytestreams /\ Stream(p) \in Bytestreams
      /\ Len(s) \in Nat
  BY <1>1, Streaming
<1>5. Len(s) >= 1 /\ Len(s) >= l
  BY <1>2, <1>4, ReceivePathAssumption DEF IsMakePacket
<1>6. s[1].message \in Messages /\ l \in Nat
  BY <1>2, <1>4, FirstByte, LengthOfMessage
<1>7. /\ streamBuffer'[p] = Rest(s)
      /\ \A q \in Players \ {p} : /\ streamBuffer'[q] = streamBuffer[q]
                                  /\ recvPacketQueue'[q] = recvPacketQueue[q]
  BY <1>1, <1>2 DEF IInv, ReaderTypes
<1> HIDE DEF s
<1>8. Rest(s) = SubSeq(s, l + 1, Len(s)) /\ Rest(s) \in Bytestreams
      /\ Len(Rest(s)) = Len(s) - l
      /\ SubSeq(s, 1, l) \in Bytestreams /\ Len(SubSeq(s, 1, l)) = l
      /\ SubSeq(s, 1, l) \o Rest(s) = s
  <2>1. l \in 0..Len(s)
    BY <1>4, <1>5, <1>6
  <2> QED
    BY <2>1, <1>4, Parts DEF Rest
<1>9. StreamsWhole'
  <2> DEFINE t == Stream(p)
  <2>1. /\ t[1] = s[1] /\ Len(t) >= 1
        /\ Stream(p)' = SubSeq(t, l + 1, Len(t))
        /\ \A q \in Players \ {p} : Stream(q)' = Stream(q)
    BY <1>1, StreamCut DEF s
  <2>2. Whole(SubSeq(t, l + 1, Len(t)))
    <3>1. Whole(t) /\ t \in Bytestreams
      BY <1>1, <1>4 DEF StreamInv, StreamsWhole
    <3> QED
      BY <2>1, <3>1, WholeWithoutFirst
  <2>3. Whole(Stream(p)')
    BY <2>1, <2>2
  <2>4. ASSUME NEW q \in Players \ {p} PROVE Whole(Stream(q))'
    BY <2>1, SameStream DEF StreamInv, StreamsWhole
  <2> QED
    BY <2>3, <2>4 DEF StreamsWhole, Whole
<1>10. CutUp'
  <2>1. ASSUME NEW v \in Workers, step'[v] = "PUT"
        PROVE  ~IsMakePacket(streamBuffer'[serving'[v]])
    <3>1. v # w /\ step[v] = "PUT" /\ serving'[v] = serving[v]
      BY <1>2, <2>1
    <3>2. serving[v] \in Players \ {p}
      BY <1>3, <3>1 DEF IInv, ReaderTypes, Busy
    <3> QED
      BY <1>7, <3>1, <3>2 DEF StreamInv, CutUp
  <2>2. ASSUME NEW q \in Players, receive'[q] # "TAKEN"
        PROVE  recvPacketQueue'[q] = <<>> /\ ~IsMakePacket(streamBuffer'[q])
    BY <1>2, <1>3, <1>7, <2>2 DEF StreamInv, CutUp
  <2> QED
    BY <2>1, <2>2 DEF CutUp, IsMakePacket
<1>11. InBuffer'
  <2>1. Len(s) <= MAX_BUFFER_LENGTH /\ MAX_BUFFER_LENGTH \in Nat
    BY <1>1, Buffered, ReceivePathAssumption DEF s
  <2>2. Len(Rest(s)) <= MAX_BUFFER_LENGTH
    <3> DEFINE n == Len(s)
    <3>1. n \in Nat /\ n <= MAX_BUFFER_LENGTH /\ Len(Rest(s)) = n - l
      BY <1>4, <1>8, <2>1
    <3> HIDE DEF n, l
    <3>2. n - l <= MAX_BUFFER_LENGTH
      BY <3>1, <2>1, <1>6
    <3> QED
      BY <3>1, <3>2
  <2> QED
    BY <1>7, <2>2, Buffered DEF InBuffer
<1>12. UnderWay' /\ Packages'
  BY <1>2 DEF StreamInv, UnderWay, Packages
<1> QED
  BY <1>9, <1>10, <1>11, <1>12 DEF StreamInv

\* The buffers and what is under way are as they were.
LEMMA SameStreams ==
  ASSUME StreamInv, UNCHANGED <<streamBuffer, readDataBuffer, network>>
  PROVE  StreamsWhole'
<1>1. \A q \in Players : Arriving(q)' = Arriving(q) /\ streamBuffer'[q] = streamBuffer[q]
  BY DEF Arriving
<1> QED
  BY <1>1, OtherStream DEF StreamInv, StreamsWhole

\* A worker moves the packets to the package queue and posts the next receive.
LEMMA StepPut ==
  ASSUME IInv, StreamInv, NEW w \in Workers,
         GetRecvQueueSize(w) \/ GetPacketFromRecvQueue(w) \/ PutPackage(w) \/ Receive(w)
  PROVE  StreamInv'
<1> DEFINE p == serving[w]
<1>1. p \in Players /\ step[w] \in {"MAKE", "PUT"}
  BY DEF GetRecvQueueSize, GetPacketFromRecvQueue, PutPackage, Receive, IInv, ReaderTypes, Busy
<1>2. receive[p] = "TAKEN"
  BY <1>1 DEF IInv, OneReader
<1>3. CASE GetRecvQueueSize(w)
  <2>1. /\ ~IsMakePacket(streamBuffer[p]) /\ step' = [step EXCEPT ![w] = "PUT"]
        /\ UNCHANGED <<network, receive, readDataBuffer, streamBuffer, recvPacketQueue,
                       serving, packageQueue, batch, handled, overrun>>
    BY <1>3 DEF GetRecvQueueSize, socketVars, queueVars
  <2>2. CutUp'
    BY <2>1 DEF StreamInv, CutUp, IsMakePacket, IInv, ReaderTypes
  <2> QED
    BY <2>1, <2>2, SameStreams
    DEF StreamInv, UnderWay, InBuffer, Packages
<1>4. CASE GetPacketFromRecvQueue(w)
  <2>1. /\ recvPacketQueue' = [recvPacketQueue EXCEPT ![p] = Tail(@)]
        /\ UNCHANGED <<network, receive, readDataBuffer, streamBuffer, serving, step,
                       packageQueue, batch, handled, overrun>>
    BY <1>4 DEF GetPacketFromRecvQueue, socketVars, queueVars
  <2>2. CutUp'
    BY <1>2, <2>1 DEF StreamInv, CutUp, IsMakePacket, IInv, ReaderTypes
  <2> QED
    BY <2>1, <2>2, SameStreams
    DEF StreamInv, UnderWay, InBuffer, Packages
<1>5. CASE PutPackage(w)
  <2>1. /\ batch = 0 /\ inHand[w] # <<>>
        /\ packageQueue' = Append(packageQueue, [player |-> p, packet |-> inHand[w][1]])
        /\ UNCHANGED <<network, receive, readDataBuffer, streamBuffer, recvPacketQueue,
                       serving, step, batch, handled, overrun>>
    BY <1>5 DEF PutPackage, socketVars
  <2>2. inHand[w][1] \in Messages
    <3>1. inHand[w] \in Seq(Messages)
      BY DEF IInv, ReaderTypes
    <3> QED
      BY <2>1, <3>1
  <2>3. Packages'
    <3> DEFINE G == [player : Players, packet : Messages]
               g == [player |-> p, packet |-> inHand[w][1]]
    <3>1. g \in G
      BY <1>1, <2>2
    <3>2. packageQueue \in Seq(G)
      BY DEF StreamInv, Packages
    <3> HIDE DEF G, g
    <3>3. /\ Append(packageQueue, g) \in Seq(G)
          /\ Len(Append(packageQueue, g)) \in Nat
      BY <3>1, <3>2, AppendProperties, LenProperties
    <3> QED
      BY <2>1, <3>3 DEF StreamInv, Packages, G, g
  <2>4. CutUp'
    BY <2>1 DEF StreamInv, CutUp, IsMakePacket
  <2> QED
    BY <2>1, <2>3, <2>4, SameStreams
    DEF StreamInv, UnderWay, InBuffer
<1>6. CASE Receive(w)
  <2>1. /\ step[w] = "PUT" /\ left[w] = 0
        /\ receive' = [receive EXCEPT ![p] = "POSTED"]
        /\ serving' = [serving EXCEPT ![w] = None] /\ step' = [step EXCEPT ![w] = "IDLE"]
        /\ UNCHANGED <<network, readDataBuffer, streamBuffer, recvPacketQueue,
                       packageQueue, batch, handled, overrun>>
    BY <1>6 DEF Receive, queueVars
  <2>2. recvPacketQueue[p] = <<>>
    <3>1. recvPacketQueue[p] \in Seq(Messages) /\ inHand[w] \in Seq(Messages)
      BY <1>1 DEF IInv, ReaderTypes
    <3>2. Len(recvPacketQueue[p]) \in Nat /\ Len(inHand[w]) \in Nat
      BY <3>1, LenProperties
    <3>3. 0 = Len(recvPacketQueue[p]) + Len(inHand[w])
      BY <2>1 DEF IInv, SizeStillRight
    <3>4. Len(recvPacketQueue[p]) = 0
      <4> DEFINE a == Len(recvPacketQueue[p])
                 b == Len(inHand[w])
      <4>1. a \in Nat /\ b \in Nat /\ a + b = 0
        BY <3>2, <3>3
      <4> HIDE DEF a, b
      <4>2. a = 0
        BY <4>1
      <4> QED
        BY <4>2 DEF a
    <3> QED
      BY <3>1, <3>4, EmptySeq
  <2>3. ~IsMakePacket(streamBuffer[p])
    BY <2>1 DEF StreamInv, CutUp
  <2>4. CutUp'
    <3>1. ASSUME NEW v \in Workers, step'[v] = "PUT"
          PROVE  ~IsMakePacket(streamBuffer'[serving'[v]])
      <4>1. step[v] = "PUT" /\ serving'[v] = serving[v]
        BY <2>1, <3>1 DEF IInv, ReaderTypes
      <4> QED
        BY <2>1, <4>1 DEF StreamInv, CutUp
    <3>2. ASSUME NEW q \in Players, receive'[q] # "TAKEN"
          PROVE  recvPacketQueue'[q] = <<>> /\ ~IsMakePacket(streamBuffer'[q])
      BY <2>1, <2>2, <2>3, <3>2 DEF StreamInv, CutUp, IInv, ReaderTypes
    <3> QED
      BY <3>1, <3>2 DEF CutUp, IsMakePacket
  <2>5. UnderWay'
    BY <1>2, <2>1 DEF StreamInv, UnderWay, IInv, ReaderTypes
  <2> QED
    BY <2>1, <2>4, <2>5, SameStreams
    DEF StreamInv, InBuffer, Packages
<1> QED
  BY <1>3, <1>4, <1>5, <1>6

\* ProcessPacketThread, and nothing at all.
LEMMA StepHandlers ==
  ASSUME IInv, StreamInv, LockQueue \/ Execute \/ UNCHANGED vars
  PROVE  StreamInv'
<1>1. UNCHANGED <<network, receive, readDataBuffer, streamBuffer, recvPacketQueue, serving,
                  step, overrun>>
  BY DEF LockQueue, Execute, vars, socketVars, workerVars
<1> DEFINE G == [player : Players, packet : Messages]
           n == Len(packageQueue)
<1>2. packageQueue \in Seq(G) /\ n \in Nat /\ batch \in 0..n
  BY LenProperties DEF StreamInv, Packages
<1> HIDE DEF n
<1>3. Packages'
  <2>1. CASE LockQueue
    <3>1. n \in 0..n
      BY <1>2
    <3> QED
      BY <2>1, <1>1, <3>1 DEF LockQueue, StreamInv, Packages, n
  <2>2. CASE Execute
    <3>1. batch > 0 /\ packageQueue # <<>>
      <4>1. batch > 0
        BY <2>2 DEF Execute
      <4>2. n # 0
        BY <1>2, <4>1
      <4> QED
        BY <4>1, <4>2, <1>2, EmptySeq DEF n
    <3>2. /\ Head(packageQueue) \in G /\ Tail(packageQueue) \in Seq(G)
          /\ Len(Tail(packageQueue)) = n - 1
      BY <1>2, <3>1, HeadTailProperties DEF n
    <3>3. batch - 1 \in 0..(n - 1)
      BY <1>2, <3>1
    <3>4. Head(packageQueue).player \in Players /\ Head(packageQueue).packet \in Messages
      BY <3>2
    <3>5. /\ packageQueue' = Tail(packageQueue) /\ batch' = batch - 1
          /\ handled' = [handled EXCEPT ![Head(packageQueue).player] = Head(packageQueue).packet]
      BY <2>2 DEF Execute
    <3>6. handled' \in [Players -> Messages \cup {None}]
      BY <3>4, <3>5 DEF StreamInv, Packages
    <3> QED
      BY <1>1, <3>2, <3>3, <3>5, <3>6 DEF StreamInv, Packages
  <2>3. CASE UNCHANGED vars
    BY <2>3 DEF vars, queueVars, StreamInv, Packages
  <2> QED
    BY <2>1, <2>2, <2>3
<1>4. CutUp' /\ UnderWay' /\ InBuffer'
  BY <1>1 DEF StreamInv, CutUp, IsMakePacket, UnderWay, InBuffer
<1> QED
  BY <1>1, <1>3, <1>4, SameStreams DEF StreamInv

\* Every step keeps the streams whole.
LEMMA StepStream == IInv /\ StreamInv /\ [Next]_vars => StreamInv'
<1> SUFFICES ASSUME IInv, StreamInv, [Next]_vars PROVE StreamInv'
  OBVIOUS
<1>1. ASSUME ~overrun, NEW p \in Players,
             ClientSend(p) \/ CompleteReceive(p) \/ FailReceive(p)
      PROVE  StreamInv'
  BY <1>1, StepNetwork
<1>2. ASSUME ~overrun, NEW w \in Workers, WorkerStep(w)
      PROVE  StreamInv'
  BY <1>2, StepPutStream, StepDeserialize, StepPut DEF WorkerStep
<1>3. CASE LockQueue \/ Execute \/ UNCHANGED vars
  BY <1>3, StepHandlers
<1> QED
  BY <1>1, <1>2, <1>3 DEF Next

\* Only PutPackage counts down, for a packet that was counted.
LEMMA StepCounted == IInv /\ Counted /\ [Next]_vars => Counted'
<1> SUFFICES ASSUME IInv, Counted, [Next]_vars PROVE Counted'
  OBVIOUS
<1>1. ASSUME NEW w \in Workers, PutPackage(w) PROVE Counted'
  <2>1. inHand[w] # <<>> /\ left' = [left EXCEPT ![w] = @ - 1]
    BY <1>1 DEF PutPackage
  <2>2. inHand[w] \in Seq(Messages) /\ step[w] = "PUT"
    BY <2>1 DEF IInv, ReaderTypes, Busy
  <2>3. recvPacketQueue[serving[w]] \in Seq(Messages)
    BY <2>2 DEF IInv, ReaderTypes, Busy
  <2>4. Len(inHand[w]) \in Nat \ {0} /\ Len(recvPacketQueue[serving[w]]) \in Nat
    BY <2>1, <2>2, <2>3, EmptySeq, LenProperties
  <2>5. left[w] - 1 \in Nat
    <3> DEFINE a == Len(recvPacketQueue[serving[w]])
               b == Len(inHand[w])
    <3>1. a \in Nat /\ b \in Nat \ {0} /\ left[w] = a + b
      BY <2>2, <2>4 DEF IInv, SizeStillRight
    <3> HIDE DEF a, b
    <3> QED
      BY <3>1
  <2> QED
    BY <2>1, <2>5 DEF Counted
<1>2. ASSUME NEW w \in Workers, GetRecvQueueSize(w) PROVE Counted'
  <2>1. recvPacketQueue[serving[w]] \in Seq(Messages)
    BY <1>2 DEF GetRecvQueueSize, IInv, ReaderTypes, Busy
  <2>2. Len(recvPacketQueue[serving[w]]) \in Nat
    BY <2>1, LenProperties
  <2> QED
    BY <1>2, <2>2 DEF GetRecvQueueSize, Counted
<1>3. CASE UNCHANGED left
  BY <1>3 DEF Counted
<1> QED
  BY <1>1, <1>2, <1>3 DEF Next, WorkerStep, ClientSend, CompleteReceive, FailReceive, PutStream,
     DeserializePacket, GetPacketFromRecvQueue, Receive, LockQueue, Execute, vars, workerVars

\* The invariant holds in every reachable state.
THEOREM StreamInvariance == Spec => [](IInv /\ StreamInv /\ Counted)
<1>1. Init => IInv /\ StreamInv /\ Counted
  BY InitReader, InitStream DEF Init, Counted
<1>2. (IInv /\ StreamInv /\ Counted) /\ [Next]_vars => (IInv /\ StreamInv /\ Counted)'
  BY StepReader, StepStream, StepCounted
<1> QED
  BY <1>1, <1>2, PTL DEF Spec

\* Every variable of the receive path keeps to its type.
THEOREM ReceiveTypes == Spec => []TypeOK
<1>1. IInv /\ StreamInv /\ Counted => TypeOK
  <2> SUFFICES ASSUME IInv, StreamInv, Counted PROVE TypeOK
    OBVIOUS
  <2>1. ASSUME NEW w \in Workers PROVE inHand[w] \in BoundedSeq(Messages, 1)
    <3>1. inHand[w] \in Seq(Messages) /\ Len(inHand[w]) <= 1
      BY DEF IInv, ReaderTypes, Busy
    <3>2. Len(inHand[w]) \in Nat /\ inHand[w] \in [1..Len(inHand[w]) -> Messages]
      BY <3>1, LenProperties
    <3>3. Len(inHand[w]) \in 0..1
      <4> DEFINE n == Len(inHand[w])
      <4>1. n \in Nat /\ n <= 1
        BY <3>1, <3>2
      <4> HIDE DEF n
      <4>2. n \in 0..1
        BY <4>1
      <4> QED
        BY <4>2 DEF n
    <3> QED
      BY <3>2, <3>3 DEF BoundedSeq, SeqOf
  <2>2. inHand \in [Workers -> BoundedSeq(Messages, 1)]
    BY <2>1 DEF IInv, ReaderTypes
  <2> QED
    BY <2>2 DEF IInv, ReaderTypes, StreamInv, InBuffer, Packages, Counted, TypeOK
<1> QED
  BY StreamInvariance, <1>1, PTL

\* What a worker leaves when it posts the next receive is less than one packet, whatever
\* the lengths of messages and wherever receives cut the stream (TcpSession::OnReceive).
THEOREM LeavesLessThanOneAlways == Spec => []LeavesLessThanOne
<1>1. IInv /\ StreamInv /\ Counted => LeavesLessThanOne
  BY LessThanOne DEF StreamInv, CutUp, LeavesLessThanOne
<1> QED
  BY StreamInvariance, <1>1, PTL

\* Only a receive that would not fit behind the longest rest of one message makes PutStream
\* write past the buffer, whatever clients have sent and workers have cut before.
THEOREM OverrunExplainedAlways == Spec => OverrunExplained
<1>1. ASSUME IInv, StreamInv, [Next]_vars
      PROVE  [overrun' /\ ~overrun => \E p \in Players : OverfillsBuffer(p)]_vars
  <2> SUFFICES ASSUME Next, overrun', ~overrun
               PROVE  \E p \in Players : OverfillsBuffer(p)
    BY <1>1
  <2>1. PICK w \in Workers, p \in Players : PutStream(w, p)
    BY DEF Next, WorkerStep, ClientSend, CompleteReceive, FailReceive, DeserializePacket,
       GetRecvQueueSize, GetPacketFromRecvQueue, PutPackage, Receive, LockQueue, Execute
  <2>2. receive[p] = "COMPLETED" /\ receive'[p] = "TAKEN" /\ ~Fits(p)
    BY <1>1, <2>1 DEF PutStream, IInv, ReaderTypes
  <2>3. ~IsMakePacket(streamBuffer[p])
    BY <1>1, <2>2 DEF StreamInv, CutUp
  <2> QED
    BY <1>1, <2>2, <2>3, Overfilled DEF OverfillsBuffer
<1> QED
  BY <1>1, StreamInvariance, PTL DEF Spec, OverrunExplained
=============================================================================
