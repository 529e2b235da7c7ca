---------------------------- MODULE ReceivePath ----------------------------
(***************************************************************************)
(* The way of a client's message to its handler: the bytes of a receive    *)
(* are appended to the session's StreamBuffer, a worker of the completion  *)
(* port cuts packets out of it, moves them one by one to the package queue *)
(* of the server and only then posts the next receive; ProcessPacketThread *)
(* handles the packages in batches under the queue's lock.                 *)
(*                                                                         *)
(* A byte is the message that it belongs to and its place in it.  Clients  *)
(* send well-formed messages: the branch of IsMakePacket for a length that *)
(* cannot be is not modelled.                                              *)
(***************************************************************************)
EXTENDS Integers, SequencesExt

CONSTANTS
  Players,
  Workers,               \* the IOCP worker threads
  PACKET_HEADER_LENGTH,  \* 12 in Library.h
  MAX_BUFFER_LENGTH,     \* 4096 in Library.h
  Lengths,               \* lengths of messages, with their headers
  MaxSent,               \* bound: messages that a client sends
  Window,                \* bytes of a client that may be under way
  Quiet,                 \* bound: players whose clients send one message only
  MayDisconnect,         \* players whose connection may be lost
  None

Messages == [number : 1..MaxSent, length : Lengths]

ASSUME ReceivePathAssumption ==
  /\ PACKET_HEADER_LENGTH \in Nat \ {0}
  /\ MAX_BUFFER_LENGTH \in Nat
  /\ Lengths \subseteq PACKET_HEADER_LENGTH..MAX_BUFFER_LENGTH
  /\ MaxSent \in Nat /\ Window \in Nat
  /\ None \notin Players \cup Messages

VARIABLES
  sent,             \* how many messages each client has sent
  network,          \* the bytes under way to the server
  receive,          \* each session's receive: "POSTED", "COMPLETED", "TAKEN", "FAILED"
  readDataBuffer,   \* what the receive has brought
  streamBuffer,     \* the bytes of packets that are not complete
  recvPacketQueue,
  serving,          \* the player whose completion the worker has, or None
  step,             \* where the worker is: "IDLE", "MAKE", "PUT"
  left,             \* how many packets PutPackageToNetwork has yet to move
  inHand,           \* the packet it has taken from recvPacketQueue, as a sequence
  packageQueue,     \* Network::packageQueue
  batch,            \* how many packages of the batch are left, 0 when unlocked
  handled,          \* the message of each player that was handled last
  overrun           \* whether PutStream has written past the buffer

socketVars == <<network, receive, readDataBuffer>>
workerVars == <<serving, step, left, inHand>>
queueVars == <<packageQueue, batch, handled>>
vars == <<sent, socketVars, streamBuffer, recvPacketQueue, workerVars, queueVars, overrun>>

\* After SetConnected: the first receive is posted.
Init ==
  /\ sent = [p \in Players |-> 0]
  /\ network = [p \in Players |-> <<>>]
  /\ receive = [p \in Players |-> "POSTED"]
  /\ readDataBuffer = [p \in Players |-> <<>>]
  /\ streamBuffer = [p \in Players |-> <<>>]
  /\ recvPacketQueue = [p \in Players |-> <<>>]
  /\ serving = [w \in Workers |-> None]
  /\ step = [w \in Workers |-> "IDLE"]
  /\ left = [w \in Workers |-> 0]
  /\ inHand = [w \in Workers |-> <<>>]
  /\ packageQueue = <<>>
  /\ batch = 0
  /\ handled = [p \in Players |-> None]
  /\ overrun = FALSE

Bytes(m) == [i \in 1..m.length |-> [message |-> m, at |-> i]]

-----------------------------------------------------------------------------
(* The client and the connection.                                          *)

ClientSend(p) ==
  /\ sent[p] < MaxSent
  /\ p \in Quiet => sent[p] = 0
  /\ \E l \in Lengths :
       /\ Len(network[p]) + Len(readDataBuffer[p]) + l <= Window
       /\ network' =
            [network EXCEPT ![p] = @ \o Bytes([number |-> sent[p] + 1, length |-> l])]
  /\ sent' = [sent EXCEPT ![p] = @ + 1]
  /\ UNCHANGED <<receive, readDataBuffer, streamBuffer, recvPacketQueue, workerVars,
                 queueVars, overrun>>

\* A receive brings some bytes that have arrived, wherever a message may end.
CompleteReceive(p) ==
  /\ receive[p] = "POSTED"
  /\ \E n \in 1..Len(network[p]) :
       /\ n <= MAX_BUFFER_LENGTH
       /\ readDataBuffer' = [readDataBuffer EXCEPT ![p] = SubSeq(network[p], 1, n)]
       /\ network' = [network EXCEPT ![p] = SubSeq(@, n + 1, Len(@))]
  /\ receive' = [receive EXCEPT ![p] = "COMPLETED"]
  /\ UNCHANGED <<sent, streamBuffer, recvPacketQueue, workerVars, queueVars, overrun>>

\* The pending receive fails and no other is posted; what is under way is not read.
FailReceive(p) ==
  /\ p \in MayDisconnect
  /\ receive[p] = "POSTED"
  /\ receive' = [receive EXCEPT ![p] = "FAILED"]
  /\ UNCHANGED <<sent, network, readDataBuffer, streamBuffer, recvPacketQueue,
                 workerVars, queueVars, overrun>>

-----------------------------------------------------------------------------
(* IocpWorkerThread.                                                       *)

\* StreamBuffer::PutStream does not look at the end of the buffer: what is written
\* past it is undefined and the model goes no further.
Fits(p) == Len(streamBuffer[p]) + Len(readDataBuffer[p]) <= MAX_BUFFER_LENGTH

\* GetQueuedCompletionStatus and the first line of OnReceive
PutStream(w, p) ==
  /\ step[w] = "IDLE"
  /\ receive[p] = "COMPLETED"
  /\ overrun' = ~Fits(p)
  /\ streamBuffer' = [streamBuffer EXCEPT ![p] = @ \o readDataBuffer[p]]
  /\ readDataBuffer' = [readDataBuffer EXCEPT ![p] = <<>>]
  /\ receive' = [receive EXCEPT ![p] = "TAKEN"]
  /\ serving' = [serving EXCEPT ![w] = p]
  /\ step' = [step EXCEPT ![w] = "MAKE"]
  /\ UNCHANGED <<sent, network, recvPacketQueue, left, inHand, queueVars>>

\* Wrong variant: a packet that ends with the bytes received is not cut out.
IsMakePacketBefore(s) == Len(s) >= PACKET_HEADER_LENGTH /\ Len(s) > s[1].message.length

\* A packet is cut out when its header and all of its bytes are there.
IsMakePacket(s) == Len(s) >= PACKET_HEADER_LENGTH /\ Len(s) >= s[1].message.length

\* What DeserializePacket leaves in the buffer
Rest(s) == SubSeq(s, s[1].message.length + 1, Len(s))

\* One turn of the loop in OnReceive
DeserializePacket(w) ==
  LET p == serving[w]
  IN /\ step[w] = "MAKE"
     /\ IsMakePacket(streamBuffer[p])
     /\ recvPacketQueue' =
          [recvPacketQueue EXCEPT ![p] = Append(@, streamBuffer[p][1].message)]
     /\ streamBuffer' = [streamBuffer EXCEPT ![p] = Rest(@)]
     /\ UNCHANGED <<sent, socketVars, workerVars, queueVars, overrun>>

\* Wrong variants: the next receive is posted before the packets are moved, and it
\* is not posted when no packet was complete.
GetRecvQueueSizeReceiving(w) ==
  /\ step[w] = "MAKE"
  /\ ~IsMakePacket(streamBuffer[serving[w]])
  /\ left' = [left EXCEPT ![w] = Len(recvPacketQueue[serving[w]])]
  /\ step' = [step EXCEPT ![w] = "PUT"]
  /\ receive' = [receive EXCEPT ![serving[w]] = "POSTED"]
  /\ UNCHANGED <<sent, network, readDataBuffer, streamBuffer, recvPacketQueue, serving,
                 inHand, queueVars, overrun>>

GetRecvQueueSizeOrLeave(w) ==
  LET n == Len(recvPacketQueue[serving[w]])
  IN /\ step[w] = "MAKE"
     /\ ~IsMakePacket(streamBuffer[serving[w]])
     /\ left' = [left EXCEPT ![w] = n]
     /\ step' = [step EXCEPT ![w] = IF n = 0 THEN "IDLE" ELSE "PUT"]
     /\ serving' = [serving EXCEPT ![w] = IF n = 0 THEN None ELSE @]
     /\ UNCHANGED <<sent, socketVars, streamBuffer, recvPacketQueue, inHand, queueVars,
                    overrun>>

\* The loop ends and PutPackageToNetwork begins.
GetRecvQueueSize(w) ==
  /\ step[w] = "MAKE"
  /\ ~IsMakePacket(streamBuffer[serving[w]])
  /\ left' = [left EXCEPT ![w] = Len(recvPacketQueue[serving[w]])]
  /\ step' = [step EXCEPT ![w] = "PUT"]
  /\ UNCHANGED <<sent, socketVars, streamBuffer, recvPacketQueue, serving, inHand,
                 queueVars, overrun>>

GetPacketFromRecvQueue(w) ==
  LET p == serving[w]
  IN /\ step[w] = "PUT" /\ left[w] > 0 /\ inHand[w] = <<>>
     /\ inHand' = [inHand EXCEPT ![w] = <<Head(recvPacketQueue[p])>>]
     /\ recvPacketQueue' = [recvPacketQueue EXCEPT ![p] = Tail(@)]
     /\ UNCHANGED <<sent, socketVars, streamBuffer, serving, step, left, queueVars,
                    overrun>>

PutPackage(w) ==
  /\ inHand[w] # <<>>
  /\ batch = 0
  /\ packageQueue' =
       Append(packageQueue, [player |-> serving[w], packet |-> inHand[w][1]])
  /\ inHand' = [inHand EXCEPT ![w] = <<>>]
  /\ left' = [left EXCEPT ![w] = @ - 1]
  /\ UNCHANGED <<sent, socketVars, streamBuffer, recvPacketQueue, serving, step, batch,
                 handled, overrun>>

\* The last line of PutPackageToNetwork
Receive(w) ==
  /\ step[w] = "PUT" /\ left[w] = 0
  /\ receive' = [receive EXCEPT ![serving[w]] = "POSTED"]
  /\ serving' = [serving EXCEPT ![w] = None]
  /\ step' = [step EXCEPT ![w] = "IDLE"]
  /\ UNCHANGED <<sent, network, readDataBuffer, streamBuffer, recvPacketQueue, left,
                 inHand, queueVars, overrun>>

-----------------------------------------------------------------------------
(* ProcessPacketThread.                                                    *)

\* Wrong variant: the loop's bound is off by one.
LockQueueOneMore ==
  /\ batch = 0
  /\ packageQueue # <<>>
  /\ batch' = Len(packageQueue) + 1
  /\ UNCHANGED <<sent, socketVars, streamBuffer, recvPacketQueue, workerVars,
                 packageQueue, handled, overrun>>

LockQueue ==
  /\ batch = 0
  /\ packageQueue # <<>>
  /\ batch' = Len(packageQueue)
  /\ UNCHANGED <<sent, socketVars, streamBuffer, recvPacketQueue, workerVars,
                 packageQueue, handled, overrun>>

\* One turn of the loop; the lock is released with the last.
Execute ==
  /\ batch > 0
  /\ handled' = [handled EXCEPT ![Head(packageQueue).player] = Head(packageQueue).packet]
  /\ packageQueue' = Tail(packageQueue)
  /\ batch' = batch - 1
  /\ UNCHANGED <<sent, socketVars, streamBuffer, recvPacketQueue, workerVars, overrun>>

-----------------------------------------------------------------------------
WorkerStep(w) ==
  \/ \E p \in Players : PutStream(w, p)
  \/ DeserializePacket(w) \/ GetRecvQueueSize(w) \/ GetPacketFromRecvQueue(w)
  \/ PutPackage(w) \/ Receive(w)

Next ==
  /\ ~overrun
  /\ \/ \E p \in Players : ClientSend(p) \/ CompleteReceive(p) \/ FailReceive(p)
     \/ \E w \in Workers : WorkerStep(w)
     \/ LockQueue
     \/ Execute

Spec == Init /\ [][Next]_vars

FairSpec ==
  /\ Spec
  /\ \A p \in Players : WF_vars(~overrun /\ CompleteReceive(p))
  /\ \A w \in Workers : WF_vars(~overrun /\ WorkerStep(w))
  /\ WF_vars(~overrun /\ (LockQueue \/ Execute))

-----------------------------------------------------------------------------
(* Properties.                                                             *)

TypeOK ==
  /\ sent \in [Players -> 0..MaxSent]
  /\ receive \in [Players -> {"POSTED", "COMPLETED", "TAKEN", "FAILED"}]
  /\ serving \in [Workers -> Players \cup {None}]
  /\ step \in [Workers -> {"IDLE", "MAKE", "PUT"}]
  /\ left \in [Workers -> Nat]
  /\ inHand \in [Workers -> BoundedSeq(Messages, 1)]
  /\ batch \in 0..Len(packageQueue)
  /\ handled \in [Players -> Messages \cup {None}]
  /\ overrun \in BOOLEAN
  /\ \A p \in Players :
       /\ recvPacketQueue[p] \in Seq(Messages)
       /\ overrun \/ Len(streamBuffer[p]) <= MAX_BUFFER_LENGTH

\* A session has one receive, and one worker serves it from its completion until
\* its packets are in the package queue.  Neither OnReceive nor PutPackageToNetwork
\* holds a lock: the order of a client's packets rests on this.
OneReader ==
  \A p \in Players :
    /\ \A v, w \in Workers : serving[v] = p /\ serving[w] = p => v = w
    /\ (\E w \in Workers : serving[w] = p) <=> receive[p] = "TAKEN"

\* PutPackageToNetwork asks for the size of recvPacketQueue once and then pops as many
\* packets, each under a lock of its own: the size is still right at every turn, so
\* that front() and pop() never meet an empty queue.
SizeStillRight ==
  \A w \in Workers : step[w] = "PUT" =>
    left[w] = Len(recvPacketQueue[serving[w]]) + Len(inHand[w])

\* What a worker leaves of a session when it posts the next receive is less than
\* one packet: the packets are all in the package queue and the buffer begins with
\* a header whose packet has not come in full.
LeavesLessThanOne ==
  \A p \in Players :
    receive[p] # "TAKEN" =>
      /\ recvPacketQueue[p] = <<>>
      /\ streamBuffer[p] # <<>> =>
           /\ streamBuffer[p][1].at = 1
           /\ Len(streamBuffer[p]) < streamBuffer[p][1].message.length

\* A receive takes up to MAX_BUFFER_LENGTH bytes whatever rest stands in the buffer
\* (TcpSocket.cpp:20), so PutStream may write past its end.  That takes one receive of more
\* bytes than fit behind the longest rest of one message: however many messages came
\* before, and wherever their receives ended, they have left nothing else.
OverfillsBuffer(p) ==
  /\ receive[p] = "COMPLETED" /\ receive'[p] = "TAKEN"
  /\ \E l \in Lengths : Len(readDataBuffer[p]) + l - 1 > MAX_BUFFER_LENGTH

OverrunExplained == [][overrun' /\ ~overrun => \E p \in Players : OverfillsBuffer(p)]_vars

\* Each message of a client is handled once, in the order in which they were sent,
\* wherever receives cut the stream and whichever workers take their completions.
Arriving(p) == readDataBuffer[p] \o network[p]
Stream(p) == streamBuffer[p] \o Arriving(p)

\* The messages of a client between ClientSend and their handler, wherever they are
OnTheWay(p) ==
  {g.packet : g \in {h \in Range(packageQueue) : h.player = p}}
    \cup {inHand[w][1] : w \in {v \in Workers : serving[v] = p /\ inHand[v] # <<>>}}
    \cup Range(recvPacketQueue[p])
    \cup {b.message : b \in Range(Stream(p))}

\* Of the messages up to the last, the one with a number, or None
Numbered(ms, n) ==
  IF \E m \in ms : m.number = n THEN CHOOSE m \in ms : m.number = n ELSE None

InOrder(ms, last) ==
  LET over == CHOOSE n \in {last} \cup {m.number - 1 : m \in ms} :
                \A m \in ms : n < m.number
  IN [i \in 1..(last - over) |-> Numbered(ms, over + i)]

\* Chosen from a set of one element, so that TLC looks once for what is on the way
Outstanding(p) ==
  CHOOSE q \in {InOrder(ms, sent[p]) : ms \in {OnTheWay(p)}} : TRUE

Connection == INSTANCE Channel WITH
  Clients <- Players,
  queue <- [p \in Players |-> Outstanding(p)],
  taken <- handled

ImplementsChannel == Connection!Spec

\* Every message of a client whose connection stays is handled.
EventuallyHandled ==
  \A p \in Players, n \in 1..MaxSent :
    sent[p] = n ~> \/ handled[p] # None /\ handled[p].number >= n
                   \/ receive[p] = "FAILED"
                   \/ overrun
=============================================================================
