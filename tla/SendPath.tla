------------------------------ MODULE SendPath ------------------------------
(***************************************************************************)
(* The way of a packet from the pool to the client and back to the pool:   *)
(* handlers (and the heartbeat thread) take packets from PacketPool, fill  *)
(* them and push them into the queue of a session; a SenderThread hands    *)
(* what is queued to WSASend and then moves it to a second queue; a worker *)
(* that sees a send completed returns packets of the second queue.         *)
(*                                                                         *)
(* SendPacketInPacketQueue and OnSent both loop up to the size of the      *)
(* queue that they shorten, and a completion may come before its packet is *)
(* in the second queue.                                                    *)
(***************************************************************************)
EXTENDS Integers, SequencesExt

CONSTANTS
  Players,       \* Player objects, one for each connection
  Packets,       \* TcpPacket objects; bound: no more are ever allocated
  Messages,      \* what a packet may say
  Producers,     \* ProcessPacketThread and HeartBeatCheckThread
  SenderCount,   \* PROCESSOR_COUNT, 4 in Library.h
  MAX_PACKET_COUNT,  \* packets in the pool at the start
  Growth,        \* packets that Pop adds to an empty pool, 100 in the code
  MayBeLeftOut,  \* players a broadcast may skip: not logged in, excepted, silent
  MayDisconnect, \* players whose connection may be lost
  MaxPackages,   \* bound: packages of one broadcast
  MaxPending,    \* bound: completions under way for a player
  None

Senders == 0..(SenderCount - 1)

ASSUME SendPathAssumption ==
  /\ SenderCount \in Nat \ {0}
  /\ MAX_PACKET_COUNT \in Nat
  /\ Growth \in Nat \ {0}
  /\ MaxPackages \in Nat
  /\ MaxPending \in Nat
  /\ None \notin Players \cup Messages

VARIABLES
  pool,          \* PacketPool::pool
  allocated,     \* the packets there are
  content,       \* what is serialized into each packet
  packages,      \* each producer's packages that are not yet broadcast
  broadcasting,  \* whether the producer is in the loop of BroadCastPacket
  sendPacketQueue, completedSendPacketQueue,
  connection,    \* "NONE", "OPEN" or "LOST"
  sequentialPlayers, senderThreadIndex,
  todo,          \* the rest of the sender's copy of its share
  session,       \* the session whose sendQueueLocker the sender holds, or None
  tempPackets,   \* the sender's packets that are sent, not in the second queue
  completions,   \* IO_SEND completions under way
  wire           \* the last message handed to WSASend for each player

poolVars == <<pool, allocated, content, packages, broadcasting>>
shareVars == <<connection, sequentialPlayers, senderThreadIndex>>
senderVars == <<todo, session, tempPackets>>
wireVars == <<completions, wire>>
vars == <<poolVars, shareVars, senderVars, wireVars, sendPacketQueue,
          completedSendPacketQueue>>

Init ==
  /\ pool \in kSubset(MAX_PACKET_COUNT, Packets)
  /\ allocated = pool
  /\ content = [k \in Packets |-> None]
  /\ packages = [t \in Producers |-> <<>>]
  /\ broadcasting = [t \in Producers |-> FALSE]
  /\ sendPacketQueue = [p \in Players |-> <<>>]
  /\ completedSendPacketQueue = [p \in Players |-> <<>>]
  /\ connection = [p \in Players |-> "NONE"]
  /\ sequentialPlayers = [s \in Senders |-> <<>>]
  /\ senderThreadIndex = 0
  /\ todo = [s \in Senders |-> <<>>]
  /\ session = [s \in Senders |-> None]
  /\ tempPackets = [s \in Senders |-> <<>>]
  /\ completions = [p \in Players |-> 0]
  /\ wire = [p \in Players |-> None]

-----------------------------------------------------------------------------
(* PlayerManager: new players are dealt out to the senders in turn.        *)

\* Wrong variant: the index of the last sender plus one is taken for a sender.
NextSenderPastLast == IF senderThreadIndex > SenderCount THEN 0 ELSE senderThreadIndex

NextSender == IF senderThreadIndex > SenderCount - 1 THEN 0 ELSE senderThreadIndex

AddPlayer(p) ==
  /\ connection[p] = "NONE"
  /\ connection' = [connection EXCEPT ![p] = "OPEN"]
  /\ sequentialPlayers' = [sequentialPlayers EXCEPT ![NextSender] = Append(@, p)]
  /\ senderThreadIndex' = NextSender + 1
  /\ UNCHANGED <<poolVars, senderVars, wireVars, sendPacketQueue,
                 completedSendPacketQueue>>

\* The erasing loop, on a share that holds p once at most.
Erased(share, p) ==
  IF p \in Range(share) THEN RemoveAt(share, CHOOSE i \in DOMAIN share : share[i] = p)
  ELSE share

RemovePlayer(p) ==
  /\ p \in MayDisconnect
  /\ connection[p] = "OPEN"
  /\ connection' = [connection EXCEPT ![p] = "LOST"]
  /\ sequentialPlayers' = [s \in Senders |-> Erased(sequentialPlayers[s], p)]
  /\ UNCHANGED <<poolVars, senderThreadIndex, senderVars, wireVars,
                 sendPacketQueue, completedSendPacketQueue>>

-----------------------------------------------------------------------------
(* Handlers and heartbeat.                                                 *)

\* The packets that Pop adds to the pool: none unless it is empty.
Added == IF pool = {} THEN kSubset(Growth, Packets \ allocated) ELSE {{}}

\* Wrong variant: the top of the stack is read and not popped.
ReadOnly(k, new) == pool \cup new

\* What is left in the pool once one of them is popped.
Popped(k, new) == (pool \cup new) \ {k}

\* PacketPool::Pop, Serialize and packages.push_back
PopPacket(t, p, m) ==
  /\ connection[p] # "NONE"
  /\ ~broadcasting[t]
  /\ Len(packages[t]) < MaxPackages
  /\ \E new \in Added : \E k \in pool \cup new :
       /\ pool' = Popped(k, new)
       /\ allocated' = allocated \cup new
       /\ content' = [content EXCEPT ![k] = m]
       /\ packages' = [packages EXCEPT ![t] = Append(@, [packet |-> k, player |-> p])]
  /\ UNCHANGED <<broadcasting, shareVars, senderVars, wireVars, sendPacketQueue,
                 completedSendPacketQueue>>

Unlocked(p) == \A s \in Senders : session[s] # p

\* Release has cleared isEnterGame of a player who is lost.
LeftOut(p) == p \in MayBeLeftOut \/ connection[p] = "LOST"

\* One turn of the loop in Network::BroadCastPacket.  The packet of a player who
\* is left out is in no place any more.  A handler's own answer to the player who
\* asked is pushed without a look at isEnterGame.
BroadCastPacket(t) ==
  /\ packages[t] # <<>>
  /\ packages' = [packages EXCEPT ![t] = Tail(@)]
  /\ broadcasting' = [broadcasting EXCEPT ![t] = Tail(packages[t]) # <<>>]
  /\ LET p == Head(packages[t]).player
         k == Head(packages[t]).packet
     IN \/ LeftOut(p) /\ UNCHANGED sendPacketQueue
        \/ /\ Unlocked(p)
           /\ sendPacketQueue' = [sendPacketQueue EXCEPT ![p] = Append(@, k)]
  /\ UNCHANGED <<pool, allocated, content, shareVars, senderVars, wireVars,
                 completedSendPacketQueue>>

-----------------------------------------------------------------------------
(* SenderThread.                                                           *)

\* PlayerManager::SendPacketQueue works on a copy of the share.
BeginTurn(s) ==
  /\ todo[s] = <<>> /\ session[s] = None /\ tempPackets[s] = <<>>
  /\ sequentialPlayers[s] # <<>>
  /\ todo' = [todo EXCEPT ![s] = sequentialPlayers[s]]
  /\ UNCHANGED <<poolVars, shareVars, session, tempPackets, wireVars,
                 sendPacketQueue, completedSendPacketQueue>>

LockSession(s) ==
  /\ todo[s] # <<>> /\ session[s] = None /\ tempPackets[s] = <<>>
  /\ Unlocked(Head(todo[s]))
  /\ session' = [session EXCEPT ![s] = Head(todo[s])]
  /\ UNCHANGED <<poolVars, shareVars, todo, tempPackets, wireVars, sendPacketQueue,
                 completedSendPacketQueue>>

\* Wrong variant: the loop stops one packet early.
MoreToSendButLast(sent, waiting) == sent < waiting - 1

\* The loop counts up to the size of the queue that it pops from.
MoreToSend(sent, waiting) == sent < waiting

\* Wrong variant: the queue is a stack, like the pool.
SendNewestPacket(s) ==
  LET p == session[s]
  IN /\ p # None
     /\ MoreToSend(Len(tempPackets[s]), Len(sendPacketQueue[p]))
     /\ completions[p] < MaxPending
     /\ wire' = [wire EXCEPT ![p] = content[Last(sendPacketQueue[p])]]
     /\ tempPackets' = [tempPackets EXCEPT ![s] = Append(@, Last(sendPacketQueue[p]))]
     /\ sendPacketQueue' = [sendPacketQueue EXCEPT ![p] = Front(@)]
     /\ completions' = [completions EXCEPT ![p] = @ + 1]
     /\ UNCHANGED <<poolVars, shareVars, todo, session, completedSendPacketQueue>>

\* A send over a lost connection may fail at once, without a completion.
SendPacket(s) ==
  LET p == session[s]
  IN /\ p # None
     /\ MoreToSend(Len(tempPackets[s]), Len(sendPacketQueue[p]))
     /\ completions[p] < MaxPending
     /\ wire' = [wire EXCEPT ![p] = content[Head(sendPacketQueue[p])]]
     /\ tempPackets' = [tempPackets EXCEPT ![s] = Append(@, Head(sendPacketQueue[p]))]
     /\ sendPacketQueue' = [sendPacketQueue EXCEPT ![p] = Tail(@)]
     /\ \/ completions' = [completions EXCEPT ![p] = @ + 1]
        \/ connection[p] = "LOST" /\ UNCHANGED completions
     /\ UNCHANGED <<poolVars, shareVars, todo, session, completedSendPacketQueue>>

UnlockSession(s) ==
  /\ session[s] # None
  /\ ~MoreToSend(Len(tempPackets[s]), Len(sendPacketQueue[session[s]]))
  /\ session' = [session EXCEPT ![s] = None]
  /\ todo' = [todo EXCEPT ![s] = IF tempPackets[s] = <<>> THEN Tail(@) ELSE @]
  /\ UNCHANGED <<poolVars, shareVars, tempPackets, wireVars, sendPacketQueue,
                 completedSendPacketQueue>>

\* Wrong variant: the loop over tempPackets misses the last one.
PushCompletedButLast(s) ==
  /\ session[s] = None /\ tempPackets[s] # <<>>
  /\ completedSendPacketQueue' =
       [completedSendPacketQueue EXCEPT ![Head(todo[s])] = @ \o Front(tempPackets[s])]
  /\ tempPackets' = [tempPackets EXCEPT ![s] = <<>>]
  /\ todo' = [todo EXCEPT ![s] = Tail(@)]
  /\ UNCHANGED <<poolVars, shareVars, session, wireVars, sendPacketQueue>>

\* The packets follow into the second queue after the lock is released.
PushCompleted(s) ==
  /\ session[s] = None /\ tempPackets[s] # <<>>
  /\ completedSendPacketQueue' =
       [completedSendPacketQueue EXCEPT ![Head(todo[s])] = @ \o tempPackets[s]]
  /\ tempPackets' = [tempPackets EXCEPT ![s] = <<>>]
  /\ todo' = [todo EXCEPT ![s] = Tail(@)]
  /\ UNCHANGED <<poolVars, shareVars, session, wireVars, sendPacketQueue>>

-----------------------------------------------------------------------------
(* IocpWorkerThread: a send is completed.                                  *)

\* How many of n packets the loop of OnSent takes: its bound, too, is their number.
Returned(n) == (n + 1) \div 2

\* Wrong variant: the second queue is a stack, like the pool.
OnSentNewest(p) ==
  LET q == completedSendPacketQueue[p]
      kept == Len(q) - Returned(Len(q))
      returned == {q[i] : i \in (kept + 1)..Len(q)}
  IN /\ completions[p] > 0
     /\ completions' = [completions EXCEPT ![p] = @ - 1]
     /\ completedSendPacketQueue' =
          [completedSendPacketQueue EXCEPT ![p] = SubSeq(q, 1, kept)]
     /\ content' = [k \in Packets |-> IF k \in returned THEN None ELSE content[k]]
     /\ pool' = pool \cup returned
     /\ UNCHANGED <<allocated, packages, broadcasting, shareVars, senderVars, wire,
                    sendPacketQueue>>

OnSent(p) ==
  LET q == completedSendPacketQueue[p]
      n == Returned(Len(q))
      returned == {q[i] : i \in 1..n}
  IN /\ completions[p] > 0
     /\ completions' = [completions EXCEPT ![p] = @ - 1]
     /\ completedSendPacketQueue' =
          [completedSendPacketQueue EXCEPT ![p] = SubSeq(q, n + 1, Len(q))]
     /\ content' = [k \in Packets |-> IF k \in returned THEN None ELSE content[k]]
     /\ pool' = pool \cup returned
     /\ UNCHANGED <<allocated, packages, broadcasting, shareVars, senderVars, wire,
                    sendPacketQueue>>

\* A send that a lost connection aborts: the worker does not call OnSent.
SendAborted(p) ==
  /\ connection[p] = "LOST"
  /\ completions[p] > 0
  /\ completions' = [completions EXCEPT ![p] = @ - 1]
  /\ UNCHANGED <<poolVars, shareVars, senderVars, wire, sendPacketQueue,
                 completedSendPacketQueue>>

-----------------------------------------------------------------------------
SenderStep(s) ==
  \/ BeginTurn(s) \/ LockSession(s) \/ SendPacket(s) \/ UnlockSession(s)
  \/ PushCompleted(s)

Next ==
  \/ \E p \in Players : AddPlayer(p) \/ RemovePlayer(p) \/ OnSent(p) \/ SendAborted(p)
  \/ \E t \in Producers :
       BroadCastPacket(t) \/ \E p \in Players, m \in Messages : PopPacket(t, p, m)
  \/ \E s \in Senders : SenderStep(s)

Spec == Init /\ [][Next]_vars

FairSpec ==
  /\ Spec
  /\ \A t \in Producers : WF_vars(BroadCastPacket(t))
  /\ \A s \in Senders : WF_vars(SenderStep(s))
  /\ \A p \in Players : WF_vars(OnSent(p) \/ SendAborted(p))

-----------------------------------------------------------------------------
(* Properties.                                                             *)

TypeOK ==
  /\ pool \subseteq allocated /\ allocated \subseteq Packets
  /\ content \in [Packets -> Messages \cup {None}]
  /\ packages \in
       [Producers -> BoundedSeq([packet : Packets, player : Players], MaxPackages)]
  /\ broadcasting \in [Producers -> BOOLEAN]
  /\ connection \in [Players -> {"NONE", "OPEN", "LOST"}]
  /\ senderThreadIndex \in 0..SenderCount
  /\ completions \in [Players -> 0..MaxPending]
  /\ wire \in [Players -> Messages \cup {None}]
  /\ \A s \in Senders :
       /\ IsInjective(sequentialPlayers[s])
       /\ session[s] # None => todo[s] # <<>> /\ session[s] = Head(todo[s])

\* Where a packet is, in the queues of q.
At(q, k) == UNION {{x} \X {i \in DOMAIN q[x] : q[x][i] = k} : x \in DOMAIN q}

PackagesOf == [t \in Producers |-> [i \in DOMAIN packages[t] |-> packages[t][i].packet]]

Places(k) ==
  (IF k \in pool THEN 1 ELSE 0) + Cardinality(At(PackagesOf, k))
  + Cardinality(At(sendPacketQueue, k)) + Cardinality(At(tempPackets, k))
  + Cardinality(At(completedSendPacketQueue, k))

\* No packet is used twice at a time: a packet that was sent goes back to the pool
\* while sender threads, workers and handlers pass packets on, and it is never
\* filled anew, or reset, while it waits for another player.
OnePlace == \A k \in Packets : Places(k) <= 1

\* The only packets that the server loses track of (the pool grows for them) are
\* those that a broadcast popped for a player whom it then left out.  Those in a queue of
\* a player who was removed count as kept, though they never come back.
LostOnlyLeftOut ==
  [][\A k \in Packets : Places(k) = 1 /\ Places(k)' = 0 =>
       \E t \in Producers : /\ packages[t] # <<>>
                            /\ Head(packages[t]).packet = k
                            /\ LeftOut(Head(packages[t]).player)]_vars

\* What is in a session's queue goes to its client once, in the order of the calls
\* to PushSendPacketToPacketQueue, as it was when it was pushed.
Contents(q) == [i \in DOMAIN q |-> content[q[i]]]

Connection == INSTANCE Channel WITH
  Clients <- Players,
  queue <- [p \in Players |-> Contents(sendPacketQueue[p])],
  taken <- wire

ImplementsChannel == Connection!Spec

\* A packet in the queue of a player whose connection stays is handed to WSASend
\* although each turn of the sender stops half way through the queue.
EventuallySent ==
  \A p \in Players, k \in Packets :
    k \in Range(sendPacketQueue[p]) ~>
      (k \notin Range(sendPacketQueue[p]) \/ connection[p] = "LOST")

\* As long as sends to a player complete, each packet that was sent to it gets back
\* to the pool, also one whose own completion came before it was in the queue.
EventuallyReturned ==
  \A p \in Players :
    []<><<OnSent(p)>>_vars =>
      \A k \in Packets : []<>(k \notin Range(completedSendPacketQueue[p]))
=============================================================================
