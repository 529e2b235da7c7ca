------------------------------ MODULE Channel ------------------------------
(***************************************************************************)
(* What a connection promises in either direction: the messages put in for *)
(* a client are taken out once each, in the order in which they were put.  *)
(***************************************************************************)
EXTENDS Sequences

CONSTANTS Clients, Messages, None

VARIABLES
  queue,   \* for each client, the messages put in and not yet taken out
  taken    \* for each client, the message taken out last

Init ==
  /\ queue = [c \in Clients |-> <<>>]
  /\ taken = [c \in Clients |-> None]

Put(c, m) ==
  /\ queue' = [queue EXCEPT ![c] = Append(@, m)]
  /\ UNCHANGED taken

Take(c) ==
  /\ queue[c] # <<>>
  /\ taken' = [taken EXCEPT ![c] = Head(queue[c])]
  /\ queue' = [queue EXCEPT ![c] = Tail(@)]

Next == \E c \in Clients : Take(c) \/ \E m \in Messages : Put(c, m)

Spec == Init /\ [][Next]_<<queue, taken>>
=============================================================================
