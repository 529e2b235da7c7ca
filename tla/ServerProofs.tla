---------------------------- MODULE ServerProofs ----------------------------
(***************************************************************************)
(* Acknowledged accounts are kept, and no thread runs in a deleted object: *)
(* proved for all accounts, code pages, numbers of senders and starts.     *)
(***************************************************************************)
EXTENDS Server, TLAPS

\* Winsock is up until main cuts it off.
Connected == winsock => main \in {"CREATE", "SET", "SERVE", "CUT"}

\* main begins at the first thread when it starts them and when it ends them.
FirstPlace == main \in {"SERVE", "CUT", "SAVE", "WRITE", "DELETE"} => at = 1

\* Threads that main has not come to are not there yet.
NotYet ==
  /\ main = "OFF" => \A t \in Threads : thread[t] = "NONE"
  /\ main = "CREATE" => \A j \in at..Len(StartOrder) : thread[StartOrder[j]] = "NONE"
  /\ main = "SET" => \A j \in (at + 1)..Len(StartOrder) : thread[StartOrder[j]] = "NONE"

\* Only a thread that is done with its object has set its event.
Signalled == \A t \in Threads : exitWaitEvent[t] => thread[t] \in {"LEAVING", "EXITED"}

\* What the theorems rest on: none of its parts is inductive alone.
IInv ==
  TypeOK /\ Connected /\ FirstPlace /\ NotYet /\ Signalled /\ Durable /\ DeletedAfterExit

\* Release ends the threads that Run has started, each of them once.
LEMMA Orders ==
  /\ Len(StartOrder) \in Nat /\ Len(StopOrder) = Len(StartOrder)
  /\ \A i \in 1..Len(StartOrder) : StartOrder[i] \in Threads /\ StopOrder[i] \in Threads
  /\ 1 \in 1..Len(StartOrder)
  /\ "network" \in Threads
<1> DEFINE n == Len(Senders)
<1>1. Senders \in Seq(STRING) /\ n \in Nat
  BY ServerAssumption
<1>2. /\ Len(StartOrder) = n + 2
      /\ \A i \in 1..n : StartOrder[i] = Senders[i]
      /\ StartOrder[n + 1] = "network" /\ StartOrder[n + 2] = "heartbeat"
  BY <1>1 DEF StartOrder
<1>3. /\ Len(StopOrder) = n + 2
      /\ StopOrder[1] = "heartbeat" /\ StopOrder[2] = "network"
      /\ \A i \in 3..(n + 2) : StopOrder[i] = Senders[i - 2]
  BY <1>1 DEF StopOrder
<1> HIDE DEF n
<1>4. \A i \in 1..Len(StartOrder) : StartOrder[i] \in Threads
  BY DEF Threads
<1>5. "network" \in Threads /\ "heartbeat" \in Threads
  BY <1>1, <1>2, <1>4
<1>6. ASSUME NEW i \in 1..Len(StartOrder) PROVE StopOrder[i] \in Threads
  <2>1. CASE i \in {1, 2}
    BY <2>1, <1>3, <1>5
  <2>2. CASE i \in 3..(n + 2)
    BY <2>2, <1>1, <1>2, <1>3, <1>4
  <2> QED
    BY <1>1, <1>2, <1>6, <2>1, <2>2
<1> QED
  BY <1>1, <1>2, <1>3, <1>4, <1>5, <1>6

\* No thread is started twice.
LEMMA Apart ==
  ASSUME NEW i \in 1..Len(StartOrder), NEW j \in 1..Len(StartOrder),
         StartOrder[i] = StartOrder[j]
  PROVE  i = j
BY ServerAssumption

\* What the file holds of an account, and what memory holds of it, are records.
LEMMA StoredRecords == \A a \in Accounts : Stored(a) \in Records /\ a \in Records
BY DEF Records

\* A process that is not there keeps the invariant.
LEMMA InitServer == Init => IInv
<1> SUFFICES ASSUME Init PROVE IInv
  OBVIOUS
<1>1. MaxStarts \in Nat /\ MaxBatch \in Nat
  BY ServerAssumption
<1>2. 0 \in 0..MaxStarts /\ 0 \in 0..MaxBatch /\ {} \subseteq Records
  BY <1>1
<1>3. TypeOK
  BY <1>2, Orders DEF Init, TypeOK, Phases
<1>4. Connected /\ FirstPlace /\ NotYet /\ Signalled
  BY DEF Init, Connected, FirstPlace, NotYet, Signalled
<1>5. Durable /\ DeletedAfterExit
  BY DEF Init, Durable, DeletedAfterExit
<1> QED
  BY <1>3, <1>4, <1>5 DEF IInv

\* A process that ends, killed or by itself, leaves only what is on the disk.
LEMMA StepEnds ==
  ASSUME IInv, Ends, promised' \subseteq promised, promised' \subseteq disk,
         saved' \subseteq saved, saved' \subseteq disk
  PROVE  IInv'
<1>1. MaxStarts \in Nat /\ MaxBatch \in Nat
  BY ServerAssumption
<1>2. 0 \in 0..MaxStarts /\ 0 \in 0..MaxBatch /\ {} \subseteq Records
  BY <1>1
<1>3. TypeOK'
  BY <1>2, Orders DEF IInv, Ends, TypeOK, Phases
<1>4. Connected' /\ FirstPlace' /\ NotYet' /\ Signalled'
  BY DEF Ends, Connected, FirstPlace, NotYet, Signalled
<1>5. Durable' /\ DeletedAfterExit'
  BY DEF Ends, Durable, DeletedAfterExit
<1> QED
  BY <1>3, <1>4, <1>5 DEF IInv

\* What becomes of accounts.
LEMMA StepAccounts ==
  ASSUME IInv,
         \/ Initialize \/ Quit \/ CutOff \/ OpenFile \/ FailOpen \/ WriteFile
         \/ DeleteUserDB
         \/ EndAddUser \/ \E a \in Accounts : BeginAddUser(a)
  PROVE  IInv'
<1> USE DEF IInv
<1>0. MaxStarts \in Nat /\ MaxBatch \in Nat /\ None \notin Accounts
  BY ServerAssumption
<1>1. CASE Initialize
  <2>1. TypeOK'
    BY <1>1, <1>0, Orders DEF Initialize, TypeOK, Phases, threadVars, fileVars, Load
  <2>2. NotYet' /\ Signalled'
    BY <1>1, Orders DEF Initialize, TypeOK, NotYet, Signalled, threadVars
  <2>3. Connected' /\ FirstPlace'
    BY <1>1 DEF Initialize, Connected, FirstPlace
  <2>4. Durable' /\ DeletedAfterExit'
    BY <1>1 DEF Initialize, Load, fileVars, Durable, DeletedAfterExit
  <2> QED
    BY <2>1, <2>2, <2>3, <2>4
<1>2. CASE Quit
  <2>1. main = "SERVE" /\ main' = "CUT"
    BY <1>2 DEF Quit, Goes, GoesTo, Following
  <2> QED
    BY <1>2, <2>1 DEF Quit, Goes, GoesTo, threadVars, userVars, fileVars, TypeOK, Phases, Connected,
                      FirstPlace, NotYet, Signalled, Durable, DeletedAfterExit
<1>3. CASE CutOff
  <2>1. main = "CUT" /\ main' = "SAVE"
    BY <1>3 DEF CutOff, Goes, GoesTo, Following
  <2> QED
    BY <1>3, <2>1 DEF CutOff, Goes, GoesTo, threadVars, userVars, fileVars, TypeOK, Phases, Connected,
                      FirstPlace, NotYet, Signalled, Durable, DeletedAfterExit
<1>4. CASE OpenFile
  <2>1. main = "SAVE" /\ main' = "WRITE"
    BY <1>4 DEF OpenFile, Goes, GoesTo, Following
  <2> QED
    BY <1>4, <2>1 DEF OpenFile, Goes, GoesTo, threadVars, TypeOK, Phases, Connected,
                      FirstPlace, NotYet, Signalled, Durable, DeletedAfterExit
<1>5. CASE WriteFile
  <2>1. main = "WRITE" /\ main' = "DELETE"
    BY <1>5 DEF WriteFile, Goes, GoesTo, Following
  <2> QED
    BY <1>5, <2>1 DEF WriteFile, Goes, GoesTo, threadVars, TypeOK, Phases, Connected,
                      FirstPlace, NotYet, Signalled, Durable, DeletedAfterExit
<1>6. CASE DeleteUserDB
  <2>1. main = "DELETE" /\ main' = "STOP" /\ at = 1 /\ at' = 1
    BY <1>6 DEF DeleteUserDB, Goes, GoesTo, Following, FirstPlace
  <2>2. DeletedAfterExit'
    BY <2>1 DEF DeletedAfterExit
  <2> QED
    BY <1>6, <2>1, <2>2 DEF DeleteUserDB, Goes, GoesTo, threadVars, fileVars, TypeOK, Phases,
                            Connected, FirstPlace, NotYet, Signalled, Durable
<1>7. CASE EndAddUser
  <2>1. registering \in Accounts
    BY <1>7 DEF EndAddUser, TypeOK
  <2>2. Stored(registering) \in Records
    BY <2>1, StoredRecords
  <2>3. UNCHANGED <<main, at, threadVars, winsock>>
    BY <1>7 DEF EndAddUser
  <2>4. TypeOK'
    BY <1>7, <2>1, <2>2, <2>3 DEF EndAddUser, TypeOK, threadVars
  <2>5. Connected' /\ FirstPlace' /\ NotYet' /\ Signalled' /\ DeletedAfterExit'
    BY <2>3 DEF threadVars, Connected, FirstPlace, NotYet, Signalled, DeletedAfterExit
  <2>6. Durable'
    <3>1. CASE winsock
      <4>1. main' \in {"CREATE", "SET", "SERVE", "CUT"}
        BY <3>1, <2>3 DEF Connected
      <4>2. main' # "WRITE" /\ saved' = saved /\ disk' = disk /\ saved' \subseteq disk'
        BY <1>7, <4>1, <2>3 DEF EndAddUser, Durable
      <4>3. promised \subseteq users \cup unread
        BY <4>1, <2>3 DEF Durable
      <4>4. promised' \subseteq users' \cup unread'
        <5>1. \A a \in promised' : a \in promised \/ a = Stored(registering)
          BY <1>7 DEF EndAddUser
        <5>2. users' = users \cup {Stored(registering)} /\ unread' = unread
          BY <1>7 DEF EndAddUser
        <5> QED
          BY <4>3, <5>1, <5>2
      <4> QED
        BY <4>1, <4>2, <4>4 DEF Durable
    <3>2. CASE ~winsock
      <4>1. promised' = promised /\ users \subseteq users' /\ unread' = unread
        BY <1>7, <3>2 DEF EndAddUser
      <4> QED
        BY <1>7, <2>3, <4>1 DEF EndAddUser, Durable
    <3> QED
      BY <3>1, <3>2
  <2> QED
    BY <2>4, <2>5, <2>6
<1>8. CASE FailOpen
  <2>1. main = "SAVE" /\ main' = "DELETE" /\ disk' = disk
    BY <1>8 DEF FailOpen, GoesTo, Following
  <2>2. promised' \subseteq saved /\ saved \subseteq disk /\ saved' = saved
    BY <1>8, <2>1 DEF FailOpen, Durable
  <2>3. Durable'
    BY <2>1, <2>2 DEF Durable
  <2> QED
    BY <1>8, <2>1, <2>3 DEF FailOpen, GoesTo, threadVars, TypeOK, Phases, Connected,
                            FirstPlace, NotYet, Signalled, DeletedAfterExit
<1>9. ASSUME NEW a \in Accounts, BeginAddUser(a) PROVE IInv'
  BY <1>9, <1>0 DEF BeginAddUser, threadVars, fileVars, TypeOK, Connected, FirstPlace,
                    NotYet, Signalled, Durable, DeletedAfterExit
<1> QED
  BY <1>1, <1>2, <1>3, <1>4, <1>5, <1>6, <1>7, <1>8, <1>9

\* What main does with its threads.
LEMMA StepMain ==
  ASSUME IInv, Create \/ SetRun \/ Stop \/ WaitForExit
  PROVE  IInv'
<1> USE DEF IInv
<1> DEFINE n == Len(StartOrder)
<1>0. n \in Nat /\ Len(StopOrder) = n
  BY Orders
<1>1. CASE Create
  <2>1. at \in 1..n /\ StartOrder[at] \in Threads /\ main = "CREATE" /\ main' = "SET"
    BY <1>1, Orders DEF Create, TypeOK
  <2>2. thread[StartOrder[at]] = "NONE"
    BY <2>1, <1>0 DEF NotYet
  <2>3. NotYet'
    <3> SUFFICES ASSUME NEW j \in (at + 1)..n
                 PROVE  thread'[StartOrder[j]] = "NONE"
      BY <1>1, <2>1 DEF Create, NotYet
    <3>1. j \in 1..n /\ j # at /\ j \in at..n
      BY <2>1, <1>0
    <3>2. StartOrder[j] \in Threads /\ StartOrder[j] # StartOrder[at]
      BY <3>1, <2>1, Orders, Apart
    <3> QED
      BY <1>1, <2>1, <3>1, <3>2 DEF Create, NotYet, TypeOK
  <2>4. Signalled'
    BY <1>1, <2>1, <2>2 DEF Create, Signalled, TypeOK
  <2>5. TypeOK'
    BY <1>1, <2>1 DEF Create, TypeOK, Phases, userVars, fileVars
  <2> QED
    BY <1>1, <2>1, <2>3, <2>4, <2>5 DEF Create, Connected, FirstPlace, Durable,
       DeletedAfterExit, userVars, fileVars
<1>2. CASE SetRun
  <2>1. at \in 1..n /\ main = "SET"
    BY <1>2 DEF SetRun, TypeOK
  <2>2. CASE at < n
    <3>1. main' = "CREATE" /\ at' = at + 1
      BY <1>2, <2>2 DEF SetRun, More
    <3>2. at' \in 1..n
      BY <2>1, <2>2, <3>1, <1>0
    <3>3. TypeOK'
      BY <1>2, <3>1, <3>2 DEF SetRun, TypeOK, Phases, userVars, fileVars
    <3>4. NotYet'
      BY <1>2, <2>1, <3>1 DEF SetRun, NotYet
    <3> QED
      BY <1>2, <2>1, <3>1, <3>3, <3>4 DEF SetRun, Connected, FirstPlace, Signalled, Durable,
         DeletedAfterExit, userVars, fileVars
  <2>3. CASE ~(at < n)
    <3>1. main' = "SERVE" /\ at' = 1
      BY <1>2, <2>3 DEF SetRun, More
    <3>2. TypeOK'
      BY <1>2, <3>1, Orders DEF SetRun, TypeOK, Phases, userVars, fileVars
    <3> QED
      BY <1>2, <2>1, <3>1, <3>2 DEF SetRun, Connected, FirstPlace, NotYet, Signalled, Durable,
         DeletedAfterExit, userVars, fileVars
  <2> QED
    BY <2>2, <2>3
<1>3. CASE Stop
  <2>1. TypeOK'
    BY <1>3 DEF Stop, TypeOK, Phases, userVars, fileVars
  <2> QED
    BY <1>3, <2>1 DEF Stop, Connected, FirstPlace, NotYet, Signalled, Durable,
       DeletedAfterExit, userVars, fileVars
<1>4. CASE WaitForExit
  <2>1. at \in 1..n /\ StopOrder[at] \in Threads /\ main = "WAIT" /\ at' = at + 1
    BY <1>4, Orders DEF WaitForExit, TypeOK
  <2>2. thread[StopOrder[at]] \in {"LEAVING", "EXITED"} /\ thread' = thread
    BY <1>4, <2>1 DEF WaitForExit, WaitForEvent, Signalled
  <2>3. main' = IF at < n THEN "STOP" ELSE "FREE"
    BY <1>4, <1>0 DEF WaitForExit, More
  <2>4. TypeOK'
    <3>1. at' \in 1..n \/ (main' = "FREE" /\ at' = n + 1)
      BY <2>1, <2>3, <1>0
    <3> QED
      BY <1>4, <2>1, <2>3, <3>1, <1>0
      DEF WaitForExit, WaitForEvent, TypeOK, Phases, userVars, fileVars
  <2>5. DeletedAfterExit'
    <3> SUFFICES ASSUME NEW i \in 1..(at' - 1)
                 PROVE  thread[StopOrder[i]] \in {"LEAVING", "EXITED"}
      BY <2>2 DEF DeletedAfterExit
    <3>1. i = at \/ i \in 1..(at - 1)
      BY <2>1, <1>0
    <3> QED
      BY <2>1, <2>2, <3>1 DEF DeletedAfterExit
  <2>6. Signalled'
    BY <1>4, <2>1, <2>2 DEF WaitForExit, WaitForEvent, Signalled, TypeOK
  <2> QED
    BY <1>4, <2>1, <2>3, <2>4, <2>5, <2>6
    DEF WaitForExit, Connected, FirstPlace, NotYet, Durable, userVars, fileVars
<1> QED
  BY <1>1, <1>2, <1>3, <1>4

\* What the threads do.
LEMMA StepThread ==
  ASSUME IInv, NEW t \in Threads, Look(t) \/ Leave(t) \/ EndTurn(t)
  PROVE  IInv'
<1> USE DEF IInv
<1>0. MaxBatch \in Nat
  BY ServerAssumption
<1>1. thread[t] \in {"LIVE", "BUSY", "LEAVING"} /\ UNCHANGED <<main, at, winsock, users, fileVars>>
  BY DEF Look, Leave, EndTurn, userVars
<1>2. \A u \in Threads : /\ thread[u] \in {"NONE", "EXITED"} => thread'[u] = thread[u]
                         /\ thread[u] = "LEAVING" => thread'[u] \in {"LEAVING", "EXITED"}
  BY <1>1 DEF Look, Leave, EndTurn, TypeOK
<1>3. TypeOK'
  <2>1. thread' \in [Threads -> {"NONE", "LIVE", "BUSY", "LEAVING", "EXITED"}]
    BY DEF Look, Leave, EndTurn, TypeOK
  <2>2. exitWaitEvent' \in [Threads -> BOOLEAN]
    BY DEF Look, Leave, EndTurn, SignalExit, TypeOK
  <2>3. batch' = MaxBatch \/ batch' = batch
    BY DEF Look, Leave, EndTurn, userVars
  <2>4. batch' \in 0..MaxBatch
    BY <2>3, <1>0 DEF TypeOK
  <2>5. UNCHANGED <<isRun, starts, disk, saving, registering, promised, saved, unread>>
    BY <1>1 DEF Look, Leave, EndTurn, userVars, fileVars
  <2> QED
    BY <1>1, <2>1, <2>2, <2>4, <2>5 DEF TypeOK
<1>4. Signalled'
  BY <1>1, <1>2 DEF Look, Leave, EndTurn, SignalExit, Signalled, TypeOK
<1>5. NotYet'
  BY <1>1, <1>2, Orders DEF NotYet, TypeOK
<1>6. DeletedAfterExit'
  <2> SUFFICES ASSUME main \in {"STOP", "WAIT", "FREE"}, NEW i \in 1..(at - 1)
               PROVE  thread'[StopOrder[i]] \in {"LEAVING", "EXITED"}
    BY <1>1 DEF DeletedAfterExit
  <2>1. i \in 1..Len(StartOrder)
    BY Orders DEF TypeOK
  <2> QED
    BY <2>1, <1>2, Orders DEF DeletedAfterExit
<1> QED
  BY <1>1, <1>3, <1>4, <1>5, <1>6 DEF Connected, FirstPlace, Durable, fileVars

\* Every step keeps the invariant, UserDB's, main's and the threads'.
LEMMA StepServer == IInv /\ [Next]_vars => IInv'
<1> SUFFICES ASSUME IInv, [Next]_vars PROVE IInv'
  OBVIOUS
<1>1. CASE Kill
  <2>1. saved' \subseteq disk /\ saved' \subseteq saved /\ promised' \subseteq saved'
    BY <1>1 DEF Kill, IInv, Durable
  <2> QED
    BY <1>1, <2>1, StepEnds DEF Kill
<1>2. CASE Return
  <2>1. promised \subseteq disk /\ saved \subseteq disk
    BY <1>2 DEF Return, IInv, Durable
  <2> QED
    BY <1>2, <2>1, StepEnds DEF Return
<1>3. CASE UNCHANGED vars
  BY <1>3 DEF vars, threadVars, userVars, fileVars, IInv, TypeOK, Connected, FirstPlace,
              NotYet, Signalled, Durable, DeletedAfterExit
<1> QED
  BY <1>1, <1>2, <1>3, StepAccounts, StepMain, StepThread DEF Next, Main

\* The invariant holds in every reachable state.
THEOREM ServerInvariance == Spec => []IInv
BY InitServer, StepServer, PTL DEF Spec

\* Every variable of the server keeps to its type.
THEOREM ServerTypes == Spec => []TypeOK
<1>1. IInv => TypeOK
  BY DEF IInv
<1> QED
  BY ServerInvariance, <1>1, PTL

\* An acknowledged account is kept through shutdowns and restarts unless a fault at a
\* wrong time excuses its loss, for all code pages and whatever threads do while main
\* releases UserDB (Network::Release).
THEOREM DurableAlways == Spec => []Durable
<1>1. IInv => Durable
  BY DEF IInv
<1> QED
  BY ServerInvariance, <1>1, PTL

\* Whatever the number of senders, a thread uses its object no more when that is deleted
\* (SystemThread::WaitForExit).
THEOREM DeletedAfterExitAlways == Spec => []DeletedAfterExit
<1>1. IInv => DeletedAfterExit
  BY DEF IInv
<1> QED
  BY ServerInvariance, <1>1, PTL
=============================================================================
