------------------------------- MODULE Server -------------------------------
(***************************************************************************)
(* The life of the server process: accounts and the file they are kept in, *)
(* the threads that main starts, stops and waits for, files that cannot be *)
(* opened, and the end of the process at any other point.                  *)
(*                                                                         *)
(* Network::Release saves and deletes UserDB while the thread that handles *)
(* requests still runs; a handler that comes later gets a new, empty one.  *)
(***************************************************************************)
EXTENDS Integers, Sequences

CONSTANTS
  Accounts,    \* what clients register: [id, password]
  Ansi,        \* UTF16toAnsi and back: what is left of an id or a password
  Senders,     \* the SenderThreads, in order
  MaxStarts,   \* bound: how often the server is started
  MaxBatch,    \* bound: requests of REGISTER_USER in one turn of the network thread
  None

Stored(a) == [id |-> Ansi[a.id], password |-> Ansi[a.password]]
Records == Accounts \cup {Stored(a) : a \in Accounts}

\* The order in which Run starts the threads, and in which Release ends them.
StartOrder == Senders \o <<"network", "heartbeat">>
StopOrder == <<"heartbeat", "network">> \o Senders
Threads == {StartOrder[i] : i \in 1..Len(StartOrder)}

ASSUME ServerAssumption ==
  /\ Senders \in Seq(STRING)
  /\ \A a \in Accounts : /\ DOMAIN a = {"id", "password"}
                         /\ {a.id, a.password} \subseteq DOMAIN Ansi
  /\ \A i, j \in 1..Len(StartOrder) : StartOrder[i] = StartOrder[j] => i = j
  /\ MaxStarts \in Nat /\ MaxBatch \in Nat
  /\ None \notin Accounts

VARIABLES
  main,        \* what main is about to do: see Phases
  at,          \* the place in StartOrder or StopOrder that it has come to
  thread,      \* "NONE", "LIVE" (about to look at its flag), "BUSY", "LEAVING" or "EXITED"
  isRun, exitWaitEvent,  \* fields of SystemThread
  winsock,     \* whether Winsock is up: whether anything is sent
  starts,
  users,       \* UserDB::root
  disk,        \* UserInfo.json
  saving,      \* the text that Save is about to write
  batch,       \* how many the network thread may still find in its turn
  registering, \* the account that REGISTER_USER is about to add
  promised,    \* history: accounts acknowledged, but for those that a fault excuses
  saved,       \* history: those that were promised when the file was written last
  unread       \* history: those that were promised when this start could not read it

threadVars == <<thread, isRun, exitWaitEvent>>
fileVars == <<disk, saving, promised, saved, unread>>
userVars == <<users, fileVars, batch, registering>>
vars == <<main, at, threadVars, winsock, starts, userVars>>

Phases == {"OFF", "CREATE", "SET", "SERVE", "CUT", "SAVE", "WRITE", "DELETE", "STOP",
           "WAIT", "FREE"}

Init ==
  /\ main = "OFF" /\ at = 1
  /\ thread = [t \in Threads |-> "NONE"]
  /\ isRun = [t \in Threads |-> FALSE]
  /\ exitWaitEvent = [t \in Threads |-> FALSE]
  /\ winsock = FALSE /\ starts = 0
  /\ users = {} /\ disk = {} /\ saving = {}
  /\ batch = 0 /\ registering = None
  /\ promised = {} /\ saved = {} /\ unread = {}

\* The process is gone, and with it everything but the file.
Ends ==
  /\ main' = "OFF" /\ at' = 1
  /\ thread' = [t \in Threads |-> "NONE"]
  /\ isRun' = [t \in Threads |-> FALSE]
  /\ exitWaitEvent' = [t \in Threads |-> FALSE]
  /\ winsock' = FALSE
  /\ users' = {} /\ saving' = {} /\ unread' = {}
  /\ batch' = 0 /\ registering' = None
  /\ UNCHANGED <<starts, disk>>

\* Its user or the system ends it, or an access to freed memory does.  That excuses the
\* loss of what was acknowledged since the last save, or of all while one is under way.
Kill ==
  /\ main # "OFF"
  /\ Ends
  /\ saved' = IF main = "WRITE" THEN {} ELSE saved
  /\ promised' = promised \cap saved'

-----------------------------------------------------------------------------
(* main: Network::Initialize and Run.                                      *)

\* UserDB::Initialize.  A file that is empty or torn has no accounts; one that cannot be
\* opened is taken for one that has none, without a word.
Load == \/ users' = disk /\ unread' = {}
        \/ users' = {} /\ unread' = promised

Initialize ==
  /\ main = "OFF" /\ starts < MaxStarts
  /\ main' = "CREATE"
  /\ starts' = starts + 1
  /\ winsock' = TRUE
  /\ Load
  /\ UNCHANGED <<at, threadVars, disk, saving, promised, saved, batch, registering>>

\* Wrong variant: one too far.
AtOrBelow(order) == at <= Len(order)

More(order) == at < Len(order)

\* SystemThread::Start: the thread is created ...
Create ==
  /\ main = "CREATE"
  /\ main' = "SET"
  /\ thread' = [thread EXCEPT ![StartOrder[at]] = "LIVE"]
  /\ UNCHANGED <<at, isRun, exitWaitEvent, winsock, starts, userVars>>

\* ... and its flag is set when it may have looked already.
SetRun ==
  /\ main = "SET"
  /\ isRun' = [isRun EXCEPT ![StartOrder[at]] = TRUE]
  /\ IF More(StartOrder) THEN main' = "CREATE" /\ at' = at + 1
                         ELSE main' = "SERVE" /\ at' = 1
  /\ UNCHANGED <<thread, exitWaitEvent, winsock, starts, userVars>>

-----------------------------------------------------------------------------
(* main: Network::Release.                                                 *)

\* Wrong variant: accounts are saved while clients are still answered.
SavedFirst == [SERVE |-> "SAVE", SAVE |-> "WRITE", WRITE |-> "CUT", CUT |-> "DELETE",
               DELETE |-> "STOP"]

\* IOCP::Release, the two halves of JsonManager::Save, UserDB::DeleteInstance
Following == [SERVE |-> "CUT", CUT |-> "SAVE", SAVE |-> "WRITE", WRITE |-> "DELETE",
              DELETE |-> "STOP"]

GoesTo(phase, next) == main = phase /\ main' = next /\ UNCHANGED <<at, starts>>
Goes(phase) == GoesTo(phase, Following[phase])

\* A key was pressed.
Quit ==
  /\ Goes("SERVE")
  /\ UNCHANGED <<threadVars, winsock, userVars>>

CutOff ==
  /\ Goes("CUT")
  /\ winsock' = FALSE
  /\ UNCHANGED <<threadVars, userVars>>

\* The text is made, then the file is opened, which empties it.  Accounts that were
\* not read at the start are gone with that.
OpenFile ==
  /\ Goes("SAVE")
  /\ saving' = users
  /\ disk' = {}
  /\ promised' = promised \ unread
  /\ UNCHANGED <<threadVars, winsock, users, saved, unread, batch, registering>>

\* Or it cannot be opened: nothing is written, nobody is told, and what was acknowledged
\* since the last save is not kept.
FailOpen ==
  /\ GoesTo("SAVE", Following["WRITE"])
  /\ saving' = users
  /\ promised' = promised \cap saved
  /\ UNCHANGED <<threadVars, winsock, users, disk, saved, unread, batch, registering>>

\* The text is written, unless that fails: nothing looks.
WriteFile ==
  /\ Goes("WRITE")
  /\ \/ disk' = saving /\ promised' = promised
     \/ disk' = disk /\ promised' = {}
  /\ saved' = promised'
  /\ UNCHANGED <<threadVars, winsock, users, saving, unread, batch, registering>>

\* What a handler adds to the deleted UserDB is lost (or ends the process: Kill).
DeleteUserDB ==
  /\ Goes("DELETE")
  /\ users' = {} /\ registering' = None
  /\ UNCHANGED <<threadVars, winsock, fileVars, batch>>

Stop ==
  /\ main = "STOP"
  /\ main' = "WAIT"
  /\ isRun' = [isRun EXCEPT ![StopOrder[at]] = FALSE]
  /\ UNCHANGED <<at, thread, exitWaitEvent, winsock, starts, userVars>>

\* Wrong variant: the wait is given up.
WaitTimesOut == UNCHANGED exitWaitEvent

\* WaitForSingleObject on an event that resets itself.
WaitForEvent ==
  /\ exitWaitEvent[StopOrder[at]]
  /\ exitWaitEvent' = [exitWaitEvent EXCEPT ![StopOrder[at]] = FALSE]

\* The thread's object is deleted after that.
WaitForExit ==
  /\ main = "WAIT"
  /\ WaitForEvent
  /\ at' = at + 1
  /\ main' = IF More(StopOrder) THEN "STOP" ELSE "FREE"
  /\ UNCHANGED <<thread, isRun, winsock, starts, userVars>>

\* PacketFactory::Release; main returns.
Return ==
  /\ main = "FREE"
  /\ Ends
  /\ UNCHANGED <<promised, saved>>

Main == \/ Create \/ SetRun \/ CutOff \/ OpenFile \/ FailOpen \/ WriteFile
        \/ DeleteUserDB \/ Stop \/ WaitForExit \/ Return

-----------------------------------------------------------------------------
(* The threads.                                                            *)

\* Wrong variant: the thread returns without SetEvent.
ReturnSilently(t) == UNCHANGED exitWaitEvent

SignalExit(t) == exitWaitEvent' = [exitWaitEvent EXCEPT ![t] = TRUE]

\* Each turn of Process begins with a look at the flag.  The network thread then reads
\* how many packages there are, and handles as many.
Look(t) ==
  /\ thread[t] = "LIVE"
  /\ \/ /\ isRun[t]
        /\ thread' = [thread EXCEPT ![t] = "BUSY"]
        /\ batch' = IF t = "network" THEN MaxBatch ELSE batch
        /\ UNCHANGED exitWaitEvent
     \/ /\ ~isRun[t]
        /\ thread' = [thread EXCEPT ![t] = "LEAVING"]
        /\ SignalExit(t)
        /\ UNCHANGED batch
  /\ UNCHANGED <<main, at, isRun, winsock, starts, users, fileVars, registering>>

\* Process returns after SetEvent, and the thread ends: its object is not used again.
Leave(t) ==
  /\ thread[t] = "LEAVING"
  /\ thread' = [thread EXCEPT ![t] = "EXITED"]
  /\ UNCHANGED <<main, at, isRun, exitWaitEvent, winsock, starts, userVars>>

\* A turn ends with Sleep; what else the turn did is other modules'.
EndTurn(t) ==
  /\ thread[t] = "BUSY"
  /\ t = "network" => registering = None
  /\ thread' = [thread EXCEPT ![t] = "LIVE"]
  /\ UNCHANGED <<main, at, isRun, exitWaitEvent, winsock, starts, userVars>>

FindUser(id) == \E u \in users : u.id = id

\* REGISTER_USER: UserDB::AddUser looks for the id ...
BeginAddUser(a) ==
  /\ thread["network"] = "BUSY" /\ batch > 0 /\ registering = None
  /\ ~FindUser(a.id)
  /\ batch' = batch - 1
  /\ registering' = a
  /\ UNCHANGED <<main, at, threadVars, winsock, starts, users, fileVars>>

\* ... and adds the account as the code page has it.  The client learns of it while
\* Winsock is up.  Only an account that the code page can represent is found again.
EndAddUser ==
  /\ registering # None
  /\ users' = users \cup {Stored(registering)}
  /\ promised' = promised \cup {a \in {registering} : winsock /\ Stored(a) = a}
  /\ registering' = None
  /\ UNCHANGED <<main, at, threadVars, winsock, starts, disk, saving, saved, unread, batch>>

-----------------------------------------------------------------------------

Next ==
  \/ Initialize \/ Main \/ Quit \/ Kill
  \/ \E t \in Threads : Look(t) \/ Leave(t) \/ EndTurn(t)
  \/ \E a \in Accounts : BeginAddUser(a)
  \/ EndAddUser

Spec == Init /\ [][Next]_vars

\* main is not held up in Run and Release, threads run, and handlers end.
FairSpec == /\ Spec
            /\ WF_vars(Main) /\ WF_vars(EndAddUser)
            /\ \A t \in Threads : WF_vars(Look(t)) /\ WF_vars(Leave(t)) /\ WF_vars(EndTurn(t))

-----------------------------------------------------------------------------
(* Properties.                                                             *)

\* Every variable keeps to its type.
TypeOK ==
  /\ main \in Phases
  /\ \/ at \in 1..Len(StartOrder)
     \/ main = "FREE" /\ at = Len(StopOrder) + 1
  /\ thread \in [Threads -> {"NONE", "LIVE", "BUSY", "LEAVING", "EXITED"}]
  /\ isRun \in [Threads -> BOOLEAN] /\ exitWaitEvent \in [Threads -> BOOLEAN]
  /\ winsock \in BOOLEAN /\ starts \in 0..MaxStarts
  /\ users \subseteq Records /\ disk \subseteq Records /\ saving \subseteq Records
  /\ batch \in 0..MaxBatch /\ registering \in Accounts \cup {None}
  /\ {promised, saved, unread} \subseteq SUBSET Accounts

\* An account whose registration was acknowledged is kept through shutdowns and
\* restarts.  Only a fault at the wrong time excuses a loss: an end of the process, or a
\* file that cannot be opened, before the account was saved once; an end or a failure in
\* the middle of a save; and a save after a start that could not read the file.  A crash
\* at any other time, and a start that fails to read but is not saved, lose nothing that
\* was saved (Utils.cpp:16, Utils.cpp:35, UserDB.cpp:81, Network.cpp:46).
Durable ==
  /\ main # "WRITE" => saved \subseteq disk
  /\ main \in {"CREATE", "SET", "SERVE", "CUT", "SAVE"} => promised \subseteq users \cup unread
  /\ main = "WRITE" => promised \subseteq saving
  /\ main \in {"DELETE", "STOP", "WAIT", "FREE", "OFF"} => promised \subseteq disk

\* A thread that main waits for uses its object no more when that is deleted, and none
\* does when PacketFactory is released, whenever each of them looks at its flag
\* (SystemThread.cpp:46).
DeletedAfterExit ==
  main \in {"STOP", "WAIT", "FREE"} =>
    \A i \in 1..(at - 1) : thread[StopOrder[i]] \in {"LEAVING", "EXITED"}

\* Release ends: no wait is for an event that nobody sets (SystemThread.cpp:46), not
\* even when a thread has ended before its flag was set (SystemThread.cpp:35).
ShutdownEnds == main = "CUT" ~> main = "OFF"
=============================================================================
