------------------------------ MODULE CELLServer ------------------------------
(***************************************************************************)
(* The CELLServer objects of an EasyTcpServer (CELLServer.hpp): each has a *)
(* worker thread that serves the clients in its map _clients.  The accept  *)
(* thread hands it new clients through _clientsBuff; the worker moves them *)
(* over, asks select about every socket, drops the clients whose socket    *)
(* fails or whose heartbeat is overdue, and at its end deletes whatever it *)
(* still has.                                                              *)
(*                                                                         *)
(* A client is known by its object; its socket is a descriptor, and the    *)
(* system gives a closed descriptor out again.  Threads are numbered: 0 is *)
(* the accept thread (module EasyTcpServer), s in Servers the worker of    *)
(* server s.  Each is a CELLThread, whose Start, Close and Exit are module *)
(* CELLThread's; here a Close that found the flag up is "joining" and ends *)
(* when the thread is done, and an Exit waits while it does.  The          *)
(* CELLTaskServer of a server is never given a task and is left out.       *)
(***************************************************************************)
EXTENDS Integers, Sequences, FiniteSets

CONSTANTS NumServers,   \* nCELLServer of EasyTcpServer::Start
          Clients,      \* the CELLClient objects that may ever be made
          Fds,          \* descriptors the system may give out
          NoClient, Unborn, Deleted,
          CanFail       \* whether a select may fail

ASSUME ServerConstants ==
    /\ NumServers \in Nat \ {0}
    /\ NoClient \notin Clients
    /\ Unborn \notin Fds /\ Deleted \notin Fds /\ Unborn # Deleted
    /\ CanFail \in BOOLEAN

Servers == 1 .. NumServers
Threads == 0 .. NumServers

VARIABLES isRun,        \* _thread._isRun of each thread
          joining,      \* a Close waits for the thread and holds its mutex
          failed,       \* threads whose select has failed
          fd,           \* _sockfd of each client object, or Unborn, or Deleted
          clients,      \* _clients of each server, a map from descriptors
          clientsBuff,  \* _clientsBuff of each server
          change,       \* _clients_change
          bak,          \* _fdRead_bak
          place,        \* where each worker is
          moved,        \* how far the transfer of _clientsBuff has come
          dropped,      \* the client deleted but not yet erased from _clients
          clientCount   \* EasyTcpServer::_clientCount

threadVars == <<isRun, joining, failed>>
tables == <<clients, clientsBuff, change, bak>>
serverVars == <<threadVars, fd, tables, place, moved, dropped, clientCount>>

ServerInit ==
    /\ isRun = [t \in Threads |-> TRUE]
    /\ joining = [t \in Threads |-> FALSE]
    /\ failed = {}
    /\ fd = [c \in Clients |-> Unborn]
    /\ clients = [s \in Servers |-> [f \in Fds |-> NoClient]]
    /\ clientsBuff = [s \in Servers |-> <<>>]
    /\ change = [s \in Servers |-> TRUE]
    /\ bak = [s \in Servers |-> {}]
    /\ place = [s \in Servers |-> "loop"]
    /\ moved = [s \in Servers |-> 0]
    /\ dropped = [s \in Servers |-> NoClient]
    /\ clientCount = 0

Goto(s, from, to) ==
    /\ place[s] = from
    /\ place' = [place EXCEPT ![s] = to]

FdSet(s) == {f \in Fds : clients[s][f] # NoClient}
JoinedTo(s) == {clients[s][f] : f \in FdSet(s)}
Buffered(s) == {clientsBuff[s][i] : i \in DOMAIN clientsBuff[s]}
Open(c) == fd[c] \in Fds

------------------------------------------------------------------------------
\* Mutant of Loop: the flag is not read again.
LoopForever(s) ==
    /\ Goto(s, "loop", "test")
    /\ UNCHANGED <<threadVars, fd, tables, moved, dropped, clientCount>>

\* while (pThread->isRun()); a worker told to stop goes on to onDestory.
Loop(s) ==
    /\ Goto(s, "loop", IF isRun[s] THEN "test" ELSE "clearClients")
    /\ UNCHANGED <<threadVars, fd, tables, moved, dropped, clientCount>>

\* Mutant of Test: a single client is not noticed.
TestMissesOne(s) ==
    /\ Goto(s, "test", IF Len(clientsBuff[s]) > 1 THEN "lock" ELSE "select")
    /\ UNCHANGED <<threadVars, fd, tables, moved, dropped, clientCount>>

\* The test of _clientsBuff without the mutex.
Test(s) ==
    /\ Goto(s, "test", IF clientsBuff[s] # <<>> THEN "lock" ELSE "select")
    /\ UNCHANGED <<threadVars, fd, tables, moved, dropped, clientCount>>

\* The worker has _mutex until the transfer ends.
Lock(s) ==
    /\ Goto(s, "lock", "move")
    /\ moved' = [moved EXCEPT ![s] = 0]
    /\ UNCHANGED <<threadVars, fd, tables, dropped, clientCount>>

\* The events of EasyTcpServer, whose counter is atomic.
OnNetJoin == clientCount' = clientCount + 1
OnNetLeave == clientCount' = clientCount - 1

\* One client of _clientsBuff goes into the map, and OnNetJoin counts it.
MoveOne(s) ==
    /\ place[s] = "move"
    /\ moved[s] < Len(clientsBuff[s])
    /\ LET c == clientsBuff[s][moved[s] + 1]
       IN  clients' = [clients EXCEPT ![s][fd[c]] = c]
    /\ moved' = [moved EXCEPT ![s] = @ + 1]
    /\ OnNetJoin
    /\ UNCHANGED <<threadVars, fd, clientsBuff, change, bak, place, dropped>>

\* Mutant of MoveEnd: the buffer is cleared before every client is moved.
MoveEndEarly(s) ==
    /\ Goto(s, "move", "select")
    /\ clientsBuff' = [clientsBuff EXCEPT ![s] = <<>>]
    /\ change' = [change EXCEPT ![s] = TRUE]
    /\ UNCHANGED <<threadVars, fd, clients, bak, moved, dropped, clientCount>>

MoveEnd(s) ==
    /\ moved[s] = Len(clientsBuff[s])
    /\ Goto(s, "move", "select")
    /\ clientsBuff' = [clientsBuff EXCEPT ![s] = <<>>]
    /\ change' = [change EXCEPT ![s] = TRUE]
    /\ UNCHANGED <<threadVars, fd, clients, bak, moved, dropped, clientCount>>

\* Without clients the worker sleeps and starts over.  Otherwise it brings the
\* copy of the descriptor set up to date, if the clients changed, and calls
\* select on it.
Select(s) ==
    /\ \/ /\ FdSet(s) = {}
          /\ Goto(s, "select", "loop")
          /\ UNCHANGED <<change, bak, failed>>
       \/ /\ FdSet(s) # {}
          /\ bak' = [bak EXCEPT ![s] = IF change[s] THEN FdSet(s) ELSE @]
          /\ change' = [change EXCEPT ![s] = FALSE]
          /\ \/ Goto(s, "select", "read") /\ UNCHANGED failed
             \/ CanFail /\ Goto(s, "select", "exit") /\ failed' = failed \cup {s}
    /\ UNCHANGED <<isRun, joining, fd, clients, clientsBuff, moved, dropped, clientCount>>

\* Mutants of Leave: the clients are not marked as changed; and no OnNetLeave.
LeaveUnmarked(s, c) ==
    /\ dropped[s] = NoClient
    /\ OnNetLeave
    /\ fd' = [fd EXCEPT ![c] = Deleted]
    /\ dropped' = [dropped EXCEPT ![s] = c]
    /\ UNCHANGED <<threadVars, clients, clientsBuff, change, bak, place, moved>>

LeaveUncounted(s, c) ==
    /\ dropped[s] = NoClient
    /\ change' = [change EXCEPT ![s] = TRUE]
    /\ fd' = [fd EXCEPT ![c] = Deleted]
    /\ dropped' = [dropped EXCEPT ![s] = c]
    /\ UNCHANGED <<threadVars, clients, clientsBuff, bak, place, moved, clientCount>>

\* OnNetLeave, the mark, and the delete, which closes the socket.
Leave(s, c) ==
    /\ dropped[s] = NoClient
    /\ OnNetLeave
    /\ change' = [change EXCEPT ![s] = TRUE]
    /\ fd' = [fd EXCEPT ![c] = Deleted]
    /\ dropped' = [dropped EXCEPT ![s] = c]
    /\ UNCHANGED <<threadVars, clients, clientsBuff, bak, place, moved>>

\* ReadData and WriteData drop a client of the set select was called with, whose
\* recv or send failed.
DropBySocket(s, f) ==
    /\ place[s] \in {"read", "write"}
    /\ f \in bak[s] \cap FdSet(s)
    /\ Leave(s, clients[s][f])

\* CheckTime drops any client.
DropByHeart(s, f) ==
    /\ place[s] = "time"
    /\ f \in FdSet(s)
    /\ Leave(s, clients[s][f])

\* Mutant of Erase: the entry of the deleted client stays.
EraseForgotten(s) ==
    /\ dropped[s] # NoClient
    /\ dropped' = [dropped EXCEPT ![s] = NoClient]
    /\ UNCHANGED <<threadVars, fd, tables, place, moved, clientCount>>

\* _clients.erase after the delete.
Erase(s) ==
    /\ dropped[s] # NoClient
    /\ clients' = [clients EXCEPT ![s] =
                      [f \in Fds |-> IF @[f] = dropped[s] THEN NoClient ELSE @[f]]]
    /\ dropped' = [dropped EXCEPT ![s] = NoClient]
    /\ UNCHANGED <<threadVars, fd, clientsBuff, change, bak, place, moved, clientCount>>

\* ReadData, WriteData and CheckTime come to their ends.
EndPass(s) ==
    /\ dropped[s] = NoClient
    /\ \/ Goto(s, "read", "write")
       \/ Goto(s, "write", "time")
       \/ Goto(s, "time", "loop")
    /\ UNCHANGED <<threadVars, fd, tables, moved, dropped, clientCount>>

\* After a failed select: pThread->Exit(), then the loop is left.
Exit(s) ==
    /\ ~joining[s]
    /\ Goto(s, "exit", "clearClients")
    /\ isRun' = [isRun EXCEPT ![s] = FALSE]
    /\ UNCHANGED <<joining, failed, fd, tables, moved, dropped, clientCount>>

------------------------------------------------------------------------------
DeleteAll(S) == fd' = [c \in Clients |-> IF c \in S THEN Deleted ELSE fd[c]]

\* ClearClients, without the mutex: the map, ...
ClearMap(s) ==
    /\ Goto(s, "clearClients", "deleteBuff")
    /\ DeleteAll(JoinedTo(s))
    /\ clients' = [clients EXCEPT ![s] = [f \in Fds |-> NoClient]]
    /\ UNCHANGED <<threadVars, clientsBuff, change, bak, moved, dropped, clientCount>>

\* Mutant of DeleteBuff: only the map is cleared properly.
DeleteBuffNothing(s) ==
    /\ Goto(s, "deleteBuff", "clearBuff")
    /\ UNCHANGED <<threadVars, fd, tables, moved, dropped, clientCount>>

\* ... the clients the loop over the buffer finds, ...
DeleteBuff(s) ==
    /\ Goto(s, "deleteBuff", "clearBuff")
    /\ DeleteAll(Buffered(s))
    /\ UNCHANGED <<threadVars, tables, moved, dropped, clientCount>>

\* ... and the buffer, with what has been added to it meanwhile.  Then OnWork wakes
\* up a waiting Close and ends.
ClearBuff(s) ==
    /\ Goto(s, "clearBuff", "done")
    /\ clientsBuff' = [clientsBuff EXCEPT ![s] = <<>>]
    /\ UNCHANGED <<threadVars, fd, clients, change, bak, moved, dropped, clientCount>>

ServerStep(s) ==
    \/ Loop(s) \/ Test(s) \/ Lock(s) \/ MoveOne(s) \/ MoveEnd(s) \/ Select(s)
    \/ \E f \in Fds : DropBySocket(s, f) \/ DropByHeart(s, f)
    \/ Erase(s) \/ EndPass(s) \/ Exit(s)
    \/ ClearMap(s) \/ DeleteBuff(s) \/ ClearBuff(s)

------------------------------------------------------------------------------
\* _mutex of a server is the worker's while it moves clients.
Unlocked(s) == place[s] # "move"

addClient(s, c) ==
    /\ Unlocked(s)
    /\ clientsBuff' = [clientsBuff EXCEPT ![s] = Append(@, c)]

getClientCount(s) == Cardinality(FdSet(s)) + Len(clientsBuff[s])
==============================================================================
