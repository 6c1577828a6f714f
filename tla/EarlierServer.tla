----------------------------- MODULE EarlierServer -----------------------------
(***************************************************************************)
(* The earlier version of the server (EasyTcpServer.hpp and server.cpp of  *)
(* the version shown at interviews, the branches of the other systems than *)
(* Windows): main accepts clients and hands them to CellServers, whose     *)
(* workers wait in select, without a limit, for the sockets they have.     *)
(*                                                                         *)
(* The descriptor of a client is closed only by the Close of its           *)
(* CellServer, which then ends: a client here stands for its descriptor    *)
(* too, also after its object has been deleted.  A stream is the number of *)
(* bytes in it, as all messages are logins of one length.                  *)
(***************************************************************************)
EXTENDS Integers, Sequences, FiniteSets

CONSTANTS NumServers,   \* 4 in main
          Clients,      \* the connections there may be
          NoClient,
          Length,       \* dataLength of a login
          RecvSize,     \* RECV_BUFF_SZIE
          MsgSize,      \* size of _szMsgBuf
          CanFail       \* whose select may fail: servers, and 0 for main

ASSUME EarlierConstants ==
    /\ NumServers \in Nat \ {0}
    /\ NoClient \notin Clients
    /\ Length \in Nat \ {0} /\ RecvSize \in Nat \ {0} /\ MsgSize \in Nat
    /\ Length - 1 + RecvSize <= MsgSize
    /\ CanFail \subseteq 0 .. NumServers

Servers == 1 .. NumServers

VARIABLES listening,     \* the socket all share is open; _sock itself is never reset
          main,          \* where main is
          newClient, minServer, next,   \* of addClientToCellServer
          clientCount,   \* _clientCount
          place,         \* where each worker is
          clients, clientsBuff, change, bak,   \* as in CellServer
          fdRead,        \* what select has returned and is not looked at yet
          temp,          \* clients found to have left
          lastPos,       \* bytes in _szMsgBuf of each client
          backlog,       \* connections that wait for accept
          wire,          \* bytes of each client on the way or not yet received
          hungup,        \* clients that have closed, or whose connection has failed
          closed         \* connections the server has closed

mainVars == <<main, newClient, minServer, next, clientCount>>
workerVars == <<place, clients, clientsBuff, change, bak, fdRead, temp, lastPos>>
netVars == <<listening, backlog, wire, hungup, closed>>

\* main goes on when InitSocket, Bind or Listen fails: they only log it.
Opened == listening \in BOOLEAN

ServerInit ==
    /\ Opened
    /\ main = "loop" /\ newClient = NoClient /\ minServer = 1 /\ next = 1
    /\ clientCount = 0
    /\ place = [s \in Servers |-> "loop"]
    /\ clients = [s \in Servers |-> {}]
    /\ clientsBuff = [s \in Servers |-> <<>>]
    /\ change = [s \in Servers |-> TRUE]
    /\ bak = [s \in Servers |-> {}]
    /\ fdRead = [s \in Servers |-> {}]
    /\ temp = [s \in Servers |-> {}]
    /\ lastPos = [c \in Clients |-> 0]
    /\ backlog = <<>>
    /\ wire = [c \in Clients |-> 0]
    /\ hungup = {}
    /\ closed = {}

Buffered(s) == {clientsBuff[s][i] : i \in DOMAIN clientsBuff[s]}
Waiting == {backlog[i] : i \in DOMAIN backlog}
getClientCount(s) == Cardinality(clients[s]) + Len(clientsBuff[s])
Readable(c) == c \notin closed /\ (wire[c] > 0 \/ c \in hungup)

\* The system's side of closing connections: what they carry is lost.
CloseConnections(cs) ==
    /\ closed' = closed \cup cs
    /\ wire' = [c \in Clients |-> IF c \in cs THEN 0 ELSE wire[c]]

\* close(_sock): those who wait are reset; closing it once more has no effect, as
\* only accept makes descriptors.
CloseListening ==
    /\ listening' = FALSE
    /\ backlog' = <<>>
    /\ CloseConnections(Waiting)

------------------------------------------------------------------------------
\* OnRun of the server: the select that finds _sock readable, and accept.  (A select
\* that finds nothing, or fails because _sock is closed, changes nothing.)
Accept ==
    /\ main = "loop" /\ listening /\ backlog # <<>>
    /\ newClient' = Head(backlog)
    /\ backlog' = Tail(backlog)
    /\ minServer' = 1 /\ next' = 1
    /\ main' = "place"
    /\ UNCHANGED <<listening, clientCount, wire, hungup, closed, workerVars>>

\* addClientToCellServer looks at one server after the other, none of them locked.
Compare ==
    /\ main = "place" /\ next <= NumServers
    /\ minServer' = IF getClientCount(minServer) > getClientCount(next) THEN next ELSE minServer
    /\ next' = next + 1
    /\ UNCHANGED <<main, newClient, clientCount, workerVars, netVars>>

\* addClient; a worker that moves clients has the mutex.
addClient ==
    /\ main = "place" /\ next > NumServers
    /\ place[minServer] # "move"
    /\ clientsBuff' = [clientsBuff EXCEPT ![minServer] = Append(@, newClient)]
    /\ main' = "join"
    /\ UNCHANGED <<newClient, minServer, next, clientCount, place, clients, change, bak, fdRead,
                   temp, lastPos, netVars>>

\* The worker may have served the client, and seen it leave, before.
OnNetJoin ==
    /\ main = "join"
    /\ clientCount' = clientCount + 1
    /\ newClient' = NoClient
    /\ main' = "loop"
    /\ UNCHANGED <<minServer, next, workerVars, netVars>>

\* OnRun closes _sock when its select fails, and main goes on calling it.
AcceptFail ==
    /\ main = "loop" /\ 0 \in CanFail
    /\ CloseListening
    /\ UNCHANGED <<mainVars, hungup, workerVars>>

\* "exit": main closes _sock and waits for a key; the workers go on.
Exit ==
    /\ main = "loop"
    /\ main' = "closed"
    /\ CloseListening
    /\ UNCHANGED <<newClient, minServer, next, clientCount, hungup, workerVars>>

MainStep == Accept \/ Compare \/ addClient \/ OnNetJoin

------------------------------------------------------------------------------
Goto(s, from, to) == place[s] = from /\ place' = [place EXCEPT ![s] = to]

\* The test of _clientsBuff without the mutex, and the lock.
Loop(s) ==
    /\ Goto(s, "loop", IF clientsBuff[s] # <<>> THEN "move" ELSE "select")
    /\ UNCHANGED <<mainVars, netVars, clients, clientsBuff, change, bak, fdRead, temp, lastPos>>

MoveOne(s) ==
    /\ place[s] = "move"
    /\ \E c \in Buffered(s) \ clients[s] : clients' = [clients EXCEPT ![s] = @ \cup {c}]
    /\ UNCHANGED <<mainVars, netVars, place, clientsBuff, change, bak, fdRead, temp, lastPos>>

\* Mutant of MoveEnd: the clients are not marked as changed.
MoveEndUnmarked(s) ==
    /\ Buffered(s) \subseteq clients[s]
    /\ Goto(s, "move", "select")
    /\ clientsBuff' = [clientsBuff EXCEPT ![s] = <<>>]
    /\ UNCHANGED <<mainVars, netVars, clients, change, bak, fdRead, temp, lastPos>>

MoveEnd(s) ==
    /\ Buffered(s) \subseteq clients[s]
    /\ Goto(s, "move", "select")
    /\ clientsBuff' = [clientsBuff EXCEPT ![s] = <<>>]
    /\ change' = [change EXCEPT ![s] = TRUE]
    /\ UNCHANGED <<mainVars, netVars, clients, bak, fdRead, temp, lastPos>>

\* Without clients the worker sleeps and starts over; otherwise it calls select on
\* the descriptors of its clients, or of those it had when they last changed.
Select(s) ==
    /\ Goto(s, "select", IF clients[s] = {} THEN "loop" ELSE "wait")
    /\ IF clients[s] = {} THEN UNCHANGED <<bak, change>>
       ELSE /\ bak' = [bak EXCEPT ![s] = IF change[s] THEN clients[s] ELSE @]
            /\ change' = [change EXCEPT ![s] = FALSE]
    /\ UNCHANGED <<mainVars, netVars, clients, clientsBuff, fdRead, temp, lastPos>>

\* select returns when one of its sockets is readable, those of clients that have
\* left, which nobody has closed, among them.
SelectReturns(s) ==
    /\ Goto(s, "wait", "read")
    /\ \E c \in bak[s] : Readable(c)
    /\ fdRead' = [fdRead EXCEPT ![s] = {c \in bak[s] : Readable(c)}]
    /\ UNCHANGED <<mainVars, netVars, clients, clientsBuff, change, bak, temp, lastPos>>

SelectFails(s) ==
    /\ s \in CanFail
    /\ Goto(s, "wait", "close")
    /\ UNCHANGED <<mainVars, netVars, clients, clientsBuff, change, bak, fdRead, temp, lastPos>>

\* Mutant of Received: the bytes after the last message are dropped.
ReceivedWhole(c, n) == 0

\* The loop over the messages in _szMsgBuf leaves what is no message yet.
Received(c, n) == (lastPos[c] + n) % Length

\* RecvData returned 0: any part of what there is has been received.
RecvData(s, c) ==
    /\ place[s] = "read" /\ c \in fdRead[s] \cap clients[s]
    /\ \E n \in 1 .. wire[c] :
          /\ n <= RecvSize
          /\ wire' = [wire EXCEPT ![c] = @ - n]
          /\ lastPos' = [lastPos EXCEPT ![c] = Received(c, n)]
    /\ fdRead' = [fdRead EXCEPT ![s] = @ \ {c}]
    /\ UNCHANGED <<mainVars, place, clients, clientsBuff, change, bak, temp, listening, backlog,
                   hungup, closed>>

\* Mutant of Leave: the end of a connection is not noticed.
LeaveIgnored(s, c) ==
    /\ place[s] = "read" /\ c \in fdRead[s] \cap clients[s] /\ wire[c] = 0
    /\ fdRead' = [fdRead EXCEPT ![s] = @ \ {c}]
    /\ UNCHANGED <<mainVars, place, clients, clientsBuff, change, bak, temp, lastPos, netVars>>

\* Mutant of Leave: no OnNetLeave.
LeaveUncounted(s, c) ==
    /\ place[s] = "read" /\ c \in fdRead[s] \cap clients[s] /\ wire[c] = 0
    /\ fdRead' = [fdRead EXCEPT ![s] = @ \ {c}]
    /\ change' = [change EXCEPT ![s] = FALSE]
    /\ temp' = [temp EXCEPT ![s] = @ \cup {c}]
    /\ UNCHANGED <<mainVars, place, clients, clientsBuff, bak, lastPos, netVars>>

\* RecvData returned -1: the client is to be deleted; _clients_change is set to false.
Leave(s, c) ==
    /\ place[s] = "read" /\ c \in fdRead[s] \cap clients[s] /\ wire[c] = 0
    /\ clientCount' = clientCount - 1
    /\ fdRead' = [fdRead EXCEPT ![s] = @ \ {c}]
    /\ change' = [change EXCEPT ![s] = FALSE]
    /\ temp' = [temp EXCEPT ![s] = @ \cup {c}]
    /\ UNCHANGED <<main, newClient, minServer, next, place, clients, clientsBuff, bak, lastPos,
                   netVars>>

\* The clients in temp are erased and deleted; their sockets stay open.
EndRead(s) ==
    /\ fdRead[s] \cap clients[s] = {}
    /\ Goto(s, "read", "loop")
    /\ clients' = [clients EXCEPT ![s] = @ \ temp[s]]
    /\ lastPos' = [c \in Clients |-> IF c \in temp[s] THEN 0 ELSE lastPos[c]]
    /\ temp' = [temp EXCEPT ![s] = {}]
    /\ fdRead' = [fdRead EXCEPT ![s] = {}]
    /\ UNCHANGED <<mainVars, netVars, clientsBuff, change, bak>>

\* Close of a CellServer: its clients, without OnNetLeave, but not those in its buffer;
\* then the socket main accepts on.  The worker ends, and _sock is still not
\* INVALID_SOCKET.
CloseClients(s) ==
    /\ Goto(s, "close", "closeSock")
    /\ CloseConnections(clients[s])
    /\ UNCHANGED <<mainVars, clients, clientsBuff, change, bak, fdRead, temp, lastPos, listening,
                   backlog, hungup>>

CloseSock(s) ==
    /\ Goto(s, "closeSock", "done")
    /\ CloseListening
    /\ clients' = [clients EXCEPT ![s] = {}]
    /\ UNCHANGED <<mainVars, clientsBuff, change, bak, fdRead, temp, lastPos, hungup>>

WorkerStep(s) ==
    \/ Loop(s) \/ MoveOne(s) \/ MoveEnd(s) \/ Select(s) \/ SelectReturns(s)
    \/ \E c \in Clients : RecvData(s, c) \/ Leave(s, c)
    \/ EndRead(s) \/ CloseClients(s) \/ CloseSock(s)
==============================================================================
