----------------------------- MODULE EasyTcpServer -----------------------------
(***************************************************************************)
(* EasyTcpServer (EasyTcpServer.hpp): the accept thread, the CELLServers   *)
(* it hands its clients to, and the main thread, which closes them all.    *)
(*                                                                         *)
(* The behaviour begins when Start(NumServers) has returned, whatever      *)
(* InitSocket, Bind and Listen have returned before it.  Close stops and   *)
(* joins the accept thread first, then deletes the servers one by one;     *)
(* each delete stops and joins that server's worker.                       *)
(***************************************************************************)
EXTENDS CELLServer

VARIABLES accepting,    \* where the accept thread is
          newClient,    \* the client addClientToCELLServer places
          minServer,    \* pMinServer
          next,         \* the server to compare it with
          closing,      \* where the main thread is in Close
          target,       \* the thread Close has come to
          deleted,      \* servers that have been deleted
          sock          \* what became of _sock before Start: it listens, or Bind or Listen
                        \* failed, or there is no socket

acceptVars == <<accepting, newClient, minServer, next>>
closeVars == <<closing, target, deleted, sock>>
vars == <<serverVars, acceptVars, closeVars>>

Acceptor == 0

\* main goes on when InitSocket, Bind or Listen fails: they only log it.
Opened == sock \in {"listening", "deaf", "none"}

Init ==
    /\ ServerInit
    /\ Opened
    /\ accepting = "loop"
    /\ newClient = NoClient
    /\ minServer = 1
    /\ next = 1
    /\ closing = "no"
    /\ target = Acceptor
    /\ deleted = {}

untouched == UNCHANGED <<clients, change, bak, place, moved, dropped, clientCount, closeVars>>

------------------------------------------------------------------------------
\* OnRun of the accept thread: the loop condition and the select on _sock.
AcceptLoop ==
    /\ accepting = "loop"
    /\ accepting' = IF isRun[Acceptor] THEN "select" ELSE "done"
    /\ UNCHANGED <<threadVars, fd, clientsBuff, newClient, minServer, next>>
    /\ untouched

\* Nothing to accept, or accept fails.
AcceptNone ==
    /\ accepting = "select"
    /\ accepting' = "loop"
    /\ UNCHANGED <<threadVars, fd, clientsBuff, newClient, minServer, next>>
    /\ untouched

\* accept returns a free descriptor and a CELLClient is made for it.
Accept(c, f) ==
    /\ accepting = "select"
    /\ sock = "listening"
    /\ fd[c] = Unborn
    /\ \A d \in Clients : fd[d] # f
    /\ fd' = [fd EXCEPT ![c] = f]
    /\ newClient' = c
    /\ minServer' = 1
    /\ next' = 1
    /\ accepting' = "place"
    /\ UNCHANGED <<threadVars, clientsBuff>>
    /\ untouched

\* addClientToCELLServer looks at the servers in turn, none of them locked.
Compare ==
    /\ accepting = "place"
    /\ next <= NumServers
    /\ minServer' = IF getClientCount(minServer) > getClientCount(next) THEN next ELSE minServer
    /\ next' = next + 1
    /\ UNCHANGED <<threadVars, fd, clientsBuff, accepting, newClient>>
    /\ untouched

Place ==
    /\ accepting = "place"
    /\ next > NumServers
    /\ addClient(minServer, newClient)
    /\ newClient' = NoClient
    /\ accepting' = "loop"
    /\ UNCHANGED <<threadVars, fd, minServer, next>>
    /\ untouched

AcceptFail ==
    /\ accepting = "select"
    /\ CanFail
    /\ accepting' = "exit"
    /\ failed' = failed \cup {Acceptor}
    /\ UNCHANGED <<isRun, joining, fd, clientsBuff, newClient, minServer, next>>
    /\ untouched

AcceptExit ==
    /\ accepting = "exit"
    /\ ~joining[Acceptor]
    /\ isRun' = [isRun EXCEPT ![Acceptor] = FALSE]
    /\ accepting' = "done"
    /\ UNCHANGED <<joining, failed, fd, clientsBuff, newClient, minServer, next>>
    /\ untouched

AcceptStep ==
    \/ AcceptLoop \/ AcceptNone \/ Compare \/ Place \/ AcceptFail \/ AcceptExit
    \/ \E c \in Clients, f \in Fds : Accept(c, f)

------------------------------------------------------------------------------
\* Mutant of ThreadDone: Close does not wait.
ThreadDoneAtOnce(t) == t \in Threads

ThreadDone(t) == IF t = Acceptor THEN accepting = "done" ELSE place[t] = "done"

\* The command "exit" is read.
CallClose ==
    /\ closing = "no"
    /\ closing' = "lock"
    /\ UNCHANGED <<serverVars, acceptVars, target, deleted, sock>>

\* Close is through with its present target: the accept thread, or a server, which
\* is then deleted.  After the last one the listening socket is closed; without a
\* socket no server is deleted.
Advance ==
    /\ deleted' = IF target = Acceptor THEN deleted ELSE deleted \cup {target}
    /\ IF target = NumServers \/ sock = "none"
       THEN closing' = "closed" /\ UNCHANGED target
       ELSE closing' = "lock" /\ target' = target + 1

\* CELLThread::Close: nothing to wait for when the flag is down.
CloseThread ==
    /\ closing = "lock"
    /\ \/ /\ isRun[target]
          /\ isRun' = [isRun EXCEPT ![target] = FALSE]
          /\ joining' = [joining EXCEPT ![target] = TRUE]
          /\ closing' = "join"
          /\ UNCHANGED <<target, deleted>>
       \/ /\ ~isRun[target]
          /\ Advance
          /\ UNCHANGED <<isRun, joining>>
    /\ UNCHANGED <<failed, fd, tables, place, moved, dropped, clientCount, acceptVars, sock>>

Join ==
    /\ closing = "join"
    /\ ThreadDone(target)
    /\ joining' = [joining EXCEPT ![target] = FALSE]
    /\ Advance
    /\ UNCHANGED <<isRun, failed, fd, tables, place, moved, dropped, clientCount, acceptVars, sock>>

CloseStep == CloseThread \/ Join

------------------------------------------------------------------------------
ServerAction(s) == ServerStep(s) /\ UNCHANGED <<acceptVars, closeVars>>

Next ==
    \/ AcceptStep
    \/ CallClose \/ CloseStep
    \/ \E s \in Servers : ServerAction(s)

\* Every thread runs; nobody has to connect or to type "exit", and nothing has to
\* fail.
Fairness ==
    /\ WF_vars(AcceptStep)
    /\ WF_vars(CloseStep)
    /\ \A s \in Servers : WF_vars(ServerAction(s))

Spec == Init /\ [][Next]_vars /\ Fairness
------------------------------------------------------------------------------
Clearing(s) == place[s] \in {"deleteBuff", "clearBuff", "done"}

\* CELLServer.hpp:51-60,137-164,186-229: whoever reuses a closed descriptor and
\* whenever, the map holds each client under its own open descriptor, except the
\* one between its delete and its erase; the buffer holds live clients only; and no
\* client belongs to two servers.
TablesLive ==
    \A s \in Servers :
        /\ \A f \in FdSet(s) : clients[s][f] # dropped[s] => fd[clients[s][f]] = f
        /\ ~Clearing(s) => \A c \in Buffered(s) : Open(c)
        /\ \A r \in Servers \ {s} :
              (Buffered(s) \cup JoinedTo(s)) \cap (Buffered(r) \cup JoinedTo(r)) = {}

\* CELLServer.hpp:79-100: the descriptor set select is called with, kept from round
\* to round while the clients do not change, is that of the clients in the map.
BakCurrent ==
    \A s \in Servers : place[s] = "read" /\ dropped[s] = NoClient /\ ~change[s]
                           => bak[s] = FdSet(s)

\* EasyTcpServer.hpp:118-154, CELLServer.hpp:51-59: as long as no select has failed,
\* an accepted client is never forgotten: while its socket is open it is on its way
\* to a server, in a buffer or in a map.
NoneForgotten ==
    failed = {} =>
        \A c \in Clients : Open(c) =>
            c = newClient \/ \E s \in Servers : c \in Buffered(s) \cup JoinedTo(s)

\* The clients the servers have and have not deleted.
Present == UNION {JoinedTo(s) \ {dropped[s]} : s \in Servers}

\* EasyTcpServer.hpp:197-208: the counter that all workers change is the number of
\* clients in the maps, until a worker clears its map.
CountJoined ==
    (\A s \in Servers : ~Clearing(s)) => clientCount = Cardinality(Present)

\* EasyTcpServer.hpp:176-183: no worker is still running when its server is
\* deleted, and no client is placed in a deleted server, as long as no select has
\* failed.
NoUseAfterDelete ==
    failed = {} => \A s \in deleted : place[s] = "done" /\ accepting = "done"

\* EasyTcpServer.hpp:173-193, CELLServer.hpp:300-313: when Close has returned every
\* accepted socket is closed, as long as no select has failed.
CloseReleases == closing = "closed" /\ failed = {} => \A c \in Clients : ~Open(c)

\* CELLServer.hpp:49-61: a client put into a buffer comes into the map, or is
\* deleted by a Close, unless its server's select has failed.
BufferedJoins ==
    \A s \in Servers, c \in Clients :
        c \in Buffered(s) ~> (c \in JoinedTo(s) \/ fd[c] = Deleted \/ s \in failed)

\* EasyTcpServer.hpp:173-193: Close returns, unless a thread is stuck in its Exit.
CloseReturns ==
    closing # "no" ~> (closing = "closed" \/ accepting = "exit"
                                          \/ \E s \in Servers : place[s] = "exit")
==============================================================================
