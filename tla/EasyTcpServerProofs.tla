-------------------------- MODULE EasyTcpServerProofs --------------------------
(***************************************************************************)
(* The tables of the servers, the counter and the shutdown of module       *)
(* EasyTcpServer, for any number of servers, clients and descriptors.      *)
(***************************************************************************)
EXTENDS EasyTcpServer, TLAPS, SequenceTheorems, FiniteSetTheorems

Places == {"loop", "test", "lock", "move", "select", "read", "write", "time", "exit",
           "clearClients", "deleteBuff", "clearBuff", "done"}

Types ==
    /\ isRun \in [Threads -> BOOLEAN] /\ joining \in [Threads -> BOOLEAN]
    /\ failed \subseteq Threads
    /\ fd \in [Clients -> Fds \cup {Unborn, Deleted}]
    /\ clients \in [Servers -> [Fds -> Clients \cup {NoClient}]]
    /\ clientsBuff \in [Servers -> Seq(Clients)]
    /\ change \in [Servers -> BOOLEAN] /\ bak \in [Servers -> SUBSET Fds]
    /\ place \in [Servers -> Places]
    /\ moved \in [Servers -> Nat]
    /\ dropped \in [Servers -> Clients \cup {NoClient}]
    /\ accepting \in {"loop", "select", "place", "exit", "done"}
    /\ newClient \in Clients \cup {NoClient}
    /\ accepting = "place" <=> newClient # NoClient
    /\ minServer \in Servers /\ next \in 1..(NumServers + 1)

Has(s) == Buffered(s) \cup JoinedTo(s)

LEMMA ServersAreThreads == Servers \subseteq Threads /\ Acceptor \in Threads /\ 1 \in Servers
                           /\ Acceptor \notin Servers
  BY ServerConstants DEF Servers, Threads, Acceptor

LEMMA InitTypes == Init => Types
<1> SUFFICES ASSUME Init PROVE Types
  OBVIOUS
<1>1. \A s \in Servers : [f \in Fds |-> NoClient] \in [Fds -> Clients \cup {NoClient}]
  OBVIOUS
<1> QED BY <1>1, ServersAreThreads, ServerConstants DEF Init, ServerInit, Types, Places, Servers

\* What an entry of the buffer is.
LEMMA BufferedIs ==
    ASSUME Types, NEW s \in Servers
    PROVE  /\ DOMAIN clientsBuff[s] = 1..Len(clientsBuff[s])
           /\ Buffered(s) \subseteq Clients /\ JoinedTo(s) \subseteq Clients
           /\ Has(s) \subseteq Clients
<1>1. clientsBuff[s] \in Seq(Clients)
  BY DEF Types
<1>2. DOMAIN clientsBuff[s] = 1..Len(clientsBuff[s])
  BY <1>1
<1>3. Buffered(s) \subseteq Clients
  BY <1>1, <1>2 DEF Buffered
<1>4. JoinedTo(s) \subseteq Clients
  BY DEF JoinedTo, FdSet, Types
<1> QED BY <1>2, <1>3, <1>4 DEF Has

\* The accept thread and Close.
LEMMA AcceptTypes == Types /\ (AcceptStep \/ CallClose \/ CloseStep) => Types'
<1> SUFFICES ASSUME Types, AcceptStep \/ CallClose \/ CloseStep PROVE Types'
  OBVIOUS
<1> USE DEF Types, untouched, closeVars, threadVars
<1>1. CASE AcceptLoop \/ AcceptNone
  BY <1>1 DEF AcceptLoop, AcceptNone
<1>2. ASSUME NEW c \in Clients, NEW f \in Fds, Accept(c, f) PROVE Types'
  BY <1>2, ServersAreThreads, ServerConstants DEF Accept
<1>3. CASE Compare
  BY <1>3, ServersAreThreads, ServerConstants, SMTT(30) DEF Compare, Servers
<1>4. CASE Place
  <2>1. newClient \in Clients /\ minServer \in Servers
    BY <1>4 DEF Place
  <2>2. Append(clientsBuff[minServer], newClient) \in Seq(Clients)
    BY <2>1, AppendProperties
  <2> QED BY <1>4, <2>2 DEF Place, addClient
<1>5. CASE AcceptFail \/ AcceptExit
  BY <1>5, ServersAreThreads DEF AcceptFail, AcceptExit
<1>6. CASE CallClose
  BY <1>6 DEF CallClose, serverVars, tables, acceptVars
<1>7. CASE CloseStep
  BY <1>7 DEF CloseStep, CloseThread, Join, tables, acceptVars
<1> QED BY <1>1, <1>2, <1>3, <1>4, <1>5, <1>6, <1>7 DEF AcceptStep

LEMMA ServerTypes ==
    ASSUME Types, NEW s \in Servers, ServerAction(s)
    PROVE  Types'
<1>0. UNCHANGED <<accepting, newClient, minServer, next>>
  BY DEF ServerAction, acceptVars
<1>a. place' \in [Servers -> Places]
  <2>1. ASSUME NEW from, NEW to \in Places, Goto(s, from, to) PROVE place' \in [Servers -> Places]
    BY <2>1 DEF Types, Goto
  <2>2. CASE UNCHANGED place
    BY <2>2 DEF Types
  <2>3. CASE ~ UNCHANGED place
    <3> USE DEF Places
    <3>1. CASE Loop(s) \/ Test(s) \/ Lock(s) \/ MoveEnd(s)
      BY <2>1, <3>1 DEF Loop, Test, Lock, MoveEnd
    <3>2. CASE Select(s) \/ EndPass(s) \/ Exit(s)
      BY <2>1, <3>2 DEF Select, EndPass, Exit
    <3>3. CASE ClearMap(s) \/ DeleteBuff(s) \/ ClearBuff(s)
      BY <2>1, <3>3 DEF ClearMap, DeleteBuff, ClearBuff
    <3> QED BY <2>3, <3>1, <3>2, <3>3
            DEF ServerAction, ServerStep, MoveOne, DropBySocket, DropByHeart, Leave, Erase
  <2> QED BY <2>2, <2>3
<1> USE DEF Types, threadVars, tables
<1>1. CASE Loop(s) \/ Test(s) \/ Lock(s) \/ EndPass(s)
  <2>1. CASE Lock(s)
    BY <1>0, <1>a, <2>1 DEF Lock
  <2>2. CASE ~Lock(s)
    BY <1>0, <1>a, <1>1, <2>2 DEF Loop, Test, EndPass
  <2> QED BY <2>1, <2>2
<1>2. CASE MoveOne(s)
  <2> DEFINE c == clientsBuff[s][moved[s] + 1]
  <2>1. c \in Clients /\ clients' = [clients EXCEPT ![s][fd[c]] = c]
    <3>1. clientsBuff[s] \in Seq(Clients) /\ moved[s] + 1 \in 1..Len(clientsBuff[s])
      BY <1>2 DEF MoveOne
    <3> QED BY <1>2, <3>1 DEF MoveOne
  <2> HIDE DEF c
  <2>2. clients' \in [Servers -> [Fds -> Clients \cup {NoClient}]]
    BY <2>1
  <2> QED BY <1>0, <1>2, <2>2 DEF MoveOne
<1>3. CASE MoveEnd(s)
  BY <1>0, <1>a, <1>3 DEF MoveEnd
<1>4. CASE Select(s)
  <2>1. failed' \subseteq Threads
    BY <1>4, ServersAreThreads DEF Select
  <2>2. change' \in [Servers -> BOOLEAN] /\ bak' \in [Servers -> SUBSET Fds]
    <3>1. FdSet(s) \subseteq Fds
      BY DEF FdSet
    <3>2. CASE UNCHANGED <<change, bak, failed>>
      BY <3>2
    <3>3. CASE /\ bak' = [bak EXCEPT ![s] = IF change[s] THEN FdSet(s) ELSE @]
               /\ change' = [change EXCEPT ![s] = FALSE]
      <4>1. (IF change[s] THEN FdSet(s) ELSE bak[s]) \in SUBSET Fds
        BY <3>1
      <4> QED BY <3>3, <4>1
    <3> QED BY <1>4, <3>2, <3>3 DEF Select
  <2>3. UNCHANGED <<isRun, joining, fd, clients, clientsBuff, moved, dropped>>
    BY <1>4 DEF Select
  <2> QED BY <1>0, <1>a, <2>1, <2>2, <2>3
<1>5. ASSUME NEW c \in Clients, Leave(s, c) PROVE Types'
  BY <1>0, <1>5 DEF Leave
<1>6. CASE \E f \in Fds : DropBySocket(s, f) \/ DropByHeart(s, f)
  <2>1. PICK f \in Fds : f \in FdSet(s) /\ Leave(s, clients[s][f])
    BY <1>6 DEF DropBySocket, DropByHeart
  <2>2. clients[s][f] \in Clients
    BY <2>1 DEF FdSet
  <2> QED BY <1>5, <2>1, <2>2
<1>7. CASE Erase(s)
  BY <1>0, <1>7 DEF Erase
<1>8. CASE Exit(s)
  BY <1>0, <1>a, <1>8, ServersAreThreads DEF Exit
<1>9. CASE ClearMap(s) \/ DeleteBuff(s)
  <2>1. fd' \in [Clients -> Fds \cup {Unborn, Deleted}]
    BY <1>9 DEF ClearMap, DeleteBuff, DeleteAll
  <2>2. clients' \in [Servers -> [Fds -> Clients \cup {NoClient}]]
    <3>1. [f \in Fds |-> NoClient] \in [Fds -> Clients \cup {NoClient}]
      OBVIOUS
    <3>2. CASE ClearMap(s)
      <4>1. clients' = [clients EXCEPT ![s] = [f \in Fds |-> NoClient]]
        BY <3>2 DEF ClearMap
      <4> QED BY <3>1, <4>1
    <3>3. CASE DeleteBuff(s)
      BY <3>3 DEF DeleteBuff
    <3> QED BY <1>9, <3>2, <3>3
  <2> QED BY <1>0, <1>a, <1>9, <2>1, <2>2 DEF ClearMap, DeleteBuff
<1>10. CASE ClearBuff(s)
  BY <1>0, <1>a, <1>10 DEF ClearBuff
<1> QED BY <1>1, <1>2, <1>3, <1>4, <1>6, <1>7, <1>8, <1>9, <1>10 DEF ServerAction, ServerStep

------------------------------------------------------------------------------
\* No two sockets have one descriptor, no two servers one client; a client that has
\* not been made is in no table, and one that is being placed is in none yet.
World ==
    /\ \A c, d \in Clients : Open(c) /\ Open(d) /\ fd[c] = fd[d] => c = d
    /\ \A r, s \in Servers : r # s => Has(r) \cap Has(s) = {}
    /\ \A s \in Servers : \A c \in Has(s) : fd[c] # Unborn
    /\ newClient # NoClient => Open(newClient) /\ \A s \in Servers : newClient \notin Has(s)

\* A map has its clients under their descriptors, the buffer has open ones, each once,
\* and the two share only what a transfer has moved.
ServerTable(s) ==
    /\ \A f \in FdSet(s) : clients[s][f] # dropped[s] => fd[clients[s][f]] = f
    /\ ~Clearing(s) => \A c \in Buffered(s) : Open(c)
    /\ dropped[s] # NoClient => /\ place[s] \in {"read", "write", "time"}
                               /\ fd[dropped[s]] = Deleted /\ dropped[s] \in JoinedTo(s)
    /\ \A i, j \in 1..Len(clientsBuff[s]) : clientsBuff[s][i] = clientsBuff[s][j] => i = j
    /\ place[s] # "move" => Buffered(s) \cap JoinedTo(s) = {}
    /\ place[s] = "move" =>
          /\ moved[s] <= Len(clientsBuff[s])
          /\ \A i \in 1..Len(clientsBuff[s]) :
                clientsBuff[s][i] \in JoinedTo(s) <=> i <= moved[s]
    /\ Clearing(s) => FdSet(s) = {}

Tables == World /\ \A s \in Servers : ServerTable(s)

\* Of two kinds of steps: clients leave the tables, and sockets of theirs are closed.
LEMMA WorldKept ==
    ASSUME Types, World, newClient' = newClient,
           \A s \in Servers : Has(s)' \subseteq Has(s),
           \A c \in Clients : fd'[c] = fd[c] \/ (fd'[c] = Deleted /\ \E s \in Servers : c \in Has(s))
    PROVE  World'
<1>1. \A c \in Clients : Open(c)' => Open(c) /\ fd'[c] = fd[c]
  BY ServerConstants DEF Open
<1>2. (\A c, d \in Clients : Open(c) /\ Open(d) /\ fd[c] = fd[d] => c = d)'
  BY <1>1 DEF World
<1>3. \A r, s \in Servers : r # s => Has(r)' \cap Has(s)' = {}
  BY DEF World
<1>4. \A s \in Servers : \A c \in Has(s)' : fd'[c] # Unborn
  BY BufferedIs, ServerConstants DEF World
<1>5. newClient' # NoClient => Open(newClient)' /\ \A s \in Servers : newClient' \notin Has(s)'
  <2> SUFFICES ASSUME newClient # NoClient
               PROVE  Open(newClient)' /\ \A s \in Servers : newClient \notin Has(s)'
    OBVIOUS
  <2>1. newClient \in Clients /\ Open(newClient) /\ \A s \in Servers : newClient \notin Has(s)
    BY DEF World, Types
  <2> QED BY <2>1 DEF Open
<1> QED BY <1>2, <1>3, <1>4, <1>5 DEF World

\* The tables of a server that a step does not concern.
LEMMA TableKept ==
    ASSUME Types, NEW r \in Servers, ServerTable(r),
           clients'[r] = clients[r], clientsBuff'[r] = clientsBuff[r],
           dropped'[r] = dropped[r], place'[r] = place[r], moved'[r] = moved[r],
           \A c \in Has(r) : fd'[c] = fd[c]
    PROVE  ServerTable(r)'
<1>1. FdSet(r)' = FdSet(r) /\ JoinedTo(r)' = JoinedTo(r) /\ Buffered(r)' = Buffered(r)
  BY DEF FdSet, JoinedTo, Buffered
<1>2. \A c \in Buffered(r) \cup JoinedTo(r) : fd'[c] = fd[c]
  BY DEF Has
<1>3. \A f \in FdSet(r) : clients[r][f] \in JoinedTo(r)
  BY DEF JoinedTo
<1> QED BY <1>1, <1>2, <1>3 DEF ServerTable, Clearing, Open

LEMMA OthersKept ==
    ASSUME Types, Tables, NEW s \in Servers,
           \A r \in Servers \ {s} :
              /\ clients'[r] = clients[r] /\ clientsBuff'[r] = clientsBuff[r]
              /\ dropped'[r] = dropped[r] /\ place'[r] = place[r] /\ moved'[r] = moved[r],
           \A c \in Clients : fd'[c] = fd[c] \/ c \in Has(s)
    PROVE  \A r \in Servers \ {s} : ServerTable(r)' /\ Has(r)' = Has(r)
<1> SUFFICES ASSUME NEW r \in Servers \ {s} PROVE ServerTable(r)' /\ Has(r)' = Has(r)
  OBVIOUS
<1>1. \A c \in Has(r) : c \in Clients /\ c \notin Has(s)
  BY BufferedIs DEF Tables, World
<1>2. ServerTable(r)'
  BY <1>1, TableKept DEF Tables
<1>3. Has(r)' = Has(r)
  BY DEF Has, Buffered, JoinedTo, FdSet
<1> QED BY <1>2, <1>3

LEMMA InitTables == Init => Tables
<1> SUFFICES ASSUME Init PROVE Tables
  OBVIOUS
<1>1. \A s \in Servers : FdSet(s) = {} /\ JoinedTo(s) = {} /\ Buffered(s) = {} /\ Has(s) = {}
  BY DEF Init, ServerInit, FdSet, JoinedTo, Buffered, Has
<1>2. World
  BY <1>1, ServerConstants DEF Init, ServerInit, World, Open
<1>3. ASSUME NEW s \in Servers PROVE ServerTable(s)
  BY <1>1 DEF Init, ServerInit, ServerTable, Clearing
<1> QED BY <1>2, <1>3 DEF Tables

\* The steps of a worker that move it on and change no table.
LEMMA WalkStep ==
    ASSUME Types, Tables, NEW s \in Servers,
           Loop(s) \/ Test(s) \/ Lock(s) \/ Select(s) \/ EndPass(s) \/ Exit(s),
           newClient' = newClient
    PROVE  Tables' /\ \A r \in Servers : Has(r)' = Has(r) /\ FdSet(r)' = FdSet(r)
<1>1. UNCHANGED <<fd, clients, clientsBuff, dropped>>
  BY DEF Loop, Test, Lock, Select, EndPass, Exit, tables
<1>2. \A r \in Servers : /\ Has(r)' = Has(r) /\ FdSet(r)' = FdSet(r)
                         /\ JoinedTo(r)' = JoinedTo(r) /\ Buffered(r)' = Buffered(r)
  BY <1>1 DEF Has, Buffered, JoinedTo, FdSet
<1>3. World'
  BY <1>1, <1>2, WorldKept DEF Tables
<1>4. \A r \in Servers \ {s} : moved'[r] = moved[r] /\ place'[r] = place[r]
  BY DEF Types, Loop, Test, Lock, Select, EndPass, Exit, Goto
<1>5. \A r \in Servers \ {s} : ServerTable(r)'
  BY <1>1, <1>4, OthersKept
<1>6. ServerTable(s)'
  <2>1. /\ dropped[s] = NoClient
        /\ place[s] \notin {"move", "deleteBuff", "clearBuff", "done"}
        /\ place'[s] \notin {"deleteBuff", "clearBuff", "done"}
    BY DEF Types, Tables, ServerTable, Loop, Test, Lock, Select, EndPass, Exit, Goto
  <2>2. place'[s] = "move" => moved'[s] = 0
    BY DEF Types, Loop, Test, Lock, Select, EndPass, Exit, Goto
  <2>3. Len(clientsBuff[s]) \in Nat /\ \A i \in 1..Len(clientsBuff[s]) : clientsBuff[s][i] \in Buffered(s)
    BY BufferedIs DEF Types, Buffered
  <2>4. Buffered(s) \cap JoinedTo(s) = {} /\ \A c \in Buffered(s) : Open(c)
    BY <2>1 DEF Tables, ServerTable, Clearing
  <2>5. \A f \in FdSet(s) : fd[clients[s][f]] = f
    BY <2>1 DEF Tables, ServerTable, FdSet, Types
  <2> QED BY <1>1, <1>2, <2>1, <2>2, <2>3, <2>4, <2>5 DEF Tables, ServerTable, Clearing, Open
<1> QED BY <1>2, <1>3, <1>5, <1>6 DEF Tables

\* CELLServer.hpp:51-59: the client that goes into the map takes a free entry.
LEMMA MoveOneEffect ==
    ASSUME Types, Tables, NEW s \in Servers, MoveOne(s)
    PROVE  \E c \in Buffered(s) :
              /\ c \in Clients /\ c \notin JoinedTo(s) /\ Open(c)
              /\ clients' = [clients EXCEPT ![s][fd[c]] = c]
              /\ clients[s][fd[c]] = NoClient
              /\ c = clientsBuff[s][moved[s] + 1] /\ moved[s] + 1 \in 1..Len(clientsBuff[s])
              /\ FdSet(s)' = FdSet(s) \cup {fd[c]} /\ JoinedTo(s)' = JoinedTo(s) \cup {c}
              /\ Buffered(s)' = Buffered(s) /\ Has(s)' = Has(s)
              /\ dropped[s] = NoClient
<1> DEFINE c == clientsBuff[s][moved[s] + 1]
<1>1. /\ place[s] = "move" /\ moved[s] + 1 \in 1..Len(clientsBuff[s])
      /\ clientsBuff' = clientsBuff /\ clients' = [clients EXCEPT ![s][fd[c]] = c]
  BY DEF MoveOne, Types
<1>2. c \in Buffered(s) /\ c \in Clients /\ ServerTable(s) /\ World
  BY <1>1, BufferedIs DEF Buffered, Tables
<1>3. c \notin JoinedTo(s)
  BY <1>1, <1>2 DEF ServerTable, Types
<1> HIDE DEF c
<1>4. Open(c) /\ dropped[s] = NoClient
  BY <1>1, <1>2 DEF ServerTable, Clearing
<1>5. clients[s][fd[c]] = NoClient
  <2> SUFFICES ASSUME clients[s][fd[c]] # NoClient PROVE FALSE
    OBVIOUS
  <2>1. fd[c] \in FdSet(s) /\ clients[s][fd[c]] \in JoinedTo(s)
    BY <1>4 DEF FdSet, JoinedTo, Open
  <2>2. fd[clients[s][fd[c]]] = fd[c]
    BY <1>2, <1>4, <2>1 DEF ServerTable
  <2>3. clients[s][fd[c]] \in Clients
    BY <2>1, BufferedIs
  <2>4. clients[s][fd[c]] = c
    BY <1>2, <1>4, <2>2, <2>3 DEF World, Open
  <2> QED BY <1>3, <2>1, <2>4
<1>6. /\ \A f \in Fds : clients'[s][f] = IF f = fd[c] THEN c ELSE clients[s][f]
      /\ fd[c] \in Fds /\ c # NoClient
  BY <1>1, <1>2, <1>4, ServerConstants DEF Types, Open
<1>7. FdSet(s)' = FdSet(s) \cup {fd[c]}
  BY <1>6 DEF FdSet
<1>8. JoinedTo(s)' = JoinedTo(s) \cup {c}
  <2>1. \A f \in FdSet(s) : clients'[s][f] = clients[s][f]
    BY <1>5, <1>6 DEF FdSet
  <2> QED BY <1>6, <1>7, <2>1 DEF JoinedTo
<1>9. Buffered(s)' = Buffered(s)
  BY <1>1 DEF Buffered
<1>10. Has(s)' = Has(s)
  BY <1>2, <1>8, <1>9 DEF Has
<1> QED BY <1>1, <1>2, <1>3, <1>4, <1>5, <1>7, <1>8, <1>9, <1>10 DEF c

LEMMA MoveOneStep ==
    ASSUME Types, Tables, NEW s \in Servers, MoveOne(s), newClient' = newClient
    PROVE  Tables' /\ \A r \in Servers : Has(r)' = Has(r)
<1>1. PICK c \in Buffered(s) :
         /\ c \in Clients /\ c \notin JoinedTo(s) /\ Open(c)
         /\ clients' = [clients EXCEPT ![s][fd[c]] = c]
         /\ clients[s][fd[c]] = NoClient
         /\ c = clientsBuff[s][moved[s] + 1] /\ moved[s] + 1 \in 1..Len(clientsBuff[s])
         /\ FdSet(s)' = FdSet(s) \cup {fd[c]} /\ JoinedTo(s)' = JoinedTo(s) \cup {c}
         /\ Buffered(s)' = Buffered(s) /\ Has(s)' = Has(s)
         /\ dropped[s] = NoClient
  BY MoveOneEffect
<1>2. /\ UNCHANGED <<fd, clientsBuff, place, dropped>> /\ place[s] = "move"
      /\ moved' = [moved EXCEPT ![s] = moved[s] + 1]
  BY DEF MoveOne
<1>3. \A r \in Servers \ {s} : ServerTable(r)' /\ Has(r)' = Has(r)
  <2>1. \A r \in Servers \ {s} : clients'[r] = clients[r] /\ moved'[r] = moved[r]
    BY <1>1, <1>2 DEF Types
  <2> QED BY <1>2, <2>1, OthersKept
<1>4. World'
  BY <1>1, <1>2, <1>3, WorldKept DEF Tables
<1>5. ServerTable(s)'
  <2>1. \A f \in FdSet(s)' : fd'[clients'[s][f]] = f
    <3>1. \A f \in FdSet(s) : fd[clients[s][f]] = f
      BY <1>1 DEF Tables, ServerTable, FdSet, Types
    <3>2. \A f \in Fds : clients'[s][f] = IF f = fd[c] THEN c ELSE clients[s][f]
      BY <1>1 DEF Types
    <3>3. \A f \in FdSet(s)' : f \in Fds
      BY DEF FdSet
    <3> QED BY <1>1, <1>2, <3>1, <3>2, <3>3
  <2>2. /\ moved'[s] = moved[s] + 1 /\ moved[s] \in Nat /\ Len(clientsBuff[s]) \in Nat
    BY <1>2 DEF Types
  <2>3. \A i \in 1..Len(clientsBuff[s]) : clientsBuff[s][i] \in JoinedTo(s)' <=> i <= moved'[s]
    <3> SUFFICES ASSUME NEW i \in 1..Len(clientsBuff[s])
                 PROVE  clientsBuff[s][i] \in JoinedTo(s)' <=> i <= moved'[s]
      OBVIOUS
    <3>1. clientsBuff[s][i] \in JoinedTo(s) <=> i <= moved[s]
      BY <1>2 DEF Tables, ServerTable
    <3>2. clientsBuff[s][i] = c <=> i = moved[s] + 1
      BY <1>1 DEF Tables, ServerTable
    <3> QED BY <1>1, <2>2, <3>1, <3>2
  <2>4. \A d \in Buffered(s) : Open(d)
    BY <1>2 DEF Tables, ServerTable, Clearing
  <2>5. \A i, j \in 1..Len(clientsBuff[s]) : clientsBuff[s][i] = clientsBuff[s][j] => i = j
    BY DEF Tables, ServerTable
  <2>6. moved[s] + 1 \in Nat /\ moved[s] + 1 <= Len(clientsBuff[s])
    BY <1>1, <2>2
  <2>7. ~Clearing(s)' /\ ~Clearing(s)
    BY <1>2 DEF Clearing
  <2>8. dropped'[s] = NoClient /\ place'[s] = "move"
    BY <1>1, <1>2
  <2>9. \A d \in Buffered(s)' : Open(d)'
    BY <1>1, <1>2, <2>4 DEF Open
  <2>10. /\ moved'[s] <= Len(clientsBuff'[s])
         /\ \A i \in 1..Len(clientsBuff'[s]) :
               clientsBuff'[s][i] \in JoinedTo(s)' <=> i <= moved'[s]
    BY <1>2, <2>2, <2>3, <2>6
  <2>11. \A i, j \in 1..Len(clientsBuff'[s]) :
            clientsBuff'[s][i] = clientsBuff'[s][j] => i = j
    BY <1>2, <2>5
  <2> QED BY <2>1, <2>7, <2>8, <2>9, <2>10, <2>11 DEF ServerTable
<1> QED BY <1>1, <1>3, <1>4, <1>5 DEF Tables

LEMMA MoveEndStep ==
    ASSUME Types, Tables, NEW s \in Servers, MoveEnd(s), newClient' = newClient
    PROVE  /\ Tables' /\ Buffered(s) \subseteq JoinedTo(s) /\ Buffered(s)' = {}
           /\ \A r \in Servers : JoinedTo(r)' = JoinedTo(r)
           /\ \A r \in Servers \ {s} : Has(r)' = Has(r)
<1>1. /\ place[s] = "move" /\ moved[s] = Len(clientsBuff[s])
      /\ UNCHANGED <<fd, clients, dropped, moved>> /\ clientsBuff'[s] = <<>> /\ place'[s] = "select"
  BY DEF MoveEnd, Goto, Types
<1>2. Buffered(s) \subseteq JoinedTo(s) /\ dropped[s] = NoClient
  BY <1>1, BufferedIs DEF Tables, ServerTable, Buffered
<1>3. Buffered(s)' = {} /\ \A r \in Servers : JoinedTo(r)' = JoinedTo(r) /\ FdSet(r)' = FdSet(r)
  BY <1>1 DEF Buffered, JoinedTo, FdSet
<1>4. \A r \in Servers \ {s} : ServerTable(r)' /\ Has(r)' = Has(r)
  <2>1. \A r \in Servers \ {s} : clientsBuff'[r] = clientsBuff[r] /\ place'[r] = place[r]
    BY DEF MoveEnd, Goto, Types
  <2> QED BY <1>1, <2>1, OthersKept
<1>5. Has(s)' \subseteq Has(s)
  BY <1>3 DEF Has
<1>6. World'
  BY <1>1, <1>4, <1>5, WorldKept DEF Tables
<1>7. ServerTable(s)'
  <2>1. \A f \in FdSet(s) : fd[clients[s][f]] = f
    BY <1>2 DEF Tables, ServerTable, FdSet, Types
  <2>2. Len(clientsBuff'[s]) = 0
    BY <1>1
  <2> QED BY <1>1, <1>2, <1>3, <2>1, <2>2 DEF ServerTable, Clearing
<1> QED BY <1>2, <1>3, <1>4, <1>6, <1>7 DEF Tables

\* ReadData, WriteData and CheckTime delete a client that is in the map.
LEMMA LeaveStep ==
    ASSUME Types, Tables, NEW s \in Servers, NEW f \in FdSet(s), Leave(s, clients[s][f]),
           place[s] \in {"read", "write", "time"}, newClient' = newClient
    PROVE  Tables' /\ \A r \in Servers : Has(r)' = Has(r)
<1>1. PICK c \in JoinedTo(s) : c = clients[s][f] /\ c \in Clients /\ c \in Has(s)
  BY BufferedIs DEF JoinedTo, Has
<1>2. /\ UNCHANGED <<clients, clientsBuff, place, moved>> /\ dropped[s] = NoClient
      /\ dropped' = [dropped EXCEPT ![s] = c] /\ fd' = [fd EXCEPT ![c] = Deleted]
  BY <1>1 DEF Leave
<1>3. \A r \in Servers : Has(r)' = Has(r) /\ JoinedTo(r)' = JoinedTo(r)
                          /\ Buffered(r)' = Buffered(r) /\ FdSet(r)' = FdSet(r)
  BY <1>2 DEF Has, JoinedTo, Buffered, FdSet
<1>4. \A d \in Clients : fd'[d] = IF d = c THEN Deleted ELSE fd[d]
  BY <1>1, <1>2 DEF Types
<1>5. World'
  BY <1>1, <1>3, <1>4, WorldKept DEF Tables
<1>6. \A r \in Servers \ {s} : ServerTable(r)'
  <2>1. \A r \in Servers \ {s} : dropped'[r] = dropped[r]
    BY <1>2 DEF Types
  <2>2. \A d \in Clients : fd'[d] = fd[d] \/ d \in Has(s)
    BY <1>1, <1>4
  <2> QED BY <1>2, <2>1, <2>2, OthersKept
<1>7. ServerTable(s)'
  <2>1. dropped'[s] = c /\ fd'[c] = Deleted
    BY <1>1, <1>2, <1>4 DEF Types
  <2>2. \A g \in FdSet(s) : clients[s][g] # c => fd'[clients[s][g]] = g
    <3> TAKE g \in FdSet(s)
    <3>1. fd[clients[s][g]] = g /\ clients[s][g] \in Clients
      BY <1>2 DEF Tables, ServerTable, FdSet, Types
    <3> QED BY <1>4, <3>1
  <2>3. Buffered(s) \cap JoinedTo(s) = {} /\ Buffered(s) \subseteq Clients
    BY BufferedIs DEF Tables, ServerTable
  <2>4. \A d \in Buffered(s) : fd'[d] \in Fds
    <3> TAKE d \in Buffered(s)
    <3>1. Open(d)
      BY DEF Tables, ServerTable, Clearing
    <3> QED BY <1>1, <1>4, <2>3, <3>1 DEF Open
  <2>5. \A i, j \in 1..Len(clientsBuff[s]) : clientsBuff[s][i] = clientsBuff[s][j] => i = j
    BY DEF Tables, ServerTable
  <2> QED BY <1>1, <1>2, <1>3, <2>1, <2>2, <2>3, <2>4, <2>5 DEF ServerTable, Clearing, Open
<1> QED BY <1>3, <1>5, <1>6, <1>7 DEF Tables

LEMMA EraseStep ==
    ASSUME Types, Tables, NEW s \in Servers, Erase(s), newClient' = newClient
    PROVE  /\ Tables' /\ \A r \in Servers : Has(r)' \subseteq Has(r)
           /\ JoinedTo(s)' = JoinedTo(s) \ {dropped[s]}
           /\ \A r \in Servers \ {s} : Has(r)' = Has(r)
<1>1. PICK d \in Clients : d = dropped[s] /\ fd[d] = Deleted /\ d \in JoinedTo(s)
                          /\ place[s] \in {"read", "write", "time"} /\ d # NoClient
  BY ServerConstants DEF Erase, Tables, ServerTable, Types
<1>2. /\ UNCHANGED <<fd, clientsBuff, place, moved>>
      /\ clients' = [clients EXCEPT ![s] =
                        [f \in Fds |-> IF clients[s][f] = d THEN NoClient ELSE clients[s][f]]]
      /\ dropped' = [dropped EXCEPT ![s] = NoClient]
  BY <1>1 DEF Erase
<1>3. \A f \in Fds : clients'[s][f] = IF clients[s][f] = d THEN NoClient ELSE clients[s][f]
  BY <1>2 DEF Types
<1>4. FdSet(s)' = {f \in FdSet(s) : clients[s][f] # d}
  BY <1>1, <1>3 DEF FdSet
<1>5. JoinedTo(s)' = JoinedTo(s) \ {d}
  <2>1. \A f \in FdSet(s)' : clients'[s][f] = clients[s][f]
    BY <1>3, <1>4 DEF FdSet
  <2> QED BY <1>4, <2>1 DEF JoinedTo
<1>6. \A r \in Servers \ {s} : clients'[r] = clients[r] /\ dropped'[r] = dropped[r]
  BY <1>2 DEF Types
<1>7. \A r \in Servers \ {s} : ServerTable(r)' /\ Has(r)' = Has(r)
  BY <1>2, <1>6, OthersKept
<1>8. Buffered(s)' = Buffered(s) /\ Has(s)' \subseteq Has(s)
  BY <1>2, <1>5 DEF Buffered, Has
<1>9. World'
  BY <1>2, <1>7, <1>8, WorldKept DEF Tables
<1>10. ServerTable(s)'
  <2>1. \A f \in FdSet(s)' : fd'[clients'[s][f]] = f
    BY <1>1, <1>2, <1>3, <1>4 DEF Tables, ServerTable, FdSet
  <2>2. dropped'[s] = NoClient
    BY <1>2 DEF Types
  <2>3. Buffered(s) \cap JoinedTo(s) = {} /\ \A c \in Buffered(s) : Open(c)
    BY <1>1 DEF Tables, ServerTable, Clearing
  <2>4. \A i, j \in 1..Len(clientsBuff[s]) : clientsBuff[s][i] = clientsBuff[s][j] => i = j
    BY DEF Tables, ServerTable
  <2> QED BY <1>1, <1>2, <1>5, <1>8, <2>1, <2>2, <2>3, <2>4 DEF ServerTable, Clearing, Open
<1> QED BY <1>1, <1>5, <1>7, <1>8, <1>9, <1>10 DEF Tables

\* ClearClients.
LEMMA ClearStep ==
    ASSUME Types, Tables, NEW s \in Servers, newClient' = newClient,
           ClearMap(s) \/ DeleteBuff(s) \/ ClearBuff(s)
    PROVE  /\ Tables' /\ \A r \in Servers : Has(r)' \subseteq Has(r)
           /\ \A r \in Servers \ {s} : Has(r)' = Has(r)
<1>1. /\ dropped' = dropped /\ moved' = moved /\ dropped[s] = NoClient
      /\ place[s] \in {"clearClients", "deleteBuff", "clearBuff"}
      /\ place'[s] \in {"deleteBuff", "clearBuff", "done"}
  <2>1. /\ dropped' = dropped /\ moved' = moved
        /\ place[s] \in {"clearClients", "deleteBuff", "clearBuff"}
    BY DEF ClearMap, DeleteBuff, ClearBuff, Goto
  <2>2. place'[s] \in {"deleteBuff", "clearBuff", "done"}
    BY DEF ClearMap, DeleteBuff, ClearBuff, Goto, Types
  <2>3. dropped[s] = NoClient
    BY <2>1 DEF Tables, ServerTable
  <2> QED BY <2>1, <2>2, <2>3
<1>2. \A r \in Servers \ {s} : place'[r] = place[r] /\ clients'[r] = clients[r]
                                /\ clientsBuff'[r] = clientsBuff[r]
  BY DEF ClearMap, DeleteBuff, ClearBuff, Goto, Types, tables
<1>3. \A c \in Clients : fd'[c] = fd[c] \/ (fd'[c] = Deleted /\ c \in Has(s))
  BY DEF ClearMap, DeleteBuff, ClearBuff, DeleteAll, Types, Has
<1>4. \A r \in Servers \ {s} : ServerTable(r)' /\ Has(r)' = Has(r)
  BY <1>1, <1>2, <1>3, OthersKept
<1>5. FdSet(s)' = {} /\ JoinedTo(s)' = {}
  <2>1. CASE ClearMap(s)
    <3>1. \A f \in Fds : clients'[s][f] = NoClient
      BY <2>1 DEF ClearMap, Types
    <3> QED BY <3>1 DEF FdSet, JoinedTo
  <2>2. CASE DeleteBuff(s) \/ ClearBuff(s)
    <3>1. clients' = clients /\ FdSet(s) = {}
      BY <2>2 DEF DeleteBuff, ClearBuff, tables, Goto, Tables, ServerTable, Clearing
    <3> QED BY <3>1 DEF FdSet, JoinedTo
  <2> QED BY <2>1, <2>2
<1>6. clientsBuff'[s] = clientsBuff[s] \/ clientsBuff'[s] = <<>>
  BY DEF ClearMap, DeleteBuff, ClearBuff, Types, tables
<1>7. Buffered(s)' \subseteq Buffered(s) /\ Has(s)' \subseteq Has(s)
  BY <1>5, <1>6 DEF Buffered, Has
<1>8. World'
  BY <1>3, <1>4, <1>7, WorldKept DEF Tables
<1>9. ServerTable(s)'
  <2>1. \A i, j \in 1..Len(clientsBuff'[s]) : clientsBuff'[s][i] = clientsBuff'[s][j] => i = j
    BY <1>6 DEF Tables, ServerTable
  <2> QED BY <1>1, <1>5, <2>1 DEF ServerTable, Clearing
<1> QED BY <1>4, <1>7, <1>8, <1>9 DEF Tables

\* EasyTcpServer.hpp:147: accept gives a new client a descriptor nobody has.
LEMMA AcceptStepTables ==
    ASSUME Types, Tables, NEW c \in Clients, NEW f \in Fds, Accept(c, f)
    PROVE  Tables' /\ \A s \in Servers : Has(s)' = Has(s)
<1>1. /\ newClient = NoClient /\ newClient' = c /\ fd[c] = Unborn
      /\ UNCHANGED <<clients, clientsBuff, place, moved, dropped>>
  BY DEF Accept, untouched, Types
<1>2. \A d \in Clients : fd'[d] = IF d = c THEN f ELSE fd[d]
  BY DEF Accept, Types
<1>3. \A s \in Servers : c \notin Has(s) /\ Has(s)' = Has(s)
  BY <1>1 DEF Tables, World, Has, Buffered, JoinedTo, FdSet
<1>4. \A s \in Servers : ServerTable(s)'
  <2> TAKE s \in Servers
  <2>1. \A d \in Has(s) : fd'[d] = fd[d]
    BY <1>2, <1>3, BufferedIs
  <2> QED BY <1>1, <2>1, TableKept DEF Tables
<1>5. \A d \in Clients \ {c} : Open(d)' => Open(d) /\ fd'[d] = fd[d] /\ fd[d] # f
  BY <1>2 DEF Open, Accept
<1>6. (\A d, e \in Clients : Open(d) /\ Open(e) /\ fd[d] = fd[e] => d = e)'
  BY <1>2, <1>5 DEF Tables, World
<1>7. \A s \in Servers : \A d \in Has(s)' : fd'[d] # Unborn
  BY <1>2, <1>3, BufferedIs, ServerConstants DEF Tables, World
<1>8. World'
  <2>1. Open(c)'
    BY <1>2 DEF Open
  <2>2. \A r, s \in Servers : r # s => Has(r)' \cap Has(s)' = {}
    BY <1>3 DEF Tables, World
  <2> QED BY <1>1, <1>3, <1>6, <1>7, <2>1, <2>2 DEF World
<1> QED BY <1>3, <1>4, <1>8 DEF Tables

\* EasyTcpServer.hpp:163-165: the new client goes into one buffer.
LEMMA PlaceStep ==
    ASSUME Types, Tables, Place
    PROVE  Tables' /\ (\E s \in Servers : newClient \in Has(s)') /\ \A s \in Servers : Has(s) \subseteq Has(s)'
<1>1. PICK s \in Servers : s = minServer
  BY DEF Types
<1>2. PICK c \in Clients : c = newClient /\ c # NoClient
  BY DEF Types, Place
<1>3. /\ place[s] # "move" /\ newClient' = NoClient /\ Open(c) /\ \A r \in Servers : c \notin Has(r)
      /\ UNCHANGED <<fd, clients, place, moved, dropped>>
      /\ clientsBuff' = [clientsBuff EXCEPT ![s] = Append(clientsBuff[s], c)]
  BY <1>1, <1>2 DEF Place, addClient, Unlocked, untouched, Tables, World
<1>4. /\ clientsBuff[s] \in Seq(Clients) /\ clientsBuff'[s] = Append(clientsBuff[s], c)
      /\ \A r \in Servers \ {s} : clientsBuff'[r] = clientsBuff[r]
  BY <1>3 DEF Types
<1>5. /\ Len(clientsBuff[s]) \in Nat /\ Len(clientsBuff'[s]) = Len(clientsBuff[s]) + 1
      /\ \A i \in 1..Len(clientsBuff[s]) : clientsBuff'[s][i] = clientsBuff[s][i]
      /\ clientsBuff'[s][Len(clientsBuff[s]) + 1] = c
      /\ DOMAIN clientsBuff'[s] = 1..(Len(clientsBuff[s]) + 1)
      /\ DOMAIN clientsBuff[s] = 1..Len(clientsBuff[s])
  BY <1>4, AppendProperties
<1>6. Buffered(s)' = Buffered(s) \cup {c}
  <2>1. 1..(Len(clientsBuff[s]) + 1) = (1..Len(clientsBuff[s])) \cup {Len(clientsBuff[s]) + 1}
    BY <1>5
  <2> QED BY <1>5, <2>1 DEF Buffered
<1>7. \A r \in Servers : FdSet(r)' = FdSet(r) /\ JoinedTo(r)' = JoinedTo(r)
  BY <1>3 DEF FdSet, JoinedTo
<1>8. Has(s)' = Has(s) \cup {c} /\ \A r \in Servers \ {s} : Has(r)' = Has(r)
  BY <1>4, <1>6, <1>7 DEF Has, Buffered
<1>9. \A r \in Servers \ {s} : ServerTable(r)'
  BY <1>3, <1>4, OthersKept
<1>10. World'
  <2>1. \A q, r \in Servers : q # r => Has(q)' \cap Has(r)' = {}
    BY <1>3, <1>8 DEF Tables, World
  <2>2. \A r \in Servers : \A d \in Has(r)' : fd'[d] # Unborn
    BY <1>3, <1>8, ServerConstants DEF Tables, World, Open
  <2>3. (\A d, e \in Clients : Open(d) /\ Open(e) /\ fd[d] = fd[e] => d = e)'
    BY <1>3 DEF Tables, World, Open
  <2> QED BY <1>3, <2>1, <2>2, <2>3 DEF World
<1>11. ServerTable(s)'
  <2>1. \A i \in 1..Len(clientsBuff[s]) : clientsBuff[s][i] # c
    BY <1>3, <1>5 DEF Has, Buffered
  <2>2. \A i, j \in 1..Len(clientsBuff'[s]) : clientsBuff'[s][i] = clientsBuff'[s][j] => i = j
    <3> TAKE i, j \in 1..Len(clientsBuff'[s])
    <3>1. ASSUME i \in 1..Len(clientsBuff[s]), j \in 1..Len(clientsBuff[s])
          PROVE  clientsBuff'[s][i] = clientsBuff'[s][j] => i = j
      BY <1>5, <3>1 DEF Tables, ServerTable
    <3>2. ASSUME i \in 1..Len(clientsBuff[s]), j = Len(clientsBuff[s]) + 1
          PROVE  clientsBuff'[s][i] # clientsBuff'[s][j]
      BY <1>5, <2>1, <3>2
    <3>3. ASSUME j \in 1..Len(clientsBuff[s]), i = Len(clientsBuff[s]) + 1
          PROVE  clientsBuff'[s][i] # clientsBuff'[s][j]
      BY <1>5, <2>1, <3>3
    <3>4. \A k \in 1..Len(clientsBuff'[s]) :
             k \in 1..Len(clientsBuff[s]) \/ k = Len(clientsBuff[s]) + 1
      BY <1>5
    <3> QED BY <3>1, <3>2, <3>3, <3>4
  <2>3. Buffered(s)' \cap JoinedTo(s)' = {}
    BY <1>3, <1>6, <1>7 DEF Tables, ServerTable, Has
  <2>4. ~Clearing(s) => \A d \in Buffered(s)' : Open(d)
    BY <1>3, <1>6 DEF Tables, ServerTable
  <2> QED BY <1>3, <1>7, <2>2, <2>3, <2>4 DEF Tables, ServerTable, Clearing, Open
<1> QED BY <1>1, <1>2, <1>6, <1>8, <1>9, <1>10, <1>11 DEF Tables

\* Every other step leaves the tables alone.
LEMMA TablesAlone ==
    ASSUME Types, Tables, UNCHANGED <<fd, clients, clientsBuff, dropped, place, moved, newClient>>
    PROVE  Tables'
<1>1. \A s \in Servers : Has(s)' = Has(s)
  BY DEF Has, Buffered, JoinedTo, FdSet
<1>2. World'
  BY <1>1, WorldKept DEF Tables
<1>3. \A s \in Servers : ServerTable(s)'
  BY TableKept DEF Tables
<1> QED BY <1>2, <1>3 DEF Tables

LEMMA TablesInductive == Types /\ Tables /\ [Next]_vars => Types' /\ Tables'
<1> SUFFICES ASSUME Types, Tables, [Next]_vars PROVE Types' /\ Tables'
  OBVIOUS
<1>1. CASE AcceptStep
  <2>1. CASE \E c \in Clients, f \in Fds : Accept(c, f)
    BY <1>1, <2>1, AcceptTypes, AcceptStepTables
  <2>2. CASE Place
    BY <1>1, <2>2, AcceptTypes, PlaceStep
  <2>3. CASE AcceptLoop \/ AcceptNone \/ Compare \/ AcceptFail \/ AcceptExit
    <3>1. UNCHANGED <<fd, clients, clientsBuff, dropped, place, moved, newClient>>
      BY <2>3 DEF AcceptLoop, AcceptNone, Compare, AcceptFail, AcceptExit, untouched
    <3> QED BY <1>1, <3>1, AcceptTypes, TablesAlone
  <2> QED BY <1>1, <2>1, <2>2, <2>3 DEF AcceptStep
<1>2. CASE CallClose \/ CloseStep
  <2>1. UNCHANGED <<fd, clients, clientsBuff, dropped, place, moved, newClient>>
    BY <1>2 DEF CallClose, CloseStep, CloseThread, Join, serverVars, tables, acceptVars
  <2> QED BY <1>2, <2>1, AcceptTypes, TablesAlone
<1>3. ASSUME NEW s \in Servers, ServerAction(s) PROVE Types' /\ Tables'
  <2>1. ServerStep(s) /\ newClient' = newClient
    BY <1>3 DEF ServerAction, acceptVars
  <2>2. CASE Loop(s) \/ Test(s) \/ Lock(s) \/ Select(s) \/ EndPass(s) \/ Exit(s)
    BY <2>1, <2>2, WalkStep, <1>3, ServerTypes
  <2>3. CASE MoveOne(s) \/ MoveEnd(s)
    BY <2>1, <2>3, MoveOneStep, MoveEndStep, <1>3, ServerTypes
  <2>4. CASE \E f \in Fds : DropBySocket(s, f) \/ DropByHeart(s, f)
    <3>1. PICK f \in FdSet(s) : Leave(s, clients[s][f]) /\ place[s] \in {"read", "write", "time"}
      BY <2>4 DEF DropBySocket, DropByHeart
    <3> QED BY <2>1, <3>1, LeaveStep, <1>3, ServerTypes
  <2>5. CASE Erase(s)
    BY <2>1, <2>5, EraseStep, <1>3, ServerTypes
  <2>6. CASE ClearMap(s) \/ DeleteBuff(s) \/ ClearBuff(s)
    BY <2>1, <2>6, ClearStep, <1>3, ServerTypes
  <2> QED BY <2>1, <2>2, <2>3, <2>4, <2>5, <2>6 DEF ServerStep
<1>4. CASE UNCHANGED vars
  <2>1. Types'
    BY <1>4 DEF Types, vars, serverVars, threadVars, tables, acceptVars
  <2>2. Tables'
    BY <1>4, TablesAlone DEF vars, serverVars, tables, acceptVars
  <2> QED BY <2>1, <2>2
<1> QED BY <1>1, <1>2, <1>3, <1>4 DEF Next

\* CELLServer.hpp:51-60,137-164,186-229: the maps and buffers hold what they should
\* (TablesLive), however many servers, clients and descriptors there are, whoever
\* reuses a closed descriptor and when.
THEOREM ServerTablesLive == Spec => []TablesLive
<1>1. Init => Types /\ Tables
  BY InitTypes, InitTables
<1>2. Types /\ Tables /\ [Next]_vars => Types' /\ Tables'
  BY TablesInductive
<1>3. Types /\ Tables => TablesLive
  BY DEF Tables, World, ServerTable, TablesLive, Has
<1> QED BY <1>1, <1>2, <1>3, PTL DEF Spec

------------------------------------------------------------------------------
\* While the copy is not marked as out of date it is the set of the map, outside a
\* transfer and outside a delete, which mark it in time.
Copy(s) ==
    /\ dropped[s] # NoClient => change[s]
    /\ ~Clearing(s) /\ place[s] # "move" /\ dropped[s] = NoClient /\ ~change[s]
          => bak[s] = FdSet(s)

LEMMA CopyKept ==
    ASSUME NEW r \in Servers, Copy(r), UNCHANGED <<clients[r], change[r], bak[r], place[r], dropped[r]>>
    PROVE  Copy(r)'
<1>1. FdSet(r)' = FdSet(r)
  BY DEF FdSet
<1> QED BY <1>1 DEF Copy, Clearing

LEMMA CopyStep ==
    ASSUME Types, Tables, NEW s \in Servers, ServerAction(s), \A r \in Servers : Copy(r)
    PROVE  \A r \in Servers : Copy(r)'
<1> DEFINE Others == \A r \in Servers \ {s} :
                        UNCHANGED <<clients[r], change[r], bak[r], place[r], dropped[r]>>
<1>0. Others => \A r \in Servers \ {s} : Copy(r)'
  BY CopyKept
<1>1. CASE Loop(s) \/ Test(s) \/ Lock(s) \/ EndPass(s) \/ Exit(s)
  <2>1. Others /\ FdSet(s)' = FdSet(s)
        /\ UNCHANGED <<change[s], bak[s], dropped[s]>>
    BY <1>1 DEF Loop, Test, Lock, EndPass, Exit, Goto, Types, tables, FdSet
  <2>2. ~Clearing(s) /\ place[s] # "move"
    BY <1>1 DEF Loop, Test, Lock, EndPass, Exit, Goto, Clearing
  <2> QED BY <1>0, <2>1, <2>2 DEF Copy
<1>2. CASE MoveOne(s)
  <2>1. Others /\ place'[s] = "move" /\ dropped'[s] = dropped[s] /\ dropped[s] = NoClient
    BY <1>2, MoveOneEffect DEF MoveOne, Types
  <2> QED BY <1>0, <2>1 DEF Copy
<1>3. CASE MoveEnd(s)
  <2>1. Others /\ change'[s] = TRUE
    BY <1>3 DEF MoveEnd, Goto, Types
  <2> QED BY <1>0, <2>1 DEF Copy
<1>4. CASE Select(s)
  <2>1. Others /\ FdSet(s)' = FdSet(s) /\ dropped'[s] = NoClient /\ dropped[s] = NoClient
        /\ place[s] = "select"
    <3>1. dropped' = dropped /\ FdSet(s)' = FdSet(s) /\ clients' = clients /\ place[s] = "select"
      BY <1>4 DEF Select, Goto, FdSet
    <3>2. dropped[s] = NoClient
      BY <3>1 DEF Tables, ServerTable
    <3>3. \A r \in Servers \ {s} : UNCHANGED <<change[r], bak[r], place[r]>>
      BY <1>4 DEF Select, Goto, Types
    <3> QED BY <3>1, <3>2, <3>3
  <2>2. CASE UNCHANGED <<change, bak>>
    BY <1>0, <2>1, <2>2 DEF Copy, Clearing
  <2>3. CASE bak' = [bak EXCEPT ![s] = IF change[s] THEN FdSet(s) ELSE @]
    <3>1. bak'[s] = IF change[s] THEN FdSet(s) ELSE bak[s]
      BY <2>3 DEF Types
    <3>2. ~change[s] => bak[s] = FdSet(s)
      BY <2>1 DEF Copy, Clearing
    <3>3. change[s] \in BOOLEAN
      BY DEF Types
    <3>4. bak'[s] = FdSet(s)
      BY <3>1, <3>2, <3>3
    <3> QED BY <1>0, <2>1, <3>4 DEF Copy
  <2> QED BY <1>4, <2>2, <2>3 DEF Select
<1>5. CASE \E f \in Fds : DropBySocket(s, f) \/ DropByHeart(s, f)
  <2>1. Others /\ change'[s] = TRUE
    BY <1>5 DEF DropBySocket, DropByHeart, Leave, Types
  <2> QED BY <1>0, <2>1 DEF Copy
<1>6. CASE Erase(s)
  <2>1. Others /\ change'[s] = change[s] /\ dropped[s] # NoClient /\ change[s]
    BY <1>6 DEF Erase, Types, Copy
  <2> QED BY <1>0, <2>1 DEF Copy
<1>7. CASE ClearMap(s) \/ DeleteBuff(s) \/ ClearBuff(s)
  <2>1. Others
    BY <1>7 DEF ClearMap, DeleteBuff, ClearBuff, Goto, Types, tables
  <2>2. dropped'[s] = dropped[s] /\ change'[s] = change[s]
    BY <1>7 DEF ClearMap, DeleteBuff, ClearBuff, tables
  <2>3. Clearing(s)'
    BY <1>7 DEF ClearMap, DeleteBuff, ClearBuff, Goto, Types, Clearing
  <2> QED BY <1>0, <2>1, <2>2, <2>3 DEF Copy
<1> QED BY <1>1, <1>2, <1>3, <1>4, <1>5, <1>6, <1>7 DEF ServerAction, ServerStep

\* CELLServer.hpp:79-100: whatever comes and goes between two selects, the copy of the
\* descriptor set is that of the clients in the map when the worker reads (BakCurrent).
THEOREM ServerBakCurrent == Spec => []BakCurrent
<1> DEFINE Copies == \A s \in Servers : Copy(s)
<1>1. Init => Types /\ Tables /\ Copies
  <2>1. Init => Copies
    BY DEF Init, ServerInit, Copy
  <2> QED BY <2>1, InitTypes, InitTables
<1>2. Types /\ Tables /\ Copies /\ [Next]_vars => Types' /\ Tables' /\ Copies'
  <2> SUFFICES ASSUME Types, Tables, Copies, [Next]_vars PROVE Copies'
    BY TablesInductive
  <2>1. CASE AcceptStep \/ CallClose \/ CloseStep \/ UNCHANGED vars
    <3>1. UNCHANGED <<clients, change, bak, place, dropped>>
      BY <2>1 DEF AcceptStep, AcceptLoop, AcceptNone, Accept, Compare, Place, AcceptFail, AcceptExit,
                  untouched, CallClose, CloseStep, CloseThread, Join, serverVars, tables, vars
    <3> QED BY <3>1, CopyKept
  <2>2. ASSUME NEW s \in Servers, ServerAction(s) PROVE Copies'
    BY <2>2, CopyStep
  <2> QED BY <2>1, <2>2 DEF Next
<1>3. Copies => BakCurrent
  BY DEF Copy, BakCurrent, Clearing
<1> QED BY <1>1, <1>2, <1>3, PTL DEF Spec

------------------------------------------------------------------------------
\* Close takes the threads in their order and goes on when one has ended; what a
\* thread does at its end it does because Close has told it to, unless a select failed.
Ending == {"clearClients", "deleteBuff", "clearBuff", "done"}

Shutdown ==
    /\ target \in Threads /\ closing \in {"no", "lock", "join", "closed"}
    /\ deleted \subseteq {s \in Servers : s < target \/ (s = target /\ closing = "closed")}
    /\ failed = {} =>
          /\ accepting # "exit" /\ \A s \in Servers : place[s] # "exit"
          /\ accepting = "done" => ~isRun[Acceptor]
          /\ \A s \in Servers : place[s] \in Ending => ~isRun[s]
          /\ \A t \in Threads : t < target => ThreadDone(t)
          /\ \A t \in Threads : t > target => isRun[t]
          /\ closing \in {"no", "lock"} => isRun[target]
          /\ closing = "closed" => ThreadDone(target) /\ (target = NumServers \/ sock = "none")

LEMMA InitShutdown == Init => Shutdown
<1> SUFFICES ASSUME Init PROVE Shutdown
  OBVIOUS
<1>1. \A t \in Threads : t >= 0
  BY ServerConstants DEF Threads
<1> QED BY <1>1, ServersAreThreads DEF Init, ServerInit, Shutdown, Acceptor, Threads, Ending

\* A worker that ends has been told to.
LEMMA WorkerEnds ==
    ASSUME Types, Tables, Shutdown, failed' = {}, NEW s \in Servers, ServerAction(s)
    PROVE  /\ failed = {} /\ isRun' = isRun /\ place'[s] # "exit" /\ place[s] # "done"
           /\ place'[s] \in Ending => ~isRun[s]
           /\ \A r \in Servers \ {s} : place'[r] = place[r]
<1>1. failed = {}
  BY DEF ServerAction, ServerStep, Loop, Test, Lock, MoveOne, MoveEnd, Select, DropBySocket,
         DropByHeart, Leave, Erase, EndPass, Exit, ClearMap, DeleteBuff, ClearBuff, threadVars
<1>2. ~Exit(s)
  BY <1>1 DEF Shutdown, Exit, Goto
<1>3. CASE Loop(s) \/ Test(s) \/ Lock(s) \/ MoveEnd(s) \/ EndPass(s)
  BY <1>1, <1>3 DEF Loop, Test, Lock, MoveEnd, EndPass, Goto, Types, Ending, threadVars
<1>4. CASE Select(s)
  <2>1. isRun' = isRun /\ (Goto(s, "select", "loop") \/ Goto(s, "select", "read"))
    BY <1>4 DEF Select
  <2> QED BY <1>1, <2>1 DEF Goto, Types, Ending
<1>5. CASE ClearMap(s) \/ DeleteBuff(s) \/ ClearBuff(s)
  <2>1. /\ isRun' = isRun /\ place[s] \in {"clearClients", "deleteBuff", "clearBuff"}
        /\ place'[s] # "exit" /\ \A r \in Servers \ {s} : place'[r] = place[r]
    BY <1>5 DEF ClearMap, DeleteBuff, ClearBuff, Goto, Types, threadVars
  <2> QED BY <1>1, <2>1 DEF Shutdown, Ending
<1>6. CASE MoveOne(s) \/ Erase(s) \/ \E f \in Fds : DropBySocket(s, f) \/ DropByHeart(s, f)
  <2>1. isRun' = isRun /\ place' = place
    BY <1>6 DEF MoveOne, Erase, DropBySocket, DropByHeart, Leave, threadVars
  <2>2. place[s] # "done"
    <3>1. CASE MoveOne(s)
      BY <3>1 DEF MoveOne
    <3>2. CASE Erase(s)
      BY <3>2 DEF Erase, Tables, ServerTable
    <3>3. CASE \E f \in Fds : DropBySocket(s, f) \/ DropByHeart(s, f)
      BY <3>3 DEF DropBySocket, DropByHeart
    <3> QED BY <1>6, <3>1, <3>2, <3>3
  <2> QED BY <1>1, <2>1, <2>2 DEF Shutdown, Ending
<1> QED BY <1>2, <1>3, <1>4, <1>5, <1>6 DEF ServerAction, ServerStep

LEMMA ServerShutdown ==
    ASSUME Types, Tables, Shutdown, NEW s \in Servers, ServerAction(s)
    PROVE  Shutdown'
<1>1. UNCHANGED <<accepting, closing, target, deleted, sock>>
  BY DEF ServerAction, acceptVars, closeVars
<1>2. ASSUME failed' = {}
      PROVE  /\ failed = {} /\ isRun' = isRun
             /\ \A r \in Servers : place'[r] # "exit" /\ (place'[r] \in Ending => ~isRun[r])
             /\ \A t \in Threads : ThreadDone(t) => ThreadDone(t)'
  <2>1. /\ failed = {} /\ isRun' = isRun /\ place'[s] # "exit" /\ place[s] # "done"
        /\ place'[s] \in Ending => ~isRun[s]
        /\ \A r \in Servers \ {s} : place'[r] = place[r]
    BY <1>2, WorkerEnds
  <2>2. \A r \in Servers : place'[r] # "exit" /\ (place'[r] \in Ending => ~isRun[r])
    BY <2>1 DEF Shutdown
  <2>3. \A t \in Threads : t = Acceptor \/ t \in Servers
    BY ServerConstants DEF Threads, Servers, Acceptor
  <2>4. \A t \in Threads : ThreadDone(t) => ThreadDone(t)'
    BY <1>1, <2>1, <2>3 DEF ThreadDone
  <2> QED BY <2>1, <2>2, <2>4
<1>3. target \in Threads /\ (ThreadDone(target) /\ failed' = {} => ThreadDone(target)')
  BY <1>1, <1>2 DEF Shutdown, ThreadDone
<1> QED BY <1>1, <1>2, <1>3 DEF Shutdown

LEMMA AcceptShutdown == Types /\ Shutdown /\ AcceptStep => Shutdown'
<1> SUFFICES ASSUME Types, Shutdown, AcceptStep PROVE Shutdown'
  OBVIOUS
<1>1. UNCHANGED <<closing, target, deleted, sock, place>>
  BY DEF AcceptStep, AcceptLoop, AcceptNone, Accept, Compare, Place, AcceptFail, AcceptExit,
         untouched, closeVars
<1>2. accepting # "done"
  BY DEF AcceptStep, AcceptLoop, AcceptNone, Accept, Compare, Place, AcceptFail, AcceptExit
<1>3. ASSUME failed' = {}
      PROVE  failed = {} /\ isRun' = isRun /\ accepting' # "exit" /\ (accepting' = "done" => ~isRun[Acceptor])
  <2>1. failed = {}
    BY <1>3 DEF AcceptStep, AcceptLoop, AcceptNone, Accept, Compare, Place, AcceptFail, AcceptExit,
                threadVars
  <2>2. AcceptLoop \/ AcceptNone \/ Compare \/ Place \/ \E c \in Clients, f \in Fds : Accept(c, f)
    BY <1>3, <2>1 DEF AcceptStep, AcceptFail, AcceptExit, Shutdown
  <2>3. accepting' # "exit" /\ (accepting' = "done" => ~isRun[Acceptor])
    BY <2>1, <2>2 DEF AcceptLoop, AcceptNone, Accept, Compare, Place, Shutdown
  <2>4. isRun' = isRun
    BY <2>2 DEF AcceptLoop, AcceptNone, Accept, Compare, Place, threadVars
  <2> QED BY <2>1, <2>3, <2>4
<1>4. \A t \in Threads : ThreadDone(t) => ThreadDone(t)'
  BY <1>1, <1>2 DEF ThreadDone
<1>5. target \in Threads /\ (ThreadDone(target) => ThreadDone(target)')
  BY <1>1, <1>4 DEF Shutdown, ThreadDone
<1> QED BY <1>1, <1>3, <1>4, <1>5 DEF Shutdown

\* Close goes from one thread to the next when the flag of the one is down, which it
\* has put down itself, and the thread has ended.
LEMMA CloseShutdown == Types /\ Shutdown /\ (CallClose \/ CloseStep) => Shutdown'
<1> SUFFICES ASSUME Types, Shutdown, CallClose \/ CloseStep PROVE Shutdown'
  OBVIOUS
<1>1. UNCHANGED <<failed, place, accepting, sock>>
  BY DEF CallClose, CloseStep, CloseThread, Join, serverVars, threadVars, acceptVars
<1>2. \A t \in Threads : ThreadDone(t)' <=> ThreadDone(t)
  BY <1>1 DEF ThreadDone
<1>3. target \in Int /\ NumServers \in Nat /\ Threads = 0..NumServers /\ Servers = 1..NumServers
  BY ServerConstants DEF Shutdown, Threads, Servers
<1>4. CASE CallClose
  <2>1. UNCHANGED <<isRun, target, deleted>> /\ closing = "no" /\ closing' = "lock"
    BY <1>4 DEF CallClose, serverVars, threadVars
  <2> QED BY <1>1, <1>2, <2>1 DEF Shutdown
<1>5. CASE CloseThread /\ isRun[target]
  <2>1. /\ UNCHANGED <<target, deleted>> /\ closing = "lock" /\ closing' = "join"
        /\ isRun' = [isRun EXCEPT ![target] = FALSE]
    BY <1>5 DEF CloseThread
  <2>2. \A t \in Threads : t # target => (isRun'[t] <=> isRun[t])
    BY <2>1 DEF Types
  <2>3. \A t \in Threads : t > target => t # target
    BY <1>3
  <2>4. ~isRun'[target]
    BY <2>1 DEF Types, Shutdown
  <2>5. \A t \in Threads : ~isRun[t] => ~isRun'[t]
    BY <2>2, <2>4
  <2> QED BY <1>1, <1>2, <2>1, <2>2, <2>3, <2>5, ServersAreThreads DEF Shutdown
<1>6. ASSUME isRun' = isRun, Advance, closing \in {"lock", "join"}, failed = {} => ThreadDone(target)
      PROVE  Shutdown'
  <2>1. CASE target = NumServers \/ sock = "none"
    <3>1. target' = target /\ closing' = "closed"
      BY <1>6, <2>1 DEF Advance
    <3>2. deleted' \subseteq {s \in Servers : s <= target}
      BY <1>3, <1>6 DEF Advance, Shutdown, Acceptor
    <3>3. ThreadDone(target)' <=> ThreadDone(target)
      BY <1>2, <3>1 DEF Shutdown
    <3> QED BY <1>1, <1>2, <1>3, <1>6, <2>1, <3>1, <3>2, <3>3 DEF Shutdown
  <2>2. CASE ~(target = NumServers \/ sock = "none")
    <3>1. target' = target + 1 /\ closing' = "lock"
      BY <1>6, <2>2 DEF Advance
    <3>2. target' \in Threads
      BY <1>3, <2>2, <3>1 DEF Shutdown
    <3>3. deleted' \subseteq {s \in Servers : s <= target}
      BY <1>3, <1>6 DEF Advance, Shutdown, Acceptor
    <3>4. failed = {} => isRun[target'] /\ (\A t \in Threads : t < target' => ThreadDone(t))
                         /\ (\A t \in Threads : t > target' => isRun[t])
      BY <1>3, <1>6, <3>1, <3>2 DEF Shutdown
    <3> QED BY <1>1, <1>2, <1>3, <1>6, <3>1, <3>2, <3>3, <3>4 DEF Shutdown
  <2> QED BY <2>1, <2>2
<1>7. CASE CloseThread /\ ~isRun[target]
  <2>1. isRun' = isRun /\ Advance /\ closing = "lock"
    BY <1>7 DEF CloseThread
  <2>2. failed # {}
    BY <1>7, <2>1 DEF Shutdown
  <2> QED BY <1>6, <2>1, <2>2
<1>8. CASE Join
  BY <1>6, <1>8 DEF Join
<1> QED BY <1>4, <1>5, <1>7, <1>8 DEF CloseStep

LEMMA ShutdownStep == Types /\ Tables /\ Shutdown /\ [Next]_vars => Shutdown'
<1> SUFFICES ASSUME Types, Tables, Shutdown, [Next]_vars PROVE Shutdown'
  OBVIOUS
<1>1. CASE UNCHANGED vars
  BY <1>1 DEF vars, serverVars, threadVars, acceptVars, closeVars, Shutdown, ThreadDone
<1> QED BY <1>1, AcceptShutdown, CloseShutdown, ServerShutdown DEF Next

\* EasyTcpServer.hpp:176-183: Close deletes a server after its worker has ended and after
\* the accept thread, which places clients, has (NoUseAfterDelete), for any number of
\* servers.
THEOREM ServerNoUseAfterDelete == Spec => []NoUseAfterDelete
<1>1. Init => Types /\ Tables /\ Shutdown
  BY InitTypes, InitTables, InitShutdown
<1>2. Types /\ Tables /\ Shutdown /\ [Next]_vars => Types' /\ Tables' /\ Shutdown'
  BY TablesInductive, ShutdownStep
<1>3. Shutdown => NoUseAfterDelete
  <2> SUFFICES ASSUME Shutdown, failed = {}, NEW s \in deleted
               PROVE  place[s] = "done" /\ accepting = "done"
    BY DEF NoUseAfterDelete
  <2>1. s \in Servers /\ (s < target \/ (s = target /\ closing = "closed")) /\ target \in Threads
    BY DEF Shutdown
  <2>2. s \in Int /\ s > 0 /\ target \in Int /\ 0 \in Threads /\ Acceptor = 0 /\ s \in Threads
    BY <2>1, ServerConstants DEF Servers, Threads, Acceptor
  <2>3. ThreadDone(s) /\ ThreadDone(0)
    BY <2>1, <2>2 DEF Shutdown
  <2> QED BY <2>2, <2>3 DEF ThreadDone
<1> QED BY <1>1, <1>2, <1>3, PTL DEF Spec

\* A buffer whose clients have been deleted gets no more of them.
Emptied == {"clearBuff", "done"}

Kept ==
    /\ NoneForgotten
    /\ failed = {} => \A s \in Servers : place[s] \in Emptied =>
                          \A c \in Buffered(s) : ~Open(c)
    /\ sock # "listening" => \A c \in Clients : ~Open(c)

LEMMA InitKept == Init => Kept
<1> SUFFICES ASSUME Init PROVE Kept
  OBVIOUS
<1>1. \A c \in Clients : ~Open(c)
  BY ServerConstants DEF Init, ServerInit, Open
<1>2. \A s \in Servers : place[s] \notin Emptied
  BY DEF Init, ServerInit, Emptied
<1> QED BY <1>1, <1>2 DEF Kept, NoneForgotten

\* A step keeps what it must if every client that stays open stays where it is.
LEMMA KeptFrom ==
    ASSUME Types, Kept, newClient' = newClient, sock' = sock, failed' = {} => failed = {},
           \A c \in Clients : Open(c)' => Open(c),
           failed' = {} => \A r \in Servers : \A c \in Has(r) : Open(c)' => c \in Has(r)',
           failed' = {} => \A r \in Servers : place'[r] \in Emptied =>
              \/ place[r] \in Emptied /\ Buffered(r)' \subseteq Buffered(r)
              \/ \A c \in Buffered(r)' : ~Open(c)'
    PROVE  Kept'
<1>1. NoneForgotten'
  <2> SUFFICES ASSUME failed' = {}, NEW c \in Clients, Open(c)'
               PROVE  c = newClient' \/ \E r \in Servers : c \in Has(r)'
    BY DEF NoneForgotten, Has
  <2>1. c = newClient \/ \E r \in Servers : c \in Has(r)
    BY DEF Kept, NoneForgotten, Has
  <2> QED BY <2>1
<1>2. failed' = {} => \A r \in Servers : place'[r] \in Emptied => \A c \in Buffered(r)' : ~Open(c)'
  BY BufferedIs DEF Kept, Emptied
<1>3. sock' # "listening" => \A c \in Clients : ~Open(c)'
  BY DEF Kept
<1> QED BY <1>1, <1>2, <1>3 DEF Kept, Emptied

LEMMA ServerKept ==
    ASSUME Types, Tables, Kept, NEW s \in Servers, ServerAction(s)
    PROVE  Kept'
<1>1. newClient' = newClient /\ sock' = sock /\ (failed' = {} => failed = {})
  BY DEF ServerAction, acceptVars, closeVars, ServerStep, Loop, Test, Lock, MoveOne, MoveEnd,
         Select, DropBySocket, DropByHeart, Leave, Erase, EndPass, Exit, ClearMap, DeleteBuff,
         ClearBuff, threadVars
<1>2. CASE Loop(s) \/ Test(s) \/ Lock(s) \/ Select(s) \/ EndPass(s) \/ Exit(s)
  <2>1. \A r \in Servers : Has(r)' = Has(r)
    BY <1>1, <1>2, WalkStep
  <2>2. UNCHANGED <<fd, clientsBuff>>
    BY <1>2 DEF Loop, Test, Lock, Select, EndPass, Exit, tables
  <2>3. \A r \in Servers : place'[r] \in Emptied => place[r] \in Emptied
    BY <1>2 DEF Loop, Test, Lock, Select, EndPass, Exit, Goto, Types, Emptied
  <2> QED BY <1>1, <2>1, <2>2, <2>3, KeptFrom DEF Open, Buffered
<1>3. CASE MoveOne(s)
  <2>1. \A r \in Servers : Has(r)' = Has(r)
    BY <1>1, <1>3, MoveOneStep
  <2>2. UNCHANGED <<fd, clientsBuff, place>>
    BY <1>3 DEF MoveOne
  <2> QED BY <1>1, <2>1, <2>2, KeptFrom DEF Open, Buffered
<1>4. CASE MoveEnd(s)
  <2>1. \A r \in Servers : Has(r) \subseteq Has(r)'
    BY <1>1, <1>4, MoveEndStep DEF Has
  <2>2. fd' = fd /\ \A r \in Servers : place'[r] \in Emptied =>
                      place[r] \in Emptied /\ Buffered(r)' = Buffered(r)
    BY <1>4 DEF MoveEnd, Goto, Types, Emptied, Buffered
  <2> QED BY <1>1, <2>1, <2>2, KeptFrom DEF Open
<1>5. CASE \E f \in Fds : DropBySocket(s, f) \/ DropByHeart(s, f)
  <2>1. PICK f \in FdSet(s) : Leave(s, clients[s][f]) /\ place[s] \in {"read", "write", "time"}
    BY <1>5 DEF DropBySocket, DropByHeart
  <2>2. \A r \in Servers : Has(r)' = Has(r)
    BY <1>1, <2>1, LeaveStep
  <2>3. UNCHANGED <<clientsBuff, place>> /\ \A c \in Clients : fd'[c] = fd[c] \/ fd'[c] = Deleted
    BY <2>1 DEF Leave, Types
  <2>4. \A c \in Clients : Open(c)' => Open(c)
    BY <2>3, ServerConstants DEF Open
  <2> QED BY <1>1, <2>2, <2>3, <2>4, KeptFrom DEF Buffered
<1>6. CASE Erase(s)
  <2>1. /\ JoinedTo(s)' = JoinedTo(s) \ {dropped[s]}
        /\ \A r \in Servers \ {s} : Has(r)' = Has(r)
    BY <1>1, <1>6, EraseStep
  <2>2. fd[dropped[s]] = Deleted /\ UNCHANGED <<fd, clientsBuff, place>>
    BY <1>6 DEF Erase, Tables, ServerTable
  <2>3. Buffered(s)' = Buffered(s)
    BY <2>2 DEF Buffered
  <2>4. \A c \in Has(s) : Open(c)' => c \in Has(s)'
    BY <2>1, <2>2, <2>3, ServerConstants DEF Has, Open
  <2> QED BY <1>1, <2>1, <2>2, <2>4, KeptFrom DEF Open, Buffered
<1>7. CASE ClearMap(s) \/ DeleteBuff(s) \/ ClearBuff(s)
  <2>1. \A r \in Servers \ {s} : Has(r)' = Has(r)
    BY <1>1, <1>7, ClearStep
  <2>2. \A r \in Servers \ {s} : place'[r] = place[r] /\ Buffered(r)' = Buffered(r)
    BY <1>7 DEF ClearMap, DeleteBuff, ClearBuff, Goto, Types, tables, Buffered
  <2>3. \A c \in Clients : Open(c)' => Open(c)
    BY <1>7, ServerConstants DEF ClearMap, DeleteBuff, ClearBuff, DeleteAll, Types, Open
  <2>4. Has(s) \subseteq Clients
    BY BufferedIs
  <2>5. CASE ClearMap(s)
    <3>1. \A c \in JoinedTo(s) : ~Open(c)'
      BY <2>4, <2>5, ServerConstants DEF ClearMap, DeleteAll, Open, Has
    <3>2. Buffered(s)' = Buffered(s) /\ place'[s] \notin Emptied
      BY <2>5 DEF ClearMap, Goto, Types, Buffered, Emptied
    <3>3. \A c \in Has(s) : Open(c)' => c \in Has(s)'
      BY <3>1, <3>2 DEF Has
    <3> QED BY <1>1, <2>1, <2>2, <2>3, <3>2, <3>3, KeptFrom
  <2>6. CASE DeleteBuff(s)
    <3>1. \A c \in Buffered(s) : ~Open(c)'
      BY <2>4, <2>6, ServerConstants DEF DeleteBuff, DeleteAll, Open, Has
    <3>2. Buffered(s)' = Buffered(s) /\ JoinedTo(s)' = JoinedTo(s)
      BY <2>6 DEF DeleteBuff, tables, Buffered, JoinedTo, FdSet
    <3>3. \A c \in Has(s) : Open(c)' => c \in Has(s)'
      BY <3>2 DEF Has
    <3> QED BY <1>1, <2>1, <2>2, <2>3, <3>1, <3>2, <3>3, KeptFrom
  <2>7. CASE ClearBuff(s)
    <3>1. /\ JoinedTo(s)' = JoinedTo(s) /\ Buffered(s)' = {} /\ place[s] \in Emptied
          /\ fd' = fd
      BY <2>7 DEF ClearBuff, Goto, Types, Buffered, JoinedTo, FdSet, Emptied
    <3>2. failed = {} => \A c \in Buffered(s) : ~Open(c)
      BY <3>1 DEF Kept, Emptied
    <3>3. failed = {} => \A c \in Has(s) : Open(c)' => c \in Has(s)'
      BY <3>1, <3>2 DEF Has, Open
    <3>4. failed' = {} => \A r \in Servers : \A c \in Has(r) : Open(c)' => c \in Has(r)'
      BY <1>1, <2>1, <3>3
    <3> QED BY <1>1, <2>2, <2>3, <3>1, <3>4, KeptFrom
  <2> QED BY <1>7, <2>5, <2>6, <2>7
<1> QED BY <1>2, <1>3, <1>4, <1>5, <1>6, <1>7 DEF ServerAction, ServerStep

LEMMA AcceptKept ==
    ASSUME Types, Tables, Shutdown, Kept, AcceptStep
    PROVE  Kept'
<1>1. sock' = sock /\ place' = place /\ (failed' = {} => failed = {})
  BY DEF AcceptStep, AcceptLoop, AcceptNone, Accept, Compare, Place, AcceptFail, AcceptExit,
         untouched, closeVars, threadVars
<1>2. ASSUME NEW c \in Clients, NEW f \in Fds, Accept(c, f) PROVE Kept'
  <2>1. /\ newClient = NoClient /\ newClient' = c /\ sock = "listening" /\ clientsBuff' = clientsBuff
        /\ fd[c] = Unborn
    BY <1>2 DEF Accept, untouched, Types
  <2>2. \A d \in Clients \ {c} : fd'[d] = fd[d]
    BY <1>2 DEF Accept, Types
  <2>3. \A s \in Servers : c \notin Has(s) /\ Has(s)' = Has(s) /\ Buffered(s)' = Buffered(s)
    BY <1>2, <2>1, AcceptStepTables DEF Tables, World, Buffered
  <2>4. NoneForgotten'
    <3> SUFFICES ASSUME failed' = {}, NEW d \in Clients, Open(d)', d # c
                 PROVE  \E r \in Servers : d \in Has(r)'
      BY <2>1 DEF NoneForgotten, Has
    <3>1. Open(d) /\ d # NoClient
      BY <2>2, ServerConstants DEF Open
    <3>2. \E r \in Servers : d \in Has(r)
      BY <1>1, <2>1, <3>1 DEF Kept, NoneForgotten, Has
    <3> QED BY <2>3, <3>2
  <2>5. failed' = {} => \A s \in Servers : place'[s] \in Emptied => \A d \in Buffered(s)' : ~Open(d)'
    <3>1. \A s \in Servers : \A d \in Buffered(s) : d \in Clients \ {c}
      BY <2>3, BufferedIs DEF Has
    <3> QED BY <1>1, <2>2, <2>3, <3>1 DEF Kept, Emptied, Open
  <2> QED BY <1>1, <2>1, <2>4, <2>5 DEF Kept, Emptied
<1>3. CASE Place
  <2>1. /\ fd' = fd /\ accepting = "place" /\ newClient' = NoClient /\ minServer \in Servers
        /\ \A s \in Servers \ {minServer} : clientsBuff'[s] = clientsBuff[s]
    BY <1>3 DEF Place, addClient, Types
  <2>2. (\E s \in Servers : newClient \in Has(s)') /\ \A s \in Servers : Has(s) \subseteq Has(s)'
    BY <1>3, PlaceStep
  <2>3. failed = {} => place[minServer] \notin Emptied
    <3>1. minServer \in Threads /\ Acceptor \in Threads /\ Acceptor = 0 /\ minServer \in Int
          /\ minServer > 0 /\ target \in Int
      BY <2>1, ServerConstants DEF Servers, Threads, Acceptor, Shutdown
    <3>2. failed = {} => ~(0 < target)
      BY <2>1, <3>1 DEF Shutdown, ThreadDone
    <3>3. failed = {} => isRun[minServer]
      BY <3>1, <3>2 DEF Shutdown
    <3> QED BY <2>1, <3>3 DEF Shutdown, Ending, Emptied
  <2>4. NoneForgotten'
    BY <1>1, <2>1, <2>2 DEF Kept, NoneForgotten, Has, Open
  <2>5. failed' = {} => \A s \in Servers : place'[s] \in Emptied => \A d \in Buffered(s)' : ~Open(d)'
    <3>1. \A s \in Servers \ {minServer} : Buffered(s)' = Buffered(s)
      BY <2>1 DEF Buffered
    <3> QED BY <1>1, <2>1, <2>3, <3>1 DEF Kept, Emptied, Open
  <2> QED BY <1>1, <2>1, <2>4, <2>5 DEF Kept, Emptied, Open
<1>4. CASE AcceptLoop \/ AcceptNone \/ Compare \/ AcceptFail \/ AcceptExit
  <2>1. UNCHANGED <<fd, clients, clientsBuff, newClient>>
    BY <1>4 DEF AcceptLoop, AcceptNone, Compare, AcceptFail, AcceptExit, untouched
  <2> QED BY <1>1, <2>1, KeptFrom DEF Open, Has, Buffered, JoinedTo, FdSet
<1> QED BY <1>2, <1>3, <1>4 DEF AcceptStep

LEMMA KeptStep == Types /\ Tables /\ Shutdown /\ Kept /\ [Next]_vars => Kept'
<1> SUFFICES ASSUME Types, Tables, Shutdown, Kept, [Next]_vars PROVE Kept'
  OBVIOUS
<1>1. CASE CallClose \/ CloseStep \/ UNCHANGED vars
  <2>1. UNCHANGED <<fd, clients, clientsBuff, newClient, sock, place, failed>>
    BY <1>1 DEF CallClose, CloseStep, CloseThread, Join, vars, serverVars, threadVars, tables,
                acceptVars, closeVars
  <2> QED BY <2>1, KeptFrom DEF Open, Has, Buffered, JoinedTo, FdSet
<1> QED BY <1>1, AcceptKept, ServerKept DEF Next

LEMMA KeptInvariant == Spec => [](Types /\ Tables /\ Shutdown /\ Kept)
<1>1. Init => Types /\ Tables /\ Shutdown /\ Kept
  BY InitTypes, InitTables, InitShutdown, InitKept
<1>2. Types /\ Tables /\ Shutdown /\ Kept /\ [Next]_vars => (Types /\ Tables /\ Shutdown /\ Kept)'
  BY TablesInductive, ShutdownStep, KeptStep
<1> QED BY <1>1, <1>2, PTL DEF Spec

\* EasyTcpServer.hpp:118-154, CELLServer.hpp:51-59: while no select has failed, an open
\* client is being placed or is in a buffer or a map (NoneForgotten).
THEOREM ServerNoneForgotten == Spec => []NoneForgotten
<1>1. Types /\ Tables /\ Shutdown /\ Kept => NoneForgotten
  BY DEF Kept
<1> QED BY <1>1, KeptInvariant, PTL

\* EasyTcpServer.hpp:173-193, CELLServer.hpp:300-313: when Close has returned and no select
\* has failed, every accepted socket is closed (CloseReleases).
THEOREM ServerCloseReleases == Spec => []CloseReleases
<1>1. Types /\ Tables /\ Shutdown /\ Kept => CloseReleases
  <2> SUFFICES ASSUME Types, Tables, Shutdown, Kept, closing = "closed", failed = {},
                      NEW c \in Clients, Open(c)
               PROVE  FALSE
    BY DEF CloseReleases
  <2>1. target = NumServers /\ NumServers \in Nat \ {0} /\ NumServers \in Threads
    BY ServerConstants DEF Shutdown, Kept, Threads
  <2>2. \A t \in Threads : ThreadDone(t)
    BY <2>1 DEF Shutdown, Threads
  <2>3. accepting = "done" /\ \A s \in Servers : place[s] = "done"
    BY <2>2, ServersAreThreads DEF ThreadDone
  <2>4. newClient = NoClient
    BY <2>3 DEF Types
  <2>5. PICK s \in Servers : c \in Buffered(s) \cup JoinedTo(s)
    BY <2>4, ServerConstants DEF Kept, NoneForgotten
  <2>6. JoinedTo(s) = {}
    BY <2>3 DEF Tables, ServerTable, Clearing, JoinedTo
  <2> QED BY <2>3, <2>5, <2>6 DEF Kept, Emptied
<1> QED BY <1>1, KeptInvariant, PTL

------------------------------------------------------------------------------
\* The counter, until a worker clears its map.
Counted ==
    (\A s \in Servers : ~Clearing(s)) =>
        IsFiniteSet(Present) /\ clientCount = Cardinality(Present)

LEMMA PresentIs == \A c : c \in Present <=> \E s \in Servers : c \in JoinedTo(s) /\ c # dropped[s]
  BY DEF Present

LEMMA CountedAlone ==
    ASSUME Counted, clientCount' = clientCount, \A s \in Servers : Clearing(s) => Clearing(s)',
           \A c : c \in Present' <=> c \in Present
    PROVE  Counted'
<1>1. Present' = Present
  OBVIOUS
<1> QED BY <1>1 DEF Counted

LEMMA ServerCounted ==
    ASSUME Types, Tables, Counted, NEW s \in Servers, ServerAction(s)
    PROVE  Counted'
<1>0. newClient' = newClient
  BY DEF ServerAction, acceptVars
<1>1. CASE Loop(s) \/ Test(s) \/ Lock(s) \/ Select(s) \/ EndPass(s) \/ Exit(s) \/ MoveEnd(s)
  <2>1. UNCHANGED <<clients, dropped, clientCount>>
    BY <1>1 DEF Loop, Test, Lock, Select, EndPass, Exit, MoveEnd, tables
  <2>2. \A r \in Servers : Clearing(r) => Clearing(r)'
    BY <1>1 DEF Loop, Test, Lock, Select, EndPass, Exit, MoveEnd, Goto, Types, Clearing
  <2> QED BY <2>1, <2>2, CountedAlone DEF Present, JoinedTo, FdSet
<1>2. CASE MoveOne(s)
  <2>1. PICK c \in Buffered(s) :
           /\ c \in Clients /\ c \notin JoinedTo(s) /\ JoinedTo(s)' = JoinedTo(s) \cup {c}
           /\ dropped[s] = NoClient /\ clients' = [clients EXCEPT ![s][fd[c]] = c]
    BY <1>2, MoveOneEffect
  <2>2. UNCHANGED <<place, dropped>> /\ clientCount' = clientCount + 1
    BY <1>2 DEF MoveOne, OnNetJoin
  <2>3. \A r \in Servers \ {s} : JoinedTo(r)' = JoinedTo(r) /\ c \notin JoinedTo(r)
    <3>1. \A r \in Servers \ {s} : c \notin JoinedTo(r)
      BY <2>1 DEF Tables, World, Has
    <3>2. \A r \in Servers \ {s} : clients'[r] = clients[r]
      BY <2>1 DEF Types
    <3> QED BY <3>1, <3>2 DEF JoinedTo, FdSet
  <2>4. c # NoClient
    BY <2>1, ServerConstants
  <2>5. c \notin Present
    BY <2>1, <2>3, PresentIs
  <2>6. \A d : d \in Present' <=> d \in Present \cup {c}
    <3>1. \A d : d \in Present' <=> \E r \in Servers : d \in JoinedTo(r)' /\ d # dropped[r]
      BY <2>2 DEF Present
    <3> QED BY <2>1, <2>3, <2>4, <3>1, PresentIs
  <2>7. Present' = Present \cup {c}
    BY <2>6
  <2> QED BY <2>2, <2>5, <2>7, FS_AddElement DEF Counted, Clearing
<1>3. CASE \E f \in Fds : DropBySocket(s, f) \/ DropByHeart(s, f)
  <2>1. PICK f \in FdSet(s) : Leave(s, clients[s][f])
    BY <1>3 DEF DropBySocket, DropByHeart
  <2>2. PICK c \in JoinedTo(s) : c = clients[s][f] /\ c \in Clients
    BY <2>1, BufferedIs DEF JoinedTo
  <2>3. /\ UNCHANGED <<place, clients>> /\ clientCount' = clientCount - 1 /\ dropped[s] = NoClient
        /\ dropped' = [dropped EXCEPT ![s] = c]
    BY <2>1, <2>2 DEF Leave, OnNetLeave
  <2>4. \A r \in Servers \ {s} : c \notin JoinedTo(r) /\ dropped'[r] = dropped[r]
    BY <2>2, <2>3 DEF Tables, World, Has, Types
  <2>5. c \in Present /\ dropped'[s] = c
    BY <2>2, <2>3, PresentIs, ServerConstants DEF Types
  <2>6. \A d : d \in Present' <=> d \in Present \ {c}
    <3>1. \A d : d \in Present' <=> \E r \in Servers : d \in JoinedTo(r) /\ d # dropped'[r]
      BY <2>3 DEF Present, JoinedTo, FdSet
    <3>2. NoClient \notin JoinedTo(s)
      BY DEF JoinedTo, FdSet
    <3> QED BY <2>2, <2>3, <2>4, <2>5, <3>1, <3>2, PresentIs
  <2>7. Present' = Present \ {c}
    BY <2>6
  <2> QED BY <2>3, <2>5, <2>7, FS_RemoveElement DEF Counted, Clearing
<1>4. CASE Erase(s)
  <2>1. JoinedTo(s)' = JoinedTo(s) \ {dropped[s]}
    BY <1>0, <1>4, EraseStep
  <2>2. /\ UNCHANGED <<place, clientCount>> /\ dropped'[s] = NoClient
        /\ \A r \in Servers \ {s} : clients'[r] = clients[r] /\ dropped'[r] = dropped[r]
    BY <1>4 DEF Erase, Types
  <2>3. \A r \in Servers \ {s} : JoinedTo(r)' = JoinedTo(r)
    BY <2>2 DEF JoinedTo, FdSet
  <2>4. NoClient \notin JoinedTo(s)
    BY DEF JoinedTo, FdSet
  <2>5. \A d : d \in Present' <=> d \in Present
    <3>1. \A d : d \in Present' <=> \E r \in Servers : d \in JoinedTo(r)' /\ d # dropped'[r]
      BY DEF Present
    <3> QED BY <2>1, <2>2, <2>3, <2>4, <3>1, PresentIs
  <2> QED BY <2>2, <2>5, CountedAlone DEF Clearing
<1>5. CASE ClearMap(s) \/ DeleteBuff(s) \/ ClearBuff(s)
  <2>1. Clearing(s)'
    BY <1>5 DEF ClearMap, DeleteBuff, ClearBuff, Goto, Types, Clearing
  <2> QED BY <2>1 DEF Counted
<1> QED BY <1>1, <1>2, <1>3, <1>4, <1>5 DEF ServerAction, ServerStep

\* EasyTcpServer.hpp:197-208: clientCount, which all workers change, is the number of
\* clients in the maps (CountJoined), for any number of them.
THEOREM ServerCountJoined == Spec => []CountJoined
<1>1. Init => Types /\ Tables /\ Counted
  <2> SUFFICES ASSUME Init PROVE Counted
    BY InitTypes, InitTables
  <2>1. \A s \in Servers : JoinedTo(s) = {}
    BY DEF Init, ServerInit, JoinedTo, FdSet
  <2>2. Present = {} /\ clientCount = 0
    BY <2>1 DEF Present, Init, ServerInit
  <2> QED BY <2>2, FS_EmptySet DEF Counted
<1>2. Types /\ Tables /\ Counted /\ [Next]_vars => Types' /\ Tables' /\ Counted'
  <2> SUFFICES ASSUME Types, Tables, Counted, [Next]_vars PROVE Counted'
    BY TablesInductive
  <2>1. CASE AcceptStep \/ CallClose \/ CloseStep \/ UNCHANGED vars
    <3>1. UNCHANGED <<clients, place, dropped, clientCount>>
      BY <2>1 DEF AcceptStep, AcceptLoop, AcceptNone, Accept, Compare, Place, AcceptFail, AcceptExit,
                  untouched, CallClose, CloseStep, CloseThread, Join, serverVars, tables, vars
    <3> QED BY <3>1, CountedAlone DEF Present, JoinedTo, FdSet, Clearing
  <2> QED BY <2>1, ServerCounted DEF Next
<1>3. Counted => CountJoined
  BY DEF Counted, CountJoined
<1> QED BY <1>1, <1>2, <1>3, PTL DEF Spec
=============================================================================
