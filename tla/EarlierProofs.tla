----------------------------- MODULE EarlierProofs -----------------------------
(***************************************************************************)
(* The earlier server with its test program, for any number of servers,    *)
(* threads and clients and any pieces a stream comes in: where a client    *)
(* is, from its connection to the map of one server; what a waiting worker *)
(* watches; the counter that main and the workers change; and the streams. *)
(***************************************************************************)
EXTENDS EarlierClient, FiniteSetTheorems, TLAPS

Places == {"loop", "move", "select", "wait", "read", "close", "closeSock", "done"}

MainTypes ==
    /\ main \in {"loop", "place", "join", "closed"}
    /\ newClient \in Clients \cup {NoClient}
    /\ main = "place" => newClient \in Clients
    /\ minServer \in Servers /\ next \in 1 .. NumServers + 1
    /\ clientCount \in Int

WorkerTypes ==
    /\ place \in [Servers -> Places]
    /\ clients \in [Servers -> SUBSET Clients]
    /\ clientsBuff \in [Servers -> Seq(Clients)]
    /\ change \in [Servers -> BOOLEAN]
    /\ bak \in [Servers -> SUBSET Clients]
    /\ fdRead \in [Servers -> SUBSET Clients]
    /\ temp \in [Servers -> SUBSET Clients]
    /\ lastPos \in [Clients -> 0 .. Length - 1]

NetTypes ==
    /\ backlog \in Seq(Clients)
    /\ wire \in [Clients -> Nat]
    /\ hungup \subseteq Clients /\ closed \subseteq Clients

ClientTypes ==
    /\ at \in [Threads -> {"connect", "send", "sending", "run", "close", "done"}]
    /\ turn \in [Threads -> Nat]
    /\ \A t \in Threads : turn[t] \in 1 .. Len(Mine[t])
    /\ isRun \subseteq Clients
    /\ pending \in [Clients -> Nat]

Types == MainTypes /\ WorkerTypes /\ NetTypes /\ ClientTypes

\* The kept set of descriptors covers the clients of a worker when select is called, or
\* it is made anew before.
Watching(s) ==
    /\ place[s] \in {"wait", "read"} => clients[s] \subseteq bak[s]
    /\ place[s] \in {"loop", "select"} => change[s] \/ clients[s] \subseteq bak[s]

\* A client is in the buffer and in the map only while it is moved; what select has
\* returned and who has left is known only to a worker that reads.
Reading(s) ==
    /\ place[s] # "move" => Buffered(s) \cap clients[s] = {}
    /\ place[s] # "read" => fdRead[s] = {} /\ temp[s] = {}
    /\ fdRead[s] \cap temp[s] = {}
    /\ temp[s] \subseteq clients[s]

\* The clients of a server, and where else a client may be: with main, before it
\* is in a buffer, waiting for accept, or not yet connected.
Kept(s) == Buffered(s) \cup clients[s]
Placing == IF main = "place" THEN {newClient} ELSE {}
Coming == UNION {{Mine[t][i] : i \in turn[t] .. Len(Mine[t])} : t \in {u \in Threads : at[u] = "connect"}}

NoneTwice == \A i, j \in DOMAIN backlog : backlog[i] = backlog[j] => i = j

Apart ==
    /\ \A r, s \in Servers : r # s => Kept(r) \cap Kept(s) = {}
    /\ \A s \in Servers : Kept(s) \cap (Placing \cup Waiting \cup Coming) = {}
    /\ Placing \cap (Waiting \cup Coming) = {}
    /\ Waiting \cap Coming = {}
    /\ NoneTwice

\* The counter, and the clients it counts.
AllHeld == UNION {Held(s) : s \in Servers}
Joining == IF main = "join" THEN 1 ELSE 0
Counted ==
    /\ IsFiniteSet(AllHeld)
    /\ Failed = {} => clientCount + Joining = Cardinality(AllHeld)

\* Only the client a thread is sending from has bytes in a send; select has returned a
\* socket that stays readable; a client leaves at the end of its stream.
Sends == \A c \in Clients : pending[c] # 0 =>
            c \in isRun /\ \E t \in Threads : at[t] = "sending" /\ Current(t) = c
Returned(s) == \A c \in fdRead[s] \cap clients[s] : wire[c] > 0 \/ Lost(c)
Left(s) == \A c \in temp[s] : Lost(c)
Whole == \A c \in Clients : ~Lost(c) => (lastPos[c] + wire[c] + pending[c]) % Length = 0

Streams == Sends /\ Whole /\ \A s \in Servers : Returned(s) /\ Left(s)

EarlierInv ==
    /\ Types /\ Apart /\ Counted /\ Streams
    /\ \A s \in Servers : Watching(s) /\ Reading(s)

------------------------------------------------------------------------------
(***************************************************************************)
(* Types.                                                                  *)
(***************************************************************************)
LEMMA SeqFacts ==
    ASSUME NEW S, NEW q \in Seq(S)
    PROVE  /\ \A x \in S : Append(q, x) \in Seq(S)
           /\ q # <<>> => Head(q) \in S /\ Tail(q) \in Seq(S)
           /\ <<>> \in Seq(S)
  OBVIOUS

\* The rest of a stream after whole messages.
LEMMA RestTyped == ASSUME NEW c \in Clients, NEW n \in Nat, Types PROVE Received(c, n) \in 0 .. Length - 1
  BY EarlierConstants DEF Types, WorkerTypes, Received

LEMMA CloseTyped ==
    ASSUME Types, NEW cs \in SUBSET Clients, CloseConnections(cs)
    PROVE  wire' \in [Clients -> Nat] /\ closed' \subseteq Clients
  BY DEF Types, NetTypes, CloseConnections

LEMMA WaitingTyped == ASSUME Types PROVE Waiting \subseteq Clients
  BY DEF Types, NetTypes, Waiting

LEMMA ListeningTyped == ASSUME Types, CloseListening, UNCHANGED hungup PROVE NetTypes'
<1>1. wire' \in [Clients -> Nat] /\ closed' \subseteq Clients
  BY WaitingTyped, CloseTyped DEF CloseListening
<1> QED BY <1>1 DEF CloseListening, Types, NetTypes

LEMMA MainTyped ==
    ASSUME Types, MainStep \/ AcceptFail \/ Exit, UNCHANGED clientVars
    PROVE  Types'
<1> USE DEF Types
<1>1. ClientTypes'
  BY DEF ClientTypes, clientVars, Current
<1>2. CASE Accept
  <2>1. Head(backlog) \in Clients /\ Tail(backlog) \in Seq(Clients)
    BY <1>2, SeqFacts DEF Accept, NetTypes
  <2>2. 1 \in Servers /\ 1 \in 1 .. NumServers + 1
    BY EarlierConstants DEF Servers
  <2>3. MainTypes'
    BY <1>2, <2>1, <2>2 DEF Accept, MainTypes
  <2> QED BY <1>1, <1>2, <2>1, <2>3 DEF Accept, NetTypes, WorkerTypes, workerVars
<1>3. CASE Compare
  <2>1. minServer' \in {minServer, next} /\ next' = next + 1 /\ next <= NumServers
    BY <1>3 DEF Compare
  <2>2. minServer' \in Servers /\ next' \in 1 .. NumServers + 1
    BY <2>1, EarlierConstants DEF MainTypes, Servers
  <2> QED BY <1>1, <1>3, <2>2 DEF Compare, MainTypes, NetTypes, WorkerTypes, workerVars, netVars
<1>4. CASE addClient
  <2>1. clientsBuff' \in [Servers -> Seq(Clients)]
    BY <1>4, SeqFacts DEF addClient, MainTypes, WorkerTypes
  <2> QED BY <1>1, <1>4, <2>1 DEF addClient, MainTypes, NetTypes, WorkerTypes, netVars
<1>5. CASE OnNetJoin
  BY <1>1, <1>5 DEF OnNetJoin, MainTypes, NetTypes, WorkerTypes, workerVars, netVars
<1>6. CASE AcceptFail
  BY <1>1, <1>6, ListeningTyped DEF AcceptFail, MainTypes, WorkerTypes, workerVars, mainVars
<1>7. CASE Exit
  BY <1>1, <1>7, ListeningTyped DEF Exit, MainTypes, WorkerTypes, workerVars
<1> QED BY <1>2, <1>3, <1>4, <1>5, <1>6, <1>7 DEF MainStep

LEMMA WorkerTyped ==
    ASSUME Types, NEW s \in Servers, WorkerStep(s) \/ SelectFails(s), UNCHANGED clientVars
    PROVE  Types'
<1> USE DEF Types
<1>1. ClientTypes'
  BY DEF ClientTypes, clientVars, Current
<1>2. CASE Loop(s)
  BY <1>1, <1>2 DEF Loop, Goto, MainTypes, NetTypes, WorkerTypes, mainVars, netVars, Places
<1>3. CASE MoveOne(s)
  <2>1. Buffered(s) \subseteq Clients
    BY DEF Buffered, WorkerTypes
  <2> QED BY <1>1, <1>3, <2>1 DEF MoveOne, MainTypes, NetTypes, WorkerTypes, mainVars, netVars
<1>4. CASE MoveEnd(s)
  BY <1>1, <1>4, SeqFacts DEF MoveEnd, Goto, MainTypes, NetTypes, WorkerTypes, mainVars, netVars, Places
<1>5. CASE Select(s)
  BY <1>1, <1>5 DEF Select, Goto, MainTypes, NetTypes, WorkerTypes, mainVars, netVars, Places
<1>6. CASE SelectReturns(s)
  BY <1>1, <1>6 DEF SelectReturns, Goto, MainTypes, NetTypes, WorkerTypes, mainVars, netVars, Places
<1>7. CASE SelectFails(s)
  BY <1>1, <1>7 DEF SelectFails, Goto, MainTypes, NetTypes, WorkerTypes, mainVars, netVars, Places
<1>8. ASSUME NEW c \in Clients, RecvData(s, c) PROVE Types'
  <2>1. PICK n \in 1 .. wire[c] : /\ wire' = [wire EXCEPT ![c] = wire[c] - n]
                                  /\ lastPos' = [lastPos EXCEPT ![c] = Received(c, n)]
    BY <1>8 DEF RecvData
  <2>2. wire[c] - n \in Nat
    BY DEF NetTypes
  <2>3. wire' \in [Clients -> Nat]
    BY <2>1, <2>2 DEF NetTypes
  <2>4. lastPos' \in [Clients -> 0 .. Length - 1]
    <3>1. n \in Nat
      BY DEF NetTypes
    <3> QED BY <2>1, <3>1, RestTyped DEF WorkerTypes
  <2> QED BY <1>1, <1>8, <2>3, <2>4 DEF RecvData, MainTypes, NetTypes, WorkerTypes, mainVars
<1>9. ASSUME NEW c \in Clients, Leave(s, c) PROVE Types'
  BY <1>1, <1>9 DEF Leave, MainTypes, NetTypes, WorkerTypes, netVars
<1>10. CASE EndRead(s)
  BY <1>1, <1>10, EarlierConstants DEF EndRead, Goto, MainTypes, NetTypes, WorkerTypes, mainVars, netVars, Places
<1>11. CASE CloseClients(s)
  <2>1. wire' \in [Clients -> Nat] /\ closed' \subseteq Clients
    BY <1>11, CloseTyped DEF CloseClients, WorkerTypes
  <2> QED BY <1>1, <1>11, <2>1 DEF CloseClients, Goto, MainTypes, NetTypes, WorkerTypes, mainVars, Places
<1>12. CASE CloseSock(s)
  BY <1>1, <1>12, ListeningTyped DEF CloseSock, Goto, MainTypes, WorkerTypes, mainVars, Places
<1> QED BY <1>2, <1>3, <1>4, <1>5, <1>6, <1>7, <1>8, <1>9, <1>10, <1>11, <1>12 DEF WorkerStep

LEMMA TurnTyped ==
    ASSUME Types, NEW t \in Threads, turn' = [turn EXCEPT ![t] = NextTurn(t)]
    PROVE  turn' \in [Threads -> Nat] /\ \A u \in Threads : turn'[u] \in 1 .. Len(Mine[u])
<1>1. Len(Mine[t]) \in Nat /\ turn[t] \in 1 .. Len(Mine[t])
  BY ClientConstants DEF Types, ClientTypes
<1>2. \A n \in Nat : \A k \in 1 .. n : (k % n) + 1 \in 1 .. n
  OBVIOUS
<1>3. NextTurn(t) \in 1 .. Len(Mine[t])
  BY <1>1, <1>2 DEF NextTurn
<1> QED BY <1>1, <1>3 DEF Types, ClientTypes

LEMMA CurrentTyped == ASSUME Types, NEW t \in Threads PROVE Current(t) \in Clients
  BY ClientConstants DEF Types, ClientTypes, Current

LEMMA ThreadTyped == ASSUME Types, NEW t \in Threads, ThreadStep(t) PROVE Types'
<1> USE DEF Types
<1> DEFINE c == Current(t)
<1>1. c \in Clients
  BY CurrentTyped
<1>2. ASSUME Close(c) PROVE /\ isRun' \subseteq Clients /\ hungup' \subseteq Clients
                            /\ pending' \in [Clients -> Nat]
  BY <1>1, <1>2 DEF Close, ClientTypes, NetTypes
<1>3. CASE Connect(t)
  <2>1. backlog' \in Seq(Clients) /\ isRun' \subseteq Clients
    <3>1. Append(backlog, c) \in Seq(Clients)
      BY <1>1, SeqFacts DEF NetTypes
    <3> HIDE DEF c
    <3> QED BY <1>1, <1>3, <3>1 DEF Connect, NetTypes, ClientTypes, c
  <2>2. at' \in [Threads -> {"connect", "send", "sending", "run", "close", "done"}]
    BY <1>3 DEF Connect, At, ClientTypes
  <2>3. turn' \in [Threads -> Nat] /\ \A u \in Threads : turn'[u] \in 1 .. Len(Mine[u])
    BY <1>3, TurnTyped DEF Connect
  <2> QED BY <1>3, <2>1, <2>2, <2>3 DEF Connect, MainTypes, NetTypes, WorkerTypes, ClientTypes, mainVars, workerVars
<1>4. CASE SendData(t)
  <2>1. Batch * Length \in Nat
    BY EarlierConstants, ClientConstants
  <2>2. /\ isRun' \subseteq Clients /\ hungup' \subseteq Clients
        /\ pending' \in [Clients -> Nat]
    BY <1>1, <1>2, <1>4, <2>1 DEF SendData, ClientTypes, NetTypes
  <2> QED BY <1>4, <2>2 DEF SendData, At, MainTypes, NetTypes, WorkerTypes, ClientTypes, mainVars, workerVars
<1>5. CASE Sending(t)
  <2> DEFINE room == Window - wire[c]
             n == IF pending[c] <= room THEN pending[c] ELSE room
  <2>1. CASE Lost(c) /\ Close(c) /\ UNCHANGED wire
    <3>1. /\ isRun' \subseteq Clients /\ hungup' \subseteq Clients
          /\ pending' \in [Clients -> Nat]
      BY <1>2, <2>1
    <3>2. UNCHANGED <<mainVars, workerVars, backlog, wire, closed, turn>>
      BY <1>5, <2>1 DEF Sending
    <3>3. at' \in [Threads -> {"connect", "send", "sending", "run", "close", "done"}]
      BY <1>5 DEF Sending, ClientTypes
    <3> QED BY <3>1, <3>2, <3>3 DEF MainTypes, NetTypes, WorkerTypes, ClientTypes, mainVars, workerVars
  <2>2. CASE /\ n > 0
             /\ wire' = [wire EXCEPT ![c] = wire[c] + n]
             /\ pending' = [pending EXCEPT ![c] = pending[c] - n]
             /\ UNCHANGED <<isRun, hungup>>
    <3>1. wire[c] + n \in Nat /\ pending[c] - n \in Nat
      <4>1. wire[c] \in Nat /\ pending[c] \in Nat /\ Window \in Nat
        BY <1>1, ClientConstants DEF NetTypes, ClientTypes
      <4> QED BY <2>2, <4>1
    <3>2. wire' \in [Clients -> Nat] /\ pending' \in [Clients -> Nat]
      BY <2>2, <3>1 DEF NetTypes, ClientTypes
    <3> QED BY <1>5, <2>2, <3>2 DEF Sending, MainTypes, NetTypes, WorkerTypes, ClientTypes, mainVars, workerVars
  <2> QED BY <1>5, <2>1, <2>2 DEF Sending
<1>6. CASE OnRun(t)
  <2>1. /\ isRun' \subseteq Clients /\ hungup' \subseteq Clients
        /\ pending' \in [Clients -> Nat]
    BY <1>1, <1>2, <1>6 DEF OnRun, ClientTypes, NetTypes
  <2> QED BY <1>6, <2>1, TurnTyped DEF OnRun, At, MainTypes, NetTypes, WorkerTypes, ClientTypes, mainVars, workerVars
<1>7. CASE CloseOne(t)
  <2>1. /\ isRun' \subseteq Clients /\ hungup' \subseteq Clients
        /\ pending' \in [Clients -> Nat]
    BY <1>1, <1>2, <1>7 DEF CloseOne, ClientTypes, NetTypes
  <2> QED BY <1>7, <2>1, TurnTyped DEF CloseOne, At, MainTypes, NetTypes, WorkerTypes, ClientTypes, mainVars, workerVars
<1> QED BY <1>3, <1>4, <1>5, <1>6, <1>7 DEF ThreadStep

LEMMA EndTyped ==
    ASSUME Types, TypeExit \/ ReturnMain \/ \E c \in Clients : Break(c)
    PROVE  Types'
<1> USE DEF Types
<1>1. CASE TypeExit
  BY <1>1 DEF TypeExit, MainTypes, NetTypes, WorkerTypes, ClientTypes, mainVars, workerVars, netVars
<1>2. CASE ReturnMain
  BY <1>2 DEF ReturnMain, MainTypes, NetTypes, WorkerTypes, ClientTypes, mainVars, workerVars
<1>3. ASSUME NEW c \in Clients, Break(c) PROVE Types'
  BY <1>3 DEF Break, MainTypes, NetTypes, WorkerTypes, ClientTypes, mainVars, workerVars, clientVars
<1> QED BY <1>1, <1>2, <1>3

LEMMA NextTyped == Types /\ [Next]_vars => Types'
<1> SUFFICES ASSUME Types, [Next]_vars PROVE Types'
  OBVIOUS
<1>1. CASE UNCHANGED vars
  BY <1>1 DEF Types, MainTypes, NetTypes, WorkerTypes, ClientTypes, vars, mainVars, workerVars, netVars, clientVars
<1>2. CASE Next
  BY <1>2, MainTyped, WorkerTyped, ThreadTyped, EndTyped DEF Next, Server
<1> QED BY <1>1, <1>2

------------------------------------------------------------------------------
(***************************************************************************)
(* Each worker for itself.                                                 *)
(***************************************************************************)
\* The steps of a worker, which change nothing of another server.
WorkerDoes(s) == WorkerStep(s) \/ SelectFails(s)

LEMMA OtherServers ==
    ASSUME Types, NEW s \in Servers, NEW r \in Servers \ {s}, WorkerDoes(s)
    PROVE  /\ place'[r] = place[r] /\ clients'[r] = clients[r] /\ clientsBuff'[r] = clientsBuff[r]
           /\ change'[r] = change[r] /\ bak'[r] = bak[r]
           /\ fdRead'[r] = fdRead[r] /\ temp'[r] = temp[r]
  BY DEF Types, WorkerTypes, WorkerDoes, WorkerStep, Goto, Loop, MoveOne, MoveEnd, Select, SelectReturns,
         SelectFails, RecvData, Leave, EndRead, CloseClients, CloseSock

LEMMA WatchStep ==
    ASSUME Types, NEW s \in Servers, WorkerDoes(s), NEW r \in Servers, Watching(r), Reading(r)
    PROVE  Watching(r)'
<1>1. CASE r # s
  BY <1>1, OtherServers DEF Watching
<1>2. CASE r = s
  BY <1>2 DEF Types, WorkerTypes, Watching, Reading, WorkerDoes, WorkerStep, Goto, Loop, MoveOne, MoveEnd,
     Select, SelectReturns, SelectFails, RecvData, Leave, EndRead, CloseClients, CloseSock
<1> QED BY <1>1, <1>2

LEMMA EmptyBuffer == \A q : q = <<>> => {q[i] : i \in DOMAIN q} = {}
  OBVIOUS

LEMMA ReadStep ==
    ASSUME Types, NEW s \in Servers, WorkerDoes(s), NEW r \in Servers, Reading(r)
    PROVE  Reading(r)'
<1>1. CASE r # s
  BY <1>1, OtherServers DEF Reading, Buffered
<1>2. CASE r = s
  <2> USE <1>2 DEF Types, WorkerTypes, Reading
  <2>1. CASE Loop(s)
    <3>1. clientsBuff[s] = <<>> => Buffered(s) = {}
      BY EmptyBuffer DEF Buffered
    <3> QED BY <2>1, <3>1 DEF Loop, Goto, Buffered
  <2>2. CASE MoveOne(s)
    BY <2>2 DEF MoveOne, Buffered
  <2>3. CASE MoveEnd(s)
    <3>1. Buffered(s)' = {}
      BY <2>3, EmptyBuffer DEF Buffered, MoveEnd
    <3> QED BY <2>3, <3>1 DEF MoveEnd, Goto
  <2>4. CASE Select(s) \/ SelectReturns(s) \/ SelectFails(s)
    BY <2>4 DEF Select, SelectReturns, SelectFails, Goto, Buffered
  <2>5. ASSUME NEW c \in Clients, RecvData(s, c) \/ Leave(s, c) PROVE Reading(r)'
    BY <2>5 DEF RecvData, Leave, Buffered, netVars
  <2>6. CASE EndRead(s) \/ CloseClients(s) \/ CloseSock(s)
    BY <2>6 DEF EndRead, CloseClients, CloseSock, Goto, Buffered
  <2> QED BY <2>1, <2>2, <2>3, <2>4, <2>5, <2>6 DEF WorkerDoes, WorkerStep
<1> QED BY <1>1, <1>2

\* addClient appends to a buffer and does nothing else to a server.
LEMMA Appended ==
    ASSUME NEW S, NEW q \in Seq(S), NEW x \in S
    PROVE  {Append(q, x)[i] : i \in DOMAIN Append(q, x)} = {q[i] : i \in DOMAIN q} \cup {x}
<1> DEFINE a == Append(q, x)
<1>1. Len(q) \in Nat /\ DOMAIN q = 1 .. Len(q) /\ DOMAIN a = 1 .. Len(q) + 1
  OBVIOUS
<1>2. a[Len(q) + 1] = x /\ \A i \in 1 .. Len(q) : a[i] = q[i]
  OBVIOUS
<1>3. Len(q) + 1 \in 1 .. Len(q) + 1 /\ 1 .. Len(q) + 1 = (1 .. Len(q)) \cup {Len(q) + 1}
  BY <1>1
<1> HIDE DEF a
<1>4. {a[i] : i \in DOMAIN a} = {q[i] : i \in DOMAIN q} \cup {x}
  BY <1>1, <1>2, <1>3
<1> QED BY <1>4 DEF a

LEMMA BufferAdded ==
    ASSUME Types, addClient
    PROVE  /\ newClient \in Clients /\ minServer \in Servers
           /\ \A r \in Servers :
                 Buffered(r)' = Buffered(r) \cup (IF r = minServer THEN {newClient} ELSE {})
           /\ UNCHANGED <<newClient, minServer, clientCount, place, clients, change, bak, fdRead, temp>>
<1>1. newClient \in Clients /\ minServer \in Servers
  BY DEF addClient, Types, MainTypes
<1>2. clientsBuff' = [clientsBuff EXCEPT ![minServer] = Append(clientsBuff[minServer], newClient)]
  BY DEF addClient
<1>3. clientsBuff[minServer] \in Seq(Clients)
  BY <1>1 DEF Types, WorkerTypes
<1>4. UNCHANGED <<newClient, minServer, clientCount, place, clients, change, bak, fdRead, temp>>
  BY DEF addClient
<1>5. clientsBuff'[minServer] = Append(clientsBuff[minServer], newClient)
  BY <1>1, <1>2 DEF Types, WorkerTypes
<1>6. \A r \in Servers \ {minServer} : clientsBuff'[r] = clientsBuff[r]
  BY <1>1, <1>2 DEF Types, WorkerTypes
<1>7. ASSUME NEW r \in Servers
      PROVE  Buffered(r)' = Buffered(r) \cup (IF r = minServer THEN {newClient} ELSE {})
  <2>1. CASE r = minServer
    BY <1>1, <1>3, <1>5, <2>1, Appended DEF Buffered
  <2>2. CASE r # minServer
    BY <1>6, <2>2 DEF Buffered
  <2> QED BY <2>1, <2>2
<1> QED BY <1>1, <1>4, <1>7

LEMMA MainWatchRead ==
    ASSUME Types, Apart, MainStep \/ AcceptFail \/ Exit, NEW r \in Servers, Watching(r), Reading(r)
    PROVE  Watching(r)' /\ Reading(r)'
<1>1. CASE addClient
  <2>1. newClient \in Placing /\ place[minServer] # "move"
    BY <1>1 DEF addClient, Placing
  <2>2. newClient \notin clients[r]
    BY <2>1 DEF Apart, Kept
  <2>3. minServer \in Servers
    BY DEF Types, MainTypes
  <2> QED BY <1>1, <2>2, <2>3, BufferAdded DEF Watching, Reading
<1>2. CASE UNCHANGED workerVars
  BY <1>2 DEF workerVars, Watching, Reading, Buffered
<1> QED BY <1>1, <1>2 DEF MainStep, Accept, Compare, OnNetJoin, AcceptFail, Exit

------------------------------------------------------------------------------
(***************************************************************************)
(* Where a client is.                                                      *)
(***************************************************************************)
\* Nothing gets nearer to a map.
LEMMA ApartStays ==
    ASSUME Apart, \A s \in Servers : Kept(s)' \subseteq Kept(s), Placing' \subseteq Placing,
           backlog' \in {backlog, <<>>}, Coming' \subseteq Coming
    PROVE  Apart'
<1>1. Waiting' \subseteq Waiting /\ NoneTwice'
  BY DEF Waiting, Apart, NoneTwice
<1> QED BY <1>1 DEF Apart, NoneTwice

LEMMA ComingStays ==
    ASSUME \A t \in Threads : at'[t] = "connect" => at[t] = "connect" /\ turn'[t] = turn[t]
    PROVE  Coming' \subseteq Coming
  BY DEF Coming

\* A worker moves its clients from the buffer to the map.
LEMMA KeptBy ==
    ASSUME Types, NEW s \in Servers, WorkerDoes(s), NEW r \in Servers
    PROVE  Kept(r)' \subseteq Kept(r)
<1>1. CASE r # s
  BY <1>1, OtherServers DEF Kept, Buffered
<1>2. CASE r = s
  <2> USE <1>2 DEF Types, WorkerTypes, Kept
  <2>1. CASE MoveOne(s)
    BY <2>1 DEF MoveOne, Buffered
  <2>2. CASE MoveEnd(s)
    <3>1. Buffered(s)' = {}
      BY <2>2, EmptyBuffer DEF Buffered, MoveEnd
    <3> QED BY <2>2, <3>1 DEF MoveEnd
  <2>3. CASE UNCHANGED clientsBuff /\ clients'[s] \subseteq clients[s]
    BY <2>3 DEF Buffered
  <2> QED BY <2>1, <2>2, <2>3 DEF WorkerDoes, WorkerStep, Goto, Loop, Select, SelectReturns,
             SelectFails, RecvData, Leave, EndRead, CloseClients, CloseSock
<1> QED BY <1>1, <1>2

LEMMA WorkerApart ==
    ASSUME Types, Apart, NEW s \in Servers, WorkerDoes(s), UNCHANGED clientVars
    PROVE  Apart'
<1>1. Coming' \subseteq Coming
  BY DEF Coming, clientVars
<1>2. Placing' \subseteq Placing
  BY DEF Placing, WorkerDoes, WorkerStep, Goto, Loop, MoveOne, MoveEnd, Select, SelectReturns,
         SelectFails, RecvData, Leave, EndRead, CloseClients, CloseSock, mainVars
<1>3. backlog' \in {backlog, <<>>}
  BY DEF WorkerDoes, WorkerStep, Goto, Loop, MoveOne, MoveEnd, Select, SelectReturns,
         SelectFails, RecvData, Leave, EndRead, CloseClients, CloseSock, netVars, CloseListening
<1> QED BY <1>1, <1>2, <1>3, KeptBy, ApartStays

LEMMA Dequeued ==
    ASSUME NEW S, NEW q \in Seq(S), q # <<>>,
           \A i, j \in DOMAIN q : q[i] = q[j] => i = j
    PROVE  LET Of(r) == {r[i] : i \in DOMAIN r} IN
           /\ Head(q) \in Of(q) /\ Head(q) \notin Of(Tail(q)) /\ Of(Tail(q)) \subseteq Of(q)
           /\ \A i, j \in DOMAIN Tail(q) : Tail(q)[i] = Tail(q)[j] => i = j
<1> DEFINE t == Tail(q)
<1>1. Len(q) \in Nat /\ Len(q) >= 1 /\ DOMAIN q = 1 .. Len(q) /\ DOMAIN t = 1 .. Len(q) - 1
  OBVIOUS
<1>2. Head(q) = q[1] /\ \A i \in 1 .. Len(q) - 1 : t[i] = q[i + 1]
  OBVIOUS
<1> HIDE DEF t
<1>3. 1 \in DOMAIN q /\ \A i \in DOMAIN t : i + 1 \in DOMAIN q /\ i + 1 # 1
  BY <1>1
<1>4. \A i, j \in DOMAIN t : i + 1 = j + 1 => i = j
  BY <1>1
<1>5. \A i \in DOMAIN t : t[i] = q[i + 1]
  BY <1>1, <1>2
<1>6. \A i, j \in DOMAIN t : t[i] = t[j] => i = j
  BY <1>3, <1>4, <1>5
<1> QED BY <1>2, <1>3, <1>5, <1>6 DEF t

LEMMA MainApart ==
    ASSUME Types, Apart, MainStep \/ AcceptFail \/ Exit, UNCHANGED clientVars
    PROVE  Apart'
<1>1. Coming' = Coming
  BY DEF Coming, clientVars
<1>2. CASE UNCHANGED <<clients, clientsBuff>> /\ backlog' \in {backlog, <<>>} /\ Placing' \subseteq Placing
  BY <1>1, <1>2, ApartStays DEF Kept, Buffered
<1>3. CASE Accept
  <2>1. \A s \in Servers : Kept(s)' = Kept(s)
    BY <1>3 DEF Accept, workerVars, Kept, Buffered
  <2>2. /\ backlog \in Seq(Clients) /\ backlog # <<>> /\ backlog' = Tail(backlog)
        /\ NoneTwice
    BY <1>3 DEF Accept, Types, NetTypes, Apart, NoneTwice
  <2>3. /\ Head(backlog) \in Waiting /\ Head(backlog) \notin Waiting' /\ Waiting' \subseteq Waiting
        /\ NoneTwice'
    BY <2>2, Dequeued DEF Waiting, NoneTwice
  <2>4. Placing' = {Head(backlog)}
    BY <1>3 DEF Accept, Placing
  <2> QED BY <1>1, <2>1, <2>3, <2>4 DEF Apart, NoneTwice
<1>4. CASE addClient
  <2>1. Placing = {newClient} /\ Placing' = {}
    BY <1>4 DEF addClient, Placing
  <2>2. UNCHANGED backlog /\ Waiting' = Waiting
    BY <1>4 DEF addClient, netVars, Waiting
  <2>3. minServer \in Servers
    BY DEF Types, MainTypes
  <2>4. \A r \in Servers : Kept(r)' = Kept(r) \cup (IF r = minServer THEN {newClient} ELSE {})
    BY <1>4, BufferAdded DEF Kept
  <2>5. newClient \notin Waiting \cup Coming /\ \A r \in Servers : newClient \notin Kept(r)
    BY <2>1 DEF Apart
  <2>6. \A r, s \in Servers : r # s => Kept(r)' \cap Kept(s)' = {}
    <3> SUFFICES ASSUME NEW r \in Servers, NEW s \in Servers, r # s
                 PROVE  Kept(r)' \cap Kept(s)' = {}
      OBVIOUS
    <3>1. Kept(r) \cap Kept(s) = {}
      BY DEF Apart
    <3>2. CASE r # minServer /\ s # minServer
      BY <2>4, <3>1, <3>2
    <3>3. CASE r = minServer
      BY <2>4, <2>5, <3>1, <3>3
    <3>4. CASE s = minServer
      BY <2>4, <2>5, <3>1, <3>4
    <3> QED BY <3>2, <3>3, <3>4
  <2>7. \A s \in Servers : Kept(s)' \cap (Placing \cup Waiting \cup Coming)' = {}
    <3> SUFFICES ASSUME NEW s \in Servers
                 PROVE  Kept(s)' \cap (Placing' \cup Waiting' \cup Coming') = {}
      OBVIOUS
    <3>1. Kept(s) \cap (Waiting \cup Coming) = {}
      BY DEF Apart
    <3>2. CASE s # minServer
      BY <1>1, <2>1, <2>2, <2>4, <3>1, <3>2
    <3>3. CASE s = minServer
      BY <1>1, <2>1, <2>2, <2>4, <2>5, <3>1, <3>3
    <3> QED BY <3>2, <3>3
  <2>8. NoneTwice'
    BY <2>2 DEF Apart, NoneTwice
  <2> QED BY <1>1, <2>1, <2>2, <2>6, <2>7, <2>8 DEF Apart
<1>5. CASE Compare \/ OnNetJoin \/ AcceptFail \/ Exit
  BY <1>2, <1>5 DEF Compare, OnNetJoin, AcceptFail, Exit, CloseListening, workerVars, netVars, mainVars, Placing
<1> QED BY <1>3, <1>4, <1>5 DEF MainStep

LEMMA ConnectApart == ASSUME Types, Apart, NEW t \in Threads, Connect(t) PROVE Apart'
<1> DEFINE c == Current(t)
<1>1. Mine[t] \in Seq(Clients) /\ turn[t] \in 1 .. Len(Mine[t]) /\ Len(Mine[t]) \in Nat
  BY ClientConstants DEF Types, ClientTypes
<1>2. c \in Clients /\ c \in Coming
  BY <1>1, CurrentTyped DEF Connect, At, Coming, Current
<1>3. Coming' \subseteq Coming \ {c}
  <2> SUFFICES ASSUME NEW u \in Threads, at'[u] = "connect",
                      NEW i \in turn'[u] .. Len(Mine[u])
               PROVE  Mine[u][i] \in Coming \ {c}
    BY DEF Coming
  <2>1. Len(Mine[u]) \in Nat /\ DOMAIN Mine[u] = 1 .. Len(Mine[u]) /\ turn[u] \in 1 .. Len(Mine[u])
    BY ClientConstants DEF Types, ClientTypes
  <2>2. CASE u # t
    <3>1. at[u] = "connect" /\ turn'[u] = turn[u]
      BY <2>2 DEF Connect, At, Types, ClientTypes
    <3>2. Mine[u][i] # Mine[t][turn[t]]
      BY <1>1, <2>1, <2>2, <3>1, ClientConstants
    <3> QED BY <3>1, <3>2 DEF Coming, Current
  <2>3. CASE u = t
    <3>1. at[u] = "connect" /\ turn'[u] = NextTurn(t) /\ ~LastTurn(t)
      BY <2>3 DEF Connect, At, Types, ClientTypes
    <3>2. \A n \in Nat : \A k \in 1 .. n : k # n => (k % n) + 1 = k + 1
      OBVIOUS
    <3>3. turn'[u] = turn[u] + 1
      BY <1>1, <2>3, <3>1, <3>2 DEF NextTurn, LastTurn
    <3>4. i \in turn[u] .. Len(Mine[u]) /\ i # turn[u] /\ i \in DOMAIN Mine[u]
      BY <2>1, <3>3
    <3>5. Mine[u][i] # Mine[t][turn[t]]
      BY <1>1, <2>1, <2>3, <3>4, ClientConstants
    <3> QED BY <3>1, <3>4, <3>5 DEF Coming, Current
  <2> QED BY <2>2, <2>3
<1>4. Placing' = Placing /\ \A s \in Servers : Kept(s)' = Kept(s)
  BY DEF Connect, mainVars, workerVars, Placing, Kept, Buffered
<1>5. CASE backlog' = backlog
  BY <1>3, <1>4, <1>5, ApartStays
<1>6. CASE backlog' = Append(backlog, c)
  <2>1. backlog \in Seq(Clients) /\ Waiting' = Waiting \cup {c}
    <3>1. backlog \in Seq(Clients)
      BY DEF Types, NetTypes
    <3> HIDE DEF c
    <3> QED BY <1>2, <1>6, <3>1, Appended DEF Waiting
  <2>2. NoneTwice' 
    <3>1. /\ DOMAIN backlog' = (DOMAIN backlog) \cup {Len(backlog) + 1}
          /\ \A i \in DOMAIN backlog : backlog'[i] = backlog[i] /\ backlog[i] \in Waiting
          /\ backlog'[Len(backlog) + 1] = c
      <4>1. Len(backlog) \in Nat /\ DOMAIN backlog = 1 .. Len(backlog)
        BY <2>1
      <4>2. 1 .. Len(backlog) + 1 = (1 .. Len(backlog)) \cup {Len(backlog) + 1}
        BY <4>1
      <4>3. \A i \in DOMAIN backlog : backlog[i] \in Waiting
        BY DEF Waiting
      <4>4. /\ DOMAIN Append(backlog, c) = 1 .. Len(backlog) + 1
            /\ \A i \in 1 .. Len(backlog) : Append(backlog, c)[i] = backlog[i]
            /\ Append(backlog, c)[Len(backlog) + 1] = c
        BY <1>2, <2>1
      <4> QED BY <1>6, <4>1, <4>2, <4>3, <4>4
    <3>2. c \notin Waiting
      BY <1>2 DEF Apart
    <3> QED BY <3>1, <3>2 DEF NoneTwice, Apart
  <2> QED BY <1>2, <1>3, <1>4, <2>1, <2>2 DEF Apart, NoneTwice
<1> QED BY <1>5, <1>6 DEF Connect

LEMMA ClientApart ==
    ASSUME Types, Apart,
           \/ \E t \in Threads : ThreadStep(t)
           \/ TypeExit \/ ReturnMain \/ \E c \in Clients : Break(c)
    PROVE  Apart'
<1>1. CASE \E t \in Threads : Connect(t)
  BY <1>1, ConnectApart
<1>2. CASE /\ UNCHANGED <<main, newClient, clients, clientsBuff, backlog>>
           /\ \A t \in Threads : at'[t] = "connect" => at[t] = "connect" /\ turn'[t] = turn[t]
  BY <1>2, ComingStays, ApartStays DEF Placing, Kept, Buffered
<1>3. ASSUME NEW t \in Threads, SendData(t) \/ Sending(t) \/ OnRun(t) \/ CloseOne(t) PROVE Apart'
  <2>1. UNCHANGED <<main, newClient, clients, clientsBuff, backlog>>
    BY <1>3 DEF SendData, Sending, OnRun, CloseOne, mainVars, workerVars
  <2>2. \A u \in Threads \ {t} : at'[u] = at[u] /\ turn'[u] = turn[u]
    BY <1>3 DEF SendData, Sending, OnRun, CloseOne, At, Types, ClientTypes
  <2>3. at'[t] # "connect"
    BY <1>3 DEF SendData, Sending, OnRun, CloseOne, At, Types, ClientTypes
  <2> QED BY <1>2, <2>1, <2>2, <2>3
<1>4. CASE TypeExit \/ ReturnMain \/ \E c \in Clients : Break(c)
  BY <1>2, <1>4 DEF TypeExit, ReturnMain, Break, mainVars, workerVars, netVars, clientVars, Types, ClientTypes
<1> QED BY <1>1, <1>3, <1>4 DEF ThreadStep

------------------------------------------------------------------------------
(***************************************************************************)
(* The counter.                                                            *)
(***************************************************************************)
LEMMA CountStays ==
    ASSUME Counted, AllHeld' \subseteq AllHeld,
           Failed' = {} => /\ Failed = {} /\ AllHeld' = AllHeld
                           /\ clientCount' + Joining' = clientCount + Joining
    PROVE  Counted'
<1>1. IsFiniteSet(AllHeld')
  BY FS_Subset DEF Counted
<1> QED BY <1>1 DEF Counted

LEMMA AllHeldSame == ASSUME \A r \in Servers : Held(r)' = Held(r) PROVE AllHeld' = AllHeld
  BY DEF AllHeld

\* A worker changes what it holds only when a client leaves or its select has failed.
LEMMA HeldBy ==
    ASSUME Types, NEW s \in Servers, WorkerDoes(s), Reading(s),
           ~CloseSock(s), \A c \in Clients : ~Leave(s, c), NEW r \in Servers
    PROVE  Held(r)' = Held(r)
<1>1. CASE r # s
  BY <1>1, OtherServers DEF Held, Buffered
<1>2. CASE r = s
  <2> USE <1>2 DEF Types, WorkerTypes, Held
  <2>1. CASE MoveOne(s)
    BY <2>1 DEF MoveOne, Buffered, Reading
  <2>2. CASE MoveEnd(s)
    <3>1. Buffered(s)' = {}
      BY <2>2, EmptyBuffer DEF Buffered, MoveEnd
    <3>2. Buffered(s) \subseteq clients[s] /\ temp[s] = {} /\ UNCHANGED <<clients, temp>>
      BY <2>2 DEF MoveEnd, Goto, Reading
    <3> QED BY <3>1, <3>2
  <2>3. CASE EndRead(s)
    BY <2>3 DEF EndRead, Buffered
  <2>4. CASE UNCHANGED <<clientsBuff, clients, temp>>
    BY <2>4 DEF Buffered
  <2> QED BY <2>1, <2>2, <2>3, <2>4 DEF WorkerDoes, WorkerStep, Loop, Select, SelectReturns,
             SelectFails, RecvData, CloseClients
<1> QED BY <1>1, <1>2

LEMMA LeaveCounted ==
    ASSUME Types, Apart, Counted, NEW s \in Servers, NEW c \in Clients, Leave(s, c), Reading(s)
    PROVE  Counted'
<1>1. /\ c \in clients[s] /\ c \notin temp[s] /\ c \notin Buffered(s)
  BY DEF Leave, Reading
<1>2. \A r \in Servers : r # s => c \notin Held(r)
  BY <1>1 DEF Apart, Kept, Held
<1>3. Held(s)' = Held(s) \ {c}
  BY <1>1 DEF Leave, Held, Buffered, Types, WorkerTypes
<1>4. \A r \in Servers : r # s => Held(r)' = Held(r)
  <2>1. \A r \in Servers : r # s => clients'[r] = clients[r] /\ temp'[r] = temp[r] /\ clientsBuff'[r] = clientsBuff[r]
    BY DEF Leave, Types, WorkerTypes
  <2> QED BY <2>1 DEF Held, Buffered
<1>5. AllHeld' = AllHeld \ {c} /\ c \in AllHeld
  <2>1. c \in Held(s)
    BY <1>1 DEF Held
  <2> QED BY <1>2, <1>3, <1>4, <2>1 DEF AllHeld
<1>6. clientCount' = clientCount - 1 /\ Joining' = Joining /\ Failed' = Failed
  BY DEF Leave, Joining, Failed
<1>7. IsFiniteSet(AllHeld) /\ (Failed = {} => clientCount + Joining = Cardinality(AllHeld))
  BY DEF Counted
<1>8. IsFiniteSet(AllHeld \ {c}) /\ Cardinality(AllHeld \ {c}) = Cardinality(AllHeld) - 1
  BY <1>5, <1>7, FS_RemoveElement
<1>9. \A n \in Nat, m \in Int, j \in {0, 1} : m + j = n => m - 1 + j = n - 1
  OBVIOUS
<1>10. Cardinality(AllHeld) \in Nat /\ clientCount \in Int /\ Joining \in {0, 1}
  BY <1>7, FS_CardinalityType DEF Types, MainTypes, Joining
<1>11. Failed = {} => clientCount - 1 + Joining = Cardinality(AllHeld) - 1
  BY <1>7, <1>9, <1>10
<1> QED BY <1>5, <1>6, <1>8, <1>11 DEF Counted

LEMMA WorkerCounted ==
    ASSUME Types, Apart, Counted, NEW s \in Servers, WorkerDoes(s), Reading(s)
    PROVE  Counted'
<1>1. CASE \E c \in Clients : Leave(s, c)
  BY <1>1, LeaveCounted
<1>2. CASE CloseSock(s)
  <2>1. s \in Failed'
    BY <1>2 DEF CloseSock, Goto, Failed, Types, WorkerTypes
  <2>2. \A r \in Servers : Held(r)' \subseteq Held(r)
    BY <1>2 DEF CloseSock, Held, Buffered, Types, WorkerTypes
  <2>3. AllHeld' \subseteq AllHeld
    BY <2>2 DEF AllHeld
  <2> QED BY <2>1, <2>3, CountStays
<1>3. CASE ~CloseSock(s) /\ \A c \in Clients : ~Leave(s, c)
  <2>1. AllHeld' = AllHeld
    BY <1>3, HeldBy, AllHeldSame
  <2>2. UNCHANGED mainVars
    BY <1>3 DEF WorkerDoes, WorkerStep, Loop, MoveOne, MoveEnd, Select, SelectReturns, SelectFails,
               RecvData, EndRead, CloseClients
  <2>3. Failed' = {} => Failed = {}
    BY <1>3 DEF WorkerDoes, WorkerStep, Goto, Loop, MoveOne, MoveEnd, Select, SelectReturns, SelectFails,
               RecvData, EndRead, CloseClients, Failed, Types, WorkerTypes
  <2> QED BY <2>1, <2>2, <2>3, CountStays DEF mainVars, Joining
<1> QED BY <1>1, <1>2, <1>3

LEMMA MainCounted ==
    ASSUME Types, Apart, Counted, MainStep \/ AcceptFail \/ Exit
    PROVE  Counted'
<1>1. CASE addClient
  <2>1. \A r \in Servers : Held(r)' = Held(r) \cup (IF r = minServer THEN {newClient} ELSE {})
    BY <1>1, BufferAdded DEF Held
  <2>2. minServer \in Servers /\ Failed' = Failed
    BY <1>1, BufferAdded DEF Failed
  <2>3. AllHeld' = AllHeld \cup {newClient}
    BY <2>1, <2>2 DEF AllHeld
  <2>4. newClient \notin AllHeld
    BY <1>1 DEF addClient, Apart, Placing, Kept, Held, AllHeld
  <2>5. clientCount' = clientCount /\ Joining = 0 /\ Joining' = 1
    BY <1>1 DEF addClient, Joining
  <2>6. IsFiniteSet(AllHeld) /\ (Failed = {} => clientCount + Joining = Cardinality(AllHeld))
    BY DEF Counted
  <2>7. /\ IsFiniteSet(AllHeld \cup {newClient})
        /\ Cardinality(AllHeld \cup {newClient}) = Cardinality(AllHeld) + 1
    BY <2>4, <2>6, FS_AddElement
  <2>8. \A n \in Nat, m \in Int : m + 0 = n => m + 1 = n + 1
    OBVIOUS
  <2>9. Cardinality(AllHeld) \in Nat /\ clientCount \in Int
    BY <2>6, FS_CardinalityType DEF Types, MainTypes
  <2>10. Failed = {} => clientCount + 1 = Cardinality(AllHeld) + 1
    BY <2>5, <2>6, <2>8, <2>9
  <2> QED BY <2>2, <2>3, <2>5, <2>7, <2>10 DEF Counted
<1>2. CASE ~addClient
  <2>1. UNCHANGED workerVars
    BY <1>2 DEF MainStep, Accept, Compare, OnNetJoin, AcceptFail, Exit
  <2>2. AllHeld' = AllHeld /\ Failed' = Failed
    BY <2>1 DEF workerVars, AllHeld, Held, Buffered, Failed
  <2>3. clientCount' + Joining' = clientCount + Joining
    BY <1>2 DEF MainStep, Accept, Compare, OnNetJoin, AcceptFail, Exit, Joining, mainVars, Types, MainTypes
  <2> QED BY <2>2, <2>3, CountStays
<1> QED BY <1>1, <1>2

------------------------------------------------------------------------------
(***************************************************************************)
(* The streams.                                                            *)
(***************************************************************************)
\* What is left of a stream after whole messages.
LEMMA RestOf ==
    ASSUME NEW a \in Nat, NEW b \in Nat, NEW L \in Nat \ {0}
    PROVE  ((a % L) + b) % L = (a + b) % L
<1> DEFINE q == a \div L
           r == a % L
           k == (r + b) \div L
           m == (r + b) % L
<1>1. q \in Nat /\ r \in 0 .. L - 1 /\ a = L * q + r
  OBVIOUS
<1>2. r + b \in Nat
  BY <1>1
<1>3. k \in Nat /\ m \in 0 .. L - 1 /\ r + b = L * k + m
  <2> HIDE DEF r
  <2> QED BY <1>2
<1>4. a + b = L * (q + k) + m
  <2>1. \A x, y \in Nat : L * (x + y) = L * x + L * y /\ L * x \in Nat
    OBVIOUS
  <2>2. L * (q + k) = L * q + L * k /\ L * q \in Nat /\ L * k \in Nat
    <3> HIDE DEF q, k
    <3> QED BY <1>1, <1>3, <2>1
  <2>3. \A x, y, z \in Nat : \A u, v \in 0 .. L - 1 :
           x = y + u /\ u + b = z + v => x + b = y + z + v
    OBVIOUS
  <2> HIDE DEF q, r, k, m
  <2> QED BY <1>1, <1>3, <2>2, <2>3
<1>5. (L * (q + k) + m) % L = m
  <2>1. \A x \in Nat : \A y \in 0 .. L - 1 : (L * x + y) % L = y
    OBVIOUS
  <2> HIDE DEF q, r, k, m
  <2>2. q + k \in Nat
    BY <1>1, <1>3
  <2> QED BY <1>3, <2>1, <2>2
<1> QED BY <1>4, <1>5

LEMMA Multiple == ASSUME NEW a \in Nat, NEW b \in Nat, NEW L \in Nat \ {0}, a % L = 0
                  PROVE  (a + b * L) % L = 0
<1> DEFINE q == a \div L
<1>1. q \in Nat /\ a = L * q + 0
  OBVIOUS
<1>2. a + b * L = L * (q + b) + 0
  BY <1>1
<1>3. (L * (q + b) + 0) % L = 0
  <2> HIDE DEF q
  <2> QED BY <1>1
<1> QED BY <1>2, <1>3

\* What select has returned stays as it is while the bytes of these clients do.
LEMMA ReturnedStays ==
    ASSUME NEW r \in Servers, Returned(r), Left(r), \A c \in Clients : Lost(c) => Lost(c)',
           fdRead'[r] \cap clients'[r] \subseteq fdRead[r] \cap clients[r],
           temp'[r] \subseteq temp[r],
           \A c \in fdRead'[r] \cap clients'[r] : wire'[c] = wire[c] \/ Lost(c)' \/ wire'[c] > 0,
           fdRead[r] \subseteq Clients, temp[r] \subseteq Clients
    PROVE  Returned(r)' /\ Left(r)'
  BY DEF Returned, Left

LEMMA SendsStays == ASSUME Sends, UNCHANGED clientVars PROVE Sends'
  BY DEF Sends, clientVars, Current

\* Closing connections is the end of their streams.
LEMMA ClosedStreams ==
    ASSUME Types, Streams, NEW cs \in SUBSET Clients, CloseConnections(cs), UNCHANGED <<hungup, clientVars, lastPos, fdRead, temp>>,
           \A r \in Servers : clients'[r] \subseteq clients[r]
    PROVE  Streams'
<1>1. \A c \in Clients : (Lost(c) => Lost(c)') /\ (c \in cs => Lost(c)') /\ (c \notin cs => wire'[c] = wire[c])
  BY DEF CloseConnections, Lost
<1>2. Sends'
  BY SendsStays DEF Streams
<1>3. Whole'
  BY <1>1 DEF Whole, Streams, clientVars
<1>4. \A r \in Servers : fdRead[r] \subseteq Clients /\ temp[r] \subseteq Clients
  BY DEF Types, WorkerTypes
<1>5. ASSUME NEW r \in Servers PROVE Returned(r)' /\ Left(r)'
  BY <1>1, <1>4, ReturnedStays DEF Streams
<1> QED BY <1>2, <1>3, <1>5 DEF Streams

LEMMA MainStreams ==
    ASSUME Types, Streams, MainStep \/ AcceptFail \/ Exit, UNCHANGED clientVars
    PROVE  Streams'
<1>1. CASE CloseListening /\ UNCHANGED <<hungup, workerVars>>
  BY <1>1, WaitingTyped, ClosedStreams DEF CloseListening, workerVars
<1>2. CASE UNCHANGED <<wire, hungup, closed, lastPos, fdRead, temp, clients>>
  <2>1. Sends'
    BY SendsStays DEF Streams
  <2> QED BY <1>2, <2>1 DEF Streams, Whole, Returned, Left, Lost, clientVars
<1> QED BY <1>1, <1>2 DEF MainStep, Accept, Compare, addClient, OnNetJoin, AcceptFail, Exit, workerVars, netVars

LEMMA RecvStreams ==
    ASSUME Types, Apart, Streams, NEW s \in Servers, NEW c \in Clients, RecvData(s, c), UNCHANGED clientVars
    PROVE  Streams'
<1>1. PICK n \in 1 .. wire[c] : /\ wire' = [wire EXCEPT ![c] = wire[c] - n]
                                /\ lastPos' = [lastPos EXCEPT ![c] = Received(c, n)]
  BY DEF RecvData
<1>2. /\ n \in Nat /\ wire[c] \in Nat /\ n <= wire[c] /\ lastPos[c] \in Nat /\ pending[c] \in Nat
      /\ Length \in Nat \ {0}
  BY EarlierConstants DEF Types, NetTypes, WorkerTypes, ClientTypes
<1>3. \A d \in Clients : Lost(d)' = Lost(d) /\ (d # c => wire'[d] = wire[d] /\ lastPos'[d] = lastPos[d])
  BY <1>1 DEF RecvData, Lost, Types, NetTypes, WorkerTypes
<1>4. Sends'
  BY SendsStays DEF Streams
<1>5. Whole'
  <2>1. wire'[c] = wire[c] - n /\ lastPos'[c] = (lastPos[c] + n) % Length
    BY <1>1 DEF Received, Types, NetTypes, WorkerTypes
  <2>2. (((lastPos[c] + n) % Length) + (wire[c] - n + pending[c])) % Length
          = (lastPos[c] + n + (wire[c] - n + pending[c])) % Length
    <3>1. lastPos[c] + n \in Nat /\ wire[c] - n + pending[c] \in Nat
      BY <1>2
    <3> QED BY <1>2, <3>1, RestOf
  <2>3. /\ ((lastPos[c] + n) % Length) + (wire[c] - n) + pending[c]
             = ((lastPos[c] + n) % Length) + (wire[c] - n + pending[c])
        /\ lastPos[c] + n + (wire[c] - n + pending[c]) = lastPos[c] + wire[c] + pending[c]
    BY <1>2
  <2>4. (lastPos'[c] + wire'[c] + pending[c]) % Length = (lastPos[c] + wire[c] + pending[c]) % Length
    BY <2>1, <2>2, <2>3
  <2> QED BY <1>3, <2>4 DEF Whole, Streams, clientVars
<1>6. ASSUME NEW r \in Servers PROVE Returned(r)' /\ Left(r)'
  <2>1. c \notin fdRead'[r] \cap clients'[r]
    <3>1. CASE r = s
      BY <3>1 DEF RecvData, Types, WorkerTypes
    <3>2. CASE r # s
      BY <3>2 DEF RecvData, Apart, Kept
    <3> QED BY <3>1, <3>2
  <2>2. /\ fdRead'[r] \cap clients'[r] \subseteq fdRead[r] \cap clients[r]
        /\ temp'[r] = temp[r] /\ fdRead[r] \subseteq Clients /\ temp[r] \subseteq Clients
    BY DEF RecvData, Types, WorkerTypes
  <2> QED BY <1>3, <2>1, <2>2, ReturnedStays DEF Streams
<1> QED BY <1>4, <1>5, <1>6 DEF Streams

LEMMA WorkerStreams ==
    ASSUME Types, Apart, Streams, NEW s \in Servers, WorkerDoes(s), Reading(s), UNCHANGED clientVars
    PROVE  Streams'
<1>1. CASE \E c \in Clients : RecvData(s, c)
  BY <1>1, RecvStreams
<1>2. CASE CloseClients(s)
  BY <1>2, ClosedStreams DEF CloseClients, Types, WorkerTypes
<1>3. CASE CloseSock(s)
  <2>1. \A r \in Servers : clients'[r] \subseteq clients[r]
    BY <1>3 DEF CloseSock, Types, WorkerTypes
  <2> QED BY <1>3, <2>1, WaitingTyped, ClosedStreams DEF CloseSock, CloseListening
<1>4. ASSUME UNCHANGED <<wire, hungup, closed>>,
             \A c \in Clients : lastPos'[c] = lastPos[c] \/ Lost(c),
             Returned(s)' /\ Left(s)'
      PROVE  Streams'
  <2>1. \A c \in Clients : Lost(c)' = Lost(c)
    BY <1>4 DEF Lost
  <2>2. Sends'
    BY SendsStays DEF Streams
  <2>3. Whole'
    BY <1>4, <2>1 DEF Streams, Whole, clientVars
  <2>4. ASSUME NEW r \in Servers, r # s PROVE Returned(r)' /\ Left(r)'
    <3>1. fdRead'[r] = fdRead[r] /\ clients'[r] = clients[r] /\ temp'[r] = temp[r]
      BY <2>4, OtherServers
    <3> QED BY <1>4, <2>1, <3>1, ReturnedStays DEF Streams, Types, WorkerTypes
  <2> QED BY <1>4, <2>2, <2>3, <2>4 DEF Streams
<1>5. CASE \E c \in Clients : Leave(s, c)
  <2>1. PICK c \in Clients : Leave(s, c)
    BY <1>5
  <2>2. Lost(c)
    BY <2>1 DEF Leave, Streams, Returned
  <2>3. UNCHANGED <<wire, hungup, closed, lastPos>>
    BY <2>1 DEF Leave, netVars
  <2>4. fdRead'[s] \subseteq fdRead[s] /\ clients'[s] = clients[s] /\ temp'[s] = temp[s] \cup {c}
    BY <2>1 DEF Leave, Types, WorkerTypes
  <2>5. Returned(s)' /\ Left(s)'
    BY <2>2, <2>3, <2>4 DEF Streams, Returned, Left, Lost
  <2> QED BY <1>4, <2>3, <2>5
<1>6. CASE EndRead(s)
  <2>1. UNCHANGED <<wire, hungup, closed>> /\ fdRead'[s] = {} /\ temp'[s] = {}
    BY <1>6 DEF EndRead, netVars, Types, WorkerTypes
  <2>2. \A c \in Clients : lastPos'[c] = lastPos[c] \/ Lost(c)
    BY <1>6 DEF EndRead, Streams, Left
  <2> QED BY <1>4, <2>1, <2>2 DEF Returned, Left
<1>7. CASE SelectReturns(s)
  <2>1. /\ UNCHANGED <<wire, hungup, closed, lastPos>> /\ temp'[s] = temp[s]
        /\ fdRead'[s] = {c \in bak[s] : Readable(c)}
    BY <1>7 DEF SelectReturns, netVars, Types, WorkerTypes
  <2>2. \A c \in fdRead'[s] : wire'[c] > 0 \/ Lost(c)'
    BY <2>1 DEF Readable, Lost
  <2>3. Returned(s)' /\ Left(s)'
    BY <2>1, <2>2 DEF Streams, Returned, Left, Lost
  <2> QED BY <1>4, <2>1, <2>3
<1>8. CASE Loop(s) \/ MoveOne(s) \/ MoveEnd(s) \/ Select(s) \/ SelectFails(s)
  <2>1. UNCHANGED <<wire, hungup, closed, lastPos, fdRead, temp>>
    BY <1>8 DEF Loop, MoveOne, MoveEnd, Select, SelectFails, netVars
  <2>2. fdRead[s] = {} /\ temp[s] = {}
    BY <1>8 DEF Loop, MoveOne, MoveEnd, Select, SelectFails, Goto, Reading
  <2>3. Returned(s)' /\ Left(s)'
    BY <2>1, <2>2 DEF Returned, Left
  <2> QED BY <1>4, <2>1, <2>3
<1> QED BY <1>1, <1>2, <1>3, <1>5, <1>6, <1>7, <1>8 DEF WorkerDoes, WorkerStep

\* A client that closes, or whose connection fails, ends its stream.
LEMMA LostStreams ==
    ASSUME Types, Streams, NEW cs \in SUBSET Clients, hungup' = hungup \cup cs,
           UNCHANGED <<closed, lastPos, fdRead, temp, clients>>,
           \A c \in Clients \ cs : wire'[c] = wire[c] /\ pending'[c] = pending[c],
           Sends'
    PROVE  Streams'
<1>1. \A c \in Clients : (Lost(c) => Lost(c)') /\ (c \in cs => Lost(c)')
  BY DEF Lost
<1>2. Whole'
  BY <1>1 DEF Whole, Streams
<1>3. ASSUME NEW r \in Servers PROVE Returned(r)' /\ Left(r)'
  <2>1. fdRead[r] \subseteq Clients /\ temp[r] \subseteq Clients
    BY DEF Types, WorkerTypes
  <2> QED BY <1>1, <2>1, ReturnedStays DEF Streams
<1> QED BY <1>2, <1>3 DEF Streams

\* Clients of different threads, or of different turns, are different.
LEMMA OneThread ==
    ASSUME Types, NEW t \in Threads, NEW u \in Threads, Current(t) = Current(u)
    PROVE  t = u
  BY ClientConstants DEF Types, ClientTypes, Current

\* Close, of the client whose turn it is.
LEMMA CloseStreams ==
    ASSUME Types, Streams, NEW t \in Threads, Close(Current(t)),
           UNCHANGED <<closed, lastPos, fdRead, temp, clients, wire>>,
           \A u \in Threads \ {t} : at'[u] = at[u] /\ turn'[u] = turn[u]
    PROVE  Streams'
<1> DEFINE c == Current(t)
<1>1. c \in Clients
  BY CurrentTyped
<1>2. /\ isRun' = isRun \ {c} /\ hungup' = hungup \cup {c}
      /\ pending'[c] = 0 /\ \A d \in Clients \ {c} : pending'[d] = pending[d]
  BY <1>1 DEF Close, Types, ClientTypes
<1>3. Sends'
  <2> SUFFICES ASSUME NEW d \in Clients, pending'[d] # 0
               PROVE  d \in isRun' /\ \E u \in Threads : at'[u] = "sending" /\ Mine[u][turn'[u]] = d
    BY DEF Sends, Current
  <2>1. d # c /\ pending[d] # 0
    BY <1>2
  <2>2. PICK u \in Threads : at[u] = "sending" /\ Current(u) = d
    BY <2>1 DEF Streams, Sends
  <2>3. u # t
    BY <2>1, <2>2
  <2>4. at'[u] = "sending" /\ Mine[u][turn'[u]] = d
    BY <2>2, <2>3 DEF Current
  <2>5. d \in isRun'
    BY <1>2, <2>1 DEF Streams, Sends
  <2> QED BY <2>4, <2>5
<1> QED BY <1>1, <1>2, <1>3, LostStreams

\* A step of a thread that sends nothing.
LEMMA SameStreams ==
    ASSUME Types, Streams, NEW t \in Threads, at[t] # "sending", isRun \subseteq isRun',
           UNCHANGED <<pending, hungup, closed, lastPos, fdRead, temp, clients, wire>>,
           \A u \in Threads \ {t} : at'[u] = at[u] /\ turn'[u] = turn[u]
    PROVE  Streams'
<1>1. Sends'
  <2> SUFFICES ASSUME NEW d \in Clients, pending[d] # 0
               PROVE  d \in isRun' /\ \E u \in Threads : at'[u] = "sending" /\ Mine[u][turn'[u]] = d
    BY DEF Sends, Current
  <2>1. PICK u \in Threads : at[u] = "sending" /\ Current(u) = d
    BY DEF Streams, Sends
  <2>2. at'[u] = "sending" /\ Mine[u][turn'[u]] = d
    BY <2>1 DEF Current
  <2> QED BY <2>2 DEF Streams, Sends
<1> QED BY <1>1 DEF Streams, Whole, Returned, Left, Lost

LEMMA SendStreams == ASSUME Types, Streams, NEW t \in Threads, SendData(t) PROVE Streams'
<1> DEFINE c == Current(t)
<1>1. c \in Clients
  BY CurrentTyped
<1>2. /\ at[t] = "send" /\ UNCHANGED <<closed, lastPos, fdRead, temp, clients, wire, turn>>
      /\ \A u \in Threads \ {t} : at'[u] = at[u] /\ turn'[u] = turn[u]
  BY DEF SendData, At, workerVars, Types, ClientTypes
<1>3. CASE c \in isRun /\ ~Lost(c)
  <2>1. /\ at'[t] = "sending" /\ pending' = [pending EXCEPT ![c] = Batch * Length]
        /\ UNCHANGED <<isRun, hungup>>
    BY <1>3 DEF SendData, At, Types, ClientTypes
  <2>2. pending[c] = 0
    <3> SUFFICES ASSUME pending[c] # 0 PROVE FALSE
      OBVIOUS
    <3>1. PICK u \in Threads : at[u] = "sending" /\ Current(u) = c
      BY <1>1 DEF Streams, Sends
    <3> QED BY <1>2, <3>1, OneThread
  <2>3. pending'[c] = Batch * Length /\ \A d \in Clients \ {c} : pending'[d] = pending[d]
    BY <1>1, <2>1 DEF Types, ClientTypes
  <2>4. Sends'
    <3> SUFFICES ASSUME NEW d \in Clients, pending'[d] # 0
                 PROVE  d \in isRun' /\ \E u \in Threads : at'[u] = "sending" /\ Mine[u][turn'[u]] = d
      BY DEF Sends, Current
    <3>1. CASE d = c
      BY <1>2, <1>3, <2>1, <3>1 DEF Current
    <3>2. CASE d # c
      <4>1. PICK u \in Threads : at[u] = "sending" /\ Current(u) = d
        BY <2>3, <3>2 DEF Streams, Sends
      <4>2. at'[u] = "sending" /\ Mine[u][turn'[u]] = d
        BY <1>2, <3>2, <4>1 DEF Current
      <4> QED BY <2>1, <2>3, <3>2, <4>2 DEF Streams, Sends
    <3> QED BY <3>1, <3>2
  <2>5. Whole'
    <3> SUFFICES ASSUME NEW d \in Clients, ~Lost(d)
                 PROVE  (lastPos[d] + wire[d] + pending'[d]) % Length = 0
      BY <1>2, <2>1 DEF Whole, Lost
    <3>1. CASE d # c
      BY <2>3, <3>1 DEF Streams, Whole
    <3>2. CASE d = c
      <4>1. (lastPos[c] + wire[c] + 0) % Length = 0
        BY <2>2, <3>2 DEF Streams, Whole
      <4>2. lastPos[c] + wire[c] \in Nat /\ lastPos[c] + wire[c] + 0 = lastPos[c] + wire[c]
        BY <1>1, EarlierConstants DEF Types, WorkerTypes, NetTypes
      <4>3. (lastPos[c] + wire[c] + Batch * Length) % Length = 0
        BY <4>1, <4>2, EarlierConstants, ClientConstants, Multiple
      <4> QED BY <2>3, <3>2, <4>3
    <3> QED BY <3>1, <3>2
  <2> QED BY <1>2, <2>1, <2>4, <2>5 DEF Streams, Returned, Left, Lost
<1>4. CASE ~(c \in isRun /\ ~Lost(c)) /\ c \in isRun
  BY <1>2, <1>4, CloseStreams DEF SendData
<1>5. CASE c \notin isRun
  BY <1>2, <1>5, SameStreams DEF SendData
<1> QED BY <1>3, <1>4, <1>5

LEMMA SendingStreams == ASSUME Types, Streams, NEW t \in Threads, Sending(t) PROVE Streams'
<1> DEFINE c == Current(t)
           room == Window - wire[c]
           n == IF pending[c] <= room THEN pending[c] ELSE room
<1>1. c \in Clients
  BY CurrentTyped
<1>2. /\ at[t] = "sending" /\ UNCHANGED <<closed, lastPos, fdRead, temp, clients, turn>>
      /\ \A u \in Threads \ {t} : at'[u] = at[u] /\ turn'[u] = turn[u]
  BY DEF Sending, workerVars, Types, ClientTypes
<1>3. CASE Lost(c) /\ Close(c) /\ UNCHANGED wire
  BY <1>2, <1>3, CloseStreams
<1>4. CASE /\ ~Lost(c) /\ n > 0
           /\ wire' = [wire EXCEPT ![c] = wire[c] + n]
           /\ pending' = [pending EXCEPT ![c] = pending[c] - n]
           /\ at' = [at EXCEPT ![t] = IF n = pending[c] THEN "run" ELSE "sending"]
           /\ UNCHANGED <<isRun, hungup>>
  <2>1. /\ wire[c] \in Nat /\ pending[c] \in Nat /\ lastPos[c] \in Nat
        /\ Window \in Nat
    BY <1>1, ClientConstants, EarlierConstants DEF Types, NetTypes, WorkerTypes, ClientTypes
  <2>2. n \in Nat
    BY <1>4, <2>1
  <2> HIDE DEF n
  <2>3. /\ wire'[c] = wire[c] + n /\ pending'[c] = pending[c] - n
        /\ \A d \in Clients \ {c} : wire'[d] = wire[d] /\ pending'[d] = pending[d]
    BY <1>1, <1>4 DEF Types, NetTypes, ClientTypes
  <2>4. lastPos[c] + wire'[c] + pending'[c] = lastPos[c] + wire[c] + pending[c]
    BY <2>1, <2>2, <2>3
  <2>5. Sends'
    <3> SUFFICES ASSUME NEW d \in Clients, pending'[d] # 0
                 PROVE  d \in isRun' /\ \E u \in Threads : at'[u] = "sending" /\ Mine[u][turn'[u]] = d
      BY DEF Sends, Current
    <3>1. CASE d = c
      <4>1. n # pending[c]
        BY <2>1, <2>3, <3>1
      <4>2. at'[t] = "sending"
        BY <1>4, <4>1 DEF Types, ClientTypes
      <4>3. pending[c] # 0
        BY <1>4, <2>1, <2>2, <2>3, <3>1, <4>1 DEF n
      <4> QED BY <1>1, <1>2, <1>4, <3>1, <4>2, <4>3 DEF Current, Streams, Sends
    <3>2. CASE d # c
      <4>1. pending[d] # 0
        BY <2>3, <3>2
      <4>2. PICK u \in Threads : at[u] = "sending" /\ Current(u) = d
        BY <4>1 DEF Streams, Sends
      <4>3. at'[u] = "sending" /\ Mine[u][turn'[u]] = d
        BY <1>2, <3>2, <4>2 DEF Current
      <4> QED BY <1>4, <4>1, <4>3 DEF Streams, Sends
    <3> QED BY <3>1, <3>2
  <2>6. Whole'
    <3> SUFFICES ASSUME NEW d \in Clients, ~Lost(d)
                 PROVE  (lastPos[d] + wire'[d] + pending'[d]) % Length = 0
      BY <1>2, <1>4 DEF Whole, Lost
    <3> QED BY <2>3, <2>4 DEF Streams, Whole
  <2>7. \A d \in Clients : wire'[d] = wire[d] \/ wire'[d] > 0
    BY <1>4, <2>1, <2>2, <2>3
  <2>8. ASSUME NEW r \in Servers PROVE Returned(r)' /\ Left(r)'
    <3>1. \A d \in Clients : Lost(d)' = Lost(d)
      BY <1>2, <1>4 DEF Lost
    <3>2. fdRead[r] \subseteq Clients /\ temp[r] \subseteq Clients
      BY DEF Types, WorkerTypes
    <3> QED BY <1>2, <2>7, <3>1, <3>2, ReturnedStays DEF Streams
  <2> QED BY <2>5, <2>6, <2>8 DEF Streams
<1> QED BY <1>3, <1>4 DEF Sending

LEMMA ClientStreams ==
    ASSUME Types, Streams,
           \/ \E t \in Threads : ThreadStep(t)
           \/ TypeExit \/ ReturnMain \/ \E c \in Clients : Break(c)
    PROVE  Streams'
<1>1. CASE \E t \in Threads : SendData(t) \/ Sending(t)
  BY <1>1, SendStreams, SendingStreams
<1>2. ASSUME NEW t \in Threads, Connect(t) PROVE Streams'
  BY <1>2, SameStreams DEF Connect, At, workerVars, Types, ClientTypes
<1>3. ASSUME NEW t \in Threads, OnRun(t) \/ CloseOne(t) PROVE Streams'
  <2>1. /\ at[t] # "sending" /\ UNCHANGED <<closed, lastPos, fdRead, temp, clients, wire>>
        /\ \A u \in Threads \ {t} : at'[u] = at[u] /\ turn'[u] = turn[u]
    BY <1>3 DEF OnRun, CloseOne, At, workerVars, Types, ClientTypes
  <2>2. CASE Close(Current(t))
    BY <2>1, <2>2, CloseStreams
  <2>3. CASE UNCHANGED <<isRun, hungup, pending>>
    BY <2>1, <2>3, SameStreams
  <2> QED BY <1>3, <2>2, <2>3 DEF OnRun, CloseOne
<1>4. CASE TypeExit
  BY <1>4 DEF TypeExit, workerVars, netVars, Streams, Sends, Current, Whole, Returned, Left, Lost
<1>5. CASE ReturnMain
  <2>1. Sends'
    BY <1>5 DEF ReturnMain, Sends
  <2>2. \A c \in Clients \ isRun : pending'[c] = pending[c]
    BY <1>5 DEF ReturnMain, Streams, Sends
  <2>3. /\ hungup' = hungup \cup isRun /\ isRun \in SUBSET Clients
        /\ UNCHANGED <<closed, lastPos, fdRead, temp, clients, wire>>
    BY <1>5 DEF ReturnMain, workerVars, Types, ClientTypes
  <2> QED BY <2>1, <2>2, <2>3, LostStreams
<1>6. ASSUME NEW c \in Clients, Break(c) PROVE Streams'
  <2>1. Sends'
    BY <1>6, SendsStays DEF Break, Streams
  <2>2. /\ hungup' = hungup \cup {c} /\ UNCHANGED <<closed, lastPos, fdRead, temp, clients>>
        /\ \A d \in Clients \ {c} : wire'[d] = wire[d] /\ pending'[d] = pending[d]
    BY <1>6 DEF Break, workerVars, clientVars, Types, NetTypes
  <2>3. {c} \in SUBSET Clients
    OBVIOUS
  <2> QED BY <2>1, <2>2, <2>3, LostStreams
<1> QED BY <1>1, <1>2, <1>3, <1>4, <1>5, <1>6 DEF ThreadStep

------------------------------------------------------------------------------
(***************************************************************************)
(* The invariant, and what follows from it.                                *)
(***************************************************************************)
LEMMA EarlierInitially == Init => EarlierInv
<1> SUFFICES ASSUME Init PROVE EarlierInv
  OBVIOUS
<1> USE DEF Init, ServerInit
<1>1. Types
  <2>1. \A t \in Threads : Len(Mine[t]) \in Nat /\ 1 \in 1 .. Len(Mine[t])
    BY ClientConstants
  <2>2. Servers # {} /\ 1 \in Servers /\ 1 \in 1 .. NumServers + 1 /\ 0 \in 0 .. Length - 1
    <3>1. NumServers \in Nat \ {0} /\ Length \in Nat \ {0}
      BY EarlierConstants
    <3>2. 1 \in 1 .. NumServers /\ 1 \in 1 .. NumServers + 1 /\ 0 \in 0 .. Length - 1
      BY <3>1
    <3> QED BY <3>2 DEF Servers
  <2>3. ClientTypes
    BY <2>1 DEF ClientTypes
  <2>4. MainTypes /\ NetTypes
    BY <2>2 DEF MainTypes, NetTypes
  <2>5. WorkerTypes
    BY <2>2 DEF WorkerTypes, Places
  <2> QED BY <2>3, <2>4, <2>5 DEF Types
<1>2. \A s \in Servers : Buffered(s) = {} /\ clients[s] = {} /\ temp[s] = {} /\ fdRead[s] = {}
  BY EmptyBuffer DEF Buffered
<1>3. Waiting = {} /\ Placing = {}
  BY EmptyBuffer DEF Waiting, Placing
<1>4. Apart
  BY <1>2, <1>3 DEF Apart, Kept, NoneTwice
<1>5. Counted
  <2>1. AllHeld = {}
    BY <1>2 DEF AllHeld, Held
  <2> QED BY <2>1, FS_EmptySet DEF Counted, Joining
<1>6. Streams
  <2>1. Length \in Nat \ {0} /\ 0 % Length = 0
    BY EarlierConstants
  <2>2. Whole
    BY <2>1 DEF Whole
  <2> QED BY <1>2, <2>2 DEF Streams, Sends, Returned, Left
<1>7. \A s \in Servers : Watching(s) /\ Reading(s)
  BY <1>2 DEF Watching, Reading
<1> QED BY <1>1, <1>4, <1>5, <1>6, <1>7 DEF EarlierInv

LEMMA EarlierStep == EarlierInv /\ [Next]_vars => EarlierInv'
<1> SUFFICES ASSUME EarlierInv, [Next]_vars PROVE EarlierInv'
  OBVIOUS
<1>0. /\ Types /\ Apart /\ Counted /\ Streams /\ Types'
      /\ \A s \in Servers : Watching(s) /\ Reading(s)
  BY NextTyped DEF EarlierInv
<1>1. CASE UNCHANGED vars
  <2>1. UNCHANGED <<main, newClient, clientCount, place, clients, clientsBuff, change, bak, fdRead, temp,
                    lastPos, backlog, wire, hungup, closed, at, turn, isRun, pending>>
    BY <1>1 DEF vars, mainVars, workerVars, netVars, clientVars
  <2>2. Apart'
    <3>1. /\ Placing' = Placing /\ Coming' = Coming
          /\ \A s \in Servers : Kept(s)' = Kept(s)
      BY <2>1 DEF Kept, Placing, Coming, Buffered
    <3> QED BY <1>0, <2>1, <3>1, ApartStays
  <2>3. Counted'
    BY <1>0, <2>1 DEF Counted, AllHeld, Held, Buffered, Failed, Joining
  <2>4. Streams'
    BY <1>0, <2>1 DEF Streams, Sends, Whole, Returned, Left, Lost, Current
  <2>5. \A s \in Servers : Watching(s)' /\ Reading(s)'
    BY <1>0, <2>1 DEF Watching, Reading, Buffered
  <2> QED BY <1>0, <2>2, <2>3, <2>4, <2>5 DEF EarlierInv
<1>2. CASE (MainStep \/ AcceptFail \/ Exit) /\ UNCHANGED clientVars
  BY <1>0, <1>2, MainApart, MainCounted, MainStreams, MainWatchRead DEF EarlierInv
<1>3. ASSUME NEW s \in Servers, WorkerDoes(s), UNCHANGED clientVars PROVE EarlierInv'
  BY <1>0, <1>3, WorkerApart, WorkerCounted, WorkerStreams, WatchStep, ReadStep DEF EarlierInv
<1>4. CASE \/ \E t \in Threads : ThreadStep(t)
           \/ TypeExit \/ ReturnMain \/ \E c \in Clients : Break(c)
  <2>1. UNCHANGED <<mainVars, workerVars>>
    BY <1>4 DEF ThreadStep, Connect, SendData, Sending, OnRun, CloseOne, TypeExit, ReturnMain, Break
  <2>2. UNCHANGED <<main, clientCount, place, clients, clientsBuff, change, bak, fdRead, temp>>
    BY <2>1 DEF mainVars, workerVars
  <2>3. Counted'
    BY <1>0, <2>2 DEF Counted, AllHeld, Held, Buffered, Failed, Joining
  <2>4. \A s \in Servers : Watching(s)' /\ Reading(s)'
    BY <1>0, <2>2 DEF Watching, Reading, Buffered
  <2> QED BY <1>0, <1>4, <2>3, <2>4, ClientApart, ClientStreams DEF EarlierInv
<1> QED BY <1>1, <1>2, <1>3, <1>4 DEF Next, Server, WorkerDoes

\* The inductive invariant of the earlier server and its test program: where each client
\* is, what each worker knows of its clients, and the bytes of each stream.
THEOREM EarlierInvariant == Spec => []EarlierInv
<1> QED BY EarlierInitially, EarlierStep, PTL DEF Spec

\* EasyTcpServer.hpp:158-207,236-256: for any number of servers, a worker that waits in select
\* watches every client it has, whatever joined and left since the set was made.
THEOREM EarlierWatchesAll == Spec => []WatchesAll
<1>1. EarlierInv => WatchesAll
  BY DEF EarlierInv, Watching, WatchesAll
<1> QED BY <1>1, EarlierInvariant, PTL

\* EasyTcpServer.hpp:161-173,236-256,309-315,466-479, server.cpp:28-38: no client is ever in two servers, and as
\* long as no worker's select has failed the counter is the number of clients held,
\* though main counts a client only after a worker may have seen it leave.
THEOREM EarlierCountHeld == Spec => []CountHeld
<1>1. EarlierInv => CountHeld
  <2> SUFFICES ASSUME EarlierInv PROVE CountHeld
    OBVIOUS
  <2>1. \A r, s \in Servers : r # s => Held(r) \cap Held(s) = {}
    BY DEF EarlierInv, Apart, Kept, Held
  <2> QED BY <2>1 DEF EarlierInv, Counted, AllHeld, Joining, CountHeld
<1> QED BY <1>1, EarlierInvariant, PTL

\* EasyTcpServer.hpp:263-301: for any lengths of a login, of a recv and of a send, each
\* stream that still lasts is cut between logins only, and a recv always has room.
THEOREM EarlierStreamWhole == Spec => []StreamWhole
<1>1. EarlierInv => StreamWhole
  <2> SUFFICES ASSUME EarlierInv PROVE StreamWhole
    OBVIOUS
  <2>1. \A c \in Clients : lastPos[c] \in 0 .. Length - 1
    BY DEF EarlierInv, Types, WorkerTypes
  <2>2. \A p \in 0 .. Length - 1 : p + RecvSize <= MsgSize
    BY EarlierConstants
  <2>3. Whole
    BY DEF EarlierInv, Streams
  <2> QED BY <2>1, <2>2, <2>3 DEF StreamWhole, Whole, Lost
<1> QED BY <1>1, EarlierInvariant, PTL
================================================================================
