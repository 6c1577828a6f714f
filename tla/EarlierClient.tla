----------------------------- MODULE EarlierClient -----------------------------
(***************************************************************************)
(* The test program of the earlier version (EasyTcpClient.hpp, client.cpp) *)
(* with its server: each thread connects its clients and then sends some   *)
(* logins from each in turn, for as long as a send may take, and looks     *)
(* whether the server has closed the connection.  The server sends         *)
(* nothing.                                                                *)
(***************************************************************************)
EXTENDS EarlierServer, SequencesExt

CONSTANTS Threads,
          Mine,       \* the clients of a thread, in the order it treats them
          Batch,      \* logins in one SendData
          Window      \* bytes the system holds of a connection

ASSUME ClientConstants ==
    /\ Batch \in Nat \ {0} /\ Window \in Nat \ {0}
    /\ Mine \in [Threads -> Seq(Clients)]
    /\ \A t \in Threads : Mine[t] # <<>>
    /\ \A t, u \in Threads : \A i \in DOMAIN Mine[t], j \in DOMAIN Mine[u] :
          Mine[t][i] = Mine[u][j] => t = u /\ i = j

VARIABLES g_bRun,
          at,         \* what each thread is about to do,
          turn,       \* with which of its clients
          isRun,      \* clients that have a socket and are connected
          pending     \* bytes the send under way has not passed on

clientVars == <<g_bRun, at, turn, isRun, pending>>
vars == <<mainVars, workerVars, netVars, clientVars>>

Init ==
    /\ ServerInit
    /\ g_bRun = TRUE
    /\ at = [t \in Threads |-> "connect"]
    /\ turn = [t \in Threads |-> 1]
    /\ isRun = {}
    /\ pending = [c \in Clients |-> 0]

NextTurn(t) == (turn[t] % Len(Mine[t])) + 1
LastTurn(t) == turn[t] = Len(Mine[t])
Current(t) == Mine[t][turn[t]]
At(t, from, to) == at[t] = from /\ at' = [at EXCEPT ![t] = to]

\* The server has closed the connection, or it has failed.
Lost(c) == c \in hungup \cup closed

Close(c) ==
    /\ isRun' = isRun \ {c}
    /\ hungup' = hungup \cup {c}
    /\ pending' = [pending EXCEPT ![c] = 0]

------------------------------------------------------------------------------
Connect(t) ==
    /\ At(t, "connect", IF LastTurn(t) THEN "send" ELSE "connect")
    /\ turn' = [turn EXCEPT ![t] = NextTurn(t)]
    /\ \/ /\ listening
          /\ backlog' = Append(backlog, Current(t))
          /\ isRun' = isRun \cup {Current(t)}
       \/ UNCHANGED <<backlog, isRun>>
    /\ UNCHANGED <<mainVars, workerVars, listening, wire, hungup, closed, g_bRun, pending>>

\* SendData: nothing without a connection, and Close when send fails.
SendData(t) ==
    LET c == Current(t) IN
    /\ IF c \in isRun /\ ~Lost(c)
       THEN /\ At(t, "send", "sending")
            /\ pending' = [pending EXCEPT ![c] = Batch * Length]
            /\ UNCHANGED <<isRun, hungup>>
       ELSE /\ At(t, "send", "run")
            /\ IF c \in isRun THEN Close(c) ELSE UNCHANGED <<isRun, hungup, pending>>
    /\ UNCHANGED <<mainVars, workerVars, listening, backlog, wire, closed, g_bRun, turn>>

\* Inside send, which blocks while the system can hold no more.
Sending(t) ==
    LET c == Current(t)
        room == Window - wire[c]
        n == IF pending[c] <= room THEN pending[c] ELSE room
    IN  /\ at[t] = "sending"
        /\ \/ /\ ~Lost(c) /\ n > 0
              /\ wire' = [wire EXCEPT ![c] = @ + n]
              /\ pending' = [pending EXCEPT ![c] = @ - n]
              /\ at' = [at EXCEPT ![t] = IF n = pending[c] THEN "run" ELSE "sending"]
              /\ UNCHANGED <<isRun, hungup>>
           \/ /\ Lost(c)
              /\ Close(c)
              /\ at' = [at EXCEPT ![t] = "run"]
              /\ UNCHANGED wire
        /\ UNCHANGED <<mainVars, workerVars, listening, backlog, closed, g_bRun, turn>>

\* OnRun, whose RecvData can only find the end of the connection; then the next client.
OnRun(t) ==
    /\ At(t, "run", IF LastTurn(t) /\ ~g_bRun THEN "close" ELSE "send")
    /\ turn' = [turn EXCEPT ![t] = NextTurn(t)]
    /\ IF Current(t) \in isRun /\ Lost(Current(t)) THEN Close(Current(t))
       ELSE UNCHANGED <<isRun, hungup, pending>>
    /\ UNCHANGED <<mainVars, workerVars, listening, backlog, wire, closed, g_bRun>>

CloseOne(t) ==
    /\ At(t, "close", IF LastTurn(t) THEN "done" ELSE "close")
    /\ turn' = [turn EXCEPT ![t] = NextTurn(t)]
    /\ IF Current(t) \in isRun THEN Close(Current(t)) ELSE UNCHANGED <<isRun, hungup, pending>>
    /\ UNCHANGED <<mainVars, workerVars, listening, backlog, wire, closed, g_bRun>>

ThreadStep(t) == Connect(t) \/ SendData(t) \/ Sending(t) \/ OnRun(t) \/ CloseOne(t)

\* "exit" is typed; main then returns, and the program's threads and sockets with it.
TypeExit ==
    /\ g_bRun /\ g_bRun' = FALSE
    /\ UNCHANGED <<mainVars, workerVars, netVars, at, turn, isRun, pending>>

ReturnMain ==
    /\ ~g_bRun /\ \E t \in Threads : at[t] # "done"
    /\ at' = [t \in Threads |-> "done"]
    /\ hungup' = hungup \cup isRun
    /\ isRun' = {}
    /\ pending' = [c \in Clients |-> 0]
    /\ UNCHANGED <<mainVars, workerVars, listening, backlog, wire, closed, g_bRun, turn>>

\* The connection fails, with what is on its way.
Break(c) ==
    /\ c \in isRun /\ ~Lost(c)
    /\ hungup' = hungup \cup {c}
    /\ wire' = [wire EXCEPT ![c] = 0]
    /\ UNCHANGED <<mainVars, workerVars, listening, backlog, closed, clientVars>>

------------------------------------------------------------------------------
Server ==
    \/ MainStep \/ AcceptFail \/ Exit
    \/ \E s \in Servers : WorkerStep(s) \/ SelectFails(s)

Next ==
    \/ Server /\ UNCHANGED clientVars
    \/ \E t \in Threads : ThreadStep(t)
    \/ TypeExit \/ ReturnMain
    \/ \E c \in Clients : Break(c)

\* All threads run, and main returns when it has been told to.
Fairness ==
    /\ WF_vars(MainStep /\ UNCHANGED clientVars)
    /\ \A s \in Servers : WF_vars(WorkerStep(s) /\ UNCHANGED clientVars)
    /\ \A t \in Threads : WF_vars(ThreadStep(t))
    /\ WF_vars(ReturnMain)

Spec == Init /\ [][Next]_vars /\ Fairness

------------------------------------------------------------------------------
Failed == {s \in Servers : place[s] \in {"close", "closeSock", "done"}}
Held(s) == Buffered(s) \cup (clients[s] \ temp[s])

\* As long as no worker's select has failed, no client is in two servers, and the counter
\* main and the workers change is the number of clients the servers have, less the
\* one main has handed over and not counted yet (it may be -1).
CountHeld ==
    /\ \A r, s \in Servers : r # s => Held(r) \cap Held(s) = {}
    /\ Failed = {} =>
          clientCount + (IF main = "join" THEN 1 ELSE 0) = Cardinality(UNION {Held(s) : s \in Servers})

\* A worker that waits in select watches every client it has, though the descriptor
\* set is kept from round to round and leaving resets _clients_change.
WatchesAll == \A s \in Servers : place[s] = "wait" => clients[s] \subseteq bak[s]

\* Whatever pieces the logins come in, what the server has of a stream and what is to
\* come begin with the rest of one login and go on with whole ones; and the
\* buffer of a client always has room for all that one recv may return.
StreamWhole ==
    \A c \in Clients :
        /\ c \notin hungup \cup closed => (lastPos[c] + wire[c] + pending[c]) % Length = 0
        /\ lastPos[c] + RecvSize <= MsgSize

\* A client of a server that hangs up is deleted, though the server may go on watching
\* descriptors of clients it has deleted.
HangupNoticed ==
    \A c \in Clients :
        c \in hungup /\ (\E s \in Servers : c \in clients[s])
            ~> \A s \in Servers : c \notin clients[s]
==============================================================================
