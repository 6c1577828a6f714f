------------------------------- MODULE MCEarlier -------------------------------
(***************************************************************************)
(* Two servers and two clients in one thread; a login has two bytes, and   *)
(* the system does not hold all of a SendData.  The behaviour begins when  *)
(* the first server's client has left and the second has a client of       *)
(* another program, which says nothing and stays: the clients of the       *)
(* thread can meet in one server.                                          *)
(***************************************************************************)
EXTENDS EarlierClient, TLC

CONSTANTS c1, c2, silent, t1

MCMine == t1 :> <<c1, c2>>

MCBegun ==
    /\ g_bRun = TRUE /\ at = [t \in Threads |-> "connect"] /\ turn = [t \in Threads |-> 1]
    /\ isRun = {} /\ pending = [c \in Clients |-> 0]
    /\ listening = TRUE /\ backlog = <<>> /\ wire = [c \in Clients |-> 0]
    /\ hungup = {} /\ closed = {}
    /\ main = "loop" /\ newClient = NoClient /\ minServer = 2 /\ next = 3 /\ clientCount = 1
    /\ place = [s \in Servers |-> IF s = 2 THEN "wait" ELSE "loop"]
    /\ clients = [s \in Servers |-> IF s = 2 THEN {silent} ELSE {}]
    /\ bak = clients
    /\ change = [s \in Servers |-> FALSE]
    /\ clientsBuff = [s \in Servers |-> <<>>]
    /\ fdRead = [s \in Servers |-> {}] /\ temp = [s \in Servers |-> {}]
    /\ lastPos = [c \in Clients |-> 0]

\* Or nothing listens.
MCInit == MCBegun \/ (Init /\ ~listening)

MCSpec == MCInit /\ [][Next]_vars /\ Fairness
==============================================================================
