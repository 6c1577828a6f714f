----------------------------- MODULE EasyTcpClient -----------------------------
(***************************************************************************)
(* The test program of the library (client.cpp) with one of its            *)
(* EasyTcpClients (EasyTcpClient.hpp, CELLClient and CELLBuffer):          *)
(* sendThread makes and connects it, calls SendData on it and at last      *)
(* deletes it, recvThread calls OnRun, and nothing keeps the two apart.    *)
(*                                                                         *)
(* The send buffer is shared memory: _pBuff holds messages of one length   *)
(* (client.cpp sends logins only) in slots 1, 2, ..., of which the first   *)
(* _nLast count.  push tests and copies, then adds to _nLast; write2socket *)
(* sends, then clears _nLast.  Whether the addition uses the _nLast it     *)
(* tested or reads it again is up to the compiler.  A call through a       *)
(* _pClient that is null or deleted ends the program here.                 *)
(***************************************************************************)
EXTENDS Integers, Sequences, FiniteSets

CONSTANTS Messages,     \* the logins sendThread sends, each once
          Slots,        \* messages the send buffer holds
          Junk          \* what a slot holds that was never written

VARIABLES memory, last,         \* _pBuff and _nLast of _sendBuff
          pClient,              \* there is a _pClient
          isConnect,            \* _isConnect
          g_bRun,
          program,              \* "runs", "returned" or "crashed"
          sender, message, offset,  \* sendThread, and what it has in push
          receiver,                 \* recvThread in OnRun
          wire,                 \* messages send has taken
          accepted              \* history: messages SendData returned a length for

buffVars == <<memory, last, wire, accepted>>
connVars == <<pClient, isConnect>>
senderVars == <<sender, message, offset>>
vars == <<buffVars, connVars, g_bRun, program, senderVars, receiver>>

Init ==
    /\ memory = [i \in 1 .. Slots |-> Junk] /\ last = 0
    /\ pClient = FALSE /\ isConnect = FALSE
    /\ g_bRun = TRUE
    /\ program = "runs"
    /\ sender = "connect" /\ message = Junk /\ offset = 0
    /\ receiver = "none"
    /\ wire = <<>>
    /\ accepted = {}

isRun == pClient /\ isConnect

Crash == program' = "crashed" /\ UNCHANGED <<buffVars, connVars, g_bRun, senderVars, receiver>>

------------------------------------------------------------------------------
\* InitSocket, called by Connect: without a socket there is no _pClient, which Connect
\* does not test.
InitSocket ==
    /\ sender = "connect"
    /\ \/ /\ pClient' = TRUE
          /\ sender' = "connecting"
          /\ UNCHANGED <<buffVars, isConnect, g_bRun, program, message, offset, receiver>>
       \/ Crash

\* Connect may fail, and sendThread does not look at it.
Connect ==
    /\ sender = "connecting"
    /\ isConnect' \in BOOLEAN
    /\ sender' = "ready"
    /\ UNCHANGED <<buffVars, pClient, g_bRun, program, message, offset, receiver>>

\* sendThread has waited for the other sendThreads and starts recvThread.
StartReceiver ==
    /\ sender = "ready"
    /\ sender' = "idle"
    /\ receiver' = "idle"
    /\ UNCHANGED <<buffVars, connVars, g_bRun, program, message, offset>>

------------------------------------------------------------------------------
\* SendData, also without a connection.
CallSendData(m) ==
    /\ g_bRun
    /\ sender = "idle"
    /\ m \notin accepted
    /\ message' = m
    /\ sender' = "push"
    /\ UNCHANGED <<buffVars, connVars, g_bRun, program, offset, receiver>>

\* push: the test of the space and the memcpy behind _nLast; or SOCKET_ERROR.
PushCopy ==
    /\ sender = "push"
    /\ pClient
    /\ IF last + 1 <= Slots
       THEN /\ memory' = [memory EXCEPT ![last + 1] = message]
            /\ offset' = last
            /\ sender' = "count"
       ELSE sender' = "idle" /\ UNCHANGED <<memory, offset>>
    /\ UNCHANGED <<last, wire, accepted, connVars, g_bRun, program, message, receiver>>

\* push: _nLast += nLen.
PushCount ==
    /\ sender = "count"
    /\ pClient
    /\ last' \in {offset + 1, last + 1}
    /\ accepted' = accepted \cup {message}
    /\ sender' = "idle"
    /\ UNCHANGED <<memory, wire, connVars, g_bRun, program, message, offset, receiver>>

SendToNone == sender \in {"push", "count"} /\ ~pClient /\ Crash

------------------------------------------------------------------------------
\* OnRun, of a client that is connected.
CallOnRun ==
    /\ g_bRun
    /\ receiver = "idle"
    /\ isRun
    /\ receiver' = "run"
    /\ UNCHANGED <<buffVars, connVars, g_bRun, program, senderVars>>

\* select finds nothing to do, or what RecvData returns is no SOCKET_ERROR: replies to
\* handle, or 0 because the server has closed the connection.
OnRunReads ==
    /\ receiver = "run"
    /\ pClient
    /\ receiver' = "idle"
    /\ UNCHANGED <<buffVars, connVars, g_bRun, program, senderVars>>

\* write2socket, when select was asked for, and reports, a writable socket: send takes
\* the first _nLast slots.
Send ==
    /\ receiver = "run"
    /\ pClient
    /\ last > 0
    /\ wire' = wire \o SubSeq(memory, 1, last)
    /\ receiver' = "clear"
    /\ UNCHANGED <<memory, last, accepted, connVars, g_bRun, program, senderVars>>

\* write2socket: _nLast = 0.
ClearLast ==
    /\ receiver = "clear"
    /\ pClient
    /\ last' = 0
    /\ receiver' = "idle"
    /\ UNCHANGED <<memory, wire, accepted, connVars, g_bRun, program, senderVars>>

Close == pClient' = FALSE /\ isConnect' = FALSE

\* select, recv or send fails.
OnRunFails ==
    /\ receiver = "run"
    /\ Close
    /\ receiver' = "idle"
    /\ UNCHANGED <<buffVars, g_bRun, program, senderVars>>

RunOnNone == receiver \in {"run", "clear"} /\ ~pClient /\ Crash

\* recvThread ends; sendThread does not wait for that.
RecvEnds ==
    /\ ~g_bRun
    /\ receiver = "idle"
    /\ receiver' = "done"
    /\ UNCHANGED <<buffVars, connVars, g_bRun, program, senderVars>>

------------------------------------------------------------------------------
\* cmdThread reads "exit".
Exit ==
    /\ g_bRun
    /\ g_bRun' = FALSE
    /\ UNCHANGED <<buffVars, connVars, program, senderVars, receiver>>

\* The end of sendThread.
CloseClient ==
    /\ ~g_bRun
    /\ sender = "idle"
    /\ Close
    /\ sender' = "done"
    /\ UNCHANGED <<buffVars, g_bRun, program, message, offset, receiver>>

\* main returns, and the program ends whatever its detached threads are doing.
ReturnMain ==
    /\ ~g_bRun
    /\ program' = "returned"
    /\ UNCHANGED <<buffVars, connVars, g_bRun, senderVars, receiver>>

Sender ==
    \/ InitSocket \/ Connect \/ StartReceiver
    \/ \E m \in Messages : CallSendData(m)
    \/ PushCopy \/ PushCount \/ SendToNone \/ CloseClient

Receiver == CallOnRun \/ OnRunReads \/ Send \/ ClearLast \/ OnRunFails \/ RunOnNone \/ RecvEnds

Next == program = "runs" /\ (Sender \/ Receiver \/ Exit \/ ReturnMain)

Spec == Init /\ [][Next]_vars
------------------------------------------------------------------------------
\* CELLClient.hpp:78 ("immediately send the data of the send buffer"): between two
\* calls, a message SendData has accepted has been sent or still is in the buffer,
\* as long as the connection lasts.
AcceptedIsSent ==
    isRun /\ sender = "idle" /\ receiver = "idle" =>
        \A m \in accepted :
            \/ \E i \in DOMAIN wire : wire[i] = m
            \/ \E i \in 1 .. last : memory[i] = m
===============================================================================
