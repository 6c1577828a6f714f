------------------------------ MODULE Connection ------------------------------
(***************************************************************************)
(* One connection: the worker of a CELLServer (CELLClient.hpp,             *)
(* CELLServer.hpp, MyServer in server.cpp) and the EasyTcpClient at the    *)
(* other end (EasyTcpClient.hpp, MyClient in client.cpp).  In each round   *)
(* the worker                                                              *)
(*   reads    a piece of what the client has sent into _recvBuff, handles  *)
(*            every whole message in it and puts the replies in _sendBuff, *)
(*   writes   _sendBuff to the socket, when that is writable.              *)
(* The client's OnRun does the same with a _recvBuff of its own; what it   *)
(* sends is of no interest here but for the messages in it.                *)
(*                                                                         *)
(* TCP is a stream: a read returns any number of bytes there are.  The     *)
(* sockets block: send returns when the system has taken every byte, which *)
(* may need the client to read (Window is what the system holds for it),   *)
(* or with an error.                                                       *)
(***************************************************************************)
EXTENDS CELLBuffer, SequencesExt

CONSTANTS RecvSize, SendSize,   \* RECV_BUFF_SZIE, SEND_BUFF_SZIE
          Reply,                \* the kind of reply a kind gets, or NoReply
          NoReply,
          Window,               \* bytes on the way to the client, at most
          MaxMessages           \* bound: messages the client sends

ASSUME ConnectionConstants ==
    /\ RecvSize \in Nat /\ SendSize \in Nat
    /\ Window \in Nat \ {0} /\ MaxMessages \in Nat
    /\ \A k \in Kinds : Length[k] <= RecvSize
    /\ RecvSize <= SendSize
    /\ \A k \in Kinds : Reply[k] # NoReply => Length[Reply[k]] \in HeaderSize .. Length[k]

VARIABLES wire,         \* bytes the client has sent and recv has not returned
          recvBuff,     \* _recvBuff
          sendBuff,     \* _sendBuff
          written,      \* how much of _sendBuff the send under way has passed on
          back,         \* bytes sent and not yet read by the client
          place,        \* where the worker is
          clientBuff,   \* the client's _recvBuff
          client,       \* where the client is in OnRun
          sent,         \* history: the messages of the client
          handled,      \* history: those MyServer::OnNetMsg was called with
          accepted,     \* history: replies SendData accepted
          refused,      \* history: replies SendData refused
          got,          \* history: replies MyClient::OnNetMsg was called with
          blocked       \* history: a round found the socket not writable

clientVars == <<clientBuff, client, got>>
histories == <<sent, handled, accepted, refused, blocked>>
vars == <<wire, recvBuff, sendBuff, written, back, place, clientVars, histories>>

Init ==
    /\ wire = <<>> /\ recvBuff = <<>> /\ sendBuff = <<>> /\ back = <<>>
    /\ written = 0
    /\ place = "read"
    /\ clientBuff = <<>> /\ client = "run"
    /\ sent = <<>> /\ handled = <<>> /\ accepted = <<>> /\ got = <<>>
    /\ refused = 0
    /\ blocked = FALSE

------------------------------------------------------------------------------
\* The client sends a message.
ClientSend(k) ==
    /\ client # "closed"
    /\ Len(sent) < MaxMessages
    /\ LET m == [kind |-> k, id |-> Len(sent) + 1]
       IN  wire' = wire \o Bytes(m) /\ sent' = Append(sent, m)
    /\ UNCHANGED <<recvBuff, sendBuff, written, back, place, clientVars, handled, accepted,
                   refused, blocked>>

\* OnRun with something to read: RecvData takes what fits of it.  (At the end of the
\* connection it returns 0, and with nothing to read it is not called: neither
\* changes anything.)
ClientOnRun ==
    /\ client = "run"
    /\ \E n \in 1 .. Len(back) :
          /\ n <= RecvSize - Len(clientBuff)
          /\ clientBuff' = clientBuff \o SubSeq(back, 1, n)
          /\ back' = Pop(back, n)
    /\ client' = "handle"
    /\ UNCHANGED <<wire, recvBuff, sendBuff, written, place, got, histories>>

\* MyClient::OnNetMsg only looks at the message.
ClientOnNetMsg(m) == got' = Append(got, m)

\* pop_front_msg
PopFrontMsg(data) == IF HasMsg(data) THEN Pop(data, Length[FrontMsg(data).kind]) ELSE data

\* RecvData of the client: "while (hasMsg())".
ClientHandle ==
    /\ client = "handle"
    /\ IF HasMsg(clientBuff)
       THEN /\ ClientOnNetMsg(FrontMsg(clientBuff))
            /\ clientBuff' = PopFrontMsg(clientBuff)
            /\ UNCHANGED client
       ELSE client' = "run" /\ UNCHANGED <<clientBuff, got>>
    /\ UNCHANGED <<wire, recvBuff, sendBuff, written, back, place, histories>>

\* select, recv or send of the client fails, or its program closes it.
ClientClose ==
    /\ client = "run"
    /\ client' = "closed"
    /\ clientBuff' = <<>>
    /\ back' = <<>>
    /\ UNCHANGED <<wire, recvBuff, sendBuff, written, place, got, histories>>

------------------------------------------------------------------------------
\* read4socket: what fits of what has come.  A full buffer reads nothing, and
\* RecvData takes the 0 for the end of the connection.
Read ==
    /\ place = "read"
    /\ wire # <<>>
    /\ \/ /\ Len(recvBuff) < RecvSize
          /\ \E n \in 1 .. Len(wire) :
                /\ n <= RecvSize - Len(recvBuff)
                /\ recvBuff' = recvBuff \o SubSeq(wire, 1, n)
                /\ wire' = Pop(wire, n)
          /\ place' = "handle"
       \/ /\ Len(recvBuff) >= RecvSize
          /\ place' = "full"
          /\ UNCHANGED <<wire, recvBuff>>
    /\ UNCHANGED <<sendBuff, written, back, clientVars, histories>>

\* The select of this round did not find the socket readable.
NoRead ==
    /\ place = "read"
    /\ place' = "write"
    /\ UNCHANGED <<wire, recvBuff, sendBuff, written, back, clientVars, histories>>

\* recv or send fails, or the peer has closed: the client is deleted.
Fail ==
    /\ place \in {"read", "sending"}
    /\ place' = "closed"
    /\ UNCHANGED <<wire, recvBuff, sendBuff, written, back, clientVars, histories>>

\* SendData of the reply, if the message gets one.
Answer(m) ==
    LET r == [kind |-> Reply[m.kind], id |-> m.id]
    IN  IF r.kind = NoReply
        THEN UNCHANGED <<sendBuff, accepted, refused>>
        ELSE IF Fits(sendBuff, r, SendSize)
             THEN /\ sendBuff' = Push(sendBuff, r)
                  /\ accepted' = Append(accepted, r)
                  /\ UNCHANGED refused
             ELSE refused' = refused + 1 /\ UNCHANGED <<sendBuff, accepted>>

\* One turn of "while (hasMsg())": OnNetMsg, then pop_front_msg.
Handle ==
    /\ place = "handle"
    /\ HasMsg(recvBuff)
    /\ LET m == FrontMsg(recvBuff)
       IN  /\ Answer(m)
           /\ handled' = Append(handled, m)
           /\ recvBuff' = PopFrontMsg(recvBuff)
    /\ UNCHANGED <<wire, written, back, place, clientVars, sent, blocked>>

HandleEnd ==
    /\ place = "handle"
    /\ ~HasMsg(recvBuff)
    /\ place' = "write"
    /\ UNCHANGED <<wire, recvBuff, sendBuff, written, back, clientVars, histories>>

\* Mutant of Write: replies are collected until the buffer is nearly full.
WriteLate ==
    /\ place = "write"
    /\ \/ Len(sendBuff) < SendSize - 1 /\ place' = "read"
       \/ Len(sendBuff) >= SendSize - 1 /\ Len(back) < Window /\ place' = "sending"
    /\ UNCHANGED <<wire, recvBuff, sendBuff, written, back, clientVars, histories>>

\* WriteData: nothing to write, or the socket is not writable, or send is called.
Write ==
    /\ place = "write"
    /\ \/ sendBuff = <<>> /\ place' = "read" /\ UNCHANGED blocked
       \/ sendBuff # <<>> /\ Len(back) = Window /\ place' = "read" /\ blocked' = TRUE
       \/ sendBuff # <<>> /\ Len(back) < Window /\ place' = "sending" /\ UNCHANGED blocked
    /\ UNCHANGED <<wire, recvBuff, sendBuff, written, back, clientVars, sent, handled, accepted,
                   refused>>

\* Mutant of Sending: _nLast is cleared after a part of the bytes.
SendingPart ==
    /\ place = "sending"
    /\ \E n \in 1 .. Len(sendBuff) - written :
          /\ Len(back) + n <= Window
          /\ back' = back \o SubSeq(sendBuff, written + 1, written + n)
    /\ sendBuff' = <<>> /\ written' = 0 /\ place' = "read"
    /\ UNCHANGED <<wire, recvBuff, clientVars, histories>>

\* Inside send: the system takes some bytes; after the last one write2socket sets
\* _nLast to zero.
Sending ==
    /\ place = "sending"
    /\ \E n \in 1 .. Len(sendBuff) - written :
          /\ Len(back) + n <= Window
          /\ back' = back \o SubSeq(sendBuff, written + 1, written + n)
          /\ IF written + n = Len(sendBuff)
             THEN sendBuff' = <<>> /\ written' = 0 /\ place' = "read"
             ELSE written' = written + n /\ UNCHANGED <<sendBuff, place>>
    /\ UNCHANGED <<wire, recvBuff, clientVars, histories>>

Worker == Read \/ Handle \/ HandleEnd \/ Write \/ Sending

Client == ClientOnRun \/ ClientHandle

Next == (\E k \in Kinds : ClientSend(k)) \/ Client \/ ClientClose \/ Worker \/ NoRead \/ Fail

\* The worker and the client's thread run, and select reports a socket that stays
\* readable.
Fairness == WF_vars(Worker) /\ SF_vars(Read) /\ WF_vars(NoRead) /\ WF_vars(Client)

Spec == Init /\ [][Next]_vars /\ Fairness
------------------------------------------------------------------------------
Closed == place = "closed" \/ client = "closed"

\* Bytes in the order of their messages, and of their places in one message.
Before(b, c) == b.msg.id < c.msg.id \/ (b.msg = c.msg /\ b.at < c.at)

\* data is these messages one after the other: bytes of nothing else, every message
\* whole, and all of them in their order.
IsStream(data, messages) ==
    /\ \A j \in 1 .. Len(data) : \E i \in 1 .. Len(messages) :
          data[j].msg = messages[i] /\ data[j].at \in 1 .. Length[messages[i].kind]
    /\ \A i \in 1 .. Len(messages) : \E p \in 0 .. Len(data) - Length[messages[i].kind] :
          \A n \in 1 .. Length[messages[i].kind] : data[p + n] = [msg |-> messages[i], at |-> n]
    /\ \A j, k \in 1 .. Len(data) : j < k => Before(data[j], data[k])

\* CELLServer.hpp:235-254, CELLBuffer.hpp:67-126: whatever pieces the stream comes in,
\* the messages handled are the first of the messages sent, in their order, and what
\* is still to be read and handled is exactly the others.
StreamConserved ==
    /\ IsPrefix(handled, sent)
    /\ IsStream(recvBuff \o wire, Pop(sent, Len(handled)))

\* CELLBuffer.hpp:29-49,79-126, EasyTcpClient.hpp:144-160: the client gets the
\* accepted replies in their order, and what is on its way is exactly the others, each
\* of them whole, whatever pieces they come in; a refused one leaves nothing behind.
RepliesWhole ==
    ~Closed =>
        /\ IsPrefix(got, accepted)
        /\ IsStream(clientBuff \o back \o Pop(sendBuff, written), Pop(accepted, Len(got)))

\* server.cpp:35-39: a reply is refused ("the send buffer is full, the message was
\* not sent") only if some round could not write: one round of requests never
\* fills the send buffer by itself.
RefusedOnlyBlocked == refused > 0 => blocked

\* CELLServer.hpp:235-254, CELLBuffer.hpp:95-113: every message is handled, and every
\* accepted reply handled by the client, while the connection lasts; and messages
\* that fit into a _recvBuff never fill it, which would be taken for the end of the
\* connection.
AllHandled ==
    \A i \in 1 .. MaxMessages :
        /\ Len(sent) >= i ~> (Len(handled) >= i \/ Closed)
        /\ Len(accepted) >= i ~> (Len(got) >= i \/ Closed)
==============================================================================
