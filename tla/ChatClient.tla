------------------------------ MODULE ChatClient ------------------------------
(***************************************************************************)
(* chat_client (new_client.cpp) as the peer of some sessions of the room.  *)
(* The main thread reads lines and posts each, and at last the close, to   *)
(* the io_service, whose run in another thread calls every handler: the    *)
(* posted tasks, and those of the connect, the read and the write under    *)
(* way.  run returns when there is nothing to wait for, and is not called  *)
(* again.                                                                  *)
(***************************************************************************)
EXTENDS ChatCommands

CONSTANT MaxLines   \* bound: lines typed

VARIABLES typists,      \* the sessions whose peer is a chat_client
          others,       \* bound: messages that other peers send
          typing,       \* where the main thread is
          typed,        \* number of lines typed
          tasks,        \* posted: line numbers, and CloseTask
          socket,       \* m_socket: connecting, connected, failed or closed
          connecting,   \* an async_connect is under way
          m_write_msgs,
          writes,       \* async_writes under way
          reads,        \* the async_read under way
          run,          \* io_service.run has not returned
          written,      \* history: the lines written
          shown         \* history: the messages shown

clientVars == <<typists, others, typing, typed, tasks, socket, connecting, m_write_msgs, writes, reads,
                run, written, shown>>
vars == <<roomVars, commandVars, clientVars>>

CloseTask == 0

ClientInit ==
    /\ typists \in SUBSET Sessions
    /\ others \in 0 .. MaxMessages - MaxLines * Cardinality(typists)
    /\ typing = [c \in Sessions |-> "line"]
    /\ typed = [c \in Sessions |-> 0]
    /\ tasks = [c \in Sessions |-> <<>>]
    /\ socket = [c \in Sessions |-> "connecting"]
    /\ connecting = typists
    /\ m_write_msgs = [c \in Sessions |-> <<>>]
    /\ writes = [c \in Sessions |-> 0]
    /\ reads = [c \in Sessions |-> "none"]
    /\ run = typists
    /\ written = [c \in Sessions |-> <<>>]
    /\ shown = [c \in Sessions |-> <<>>]

\* The connection has ended.
Lost(c) == failed[c] \/ ~running

\* m_socket.close(), which ends what is under way; the session finds out.
Close(c) ==
    /\ socket' = [socket EXCEPT ![c] = "closed"]
    /\ failed' = [failed EXCEPT ![c] = @ \/ socket[c] = "connected"]

untouched == UNCHANGED <<participants, recent, reading, queue, writing, stored, running, log,
                         start, got, commandVars, typists, others>>

------------------------------------------------------------------------------
\* The main thread.
write(c) ==
    /\ typing[c] = "line" /\ typed[c] < MaxLines
    /\ typed' = [typed EXCEPT ![c] = @ + 1]
    /\ tasks' = [tasks EXCEPT ![c] = Append(@, typed[c] + 1)]
    /\ UNCHANGED <<typing, socket, connecting, m_write_msgs, writes, reads, run, written, shown,
                   failed, up, sent>>
    /\ untouched

\* Mutant of close: main joins the other thread without it.
closeNot(c) ==
    /\ typing[c] = "line"
    /\ typing' = [typing EXCEPT ![c] = "join"]
    /\ UNCHANGED <<typed, tasks, socket, connecting, m_write_msgs, writes, reads, run, written,
                   shown, failed, up, sent>>
    /\ untouched

close(c) ==
    /\ typing[c] = "line"
    /\ typing' = [typing EXCEPT ![c] = "join"]
    /\ tasks' = [tasks EXCEPT ![c] = Append(@, CloseTask)]
    /\ UNCHANGED <<typed, socket, connecting, m_write_msgs, writes, reads, run, written, shown,
                   failed, up, sent>>
    /\ untouched

join(c) ==
    /\ typing[c] = "join" /\ c \notin run
    /\ typing' = [typing EXCEPT ![c] = "returned"]
    /\ UNCHANGED <<typed, tasks, socket, connecting, m_write_msgs, writes, reads, run, written,
                   shown, failed, up, sent>>
    /\ untouched

------------------------------------------------------------------------------
\* Mutant of Push: a write is begun for every line.
PushWrites(c, n) ==
    /\ m_write_msgs' = [m_write_msgs EXCEPT ![c] = Append(@, n)]
    /\ writes' = [writes EXCEPT ![c] = @ + 1]

\* The task of write: do_write if no write is in progress.
Push(c, n) ==
    /\ m_write_msgs' = [m_write_msgs EXCEPT ![c] = Append(@, n)]
    /\ writes' = [writes EXCEPT ![c] = IF m_write_msgs[c] = <<>> THEN @ + 1 ELSE @]

RunTask(c) ==
    /\ c \in run /\ tasks[c] # <<>>
    /\ tasks' = [tasks EXCEPT ![c] = Tail(@)]
    /\ IF Head(tasks[c]) = CloseTask
       THEN Close(c) /\ UNCHANGED <<m_write_msgs, writes>>
       ELSE Push(c, Head(tasks[c])) /\ UNCHANGED <<socket, failed>>
    /\ UNCHANGED <<typing, typed, connecting, reads, run, written, shown, up, sent>>
    /\ untouched

\* The handler of async_connect: nothing happens after an error.
do_connect(c) ==
    /\ c \in connecting
    /\ connecting' = connecting \ {c}
    /\ \/ /\ socket[c] = "connecting" /\ running
          /\ socket' = [socket EXCEPT ![c] = "connected"]
          /\ reads' = [reads EXCEPT ![c] = "header"]
       \/ /\ socket' = [socket EXCEPT ![c] = IF @ = "connecting" THEN "failed" ELSE @]
          /\ UNCHANGED reads
    /\ UNCHANGED <<typing, typed, tasks, m_write_msgs, writes, run, written, shown, failed, up, sent>>
    /\ untouched

\* The handlers of do_read_header and do_read_body: what the session has written, or
\* the end of the connection, which may overtake it.
do_read(c) ==
    /\ reads[c] # "none"
    /\ \/ /\ socket[c] = "connected" /\ Len(got[c]) > Len(shown[c])
          /\ IF reads[c] = "header"
             THEN reads' = [reads EXCEPT ![c] = "body"] /\ UNCHANGED shown
             ELSE /\ reads' = [reads EXCEPT ![c] = "header"]
                  /\ shown' = [shown EXCEPT ![c] = Append(@, got[c][Len(@) + 1])]
          /\ UNCHANGED <<socket, failed>>
       \/ /\ socket[c] = "closed" \/ Lost(c)
          /\ Close(c)
          /\ reads' = [reads EXCEPT ![c] = "none"]
          /\ UNCHANGED shown
    /\ UNCHANGED <<typing, typed, tasks, connecting, m_write_msgs, writes, run, written, up, sent>>
    /\ untouched

\* Mutant of do_write: the next line waits for another one to be typed.
do_writeOne(c) ==
    /\ writes[c] > 0 /\ socket[c] = "connected" /\ ~Lost(c)
    /\ sent < MaxMessages
    /\ up' = [up EXCEPT ![c] = Append(@, <<c, sent + 1>>)]
    /\ sent' = sent + 1
    /\ written' = [written EXCEPT ![c] = Append(@, Head(m_write_msgs[c]))]
    /\ m_write_msgs' = [m_write_msgs EXCEPT ![c] = Tail(@)]
    /\ writes' = [writes EXCEPT ![c] = @ - 1]
    /\ UNCHANGED <<typing, typed, tasks, socket, connecting, reads, run, shown, failed>>
    /\ untouched

\* The handler of do_write after a write, and do_write of the next line.  (MaxMessages is a
\* bound that others and MaxLines keep out of reach.)
do_write(c) ==
    /\ writes[c] > 0 /\ socket[c] = "connected" /\ ~Lost(c)
    /\ sent < MaxMessages
    /\ up' = [up EXCEPT ![c] = Append(@, <<c, sent + 1>>)]
    /\ sent' = sent + 1
    /\ written' = [written EXCEPT ![c] = Append(@, Head(m_write_msgs[c]))]
    /\ m_write_msgs' = [m_write_msgs EXCEPT ![c] = Tail(@)]
    /\ writes' = [writes EXCEPT ![c] = IF Len(m_write_msgs[c]) > 1 THEN @ ELSE @ - 1]
    /\ UNCHANGED <<typing, typed, tasks, socket, connecting, reads, run, shown, failed>>
    /\ untouched

\* The handler after an error, which a write also meets when the socket is not connected
\* yet (or waits until it is, as the system will have it).  The line stays in the
\* queue, so that no other line is ever written.
write_fails(c) ==
    /\ writes[c] > 0
    /\ socket[c] # "connected" \/ Lost(c)
    /\ Close(c)
    /\ writes' = [writes EXCEPT ![c] = @ - 1]
    /\ UNCHANGED <<typing, typed, tasks, connecting, m_write_msgs, reads, run, written, shown, up, sent>>
    /\ untouched

\* run has nothing to wait for.
RunReturns(c) ==
    /\ c \in run
    /\ tasks[c] = <<>> /\ c \notin connecting /\ writes[c] = 0 /\ reads[c] = "none"
    /\ run' = run \ {c}
    /\ UNCHANGED <<typing, typed, tasks, socket, connecting, m_write_msgs, writes, reads, written,
                   shown, failed, up, sent>>
    /\ untouched

Run(c) == RunTask(c) \/ do_connect(c) \/ do_read(c) \/ do_write(c) \/ write_fails(c) \/ RunReturns(c)

Client(c) == c \in typists /\ (write(c) \/ close(c) \/ join(c) \/ Run(c))

------------------------------------------------------------------------------
\* A session whose peer is a chat_client is accepted once that has connected.
Connected(s) == s \in typists => socket[s] = "connected" \/ failed[s]

Session(A) == running /\ A /\ UNCHANGED <<commandVars, clientVars>>

OtherPeerSend(s) ==
    /\ s \notin typists
    /\ sent < others + FoldSet(LAMBDA c, n : n + Len(written[c]), 0, typists)
    /\ PeerSend(s)

InitChat == Init /\ CommandInit /\ ClientInit

NextChat ==
    \/ \E s \in Sessions :
          \/ Session(Connected(s) /\ Accept(s)) \/ Session(Read(s)) \/ Session(Write(s))
          \/ Session(OtherPeerSend(s)) \/ Session(PeerFail(s))
    \/ Session(Exit)
    \/ handle_command /\ UNCHANGED clientVars
    \/ \E c \in Sessions : Client(c)

\* As in ChatRoom; run calls the handlers that are ready, and main comes back from join.
\* Nobody has to type.
FairnessChat ==
    \A s \in Sessions :
        /\ WF_vars(Session(Connected(s) /\ Accept(s)))
        /\ WF_vars(Session(Read(s))) /\ WF_vars(Session(Write(s)))
        /\ WF_vars(s \in typists /\ Run(s))
        /\ WF_vars(s \in typists /\ join(s))

SpecChat == InitChat /\ [][NextChat]_vars /\ FairnessChat

------------------------------------------------------------------------------
\* new_client.cpp:21-31,79-93: however lines are posted while others are written, no two
\* writes are under way, none is forgotten while the socket is open, and the lines
\* that have been written are the first ones typed, in their order.
OneWrite ==
    \A c \in typists :
        /\ writes[c] <= 1
        /\ m_write_msgs[c] # <<>> /\ socket[c] \in {"connecting", "connected"} => writes[c] = 1
        /\ \A i \in DOMAIN written[c] : written[c][i] = i

\* The lines of a client that it has been shown.
Own(c) == SelectSeq(shown[c], LAMBDA m : m[1] = c)

\* new_client.cpp:21-93, new_server.cpp:107-184: every line typed comes back and is
\* shown, unless the connection ends, which close does whatever is still to be
\* written or read.
LineShown ==
    \A c \in Sessions, n \in 1 .. MaxLines :
        c \in typists /\ typed[c] >= n
            ~> Len(Own(c)) >= n \/ socket[c] \in {"failed", "closed"} \/ Lost(c)

\* new_client.cpp:124-125: once main has posted the close, run returns and main with it,
\* whatever the connect, the reads and the writes are doing; also when run returned
\* long before and the close is never carried out.
CloseReturns == \A c \in Sessions : typing[c] = "join" ~> typing[c] = "returned"
===============================================================================
