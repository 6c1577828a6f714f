------------------------------- MODULE ChatRoom -------------------------------
(***************************************************************************)
(* The chat server (new_server.cpp): a chat_room and the chat_sessions in  *)
(* it.  One thread runs every completion handler, so a handler is a step:  *)
(*                                                                         *)
(*   Accept(s)      do_accept's handler: the session joins, is given the   *)
(*                  recent messages and begins to read                     *)
(*   ReadHeader(s)  do_read_header's handler                               *)
(*   ReadBody(s)    do_read_body's handler: the room delivers the message, *)
(*                  the database stores it, the session reads on           *)
(*   WriteDone(s)   do_write's handler                                     *)
(*                                                                         *)
(* A session has at most one read under way (reading) and, if the code     *)
(* does what it should, one write (writing).  Operations of a connection   *)
(* that has failed end with an error, those that the system had completed  *)
(* before do not.  An exception in a handler leaves io_service.run, and    *)
(* with it main and the program.  Of the commands of the command thread    *)
(* exit is modelled; delete and update change documents only.              *)
(***************************************************************************)
EXTENDS Sequences, Integers

CONSTANTS Sessions,
          MaxRecent,    \* max_recent_msgs
          Garbage,      \* a message whose header decoder_header refuses
          MaxMessages   \* bound: messages the peers send

ASSUME ChatConstants == MaxRecent \in Nat \ {0} /\ MaxMessages \in Nat

\* The n-th message sent in the life of the server, by the peer of s.
Messages == Sessions \X (1..MaxMessages)

VARIABLES participants, \* m_participants
          recent,       \* m_recent_msgs
          reading,      \* the read under way in each session
          queue,        \* m_write_msgs: the first is being written
          writing,      \* whether an async_write is under way
          stored,       \* documents of the collection, in order of insertion
          running,      \* whether io_service.run goes on
          up,           \* messages of each peer that are not read yet
          failed,       \* whether the connection of each session has failed
          sent,         \* number of messages the peers have sent
          log,          \* history: messages delivered in the room
          start,        \* history: where in the log each session came in
          got           \* history: messages written to each peer

roomVars == <<participants, recent, reading, queue, writing, stored, running,
              up, failed, sent, log, start, got>>

Init ==
    /\ participants = {}
    /\ recent = <<>>
    /\ reading = [s \in Sessions |-> "none"]
    /\ queue = [s \in Sessions |-> <<>>]
    /\ writing = [s \in Sessions |-> FALSE]
    /\ stored = <<>>
    /\ running = TRUE
    /\ up = [s \in Sessions |-> <<>>]
    /\ failed = [s \in Sessions |-> FALSE]
    /\ sent = 0
    /\ log = <<>>
    /\ start = [s \in Sessions |-> 0]
    /\ got = [s \in Sessions |-> <<>>]

------------------------------------------------------------------------------
\* The sessions of S whose deliver starts a write for ms: those with no message
\* in the queue.
Starting(S, ms) == {s \in S : queue[s] = <<>> /\ ms # <<>>}

\* Mutant of Deliver: messages are pushed at the front of the queue.
DeliverFront(S, ms) ==
    /\ queue' = [s \in Sessions |-> IF s \in S THEN ms \o queue[s] ELSE queue[s]]
    /\ writing' = [s \in Sessions |-> writing[s] \/ s \in Starting(S, ms)]

\* chat_session::deliver for each of the messages ms, in every session of S.
Deliver(S, ms) ==
    /\ queue' = [s \in Sessions |-> IF s \in S THEN queue[s] \o ms ELSE queue[s]]
    /\ writing' = [s \in Sessions |-> writing[s] \/ s \in Starting(S, ms)]

Leave(s) == participants' = participants \ {s}

\* chat_room::join.
Join(s) ==
    /\ participants' = participants \cup {s}
    /\ Deliver({s}, recent)

Accept(s) ==
    /\ running
    /\ reading[s] = "none"
    /\ Join(s)
    /\ reading' = [reading EXCEPT ![s] = "header"]
    /\ start' = [start EXCEPT ![s] = Len(log) - Len(recent)]
    /\ UNCHANGED <<recent, stored, running, up, failed, sent, log, got>>

\* The handler of a read that has failed.
ReadFails(s) ==
    /\ reading[s] \in {"header", "body"}
    /\ failed[s]
    /\ Leave(s)
    /\ reading' = [reading EXCEPT ![s] = "ended"]
    /\ UNCHANGED <<recent, queue, writing, stored, running, up, failed, sent, log, start, got>>

\* decoder_header finds a length beyond max_body_length.
Refused(m) == m = Garbage

ReadHeader(s) ==
    /\ reading[s] = "header"
    /\ up[s] # <<>>
    /\ IF Refused(Head(up[s]))
       THEN Leave(s) /\ reading' = [reading EXCEPT ![s] = "ended"]
       ELSE reading' = [reading EXCEPT ![s] = "body"] /\ UNCHANGED participants
    /\ UNCHANGED <<recent, queue, writing, stored, running, up, failed, sent, log, start, got>>

\* chat_room::deliver keeps the last MaxRecent messages.
Remember(m) ==
    LET r == Append(recent, m)
    IN  recent' = IF Len(r) > MaxRecent THEN Tail(r) ELSE r

\* newDate has stored the message, or has thrown: the peer has no address any
\* more, the database is down.
Store(s, m) ==
    \/ /\ stored' = Append(stored, m)
       /\ reading' = [reading EXCEPT ![s] = "header"]
       /\ UNCHANGED running
    \/ /\ running' = FALSE
       /\ UNCHANGED <<stored, reading>>

ReadBody(s) ==
    /\ reading[s] = "body"
    /\ LET m == Head(up[s])
       IN  /\ Remember(m)
           /\ Deliver(participants, <<m>>)
           /\ Store(s, m)
           /\ log' = Append(log, m)
    /\ up' = [up EXCEPT ![s] = Tail(@)]
    /\ UNCHANGED <<participants, failed, sent, start, got>>

\* Mutant of WriteNext: the next write is left to deliver.
WriteNextNot(s) == writing' = [writing EXCEPT ![s] = FALSE]

\* The handler goes on with the next message, if there is one.
WriteNext(s) == writing' = [writing EXCEPT ![s] = Len(queue[s]) > 1]

WriteDone(s) ==
    /\ writing[s]
    /\ queue' = [queue EXCEPT ![s] = Tail(@)]
    /\ WriteNext(s)
    /\ got' = [got EXCEPT ![s] = Append(@, Head(queue[s]))]
    /\ UNCHANGED <<participants, recent, reading, stored, running, up, failed, sent, log, start>>

\* The handler of a write that has failed: the message stays in the queue.
WriteFails(s) ==
    /\ writing[s]
    /\ failed[s]
    /\ Leave(s)
    /\ writing' = [writing EXCEPT ![s] = FALSE]
    /\ UNCHANGED <<recent, reading, queue, stored, running, up, failed, sent, log, start, got>>

\* handle_command("exit") ends the program from its own thread.
Exit ==
    /\ running' = FALSE
    /\ UNCHANGED <<participants, recent, reading, queue, writing, stored, up, failed, sent,
                   log, start, got>>

------------------------------------------------------------------------------
\* The peer of an accepted session sends a message, or its connection fails.
PeerSend(s) ==
    /\ reading[s] # "none"
    /\ ~failed[s]
    /\ sent < MaxMessages
    /\ sent' = sent + 1
    /\ \E m \in {<<s, sent + 1>>, Garbage} : up' = [up EXCEPT ![s] = Append(@, m)]
    /\ UNCHANGED <<participants, recent, reading, queue, writing, stored, running, failed,
                   log, start, got>>

PeerFail(s) ==
    /\ reading[s] # "none"
    /\ ~failed[s]
    /\ failed' = [failed EXCEPT ![s] = TRUE]
    /\ UNCHANGED <<participants, recent, reading, queue, writing, stored, running, up, sent,
                   log, start, got>>

------------------------------------------------------------------------------
Read(s) == ReadFails(s) \/ ReadHeader(s) \/ ReadBody(s)

Write(s) == WriteDone(s) \/ WriteFails(s)

Next ==
    /\ running
    /\ \/ \E s \in Sessions : Accept(s) \/ Read(s) \/ Write(s) \/ PeerSend(s) \/ PeerFail(s)
       \/ Exit

\* io_service.run calls the handlers of operations that have ended.  A write
\* ends, because a peer reads or its connection fails.
Fairness ==
    \A s \in Sessions : WF_roomVars(running /\ Read(s)) /\ WF_roomVars(running /\ Write(s))

Spec == Init /\ [][Next]_roomVars /\ Fairness
------------------------------------------------------------------------------
\* The state is well formed, a read of a body has a message to read, and a
\* session whose read has ended is out of the room.
TypeOK ==
    /\ participants \subseteq Sessions
    /\ recent \in Seq(Messages) /\ Len(recent) <= MaxRecent
    /\ reading \in [Sessions -> {"none", "header", "body", "ended"}]
    /\ queue \in [Sessions -> Seq(Messages)]
    /\ writing \in [Sessions -> BOOLEAN]
    /\ running \in BOOLEAN
    /\ failed \in [Sessions -> BOOLEAN]
    /\ sent \in 0..MaxMessages
    /\ \A s \in Sessions :
          running /\ reading[s] = "body" => up[s] # <<>> /\ Head(up[s]) # Garbage
    /\ \A s \in participants : reading[s] \in {"header", "body"}

\* new_server.cpp:96-105,169-184: deliver and the handler of the write hand the
\* queue over to each other: a message in the queue of a member is always being
\* written or waits behind one that is, and no write goes on without a message.
WriteUnderWay ==
    \A s \in Sessions :
        /\ writing[s] => queue[s] # <<>>
        /\ s \in participants /\ queue[s] # <<>> => writing[s]

\* new_server.cpp:154-160: the room tells a message before the database has it,
\* so a message may be lost to the database, but only with the whole program:
\* at any other time it holds what the room was told, in that order (before any
\* document is deleted or updated by hand).
StoredAll ==
    \/ stored = log
    \/ ~running /\ stored = SubSeq(log, 1, Len(log) - 1)

\* The messages a session has been given, in the mapping to ChatLog.
Given(s) == start[s] + Len(got[s]) + Len(queue[s])

Status(s) ==
    IF reading[s] = "none" THEN "out" ELSE IF s \in participants THEN "in" ELSE "left"

Abstract == INSTANCE ChatLog WITH
    Readers <- Sessions,
    status  <- [s \in Sessions |-> Status(s)],
    from    <- start,
    last    <- [s \in Sessions |-> Given(s)],
    seen    <- got,
    open    <- running

\* new_server.cpp:31-59,96-184: the room is a log, and every session is sent a
\* stretch of it, from the recent messages at its joining, in order, each message
\* once, to the end of it if it stays.
IsChatLog == Abstract!Spec
===============================================================================
