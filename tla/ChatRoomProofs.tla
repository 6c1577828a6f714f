---------------------------- MODULE ChatRoomProofs ----------------------------
(***************************************************************************)
(* The chat room of module ChatRoom implements the log with readers of     *)
(* module ChatLog (its safety part), and hands every queued message from   *)
(* one write to the next, for any sessions, any number of remembered       *)
(* messages and any number of messages; also with the command thread and   *)
(* chat_clients of module ChatClient beside it, which write what is typed  *)
(* in its order.                                                           *)
(***************************************************************************)
EXTENDS ChatClient, TLAPS

\* The types of the variables that module ChatLog sees, directly or not.
Types ==
    /\ participants \subseteq Sessions
    /\ recent \in Seq(Messages)
    /\ reading \in [Sessions -> {"none", "header", "body", "ended"}]
    /\ queue \in [Sessions -> Seq(Messages)]
    /\ writing \in [Sessions -> BOOLEAN]
    /\ running \in BOOLEAN
    /\ up \in [Sessions -> Seq(Messages \cup {Garbage})]
    /\ failed \in [Sessions -> BOOLEAN]
    /\ sent \in 0..MaxMessages
    /\ log \in Seq(Messages)
    /\ start \in [Sessions -> Nat]
    /\ got \in [Sessions -> Seq(Messages)]

\* A handler for a message body is called only with a message.
BodyThere ==
    \A s \in Sessions :
        running /\ reading[s] = "body" => up[s] # <<>> /\ Head(up[s]) # Garbage

\* The room remembers the end of the log, as long as MaxRecent allows.
RecentInv ==
    /\ Len(recent) = IF Len(log) > MaxRecent THEN MaxRecent ELSE Len(log)
    /\ \A i \in 1..Len(recent) : recent[i] = log[Len(log) - Len(recent) + i]

\* What waits in the queue of a session is the log, from where the session has
\* got to; for a member, up to its end.
Stretch ==
    \A s \in Sessions :
        /\ Given(s) <= Len(log)
        /\ s \in participants => Given(s) = Len(log)
        /\ \A i \in 1..Len(queue[s]) : queue[s][i] = log[start[s] + Len(got[s]) + i]

\* A session that was never accepted has nothing; a member has a read under way.
Members ==
    \A s \in Sessions :
        /\ reading[s] = "none" => got[s] = <<>> /\ queue[s] = <<>>
        /\ s \in participants => reading[s] \in {"header", "body"}

RoomInv ==
    /\ Types /\ BodyThere /\ RecentInv /\ Stretch /\ Members
    /\ WriteUnderWay

\* Nothing is delivered and nobody is accepted in the initial state.
LEMMA InitRoom == Init => RoomInv
<1> SUFFICES ASSUME Init PROVE RoomInv
  OBVIOUS
<1> USE DEF Init
<1>1. Types
  BY ChatConstants DEF Types
<1>2. BodyThere /\ Members /\ WriteUnderWay
  BY DEF BodyThere, Members, WriteUnderWay
<1>3. RecentInv /\ Stretch
  BY ChatConstants DEF RecentInv, Stretch, Given
<1>4. QED
  BY <1>1, <1>2, <1>3 DEF RoomInv

\* chat_session::deliver: queues grow at the end, and only a session that had no
\* message starts to write.
LEMMA DeliverKeeps ==
    ASSUME Types, WriteUnderWay, NEW S \in SUBSET Sessions, NEW ms \in Seq(Messages),
           Deliver(S, ms)
    PROVE  /\ queue' \in [Sessions -> Seq(Messages)]
           /\ writing' \in [Sessions -> BOOLEAN]
           /\ \A s \in Sessions :
                 /\ queue'[s] = IF s \in S THEN queue[s] \o ms ELSE queue[s]
                 /\ writing'[s] => queue'[s] # <<>>
                 /\ s \in S /\ queue'[s] # <<>> /\ (queue[s] # <<>> => writing[s])
                       => writing'[s]
                 /\ s \notin S => writing'[s] = writing[s]
<1>1. queue' \in [Sessions -> Seq(Messages)] /\ writing' \in [Sessions -> BOOLEAN]
  BY DEF Deliver, Types
<1>2. ASSUME NEW s \in Sessions
      PROVE  /\ queue'[s] = IF s \in S THEN queue[s] \o ms ELSE queue[s]
             /\ writing'[s] = (writing[s] \/ s \in Starting(S, ms))
  BY DEF Deliver
<1>3. ASSUME NEW s \in Sessions
      PROVE  /\ writing'[s] => queue'[s] # <<>>
             /\ s \in S /\ queue'[s] # <<>> /\ (queue[s] # <<>> => writing[s])
                   => writing'[s]
             /\ s \notin S => writing'[s] = writing[s]
  <2>1. queue[s] \in Seq(Messages) /\ writing[s] \in BOOLEAN
    BY DEF Types
  <2>2. (queue[s] \o ms = <<>>) <=> (queue[s] = <<>> /\ ms = <<>>)
    BY <2>1
  <2>3. QED
    BY <1>2, <2>1, <2>2 DEF Starting, WriteUnderWay
<1>4. QED
  BY <1>1, <1>2, <1>3

\* do_accept: the queue of a new session is what the room remembers, the end of
\* the log.
LEMMA AcceptStep ==
    ASSUME RoomInv, NEW s \in Sessions, Accept(s)
    PROVE  RoomInv'
<1> USE DEF RoomInv
<1>1. /\ participants' = participants \cup {s}
      /\ Deliver({s}, recent)
      /\ reading[s] = "none"
      /\ reading' = [reading EXCEPT ![s] = "header"]
      /\ start' = [start EXCEPT ![s] = Len(log) - Len(recent)]
      /\ UNCHANGED <<recent, stored, running, up, failed, sent, log, got>>
  BY DEF Accept, Join
<1>2. /\ queue' \in [Sessions -> Seq(Messages)]
      /\ writing' \in [Sessions -> BOOLEAN]
      /\ \A r \in Sessions :
            /\ queue'[r] = IF r \in {s} THEN queue[r] \o recent ELSE queue[r]
            /\ writing'[r] => queue'[r] # <<>>
            /\ r \in {s} /\ queue'[r] # <<>> /\ (queue[r] # <<>> => writing[r])
                  => writing'[r]
            /\ r \notin {s} => writing'[r] = writing[r]
  <2>1. {s} \in SUBSET Sessions /\ recent \in Seq(Messages)
    BY DEF Types
  <2>2. QED
    BY <1>1, <2>1, DeliverKeeps
<1>3. got[s] = <<>> /\ queue[s] = <<>> /\ queue'[s] = recent
  <2>1. got[s] = <<>> /\ queue[s] = <<>>
    BY <1>1 DEF Members
  <2>2. <<>> \o recent = recent
    BY DEF Types
  <2>3. queue'[s] = queue[s] \o recent
    BY <1>2
  <2>4. QED
    BY <2>1, <2>2, <2>3
<1>4. Len(recent) \in Nat /\ Len(log) \in Nat /\ Len(log) - Len(recent) \in Nat
  BY ChatConstants DEF Types, RecentInv
<1>5. Types'
  BY <1>1, <1>2, <1>4 DEF Types
<1>6. BodyThere' /\ RecentInv' /\ Members'
  BY <1>1, <1>2 DEF BodyThere, RecentInv, Members, Types
<1>7. WriteUnderWay'
  BY <1>1, <1>2, <1>3 DEF WriteUnderWay
<1>8. Stretch'
  <2> SUFFICES ASSUME NEW r \in Sessions
               PROVE  /\ Given(r)' <= Len(log)'
                      /\ r \in participants' => Given(r)' = Len(log)'
                      /\ \A i \in 1..Len(queue'[r]) :
                            queue'[r][i] = log'[start'[r] + Len(got'[r]) + i]
    BY DEF Stretch
  <2>0. got'[r] = got[r] /\ log' = log
    BY <1>1
  <2>1. CASE r = s
    <3>1. /\ start'[r] = Len(log) - Len(recent)
          /\ Len(got[r]) = 0
          /\ queue'[r] = recent
      BY <1>1, <1>3, <2>1 DEF Types
    <3>2. Given(r)' = Len(log)
      BY <1>4, <2>0, <3>1 DEF Given
    <3>3. ASSUME NEW i \in 1..Len(recent)
          PROVE  recent[i] = log[Len(log) - Len(recent) + 0 + i]
      BY <1>4 DEF RecentInv
    <3>4. QED
      BY <1>4, <2>0, <3>1, <3>2, <3>3
  <2>2. CASE r # s
    <3>1. /\ start'[r] = start[r] /\ queue'[r] = queue[r]
          /\ r \in participants' => r \in participants
      BY <1>1, <1>2, <2>2 DEF Types
    <3>2. Given(r)' = Given(r)
      BY <2>0, <3>1 DEF Given
    <3>3. QED
      BY <2>0, <3>1, <3>2 DEF Stretch
  <2>3. QED
    BY <2>1, <2>2
<1>9. QED
  BY <1>5, <1>6, <1>7, <1>8

\* do_read_body: the queue of every member grows with the log.
LEMMA ReadBodyStep ==
    ASSUME RoomInv, running, NEW s \in Sessions, ReadBody(s)
    PROVE  RoomInv'
<1> USE DEF RoomInv
<1> DEFINE m == Head(up[s])
<1>1. /\ reading[s] = "body"
      /\ Remember(m)
      /\ Deliver(participants, <<m>>)
      /\ Store(s, m)
      /\ log' = Append(log, m)
      /\ up' = [up EXCEPT ![s] = Tail(@)]
      /\ UNCHANGED <<participants, failed, sent, start, got>>
  BY DEF ReadBody
<1>2. m \in Messages /\ Tail(up[s]) \in Seq(Messages \cup {Garbage})
  <2>1. up[s] \in Seq(Messages \cup {Garbage}) /\ up[s] # <<>> /\ m # Garbage
    BY <1>1 DEF BodyThere, Types
  <2>2. QED
    BY <2>1
<1> HIDE DEF m
<1>3. /\ queue' \in [Sessions -> Seq(Messages)]
      /\ writing' \in [Sessions -> BOOLEAN]
      /\ \A r \in Sessions :
            /\ queue'[r] = IF r \in participants THEN queue[r] \o <<m>> ELSE queue[r]
            /\ writing'[r] => queue'[r] # <<>>
            /\ r \in participants /\ queue'[r] # <<>> /\ (queue[r] # <<>> => writing[r])
                  => writing'[r]
            /\ r \notin participants => writing'[r] = writing[r]
  <2>1. <<m>> \in Seq(Messages)
    BY <1>2
  <2>2. QED
    BY <1>1, <2>1, DeliverKeeps DEF Types
<1>4. /\ Len(log') = Len(log) + 1
      /\ \A i \in 1..Len(log) : log'[i] = log[i]
      /\ log'[Len(log) + 1] = m
      /\ log' \in Seq(Messages)
      /\ Len(log) \in Nat
  BY <1>1, <1>2 DEF Types
<1>5. /\ running' \in BOOLEAN
      /\ reading' \in [Sessions -> {"none", "header", "body", "ended"}]
      /\ \A r \in Sessions : r # s => reading'[r] = reading[r]
      /\ reading'[s] \in {"header", "body"}
      /\ running' => reading'[s] = "header"
  <2>1. CASE /\ stored' = Append(stored, m)
             /\ reading' = [reading EXCEPT ![s] = "header"]
             /\ UNCHANGED running
    BY <1>2, <2>1 DEF Types
  <2>2. CASE running' = FALSE /\ UNCHANGED <<stored, reading>>
    BY <1>1, <2>2 DEF Types
  <2>3. QED
    BY <1>1, <2>1, <2>2 DEF Store
<1>6. RecentInv' /\ recent' \in Seq(Messages)
  <2> DEFINE r == Append(recent, m)
  <2>1. /\ recent \in Seq(Messages) /\ r \in Seq(Messages)
        /\ Len(r) = Len(recent) + 1
        /\ \A i \in 1..Len(recent) : r[i] = recent[i]
        /\ r[Len(recent) + 1] = m
        /\ Len(recent) \in Nat
    BY <1>2 DEF Types
  <2>2. \A i \in 1..Len(r) : r[i] = log'[Len(log') - Len(r) + i]
    <3> SUFFICES ASSUME NEW i \in 1..Len(r) PROVE r[i] = log'[Len(log') - Len(r) + i]
      OBVIOUS
    <3>1. CASE i \in 1..Len(recent)
      <4>1. r[i] = log[Len(log) - Len(recent) + i]
        BY <2>1, <3>1 DEF RecentInv
      <4>2. Len(log) - Len(recent) + i \in 1..Len(log)
        BY <1>4, <2>1, <3>1, ChatConstants DEF RecentInv
      <4>3. Len(log') - Len(r) + i = Len(log) - Len(recent) + i
        BY <1>4, <2>1, <3>1
      <4>4. QED
        BY <1>4, <4>1, <4>2, <4>3
    <3>2. CASE i = Len(recent) + 1
      BY <1>4, <2>1, <3>2
    <3>3. QED
      BY <2>1, <3>1, <3>2
  <2> HIDE DEF r
  <2>3. CASE Len(r) > MaxRecent
    <3>1. /\ recent' = Tail(r) /\ Len(recent') = Len(r) - 1
          /\ \A i \in 1..Len(recent') : recent'[i] = r[i + 1]
          /\ recent' \in Seq(Messages)
      <4>1. recent' = Tail(r)
        BY <1>1, <2>3 DEF Remember, r
      <4>2. r \in Seq(Messages) /\ r # <<>>
        BY <2>1
      <4>3. /\ Len(Tail(r)) = Len(r) - 1
            /\ \A i \in 1..Len(Tail(r)) : Tail(r)[i] = r[i + 1]
            /\ Tail(r) \in Seq(Messages)
        BY <4>2
      <4>4. QED
        BY <4>1, <4>3
    <3>2. Len(recent) = MaxRecent /\ Len(log) >= MaxRecent
      BY <1>4, <2>1, <2>3, ChatConstants DEF RecentInv
    <3>3. Len(recent') = MaxRecent /\ Len(log') > MaxRecent
      BY <1>4, <2>1, <3>1, <3>2, ChatConstants
    <3>4. \A i \in 1..Len(recent') : recent'[i] = log'[Len(log') - Len(recent') + i]
      <4> SUFFICES ASSUME NEW i \in 1..Len(recent')
                   PROVE  recent'[i] = log'[Len(log') - Len(recent') + i]
        OBVIOUS
      <4>1. i + 1 \in 1..Len(r)
        BY <2>1, <3>1, <3>3, ChatConstants
      <4>2. Len(log') - Len(r) + (i + 1) = Len(log') - Len(recent') + i
        <5>1. Len(log') \in Int /\ Len(r) \in Int /\ i \in Int
          BY <1>4, <2>1
        <5>2. Len(recent') = Len(r) - 1
          BY <3>1
        <5>3. QED
          BY <5>1, <5>2
      <4>3. QED
        BY <2>2, <3>1, <4>1, <4>2
    <3>5. QED
      BY <3>1, <3>3, <3>4 DEF RecentInv
  <2>4. CASE ~(Len(r) > MaxRecent)
    <3>1. recent' = r
      BY <1>1, <2>4 DEF Remember, r
    <3>2. Len(r) = IF Len(log') > MaxRecent THEN MaxRecent ELSE Len(log')
      BY <1>4, <2>1, <2>4, ChatConstants DEF RecentInv
    <3>3. QED
      BY <2>1, <2>2, <3>1, <3>2 DEF RecentInv
  <2>5. QED
    BY <2>3, <2>4
<1>7. Types'
  BY <1>1, <1>2, <1>3, <1>4, <1>5, <1>6 DEF Types
<1>8. BodyThere'
  BY <1>1, <1>5 DEF BodyThere, Types
<1>9. Members'
  <2>1. \A r \in Sessions : reading[r] = "none" => r \notin participants
    BY DEF Members
  <2>2. QED
    BY <1>1, <1>3, <1>5, <2>1 DEF Members, Types
<1>10. WriteUnderWay'
  BY <1>1, <1>3 DEF WriteUnderWay
<1>11. Stretch'
  <2> SUFFICES ASSUME NEW r \in Sessions
               PROVE  /\ Given(r)' <= Len(log)'
                      /\ r \in participants' => Given(r)' = Len(log)'
                      /\ \A i \in 1..Len(queue'[r]) :
                            queue'[r][i] = log'[start'[r] + Len(got'[r]) + i]
    BY DEF Stretch
  <2>0. start'[r] = start[r] /\ got'[r] = got[r] /\ Len(log)' = Len(log')
    BY <1>1
  <2>1. /\ queue[r] \in Seq(Messages) /\ Len(queue[r]) \in Nat
        /\ Len(got[r]) \in Nat /\ start[r] \in Nat
    BY DEF Types
  <2>2. ASSUME NEW i \in 1..Len(queue[r])
        PROVE  queue[r][i] = log'[start[r] + Len(got[r]) + i]
    <3>1. start[r] + Len(got[r]) + i \in 1..Len(log)
      BY <1>4, <2>1 DEF Stretch, Given
    <3>2. QED
      BY <1>4, <3>1 DEF Stretch
  <2>3. CASE r \in participants
    <3>1. /\ Len(queue'[r]) = Len(queue[r]) + 1
          /\ \A i \in 1..Len(queue[r]) : queue'[r][i] = queue[r][i]
          /\ queue'[r][Len(queue[r]) + 1] = m
      BY <1>2, <1>3, <2>1, <2>3
    <3>2. start[r] + Len(got[r]) + Len(queue[r]) = Len(log)
      BY <2>3 DEF Stretch, Given
    <3>3. Given(r)' = Len(log')
      <4>1. Given(r)' = start[r] + Len(got[r]) + (Len(queue[r]) + 1)
        BY <2>0, <3>1 DEF Given
      <4>2. start[r] \in Int /\ Len(got[r]) \in Int /\ Len(queue[r]) \in Int
        BY <2>1
      <4>3. QED
        BY <1>4, <3>2, <4>1, <4>2, SMTT(30)
    <3>4. start[r] + Len(got[r]) + (Len(queue[r]) + 1) = Len(log) + 1
      <4>1. start[r] \in Int /\ Len(got[r]) \in Int /\ Len(queue[r]) \in Int
        BY <2>1
      <4>2. QED
        BY <3>2, <4>1
    <3>5. ASSUME NEW i \in 1..Len(queue'[r])
          PROVE  queue'[r][i] = log'[start[r] + Len(got[r]) + i]
      <4>1. i \in 1..Len(queue[r]) \/ i = Len(queue[r]) + 1
        BY <2>1, <3>1
      <4>2. QED
        BY <1>4, <2>2, <3>1, <3>4, <4>1
    <3>6. QED
      BY <1>4, <2>0, <3>3, <3>5
  <2>4. CASE r \notin participants
    <3>1. queue'[r] = queue[r] /\ r \notin participants'
      BY <1>1, <1>3, <2>4
    <3>2. Given(r)' <= Len(log')
      BY <1>4, <2>0, <2>1, <3>1 DEF Stretch, Given
    <3>3. QED
      BY <2>0, <2>2, <3>1, <3>2
  <2>5. QED
    BY <2>3, <2>4
<1>12. QED
  BY <1>6, <1>7, <1>8, <1>9, <1>10, <1>11

\* A message moves from the queue to the peer.
LEMMA OneUpOneDown ==
    ASSUME NEW a \in Int, NEW b \in Int, NEW c \in Int
    PROVE  a + (b + 1) + (c - 1) = a + b + c
  OBVIOUS

\* do_write, handler: the first message has gone, the rest moves up.
LEMMA WriteDoneStep ==
    ASSUME RoomInv, NEW s \in Sessions, WriteDone(s)
    PROVE  RoomInv'
<1> USE DEF RoomInv
<1>1. /\ writing[s]
      /\ queue' = [queue EXCEPT ![s] = Tail(@)]
      /\ writing' = [writing EXCEPT ![s] = Len(queue[s]) > 1]
      /\ got' = [got EXCEPT ![s] = Append(@, Head(queue[s]))]
      /\ UNCHANGED <<participants, recent, reading, stored, running, up, failed, sent, log,
                     start>>
  BY DEF WriteDone, WriteNext
<1>2. queue[s] # <<>> /\ queue[s] \in Seq(Messages)
  BY <1>1 DEF WriteUnderWay, Types
<1>3. /\ Tail(queue[s]) \in Seq(Messages) /\ Head(queue[s]) \in Messages
      /\ Len(Tail(queue[s])) = Len(queue[s]) - 1
      /\ \A i \in 1..Len(Tail(queue[s])) : Tail(queue[s])[i] = queue[s][i + 1]
      /\ Len(queue[s]) \in Nat \ {0}
  BY <1>2
<1>4. Types'
  <2>1. queue' \in [Sessions -> Seq(Messages)]
    BY <1>1, <1>3 DEF Types
  <2>2. writing' \in [Sessions -> BOOLEAN]
    BY <1>1, <1>3 DEF Types
  <2>3. got' \in [Sessions -> Seq(Messages)]
    <3>1. got \in [Sessions -> Seq(Messages)]
      BY DEF Types
    <3>2. Append(got[s], Head(queue[s])) \in Seq(Messages)
      BY ONLY <1>3, <3>1, s \in Sessions
    <3>3. QED
      BY <1>1, <3>1, <3>2
  <2>4. QED
    BY <1>1, <2>1, <2>2, <2>3 DEF Types
<1>5. BodyThere' /\ RecentInv'
  BY <1>1 DEF BodyThere, RecentInv
<1>6. Members'
  <2>1. reading[s] # "none"
    BY <1>2 DEF Members
  <2>2. QED
    BY <1>1, <2>1 DEF Members, Types
<1>7. WriteUnderWay'
  <2>1. (Tail(queue[s]) # <<>>) <=> (Len(queue[s]) > 1)
    <3>1. \A t \in Seq(Messages) : (t # <<>>) <=> (Len(t) # 0)
      OBVIOUS
    <3>2. (Tail(queue[s]) # <<>>) <=> (Len(queue[s]) - 1 # 0)
      BY ONLY <1>3, <3>1
    <3>3. Len(queue[s]) \in Nat \ {0}
      BY ONLY <1>3
    <3>4. \A k \in Nat \ {0} : (k - 1 # 0) <=> (k > 1)
      OBVIOUS
    <3>5. QED
      BY ONLY <3>2, <3>3, <3>4
  <2>2. ASSUME NEW r \in Sessions
        PROVE  /\ writing'[r] => queue'[r] # <<>>
               /\ r \in participants' /\ queue'[r] # <<>> => writing'[r]
    BY <1>1, <2>1 DEF WriteUnderWay, Types
  <2>3. QED
    BY <2>2 DEF WriteUnderWay
<1>8. Stretch'
  <2> SUFFICES ASSUME NEW r \in Sessions
               PROVE  /\ Given(r)' <= Len(log)'
                      /\ r \in participants' => Given(r)' = Len(log)'
                      /\ \A i \in 1..Len(queue'[r]) :
                            queue'[r][i] = log'[start'[r] + Len(got'[r]) + i]
    BY DEF Stretch
  <2>0. start' = start /\ log' = log /\ participants' = participants
    BY <1>1
  <2>1. CASE r = s
    <3>1. queue'[s] = Tail(queue[s]) /\ got'[s] = Append(got[s], Head(queue[s]))
      BY <1>1 DEF Types
    <3>2. Len(got'[s]) = Len(got[s]) + 1 /\ Len(got[s]) \in Nat /\ start[s] \in Nat
      BY <1>3, <3>1 DEF Types
    <3>3. Given(s)' = Given(s)
      <4>1. Given(s)' = start[s] + (Len(got[s]) + 1) + (Len(queue[s]) - 1)
        BY <1>3, <2>0, <3>1, <3>2 DEF Given
      <4>2. start[s] \in Int /\ Len(got[s]) \in Int /\ Len(queue[s]) \in Int
        BY <1>3, <3>2
      <4>3. Given(s) = start[s] + Len(got[s]) + Len(queue[s])
        BY DEF Given
      <4>4. QED
        BY <4>1, <4>2, <4>3, OneUpOneDown
    <3>4. ASSUME NEW i \in 1..Len(queue'[s])
          PROVE  queue'[s][i] = log'[start'[s] + Len(got'[s]) + i]
      <4>1. i + 1 \in 1..Len(queue[s]) /\ queue'[s][i] = queue[s][i + 1]
        BY <1>3, <3>1
      <4>2. queue[s][i + 1] = log[start[s] + Len(got[s]) + (i + 1)]
        BY <4>1 DEF Stretch
      <4>3. start[s] + Len(got[s]) + (i + 1) = start[s] + Len(got'[s]) + i
        BY <3>2, SMTT(30)
      <4>4. QED
        BY <2>0, <4>1, <4>2, <4>3
    <3>5. QED
      BY <2>0, <2>1, <3>3, <3>4 DEF Stretch
  <2>2. CASE r # s
    <3>1. queue'[r] = queue[r] /\ got'[r] = got[r]
      BY <1>1, <2>2 DEF Types
    <3>2. Given(r)' = Given(r)
      BY <2>0, <3>1 DEF Given
    <3>3. QED
      BY <2>0, <3>1, <3>2 DEF Stretch
  <2>3. QED
    BY <2>1, <2>2
<1>9. QED
  BY <1>4, <1>5, <1>6, <1>7, <1>8

\* The other handlers and the peers change neither queues nor log, and take
\* sessions out of the room at most.
LEMMA OtherStep ==
    ASSUME RoomInv, NEW s \in Sessions,
           ReadFails(s) \/ ReadHeader(s) \/ WriteFails(s) \/ PeerSend(s) \/ PeerFail(s)
    PROVE  RoomInv'
<1> USE DEF RoomInv
<1>1. /\ participants' \in {participants, participants \ {s}}
      /\ UNCHANGED <<recent, queue, running, log, start, got>>
  BY DEF ReadFails, ReadHeader, Refused, WriteFails, PeerSend, PeerFail, Leave
<1>2. RecentInv'
  BY <1>1 DEF RecentInv
<1>3. Stretch'
  BY <1>1 DEF Stretch, Given
<1>4. CASE ReadFails(s)
  BY <1>1, <1>2, <1>3, <1>4
     DEF ReadFails, Leave, Types, BodyThere, Members, WriteUnderWay
<1>5. CASE ReadHeader(s)
  <2>1. Types'
    BY <1>1, <1>5 DEF ReadHeader, Refused, Leave, Types
  <2>2. /\ up' = up /\ writing' = writing
        /\ up[s] # <<>> /\ reading[s] = "header"
        /\ \A r \in Sessions : r # s => reading'[r] = reading[r]
        /\ \/ reading'[s] = "body" /\ Head(up[s]) # Garbage
           \/ reading'[s] = "ended" /\ s \notin participants'
    BY <1>5 DEF ReadHeader, Refused, Leave, Types
  <2>3. BodyThere' /\ WriteUnderWay'
    BY <1>1, <2>2 DEF BodyThere, WriteUnderWay
  <2>4. Members'
    BY <1>1, <2>2 DEF Members
  <2>5. QED
    BY <1>2, <1>3, <2>1, <2>3, <2>4
<1>6. CASE WriteFails(s)
  BY <1>1, <1>2, <1>3, <1>6
     DEF WriteFails, Leave, Types, BodyThere, Members, WriteUnderWay
<1>7. CASE PeerSend(s)
  <2>1. PICK m \in {<<s, sent + 1>>, Garbage} : up' = [up EXCEPT ![s] = Append(@, m)]
    BY <1>7 DEF PeerSend
  <2>2. m \in Messages \cup {Garbage}
    BY <1>7, <2>1, ChatConstants DEF PeerSend, Messages, Types
  <2>3. up[s] \in Seq(Messages \cup {Garbage})
    BY DEF Types
  <2>4. up'[s] = Append(up[s], m) /\ \A r \in Sessions : r # s => up'[r] = up[r]
    BY <2>1 DEF Types
  <2>5. Append(up[s], m) \in Seq(Messages \cup {Garbage})
    BY <2>2, <2>3
  <2>6. up[s] # <<>> => Append(up[s], m) # <<>> /\ Head(Append(up[s], m)) = Head(up[s])
    BY <2>2, <2>3
  <2>7. Types'
    BY <1>7, <2>1, <2>5, ChatConstants, SMTT(30) DEF PeerSend, Types
  <2>8. BodyThere'
    BY <1>7, <2>4, <2>6, SMTT(30) DEF PeerSend, BodyThere
  <2>9. Members' /\ WriteUnderWay'
    BY <1>7 DEF PeerSend, Members, WriteUnderWay
  <2>10. QED
    BY <1>2, <1>3, <2>7, <2>8, <2>9
<1>8. CASE PeerFail(s)
  BY <1>1, <1>2, <1>3, <1>8 DEF PeerFail, Types, BodyThere, Members, WriteUnderWay
<1>9. QED
  BY <1>4, <1>5, <1>6, <1>7, <1>8

\* new_server.cpp:22-184: every handler keeps the invariant.
LEMMA NextRoom == RoomInv /\ [Next]_roomVars => RoomInv'
<1> SUFFICES ASSUME RoomInv, [Next]_roomVars PROVE RoomInv'
  OBVIOUS
<1>1. CASE running /\ \E s \in Sessions : Accept(s)
  BY <1>1, AcceptStep
<1>2. CASE running /\ \E s \in Sessions : ReadBody(s)
  BY <1>2, ReadBodyStep
<1>3. CASE running /\ \E s \in Sessions : WriteDone(s)
  BY <1>3, WriteDoneStep
<1>4. CASE running /\ \E s \in Sessions :
              ReadFails(s) \/ ReadHeader(s) \/ WriteFails(s) \/ PeerSend(s) \/ PeerFail(s)
  BY <1>4, OtherStep
<1>5. CASE running /\ Exit
  <2>1. Types' /\ BodyThere'
    BY <1>5 DEF Exit, RoomInv, Types, BodyThere
  <2>2. RecentInv' /\ Stretch' /\ Members'
    BY <1>5 DEF Exit, RoomInv, RecentInv, Stretch, Given, Members
  <2>3. WriteUnderWay'
    BY <1>5 DEF Exit, RoomInv, WriteUnderWay
  <2>4. QED
    BY <2>1, <2>2, <2>3 DEF RoomInv
<1>6. CASE UNCHANGED roomVars
  BY <1>6 DEF roomVars, RoomInv, Types, BodyThere, RecentInv, Stretch, Given, Members,
              WriteUnderWay
<1>7. Next =>
        /\ running
        /\ \/ \E s \in Sessions : Accept(s)
           \/ \E s \in Sessions : ReadBody(s)
           \/ \E s \in Sessions : WriteDone(s)
           \/ \E s \in Sessions :
                 ReadFails(s) \/ ReadHeader(s) \/ WriteFails(s) \/ PeerSend(s) \/ PeerFail(s)
           \/ Exit
  BY DEF Next, Read, Write
<1>8. CASE Next
  BY <1>1, <1>2, <1>3, <1>4, <1>5, <1>7, <1>8
<1>9. QED
  BY <1>6, <1>8

\* The invariant holds in every reachable state.
THEOREM RoomInvariant == Spec => []RoomInv
  BY InitRoom, NextRoom, PTL DEF Spec

\* new_server.cpp:14-184: the types, and a member always has a read under way.
THEOREM RoomType == Spec => []TypeOK
<1>1. RoomInv => TypeOK
  BY ChatConstants DEF RoomInv, Types, BodyThere, RecentInv, Members, TypeOK
<1>2. QED
  BY <1>1, RoomInvariant, PTL

\* new_server.cpp:96-105,169-184: no message of a member waits in its queue
\* without a write under way, and no write goes on without a message.
THEOREM RoomWriteUnderWay == Spec => []WriteUnderWay
<1>1. RoomInv => WriteUnderWay
  BY DEF RoomInv
<1>2. QED
  BY <1>1, RoomInvariant, PTL

\* new_server.cpp:145-160: the message that the room delivers is the one the database
\* stores, unless the program ends.
LEMMA StoredStep == RoomInv /\ StoredAll /\ [Next]_roomVars => StoredAll'
<1> SUFFICES ASSUME RoomInv, StoredAll, [Next]_roomVars PROVE StoredAll'
  OBVIOUS
<1>1. ASSUME running, NEW s \in Sessions, ReadBody(s) PROVE StoredAll'
  <2> DEFINE m == Head(up[s])
  <2>1. /\ reading[s] = "body"
        /\ log' = Append(log, m)
        /\ \/ stored' = Append(stored, m)
           \/ running' = FALSE /\ stored' = stored
    BY <1>1 DEF ReadBody, Store
  <2>2. m \in Messages /\ log \in Seq(Messages)
    <3>1. up[s] \in Seq(Messages \cup {Garbage}) /\ up[s] # <<>> /\ m # Garbage
      BY <1>1, <2>1 DEF RoomInv, BodyThere, Types
    <3>2. QED
      BY <3>1 DEF RoomInv, Types
  <2> HIDE DEF m
  <2>3. stored = log
    BY <1>1 DEF StoredAll
  <2>4. SubSeq(log', 1, Len(log') - 1) = log
    BY <2>1, <2>2
  <2>5. QED
    BY <2>1, <2>3, <2>4 DEF StoredAll
<1>2. CASE running /\ \E s \in Sessions : ReadBody(s)
  BY <1>1, <1>2
<1>3. CASE UNCHANGED <<stored, log>> /\ (running \/ UNCHANGED running)
  BY <1>3 DEF StoredAll
<1>4. \/ running /\ \E s \in Sessions : ReadBody(s)
      \/ UNCHANGED <<stored, log>> /\ (running \/ UNCHANGED running)
  BY DEF Next, Read, Write, Accept, ReadFails, ReadHeader, WriteDone, WriteFails, PeerSend,
         PeerFail, Exit, roomVars
<1>5. QED
  BY <1>2, <1>3, <1>4

\* new_server.cpp:154-160: the database lacks one message at most, and that only
\* when the program has ended.
THEOREM RoomStoredAll == Spec => []StoredAll
<1>1. Init => StoredAll
  BY DEF Init, StoredAll
<1>2. QED
  BY <1>1, StoredStep, RoomInvariant, PTL DEF Spec

\* The initial state of the room is that of an empty log.
LEMMA RoomMapsInit == Init => Abstract!Init
  BY DEF Init, Abstract!Init, Given, Status

\* new_server.cpp:22-184: every handler is a step of the log with readers, or none.
LEMMA RoomMapsNext == RoomInv /\ [Next]_roomVars => [Abstract!Next]_(Abstract!vars)
<1> SUFFICES ASSUME RoomInv, [Next]_roomVars
             PROVE  [Abstract!Next]_(Abstract!vars)
  OBVIOUS
<1>0. ASSUME running, NEW s \in Sessions, ReadBody(s) PROVE Head(up[s]) \in Messages
  <2>1. up[s] \in Seq(Messages \cup {Garbage}) /\ up[s] # <<>> /\ Head(up[s]) # Garbage
    BY <1>0 DEF ReadBody, RoomInv, BodyThere, Types
  <2>2. QED
    BY <2>1
<1>1. ASSUME running, NEW s \in Sessions, Accept(s) PROVE Abstract!Enter(s)
  <2>1. /\ participants' = participants \cup {s}
        /\ Deliver({s}, recent)
        /\ reading[s] = "none"
        /\ reading' = [reading EXCEPT ![s] = "header"]
        /\ start' = [start EXCEPT ![s] = Len(log) - Len(recent)]
        /\ UNCHANGED <<running, log, got>>
    BY <1>1 DEF Accept, Join
  <2>2. Status(s) = "out" /\ Status(s)' = "in"
    BY <2>1 DEF Status, RoomInv, Types
  <2>3. ASSUME NEW r \in Sessions, r # s PROVE Status(r)' = Status(r)
    BY <2>1, <2>3 DEF Status, RoomInv, Types
  <2>4. start' = [start EXCEPT ![s] = IF Len(log) > MaxRecent
                                      THEN Len(log) - MaxRecent ELSE 0]
    <3>1. Len(log) \in Nat /\ Len(recent) = IF Len(log) > MaxRecent THEN MaxRecent ELSE Len(log)
      BY DEF RoomInv, Types, RecentInv
    <3>2. Len(log) - Len(recent) = IF Len(log) > MaxRecent THEN Len(log) - MaxRecent ELSE 0
      BY <3>1, ChatConstants
    <3>3. QED
      BY <2>1, <3>2
  <2>5. Given(s)' = Len(log)
    <3>1. RoomInv'
      BY <1>1, AcceptStep
    <3>2. s \in participants' /\ Len(log)' = Len(log)
      BY <2>1
    <3>3. QED
      BY <3>1, <3>2 DEF RoomInv, Stretch
  <2>6. ASSUME NEW r \in Sessions, r # s PROVE Given(r)' = Given(r)
    <3>1. queue'[r] = queue[r]
      BY <2>1, <2>6 DEF Deliver
    <3>2. start'[r] = start[r] /\ got'[r] = got[r]
      BY <2>1, <2>6 DEF RoomInv, Types
    <3>3. QED
      BY <3>1, <3>2 DEF Given
  <2>7. [r \in Sessions |-> Status(r)]' = [[r \in Sessions |-> Status(r)] EXCEPT ![s] = "in"]
    BY <2>2, <2>3
  <2>8. [r \in Sessions |-> Given(r)]' = [[r \in Sessions |-> Given(r)] EXCEPT ![s] = Len(log)]
    BY <2>5, <2>6
  <2>9. [r \in Sessions |-> Status(r)][s] = "out"
    BY <2>2
  <2>10. QED
    BY <1>1, <2>1, <2>4, <2>7, <2>8, <2>9 DEF Abstract!Enter
<1>2. ASSUME running, NEW s \in Sessions, ReadBody(s) PROVE Abstract!Say(Head(up[s]))
  <2>1. /\ log' = Append(log, Head(up[s]))
        /\ Deliver(participants, <<Head(up[s])>>)
        /\ reading[s] = "body"
        /\ Store(s, Head(up[s]))
        /\ UNCHANGED <<participants, start, got>>
    BY <1>2 DEF ReadBody
  <2>2. RoomInv' /\ Len(log') = Len(log) + 1
    <3>1. RoomInv'
      BY <1>2, ReadBodyStep
    <3>2. log \in Seq(Messages) /\ Head(up[s]) \in Messages
      BY <1>0, <1>2 DEF RoomInv, Types
    <3>3. QED
      BY <2>1, <3>1, <3>2
  <2>3. ASSUME NEW r \in Sessions PROVE Status(r)' = Status(r)
    <3>1. \/ reading' = reading
          \/ reading' = [reading EXCEPT ![s] = "header"]
      BY <2>1 DEF Store
    <3>2. (reading'[r] = "none") <=> (reading[r] = "none")
      BY <2>1, <3>1 DEF RoomInv, Types
    <3>3. QED
      BY <2>1, <3>2 DEF Status
  <2>4. ASSUME NEW r \in Sessions
        PROVE  Given(r)' = IF Status(r) = "in" THEN Len(log) + 1 ELSE Given(r)
    <3>1. CASE r \in participants
      <4>1. Status(r) = "in"
        BY <3>1 DEF Status, RoomInv, Members
      <4>2. Given(r)' = Len(log')
        BY <2>1, <2>2, <3>1 DEF RoomInv, Stretch
      <4>3. QED
        BY <2>2, <4>1, <4>2
    <3>2. CASE r \notin participants
      <4>1. Status(r) # "in"
        BY <3>2 DEF Status
      <4>2. queue'[r] = queue[r] /\ start' = start /\ got' = got
        BY <2>1, <3>2 DEF Deliver
      <4>3. QED
        BY <4>1, <4>2 DEF Given
    <3>3. QED
      BY <3>1, <3>2
  <2>5. running' \in BOOLEAN
    BY <2>2 DEF RoomInv, Types
  <2>6. [r \in Sessions |-> Given(r)]' =
           [r \in Sessions |-> IF [q \in Sessions |-> Status(q)][r] = "in"
                               THEN Len(log) + 1
                               ELSE [q \in Sessions |-> Given(q)][r]]
    BY <2>4
  <2>7. [r \in Sessions |-> Status(r)]' = [r \in Sessions |-> Status(r)]
    BY <2>3
  <2>8. QED
    BY <1>2, <2>1, <2>5, <2>6, <2>7 DEF Abstract!Say
<1>3. ASSUME running, NEW s \in Sessions, WriteDone(s) PROVE Abstract!See(s)
  <2>1. /\ writing[s]
        /\ queue' = [queue EXCEPT ![s] = Tail(@)]
        /\ got' = [got EXCEPT ![s] = Append(@, Head(queue[s]))]
        /\ UNCHANGED <<participants, reading, running, log, start>>
    BY <1>3 DEF WriteDone
  <2>2. queue[s] \in Seq(Messages) /\ queue[s] # <<>> /\ got[s] \in Seq(Messages)
        /\ start[s] \in Nat
    BY <2>1 DEF RoomInv, WriteUnderWay, Types
  <2>3. /\ Len(queue[s]) \in Nat \ {0} /\ Len(Tail(queue[s])) = Len(queue[s]) - 1
        /\ Head(queue[s]) = queue[s][1]
        /\ Len(Append(got[s], Head(queue[s]))) = Len(got[s]) + 1
        /\ Len(got[s]) \in Nat
    BY <2>2
  <2>4. start[s] + Len(got[s]) < Given(s)
    BY <2>2, <2>3 DEF Given
  <2>5. Head(queue[s]) = log[start[s] + Len(got[s]) + 1]
    <3>1. 1 \in 1..Len(queue[s])
      BY <2>3
    <3>2. QED
      BY <2>3, <3>1 DEF RoomInv, Stretch
  <2>6. ASSUME NEW r \in Sessions PROVE Given(r)' = Given(r) /\ Status(r)' = Status(r)
    <3>1. Status(r)' = Status(r)
      BY <2>1 DEF Status
    <3>2. CASE r = s
      <4>1. Given(r)' = start[s] + (Len(got[s]) + 1) + (Len(queue[s]) - 1)
        BY <2>1, <2>3, <3>2 DEF Given, RoomInv, Types
      <4>2. Given(r) = start[s] + Len(got[s]) + Len(queue[s])
        BY <3>2 DEF Given
      <4>3. start[s] \in Int /\ Len(got[s]) \in Int /\ Len(queue[s]) \in Int
        BY <2>2, <2>3
      <4>4. Given(r)' = Given(r)
        BY <4>1, <4>2, <4>3, OneUpOneDown
      <4>5. QED
        BY <3>1, <4>4
    <3>3. CASE r # s
      <4>1. queue'[r] = queue[r] /\ got'[r] = got[r] /\ start' = start
        BY <2>1, <3>3 DEF RoomInv, Types
      <4>2. QED
        BY <3>1, <4>1 DEF Given
    <3>4. QED
      BY <3>2, <3>3
  <2>7. got' = [got EXCEPT ![s] = Append(@, log[start[s] + Len(@) + 1])]
    BY <2>1, <2>5
  <2>8. /\ [r \in Sessions |-> Given(r)]' = [r \in Sessions |-> Given(r)]
        /\ [r \in Sessions |-> Status(r)]' = [r \in Sessions |-> Status(r)]
    BY <2>6
  <2>9. start[s] + Len(got[s]) < [r \in Sessions |-> Given(r)][s]
    BY <2>4
  <2>10. QED
    BY <1>3, <2>1, <2>7, <2>8, <2>9 DEF Abstract!See
<1>4. ASSUME running, NEW s \in Sessions, ReadFails(s) \/ ReadHeader(s) \/ WriteFails(s)
      PROVE  Abstract!Leave(s) \/ UNCHANGED Abstract!vars
  <2>1. /\ participants' \in {participants, participants \ {s}}
        /\ UNCHANGED <<queue, running, log, start, got>>
    BY <1>4 DEF ReadFails, ReadHeader, Refused, WriteFails, Leave
  <2>2. \A r \in Sessions : (reading'[r] = "none") <=> (reading[r] = "none")
    BY <1>4 DEF ReadFails, ReadHeader, Refused, WriteFails, RoomInv, Types
  <2>3. [r \in Sessions |-> Given(r)]' = [r \in Sessions |-> Given(r)]
    BY <2>1 DEF Given
  <2>4. CASE participants' = participants
    <3>1. [r \in Sessions |-> Status(r)]' = [r \in Sessions |-> Status(r)]
      BY <2>2, <2>4 DEF Status
    <3>2. QED
      BY <2>1, <2>3, <3>1 DEF Abstract!vars
  <2>5. CASE participants' = participants \ {s} /\ s \in participants
    <3>1. Status(s) = "in" /\ Status(s)' = "left"
      BY <2>2, <2>5 DEF Status, RoomInv, Members
    <3>2. ASSUME NEW r \in Sessions, r # s PROVE Status(r)' = Status(r)
      BY <2>2, <2>5, <3>2 DEF Status
    <3>3. /\ [r \in Sessions |-> Status(r)]' =
                [[r \in Sessions |-> Status(r)] EXCEPT ![s] = "left"]
          /\ [r \in Sessions |-> Status(r)][s] = "in"
      BY <3>1, <3>2
    <3>4. QED
      BY <1>4, <2>1, <2>3, <3>3 DEF Abstract!Leave
  <2>6. QED
    BY <2>1, <2>4, <2>5
<1>5. ASSUME NEW s \in Sessions, PeerSend(s) \/ PeerFail(s)
      PROVE  UNCHANGED Abstract!vars
  BY <1>5 DEF PeerSend, PeerFail, Abstract!vars, Given, Status
<1>6. CASE running /\ Exit
  BY <1>6 DEF Exit, Abstract!Next, Abstract!End, Given, Status
<1>7. CASE UNCHANGED roomVars
  BY <1>7 DEF roomVars, Abstract!vars, Given, Status
<1>8. CASE Next
  <2>1. CASE running /\ \E s \in Sessions : Accept(s)
    BY <1>1, <2>1 DEF Abstract!Next
  <2>2. CASE running /\ \E s \in Sessions : ReadBody(s)
    BY <1>0, <1>2, <2>2 DEF Abstract!Next
  <2>3. CASE running /\ \E s \in Sessions : WriteDone(s)
    BY <1>3, <2>3 DEF Abstract!Next
  <2>4. CASE running /\ \E s \in Sessions : ReadFails(s) \/ ReadHeader(s) \/ WriteFails(s)
    BY <1>4, <2>4 DEF Abstract!Next
  <2>5. CASE \E s \in Sessions : PeerSend(s) \/ PeerFail(s)
    BY <1>5, <2>5
  <2>6. Next =>
          \/ running /\ \E s \in Sessions : Accept(s)
          \/ running /\ \E s \in Sessions : ReadBody(s)
          \/ running /\ \E s \in Sessions : WriteDone(s)
          \/ running /\ \E s \in Sessions : ReadFails(s) \/ ReadHeader(s) \/ WriteFails(s)
          \/ \E s \in Sessions : PeerSend(s) \/ PeerFail(s)
          \/ running /\ Exit
    BY DEF Next, Read, Write
  <2>7. QED
    BY <1>6, <1>8, <2>1, <2>2, <2>3, <2>4, <2>5, <2>6
<1>9. QED
  BY <1>7, <1>8

\* new_server.cpp:22-184 implements the log with readers: the safety part of
\* IsChatLog (its fairness stays with the model checker).
THEOREM RoomRefines == Spec => Abstract!SafetySpec
  BY RoomMapsInit, RoomMapsNext, RoomInvariant, PTL DEF Spec, Abstract!SafetySpec

------------------------------------------------------------------------------
\* The room with the command thread and chat_clients as peers, module ChatClient.

\* The types of what OneWrite is about.
ClientTypes ==
    /\ typists \subseteq Sessions
    /\ typing \in [Sessions -> {"line", "join", "returned"}]
    /\ typed \in [Sessions -> Nat]
    /\ tasks \in [Sessions -> Seq(Nat)]
    /\ socket \in [Sessions -> {"connecting", "connected", "failed", "closed"}]
    /\ m_write_msgs \in [Sessions -> Seq(Nat)]
    /\ writes \in [Sessions -> {0, 1}]
    /\ written \in [Sessions -> Seq(Nat)]

\* A write is under way for the first line of the queue only, and as long as the socket
\* may still write, for the first line of every queue.
Writing(c) ==
    /\ writes[c] = 1 => m_write_msgs[c] # <<>>
    /\ m_write_msgs[c] # <<>> /\ socket[c] \in {"connecting", "connected"} => writes[c] = 1

\* The lines written, those in the queue and those posted are the lines typed, n of them
\* so far, in their order; after them comes the close, once main waits.
Lines(wr, queued, posted, at, n) ==
    /\ \A i \in 1..Len(wr) : wr[i] = i
    /\ \A i \in 1..Len(queued) : queued[i] = Len(wr) + i
    /\ \A i \in 1..Len(posted) :
          IF posted[i] = CloseTask
          THEN i = Len(posted) /\ at # "line"
          ELSE posted[i] = Len(wr) + Len(queued) + i
    /\ at = "line" => n = Len(wr) + Len(queued) + Len(posted)

InOrder(c) == Lines(written[c], m_write_msgs[c], tasks[c], typing[c], typed[c])

LinesInv == ClientTypes /\ \A c \in typists : Writing(c) /\ InOrder(c)

\* new_client.cpp:116-122: another line is typed.
LEMMA LineTyped ==
    ASSUME NEW wr \in Seq(Nat), NEW queued \in Seq(Nat), NEW posted \in Seq(Nat), NEW n \in Nat,
           Lines(wr, queued, posted, "line", n)
    PROVE  Lines(wr, queued, Append(posted, n + 1), "line", n + 1)
<1>1. PICK q : q = Append(posted, n + 1)
  OBVIOUS
<1>2. /\ q \in Seq(Nat) /\ Len(q) = Len(posted) + 1 /\ q[Len(posted) + 1] = n + 1
      /\ \A i \in 1..Len(posted) : q[i] = posted[i]
      /\ Len(posted) \in Nat /\ Len(wr) \in Nat /\ Len(queued) \in Nat
  BY <1>1
<1>3. n = Len(wr) + Len(queued) + Len(posted)
  BY DEF Lines
<1>4. ASSUME NEW i \in 1..Len(q)
      PROVE  q[i] # CloseTask /\ q[i] = Len(wr) + Len(queued) + i
  <2>1. CASE i \in 1..Len(posted)
    BY <1>2, <2>1 DEF Lines
  <2>2. CASE i = Len(posted) + 1
    BY <1>2, <1>3, <2>2 DEF CloseTask
  <2>3. QED
    BY <1>2, <2>1, <2>2
<1>5. n + 1 = Len(wr) + Len(queued) + Len(q)
  BY <1>2, <1>3
<1>6. Lines(wr, queued, q, "line", n + 1)
  BY <1>4, <1>5 DEF Lines
<1>7. QED
  BY <1>1, <1>6

\* new_client.cpp:124: the close is posted behind the lines, and main waits.
LEMMA ClosePosted ==
    ASSUME NEW wr \in Seq(Nat), NEW queued \in Seq(Nat), NEW posted \in Seq(Nat), NEW n \in Nat,
           Lines(wr, queued, posted, "line", n)
    PROVE  Lines(wr, queued, Append(posted, CloseTask), "join", n)
<1>1. PICK q : q = Append(posted, CloseTask)
  OBVIOUS
<1>2. /\ q \in Seq(Nat) /\ Len(q) = Len(posted) + 1 /\ q[Len(posted) + 1] = CloseTask
      /\ \A i \in 1..Len(posted) : q[i] = posted[i]
      /\ Len(posted) \in Nat
  BY <1>1 DEF CloseTask
<1>3. ASSUME NEW i \in 1..Len(q)
      PROVE  IF q[i] = CloseTask THEN i = Len(q) ELSE q[i] = Len(wr) + Len(queued) + i
  <2>1. CASE i \in 1..Len(posted)
    BY <1>2, <2>1 DEF Lines
  <2>2. CASE i = Len(posted) + 1
    BY <1>2, <2>2
  <2>3. QED
    BY <1>2, <2>1, <2>2
<1>4. Lines(wr, queued, q, "join", n)
  BY <1>3 DEF Lines
<1>5. QED
  BY <1>1, <1>4

\* The first task leaves: what follows it moves up.
LEMMA TailLines ==
    ASSUME NEW posted \in Seq(Nat), posted # <<>>
    PROVE  /\ Tail(posted) \in Seq(Nat) /\ Head(posted) \in Nat /\ Head(posted) = posted[1]
           /\ Len(posted) \in Nat \ {0} /\ Len(Tail(posted)) = Len(posted) - 1
           /\ \A i \in 1..Len(Tail(posted)) :
                 i + 1 \in 1..Len(posted) /\ Tail(posted)[i] = posted[i + 1]
  OBVIOUS

\* new_client.cpp:21-31: the task of a line puts it behind those in the queue.
LEMMA LinePushed ==
    ASSUME NEW wr \in Seq(Nat), NEW queued \in Seq(Nat), NEW posted \in Seq(Nat), NEW at, NEW n,
           posted # <<>>, Head(posted) # CloseTask, Lines(wr, queued, posted, at, n)
    PROVE  Lines(wr, Append(queued, Head(posted)), Tail(posted), at, n)
<1>1. PICK t : t = Tail(posted)
  OBVIOUS
<1>2. /\ t \in Seq(Nat)
      /\ Len(posted) \in Nat \ {0} /\ Len(t) = Len(posted) - 1
      /\ \A i \in 1..Len(t) : i + 1 \in 1..Len(posted) /\ t[i] = posted[i + 1]
      /\ Head(posted) \in Nat /\ Head(posted) = posted[1]
  BY <1>1, TailLines
<1>3. PICK q : q = Append(queued, Head(posted))
  OBVIOUS
<1>4. /\ q \in Seq(Nat) /\ Len(q) = Len(queued) + 1 /\ q[Len(queued) + 1] = posted[1]
      /\ \A i \in 1..Len(queued) : q[i] = queued[i]
      /\ Len(queued) \in Nat /\ Len(wr) \in Nat
  BY <1>2, <1>3
<1>5. 1 \in 1..Len(posted) /\ posted[1] # CloseTask
  BY <1>2
<1>6. posted[1] = Len(wr) + Len(queued) + 1
  BY <1>5 DEF Lines
<1>7. ASSUME NEW i \in 1..Len(q) PROVE q[i] = Len(wr) + i
  <2>1. CASE i \in 1..Len(queued)
    BY <1>4, <2>1 DEF Lines
  <2>2. CASE i = Len(queued) + 1
    BY <1>4, <1>6, <2>2
  <2>3. QED
    BY <1>4, <2>1, <2>2
<1>8. ASSUME NEW i \in 1..Len(t)
      PROVE  IF t[i] = CloseTask THEN i = Len(t) /\ at # "line"
             ELSE t[i] = Len(wr) + Len(q) + i
  <2>1. i + 1 \in 1..Len(posted) /\ t[i] = posted[i + 1]
    BY <1>2
  <2>2. IF posted[i + 1] = CloseTask THEN i + 1 = Len(posted) /\ at # "line"
        ELSE posted[i + 1] = Len(wr) + Len(queued) + (i + 1)
    BY <2>1 DEF Lines
  <2>3. Len(wr) + Len(queued) + (i + 1) = Len(wr) + Len(q) + i
    BY <1>2, <1>4
  <2>4. (i + 1 = Len(posted)) => (i = Len(t))
    BY <1>2
  <2>5. QED
    BY <2>1, <2>2, <2>3, <2>4
<1>9. at = "line" => n = Len(wr) + Len(q) + Len(t)
  <2>1. at = "line" => n = Len(wr) + Len(queued) + Len(posted)
    BY DEF Lines
  <2>2. Len(wr) + Len(queued) + Len(posted) = Len(wr) + Len(q) + Len(t)
    BY <1>2, <1>4
  <2>3. QED
    BY <2>1, <2>2
<1>10. Lines(wr, q, t, at, n)
  <2>1. \A i \in 1..Len(wr) : wr[i] = i
    BY DEF Lines
  <2>2. QED
    BY <1>7, <1>8, <1>9, <2>1 DEF Lines
<1>11. QED
  BY <1>1, <1>3, <1>10

\* new_client.cpp:33-37: the task of the close is the last one.
LEMMA CloseTaken ==
    ASSUME NEW wr \in Seq(Nat), NEW queued \in Seq(Nat), NEW posted \in Seq(Nat), NEW at, NEW n,
           posted # <<>>, Head(posted) = CloseTask, Lines(wr, queued, posted, at, n)
    PROVE  Lines(wr, queued, Tail(posted), at, n)
<1>1. 1 \in 1..Len(posted) /\ posted[1] = CloseTask
  BY TailLines
<1>2. Len(posted) = 1 /\ at # "line"
  BY <1>1 DEF Lines
<1>3. PICK t : t = Tail(posted)
  OBVIOUS
<1>4. Len(t) = 0
  BY <1>2, <1>3, TailLines
<1>5. \A i \in 1..Len(t) : FALSE
  BY <1>4
<1>6. Lines(wr, queued, t, at, n)
  BY <1>2, <1>5 DEF Lines
<1>7. QED
  BY <1>3, <1>6

\* new_client.cpp:79-93: the first line of the queue is written.
LEMMA LineWritten ==
    ASSUME NEW wr \in Seq(Nat), NEW queued \in Seq(Nat), NEW posted \in Seq(Nat), NEW at, NEW n,
           queued # <<>>, Lines(wr, queued, posted, at, n)
    PROVE  Lines(Append(wr, Head(queued)), Tail(queued), posted, at, n)
<1>1. PICK t : t = Tail(queued)
  OBVIOUS
<1>2. /\ t \in Seq(Nat)
      /\ Len(queued) \in Nat \ {0} /\ Len(t) = Len(queued) - 1
      /\ \A i \in 1..Len(t) : i + 1 \in 1..Len(queued) /\ t[i] = queued[i + 1]
      /\ Head(queued) \in Nat /\ Head(queued) = queued[1]
  BY <1>1, TailLines
<1>3. PICK w : w = Append(wr, Head(queued))
  OBVIOUS
<1>4. /\ w \in Seq(Nat) /\ Len(w) = Len(wr) + 1 /\ w[Len(wr) + 1] = queued[1]
      /\ \A i \in 1..Len(wr) : w[i] = wr[i]
      /\ Len(wr) \in Nat
  BY <1>2, <1>3
<1>5. queued[1] = Len(wr) + 1
  <2>1. 1 \in 1..Len(queued)
    BY <1>2
  <2>2. QED
    BY <2>1 DEF Lines
<1>6. ASSUME NEW i \in 1..Len(w) PROVE w[i] = i
  <2>1. CASE i \in 1..Len(wr)
    BY <1>4, <2>1 DEF Lines
  <2>2. CASE i = Len(wr) + 1
    BY <1>4, <1>5, <2>2
  <2>3. QED
    BY <1>4, <2>1, <2>2
<1>7. ASSUME NEW i \in 1..Len(t) PROVE t[i] = Len(w) + i
  <2>1. i + 1 \in 1..Len(queued) /\ t[i] = queued[i + 1]
    BY <1>2
  <2>2. queued[i + 1] = Len(wr) + (i + 1)
    BY <2>1 DEF Lines
  <2>3. QED
    BY <1>4, <2>1, <2>2
<1>8. Len(w) + Len(t) = Len(wr) + Len(queued)
  BY <1>2, <1>4
<1>9. Lines(w, t, posted, at, n)
  BY <1>6, <1>7, <1>8 DEF Lines
<1>10. QED
  BY <1>1, <1>3, <1>9

\* A line at the end of a sequence of lines; and when a line is left behind the first.
LEMMA Appended ==
    /\ \A q \in Seq(Nat), n \in Nat : Append(q, n) \in Seq(Nat) /\ Append(q, n) # <<>>
    /\ \A q \in Seq(Nat) : q # <<>> => ((Len(q) > 1) <=> (Tail(q) # <<>>))
<1>1. ASSUME NEW q \in Seq(Nat), NEW n \in Nat
      PROVE  Append(q, n) \in Seq(Nat) /\ Append(q, n) # <<>>
  <2>1. Append(q, n) \in Seq(Nat) /\ Len(Append(q, n)) = Len(q) + 1 /\ Len(q) \in Nat
    OBVIOUS
  <2>2. Len(Append(q, n)) # 0
    BY <2>1
  <2>3. QED
    BY <2>1, <2>2
<1>2. ASSUME NEW q \in Seq(Nat), q # <<>> PROVE (Len(q) > 1) <=> (Tail(q) # <<>>)
  <2>1. \A t \in Seq(Nat) : (t # <<>>) <=> (Len(t) # 0)
    OBVIOUS
  <2>2. (Tail(q) # <<>>) <=> (Len(q) - 1 # 0)
    BY <1>2, <2>1, TailLines
  <2>3. Len(q) \in Nat \ {0}
    BY <1>2, TailLines
  <2>4. QED
    BY <2>2, <2>3
<1>3. QED
  BY <1>1, <1>2

\* Nothing is typed, posted or written in the initial state.
LEMMA InitLines == InitChat => LinesInv
<1> SUFFICES ASSUME InitChat PROVE LinesInv
  OBVIOUS
<1>1. ClientTypes
  BY DEF InitChat, ClientInit, ClientTypes
<1>2. ASSUME NEW c \in Sessions PROVE Writing(c) /\ InOrder(c)
  <2>1. /\ typed[c] = 0 /\ tasks[c] = <<>> /\ m_write_msgs[c] = <<>> /\ writes[c] = 0
        /\ written[c] = <<>>
    BY DEF InitChat, ClientInit
  <2>2. QED
    BY <2>1 DEF Writing, InOrder, Lines
<1>3. QED
  BY <1>1, <1>2 DEF LinesInv, ClientTypes

\* A step of one client leaves the lines of the others alone.
LEMMA OtherLines ==
    ASSUME LinesInv, ClientTypes', typists' = typists, NEW c \in typists,
           Writing(c)', InOrder(c)',
           \A d \in Sessions \ {c} :
              /\ typing'[d] = typing[d] /\ typed'[d] = typed[d] /\ tasks'[d] = tasks[d]
              /\ socket'[d] = socket[d] /\ m_write_msgs'[d] = m_write_msgs[d]
              /\ writes'[d] = writes[d] /\ written'[d] = written[d]
    PROVE  LinesInv'
<1>1. ASSUME NEW d \in typists, d # c PROVE Writing(d)' /\ InOrder(d)'
  <2>1. d \in Sessions \ {c} /\ Writing(d) /\ InOrder(d)
    BY <1>1 DEF LinesInv, ClientTypes
  <2>2. /\ typing'[d] = typing[d] /\ typed'[d] = typed[d] /\ tasks'[d] = tasks[d]
        /\ socket'[d] = socket[d] /\ m_write_msgs'[d] = m_write_msgs[d]
        /\ writes'[d] = writes[d] /\ written'[d] = written[d]
    BY <2>1
  <2>3. QED
    BY <2>1, <2>2, Zenon DEF Writing, InOrder
<1>2. QED
  BY <1>1 DEF LinesInv

\* What the invariant says of one client.
LEMMA OneClient ==
    ASSUME LinesInv, NEW c \in typists
    PROVE  /\ c \in Sessions /\ Writing(c) /\ InOrder(c)
           /\ typing[c] \in {"line", "join", "returned"} /\ typed[c] \in Nat
           /\ tasks[c] \in Seq(Nat) /\ m_write_msgs[c] \in Seq(Nat) /\ written[c] \in Seq(Nat)
           /\ socket[c] \in {"connecting", "connected", "failed", "closed"}
           /\ writes[c] \in {0, 1}
  BY DEF LinesInv, ClientTypes

\* new_client.cpp:116-122: the main thread posts a line, with the next number.
LEMMA TypeStep ==
    ASSUME LinesInv, NEW c \in typists, write(c)
    PROVE  LinesInv'
<1>1. /\ typing[c] = "line"
      /\ typed' = [typed EXCEPT ![c] = typed[c] + 1]
      /\ tasks' = [tasks EXCEPT ![c] = Append(tasks[c], typed[c] + 1)]
      /\ UNCHANGED <<typists, typing, socket, m_write_msgs, writes, written>>
  BY DEF write, untouched
<1>2. Append(tasks[c], typed[c] + 1) \in Seq(Nat) /\ typed[c] + 1 \in Nat
  BY OneClient
<1>3. ClientTypes'
  BY <1>1, <1>2 DEF LinesInv, ClientTypes
<1>4. /\ typed'[c] = typed[c] + 1 /\ tasks'[c] = Append(tasks[c], typed[c] + 1)
      /\ \A d \in Sessions \ {c} : typed'[d] = typed[d] /\ tasks'[d] = tasks[d]
  BY <1>1, OneClient DEF LinesInv, ClientTypes
<1>5. Writing(c)'
  BY <1>1, OneClient DEF Writing
<1>6. Lines(written[c], m_write_msgs[c], Append(tasks[c], typed[c] + 1), "line", typed[c] + 1)
  BY <1>1, OneClient, LineTyped DEF InOrder
<1>7. InOrder(c)'
  BY <1>1, <1>4, <1>6 DEF InOrder
<1>8. QED
  BY <1>1, <1>3, <1>4, <1>5, <1>7, OtherLines

\* new_client.cpp:124: the main thread posts the close, and no line after it.
LEMMA CloseStep ==
    ASSUME LinesInv, NEW c \in typists, close(c)
    PROVE  LinesInv'
<1>1. /\ typing[c] = "line"
      /\ typing' = [typing EXCEPT ![c] = "join"]
      /\ tasks' = [tasks EXCEPT ![c] = Append(tasks[c], CloseTask)]
      /\ UNCHANGED <<typists, typed, socket, m_write_msgs, writes, written>>
  BY DEF close, untouched
<1>2. Append(tasks[c], CloseTask) \in Seq(Nat)
  BY OneClient DEF CloseTask
<1>3. ClientTypes'
  BY <1>1, <1>2 DEF LinesInv, ClientTypes
<1>4. /\ typing'[c] = "join" /\ tasks'[c] = Append(tasks[c], CloseTask)
      /\ \A d \in Sessions \ {c} : typing'[d] = typing[d] /\ tasks'[d] = tasks[d]
  BY <1>1, OneClient DEF LinesInv, ClientTypes
<1>5. Writing(c)'
  BY <1>1, OneClient DEF Writing
<1>6. Lines(written[c], m_write_msgs[c], Append(tasks[c], CloseTask), "join", typed[c])
  BY <1>1, OneClient, ClosePosted DEF InOrder
<1>7. InOrder(c)'
  BY <1>1, <1>4, <1>6 DEF InOrder
<1>8. QED
  BY <1>1, <1>3, <1>4, <1>5, <1>7, OtherLines

\* new_client.cpp:125: main comes back from the join.
LEMMA JoinStep ==
    ASSUME LinesInv, NEW c \in typists, join(c)
    PROVE  LinesInv'
<1>1. /\ typing[c] = "join"
      /\ typing' = [typing EXCEPT ![c] = "returned"]
      /\ UNCHANGED <<typists, typed, tasks, socket, m_write_msgs, writes, written>>
  BY DEF join, untouched
<1>2. ClientTypes'
  BY <1>1 DEF LinesInv, ClientTypes
<1>3. /\ typing'[c] = "returned"
      /\ \A d \in Sessions \ {c} : typing'[d] = typing[d]
  BY <1>1, OneClient DEF LinesInv, ClientTypes
<1>4. Writing(c)'
  BY <1>1, OneClient DEF Writing
<1>5. InOrder(c)'
  <2>1. Lines(written[c], m_write_msgs[c], tasks[c], "join", typed[c])
    BY <1>1, OneClient DEF InOrder
  <2>2. Lines(written[c], m_write_msgs[c], tasks[c], "returned", typed[c])
    BY <2>1 DEF Lines
  <2>3. QED
    BY <1>1, <1>3, <2>2 DEF InOrder
<1>6. QED
  BY <1>1, <1>2, <1>3, <1>4, <1>5, OtherLines

\* new_client.cpp:21-37: a task puts its line into the queue, and begins a write if
\* there is no other line, or closes the socket.
LEMMA RunTaskStep ==
    ASSUME LinesInv, NEW c \in typists, RunTask(c)
    PROVE  LinesInv'
<1>1. /\ tasks[c] # <<>>
      /\ tasks' = [tasks EXCEPT ![c] = Tail(tasks[c])]
      /\ UNCHANGED <<typists, typing, typed, written>>
  BY DEF RunTask, untouched
<1>2. /\ Tail(tasks[c]) \in Seq(Nat)
      /\ Append(m_write_msgs[c], Head(tasks[c])) \in Seq(Nat)
      /\ Append(m_write_msgs[c], Head(tasks[c])) # <<>>
  <2>1. tasks[c] \in Seq(Nat) /\ m_write_msgs[c] \in Seq(Nat)
    BY OneClient
  <2>2. Tail(tasks[c]) \in Seq(Nat) /\ Head(tasks[c]) \in Nat
    BY <1>1, <2>1, TailLines
  <2>3. QED
    BY <2>1, <2>2, Appended
<1>3. /\ tasks'[c] = Tail(tasks[c]) /\ tasks' \in [Sessions -> Seq(Nat)]
      /\ \A d \in Sessions \ {c} : tasks'[d] = tasks[d]
  BY <1>1, <1>2, OneClient DEF LinesInv, ClientTypes
<1>4. CASE Head(tasks[c]) = CloseTask
  <2>1. socket' = [socket EXCEPT ![c] = "closed"] /\ UNCHANGED <<m_write_msgs, writes>>
    BY <1>4 DEF RunTask, Close
  <2>2. /\ socket'[c] = "closed"
        /\ \A d \in Sessions \ {c} : socket'[d] = socket[d]
    BY <2>1, OneClient DEF LinesInv, ClientTypes
  <2>3. ClientTypes'
    BY <1>1, <1>3, <2>1 DEF LinesInv, ClientTypes
  <2>4. Writing(c)'
    BY <2>1, <2>2, OneClient DEF Writing
  <2>5. Lines(written[c], m_write_msgs[c], Tail(tasks[c]), typing[c], typed[c])
    BY <1>1, <1>4, OneClient, CloseTaken DEF InOrder
  <2>6. InOrder(c)'
    BY <1>1, <1>3, <2>1, <2>5 DEF InOrder
  <2>7. QED
    BY <1>1, <1>3, <2>1, <2>2, <2>3, <2>4, <2>6, OtherLines
<1>5. CASE Head(tasks[c]) # CloseTask
  <2>1. /\ m_write_msgs' = [m_write_msgs EXCEPT ![c] = Append(m_write_msgs[c], Head(tasks[c]))]
        /\ writes' = [writes EXCEPT ![c] = IF m_write_msgs[c] = <<>> THEN writes[c] + 1
                                           ELSE writes[c]]
        /\ UNCHANGED socket
    BY <1>5 DEF RunTask, Push
  <2>2. m_write_msgs[c] = <<>> => writes[c] = 0
    BY OneClient DEF Writing
  <2>3. /\ m_write_msgs'[c] = Append(m_write_msgs[c], Head(tasks[c]))
        /\ m_write_msgs' \in [Sessions -> Seq(Nat)]
        /\ \A d \in Sessions \ {c} : m_write_msgs'[d] = m_write_msgs[d]
    BY <1>2, <2>1, OneClient DEF LinesInv, ClientTypes
  <2>4. /\ m_write_msgs[c] = <<>> => writes'[c] = 1
        /\ m_write_msgs[c] # <<>> => writes'[c] = writes[c]
        /\ writes' \in [Sessions -> {0, 1}]
        /\ \A d \in Sessions \ {c} : writes'[d] = writes[d]
    BY <2>1, <2>2, OneClient DEF LinesInv, ClientTypes
  <2>5. ClientTypes'
    BY <1>1, <1>3, <2>1, <2>3, <2>4 DEF LinesInv, ClientTypes
  <2>6. Writing(c)'
    BY <1>2, <2>1, <2>3, <2>4, OneClient DEF Writing
  <2>7. Lines(written[c], Append(m_write_msgs[c], Head(tasks[c])), Tail(tasks[c]), typing[c],
              typed[c])
    BY <1>1, <1>5, OneClient, LinePushed DEF InOrder
  <2>8. InOrder(c)'
    BY <1>1, <1>3, <2>3, <2>7 DEF InOrder
  <2>9. QED
    BY <1>1, <1>3, <2>1, <2>3, <2>4, <2>5, <2>6, <2>8, OtherLines
<1>6. QED
  BY <1>4, <1>5

\* new_client.cpp:79-93: the handler of a write takes the line out of the queue, and the
\* next write begins if another one is there.
LEMMA LineStep ==
    ASSUME LinesInv, NEW c \in typists, do_write(c)
    PROVE  LinesInv'
<1>1. /\ writes[c] > 0
      /\ written' = [written EXCEPT ![c] = Append(written[c], Head(m_write_msgs[c]))]
      /\ m_write_msgs' = [m_write_msgs EXCEPT ![c] = Tail(m_write_msgs[c])]
      /\ writes' = [writes EXCEPT ![c] = IF Len(m_write_msgs[c]) > 1 THEN writes[c]
                                         ELSE writes[c] - 1]
      /\ UNCHANGED <<typists, typing, typed, tasks, socket>>
  BY DEF do_write, untouched
<1>2. writes[c] = 1 /\ m_write_msgs[c] # <<>>
  BY <1>1, OneClient DEF Writing
<1>3. /\ Tail(m_write_msgs[c]) \in Seq(Nat)
      /\ Append(written[c], Head(m_write_msgs[c])) \in Seq(Nat)
      /\ (Len(m_write_msgs[c]) > 1) <=> (Tail(m_write_msgs[c]) # <<>>)
  BY <1>2, OneClient, TailLines, Appended
<1>4. /\ m_write_msgs'[c] = Tail(m_write_msgs[c]) /\ m_write_msgs' \in [Sessions -> Seq(Nat)]
      /\ \A d \in Sessions \ {c} : m_write_msgs'[d] = m_write_msgs[d]
  BY <1>1, <1>3, OneClient DEF LinesInv, ClientTypes
<1>5. /\ written'[c] = Append(written[c], Head(m_write_msgs[c]))
      /\ written' \in [Sessions -> Seq(Nat)]
      /\ \A d \in Sessions \ {c} : written'[d] = written[d]
  BY <1>1, <1>3, OneClient DEF LinesInv, ClientTypes
<1>6. /\ Len(m_write_msgs[c]) > 1 => writes'[c] = 1
      /\ ~(Len(m_write_msgs[c]) > 1) => writes'[c] = 0
      /\ writes' \in [Sessions -> {0, 1}]
      /\ \A d \in Sessions \ {c} : writes'[d] = writes[d]
  BY <1>1, <1>2, OneClient DEF LinesInv, ClientTypes
<1>7. ClientTypes'
  BY <1>1, <1>4, <1>5, <1>6 DEF LinesInv, ClientTypes
<1>8. Writing(c)'
  BY <1>3, <1>4, <1>6 DEF Writing
<1>9. Lines(Append(written[c], Head(m_write_msgs[c])), Tail(m_write_msgs[c]), tasks[c], typing[c],
            typed[c])
  BY <1>2, OneClient, LineWritten DEF InOrder
<1>10. InOrder(c)'
  BY <1>1, <1>4, <1>5, <1>9 DEF InOrder
<1>11. QED
  BY <1>1, <1>4, <1>5, <1>6, <1>7, <1>8, <1>10, OtherLines

\* new_client.cpp:39-93: the handlers of the connect, of the reads and of a write that
\* fails change the socket, and end the write that fails.
LEMMA SocketStep ==
    ASSUME LinesInv, NEW c \in typists,
           do_connect(c) \/ do_read(c) \/ write_fails(c) \/ RunReturns(c)
    PROVE  LinesInv'
<1>1. UNCHANGED <<typists, typing, typed, tasks, m_write_msgs, written>>
  BY DEF do_connect, do_read, write_fails, RunReturns, untouched
<1>2. /\ socket' \in [Sessions -> {"connecting", "connected", "failed", "closed"}]
      /\ \A d \in Sessions \ {c} : socket'[d] = socket[d]
      /\ socket'[c] \in {"connecting", "connected"}
            => socket[c] \in {"connecting", "connected"} /\ writes' = writes
  <2>1. CASE do_connect(c)
    BY <2>1, OneClient DEF do_connect, LinesInv, ClientTypes
  <2>2. CASE do_read(c)
    BY <2>2, OneClient DEF do_read, Close, LinesInv, ClientTypes
  <2>3. CASE write_fails(c)
    BY <2>3, OneClient DEF write_fails, Close, LinesInv, ClientTypes
  <2>4. CASE RunReturns(c)
    BY <2>4, OneClient DEF RunReturns, LinesInv, ClientTypes
  <2>5. QED
    BY <2>1, <2>2, <2>3, <2>4
<1>3. /\ writes' \in [Sessions -> {0, 1}]
      /\ \A d \in Sessions \ {c} : writes'[d] = writes[d]
      /\ writes'[c] \in {writes[c], 0}
  <2>1. CASE write_fails(c)
    BY <2>1, OneClient DEF write_fails, LinesInv, ClientTypes
  <2>2. CASE do_connect(c) \/ do_read(c) \/ RunReturns(c)
    BY <2>2 DEF do_connect, do_read, RunReturns, LinesInv, ClientTypes
  <2>3. QED
    BY <2>1, <2>2
<1>4. ClientTypes'
  BY <1>1, <1>2, <1>3 DEF LinesInv, ClientTypes
<1>5. Writing(c)'
  BY <1>1, <1>2, <1>3, OneClient DEF Writing
<1>6. InOrder(c)'
  BY <1>1, OneClient DEF InOrder
<1>7. QED
  BY <1>1, <1>2, <1>3, <1>4, <1>5, <1>6, OtherLines

\* new_client.cpp:9-127: every step of a client keeps the invariant.
LEMMA ClientStep ==
    ASSUME LinesInv, NEW c \in Sessions, Client(c)
    PROVE  LinesInv'
<1>1. c \in typists
  BY DEF Client
<1>2. \/ write(c) \/ close(c) \/ join(c) \/ RunTask(c) \/ do_write(c)
      \/ do_connect(c) \/ do_read(c) \/ write_fails(c) \/ RunReturns(c)
  BY DEF Client, Run
<1>3. QED
  BY <1>1, <1>2, TypeStep, CloseStep, JoinStep, RunTaskStep, LineStep, SocketStep

\* A client takes a line to the server, or finds that the connection has failed: the room
\* learns of it in handlers of its own.
LEMMA PeerStep ==
    ASSUME RoomInv, LinesInv, NEW c \in Sessions, Client(c)
    PROVE  RoomInv'
<1>1. /\ UNCHANGED <<participants, recent, reading, queue, writing, running, log, start, got>>
      /\ \/ up' = up /\ sent' = sent
         \/ /\ up' = [up EXCEPT ![c] = Append(up[c], <<c, sent + 1>>)]
            /\ sent' = sent + 1 /\ sent < MaxMessages
  BY DEF Client, Run, write, close, join, RunTask, do_connect, do_read, do_write, write_fails,
         RunReturns, untouched
<1>2. \/ failed' = failed
      \/ failed' = [failed EXCEPT ![c] = failed[c] \/ socket[c] = "connected"]
  BY DEF Client, Run, write, close, join, RunTask, do_connect, do_read, do_write, write_fails,
         RunReturns, Close
<1>3. failed' \in [Sessions -> BOOLEAN]
  BY <1>2 DEF RoomInv, Types
<1>4. /\ up' \in [Sessions -> Seq(Messages \cup {Garbage})] /\ sent' \in 0..MaxMessages
      /\ \A r \in Sessions : up[r] # <<>> => up'[r] # <<>> /\ Head(up'[r]) = Head(up[r])
  <2>1. CASE up' = up /\ sent' = sent
    BY <2>1 DEF RoomInv, Types
  <2>2. CASE /\ up' = [up EXCEPT ![c] = Append(up[c], <<c, sent + 1>>)]
             /\ sent' = sent + 1 /\ sent < MaxMessages
    <3>1. <<c, sent + 1>> \in Messages \cup {Garbage} /\ sent' \in 0..MaxMessages
      BY <2>2, ChatConstants DEF Messages, RoomInv, Types
    <3>2. PICK m \in Messages \cup {Garbage} : m = <<c, sent + 1>>
      BY <3>1
    <3>3. up \in [Sessions -> Seq(Messages \cup {Garbage})] /\ up' = [up EXCEPT ![c] = Append(up[c], m)]
      BY <2>2, <3>2 DEF RoomInv, Types
    <3>4. /\ Append(up[c], m) \in Seq(Messages \cup {Garbage})
          /\ up[c] # <<>> => Append(up[c], m) # <<>> /\ Head(Append(up[c], m)) = Head(up[c])
      <4>1. up[c] \in Seq(Messages \cup {Garbage})
        BY <3>3
      <4>2. QED
        BY ONLY <3>2, <4>1
    <3>5. QED
      BY <3>1, <3>3, <3>4
  <2>3. QED
    BY <1>1, <2>1, <2>2
<1>5. Types'
  BY <1>1, <1>3, <1>4 DEF RoomInv, Types
<1>6. BodyThere'
  BY <1>1, <1>4 DEF RoomInv, BodyThere
<1>7. RecentInv' /\ Stretch' /\ Members' /\ WriteUnderWay'
  <2>1. RecentInv'
    BY <1>1 DEF RoomInv, RecentInv
  <2>2. Stretch'
    BY <1>1 DEF RoomInv, Stretch, Given
  <2>3. Members' /\ WriteUnderWay'
    BY <1>1 DEF RoomInv, Members, WriteUnderWay
  <2>4. QED
    BY <2>1, <2>2, <2>3
<1>8. QED
  BY <1>5, <1>6, <1>7 DEF RoomInv

\* A step of the room, the command thread and the clients: a step of the room that leaves
\* the clients alone, of the command thread, or of one client.
LEMMA ChatSteps ==
    NextChat => \/ Next /\ UNCHANGED clientVars
                \/ handle_command /\ UNCHANGED clientVars
                \/ \E c \in Sessions : Client(c)
<1> SUFFICES ASSUME NextChat PROVE \/ Next /\ UNCHANGED clientVars
                                   \/ handle_command /\ UNCHANGED clientVars
                                   \/ \E c \in Sessions : Client(c)
  OBVIOUS
<1>1. ASSUME NEW s \in Sessions,
             \/ Session(Connected(s) /\ Accept(s)) \/ Session(Read(s)) \/ Session(Write(s))
             \/ Session(OtherPeerSend(s)) \/ Session(PeerFail(s))
      PROVE  Next /\ UNCHANGED clientVars
  BY <1>1 DEF Session, OtherPeerSend, Next
<1>2. ASSUME Session(Exit) PROVE Next /\ UNCHANGED clientVars
  BY <1>2 DEF Session, Next
<1>3. QED
  BY <1>1, <1>2 DEF NextChat

ChatInv == RoomInv /\ LinesInv

\* Room, command thread and clients keep the invariant.
LEMMA NextChatInv == ChatInv /\ [NextChat]_vars => ChatInv'
<1> SUFFICES ASSUME ChatInv, [NextChat]_vars PROVE ChatInv'
  OBVIOUS
<1>1. ASSUME UNCHANGED clientVars PROVE LinesInv'
  <2>1. UNCHANGED <<typists, typing, typed, tasks, socket, m_write_msgs, writes, written>>
    BY <1>1 DEF clientVars
  <2>2. QED
    BY <2>1 DEF ChatInv, LinesInv, ClientTypes, Writing, InOrder
<1>2. CASE Next /\ UNCHANGED clientVars
  BY <1>1, <1>2, NextRoom DEF ChatInv
<1>3. CASE handle_command /\ UNCHANGED clientVars
  <2>1. UNCHANGED <<participants, recent, reading, queue, writing, running, up, failed, sent, log,
                    start, got>>
    BY <1>3 DEF handle_command
  <2>2. RoomInv'
    BY <2>1 DEF ChatInv, RoomInv, Types, BodyThere, RecentInv, Stretch, Given, Members,
                WriteUnderWay
  <2>3. QED
    BY <1>1, <1>3, <2>2 DEF ChatInv
<1>4. CASE \E c \in Sessions : Client(c)
  BY <1>4, ClientStep, PeerStep DEF ChatInv
<1>5. CASE UNCHANGED vars
  <2>1. UNCHANGED roomVars /\ UNCHANGED clientVars
    BY <1>5 DEF vars
  <2>2. QED
    BY <1>1, <2>1, NextRoom DEF ChatInv
<1>6. QED
  BY <1>2, <1>3, <1>4, <1>5, ChatSteps

\* The invariant of the room and of its clients holds in every reachable state.
THEOREM ChatInvariant == SpecChat => []ChatInv
<1>1. InitChat => ChatInv
  BY InitRoom, InitLines DEF InitChat, ChatInv
<1>2. QED
  BY <1>1, NextChatInv, PTL DEF SpecChat

\* new_client.cpp:21-31,79-93: a client has one write under way at most, does not forget
\* a line while its socket is open, and writes the lines in the order they were typed.
THEOREM ChatOneWrite == SpecChat => []OneWrite
<1>1. ChatInv => OneWrite
  <2> SUFFICES ASSUME ChatInv, NEW c \in typists
               PROVE  /\ writes[c] <= 1
                      /\ m_write_msgs[c] # <<>> /\ socket[c] \in {"connecting", "connected"}
                            => writes[c] = 1
                      /\ \A i \in DOMAIN written[c] : written[c][i] = i
    BY DEF OneWrite
  <2>1. Writing(c) /\ InOrder(c) /\ writes[c] \in {0, 1} /\ written[c] \in Seq(Nat)
    BY OneClient DEF ChatInv
  <2>2. \A i \in 1..Len(written[c]) : written[c][i] = i
    BY <2>1 DEF InOrder, Lines
  <2>3. QED
    BY <2>1, <2>2 DEF Writing
<1>2. QED
  BY <1>1, ChatInvariant, PTL

\* new_server.cpp:96-105,169-184: with the command thread and chat_clients beside the
\* room, too, no message of a member waits without a write under way.
THEOREM ChatWriteUnderWay == SpecChat => []WriteUnderWay
<1>1. ChatInv => WriteUnderWay
  BY DEF ChatInv, RoomInv
<1>2. QED
  BY <1>1, ChatInvariant, PTL

\* new_server.cpp:22-184 and new_client.cpp: the room whose documents commands delete and
\* change, and whose peers are chat_clients, implements the log with readers.
THEOREM ChatRefines == SpecChat => Abstract!SafetySpec
<1>1. InitChat => Abstract!Init
  BY RoomMapsInit DEF InitChat
<1>2. ChatInv /\ [NextChat]_vars => [Abstract!Next]_(Abstract!vars)
  <2> SUFFICES ASSUME ChatInv, [NextChat]_vars PROVE [Abstract!Next]_(Abstract!vars)
    OBVIOUS
  <2>1. CASE [Next]_roomVars
    BY <2>1, RoomMapsNext DEF ChatInv
  <2>2. CASE UNCHANGED <<participants, reading, queue, running, log, start, got>>
    BY <2>2 DEF Abstract!vars, Given, Status
  <2>3. ASSUME NEW c \in Sessions, Client(c)
        PROVE  UNCHANGED <<participants, reading, queue, running, log, start, got>>
    BY <2>3 DEF Client, Run, write, close, join, RunTask, do_connect, do_read, do_write,
                write_fails, RunReturns, untouched
  <2>4. handle_command => UNCHANGED <<participants, reading, queue, running, log, start, got>>
    BY DEF handle_command
  <2>5. CASE UNCHANGED vars
    BY <2>1, <2>5 DEF vars
  <2>6. QED
    BY <2>1, <2>2, <2>3, <2>4, <2>5, ChatSteps
<1>3. QED
  BY <1>1, <1>2, ChatInvariant, PTL DEF SpecChat, Abstract!SafetySpec
\* One of the names in N is that of the message m.
IsNamed(N, m) == \E f \in N : Matches(m, f)

\* The documents are the messages of the log in its order, but for the last one when the
\* program has ended, and for those that a command has deleted or changed: a message that
\* has been named, and in its place nothing or one that has been named as well.
DocumentsInv ==
    /\ stored \in Seq(Messages \cup {Gone})
    /\ Len(stored) = Len(log) \/ (~running /\ Len(stored) = Len(log) - 1)
    /\ \A i \in 1 .. Len(stored) :
          \/ stored[i] = log[i]
          \/ IsNamed(named, log[i]) /\ (stored[i] = Gone \/ IsNamed(named, stored[i]))

\* new_server.cpp:145-160: what the room delivers is the next document, or the program ends.
LEMMA StoreDocument ==
    ASSUME RoomInv, DocumentsInv, running, NEW s \in Sessions, ReadBody(s), UNCHANGED named
    PROVE  DocumentsInv'
<1> DEFINE m == Head(up[s])
<1>1. /\ reading[s] = "body"
      /\ log' = Append(log, m)
      /\ \/ stored' = Append(stored, m) /\ running' = running
         \/ running' = FALSE /\ stored' = stored
  BY DEF ReadBody, Store
<1>2. m \in Messages /\ log \in Seq(Messages) /\ Len(stored) = Len(log)
  <2>1. up[s] \in Seq(Messages \cup {Garbage}) /\ up[s] # <<>> /\ m # Garbage
    BY <1>1 DEF RoomInv, BodyThere, Types
  <2>2. QED
    BY <2>1 DEF RoomInv, Types, DocumentsInv
<1> HIDE DEF m
<1>3. /\ Len(log') = Len(log) + 1 /\ log'[Len(log) + 1] = m
      /\ \A i \in 1 .. Len(log) : log'[i] = log[i]
  BY <1>1, <1>2
<1>4. ASSUME NEW i \in 1 .. Len(stored)
      PROVE  stored[i] = log'[i] \/ (IsNamed(named', log'[i]) /\ (stored[i] = Gone \/ IsNamed(named', stored[i])))
  <2>1. log'[i] = log[i]
    BY <1>2, <1>3
  <2>2. QED
    BY <2>1 DEF DocumentsInv
<1>5. CASE stored' = Append(stored, m) /\ running' = running
  <2>1. /\ stored' \in Seq(Messages \cup {Gone}) /\ Len(stored') = Len(stored) + 1
        /\ stored'[Len(stored) + 1] = m
        /\ \A i \in 1 .. Len(stored) : stored'[i] = stored[i]
    <3>1. stored \in Seq(Messages \cup {Gone}) /\ m \in Messages \cup {Gone}
      BY <1>2 DEF DocumentsInv
    <3>2. QED
      BY <1>5, <3>1
  <2>2. ASSUME NEW i \in 1 .. Len(stored')
        PROVE  (stored[i] = log[i] \/ (IsNamed(named, log[i]) /\ (stored[i] = Gone \/ IsNamed(named, stored[i]))))'
    <3>1. CASE i = Len(stored) + 1
      BY <1>2, <1>3, <2>1, <3>1
    <3>2. CASE i \in 1 .. Len(stored)
      <4>1. stored'[i] = stored[i]
        BY <2>1, <3>2
      <4>2. QED
        BY <1>4, <3>2, <4>1
    <3>3. Len(stored) \in Nat
      BY DEF DocumentsInv
    <3>4. QED
      BY <2>1, <3>1, <3>2, <3>3
  <2>3. QED
    BY <1>2, <1>3, <2>1, <2>2 DEF DocumentsInv
<1>6. CASE running' = FALSE /\ stored' = stored
  <2>1. Len(log) \in Nat
    BY <1>2
  <2>2. Len(stored') = Len(log') - 1
    BY <1>2, <1>3, <1>6, <2>1
  <2>3. QED
    BY <1>4, <1>6, <2>2 DEF DocumentsInv
<1>7. QED
  BY <1>1, <1>5, <1>6

\* A command puts documents into the places of those that it names.
LEMMA PutDocuments ==
    ASSUME RoomInv, DocumentsInv, UNCHANGED <<log, running>>, named \subseteq named',
           NEW d \in [DOMAIN stored -> Messages \cup {Gone}], stored' = d,
           \A i \in DOMAIN stored :
              d[i] = stored[i] \/ (IsNamed(named', stored[i]) /\ (d[i] = Gone \/ IsNamed(named', d[i])))
    PROVE  DocumentsInv'
<1>1. DOMAIN stored = 1 .. Len(stored) /\ Len(stored) \in Nat
  BY DEF DocumentsInv
<1>2. stored' \in Seq(Messages \cup {Gone}) /\ Len(stored') = Len(stored)
  BY <1>1
<1>3. ASSUME NEW i \in 1 .. Len(stored)
      PROVE  (stored[i] = log[i] \/ (IsNamed(named, log[i]) /\ (stored[i] = Gone \/ IsNamed(named, stored[i]))))'
  <2>1. \A m : IsNamed(named, m) => IsNamed(named', m)
    BY DEF IsNamed
  <2>2. stored[i] = log[i] \/ (IsNamed(named', log[i]) /\ (stored[i] = Gone \/ IsNamed(named', stored[i])))
    BY <2>1 DEF DocumentsInv
  <2>3. d[i] = stored[i] \/ (IsNamed(named', stored[i]) /\ (d[i] = Gone \/ IsNamed(named', d[i])))
    BY <1>1
  <2>4. stored'[i] = d[i] /\ log'[i] = log[i]
    OBVIOUS
  <2>5. QED
    BY <2>2, <2>3, <2>4
<1>4. QED
  BY <1>2, <1>3 DEF DocumentsInv

\* new_server.cpp:205-265: a document that delete_many takes matches what has been named.
LEMMA DeleteDocuments ==
    ASSUME RoomInv, DocumentsInv, UNCHANGED <<log, running>>, NEW f, delDate(f)
    PROVE  DocumentsInv'
<1>1. /\ stored' = [i \in DOMAIN stored |-> IF Matches(stored[i], f) THEN Gone ELSE stored[i]]
      /\ named' = named \cup {f}
  BY DEF delDate, Named
<1>2. stored' \in [DOMAIN stored -> Messages \cup {Gone}]
  BY <1>1 DEF DocumentsInv
<1>3. ASSUME NEW i \in DOMAIN stored
      PROVE  stored'[i] = stored[i] \/ (IsNamed(named', stored[i]) /\ stored'[i] = Gone)
  BY <1>1 DEF IsNamed
<1>4. PICK d \in [DOMAIN stored -> Messages \cup {Gone}] : d = stored'
  BY <1>2
<1>5. named \subseteq named'
  BY <1>1
<1>6. \A i \in DOMAIN stored :
         d[i] = stored[i] \/ (IsNamed(named', stored[i]) /\ (d[i] = Gone \/ IsNamed(named', d[i])))
  BY <1>3, <1>4
<1>7. QED
  BY <1>4, <1>5, <1>6, PutDocuments

\* new_server.cpp:316-430: a document that update_many changes matches the filter, and has
\* the new value afterwards.
LEMMA UpdateDocuments ==
    ASSUME RoomInv, DocumentsInv, UNCHANGED <<log, running>>, NEW f, NEW field \in {1, 2}, NEW new,
           field = 1 => new \in Sessions, field = 2 => new \in Contents, update(f, field, new)
    PROVE  DocumentsInv'
<1>1. /\ stored' = [i \in DOMAIN stored |-> Changed(stored[i], f, field, new)]
      /\ named' = named \cup {f, new}
  BY DEF update, Named
<1>2. ASSUME NEW m \in Messages \cup {Gone}
      PROVE  /\ Changed(m, f, field, new) \in Messages \cup {Gone}
             /\ \/ Changed(m, f, field, new) = m
                \/ /\ Matches(m, f)
                   /\ Changed(m, f, field, new) = Gone \/ Matches(Changed(m, f, field, new), new)
  <2>1. CASE ~Matches(m, f)
    BY <2>1 DEF Changed
  <2>2. CASE Matches(m, f)
    <3>1. m \in Messages /\ Changed(m, f, field, new) = [m EXCEPT ![field] = new]
      BY <2>2 DEF Matches, Changed
    <3>2. PICK s \in Sessions, n \in 1 .. MaxMessages : m = <<s, n>>
      BY <3>1 DEF Messages
    <3>3. CASE field = 1
      <4>1. [<<s, n>> EXCEPT ![1] = new] = <<new, n>> /\ new \in Sessions
        BY <3>3
      <4>2. <<new, n>> \in Messages /\ (<<new, n>> = Gone \/ Matches(<<new, n>>, new))
        BY <4>1 DEF Messages, Matches
      <4>3. QED
        BY <2>2, <3>1, <3>2, <3>3, <4>1, <4>2
    <3>4. CASE field = 2
      <4>1. [<<s, n>> EXCEPT ![2] = new] = <<s, new>> /\ new \in 1 .. MaxMessages
        BY <3>4 DEF Contents
      <4>2. <<s, new>> \in Messages /\ (<<s, new>> = Gone \/ Matches(<<s, new>>, new))
        BY <4>1 DEF Messages, Matches
      <4>3. QED
        BY <2>2, <3>1, <3>2, <3>4, <4>1, <4>2
    <3>5. QED
      BY <3>3, <3>4
  <2>3. QED
    BY <2>1, <2>2
<1>3. \A i \in DOMAIN stored : stored[i] \in Messages \cup {Gone}
  BY DEF DocumentsInv
<1>4. \A i \in DOMAIN stored : stored'[i] = Changed(stored[i], f, field, new)
  BY <1>1
<1>5. stored' \in [DOMAIN stored -> Messages \cup {Gone}]
  BY <1>1, <1>2, <1>3
<1>6. PICK d \in [DOMAIN stored -> Messages \cup {Gone}] : d = stored'
  BY <1>5
<1>7. \A m : Matches(m, f) \/ Matches(m, new) => IsNamed(named', m)
  BY <1>1 DEF IsNamed
<1>8. \A i \in DOMAIN stored :
         d[i] = stored[i] \/ (IsNamed(named', stored[i]) /\ (d[i] = Gone \/ IsNamed(named', d[i])))
  BY <1>2, <1>3, <1>4, <1>6, <1>7
<1>9. named \subseteq named'
  BY <1>1
<1>10. QED
  BY <1>6, <1>8, <1>9, PutDocuments

\* Only reading a body and the commands have to do with documents.
LEMMA DocumentsStep == ChatInv /\ DocumentsInv /\ [NextChat]_vars => DocumentsInv'
<1> SUFFICES ASSUME ChatInv, DocumentsInv, [NextChat]_vars PROVE DocumentsInv'
  OBVIOUS
<1>1. CASE UNCHANGED <<stored, log, named>> /\ (running \/ UNCHANGED running)
  <2>1. Len(stored) = Len(log) \/ ~running'
    BY <1>1 DEF DocumentsInv
  <2>2. QED
    BY <1>1, <2>1 DEF DocumentsInv
<1>2. CASE UNCHANGED vars
  BY <1>1, <1>2 DEF vars, roomVars, commandVars
<1>3. ASSUME NEW s \in Sessions,
             \/ Session(Connected(s) /\ Accept(s)) \/ Session(Read(s)) \/ Session(Write(s))
             \/ Session(OtherPeerSend(s)) \/ Session(PeerFail(s))
      PROVE  DocumentsInv'
  <2>1. CASE Session(Read(s)) /\ ReadBody(s)
    BY <2>1, StoreDocument DEF Session, commandVars, ChatInv
  <2>2. CASE Session(Read(s)) /\ ~ReadBody(s)
    BY <1>1, <2>2 DEF Session, commandVars, Read, ReadFails, ReadHeader
  <2>3. CASE ~Session(Read(s))
    BY <1>1, <1>3, <2>3 DEF Session, commandVars, Accept, Write, WriteDone, WriteFails,
                            OtherPeerSend, PeerSend, PeerFail
  <2>4. QED
    BY <2>1, <2>2, <2>3
<1>4. CASE Session(Exit)
  BY <1>1, <1>4 DEF Session, commandVars, Exit
<1>5. CASE handle_command
  <2>1. UNCHANGED <<log, running>> /\ RoomInv
    BY <1>5 DEF handle_command, ChatInv
  <2>2. \/ \E f \in Filters : delDate(f)
        \/ \E f \in Filters, ip \in Sessions : update(f, 1, ip)
        \/ \E f \in Filters, content \in Contents : update(f, 2, content)
    BY <1>5 DEF handle_command
  <2>3. QED
    BY <2>1, <2>2, DeleteDocuments, UpdateDocuments
<1>6. ASSUME NEW c \in Sessions, Client(c) PROVE DocumentsInv'
  <2>1. UNCHANGED <<stored, log, running, named>>
    BY <1>6 DEF Client, Run, write, close, join, RunTask, do_connect, do_read, do_write,
                write_fails, RunReturns, untouched, commandVars
  <2>2. QED
    BY <1>1, <2>1
<1>7. QED
  BY <1>2, <1>3, <1>4, <1>5, <1>6 DEF NextChat

\* new_server.cpp:124-144,205-265,316-430: whatever commands delete and change, every other
\* message the room was told is in the database, in the order of the room, but for the
\* last one when the program has ended before it was stored.
THEOREM ChatStoredUnlessNamed == SpecChat => []StoredUnlessNamed
<1>1. InitChat => DocumentsInv
  BY DEF InitChat, Init, DocumentsInv
<1>2. ChatInv /\ DocumentsInv => StoredUnlessNamed
  <2> SUFFICES ASSUME ChatInv, DocumentsInv PROVE StoredUnlessNamed
    OBVIOUS
  <2>1. /\ log \in Seq(Messages) /\ DOMAIN log = 1 .. Len(log) /\ DOMAIN stored = 1 .. Len(stored)
        /\ Len(log) \in Nat /\ Len(stored) \in Nat
    BY DEF ChatInv, RoomInv, Types, DocumentsInv
  <2> DEFINE l == Len(log)
             n == Len(stored)
  <2>2. l \in Nat /\ n \in Nat /\ (n = l \/ (~running /\ n = l - 1))
    BY <2>1 DEF DocumentsInv
  <2>3. \A i \in 1 .. l : i \in 1 .. n \/ (~running /\ i = l)
    <3> HIDE DEF l, n
    <3> QED BY <2>2
  <2>4. \A i \in 1 .. n : i \in 1 .. l
    <3> HIDE DEF l, n
    <3> QED BY <2>2
  <2>5. ASSUME NEW m, m # Gone, \A f \in named : ~Matches(m, f) PROVE ~IsNamed(named, m)
    BY <2>5 DEF IsNamed
  <2>6. ASSUME NEW i \in DOMAIN log, log[i] # Gone, \A f \in named : ~Matches(log[i], f)
        PROVE  \/ i \in DOMAIN stored /\ stored[i] = log[i]
               \/ ~running /\ i = Len(log)
    <3>1. i \in 1 .. Len(stored) \/ (~running /\ i = Len(log))
      BY <2>1, <2>6, <2>3
    <3>2. ~IsNamed(named, log[i])
      BY <2>5, <2>6
    <3>3. QED
      BY <2>1, <3>1, <3>2 DEF DocumentsInv
  <2>7. ASSUME NEW i \in DOMAIN stored, stored[i] # Gone, \A f \in named : ~Matches(stored[i], f)
        PROVE  i \in DOMAIN log /\ stored[i] = log[i]
    <3>1. i \in 1 .. Len(log)
      BY <2>1, <2>7, <2>4
    <3>2. ~IsNamed(named, stored[i])
      BY <2>5, <2>7
    <3>3. QED
      BY <2>1, <2>7, <3>1, <3>2 DEF DocumentsInv
  <2>8. QED
    BY <2>6, <2>7 DEF StoredUnlessNamed
<1>3. QED
  BY <1>1, <1>2, DocumentsStep, ChatInvariant, PTL DEF SpecChat
===============================================================================
