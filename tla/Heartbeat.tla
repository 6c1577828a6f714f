------------------------------- MODULE Heartbeat -------------------------------
(***************************************************************************)
(* The heartbeat of one CELLServer (CELLServer.hpp, CELLClient.hpp,        *)
(* MyServer in server.cpp).  Every client has a counter _dtHeart of        *)
(* milliseconds, which a login or a heartbeat message sets to zero.  Once  *)
(* a round the worker adds to every counter the time since it last did so, *)
(* and drops the clients whose counter has reached DeadTime.               *)
(*                                                                         *)
(* The time added is the same for all clients: one whose counter was set   *)
(* to zero in this round, or that joined in it, is charged for the part of *)
(* the round before that too.  MaxRound is how long a round may take, the  *)
(* only thing assumed of time.                                             *)
(***************************************************************************)
EXTENDS Integers

CONSTANTS Clients,
          DeadTime,     \* CLIENT_HREAT_DEAD_TIME
          MaxRound      \* longest time between two updates of _oldTime

ASSUME HeartConstants == DeadTime \in Nat \ {0} /\ MaxRound \in Nat \ {0}

VARIABLES now,          \* CELLTime::getNowInMilliSec
          oldTime,      \* _oldTime
          round,        \* where the worker is in its round
          state,        \* of each client: none, buffered, joined, gone
          dtHeart,      \* _dtHeart of each client
          since         \* history: when the client joined or was last heard of

heartVars == <<now, oldTime, round, state, dtHeart, since>>

HeartInit ==
    /\ now = 0
    /\ oldTime = 0
    /\ round = "join"
    /\ state = [c \in Clients |-> "none"]
    /\ dtHeart = [c \in Clients |-> 0]
    /\ since = [c \in Clients |-> 0]

Joined == {c \in Clients : state[c] = "joined"}

------------------------------------------------------------------------------
Tick ==
    /\ now - oldTime < MaxRound
    /\ now' = now + 1
    /\ UNCHANGED <<oldTime, round, state, dtHeart, since>>

\* The accept thread makes a client (its constructor clears the counter) and puts
\* it into _clientsBuff.
addClient(c) ==
    /\ state[c] = "none"
    /\ state' = [state EXCEPT ![c] = "buffered"]
    /\ dtHeart' = [dtHeart EXCEPT ![c] = 0]
    /\ UNCHANGED <<now, oldTime, round, since>>

\* The round begins: the buffered clients join; without any client the worker
\* sleeps and takes the time anew.
Join ==
    /\ round = "join"
    /\ state' = [c \in Clients |-> IF state[c] = "buffered" THEN "joined" ELSE state[c]]
    /\ since' = [c \in Clients |-> IF state[c] = "buffered" THEN now ELSE since[c]]
    /\ IF \E c \in Clients : state[c] \in {"buffered", "joined"}
       THEN round' = "serve" /\ UNCHANGED oldTime
       ELSE oldTime' = now /\ UNCHANGED round
    /\ UNCHANGED <<now, dtHeart>>

\* Mutant of resetDTHeart: the counter is not cleared.
resetForgotten(c) ==
    /\ round = "serve"
    /\ state[c] = "joined"
    /\ since' = [since EXCEPT ![c] = now]
    /\ UNCHANGED <<now, oldTime, round, state, dtHeart>>

\* OnNetMsg of a login or of a heartbeat.
resetDTHeart(c) ==
    /\ round = "serve"
    /\ state[c] = "joined"
    /\ dtHeart' = [dtHeart EXCEPT ![c] = 0]
    /\ since' = [since EXCEPT ![c] = now]
    /\ UNCHANGED <<now, oldTime, round, state>>

\* A client whose socket has failed.
Leave(c) ==
    /\ round = "serve"
    /\ state[c] = "joined"
    /\ state' = [state EXCEPT ![c] = "gone"]
    /\ UNCHANGED <<now, oldTime, round, dtHeart, since>>

\* Mutant of Overdue: > for >=.
OverdueLate(c) == dtHeart[c] + (now - oldTime) > DeadTime

Overdue(c) == dtHeart[c] + (now - oldTime) >= DeadTime

\* Every client in the map is charged, and dropped if that makes its counter full.
CheckTime ==
    /\ round = "serve"
    /\ oldTime' = now
    /\ dtHeart' = [c \in Clients |->
                      IF c \in Joined THEN dtHeart[c] + (now - oldTime) ELSE dtHeart[c]]
    /\ state' = [c \in Clients |->
                      IF c \in Joined /\ Overdue(c) THEN "gone" ELSE state[c]]
    /\ round' = "join"
    /\ UNCHANGED <<now, since>>

HeartNext ==
    \/ Tick \/ Join \/ CheckTime
    \/ \E c \in Clients : addClient(c) \/ resetDTHeart(c) \/ Leave(c)

HeartSpec == HeartInit /\ [][HeartNext]_heartVars
------------------------------------------------------------------------------
\* Times, counters and states are what they should be.
TypeOK ==
    /\ now \in Nat /\ oldTime \in Nat /\ oldTime <= now /\ now - oldTime <= MaxRound
    /\ round \in {"join", "serve"}
    /\ state \in [Clients -> {"none", "buffered", "joined", "gone"}]
    /\ dtHeart \in [Clients -> Nat]
    /\ since \in [Clients -> Nat]

\* CELLServer.hpp:130-157, CELLClient.hpp:107-116: CheckTime drops no client that
\* was heard of within DeadTime less one round; a client that keeps shorter
\* intervals between its heartbeats stays.
NoEarlyDrop ==
    [][\A c \in Clients :
          state[c] = "joined" /\ state'[c] = "gone" /\ round' = "join"
             => now - since[c] + MaxRound >= DeadTime]_heartVars

\* CELLServer.hpp:130-157: a client that is not heard of is gone at the latest
\* DeadTime and one round after it joined or was last heard of.
DroppedInTime == \A c \in Joined : now - since[c] < DeadTime + MaxRound
==============================================================================
