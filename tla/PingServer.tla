------------------------------ MODULE PingServer ------------------------------
(***************************************************************************)
(* TcpServer.cpp: a server whose sessions, talk_to_client, answer one      *)
(* request after the other, and a timer in each that stops clients that    *)
(* are silent.  One thread runs all handlers, in the order they become     *)
(* ready; each action is one handler.                                      *)
(*                                                                         *)
(* deadline_timer: setting it again cancels the wait under way, whose      *)
(* handler then runs all the same; on_check_ping does not look at the      *)
(* error it is given.  A wait that has expired can no longer be cancelled. *)
(***************************************************************************)
EXTENDS Integers

CONSTANTS Clients,
          Timeout,     \* 5000 ms, in ticks
          Null

ASSUME PingConstants ==
    /\ Timeout \in Nat /\ Timeout >= 2
    /\ Null \notin {"login", "ping", "ask_clients", "other"}
    /\ Null \notin ({"login", "ping"} \X {"ok", "client_list_changed"})
    /\ Null \notin ({"clients"} \X SUBSET Clients)

VARIABLES accepted,          \* the connections a session was started for
          clients,           \* the sessions that are started
          username,          \* those that have logged in
          clients_changed,   \* the flag of each session
          op,                \* the read or write under way
          timer,             \* ticks until the wait ends, or Off
          checks,            \* on_check_ping handlers that are ready
          last_ping,         \* ticks since, up to Timeout + 1
          request,           \* on its way to the session
          reply,             \* on its way to the client
          broken,            \* connections that have failed or the client has closed
          timed,             \* the sessions whose clock is kept: a wait of the others
                             \* ends at any moment, and finds them overdue or not
          slow               \* history: a turn has taken half of Timeout or more

serverVars == <<accepted, clients, username, clients_changed, op, timer, checks,
                last_ping, timed, slow>>
connVars == <<request, reply, broken>>

Off == Timeout + 1

ServerInit ==
    /\ accepted = {}
    /\ clients = {}
    /\ username = {}
    /\ clients_changed = [c \in Clients |-> FALSE]
    /\ op = [c \in Clients |-> "none"]
    /\ timer = [c \in Clients |-> Off]
    /\ checks = [c \in Clients |-> 0]
    /\ last_ping = [c \in Clients |-> 0]
    /\ request = [c \in Clients |-> Null]
    /\ reply = [c \in Clients |-> Null]
    /\ broken = {}
    /\ timed \in SUBSET Clients
    /\ slow = {}

started(c) == c \in clients

\* The read, and post_check_ping.
do_read(c) ==
    /\ op' = [op EXCEPT ![c] = "read"]
    /\ checks' = [checks EXCEPT ![c] = @ + IF timer[c] = Off THEN 0 ELSE 1]
    /\ timer' = [timer EXCEPT ![c] = IF c \in timed THEN Timeout ELSE Off]

do_write(c, msg) ==
    /\ op' = [op EXCEPT ![c] = "write"]
    /\ reply' = [reply EXCEPT ![c] = msg]
    /\ UNCHANGED <<timer, checks>>

\* Every session is told.
update_clients_changed ==
    clients_changed' = [c \in Clients |-> c \in clients \/ clients_changed[c]]

\* What the session and its socket hold is dropped, nothing reads it again.
Drop(c) ==
    /\ clients' = clients \ {c}
    /\ username' = username \ {c}
    /\ slow' = slow \ {c}
    /\ last_ping' = [last_ping EXCEPT ![c] = 0]
    /\ request' = [request EXCEPT ![c] = Null]

\* Mutant: the others are not told.
stopQuietly(c) ==
    /\ Drop(c)
    /\ clients_changed' = [clients_changed EXCEPT ![c] = FALSE]

stop(c) ==
    /\ Drop(c)
    /\ clients_changed' =
         [d \in Clients |-> d # c /\ (clients_changed[d] \/ {c, d} \subseteq clients)]

------------------------------------------------------------------------------
\* handle_accept, which ignores its error.
handle_accept(c) ==
    /\ c \notin accepted
    /\ accepted' = accepted \cup {c}
    /\ clients' = clients \cup {c}
    /\ last_ping' = [last_ping EXCEPT ![c] = 0]
    /\ do_read(c)
    /\ UNCHANGED <<username, clients_changed, timed, connVars, slow>>

\* on_read with an error, of the connection or because stop has closed it, and when
\* the session was stopped after the read had ended.
on_read_fails(c) ==
    /\ op[c] = "read"
    /\ c \in broken \/ ~started(c)
    /\ stop(c)
    /\ op' = [op EXCEPT ![c] = "none"]
    /\ UNCHANGED <<accepted, timer, checks, timed, reply, broken>>

Process(c, msg) ==
    /\ op[c] = "read"
    /\ started(c)
    /\ request[c] = msg
    /\ request' = [request EXCEPT ![c] = Null]
    /\ UNCHANGED <<accepted, clients, last_ping, broken, timed, slow>>

on_login(c) ==
    /\ Process(c, "login")
    /\ username' = username \cup {c}
    /\ do_write(c, <<"login", "ok">>)
    /\ update_clients_changed

on_ping(c) ==
    /\ Process(c, "ping")
    /\ do_write(c, <<"ping", IF clients_changed[c] THEN "client_list_changed" ELSE "ok">>)
    /\ clients_changed' = [clients_changed EXCEPT ![c] = FALSE]
    /\ UNCHANGED username

\* The names of the sessions; one that has not logged in has none.
on_clients(c) ==
    /\ Process(c, "ask_clients")
    /\ do_write(c, <<"clients", clients \cap username>>)
    /\ UNCHANGED <<username, clients_changed>>

\* No other read or write is begun.
invalid_msg(c) ==
    /\ Process(c, "other")
    /\ op' = [op EXCEPT ![c] = "none"]
    /\ UNCHANGED <<username, clients_changed, timer, checks, reply>>

\* With or without an error, and when the session is stopped.  A check that was ready
\* when the write began runs first.
on_write(c) ==
    /\ op[c] = "write" /\ checks[c] = 0
    /\ do_read(c)
    /\ UNCHANGED <<accepted, clients, username, clients_changed, last_ping, timed, connVars, slow>>

\* The comparison with 5000 ms: at the limit either way, a tick is longer than a
\* millisecond.
Overdue(c) == IF last_ping[c] = Timeout THEN BOOLEAN ELSE {last_ping[c] > Timeout}

\* Mutant: the timer is set again.
on_check_ping_again(c) ==
    /\ checks[c] > 0
    /\ checks' = [checks EXCEPT ![c] = @ - 1]
    /\ timer' = [timer EXCEPT ![c] = Timeout]
    /\ \E overdue \in Overdue(c) :
          IF overdue THEN stop(c)
          ELSE /\ last_ping' = [last_ping EXCEPT ![c] = 0]
               /\ UNCHANGED <<clients, username, clients_changed, slow, request>>
    /\ UNCHANGED <<accepted, op, timed, reply, broken>>

\* Mutant: last_ping is not set again.
on_check_ping_once(c) ==
    /\ checks[c] > 0
    /\ checks' = [checks EXCEPT ![c] = @ - 1]
    /\ \E overdue \in Overdue(c) :
          IF overdue THEN stop(c)
          ELSE UNCHANGED <<clients, username, clients_changed, slow, last_ping, request>>
    /\ UNCHANGED <<accepted, op, timer, timed, reply, broken>>

on_check_ping(c) ==
    /\ checks[c] > 0
    /\ checks' = [checks EXCEPT ![c] = @ - 1]
    /\ \E overdue \in Overdue(c) :
          IF overdue THEN stop(c)
          ELSE /\ last_ping' = [last_ping EXCEPT ![c] = 0]
               /\ UNCHANGED <<clients, username, clients_changed, slow, request>>
    /\ UNCHANGED <<accepted, op, timer, timed, reply, broken>>

\* The same without a clock: at any moment the session may be overdue.
on_check_ping_any(c) ==
    /\ c \in clients \ timed
    /\ stop(c)
    /\ UNCHANGED <<accepted, op, timer, checks, timed, reply, broken>>

\* The handlers of a session whose objects it owns.
Session(c) ==
    \/ on_read_fails(c) \/ on_login(c) \/ on_ping(c) \/ on_clients(c) \/ invalid_msg(c)
    \/ on_write(c) \/ on_check_ping(c) \/ on_check_ping_any(c)

\* A tick of the clock: on_check_ping runs in the tick it is ready in.
Tick ==
    LET ending == {c \in timed : timer[c] = 1} IN
    /\ \A c \in timed : checks[c] = 0
    /\ last_ping' = [c \in Clients |-> IF c \in timed \cap clients /\ last_ping[c] <= Timeout
                                       THEN last_ping[c] + 1 ELSE last_ping[c]]
    /\ timer' = [c \in Clients |-> IF c \in ending THEN Off
                                   ELSE IF c \in timed /\ timer[c] # Off THEN timer[c] - 1
                                   ELSE timer[c]]
    /\ checks' = [c \in Clients |-> IF c \in ending THEN 1 ELSE checks[c]]
    /\ slow' = slow \cup {c \in timed \cap clients : 2 * (Timeout - timer[c]) >= Timeout}
    /\ UNCHANGED <<accepted, clients, username, clients_changed, op, timed, connVars>>

\* The session's object has been destroyed: no handler refers to it.
Released(c) ==
    c \in accepted \ clients /\ op[c] = "none" /\ timer[c] = Off /\ checks[c] = 0
==============================================================================
