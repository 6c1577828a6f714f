------------------------------ MODULE PingClient ------------------------------
(***************************************************************************)
(* TcpClient.cpp: clients that log in, ask for the list of clients, and    *)
(* then ping after a pause of any length (rand() % 7000 ms: shorter or     *)
(* longer than the server's limit), asking for the list again when the     *)
(* answer says that it has changed; with PingServer.                       *)
(***************************************************************************)
EXTENDS PingServer

VARIABLES at,        \* what a client's next handler is
          list       \* the list it has been told, or Null

clientVars == <<at, list>>
vars == <<serverVars, connVars, clientVars>>

Init ==
    /\ ServerInit
    /\ at \in [Clients -> {"connect", "none"}]
    /\ list = [c \in Clients |-> Null]

At(c, s) == at' = [at EXCEPT ![c] = s]

\* do_write: the request reaches the session unless the connection has ended.
Write(c, msg) ==
    /\ At(c, "on_write")
    /\ request' = [request EXCEPT ![c] = IF c \in broken \/ c \in accepted \ clients
                                           THEN Null ELSE msg]

postpone_ping(c) == At(c, "do_ping")

------------------------------------------------------------------------------
on_connect(c) ==
    /\ at[c] = "connect"
    /\ \/ Write(c, "login") /\ UNCHANGED broken
       \/ At(c, "stopped") /\ broken' = broken \cup {c} /\ UNCHANGED request
    /\ UNCHANGED <<serverVars, reply, list>>

\* The error is not looked at.
client_on_write(c) ==
    /\ at[c] = "on_write"
    /\ At(c, "on_read")
    /\ UNCHANGED <<serverVars, connVars, list>>

\* on_read with an error: the connection has failed, or the session has closed it and
\* what it wrote may be lost.
client_on_read_fails(c) ==
    /\ at[c] = "on_read"
    /\ c \in broken \/ c \in accepted \ clients
    /\ At(c, "stopped")
    /\ broken' = broken \cup {c}
    /\ reply' = [reply EXCEPT ![c] = Null]
    /\ list' = [list EXCEPT ![c] = Null]
    /\ UNCHANGED <<serverVars, request>>

Answered(c, msg) ==
    /\ at[c] = "on_read"
    /\ reply[c] = msg
    /\ reply' = [reply EXCEPT ![c] = Null]
    /\ UNCHANGED <<serverVars, broken>>

client_on_login(c) ==
    /\ Answered(c, <<"login", "ok">>)
    /\ Write(c, "ask_clients")
    /\ UNCHANGED list

client_on_ping(c) ==
    \/ /\ Answered(c, <<"ping", "client_list_changed">>)
       /\ Write(c, "ask_clients")
       /\ UNCHANGED list
    \/ /\ Answered(c, <<"ping", "ok">>)
       /\ postpone_ping(c)
       /\ UNCHANGED <<request, list>>

client_on_clients(c) ==
    \E cs \in SUBSET Clients :
        /\ Answered(c, <<"clients", cs>>)
        /\ list' = [list EXCEPT ![c] = cs]
        /\ postpone_ping(c)
        /\ UNCHANGED request

do_ping(c) ==
    /\ at[c] = "do_ping"
    /\ Write(c, "ping")
    /\ UNCHANGED <<serverVars, reply, broken, list>>

Client(c) ==
    \/ on_connect(c) \/ client_on_write(c) \/ client_on_read_fails(c)
    \/ client_on_login(c) \/ client_on_ping(c) \/ client_on_clients(c) \/ do_ping(c)

------------------------------------------------------------------------------
\* A connection fails, with what is on its way; the host of a client vanishes without
\* a word; another program connects and sends something else.
Break(c) ==
    /\ at[c] \notin {"connect", "none"} /\ c \notin broken
    /\ broken' = broken \cup {c}
    /\ request' = [request EXCEPT ![c] = Null]
    /\ reply' = [reply EXCEPT ![c] = Null]
    /\ UNCHANGED <<serverVars, clientVars>>

Vanish(c) ==
    /\ at[c] \in {"on_write", "on_read", "do_ping"} /\ c \notin broken
    /\ At(c, "none")
    /\ reply' = [reply EXCEPT ![c] = Null]
    /\ list' = [list EXCEPT ![c] = Null]
    /\ UNCHANGED <<serverVars, request, broken>>

Stranger(c) ==
    /\ at[c] = "connect"
    /\ At(c, "none")
    /\ request' = [request EXCEPT ![c] = "other"]
    /\ UNCHANGED <<serverVars, reply, broken, list>>

\* The connection is accepted when it is there.
Accept(c) ==
    /\ at[c] # "connect"
    /\ handle_accept(c)
    /\ UNCHANGED clientVars

Handler(c) == Client(c) \/ Accept(c) \/ (Session(c) /\ UNCHANGED clientVars)

Next ==
    \/ Tick /\ UNCHANGED clientVars
    \/ \E c \in Clients : Handler(c) \/ Break(c) \/ Vanish(c) \/ Stranger(c)

Spec == Init /\ [][Next]_vars

\* Handlers that are ready are run, and time goes on.
Fairness == WF_vars(Tick /\ UNCHANGED clientVars) /\ \A c \in Clients : WF_vars(Handler(c))

FairSpec == Spec /\ Fairness

------------------------------------------------------------------------------
\* A client that is pausing, or about to ping, has the names of all who are logged in,
\* or its next ping will be answered "ping client_list_changed" (on_ping, on_clients,
\* update_clients_changed in on_login and stop).
ListFresh ==
    \A c \in clients :
        at[c] = "do_ping" => clients_changed[c] \/ list[c] = clients \cap username

\* on_check_ping stops no client whose every turn, from one read of the session to the
\* next, takes at most half of the limit.
NoEarlyDrop ==
    [][\A c \in clients \cap timed : on_check_ping(c) /\ c \notin clients' => c \in slow]_vars

\* A session that has been stopped is destroyed, though on_write begins a read and a
\* wait of the timer after stop; and its client comes to its end, though it does not
\* read while it pauses and its on_write does not look at the error.
StoppedEnds ==
    \A c \in Clients :
        c \in accepted \ clients ~> Released(c) /\ at[c] \in {"stopped", "none"}
==============================================================================
