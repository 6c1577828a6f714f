------------------------------- MODULE PingProofs -------------------------------
(***************************************************************************)
(* The ping server and its clients, for any clients and any limit: no      *)
(* client pauses with an old list that its next ping will not tell it of,  *)
(* and no client is dropped whose turns take at most half of the limit.    *)
(***************************************************************************)
EXTENDS PingClient, TLAPS

Fresh(c) == clients_changed[c] \/ list[c] = clients \cap username

States == {"connect", "none", "on_write", "on_read", "do_ping", "stopped"}

Types ==
    /\ clients \subseteq accepted /\ username \subseteq clients
    /\ accepted \subseteq Clients
    /\ clients_changed \in [Clients -> BOOLEAN]
    /\ at \in [Clients -> States]
    /\ DOMAIN request = Clients /\ DOMAIN reply = Clients /\ DOMAIN list = Clients

\* A client and its session speak in turn; before the connection is accepted nothing
\* but the first request is on its way.
InTurn(c) ==
    /\ at[c] = "connect" => c \notin accepted /\ request[c] = Null
    /\ c \notin accepted => /\ at[c] # "do_ping" /\ reply[c] = Null
                            /\ request[c] \in {Null, "login", "other"}
    /\ at[c] = "do_ping" => request[c] = Null /\ reply[c] = Null
    /\ at[c] \in {"on_write", "on_read"} => request[c] = Null \/ reply[c] = Null

\* Until its ping is answered a client has the present list or will be told; and a list
\* on its way to it is the present one, or it will be told.
Told(c) ==
    /\ \/ at[c] = "do_ping"
       \/ at[c] \in {"on_write", "on_read"} /\ (request[c] = "ping" \/ reply[c] = <<"ping", "ok">>)
       => Fresh(c)
    /\ \A cs \in SUBSET Clients :
          reply[c] = <<"clients", cs>> => clients_changed[c] \/ cs = clients \cap username

ListInv ==
    /\ Types
    /\ \A c \in Clients : InTurn(c)
    /\ \A c \in clients : Told(c)

\* What the clock says of a client with no slow turn: its wait has not ended, and it was
\* last looked at no earlier than at the beginning of the wait or, when a look is due, at
\* the beginning of the one before.
ClockTypes ==
    /\ clients \subseteq Clients
    /\ timer \in [Clients -> 1 .. Off]
    /\ checks \in [Clients -> Nat]
    /\ last_ping \in [Clients -> Nat]

InTime(c) ==
    /\ timer[c] \in 1 .. Timeout
    /\ 2 * (last_ping[c] - 1) < Timeout
    /\ checks[c] = 0 => last_ping[c] <= Timeout - timer[c]

ClockInv == ClockTypes /\ \A c \in (clients \cap timed) \ slow : InTime(c)

------------------------------------------------------------------------------
(***************************************************************************)
(* The lists.                                                              *)
(***************************************************************************)
Requests == {"login", "ping", "ask_clients", "other"}

\* No request and no reply is another one, or none.
LEMMA Differ ==
    /\ \A m \in Requests : m # Null
    /\ <<"login", "ok">> # Null /\ <<"ping", "ok">> # Null /\ <<"ping", "client_list_changed">> # Null
    /\ \A cs \in SUBSET Clients : <<"clients", cs>> # Null
    /\ \A cs : \A m \in {"ok", "client_list_changed"} :
          <<"clients", cs>> # <<"ping", m>> /\ <<"clients", cs>> # <<"login", "ok">>
    /\ <<"login", "ok">> # <<"ping", "ok">> /\ <<"ping", "client_list_changed">> # <<"ping", "ok">>
    /\ \A cs, ds : <<"clients", cs>> = <<"clients", ds>> => cs = ds
<1>1. \A m \in Requests : m # Null
  BY PingConstants DEF Requests
<1>2. \A m \in {"login", "ping"} : \A r \in {"ok", "client_list_changed"} : <<m, r>> # Null
  BY PingConstants
<1>3. \A cs \in SUBSET Clients : <<"clients", cs>> # Null
  BY PingConstants
<1>4. \A cs : \A m \in {"ok", "client_list_changed"} :
          <<"clients", cs>> # <<"ping", m>> /\ <<"clients", cs>> # <<"login", "ok">>
  OBVIOUS
<1>5. <<"login", "ok">> # <<"ping", "ok">> /\ <<"ping", "client_list_changed">> # <<"ping", "ok">>
  OBVIOUS
<1>6. \A cs, ds : <<"clients", cs>> = <<"clients", ds>> => cs = ds
  OBVIOUS
<1> QED BY <1>1, <1>2, <1>3, <1>4, <1>5, <1>6

\* A step about one client, of which the others are told if the list changes.
LEMMA OneActs ==
    ASSUME ListInv, NEW c \in Clients, Types', InTurn(c)', c \in clients' => Told(c)',
           \A d \in Clients \ {c} :
              /\ d \in accepted' <=> d \in accepted
              /\ d \in clients' => d \in clients
              /\ at'[d] = at[d] /\ request'[d] = request[d] /\ reply'[d] = reply[d] /\ list'[d] = list[d],
           \/ \A d \in clients' \ {c} : clients_changed'[d]
           \/ /\ clients' \cap username' = clients \cap username
              /\ \A d \in clients' \ {c} : clients_changed'[d] = clients_changed[d]
    PROVE  ListInv'
<1>1. ASSUME NEW d \in Clients \ {c} PROVE InTurn(d)'
  BY DEF ListInv, InTurn
<1>2. ASSUME NEW d \in clients', d # c PROVE Told(d)'
  <2>1. d \in clients /\ d \in Clients /\ Told(d)
    BY <1>2 DEF ListInv, Types
  <2>2. at'[d] = at[d] /\ request'[d] = request[d] /\ reply'[d] = reply[d] /\ list'[d] = list[d]
    BY <1>2, <2>1
  <2>3. CASE clients_changed'[d]
    BY <2>3 DEF Told, Fresh
  <2>4. CASE clients' \cap username' = clients \cap username /\ clients_changed'[d] = clients_changed[d]
    BY <2>1, <2>2, <2>4 DEF Told, Fresh
  <2> QED BY <1>2, <2>3, <2>4
<1> QED BY <1>1, <1>2 DEF ListInv

\* A step that has nothing to do with lists.
LEMMA NoneActs ==
    ASSUME ListInv,
           UNCHANGED <<accepted, clients, username, clients_changed, at, list, request, reply>>
    PROVE  ListInv'
  BY DEF ListInv, Types, InTurn, Told, Fresh

\* stop tells all others.
LEMMA StopLists ==
    ASSUME ListInv, NEW c \in Clients, stop(c), UNCHANGED <<accepted, at, list, reply>>
    PROVE  ListInv'
<1> USE DEF ListInv, Types
<1>1. /\ clients' = clients \ {c} /\ username' = username \ {c}
      /\ request'[c] = Null /\ DOMAIN request' = Clients
      /\ \A d \in Clients \ {c} : request'[d] = request[d]
      /\ clients_changed' =
           [d \in Clients |-> d # c /\ (clients_changed[d] \/ {c, d} \subseteq clients)]
  BY DEF stop, Drop
<1>2. Types'
  BY <1>1
<1>3. InTurn(c)'
  BY <1>1 DEF InTurn
<1>4. CASE c \in clients
  BY <1>1, <1>2, <1>3, <1>4, OneActs
<1>5. CASE c \notin clients
  BY <1>1, <1>2, <1>3, <1>5, OneActs
<1> QED BY <1>4, <1>5

LEMMA AcceptLists == ASSUME ListInv, NEW c \in Clients, Accept(c) PROVE ListInv'
<1> USE DEF ListInv, Types
<1>1. /\ c \notin accepted /\ at[c] # "connect" /\ accepted' = accepted \cup {c} /\ clients' = clients \cup {c}
      /\ UNCHANGED <<username, clients_changed, at, list, request, reply>>
  BY DEF Accept, handle_accept, connVars, clientVars
<1>2. InTurn(c) /\ InTurn(c)'
  BY <1>1 DEF InTurn
<1>3. Told(c)'
  <2>1. reply'[c] = Null /\ request'[c] # "ping" /\ at'[c] # "do_ping"
    BY <1>1, <1>2, Differ DEF InTurn, Requests
  <2> QED BY <2>1, Differ DEF Told
<1>4. Types'
  BY <1>1
<1> QED BY <1>1, <1>2, <1>3, <1>4, OneActs

LEMMA ProcessLists ==
    ASSUME ListInv, NEW c \in Clients,
           on_login(c) \/ on_ping(c) \/ on_clients(c) \/ invalid_msg(c), UNCHANGED clientVars
    PROVE  ListInv'
<1> USE DEF ListInv, Types
<1>1. /\ c \in clients /\ request[c] \in Requests
      /\ request' = [request EXCEPT ![c] = Null]
      /\ UNCHANGED <<accepted, clients, at, list>>
  BY DEF on_login, on_ping, on_clients, invalid_msg, Process, started, clientVars, Requests
<1>2. InTurn(c) /\ Told(c) /\ request[c] # Null /\ c \in accepted
  BY <1>1, Differ
<1>3. request'[c] = Null /\ DOMAIN request' = Clients /\ \A d \in Clients \ {c} : request'[d] = request[d]
  BY <1>1
<1>4. at[c] \notin {"connect", "do_ping"}
  BY <1>2 DEF InTurn
<1>5. InTurn(c)'
  BY <1>1, <1>2, <1>3, <1>4 DEF InTurn
<1>6. ASSUME NEW m, do_write(c, m) PROVE /\ reply'[c] = m /\ DOMAIN reply' = Clients
                                         /\ \A d \in Clients \ {c} : reply'[d] = reply[d]
  BY <1>6 DEF do_write
<1>7. CASE on_login(c)
  <2>1. /\ reply'[c] = <<"login", "ok">> /\ DOMAIN reply' = Clients
        /\ \A d \in Clients \ {c} : reply'[d] = reply[d]
    BY <1>6, <1>7 DEF on_login
  <2>2. /\ username' = username \cup {c}
        /\ clients_changed' = [d \in Clients |-> d \in clients \/ clients_changed[d]]
    BY <1>7 DEF on_login, update_clients_changed
  <2>3. Types'
    BY <1>1, <1>3, <2>1, <2>2
  <2>4. Told(c)'
    BY <1>1, <2>2 DEF Told, Fresh
  <2> QED BY <1>1, <1>3, <1>5, <2>1, <2>2, <2>3, <2>4, OneActs
<1>8. CASE on_ping(c)
  <2>1. /\ reply'[c] = <<"ping", IF clients_changed[c] THEN "client_list_changed" ELSE "ok">>
        /\ DOMAIN reply' = Clients /\ \A d \in Clients \ {c} : reply'[d] = reply[d]
    BY <1>6, <1>8 DEF on_ping
  <2>2. /\ UNCHANGED username /\ request[c] = "ping"
        /\ clients_changed' = [clients_changed EXCEPT ![c] = FALSE]
    BY <1>8 DEF on_ping, Process
  <2>3. Types'
    BY <1>1, <1>3, <2>1, <2>2
  <2>4. Told(c)'
    <3>1. \A cs \in SUBSET Clients : reply'[c] # <<"clients", cs>>
      BY <2>1, Differ
    <3>2. request'[c] # "ping" /\ at'[c] # "do_ping"
      BY <1>1, <1>3, <1>4, Differ DEF Requests
    <3>3. CASE reply'[c] = <<"ping", "ok">> /\ at[c] \in {"on_write", "on_read"}
      <4>1. ~clients_changed[c]
        BY <2>1, <3>3, Differ
      <4>2. Fresh(c)
        BY <1>2, <2>2, <3>3 DEF Told
      <4> QED BY <1>1, <2>2, <3>1, <4>1, <4>2 DEF Told, Fresh
    <3> QED BY <1>1, <3>1, <3>2, <3>3 DEF Told
  <2> QED BY <1>1, <1>3, <1>5, <2>1, <2>2, <2>3, <2>4, OneActs
<1>9. CASE on_clients(c)
  <2>1. /\ reply'[c] = <<"clients", clients \cap username>>
        /\ DOMAIN reply' = Clients /\ \A d \in Clients \ {c} : reply'[d] = reply[d]
    BY <1>6, <1>9 DEF on_clients
  <2>2. UNCHANGED <<username, clients_changed>>
    BY <1>9 DEF on_clients
  <2>3. Types'
    BY <1>1, <1>3, <2>1, <2>2
  <2>4. Told(c)'
    <3>1. reply'[c] # <<"ping", "ok">>
      BY <2>1, Differ
    <3>2. request'[c] # "ping" /\ at'[c] # "do_ping"
      BY <1>1, <1>3, <1>4, Differ DEF Requests
    <3>3. \A cs \in SUBSET Clients : reply'[c] = <<"clients", cs>> => cs = clients' \cap username'
      BY <1>1, <2>1, <2>2, Differ
    <3> QED BY <3>1, <3>2, <3>3 DEF Told
  <2> QED BY <1>1, <1>3, <1>5, <2>1, <2>2, <2>3, <2>4, OneActs
<1>10. CASE invalid_msg(c)
  <2>1. UNCHANGED <<username, clients_changed, reply>>
    BY <1>10 DEF invalid_msg
  <2>2. Types'
    BY <1>1, <1>3, <2>1
  <2>3. Told(c)'
    <3>1. request'[c] # "ping"
      BY <1>3, Differ DEF Requests
    <3> QED BY <1>1, <1>2, <2>1, <3>1 DEF Told, Fresh
  <2> QED BY <1>1, <1>3, <1>5, <2>1, <2>2, <2>3, OneActs
<1> QED BY <1>7, <1>8, <1>9, <1>10

LEMMA SessionLists ==
    ASSUME ListInv, NEW c \in Clients, Session(c), UNCHANGED clientVars
    PROVE  ListInv'
<1>1. CASE stop(c) /\ UNCHANGED <<accepted, reply>>
  BY <1>1, StopLists DEF clientVars
<1>2. CASE UNCHANGED <<accepted, clients, username, clients_changed, request, reply>>
  BY <1>2, NoneActs DEF clientVars
<1>3. CASE on_read_fails(c) \/ on_write(c) \/ on_check_ping(c) \/ on_check_ping_any(c)
  BY <1>1, <1>2, <1>3 DEF on_read_fails, on_write, on_check_ping, on_check_ping_any, connVars
<1> QED BY <1>3, ProcessLists DEF Session

\* The server has no part in a step of a client.
LEMMA ClientActs ==
    ASSUME ListInv, NEW c \in Clients, UNCHANGED <<accepted, clients, username, clients_changed>>,
           at' \in [Clients -> States],
           DOMAIN request' = Clients, DOMAIN reply' = Clients, DOMAIN list' = Clients,
           \A d \in Clients \ {c} :
              at'[d] = at[d] /\ request'[d] = request[d] /\ reply'[d] = reply[d] /\ list'[d] = list[d],
           InTurn(c)', c \in clients => Told(c)'
    PROVE  ListInv'
<1>1. Types'
  BY DEF ListInv, Types
<1> QED BY <1>1, OneActs DEF ListInv, Types

\* A client goes on to another state; writing, the request is on its way or nothing is.
LEMMA Goes ==
    ASSUME Types, NEW c \in Clients, NEW s \in States, At(c, s)
    PROVE  at' \in [Clients -> States] /\ at'[c] = s /\ \A d \in Clients \ {c} : at'[d] = at[d]
  BY DEF Types, At

LEMMA Writes ==
    ASSUME Types, NEW c \in Clients, NEW msg, Write(c, msg)
    PROVE  /\ at' \in [Clients -> States] /\ at'[c] = "on_write"
           /\ \A d \in Clients \ {c} : at'[d] = at[d]
           /\ DOMAIN request' = Clients /\ request'[c] \in {Null, msg}
           /\ \A d \in Clients \ {c} : request'[d] = request[d]
<1>1. "on_write" \in States
  BY DEF States
<1> QED BY <1>1, Goes DEF Types, Write

LEMMA Answers ==
    ASSUME ListInv, NEW c \in Clients, NEW msg, msg # Null, Answered(c, msg)
    PROVE  /\ at[c] = "on_read" /\ reply[c] = msg /\ c \in accepted /\ request[c] = Null
           /\ reply'[c] = Null /\ DOMAIN reply' = Clients
           /\ \A d \in Clients \ {c} : reply'[d] = reply[d]
           /\ UNCHANGED <<accepted, clients, username, clients_changed>>
  BY DEF ListInv, Types, InTurn, Answered, serverVars

\* What is asked for and told while a client connects, logs in, asks and pings.
LEMMA ClientLists == ASSUME ListInv, NEW c \in Clients, Client(c) PROVE ListInv'
<1>0. Types /\ InTurn(c) /\ (c \in clients => Told(c)) /\ clients \subseteq accepted
      /\ DOMAIN request = Clients /\ DOMAIN reply = Clients /\ DOMAIN list = Clients
  BY DEF ListInv, Types
<1>1. CASE on_connect(c)
  <2>1. at[c] = "connect" /\ c \notin accepted /\ reply[c] = Null
        /\ UNCHANGED <<accepted, clients, username, clients_changed, reply, list>>
    BY <1>0, <1>1 DEF on_connect, serverVars, InTurn
  <2>2. CASE Write(c, "login")
    <3>1. InTurn(c)'
      BY <1>0, <2>1, <2>2, Writes DEF InTurn
    <3> QED BY <1>0, <2>1, <2>2, <3>1, Writes, ClientActs
  <2>3. CASE At(c, "stopped") /\ UNCHANGED request
    <3>1. "stopped" \in States
      BY DEF States
    <3>2. at' \in [Clients -> States] /\ at'[c] = "stopped" /\ \A d \in Clients \ {c} : at'[d] = at[d]
      BY <1>0, <2>3, <3>1, Goes
    <3>3. InTurn(c)'
      BY <1>0, <2>1, <2>3, <3>2 DEF InTurn
    <3> QED BY <1>0, <2>1, <2>3, <3>2, <3>3, ClientActs
  <2> QED BY <1>1, <2>2, <2>3 DEF on_connect
<1>2. CASE client_on_write(c)
  <2>1. at[c] = "on_write" /\ At(c, "on_read")
        /\ UNCHANGED <<accepted, clients, username, clients_changed, request, reply, list>>
    BY <1>2 DEF client_on_write, serverVars, connVars
  <2>2. "on_read" \in States
    BY DEF States
  <2>3. at' \in [Clients -> States] /\ at'[c] = "on_read" /\ \A d \in Clients \ {c} : at'[d] = at[d]
    BY <1>0, <2>1, <2>2, Goes
  <2>4. InTurn(c)'
    BY <1>0, <2>1, <2>3 DEF InTurn
  <2>5. c \in clients => Told(c)'
    BY <1>0, <2>1, <2>3 DEF Told, Fresh
  <2> QED BY <1>0, <2>1, <2>3, <2>4, <2>5, ClientActs
<1>3. CASE client_on_read_fails(c)
  <2>1. At(c, "stopped") /\ at[c] = "on_read" /\ reply'[c] = Null
        /\ UNCHANGED <<accepted, clients, username, clients_changed, request>>
    BY <1>0, <1>3 DEF client_on_read_fails, serverVars
  <2>2. /\ DOMAIN reply' = Clients /\ DOMAIN list' = Clients
        /\ \A d \in Clients \ {c} : reply'[d] = reply[d] /\ list'[d] = list[d]
    BY <1>0, <1>3 DEF client_on_read_fails
  <2>3. "stopped" \in States
    BY DEF States
  <2>4. at' \in [Clients -> States] /\ at'[c] = "stopped" /\ \A d \in Clients \ {c} : at'[d] = at[d]
    BY <1>0, <2>1, <2>3, Goes
  <2>5. InTurn(c)'
    BY <1>0, <2>1, <2>4 DEF InTurn
  <2>6. Told(c)'
    BY <2>1, <2>4, Differ DEF Told
  <2> QED BY <1>0, <2>1, <2>2, <2>4, <2>5, <2>6, ClientActs
<1>4. ASSUME NEW msg, msg # Null, Answered(c, msg), Write(c, "ask_clients"), UNCHANGED list
      PROVE  ListInv'
  <2>1. /\ at[c] = "on_read" /\ c \in accepted /\ reply'[c] = Null
        /\ DOMAIN reply' = Clients /\ \A d \in Clients \ {c} : reply'[d] = reply[d]
        /\ UNCHANGED <<accepted, clients, username, clients_changed>>
    BY <1>4, Answers
  <2>2. /\ at' \in [Clients -> States] /\ at'[c] = "on_write"
        /\ \A d \in Clients \ {c} : at'[d] = at[d]
        /\ DOMAIN request' = Clients /\ request'[c] \in {Null, "ask_clients"}
        /\ \A d \in Clients \ {c} : request'[d] = request[d]
    BY <1>0, <1>4, Writes
  <2>3. InTurn(c)'
    BY <2>1, <2>2 DEF InTurn
  <2>4. Told(c)'
    <3>1. request'[c] # "ping"
      BY <2>2, Differ DEF Requests
    <3> QED BY <2>1, <2>2, <3>1, Differ DEF Told
  <2> QED BY <1>0, <1>4, <2>1, <2>2, <2>3, <2>4, ClientActs
<1>5. ASSUME NEW msg, msg # Null, Answered(c, msg), postpone_ping(c), UNCHANGED request,
             DOMAIN list' = Clients, \A d \in Clients \ {c} : list'[d] = list[d],
             c \in clients => Fresh(c)'
      PROVE  ListInv'
  <2>1. /\ at[c] = "on_read" /\ c \in accepted /\ request[c] = Null /\ reply'[c] = Null
        /\ DOMAIN reply' = Clients /\ \A d \in Clients \ {c} : reply'[d] = reply[d]
        /\ UNCHANGED <<accepted, clients, username, clients_changed>>
    BY <1>5, Answers
  <2>2. "do_ping" \in States
    BY DEF States
  <2>3. at' \in [Clients -> States] /\ at'[c] = "do_ping" /\ \A d \in Clients \ {c} : at'[d] = at[d]
    BY <1>0, <1>5, <2>2, Goes DEF postpone_ping
  <2>4. InTurn(c)'
    BY <1>5, <2>1, <2>3 DEF InTurn
  <2>5. c \in clients => Told(c)'
    BY <1>5, <2>1, Differ DEF Told
  <2> QED BY <1>0, <1>5, <2>1, <2>3, <2>4, <2>5, ClientActs
<1>6. CASE client_on_login(c)
  BY <1>4, <1>6, Differ DEF client_on_login
<1>7. CASE client_on_ping(c)
  <2>1. CASE Answered(c, <<"ping", "client_list_changed">>) /\ Write(c, "ask_clients") /\ UNCHANGED list
    BY <1>4, <2>1, Differ
  <2>2. CASE Answered(c, <<"ping", "ok">>) /\ postpone_ping(c) /\ UNCHANGED <<request, list>>
    <3>1. c \in clients => Fresh(c)
      BY <1>0, <2>2 DEF Answered, Told
    <3>2. c \in clients => Fresh(c)'
      BY <2>2, <3>1 DEF Answered, serverVars, Fresh
    <3> QED BY <1>0, <1>5, <2>2, <3>2, Differ
  <2> QED BY <1>7, <2>1, <2>2 DEF client_on_ping
<1>8. CASE client_on_clients(c)
  <2>1. PICK cs \in SUBSET Clients : /\ Answered(c, <<"clients", cs>>)
                                     /\ list' = [list EXCEPT ![c] = cs]
                                     /\ postpone_ping(c) /\ UNCHANGED request
    BY <1>8 DEF client_on_clients
  <2>2. DOMAIN list' = Clients /\ list'[c] = cs /\ \A d \in Clients \ {c} : list'[d] = list[d]
    BY <1>0, <2>1
  <2>3. c \in clients => clients_changed[c] \/ cs = clients \cap username
    BY <1>0, <2>1 DEF Answered, Told
  <2>4. c \in clients => Fresh(c)'
    BY <2>1, <2>2, <2>3 DEF Answered, serverVars, Fresh
  <2> QED BY <1>5, <2>1, <2>2, <2>4, Differ
<1>9. CASE do_ping(c)
  <2>1. /\ at[c] = "do_ping" /\ Write(c, "ping") /\ c \in accepted /\ reply[c] = Null
        /\ UNCHANGED <<accepted, clients, username, clients_changed, reply, list>>
    BY <1>0, <1>9 DEF do_ping, serverVars, InTurn
  <2>2. /\ at' \in [Clients -> States] /\ at'[c] = "on_write"
        /\ \A d \in Clients \ {c} : at'[d] = at[d]
        /\ DOMAIN request' = Clients /\ request'[c] \in {Null, "ping"}
        /\ \A d \in Clients \ {c} : request'[d] = request[d]
    BY <1>0, <2>1, Writes
  <2>3. InTurn(c)'
    BY <2>1, <2>2 DEF InTurn
  <2>4. c \in clients => Told(c)'
    <3>1. c \in clients => Fresh(c)
      BY <1>0, <2>1 DEF Told
    <3> QED BY <2>1, <3>1, Differ DEF Told, Fresh
  <2> QED BY <1>0, <2>1, <2>2, <2>3, <2>4, ClientActs
<1> QED BY <1>1, <1>2, <1>3, <1>6, <1>7, <1>8, <1>9 DEF Client

\* A connection that fails, a client that vanishes, another program.
LEMMA EventLists ==
    ASSUME ListInv, NEW c \in Clients, Break(c) \/ Vanish(c) \/ Stranger(c)
    PROVE  ListInv'
<1>0. Types /\ InTurn(c) /\ (c \in clients => Told(c)) /\ clients \subseteq accepted
      /\ DOMAIN request = Clients /\ DOMAIN reply = Clients /\ DOMAIN list = Clients
      /\ at \in [Clients -> States]
  BY DEF ListInv, Types
<1>1. "none" \in States
  BY DEF States
<1>2. CASE Break(c)
  <2>1. /\ UNCHANGED <<accepted, clients, username, clients_changed, at, list>>
        /\ request'[c] = Null /\ DOMAIN request' = Clients
        /\ reply'[c] = Null /\ DOMAIN reply' = Clients
        /\ \A d \in Clients \ {c} : request'[d] = request[d] /\ reply'[d] = reply[d]
    BY <1>0, <1>2 DEF Break, serverVars, clientVars
  <2>2. at[c] # "connect"
    BY <1>2 DEF Break
  <2>3. InTurn(c)'
    BY <1>0, <2>1, <2>2 DEF InTurn
  <2>4. c \in clients => Told(c)'
    <3>1. request'[c] # "ping"
      BY <2>1, Differ DEF Requests
    <3> QED BY <1>0, <2>1, <3>1, Differ DEF Told, Fresh
  <2> QED BY <1>0, <2>1, <2>3, <2>4, ClientActs
<1>3. CASE Vanish(c)
  <2>1. /\ UNCHANGED <<accepted, clients, username, clients_changed, request>>
        /\ reply'[c] = Null /\ DOMAIN reply' = Clients /\ DOMAIN list' = Clients
        /\ \A d \in Clients \ {c} : reply'[d] = reply[d] /\ list'[d] = list[d]
    BY <1>0, <1>3 DEF Vanish, serverVars
  <2>2. at' \in [Clients -> States] /\ at'[c] = "none" /\ \A d \in Clients \ {c} : at'[d] = at[d]
    BY <1>0, <1>1, <1>3, Goes DEF Vanish
  <2>3. InTurn(c)'
    BY <1>0, <2>1, <2>2 DEF InTurn
  <2>4. Told(c)'
    BY <2>1, <2>2, Differ DEF Told
  <2> QED BY <1>0, <2>1, <2>2, <2>3, <2>4, ClientActs
<1>4. CASE Stranger(c)
  <2>1. /\ UNCHANGED <<accepted, clients, username, clients_changed, reply, list>>
        /\ c \notin accepted /\ reply[c] = Null
        /\ request'[c] = "other" /\ DOMAIN request' = Clients
        /\ \A d \in Clients \ {c} : request'[d] = request[d]
    BY <1>0, <1>4 DEF Stranger, serverVars, InTurn
  <2>2. at' \in [Clients -> States] /\ at'[c] = "none" /\ \A d \in Clients \ {c} : at'[d] = at[d]
    BY <1>0, <1>1, <1>4, Goes DEF Stranger
  <2>3. InTurn(c)'
    BY <1>0, <2>1, <2>2 DEF InTurn
  <2> QED BY <1>0, <2>1, <2>2, <2>3, ClientActs
<1> QED BY <1>2, <1>3, <1>4

LEMMA ListInitially == Init => ListInv
<1> SUFFICES ASSUME Init PROVE ListInv
  OBVIOUS
<1>1. /\ accepted = {} /\ clients = {} /\ username = {}
      /\ clients_changed = [c \in Clients |-> FALSE]
      /\ request = [c \in Clients |-> Null] /\ reply = [c \in Clients |-> Null]
      /\ at \in [Clients -> {"connect", "none"}] /\ list = [c \in Clients |-> Null]
  BY DEF Init, ServerInit
<1>2. at \in [Clients -> States]
  BY <1>1 DEF States
<1>3. Types
  BY <1>1, <1>2 DEF Types
<1>4. ASSUME NEW c \in Clients PROVE InTurn(c)
  <2>1. at[c] \in {"connect", "none"}
    BY <1>1
  <2> QED BY <1>1, <2>1 DEF InTurn
<1> QED BY <1>1, <1>3, <1>4 DEF ListInv

LEMMA ListStep == ASSUME ListInv, [Next]_vars PROVE ListInv'
<1>1. CASE UNCHANGED vars
  BY <1>1, NoneActs DEF vars, serverVars, connVars, clientVars
<1>2. CASE Tick /\ UNCHANGED clientVars
  BY <1>2, NoneActs DEF Tick, connVars, clientVars
<1>3. ASSUME NEW c \in Clients, Handler(c) PROVE ListInv'
  BY <1>3, ClientLists, AcceptLists, SessionLists DEF Handler
<1>4. ASSUME NEW c \in Clients, Break(c) \/ Vanish(c) \/ Stranger(c) PROVE ListInv'
  BY <1>4, EventLists
<1> QED BY <1>1, <1>2, <1>3, <1>4 DEF Next

\* The inductive invariant of the lists (TcpServer.cpp: on_login, on_ping, on_clients,
\* update_clients_changed, stop; TcpClient.cpp: all handlers): a client and its session
\* take turns, and a list or an "ok" on its way is as fresh as a list that is held.
THEOREM PingListInvariant == Spec => []ListInv
<1> QED BY ListInitially, ListStep, PTL DEF Spec

\* A client that pauses has the names of all who are logged in, or its next ping will be
\* answered "ping client_list_changed" (TcpServer.cpp: on_ping, on_clients,
\* update_clients_changed in on_login and stop; TcpClient.cpp: on_ping, postpone_ping).
THEOREM PingListFresh == Spec => []ListFresh
<1>1. ListInv => ListFresh
  BY DEF ListInv, Types, Told, Fresh, ListFresh
<1> QED BY <1>1, PingListInvariant, PTL

------------------------------------------------------------------------------
(***************************************************************************)
(* The clock.                                                              *)
(***************************************************************************)
\* A wait of any length is at least one tick, and the limit is at least two.
LEMMA Limit == /\ Timeout \in Nat /\ Timeout >= 2 /\ Off = Timeout + 1
               /\ Timeout \in 1 .. Off /\ Off \in 1 .. Off
  BY PingConstants DEF Off

\* A step in the tick about one client.
LEMMA OneClock ==
    ASSUME ClockInv, NEW c \in Clients, ClockTypes',
           timed' = timed,
           c \in (clients' \cap timed) \ slow' => InTime(c)',
           \A d \in Clients \ {c} :
              /\ d \in clients' => d \in clients
              /\ d \in slow => d \in slow' \/ d \notin clients'
              /\ timer'[d] = timer[d] /\ checks'[d] = checks[d] /\ last_ping'[d] = last_ping[d]
    PROVE  ClockInv'
<1>1. ASSUME NEW d \in (clients' \cap timed') \ slow' PROVE InTime(d)'
  <2>1. CASE d = c
    BY <1>1, <2>1
  <2>2. CASE d # c
    <3>1. d \in (clients \cap timed) \ slow /\ d \in Clients \ {c}
      BY <1>1, <2>2 DEF ClockInv, ClockTypes
    <3> QED BY <3>1 DEF ClockInv, InTime
  <2> QED BY <2>1, <2>2
<1> QED BY <1>1 DEF ClockInv

LEMMA NoneClock ==
    ASSUME ClockInv, UNCHANGED <<clients, timed, slow, timer, checks, last_ping>> PROVE ClockInv'
  BY DEF ClockInv, ClockTypes, InTime, Off

\* stop leaves nothing to be in time.
LEMMA StopClock ==
    ASSUME ClockInv, NEW c \in Clients, stop(c), UNCHANGED <<timed, timer>>,
           checks' \in [Clients -> Nat], \A d \in Clients \ {c} : checks'[d] = checks[d]
    PROVE  ClockInv'
<1>1. /\ clients' = clients \ {c} /\ slow' = slow \ {c} /\ last_ping' \in [Clients -> Nat]
      /\ \A d \in Clients \ {c} : last_ping'[d] = last_ping[d]
  BY DEF stop, Drop, ClockInv, ClockTypes
<1>2. ClockTypes'
  BY <1>1 DEF ClockInv, ClockTypes, Off
<1> QED BY <1>1, <1>2, OneClock

\* do_read sets the timer, and a wait under way ends with it.
LEMMA ReadClock ==
    ASSUME ClockTypes, NEW c \in Clients, do_read(c)
    PROVE  /\ timer' \in [Clients -> 1 .. Off]
           /\ c \in timed => timer'[c] = Timeout
           /\ checks' \in [Clients -> Nat] /\ checks'[c] = checks[c] + IF timer[c] = Off THEN 0 ELSE 1
           /\ \A d \in Clients \ {c} : timer'[d] = timer[d] /\ checks'[d] = checks[d]
<1>1. timer' = [timer EXCEPT ![c] = IF c \in timed THEN Timeout ELSE Off]
  BY DEF do_read
<1>2. checks' = [checks EXCEPT ![c] = checks[c] + IF timer[c] = Off THEN 0 ELSE 1]
  BY DEF do_read
<1>3. checks[c] + (IF timer[c] = Off THEN 0 ELSE 1) \in Nat
  BY DEF ClockTypes
<1> QED BY <1>1, <1>2, <1>3, Limit DEF ClockTypes

LEMMA AcceptClock == ASSUME ClockInv, NEW c \in Clients, handle_accept(c) PROVE ClockInv'
<1>1. /\ clients' = clients \cup {c} /\ last_ping' = [last_ping EXCEPT ![c] = 0]
      /\ UNCHANGED <<timed, slow>> /\ do_read(c) /\ ClockTypes
  BY DEF handle_accept, ClockInv
<1>2. last_ping' \in [Clients -> Nat] /\ last_ping'[c] = 0
      /\ \A d \in Clients \ {c} : last_ping'[d] = last_ping[d]
  BY <1>1 DEF ClockTypes
<1>3. ClockTypes'
  BY <1>1, <1>2, ReadClock DEF ClockTypes, Off
<1>4. c \in timed => InTime(c)'
  <2>1. c \in timed => timer'[c] = Timeout
    BY <1>1, ReadClock
  <2> QED BY <1>2, <2>1, Limit DEF InTime
<1> QED BY <1>1, <1>2, <1>3, <1>4, ReadClock, OneClock

\* A wait under way ends when on_write sets the timer, and its handler finds the client
\* that last_ping speaks of: it was in time before.
LEMMA WriteClock == ASSUME ClockInv, NEW c \in Clients, on_write(c) PROVE ClockInv'
<1>1. do_read(c) /\ ClockTypes /\ UNCHANGED <<clients, timed, last_ping, slow>>
  BY DEF on_write, ClockInv
<1>2. ClockTypes'
  BY <1>1, ReadClock DEF ClockTypes, Off
<1>3. ASSUME c \in (clients \cap timed) \ slow PROVE InTime(c)'
  <2>1. InTime(c) /\ c \in timed
    BY <1>3 DEF ClockInv
  <2>2. timer[c] # Off /\ checks[c] \in Nat
    BY <1>1, <2>1, Limit DEF InTime, ClockTypes
  <2>3. timer'[c] = Timeout /\ checks'[c] = checks[c] + 1
    BY <1>1, <2>1, <2>2, ReadClock
  <2>4. checks'[c] # 0
    BY <2>2, <2>3
  <2> QED BY <1>1, <2>1, <2>3, <2>4, Limit DEF InTime
<1> QED BY <1>1, <1>2, <1>3, ReadClock, OneClock

\* A client that is in time is not overdue.
LEMMA NotOverdue ==
    ASSUME ClockInv, NEW c \in (clients \cap timed) \ slow PROVE Overdue(c) = {FALSE}
<1>1. last_ping[c] \in Nat /\ 2 * (last_ping[c] - 1) < Timeout
  BY DEF ClockInv, ClockTypes, InTime
<1>2. last_ping[c] < Timeout
  BY <1>1, Limit
<1>3. last_ping[c] # Timeout /\ (last_ping[c] > Timeout) = FALSE
  BY <1>1, <1>2, Limit
<1> QED BY <1>3 DEF Overdue

LEMMA CheckClock == ASSUME ClockInv, NEW c \in Clients, on_check_ping(c) PROVE ClockInv'
<1>1. /\ checks[c] > 0 /\ checks' = [checks EXCEPT ![c] = checks[c] - 1]
      /\ UNCHANGED <<timer, timed>> /\ ClockTypes
  BY DEF on_check_ping, ClockInv
<1>2. checks' \in [Clients -> Nat] /\ \A d \in Clients \ {c} : checks'[d] = checks[d]
  <2>1. checks[c] - 1 \in Nat
    BY <1>1 DEF ClockTypes
  <2> QED BY <1>1, <2>1 DEF ClockTypes
<1>3. CASE stop(c)
  BY <1>1, <1>2, <1>3, StopClock
<1>4. CASE last_ping' = [last_ping EXCEPT ![c] = 0] /\ UNCHANGED <<clients, slow>>
  <2>1. last_ping' \in [Clients -> Nat] /\ last_ping'[c] = 0
        /\ \A d \in Clients \ {c} : last_ping'[d] = last_ping[d]
    BY <1>1, <1>4 DEF ClockTypes
  <2>2. ClockTypes'
    BY <1>1, <1>2, <1>4, <2>1 DEF ClockTypes, Off
  <2>3. ASSUME c \in (clients \cap timed) \ slow PROVE InTime(c)'
    <3>1. timer'[c] \in 1 .. Timeout
      BY <1>1, <2>3 DEF ClockInv, InTime
    <3> QED BY <2>1, <3>1, Limit DEF InTime
  <2> QED BY <1>1, <1>2, <1>4, <2>1, <2>2, <2>3, OneClock
<1> QED BY <1>3, <1>4 DEF on_check_ping

\* A tick: a client in time was looked at when its turn began, and becomes slow when half
\* of the limit has gone by without the end of the turn.
LEMMA TickClock == ASSUME ClockInv, Tick PROVE ClockInv'
<1> DEFINE ending == {c \in timed : timer[c] = 1}
<1>1. /\ ClockTypes /\ \A c \in timed : checks[c] = 0
      /\ UNCHANGED <<clients, timed>>
      /\ slow' = slow \cup {c \in timed \cap clients : 2 * (Timeout - timer[c]) >= Timeout}
  BY DEF Tick, ClockInv
<1>2. last_ping' = [c \in Clients |-> IF c \in timed \cap clients /\ last_ping[c] <= Timeout
                                      THEN last_ping[c] + 1 ELSE last_ping[c]]
  BY DEF Tick
<1>3. timer' = [c \in Clients |-> IF c \in ending THEN Off
                                  ELSE IF c \in timed /\ timer[c] # Off THEN timer[c] - 1
                                  ELSE timer[c]]
  BY DEF Tick
<1>4. checks' = [c \in Clients |-> IF c \in ending THEN 1 ELSE checks[c]]
  BY DEF Tick
<1>5. ClockTypes'
  <2>1. last_ping' \in [Clients -> Nat]
    BY <1>1, <1>2 DEF ClockTypes
  <2>2. checks' \in [Clients -> Nat]
    BY <1>1, <1>4 DEF ClockTypes
  <2>3. timer' \in [Clients -> 1 .. Off]
    <3>1. ASSUME NEW c \in Clients
          PROVE  (IF c \in ending THEN Off ELSE IF c \in timed /\ timer[c] # Off THEN timer[c] - 1
                  ELSE timer[c]) \in 1 .. Off
      <4>1. timer[c] \in 1 .. Off /\ (c \in timed /\ timer[c] = 1 => c \in ending)
        BY <1>1 DEF ClockTypes
      <4> HIDE DEF ending
      <4> QED BY <4>1, Limit
    <3> QED BY <1>3, <3>1
  <2> QED BY <1>1, <2>1, <2>2, <2>3 DEF ClockTypes, Off
<1>6. ASSUME NEW c \in (clients' \cap timed') \ slow' PROVE InTime(c)'
  <2>1. /\ c \in (clients \cap timed) \ slow /\ c \in Clients /\ checks[c] = 0
        /\ ~(2 * (Timeout - timer[c]) >= Timeout)
    BY <1>1, <1>6 DEF ClockTypes
  <2>2. timer[c] \in 1 .. Timeout /\ last_ping[c] \in Nat /\ last_ping[c] <= Timeout - timer[c]
    BY <1>1, <2>1 DEF ClockInv, ClockTypes, InTime
  <2>3. timer[c] # 1 /\ timer[c] # Off /\ last_ping[c] <= Timeout
    BY <2>1, <2>2, Limit
  <2>4. timer'[c] = timer[c] - 1
    BY <1>3, <2>1, <2>3
  <2>5. last_ping'[c] = last_ping[c] + 1
    BY <1>2, <2>1, <2>3
  <2>6. timer[c] - 1 \in 1 .. Timeout /\ 2 * ((last_ping[c] + 1) - 1) < Timeout
        /\ last_ping[c] + 1 <= Timeout - (timer[c] - 1)
    BY <2>1, <2>2, <2>3, Limit
  <2> QED BY <2>4, <2>5, <2>6 DEF InTime
<1> QED BY <1>5, <1>6 DEF ClockInv

LEMMA SessionClock == ASSUME ClockInv, NEW c \in Clients, Session(c) PROVE ClockInv'
<1>1. CASE on_read_fails(c)
  BY <1>1, StopClock DEF on_read_fails, ClockInv, ClockTypes
<1>2. CASE on_login(c) \/ on_ping(c) \/ on_clients(c) \/ invalid_msg(c)
  BY <1>2, NoneClock DEF on_login, on_ping, on_clients, invalid_msg, Process, do_write
<1>3. CASE on_check_ping_any(c)
  BY <1>3, StopClock DEF on_check_ping_any, ClockInv, ClockTypes
<1> QED BY <1>1, <1>2, <1>3, WriteClock, CheckClock DEF Session

LEMMA ClockInitially == Init => ClockInv
<1> SUFFICES ASSUME Init PROVE ClockInv
  OBVIOUS
<1>1. /\ clients = {} /\ timer = [c \in Clients |-> Off] /\ checks = [c \in Clients |-> 0]
      /\ last_ping = [c \in Clients |-> 0]
  BY DEF Init, ServerInit
<1> QED BY <1>1, Limit DEF ClockInv, ClockTypes

LEMMA ClockStep == ASSUME ClockInv, [Next]_vars PROVE ClockInv'
<1>1. CASE UNCHANGED serverVars
  BY <1>1, NoneClock DEF serverVars
<1>2. ASSUME NEW c \in Clients, Handler(c) PROVE ClockInv'
  <2>1. CASE Client(c)
    BY <1>1, <2>1 DEF Client, on_connect, client_on_write, client_on_read_fails, client_on_login,
                      client_on_ping, client_on_clients, do_ping, Answered
  <2> QED BY <1>2, <2>1, AcceptClock, SessionClock DEF Handler, Accept
<1>3. ASSUME NEW c \in Clients, Break(c) \/ Vanish(c) \/ Stranger(c) PROVE ClockInv'
  BY <1>1, <1>3 DEF Break, Vanish, Stranger
<1> QED BY <1>1, <1>2, <1>3, TickClock DEF Next, vars

\* The inductive invariant of the clock (TcpServer.cpp: start, do_read, post_check_ping,
\* on_check_ping): while no turn of a client is slow its wait has not ended, and the time
\* since it was last looked at is less than half of the limit and a tick.
THEOREM PingClockInvariant == Spec => []ClockInv
<1> QED BY ClockInitially, ClockStep, PTL DEF Spec

\* on_check_ping (TcpServer.cpp) stops no client whose every turn takes at most half of
\* the limit, though each turn cancels the wait and last_ping is set by the check alone.
THEOREM PingNoEarlyDrop == Spec => NoEarlyDrop
<1>1. ASSUME ClockInv, NEW c \in clients \cap timed, on_check_ping(c), c \notin clients'
      PROVE  c \in slow
  <2>1. SUFFICES ASSUME c \notin slow PROVE FALSE
    OBVIOUS
  <2>2. Overdue(c) = {FALSE}
    BY <1>1, <2>1, NotOverdue
  <2>3. UNCHANGED clients
    BY <1>1, <2>2 DEF on_check_ping
  <2> QED BY <1>1, <2>3
<1>2. ClockInv /\ [Next]_vars
      => [\A c \in clients \cap timed : on_check_ping(c) /\ c \notin clients' => c \in slow]_vars
  BY <1>1
<1> QED BY <1>2, PingClockInvariant, PTL DEF Spec, NoEarlyDrop

================================================================================
