-------------------------------- MODULE MCPing --------------------------------
(***************************************************************************)
(* Two clients of PingServer: both of them with sessions whose waits end   *)
(* at any moment, or one of them with the clock kept, a limit of two ticks *)
(* and answers that come in time, at the limit or too late.                *)
(***************************************************************************)
EXTENDS PingClient

MCInit ==
    /\ Init
    /\ \/ timed = {} /\ \A c \in Clients : at[c] = "connect"
       \/ \E c \in Clients : timed = {c} /\ \A d \in Clients : at[d] = "connect" <=> c = d

MCSpec == MCInit /\ [][Next]_vars /\ Fairness
===============================================================================
