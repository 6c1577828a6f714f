------------------------------ MODULE MCHeartbeat ------------------------------
(***************************************************************************)
(* Heartbeat for MaxTime units of time: long enough for a client to be     *)
(* dropped, and to be kept by messages past the time it would have been.   *)
(***************************************************************************)
EXTENDS Heartbeat, TLC

CONSTANT MaxTime

MCNext ==
    \/ now < MaxTime /\ Tick
    \/ Join \/ CheckTime
    \/ \E c \in Clients : addClient(c) \/ resetDTHeart(c) \/ Leave(c)

MCSpec == HeartInit /\ [][MCNext]_heartVars
================================================================================
