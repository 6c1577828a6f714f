----------------------------- MODULE MCConnection -----------------------------
(***************************************************************************)
(* Connection with the sizes scaled down: a login (and its reply) is 3     *)
(* bytes, a heartbeat (and its reply) and a header 2, a logout 3 with no   *)
(* reply; the send buffer is larger than the receive buffer, as in CELL.hpp*)
(***************************************************************************)
EXTENDS Connection, TLC

MCKinds == {"login", "heart", "logout"}
MCLength == [login |-> 3, loginR |-> 3, heart |-> 2, heartR |-> 2, logout |-> 3]
MCReply == [login |-> "loginR", heart |-> "heartR", logout |-> "none"]
==============================================================================
