------------------------------- MODULE MCServer -------------------------------
(***************************************************************************)
(* EasyTcpServer with two servers, two clients and two descriptors: a      *)
(* client may get the descriptor another one has just closed.              *)
(***************************************************************************)
EXTENDS EasyTcpServer, TLC
==============================================================================
