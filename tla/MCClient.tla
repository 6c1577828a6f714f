------------------------------- MODULE MCClient -------------------------------
(***************************************************************************)
(* EasyTcpClient with a few messages.                                      *)
(***************************************************************************)
EXTENDS EasyTcpClient, TLC
===============================================================================
