------------------------------- MODULE MCThread -------------------------------
(***************************************************************************)
(* CELLThread with two controlling threads and three incarnations of the   *)
(* worker.                                                                 *)
(***************************************************************************)
EXTENDS CELLThread, TLC
==============================================================================
