----------------------------- MODULE MCTaskServer -----------------------------
(***************************************************************************)
(* CELLTaskServer as the worker of CELLLog: one process, from its first    *)
(* statement to the end of ~CELLLog.  Two lines are those of setLogPath    *)
(* and ~CELLLog, the others are logged by any thread.                      *)
(***************************************************************************)
EXTENDS CELLLog, TLC
==============================================================================
