------------------------------ MODULE MCChatRoom ------------------------------
(***************************************************************************)
(* The chat room with two sessions and three messages, of which two are    *)
(* remembered: a late session is given a part of the log; or with two      *)
(* messages and a command; or with a chat_client as one of the peers.      *)
(***************************************************************************)
EXTENDS ChatClient

CONSTANT MCClient

MCInit ==
    /\ InitChat
    /\ \/ typists = {} /\ others = MaxMessages /\ commands = MaxCommands
       \/ typists = {} /\ others = 2 /\ commands = 0
       \/ typists = {MCClient} /\ others = 0 /\ commands = MaxCommands

MCSpec == MCInit /\ [][NextChat]_vars /\ FairnessChat
===============================================================================
