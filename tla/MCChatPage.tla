---------------------------- MODULE MCChatPage ----------------------------
(* ChatPage for TLC: a private thread that has three messages and gets     *)
(* three more, a group thread without a conversation; pages of two         *)
(* messages, copies of three.                                              *)
EXTENDS ChatPage

CONSTANTS private, group

MCThreads == {private, group}
MCPrivate == private
MCStartLog == [t \in MCThreads |-> IF t = private THEN 3 ELSE 0]
MCEndLog == [t \in MCThreads |-> IF t = private THEN 6 ELSE 1]
=============================================================================
