------------------------------- MODULE MCChatroom -------------------------------
(* The instance of Chatroom. *)
EXTENDS Chatroom
=============================================================================
