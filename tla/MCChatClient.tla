---------------------------- MODULE MCChatClient ----------------------------
(***************************************************************************)
(* Small instances of ChatClient for TLC, with the frames of MCRoomServer. *)
(***************************************************************************)
EXTENDS ChatClient, MCRoomServer
=============================================================================
