----------------------------- MODULE MCServerHub -----------------------------
(***************************************************************************)
(* ServerHub for TLC: one room, and a peer of every kind that the code     *)
(* treats differently.                                                     *)
(***************************************************************************)
EXTENDS ServerHub

CONSTANTS lobby, nowhere, toolong, right, wrong

MCRooms == {lobby}
MCJunk == [c \in Conns |-> <<"junk", c>>]
MCPassword == [r \in {lobby} |-> right]

MCIntent(room, password, version, valid) ==
  [room |-> room, password |-> password, version |-> version, valid |-> valid]

MCMember == MCIntent(lobby, right, PROTOCOL_VERSION, TRUE)
MCStranger == MCIntent(lobby, wrong, PROTOCOL_VERSION, TRUE)

MCClients ==
  LET special == CHOOSE c \in Conns : TRUE
  IN  [c \in Conns |->
         {MCMember, MCStranger,
          MCIntent(nowhere, right, PROTOCOL_VERSION, TRUE)} \cup
         (IF c # special THEN {} ELSE
            {MCIntent(lobby, right, PROTOCOL_VERSION, FALSE),
             MCIntent(toolong, right, PROTOCOL_VERSION, TRUE),
             MCIntent(lobby, right, PROTOCOL_VERSION - 1, TRUE)})]
=============================================================================
