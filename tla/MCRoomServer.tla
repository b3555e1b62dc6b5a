---------------------------- MODULE MCRoomServer ----------------------------
(***************************************************************************)
(* Small instances of RoomServer for TLC.  Every user announces the same   *)
(* name, as the code allows, so users may be permuted.                     *)
(***************************************************************************)
EXTENDS RoomServer, TLC

CONSTANTS
  Name, OtherName,  \* the announced name, and one nobody announced
  MAX_COUNTER,      \* bound: counters 1..MAX_COUNTER on the wire
  Ephemeral         \* values of the ephemeral flag on the wire

MCUsernames == {Name, OtherName}
MCUsernameOf == [u \in Users |-> Name]

MCMessage(u, name, counter, ephemeral, len) ==
  [kind |-> "Message",
   ad |-> [from |-> u, username |-> name, counter |-> counter,
           ephemeral |-> ephemeral],
   len |-> len]

(* What the client of this repository sends; secrets come first, so that a *)
(* message for the history may follow each.                                *)
Messages ==
  {m \in {MCMessage(u, Name, c, e, 0) :
            u \in Users, c \in 1..MAX_COUNTER, e \in Ephemeral} :
     m.ad.ephemeral => m.ad.counter < MAX_COUNTER}
HonestFrames == Messages \cup {[kind |-> "Clear"]}

(* One frame for every check of handle_client_frame.                       *)
AllFrames ==
  HonestFrames
  \cup {[kind |-> "Hello"]}
  \cup {MCMessage(u, OtherName, 1, FALSE, 0) : u \in Users}
  \cup {MCMessage(u, Name, 1, FALSE, MAX_CIPHERTEXT_LEN + 1) : u \in Users}
  \cup {MCMessage(u, Name, 0, FALSE, 0) : u \in Users}

Symmetry == Permutations(Users)
=============================================================================
